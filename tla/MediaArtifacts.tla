--------------------------- MODULE MediaArtifacts ---------------------------
(***************************************************************************)
(* The files an indexing job derives from a video: the scene images of the *)
(* indexer (processing/indexer.py) and the dense visual generations with   *)
(* their thumbnail aliases (search/visual_index.py).  Both are built in a  *)
(* directory no reader looks at, renamed, and only then named by a row of  *)
(* the database, on the one thread of the dispatcher.  A build can fail at *)
(* every step, be cancelled at its checkpoints, and end with the process.  *)
(*                                                                         *)
(* A build is one attempt at one stage and has a directory of its own, for *)
(* generation ids are fresh.  The video is abstracted to its content, that *)
(* anybody can replace and put back at any time; the visual builder reads  *)
(* its digest before and after and its frames in between.  Vectors,        *)
(* metadata and the checks of their shape are one step that succeeds or    *)
(* fails.                                                                  *)
(***************************************************************************)
EXTENDS Naturals, FiniteSets

CONSTANTS
    Builds,        \* bound: attempts at a scenes or dense visual stage
    Aliases,       \* thumbnails of a dense generation, at least one
    OtherContents, \* bound: contents the video file can have besides its own
    MaxCrashes     \* bound: times the process dies

None  == "none"
Asset == 0                 \* the content the database has the digest of
SourceBytes == 0..OtherContents
Kinds == {"scenes", "dense"}

ArtifactsAssumption ==
    /\ {OtherContents, MaxCrashes} \subseteq Nat
    /\ Aliases # {} /\ IsFiniteSet(Aliases) /\ None \notin Builds

VARIABLES
    source,    \* the content of the video
    restored,  \* history: dense builds under which their content came back
    build,     \* build[b]: [kind, at, claim, shot], shot the contents its frames are of
    dir,       \* dir[b]: none, staging, final
    files,     \* builds whose files are all written in their directory
    alias,     \* alias[b]: thumbnails linked for a dense build
    rows,      \* builds a row of the database names
    running,   \* the build of the dispatcher thread, or None
    untidy,    \* builds whose directory could not be removed
    crashes
vars == <<source, restored, build, dir, files, alias, rows, running, untidy, crashes>>

Working == {"hashed", "made", "shot", "checked", "written", "renamed", "built"}
Ended   == {"complete", "failed", "cancelled", "killed"}

Init ==
    /\ source  = Asset
    /\ build   = [b \in Builds |-> [kind |-> "scenes", at |-> "new", claim |-> Asset, shot |-> {}]]
    /\ dir     = [b \in Builds |-> "none"]
    /\ files   = {} /\ rows = {} /\ untidy = {} /\ restored = {}
    /\ alias   = [b \in Builds |-> {}]
    /\ running = None
    /\ crashes = 0

Goto(b, at) == build' = [build EXCEPT ![b].at = at]
End(b, at)  == Goto(b, at) /\ running' = None

\* What a reader that is bound to the generation needs: the directory under its
\* final name, its files, and for dense frames every thumbnail (_load_generation).
Readable(b) ==
    /\ dir[b] = "final" /\ b \in files
    /\ build[b].kind = "dense" => alias[b] = Aliases

(***************************************************************************)
(* Building.                                                               *)
(***************************************************************************)

\* A dense build starts with the digest of the video, and scenes with what the
\* job knows of it.
Begin(b, kind) ==
    /\ running = None /\ build[b].at = "new"
    /\ running' = b
    /\ build' = [build EXCEPT ![b] = [@ EXCEPT
          !.kind = kind, !.at = "hashed", !.claim = IF kind = "dense" THEN source ELSE Asset]]
    /\ UNCHANGED <<source, restored, dir, files, alias, rows, untidy, crashes>>

Mkdir(b) ==
    /\ running = b /\ build[b].at = "hashed"
    /\ dir' = [dir EXCEPT ![b] = "staging"]
    /\ Goto(b, "made")
    /\ UNCHANGED <<source, restored, files, alias, rows, running, untidy, crashes>>

\* Frames are cut out of the video one after the other and, for a dense build,
\* encoded; each is of the content the file has at that moment.
Extract(b) ==
    /\ running = b /\ build[b].at \in {"made", "shot"}
    /\ build' = [build EXCEPT ![b].shot = @ \cup {source}, ![b].at = "shot"]
    /\ UNCHANGED <<source, restored, dir, files, alias, rows, running, untidy, crashes>>

\* Scenes verify that their specification still holds (as if it does: the job
\* model has the rest); a dense build reads the digest of the video again.
MutRecheck(b) ==
    /\ running = b /\ build[b].at = "shot"
    /\ Goto(b, "checked")
    /\ UNCHANGED <<source, restored, dir, files, alias, rows, running, untidy, crashes>>
Recheck(b) ==
    /\ running = b /\ build[b].at = "shot"
    /\ build[b].kind = "dense" => source = build[b].claim
    /\ Goto(b, "checked")
    /\ UNCHANGED <<source, restored, dir, files, alias, rows, running, untidy, crashes>>

\* Vectors, metadata and the manifest, read back; scene images are there already.
Write(b) ==
    /\ running = b /\ build[b].at = "checked"
    /\ files' = files \cup {b}
    /\ Goto(b, "written")
    /\ UNCHANGED <<source, restored, dir, alias, rows, running, untidy, crashes>>

MutRename(b) ==
    /\ running = b /\ build[b].at = "checked"
    /\ dir' = [dir EXCEPT ![b] = "final"]
    /\ files' = files \cup IF build[b].kind = "scenes" THEN {b} ELSE {}
    /\ Goto(b, "renamed")
    /\ UNCHANGED <<source, restored, alias, rows, running, untidy, crashes>>
Rename(b) ==
    /\ running = b /\ build[b].at = "written"
    /\ dir' = [dir EXCEPT ![b] = "final"]
    /\ Goto(b, "renamed")
    /\ UNCHANGED <<source, restored, files, alias, rows, running, untidy, crashes>>

\* The thumbnails of a dense build are linked one by one.
Link(b, t) ==
    /\ running = b /\ build[b].kind = "dense" /\ build[b].at = "renamed"
    /\ t \notin alias[b]
    /\ alias' = [alias EXCEPT ![b] = @ \cup {t}]
    /\ UNCHANGED <<source, restored, build, dir, files, rows, running, untidy, crashes>>

\* A dense build is loaded as a reader would load it, before its descriptor is
\* handed to the indexer.
Attest(b) ==
    /\ running = b /\ build[b].at = "renamed"
    /\ Readable(b)
    /\ Goto(b, "built")
    /\ UNCHANGED <<source, restored, dir, files, alias, rows, running, untidy, crashes>>

\* One transaction writes the row and completes the stage; for dense frames it
\* compares the descriptor with the Asset.
MutCommit(b) ==
    /\ running = b /\ build[b].at = "built"
    /\ rows' = rows \cup {build[b].claim}
    /\ End(b, "complete")
    /\ UNCHANGED <<source, restored, dir, files, alias, untidy, crashes>>
Commit(b) ==
    /\ running = b /\ build[b].at = "built"
    /\ build[b].kind = "dense" => build[b].claim = Asset
    /\ rows' = rows \cup {b}
    /\ End(b, "complete")
    /\ UNCHANGED <<source, restored, dir, files, alias, untidy, crashes>>

(***************************************************************************)
(* How a build ends early.                                                 *)
(***************************************************************************)

\* Scenes remove the directory they have, under whichever name it has by then.  A
\* dense build removes the staging directory and the thumbnails; once it has been
\* handed over, nothing of it is removed.
MutCleanup(b, removed) ==
    /\ dir' = [dir EXCEPT ![b] = IF removed /\ @ = "staging" THEN "none" ELSE @]
    /\ alias' = [alias EXCEPT ![b] = IF build[b].at = "built" THEN @ ELSE {}]
    /\ untidy' = IF removed \/ dir[b] = "none" THEN untidy ELSE untidy \cup {b}
Cleanup(b, removed) ==
    /\ dir' = [dir EXCEPT ![b] =
          IF removed /\ (build[b].kind = "scenes" \/ @ = "staging") THEN "none" ELSE @]
    /\ alias' = [alias EXCEPT ![b] = IF build[b].at = "built" THEN @ ELSE {}]
    /\ untidy' = IF removed \/ dir[b] = "none" THEN untidy ELSE untidy \cup {b}

Fail(b, removed) ==
    /\ running = b /\ build[b].at \in Working
    /\ Cleanup(b, removed)
    /\ End(b, "failed")
    /\ UNCHANGED <<source, restored, files, rows, crashes>>

\* A cancellation is noticed at a checkpoint: around every scene image, before and
\* after the renaming; for dense frames only before and after the whole build.
Checkpoint(b) ==
    build[b].at \in IF build[b].kind = "scenes"
                    THEN {"hashed", "made", "shot", "written", "built"} ELSE {"hashed", "built"}
MutCancel(b, removed) ==
    /\ Checkpoint(b) \/ (build[b].at = "complete" /\ build[b].kind = "scenes")
    /\ Cleanup(b, removed)
    /\ End(b, "cancelled")
    /\ UNCHANGED <<source, restored, files, rows, crashes>>
Cancel(b, removed) ==
    /\ running = b /\ Checkpoint(b)
    /\ Cleanup(b, removed)
    /\ End(b, "cancelled")
    /\ UNCHANGED <<source, restored, files, rows, crashes>>

\* The process dies; the next one starts over with other generation ids and does
\* not look for what was left.
Crash ==
    /\ crashes < MaxCrashes /\ running # None
    /\ End(running, "killed")
    /\ crashes' = crashes + 1
    /\ UNCHANGED <<source, restored, dir, files, alias, rows, untidy>>

\* The dense builds that have read the digest of the video once, not twice.
Reading(b) ==
    running = b /\ build[b].kind = "dense" /\ build[b].at \in {"hashed", "made", "shot"}

\* Another content takes the place of the video, or the one that was there before.
Replace(c) ==
    /\ c # source
    /\ source' = c
    /\ restored' = restored \cup {b \in Builds : Reading(b) /\ build[b].claim = c}
    /\ UNCHANGED <<build, dir, files, alias, rows, running, untidy, crashes>>

Next ==
    \/ \E b \in Builds :
          \/ \E kind \in Kinds : Begin(b, kind)
          \/ Mkdir(b) \/ Extract(b) \/ Recheck(b) \/ Write(b) \/ Rename(b)
          \/ \E t \in Aliases : Link(b, t)
          \/ Attest(b) \/ Commit(b)
          \/ \E removed \in BOOLEAN : Fail(b, removed) \/ Cancel(b, removed)
    \/ Crash \/ \E c \in SourceBytes : Replace(c)
    \/ (\A b \in Builds : build[b].at \in Ended) /\ UNCHANGED vars

Spec == Init /\ [][Next]_vars

(***************************************************************************)
(* Properties.                                                             *)
(***************************************************************************)

TypeOK ==
    /\ source \in SourceBytes
    /\ build \in [Builds -> [kind : Kinds, at : {"new"} \cup Working \cup Ended,
                             claim : SourceBytes, shot : SUBSET SourceBytes]]
    /\ dir \in [Builds -> {"none", "staging", "final"}]
    /\ alias \in [Builds -> SUBSET Aliases]
    /\ files \subseteq Builds /\ rows \subseteq Builds /\ untidy \subseteq Builds
    /\ restored \subseteq Builds
    /\ running \in Builds \cup {None} /\ crashes \in 0..MaxCrashes

\* A row of the database names files a reader can load; and the frames and
\* vectors of a dense generation were all cut out of the very bytes the Asset has
\* the digest of, although the video can be replaced at any step of the build.
\* One exchange escapes the two digests: the video was something else for a while
\* and had its bytes back before the second digest (build_video_source,
\* commit_external_index_generation).
RowsNameWholeArtifacts ==
    \A b \in rows :
        /\ Readable(b)
        /\ build[b].kind = "dense" => build[b].shot = {Asset} \/ b \in restored

\* A directory that has its final name has all its files, wherever the build
\* failed, was cancelled or died: nothing half-built can be taken for a generation.
FinalNamesAreWhole == \A b \in Builds : dir[b] = "final" => b \in files

\* A build that failed or was cancelled in a living process leaves nothing of its
\* scenes, and no thumbnail or staging directory of its dense frames unless it had
\* been handed over, except where the removal itself was refused (_index_scenes,
\* build_video_source).
EndedBuildsAreTidy ==
    \A b \in Builds : build[b].at \in {"failed", "cancelled"} /\ b \notin untidy =>
        IF build[b].kind = "scenes" THEN dir[b] = "none"
        ELSE dir[b] # "staging" /\ alias[b] \in {{}, Aliases}

\* "Reindexing never deletes the previous active generation" (data-contracts.md):
\* no step of any later build, failure or cancellation touches the files of a
\* committed one.
CommittedFilesStay ==
    [][\A b \in rows : b \in rows' /\ dir'[b] = dir[b] /\ alias'[b] = alias[b]]_vars
=============================================================================
