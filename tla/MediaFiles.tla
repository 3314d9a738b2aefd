----------------------------- MODULE MediaFiles ----------------------------
(***************************************************************************)
(* Files that requests of the API create (api.py, clips.py): an upload     *)
(* writes a temporary file, moves it among the media and then inserts the  *)
(* video with its first job; an export reserves a name among the clips,    *)
(* renders into it and answers with the name.  Requests run side by side,  *)
(* fail at any step, and end when the process does.                        *)
(*                                                                         *)
(* Abstractions.  An upload's files bear its own random identity.  All     *)
(* exports ask for one name, so that they meet; names are the numbers of   *)
(* the candidates.  Parts and lists of a montage lie in a directory of     *)
(* their own and are left out.  A request that is cancelled, as at the end *)
(* of the server, skips the cleanup of an exception.                       *)
(***************************************************************************)
EXTENDS Naturals, FiniteSets

CONSTANTS
    Uploads, Exports, \* requests
    None,
    MaxNames,  \* bound: candidates for a clip's name
    MaxFaults  \* bound: ends of the process and cancelled requests

ConstantsAssumption ==
    /\ Uploads \cap Exports = {} /\ MaxNames \in Nat /\ MaxFaults \in Nat
    /\ None \notin Exports \cup [of : Exports, much : {"empty", "part", "whole"}]

VARIABLES
    at,     \* of each request: where it is
    temp,   \* of each upload: no, part or whole
    media,  \* of each upload: no, part or whole
    rows,   \* uploads whose video is in the database
    clips,  \* of each name: None, or whose clip it is and how much of it
    name,   \* of each export: the candidate it is at
    faults

vars == <<at, temp, media, rows, clips, name, faults>>

Names == 1..MaxNames
Goes(r, step) == at' = [at EXCEPT ![r] = step]

Init ==
    /\ at = [r \in Uploads \cup Exports |-> "new"]
    /\ temp = [u \in Uploads |-> "no"] /\ media = [u \in Uploads |-> "no"] /\ rows = {}
    /\ clips = [n \in Names |-> None] /\ name = [x \in Exports |-> 1]
    /\ faults = 0

(***************************************************************************)
(* Uploads.                                                                *)
(***************************************************************************)
Receive(u) ==
    /\ at[u] \in {"new", "receiving"} /\ Goes(u, "receiving")
    /\ temp' = [temp EXCEPT ![u] = "part"]
    /\ UNCHANGED <<media, rows, clips, name, faults>>
\* The last chunk is written, and the size is checked once more.
Received(u) ==
    /\ at[u] = "receiving" /\ Goes(u, "received")
    /\ temp' = [temp EXCEPT ![u] = "whole"]
    /\ UNCHANGED <<media, rows, clips, name, faults>>
Move(u) ==
    /\ at[u] = "received" /\ Goes(u, "moved")
    /\ media' = [media EXCEPT ![u] = temp[u]] /\ temp' = [temp EXCEPT ![u] = "no"]
    /\ UNCHANGED <<rows, clips, name, faults>>
\* create_ingest: the transaction, and then the dispatcher is woken; a failure to wake
\* it is logged.
Insert(u) ==
    /\ at[u] = "moved" /\ Goes(u, "answered") /\ rows' = rows \cup {u}
    /\ UNCHANGED <<temp, media, clips, name, faults>>
\* Too large, empty, no space, no plan, or the transaction fails.
MutRefuseUpload(u) ==
    /\ at[u] \in {"receiving", "received", "moved", "answered"} /\ Goes(u, "refused")
    /\ temp' = [temp EXCEPT ![u] = "no"] /\ media' = [media EXCEPT ![u] = "no"]
    /\ UNCHANGED <<rows, clips, name, faults>>
RefuseUpload(u) ==
    /\ at[u] \in {"receiving", "received", "moved"} /\ Goes(u, "refused")
    /\ temp' = [temp EXCEPT ![u] = "no"] /\ media' = [media EXCEPT ![u] = "no"]
    /\ UNCHANGED <<rows, clips, name, faults>>

(***************************************************************************)
(* Exports.                                                                *)
(***************************************************************************)
Holds(x, much) == [of |-> x, much |-> much]
Write(x, much) == clips' = [clips EXCEPT ![name[x]] = Holds(x, much)]

MutReserve(x) ==
    /\ at[x] = "new" /\ name[x] \in Names
    /\ IF clips[name[x]] = None \/ clips[name[x]].much = "empty"
       THEN Write(x, "empty") /\ Goes(x, "rendering") /\ UNCHANGED name
       ELSE /\ name' = [name EXCEPT ![x] = @ + 1]
            /\ UNCHANGED <<at, clips>>
    /\ UNCHANGED <<temp, media, rows, faults>>
\* _reserve_export_path: one candidate after another is created if it is not there.
Reserve(x) ==
    /\ at[x] = "new" /\ name[x] \in Names
    /\ IF clips[name[x]] = None
       THEN Write(x, "empty") /\ Goes(x, "rendering") /\ UNCHANGED name
       ELSE /\ name' = [name EXCEPT ![x] = @ + 1]
            /\ UNCHANGED <<at, clips>>
    /\ UNCHANGED <<temp, media, rows, faults>>
\* export_montage: one clip is renamed into place, several are joined in place.
Rename(x) ==
    /\ at[x] = "rendering" /\ Write(x, "whole") /\ Goes(x, "rendered")
    /\ UNCHANGED <<temp, media, rows, name, faults>>
Join(x) ==
    /\ at[x] \in {"rendering", "joining"}
    /\ \/ Write(x, "part") /\ Goes(x, "joining")
       \/ Write(x, "whole") /\ Goes(x, "rendered")
    /\ UNCHANGED <<temp, media, rows, name, faults>>
Exported(x) ==
    /\ at[x] = "rendered" /\ Goes(x, "answered")
    /\ UNCHANGED <<temp, media, rows, clips, name, faults>>
ExportFails(x) ==
    /\ at[x] \in {"rendering", "joining"} /\ Goes(x, "refused")
    /\ clips' = [clips EXCEPT ![name[x]] = None]
    /\ UNCHANGED <<temp, media, rows, name, faults>>

(***************************************************************************)
(* The end of a request without its cleanup.                               *)
(***************************************************************************)
Fault == faults < MaxFaults /\ faults' = faults + 1
\* At an await: of the next chunk, or of the form's close after the move.
Cancelled(u) ==
    /\ at[u] \in {"receiving", "moved"} /\ Fault /\ Goes(u, "refused")
    /\ UNCHANGED <<temp, media, rows, clips, name>>
ProcessEnds ==
    /\ Fault
    /\ at' = [r \in DOMAIN at |-> IF at[r] \in {"new", "answered"} THEN at[r] ELSE "refused"]
    /\ UNCHANGED <<temp, media, rows, clips, name>>

Next ==
    \/ \E u \in Uploads :
          Receive(u) \/ Received(u) \/ Move(u) \/ Insert(u) \/ RefuseUpload(u) \/ Cancelled(u)
    \/ \E x \in Exports : Reserve(x) \/ Rename(x) \/ Join(x) \/ Exported(x) \/ ExportFails(x)
    \/ ProcessEnds
Spec == Init /\ [][Next]_vars

(***************************************************************************)
(* Properties.                                                             *)
(***************************************************************************)
\* A video in the database has its whole media, whatever its request or any other does
\* or fails at afterwards (upload_video).
RowsHaveMedia == \A u \in rows : media[u] = "whole"

\* The clip an export was answered with stays whole and its own under that name, though
\* other exports ask for the same name, fail and give theirs back (_reserve_export_path).
ExportsKept == \A x \in Exports : at[x] = "answered" => clips[name[x]] = Holds(x, "whole")

\* What is served under a clip's name is a whole clip (exported_clip answers with
\* "Exported MP4 bytes").
ServedWhole == \A n \in Names : clips[n] # None => clips[n].much = "whole"
=============================================================================
