--------------------------- MODULE AssetIdentity --------------------------
(***************************************************************************)
(* The identity of a video's media (repository.py): ensure_asset_identity, *)
(* verify_asset_identity and verify_existing_asset_identity hash the file  *)
(* while others may rewrite, replace or remove it, and compare the digest  *)
(* with the asset the video is linked to, or link it.  The lock of a video *)
(* holds within one process; between processes there is the transaction.   *)
(*                                                                         *)
(* Abstractions.  One video.  A file is two chunks and a stamp for what    *)
(* fstat tells of it: every write to a file gives it another one.  The     *)
(* digest of a file is its chunks.  A file that is no regular file of the  *)
(* recorded size is one that is absent.  Paths, their symbolic links and   *)
(* retained volumes are left out, and so is a corrupt row of an asset.     *)
(***************************************************************************)
EXTENDS Naturals, FiniteSets

CONSTANTS
    Callers,
    Elsewhere,  \* those of another process
    None,
    Contents,   \* bound: what the file is replaced by, of Chunks
    MaxChanges  \* bound: changes of the file

Chunks == {0, 1} \X {0, 1}
ConstantsAssumption ==
    Elsewhere \subseteq Callers /\ Contents \subseteq Chunks /\ MaxChanges \in Nat

VARIABLES
    path,    \* the number of the file at the media path, or None
    files,   \* of each number: chunks and stamp
    asset,   \* digest of the asset of the video, or None
    call,    \* of each caller: what it does, where it is and what it holds
    locks,   \* the two processes' locks: their holder, or None
    changes

vars == <<path, files, asset, call, locks, changes>>

CallKinds == {"ensure", "verify", "existing"}
Numbers == 1..(MaxChanges + 1)
Process(c) == IF c \in Elsewhere THEN 2 ELSE 1
\* What the path holds: a digest, or None.
AtPath == IF path = None THEN None ELSE files[path].chunks

NoCall == [kind |-> None, at |-> "idle", known |-> None, file |-> None, stamp |-> None,
           first |-> None, digest |-> None, been |-> {}]
Init ==
    /\ path = 1 /\ files = [n \in Numbers |-> [chunks |-> <<0, 0>>, stamp |-> 0]]
    /\ asset \in {None, <<0, 0>>} /\ call = [c \in Callers |-> NoCall]
    /\ locks = <<None, None>> /\ changes = 0

Data == <<path, files, changes>>
Goes(c, to) == call' = [call EXCEPT ![c] = to]
Step(c, at) == Goes(c, [call[c] EXCEPT !.at = at])
Unlock(c) == locks' = [locks EXCEPT ![Process(c)] = IF @ = c THEN None ELSE @]
\* A call returns an asset, or raises; of what has been at the path, the asset is kept.
Returns(c, digest) == Goes(c, [NoCall EXCEPT !.kind = call[c].kind, !.at = "returned", !.digest = digest,
                                             !.been = call[c].been \cap {digest}]) /\ Unlock(c)
Raises(c) == Goes(c, [NoCall EXCEPT !.at = "raised"]) /\ Unlock(c)

(***************************************************************************)
(* The calls up to the hash.                                               *)
(***************************************************************************)
Begin(c, kind) ==
    /\ call[c].at = "idle"
    /\ Goes(c, [NoCall EXCEPT !.kind = kind, !.at = IF kind = "ensure" THEN "peek" ELSE "lock",
                              !.been = {AtPath}])
    /\ UNCHANGED <<Data, asset, locks>>
\* ensure looks for the asset before it takes the lock, and again under it.
Peek(c) ==
    /\ call[c].at = "peek"
    /\ IF asset # None THEN Returns(c, asset) ELSE Step(c, "lock") /\ UNCHANGED locks
    /\ UNCHANGED <<Data, asset>>
Lock(c) ==
    /\ call[c].at = "lock" /\ locks[Process(c)] = None
    /\ locks' = [locks EXCEPT ![Process(c)] = c]
    /\ Step(c, IF call[c].kind = "verify" THEN "stat" ELSE "look")
    /\ UNCHANGED <<Data, asset>>
Look(c) ==
    /\ call[c].at = "look"
    /\ IF call[c].kind = "ensure" /\ asset # None THEN Returns(c, asset)
       ELSE IF call[c].kind = "existing" /\ asset = None THEN Raises(c)
       ELSE Goes(c, [call[c] EXCEPT !.at = "stat", !.known = asset]) /\ UNCHANGED locks
    /\ UNCHANGED <<Data, asset>>

(***************************************************************************)
(* _hash_managed_regular_file.                                             *)
(***************************************************************************)
\* _file_identity: what fstat tells, the times of the last change included.
MutStamp(n) == 0
Stamp(n) == files[n].stamp
Stat(c) ==
    /\ call[c].at = "stat"
    /\ IF path = None THEN Raises(c)
       ELSE /\ Goes(c, [call[c] EXCEPT !.at = "open", !.file = path, !.stamp = Stamp(path)])
            /\ UNCHANGED locks
    /\ UNCHANGED <<Data, asset>>
\* The file that is opened must be the one that was looked at.
Same(c) == path = call[c].file /\ Stamp(path) = call[c].stamp
Open(c) ==
    /\ call[c].at = "open"
    /\ IF Same(c) THEN Step(c, "first") /\ UNCHANGED locks ELSE Raises(c)
    /\ UNCHANGED <<Data, asset>>
ReadFirst(c) ==
    /\ call[c].at = "first"
    /\ Goes(c, [call[c] EXCEPT !.at = "second", !.first = files[call[c].file].chunks[1]])
    /\ UNCHANGED <<Data, asset, locks>>
ReadSecond(c) ==
    /\ call[c].at = "second"
    /\ Goes(c, [call[c] EXCEPT !.at = "after", !.digest = <<call[c].first, files[call[c].file].chunks[2]>>])
    /\ UNCHANGED <<Data, asset, locks>>
\* fstat of the open file, and then stat of the path again.
After(c) ==
    /\ call[c].at = "after"
    /\ IF Stamp(call[c].file) = call[c].stamp THEN Step(c, "again") /\ UNCHANGED locks ELSE Raises(c)
    /\ UNCHANGED <<Data, asset>>
Again(c) ==
    /\ call[c].at = "again"
    /\ IF ~Same(c) THEN Raises(c)
       ELSE Step(c, IF call[c].kind = "ensure" THEN "link" ELSE "compare") /\ UNCHANGED locks
    /\ UNCHANGED <<Data, asset>>

(***************************************************************************)
(* The end of the calls.  verify reads the asset only now.                 *)
(***************************************************************************)
Compare(c) ==
    /\ call[c].at = "compare"
    /\ LET existing == IF call[c].kind = "verify" THEN asset ELSE call[c].known
       IN  IF existing = None THEN Step(c, "link") /\ UNCHANGED locks
           ELSE IF existing = call[c].digest THEN Returns(c, existing) ELSE Raises(c)
    /\ UNCHANGED <<Data, asset>>
\* _link_video_asset, a transaction.
MutLink(c) ==
    /\ call[c].at = "link"
    /\ asset' = call[c].digest /\ Returns(c, call[c].digest)
    /\ UNCHANGED Data
Link(c) ==
    /\ call[c].at = "link"
    /\ IF asset \in {None, call[c].digest} THEN asset' = call[c].digest /\ Returns(c, call[c].digest)
       ELSE Raises(c) /\ UNCHANGED asset
    /\ UNCHANGED Data

(***************************************************************************)
(* What others do to the file.                                             *)
(***************************************************************************)
Changes ==
    /\ changes < MaxChanges /\ changes' = changes + 1 /\ UNCHANGED <<asset, locks>>
    /\ call' = [c \in Callers |-> IF call[c].at \in {"idle", "returned", "raised"} THEN call[c]
                                  ELSE [call[c] EXCEPT !.been = @ \cup {AtPath'}]]
Rewrite ==
    /\ path # None /\ UNCHANGED path
    /\ LET old == files[path].chunks
       IN  \E i \in {1, 2} : files' = [files EXCEPT ![path] = [chunks |-> [old EXCEPT ![i] = 1 - @],
                                                               stamp |-> changes + 1]]
    /\ Changes
Replace ==
    /\ changes < MaxChanges /\ path' = changes + 2
    /\ \E content \in Contents : files' = [files EXCEPT ![path'] = [chunks |-> content, stamp |-> changes + 1]]
    /\ Changes
Remove == path # None /\ path' = None /\ UNCHANGED files /\ Changes

Next ==
    \/ \E c \in Callers :
          \/ \E kind \in CallKinds : Begin(c, kind)
          \/ Peek(c) \/ Lock(c) \/ Look(c)
          \/ Stat(c) \/ Open(c) \/ ReadFirst(c) \/ ReadSecond(c) \/ After(c) \/ Again(c)
          \/ Compare(c) \/ Link(c)
    \/ Rewrite \/ Replace \/ Remove
Spec == Init /\ [][Next]_vars

(***************************************************************************)
(* Properties.                                                             *)
(***************************************************************************)
\* A verification that returns found, at one moment of the call, a file of just that
\* content at the path, however it was rewritten or replaced meanwhile; and so did the
\* call that linked the asset (_hash_managed_regular_file).
VerifiedWasThere ==
    \A c \in Callers : call[c].at = "returned" /\ call[c].kind # "ensure" => call[c].digest \in call[c].been

\* Callers of all processes are told one asset, which then is the video's
\* (_link_video_asset).
AnswersAgree == \A c \in Callers : call[c].at = "returned" => call[c].digest = asset
=============================================================================
