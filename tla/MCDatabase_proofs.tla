------------------------- MODULE MCDatabase_proofs -------------------------
(***************************************************************************)
(* What is stored stays true, for any number of videos, programs, callers, *)
(* requests, faults and changes: the media files of uploads and exports,   *)
(* the identity of assets, the adoption of queued work and the upgrade     *)
(* each have an inductive invariant, which the group's properties follow   *)
(* from.  Last come the tables of the durable jobs, under every sequence   *)
(* of statements: the types, the retry lineage, the gate in front of the   *)
(* active pointers, and the exact receipts of a completion.                *)
(***************************************************************************)
EXTENDS MCDatabase, FiniteSetTheorems, WellFoundedInduction, TLAPS

-----------------------------------------------------------------------------
(***************************************************************************)
(* The files of uploads and exports, for any number of them.               *)
(***************************************************************************)

Amounts == {"empty", "part", "whole"}
Clip(x, much) == [of |-> x, much |-> much]
Owners == {"rendering", "joining", "rendered", "answered"}

MediaType ==
    /\ DOMAIN mediaAt = Uploads \cup Exports
    /\ DOMAIN mediaTemp = Uploads /\ DOMAIN mediaMedia = Uploads
    /\ DOMAIN mediaClips = Media!Names /\ DOMAIN mediaName = Exports
    /\ mediaAt = [r \in DOMAIN mediaAt |-> mediaAt[r]]
    /\ mediaTemp = [u \in DOMAIN mediaTemp |-> mediaTemp[u]]
    /\ mediaMedia = [u \in DOMAIN mediaMedia |-> mediaMedia[u]]
    /\ mediaClips = [n \in DOMAIN mediaClips |-> mediaClips[n]]
    /\ mediaName = [x \in DOMAIN mediaName |-> mediaName[x]]
    /\ mediaRows \subseteq Uploads

\* What an upload has written by each step; a video is inserted by an upload that
\* refuses no more.
UploadsHold ==
    \A u \in Uploads :
        /\ mediaAt[u] = "received" => mediaTemp[u] = "whole"
        /\ mediaAt[u] = "moved" => mediaMedia[u] = "whole"
        /\ u \in mediaRows => mediaAt[u] = "answered" /\ mediaMedia[u] = "whole"

\* From its reservation on, an export alone owns its name, so no other export writes
\* to it or gives it back.
ExportsOwn ==
    \A x \in Exports : mediaAt[x] \in Owners =>
        /\ mediaName[x] \in Media!Names
        /\ \E much \in Amounts :
              /\ mediaClips[mediaName[x]] = Clip(x, much)
              /\ mediaAt[x] \in {"rendered", "answered"} => much = "whole"

MediaInv == MediaType /\ UploadsHold /\ ExportsOwn

\* A clip tells its owner, and that there is one.
LEMMA ClipsDiffer ==
  ASSUME NEW x \in Exports, NEW y \in Exports, NEW m \in Amounts, NEW n \in Amounts
  PROVE  /\ Clip(x, m) = Clip(y, n) => x = y /\ m = n
         /\ Clip(x, m) # Nil
  BY MediaAssumption DEF Clip, Amounts, Media!ConstantsAssumption

LEMMA MediaInit == Media!Init => MediaInv
  BY DEF Media!Init, MediaInv, MediaType, UploadsHold, ExportsOwn, Owners

LEMMA UploadSteps ==
  ASSUME MediaInv, NEW u \in Uploads,
         \/ Media!Receive(u) \/ Media!Received(u) \/ Media!Move(u) \/ Media!Insert(u)
         \/ Media!RefuseUpload(u) \/ Media!Cancelled(u)
  PROVE  MediaInv'
<1> USE DEF MediaInv, Media!Goes, Media!Fault
<1>1. u \notin Exports
  BY MediaAssumption DEF Media!ConstantsAssumption
<1>2. MediaType'
  BY DEF MediaType, Media!Receive, Media!Received, Media!Move, Media!Insert,
         Media!RefuseUpload, Media!Cancelled
<1>3. UploadsHold'
  <2>1. CASE Media!Receive(u)
    BY <2>1 DEF MediaType, UploadsHold, Media!Receive
  <2>2. CASE Media!Received(u)
    BY <2>2 DEF MediaType, UploadsHold, Media!Received
  <2>3. CASE Media!Move(u)
    BY <2>3 DEF MediaType, UploadsHold, Media!Move
  <2>4. CASE Media!Insert(u)
    BY <2>4 DEF MediaType, UploadsHold, Media!Insert
  <2>5. CASE Media!RefuseUpload(u)
    BY <2>5 DEF MediaType, UploadsHold, Media!RefuseUpload
  <2>6. CASE Media!Cancelled(u)
    BY <2>6 DEF MediaType, UploadsHold, Media!Cancelled
  <2> QED
    BY <2>1, <2>2, <2>3, <2>4, <2>5, <2>6
<1>4. /\ \A x \in Exports : mediaAt'[x] = mediaAt[x]
      /\ UNCHANGED <<mediaClips, mediaName>>
  BY <1>1 DEF MediaType, Media!Receive, Media!Received, Media!Move, Media!Insert,
         Media!RefuseUpload, Media!Cancelled
<1>5. ExportsOwn'
  BY <1>4 DEF ExportsOwn
<1> QED
  BY <1>2, <1>3, <1>5

\* A step of an export writes at most the name it owns, or one that nobody does.
LEMMA ExportKeeps ==
  ASSUME MediaInv, MediaType', NEW x \in Exports,
         \A r \in Uploads \cup Exports : r # x => mediaAt'[r] = mediaAt[r],
         \A y \in Exports : y # x => mediaName'[y] = mediaName[y],
         \A n \in Media!Names : n # mediaName[x] => mediaClips'[n] = mediaClips[n],
         \/ mediaAt[x] \in Owners
         \/ mediaName[x] \in Media!Names /\ mediaClips[mediaName[x]] = Nil
         \/ mediaClips' = mediaClips,
         mediaAt'[x] \in Owners =>
            /\ mediaName'[x] \in Media!Names
            /\ \E much \in Amounts :
                  /\ mediaClips'[mediaName'[x]] = Clip(x, much)
                  /\ mediaAt'[x] \in {"rendered", "answered"} => much = "whole",
         UNCHANGED <<mediaTemp, mediaMedia, mediaRows>>
  PROVE  MediaInv'
<1>1. x \notin Uploads
  BY MediaAssumption DEF Media!ConstantsAssumption
<1>2. UploadsHold'
  BY <1>1 DEF MediaInv, UploadsHold
<1>3. ASSUME NEW y \in Exports, y # x, mediaAt[y] \in Owners
      PROVE  mediaClips'[mediaName[y]] = mediaClips[mediaName[y]]
  <2>1. mediaName[y] \in Media!Names
    BY <1>3 DEF MediaInv, ExportsOwn
  <2>2. PICK m \in Amounts : mediaClips[mediaName[y]] = Clip(y, m)
    BY <1>3 DEF MediaInv, ExportsOwn
  <2>3. CASE mediaAt[x] \in Owners
    <3>1. PICK n \in Amounts : mediaClips[mediaName[x]] = Clip(x, n)
      BY <2>3 DEF MediaInv, ExportsOwn
    <3>2. mediaName[y] # mediaName[x]
      BY <1>3, <2>2, <3>1, ClipsDiffer
    <3> QED
      BY <2>1, <3>2
  <2>4. CASE mediaClips[mediaName[x]] = Nil
    BY <2>1, <2>2, <2>4, ClipsDiffer
  <2> QED
    BY <2>3, <2>4
<1>4. ExportsOwn'
  <2> SUFFICES ASSUME NEW y \in Exports, mediaAt'[y] \in Owners
      PROVE  /\ mediaName'[y] \in Media!Names
             /\ \E much \in Amounts :
                   /\ mediaClips'[mediaName'[y]] = Clip(y, much)
                   /\ mediaAt'[y] \in {"rendered", "answered"} => much = "whole"
    BY DEF ExportsOwn
  <2>1. CASE y = x
    BY <2>1
  <2>2. CASE y # x
    BY <1>3, <2>2 DEF MediaInv, ExportsOwn
  <2> QED
    BY <2>1, <2>2
<1> QED
  BY <1>2, <1>4 DEF MediaInv

LEMMA ExportSteps ==
  ASSUME MediaInv, NEW x \in Exports,
         \/ Media!Reserve(x) \/ Media!Rename(x) \/ Media!Join(x) \/ Media!Exported(x)
         \/ Media!ExportFails(x)
  PROVE  MediaInv'
<1> USE DEF MediaInv, Media!Goes, Media!Write, Media!Holds, Amounts, Clip
<1>1. MediaType'
  BY DEF MediaType, Media!Reserve, Media!Rename, Media!Join, Media!Exported,
         Media!ExportFails
<1>2. CASE Media!Reserve(x)
  <2>1. CASE mediaClips[mediaName[x]] = Nil
    <3>1. mediaAt'[x] = "rendering" /\ mediaName'[x] = mediaName[x]
      BY <1>2, <2>1 DEF MediaType, Media!Reserve
    <3>2. mediaClips'[mediaName[x]] = Clip(x, "empty")
      BY <1>2, <2>1 DEF MediaType, Media!Reserve
    <3> QED
      BY <1>1, <1>2, <2>1, <3>1, <3>2, ExportKeeps DEF MediaType, Media!Reserve, Owners
  <2>2. CASE mediaClips[mediaName[x]] # Nil
    BY <1>1, <1>2, <2>2, ExportKeeps DEF MediaType, Media!Reserve, Owners
  <2> QED
    BY <2>1, <2>2
<1>3. CASE Media!Rename(x) \/ Media!Join(x)
  <2>1. mediaAt[x] \in Owners /\ mediaName[x] \in Media!Names
    BY <1>3 DEF Media!Rename, Media!Join, ExportsOwn, Owners
  <2>2. PICK much \in Amounts :
           /\ mediaClips' = [mediaClips EXCEPT ![mediaName[x]] = Clip(x, much)]
           /\ mediaAt' = [mediaAt EXCEPT ![x] = IF much = "whole" THEN "rendered" ELSE "joining"]
    BY <1>3 DEF Media!Rename, Media!Join
  <2>3. UNCHANGED <<mediaTemp, mediaMedia, mediaRows, mediaName>>
    BY <1>3 DEF Media!Rename, Media!Join
  <2>4. mediaClips'[mediaName[x]] = Clip(x, much)
    BY <2>1, <2>2 DEF MediaType
  <2>5. mediaAt'[x] = IF much = "whole" THEN "rendered" ELSE "joining"
    BY <2>2 DEF MediaType
  <2> QED
    BY <1>1, <2>1, <2>2, <2>3, <2>4, <2>5, ExportKeeps DEF MediaType
<1>4. CASE Media!Exported(x)
  <2>1. mediaAt[x] = "rendered" /\ mediaAt'[x] = "answered"
    BY <1>4 DEF MediaType, Media!Exported
  <2>2. mediaName[x] \in Media!Names /\ mediaClips[mediaName[x]] = Clip(x, "whole")
    BY <2>1 DEF ExportsOwn, Owners
  <2>3. UNCHANGED <<mediaTemp, mediaMedia, mediaRows, mediaClips, mediaName>>
    BY <1>4 DEF Media!Exported
  <2>4. \A r \in Uploads \cup Exports : r # x => mediaAt'[r] = mediaAt[r]
    BY <1>4 DEF MediaType, Media!Exported
  <2> QED
    BY <1>1, <2>1, <2>2, <2>3, <2>4, ExportKeeps
<1>5. CASE Media!ExportFails(x)
  BY <1>1, <1>5, ExportKeeps DEF MediaType, Media!ExportFails, Owners
<1> QED
  BY <1>2, <1>3, <1>4, <1>5

LEMMA MediaKeeps == MediaInv /\ Media!Next => MediaInv'
<1> SUFFICES ASSUME MediaInv, Media!Next PROVE MediaInv'
  OBVIOUS
<1>1. CASE Media!ProcessEnds
  BY <1>1 DEF MediaInv, MediaType, UploadsHold, ExportsOwn, Owners, Media!ProcessEnds
<1> QED
  BY <1>1, UploadSteps, ExportSteps DEF Media!Next

LEMMA MediaSound == MediaInv => Media!RowsHaveMedia /\ Media!ExportsKept
  BY DEF MediaInv, MediaType, UploadsHold, ExportsOwn, Owners, Clip, Amounts,
         Media!RowsHaveMedia, Media!ExportsKept, Media!Holds

-----------------------------------------------------------------------------
(***************************************************************************)
(* The identity of a video's asset, for any number of callers in two       *)
(* processes and any number of changes of the file.                        *)
(***************************************************************************)

Ended == {"idle", "returned", "raised"}
Reading == {"open", "first", "second", "after", "again"}
CallFields == {"kind", "at", "known", "file", "stamp", "first", "digest", "been"}

IdentityType ==
    /\ identityChanges \in 0..MaxChanges
    /\ identityPath \in Identity!Numbers \cup {Nil}
    /\ identityFiles \in [Identity!Numbers -> [chunks : Identity!Chunks, stamp : 0..MaxChanges]]
    /\ \A n \in Identity!Numbers : identityFiles[n].stamp <= identityChanges
    /\ DOMAIN identityCall = Callers
    /\ \A c \in Callers : DOMAIN identityCall[c] = CallFields

\* While the file a call has open bears the stamp the call was told, what the call has
\* read of it is what it still holds: a stamp is given once.
Faithful(k) ==
    /\ k.file \in Identity!Numbers /\ k.file # Nil
    /\ k.stamp \in Nat /\ k.stamp <= identityChanges
    /\ identityFiles[k.file].stamp = k.stamp =>
         /\ k.at = "second" => k.first = identityFiles[k.file].chunks[1]
         /\ k.at \in {"after", "again"} => k.digest = identityFiles[k.file].chunks

\* What a call knows, where it is.
Knows(k) ==
    /\ k.at = "peek" => k.kind = "ensure"
    /\ k.at \notin Ended => Identity!AtPath \in k.been
    /\ k.at \in Reading => Faithful(k)
    /\ k.at \in {"compare", "link"} => k.digest \in k.been
    /\ k.at = "returned" /\ k.kind # "ensure" => k.digest \in k.been

IdentityInv == IdentityType /\ \A c \in Callers : Knows(identityCall[c])

LEMMA IdentityInit == Identity!Init => IdentityInv
<1> SUFFICES ASSUME Identity!Init PROVE IdentityInv
  OBVIOUS
<1> USE DEF Identity!Init
<1>1. MaxChanges \in Nat
  BY IdentityAssumption DEF Identity!ConstantsAssumption
<1>2. 1 \in Identity!Numbers
  BY <1>1 DEF Identity!Numbers
<1>3. IdentityType
  BY <1>1, <1>2 DEF IdentityType, Identity!Chunks, Identity!NoCall, CallFields
<1>4. \A c \in Callers : Knows(identityCall[c])
  BY DEF Knows, Identity!NoCall, Ended, Reading
<1> QED
  BY <1>3, <1>4 DEF IdentityInv

\* A step of a call is judged by what the call then knows.
LEMMA CallStep ==
  ASSUME IdentityInv, NEW c \in Callers, NEW to,
         UNCHANGED <<identityPath, identityFiles, identityChanges>>,
         identityCall' = [identityCall EXCEPT ![c] = to],
         DOMAIN to = CallFields, Knows(to)
  PROVE  IdentityInv'
<1>1. IdentityType'
  BY DEF IdentityInv, IdentityType
<1>2. Identity!AtPath' = Identity!AtPath
  BY DEF Identity!AtPath
<1>3. ASSUME NEW d \in Callers PROVE Knows(identityCall[d])'
  <2>1. identityCall'[d] = IF d = c THEN to ELSE identityCall[d]
    BY DEF IdentityInv, IdentityType
  <2>2. Knows(identityCall'[d])
    BY <2>1 DEF IdentityInv
  <2> QED
    BY <1>2, <2>2 DEF Knows, Faithful
<1> QED
  BY <1>1, <1>3 DEF IdentityInv

\* The ends of a call.
LEMMA ReturnStep ==
  ASSUME IdentityInv, NEW c \in Callers, NEW digest,
         UNCHANGED <<identityPath, identityFiles, identityChanges>>,
         Identity!Returns(c, digest),
         identityCall[c].kind # "ensure" => digest \in identityCall[c].been
  PROVE  IdentityInv'
<1> DEFINE to == [Identity!NoCall EXCEPT !.kind = identityCall[c].kind, !.at = "returned",
                                         !.digest = digest,
                                         !.been = identityCall[c].been \cap {digest}]
<1>1. identityCall' = [identityCall EXCEPT ![c] = to]
  BY DEF Identity!Returns, Identity!Goes
<1>2. /\ DOMAIN to = CallFields /\ to.at = "returned" /\ to.digest = digest
      /\ to.kind = identityCall[c].kind /\ to.been = identityCall[c].been \cap {digest}
  BY DEF Identity!NoCall, CallFields
<1> HIDE DEF to
<1>3. Knows(to)
  BY <1>2 DEF Knows, Ended, Reading
<1> QED
  BY <1>1, <1>2, <1>3, CallStep

LEMMA RaiseStep ==
  ASSUME IdentityInv, NEW c \in Callers,
         UNCHANGED <<identityPath, identityFiles, identityChanges>>,
         Identity!Raises(c)
  PROVE  IdentityInv'
<1> DEFINE to == [Identity!NoCall EXCEPT !.at = "raised"]
<1>1. identityCall' = [identityCall EXCEPT ![c] = to]
  BY DEF Identity!Raises, Identity!Goes
<1>2. DOMAIN to = CallFields /\ to.at = "raised"
  BY DEF Identity!NoCall, CallFields
<1> HIDE DEF to
<1>3. Knows(to)
  BY <1>2 DEF Knows, Ended, Reading
<1> QED
  BY <1>1, <1>2, <1>3, CallStep

\* The calls up to the hash, and after it.
LEMMA CallSteps ==
  ASSUME IdentityInv, NEW c \in Callers,
         \/ \E kind \in Identity!CallKinds : Identity!Begin(c, kind)
         \/ Identity!Peek(c) \/ Identity!Lock(c) \/ Identity!Look(c)
         \/ Identity!Compare(c) \/ Identity!Link(c)
  PROVE  IdentityInv'
<1> DEFINE k == identityCall[c]
<1>0. DOMAIN k = CallFields /\ Knows(k)
  BY DEF IdentityInv, IdentityType
<1>1. ASSUME NEW kind, Identity!Begin(c, kind) PROVE IdentityInv'
  <2> DEFINE to == [Identity!NoCall EXCEPT
                      !.kind = kind, !.at = IF kind = "ensure" THEN "peek" ELSE "lock",
                      !.been = {Identity!AtPath}]
  <2>1. /\ DOMAIN to = CallFields /\ to.kind = kind /\ to.been = {Identity!AtPath}
        /\ to.at = IF kind = "ensure" THEN "peek" ELSE "lock"
    BY DEF Identity!NoCall, CallFields
  <2>2. /\ identityCall' = [identityCall EXCEPT ![c] = to]
        /\ UNCHANGED <<identityPath, identityFiles, identityChanges>>
    BY <1>1 DEF Identity!Begin, Identity!Goes, Identity!Data
  <2> HIDE DEF to
  <2>3. Knows(to)
    BY <2>1 DEF Knows, Ended, Reading
  <2> QED
    BY <2>1, <2>2, <2>3, CallStep
<1>2. ASSUME NEW at \in {"lock", "stat", "look", "link"}, Identity!Step(c, at),
             k.at \notin Ended, at = "link" => k.at = "compare",
             UNCHANGED <<identityPath, identityFiles, identityChanges>>
      PROVE  IdentityInv'
  <2> DEFINE to == [k EXCEPT !.at = at]
  <2>1. /\ DOMAIN to = CallFields /\ to.at = at /\ to.been = k.been
        /\ to.digest = k.digest /\ to.kind = k.kind
    BY <1>0 DEF CallFields
  <2>2. identityCall' = [identityCall EXCEPT ![c] = to]
    BY <1>2 DEF Identity!Step, Identity!Goes
  <2> HIDE DEF to
  <2>3. Knows(to)
    BY <1>0, <1>2, <2>1 DEF Knows, Ended, Reading
  <2> QED
    BY <1>2, <2>1, <2>2, <2>3, CallStep
<1>3. CASE Identity!Peek(c)
  <2>1. k.kind = "ensure" /\ k.at = "peek"
    BY <1>0, <1>3 DEF Knows, Identity!Peek
  <2> QED
    BY <1>2, <1>3, <2>1, ReturnStep DEF Identity!Peek, Identity!Data, Ended
<1>4. CASE Identity!Lock(c)
  BY <1>2, <1>4 DEF Identity!Lock, Identity!Data, Ended
<1>5. CASE Identity!Look(c)
  <2>1. CASE k.kind = "ensure" /\ identityAsset # Nil
    BY <1>5, <2>1, ReturnStep DEF Identity!Look, Identity!Data
  <2>2. CASE Identity!Raises(c)
    BY <1>5, <2>2, RaiseStep DEF Identity!Look, Identity!Data
  <2>3. CASE Identity!Goes(c, [k EXCEPT !.at = "stat", !.known = identityAsset])
    <3> DEFINE to == [k EXCEPT !.at = "stat", !.known = identityAsset]
    <3>1. DOMAIN to = CallFields /\ to.at = "stat" /\ to.been = k.been
      BY <1>0 DEF CallFields
    <3>2. /\ identityCall' = [identityCall EXCEPT ![c] = to]
          /\ UNCHANGED <<identityPath, identityFiles, identityChanges>>
      BY <1>5, <2>3 DEF Identity!Look, Identity!Goes, Identity!Data
    <3>3. k.at = "look"
      BY <1>5 DEF Identity!Look
    <3> HIDE DEF to
    <3>4. Knows(to)
      BY <1>0, <3>1, <3>3 DEF Knows, Ended, Reading
    <3> QED
      BY <3>1, <3>2, <3>4, CallStep
  <2> QED
    BY <1>5, <2>1, <2>2, <2>3 DEF Identity!Look
<1>6. CASE Identity!Compare(c)
  <2>1. k.at = "compare" /\ k.digest \in k.been
    BY <1>0, <1>6 DEF Knows, Identity!Compare
  <2>2. UNCHANGED <<identityPath, identityFiles, identityChanges>>
    BY <1>6 DEF Identity!Compare, Identity!Data
  <2>3. \/ Identity!Step(c, "link") \/ Identity!Raises(c)
        \/ Identity!Returns(c, k.digest)
    BY <1>6 DEF Identity!Compare
  <2> QED
    BY <1>2, <2>1, <2>2, <2>3, ReturnStep, RaiseStep DEF Ended
<1>7. CASE Identity!Link(c)
  <2>1. k.at = "link" /\ k.digest \in k.been
    BY <1>0, <1>7 DEF Knows, Identity!Link
  <2> QED
    BY <1>7, <2>1, ReturnStep, RaiseStep DEF Identity!Link, Identity!Data
<1> QED
  BY <1>1, <1>3, <1>4, <1>5, <1>6, <1>7

\* _hash_managed_regular_file.
LEMMA HashSteps ==
  ASSUME IdentityInv, NEW c \in Callers,
         \/ Identity!Stat(c) \/ Identity!Open(c) \/ Identity!ReadFirst(c)
         \/ Identity!ReadSecond(c) \/ Identity!After(c) \/ Identity!Again(c)
  PROVE  IdentityInv'
<1> DEFINE k == identityCall[c]
<1>0. /\ DOMAIN k = CallFields /\ Knows(k)
      /\ k.at \in {"stat", "open", "first", "second", "after", "again"}
      /\ k.at \in Reading => Faithful(k)
      /\ Identity!AtPath \in k.been
  BY DEF IdentityInv, IdentityType, Knows, Ended, Identity!Stat, Identity!Open,
         Identity!ReadFirst, Identity!ReadSecond, Identity!After, Identity!Again
<1>1. UNCHANGED <<identityPath, identityFiles, identityChanges>>
  BY DEF Identity!Stat, Identity!Open, Identity!ReadFirst, Identity!ReadSecond,
         Identity!After, Identity!Again, Identity!Data
<1>2. CASE Identity!Raises(c)
  BY <1>1, <1>2, RaiseStep
<1>3. ASSUME NEW to, identityCall' = [identityCall EXCEPT ![c] = to],
             DOMAIN to = CallFields, Knows(to)
      PROVE  IdentityInv'
  BY <1>1, <1>3, CallStep
<1>4. CASE Identity!Stat(c) /\ ~Identity!Raises(c)
  <2> DEFINE to == [k EXCEPT !.at = "open", !.file = identityPath,
                             !.stamp = Identity!Stamp(identityPath)]
  <2>1. identityCall' = [identityCall EXCEPT ![c] = to] /\ identityPath # Nil
    BY <1>4 DEF Identity!Stat, Identity!Goes
  <2>2. /\ DOMAIN to = CallFields /\ to.at = "open" /\ to.been = k.been
        /\ to.file = identityPath /\ to.stamp = identityFiles[identityPath].stamp
    BY <1>0 DEF CallFields, Identity!Stamp
  <2> HIDE DEF to
  <2>3. identityPath \in Identity!Numbers
    BY <2>1 DEF IdentityInv, IdentityType
  <2>4. to.stamp \in Nat /\ to.stamp <= identityChanges
    BY <2>2, <2>3 DEF IdentityInv, IdentityType
  <2>5. Faithful(to)
    BY <2>1, <2>2, <2>3, <2>4 DEF Faithful
  <2>6. Knows(to)
    BY <1>0, <2>2, <2>5 DEF Knows, Ended, Reading
  <2> QED
    BY <1>3, <2>1, <2>2, <2>6
<1>5. CASE Identity!Open(c) /\ ~Identity!Raises(c)
  <2> DEFINE to == [k EXCEPT !.at = "first"]
  <2>1. identityCall' = [identityCall EXCEPT ![c] = to] /\ k.at = "open"
    BY <1>5 DEF Identity!Open, Identity!Step, Identity!Goes
  <2>2. /\ DOMAIN to = CallFields /\ to.at = "first" /\ to.been = k.been
        /\ to.file = k.file /\ to.stamp = k.stamp
    BY <1>0 DEF CallFields
  <2> HIDE DEF to
  <2>3. Faithful(to)
    BY <1>0, <2>1, <2>2 DEF Faithful, Reading
  <2>4. Knows(to)
    BY <1>0, <2>2, <2>3 DEF Knows, Ended, Reading
  <2> QED
    BY <1>3, <2>1, <2>2, <2>4
<1>6. CASE Identity!ReadFirst(c)
  <2> DEFINE to == [k EXCEPT !.at = "second", !.first = identityFiles[k.file].chunks[1]]
  <2>1. identityCall' = [identityCall EXCEPT ![c] = to] /\ k.at = "first"
    BY <1>6 DEF Identity!ReadFirst, Identity!Goes
  <2>2. /\ DOMAIN to = CallFields /\ to.at = "second" /\ to.been = k.been
        /\ to.file = k.file /\ to.stamp = k.stamp
        /\ to.first = identityFiles[k.file].chunks[1]
    BY <1>0 DEF CallFields
  <2> HIDE DEF to
  <2>3. Faithful(to)
    BY <1>0, <2>1, <2>2 DEF Faithful, Reading
  <2>4. Knows(to)
    BY <1>0, <2>2, <2>3 DEF Knows, Ended, Reading
  <2> QED
    BY <1>3, <2>1, <2>2, <2>4
<1>7. CASE Identity!ReadSecond(c)
  <2> DEFINE to == [k EXCEPT !.at = "after",
                             !.digest = <<k.first, identityFiles[k.file].chunks[2]>>]
  <2>1. identityCall' = [identityCall EXCEPT ![c] = to] /\ k.at = "second"
    BY <1>7 DEF Identity!ReadSecond, Identity!Goes
  <2>2. /\ DOMAIN to = CallFields /\ to.at = "after" /\ to.been = k.been
        /\ to.file = k.file /\ to.stamp = k.stamp
        /\ to.digest = <<k.first, identityFiles[k.file].chunks[2]>>
    BY <1>0 DEF CallFields
  <2> HIDE DEF to
  <2>3. Faithful(k)
    BY <1>0, <2>1 DEF Reading
  <2>4. identityFiles[k.file].chunks \in {0, 1} \X {0, 1}
    BY <2>3 DEF Faithful, IdentityInv, IdentityType, Identity!Chunks
  <2>5. identityFiles[k.file].stamp = k.stamp => to.digest = identityFiles[k.file].chunks
    BY <2>1, <2>2, <2>3, <2>4 DEF Faithful
  <2>6. Faithful(to)
    BY <2>2, <2>3, <2>5 DEF Faithful
  <2>7. Knows(to)
    BY <1>0, <2>2, <2>6 DEF Knows, Ended, Reading
  <2> QED
    BY <1>3, <2>1, <2>2, <2>7
<1>8. CASE Identity!After(c) /\ ~Identity!Raises(c)
  <2> DEFINE to == [k EXCEPT !.at = "again"]
  <2>1. identityCall' = [identityCall EXCEPT ![c] = to] /\ k.at = "after"
    BY <1>8 DEF Identity!After, Identity!Step, Identity!Goes
  <2>2. /\ DOMAIN to = CallFields /\ to.at = "again" /\ to.been = k.been
        /\ to.file = k.file /\ to.stamp = k.stamp /\ to.digest = k.digest
    BY <1>0 DEF CallFields
  <2> HIDE DEF to
  <2>3. Faithful(to)
    BY <1>0, <2>1, <2>2 DEF Faithful, Reading
  <2>4. Knows(to)
    BY <1>0, <2>2, <2>3 DEF Knows, Ended, Reading
  <2> QED
    BY <1>3, <2>1, <2>2, <2>4
<1>9. CASE Identity!Again(c) /\ ~Identity!Raises(c)
  <2> DEFINE next == IF k.kind = "ensure" THEN "link" ELSE "compare"
             to == [k EXCEPT !.at = next]
  <2>1. /\ identityCall' = [identityCall EXCEPT ![c] = to] /\ k.at = "again"
        /\ identityPath = k.file /\ identityFiles[identityPath].stamp = k.stamp
    BY <1>9 DEF Identity!Again, Identity!Step, Identity!Goes, Identity!Same, Identity!Stamp
  <2>2. /\ DOMAIN to = CallFields /\ to.at = next /\ to.been = k.been
        /\ to.digest = k.digest
    BY <1>0 DEF CallFields
  <2> HIDE DEF to
  <2>3. Faithful(k)
    BY <1>0, <2>1 DEF Reading
  <2>4. k.digest = Identity!AtPath
    BY <2>1, <2>3 DEF Faithful, Identity!AtPath
  <2>5. Knows(to)
    BY <1>0, <2>2, <2>4 DEF Knows, Ended, Reading
  <2> QED
    BY <1>3, <2>1, <2>2, <2>5
<1> QED
  BY <1>2, <1>4, <1>5, <1>6, <1>7, <1>8, <1>9

\* What others do to the file gives it a stamp that no call has been told.
LEMMA FileSteps ==
  ASSUME IdentityInv, Identity!Rewrite \/ Identity!Replace \/ Identity!Remove
  PROVE  IdentityInv'
<1>0. /\ MaxChanges \in Nat /\ identityChanges \in Nat
      /\ Contents \subseteq Identity!Chunks
  BY IdentityAssumption DEF Identity!ConstantsAssumption, IdentityInv, IdentityType
<1>1. /\ identityChanges < MaxChanges /\ identityChanges' = identityChanges + 1
      /\ identityCall' = [c \in Callers |->
            IF identityCall[c].at \in Ended THEN identityCall[c]
            ELSE [identityCall[c] EXCEPT !.been = @ \cup {Identity!AtPath'}]]
  BY DEF Identity!Rewrite, Identity!Replace, Identity!Remove, Identity!Changes, Ended
<1>2. PICK n \in Identity!Numbers, new \in [chunks : Identity!Chunks, stamp : {identityChanges'}] :
         \/ identityFiles' = [identityFiles EXCEPT ![n] = new]
         \/ UNCHANGED identityFiles
  <2>1. CASE Identity!Rewrite
    <3>1. identityPath \in Identity!Numbers
      BY <2>1 DEF Identity!Rewrite, IdentityInv, IdentityType
    <3> DEFINE old == identityFiles[identityPath].chunks
    <3>2. old \in Identity!Chunks
      BY <3>1 DEF IdentityInv, IdentityType
    <3>3. \A i \in {1, 2} : [old EXCEPT ![i] = 1 - @] \in Identity!Chunks
      BY <3>2 DEF Identity!Chunks
    <3> QED
      BY <1>1, <2>1, <3>1, <3>3 DEF Identity!Rewrite
  <2>2. CASE Identity!Replace
    <3>1. identityChanges + 2 \in Identity!Numbers
      BY <1>0, <1>1 DEF Identity!Numbers
    <3>2. PICK content \in Contents :
             identityFiles' = [identityFiles EXCEPT ![identityChanges + 2] =
                                  [chunks |-> content, stamp |-> identityChanges + 1]]
      BY <2>2 DEF Identity!Replace
    <3>3. content \in Identity!Chunks
      BY <1>0, <3>2
    <3> QED
      BY <1>1, <3>1, <3>2, <3>3
  <2>3. CASE Identity!Remove
    <3>1. 1 \in Identity!Numbers /\ <<0, 0>> \in Identity!Chunks
      BY <1>0 DEF Identity!Numbers, Identity!Chunks
    <3>2. [chunks |-> <<0, 0>>, stamp |-> identityChanges']
             \in [chunks : Identity!Chunks, stamp : {identityChanges'}]
      BY <3>1
    <3> QED
      BY <2>3, <3>1, <3>2 DEF Identity!Remove
  <2> QED
    BY <2>1, <2>2, <2>3
<1>3. identityPath' \in Identity!Numbers \cup {Nil}
  BY <1>0, <1>1 DEF Identity!Rewrite, Identity!Replace, Identity!Remove, Identity!Numbers,
                    IdentityInv, IdentityType
<1>4. \A c \in Callers : /\ DOMAIN identityCall'[c] = CallFields
                         /\ identityCall[c].at \in Ended => identityCall'[c] = identityCall[c]
                         /\ identityCall[c].at \notin Ended =>
                               identityCall'[c].been = identityCall[c].been \cup {Identity!AtPath'}
                         /\ \A f \in CallFields \ {"been"} :
                               identityCall'[c][f] = identityCall[c][f]
  BY <1>1 DEF IdentityInv, IdentityType, CallFields
<1>5. identityChanges' \in 0..MaxChanges
  BY <1>0, <1>1
<1>6. IdentityType'
  <2>1. identityFiles' \in [Identity!Numbers -> [chunks : Identity!Chunks, stamp : 0..MaxChanges]]
    BY <1>2, <1>5 DEF IdentityInv, IdentityType
  <2>2. \A m \in Identity!Numbers : identityFiles'[m].stamp <= identityChanges'
    BY <1>0, <1>1, <1>2 DEF IdentityInv, IdentityType
  <2> QED
    BY <1>1, <1>3, <1>4, <1>5, <2>1, <2>2 DEF IdentityType
<1>7. ASSUME NEW c \in Callers PROVE Knows(identityCall[c])'
  <2> DEFINE k == identityCall[c]
             to == identityCall'[c]
  <2>1. /\ Knows(k) /\ to.at = k.at /\ to.kind = k.kind /\ to.file = k.file
        /\ to.stamp = k.stamp /\ to.first = k.first /\ to.digest = k.digest
        /\ k.at \in Ended => to.been = k.been
        /\ k.at \notin Ended => to.been = k.been \cup {Identity!AtPath'}
    BY <1>4 DEF IdentityInv, CallFields
  <2>2. Faithful(k) => Faithful(identityCall[c])'
    <3> SUFFICES ASSUME Faithful(k) PROVE Faithful(identityCall[c])'
      OBVIOUS
    <3>1. k.file \in Identity!Numbers /\ k.stamp \in Nat /\ k.stamp <= identityChanges
      BY DEF Faithful
    <3>2. k.stamp <= identityChanges' /\ k.stamp # identityChanges'
      BY <1>0, <1>1, <3>1
    <3>3. \/ identityFiles'[k.file] = identityFiles[k.file]
          \/ identityFiles'[k.file].stamp = identityChanges'
      BY <1>2, <3>1 DEF IdentityInv, IdentityType
    <3> QED
      BY <2>1, <3>1, <3>2, <3>3 DEF Faithful
  <2> QED
    BY <2>1, <2>2 DEF Knows, Ended, Reading
<1> QED
  BY <1>6, <1>7 DEF IdentityInv

LEMMA IdentityKeeps == IdentityInv /\ Identity!Next => IdentityInv'
  BY CallSteps, HashSteps, FileSteps DEF Identity!Next

LEMMA IdentitySound == IdentityInv => Identity!VerifiedWasThere
  BY DEF IdentityInv, Knows, Identity!VerifiedWasThere

-----------------------------------------------------------------------------
(***************************************************************************)
(* The adoption of queued videos, for any library, batch size and number   *)
(* of starts.                                                              *)
(***************************************************************************)

LEMMA SameCardinality == \A S : Adoption!Cardinality(S) = Cardinality(S)
  BY DEF Adoption!Cardinality, Cardinality

LEMMA Least ==
  ASSUME NEW T \in SUBSET Nat, T # {}
  PROVE  \E m \in T : \A k \in T : m <= k
<1> DEFINE R == OpToRel(<, Nat)
<1>1. IsWellFoundedOn(R, Nat)
  BY NatLessThanWellFounded
<1>2. \A x, y \in Nat : x < y => <<x, y>> \in R
  BY DEF OpToRel
<1> HIDE DEF R
<1>3. PICK m \in T : \A k \in T : <<k, m>> \notin R
  BY <1>1, WFMin
<1>4. \A k \in T : k \in Nat
  OBVIOUS
<1>5. \A k \in T : ~(k < m)
  BY <1>2, <1>3, <1>4
<1> QED
  BY <1>4, <1>5

LEMMA Greatest ==
  ASSUME NEW T \in SUBSET Nat, T # {}, NEW b \in Nat, \A k \in T : k <= b
  PROVE  \E m \in T : \A k \in T : k <= m
<1> DEFINE U == {b - k : k \in T}
<1>a. \A k \in T : b - k \in Nat
  <2>1. \A k \in T : k \in Nat
    OBVIOUS
  <2> QED
    BY <2>1
<1>1. U \in SUBSET Nat /\ U # {}
  BY <1>a
<1>2. PICK u \in U : \A w \in U : u <= w
  BY <1>1, Least
<1>3. PICK m \in T : u = b - m
  OBVIOUS
<1>4. \A k \in T : b - m <= b - k
  BY <1>2, <1>3
<1>5. \A k \in T : k \in Nat
  OBVIOUS
<1> QED
  BY <1>4, <1>5

\* LIMIT batch_size: a batch that is not full holds all there is.
LEMMA FirstOfIsAll ==
  ASSUME NEW S \in SUBSET Nat, IsFiniteSet(S), NEW n \in Nat,
         Cardinality(Adoption!FirstOf(n, S)) # n
  PROVE  Adoption!FirstOf(n, S) = S
<1> DEFINE Below(v) == {w \in S : w < v}
           Rest == S \ Adoption!FirstOf(n, S)
<1>1. SUFFICES ASSUME Rest # {} PROVE FALSE
  BY DEF Adoption!FirstOf
<1>0. \A v \in S : v \in Nat
  OBVIOUS
<1>2. \A v \in Nat : IsFiniteSet(Below(v)) /\ Cardinality(Below(v)) \in Nat
  BY FS_Subset, FS_CardinalityType
<1>3. \A v \in S : v \in Adoption!FirstOf(n, S) <=> Cardinality(Below(v)) < n
  BY SameCardinality DEF Adoption!FirstOf
<1>4. PICK m \in Rest : \A k \in Rest : m <= k
  <2>1. Rest \in SUBSET Nat /\ Rest # {}
    BY <1>1
  <2> QED
    BY <2>1, Least
<1>5. m \in S /\ m \in Nat /\ Cardinality(Below(m)) >= n
  BY <1>2, <1>3, <1>4
<1>6. Adoption!FirstOf(n, S) \subseteq S
  BY DEF Adoption!FirstOf
<1>d. \A v \in Nat : Below(v) \subseteq S /\ \A w \in S : w \in Below(v) <=> w < v
  OBVIOUS
<1>e. \A v \in S : v \in Rest <=> v \notin Adoption!FirstOf(n, S)
  OBVIOUS
<1> HIDE DEF Below, Rest
<1>7. ASSUME NEW w \in Below(m) PROVE w \in Adoption!FirstOf(n, S)
  <2>1. w \in S /\ w \in Nat /\ w < m
    BY <1>0, <1>5, <1>d
  <2>2. ~(m <= w)
    BY <1>5, <2>1
  <2> QED
    BY <1>4, <1>e, <2>1, <2>2
<1>8. ASSUME NEW v \in Adoption!FirstOf(n, S) PROVE v \in Below(m)
  <2>1. v \in S /\ v \in Nat
    BY <1>0, <1>6
  <2>2. SUFFICES ASSUME ~(v < m) PROVE FALSE
    BY <1>5, <1>d, <2>1
  <2>3. \A w \in Nat : w < m => w < v
    BY <1>5, <2>1, <2>2
  <2>4. Below(m) \subseteq Below(v)
    BY <1>0, <1>5, <1>d, <2>1, <2>3
  <2>5. Cardinality(Below(m)) <= Cardinality(Below(v))
    BY <1>2, <2>1, <2>4, FS_Subset
  <2> QED
    BY <1>2, <1>3, <1>5, <2>1, <2>5
<1>9. Adoption!FirstOf(n, S) = Below(m)
  BY <1>7, <1>8
<1>10. Cardinality(Below(m)) > n
  BY <1>2, <1>5, <1>9
<1>11. Below(m) # {}
  BY <1>10, FS_EmptySet
<1>12. PICK p \in Below(m) : \A k \in Below(m) : k <= p
  <2>1. Below(m) \in SUBSET Nat
    BY <1>0, <1>5, <1>d
  <2>2. ASSUME NEW k \in Below(m) PROVE k <= m
    <3>1. k \in S /\ k < m
      BY <1>5, <1>d
    <3> QED
      BY <1>0, <1>5, <3>1
  <2> QED
    BY <1>5, <1>11, <2>1, <2>2, Greatest
<1>13. p \in S /\ p \in Nat /\ p \notin Below(p) /\ p < m
  <2>1. p \in S /\ p < m
    BY <1>5, <1>d, <1>12
  <2>2. ~(p < p)
    BY <1>0, <2>1
  <2> QED
    BY <1>0, <1>d, <2>1, <2>2
<1>13a. ASSUME NEW w \in S PROVE w \in Below(m) <=> w = p \/ w \in Below(p)
  BY <1>0, <1>5, <1>d, <1>12, <1>13
<1>13b. Below(m) = Below(p) \cup {p}
  BY <1>5, <1>d, <1>13, <1>13a
<1>14. Cardinality(Below(p)) < n
  BY <1>3, <1>9, <1>12, <1>13
<1>15. Cardinality(Below(m)) = Cardinality(Below(p)) + 1
  BY <1>2, <1>13, <1>13b, FS_AddElement
<1> QED
  BY <1>2, <1>5, <1>10, <1>13, <1>14, <1>15

AdoptionType ==
    /\ DOMAIN adoptionStatus = Adoption!Library /\ DOMAIN adoptionJob = Adoption!Library
    /\ adoptionPlan \in 1..NPlans

\* What a batch leaves out it has proved to be none: while videos of a batch that was
\* not full are being adopted, every candidate is one of them.
BatchCovers ==
    /\ adoptionAt = "adopting" /\ ~adoptionFull => Adoption!Candidates \subseteq adoptionBatch
    /\ Adoption!StartedIsAdopted

AdoptionInv == AdoptionType /\ BatchCovers

LEMMA AdoptionInit == Adoption!Init => AdoptionInv
<1>1. 1 \in 1..NPlans
  BY AdoptionAssumption DEF Adoption!ConstantsAssumption
<1> QED
  BY <1>1 DEF Adoption!Init, AdoptionInv, AdoptionType, BatchCovers, Adoption!StartedIsAdopted

\* The step that lists a batch.
LEMMA ListStep == AdoptionInv /\ Adoption!List => AdoptionInv'
<1> SUFFICES ASSUME AdoptionInv, Adoption!List PROVE AdoptionInv'
  OBVIOUS
<1> DEFINE C == Adoption!Candidates
           found == Adoption!FirstOf(Batch, C)
<1>1. /\ adoptionBatch' = found /\ adoptionFull' = (Cardinality(found) = Batch)
      /\ adoptionAt' = IF found = {} THEN "running" ELSE "adopting"
      /\ UNCHANGED <<adoptionStatus, adoptionJob, adoptionPlan>>
  BY SameCardinality DEF Adoption!List
<1>2. C' = C
  BY <1>1 DEF Adoption!Candidates
<1>3. C \in SUBSET Nat /\ IsFiniteSet(C) /\ Batch \in Nat /\ Batch # 0
  <2>1. NVideos \in Nat /\ Batch \in Nat /\ Batch # 0
    BY AdoptionAssumption DEF Adoption!ConstantsAssumption
  <2>2. IsFiniteSet(1..NVideos) /\ 1..NVideos \subseteq Nat
    BY <2>1, FS_Interval
  <2>3. C \subseteq 1..NVideos
    BY DEF Adoption!Candidates, Adoption!Library
  <2> QED
    BY <2>1, <2>2, <2>3, FS_Subset
<1> HIDE DEF C
<1>4. Cardinality(found) # Batch => found = C
  BY <1>3, FirstOfIsAll
<1>5. found = {} => C = {}
  BY <1>3, <1>4, FS_EmptySet
<1>6. Adoption!Candidates' = C
  BY <1>2 DEF C
<1> QED
  BY <1>1, <1>4, <1>5, <1>6 DEF AdoptionInv, AdoptionType, BatchCovers, Adoption!StartedIsAdopted

LEMMA AdoptStep == AdoptionInv /\ Adoption!Adopt => AdoptionInv'
<1> SUFFICES ASSUME AdoptionInv, Adoption!Adopt PROVE AdoptionInv'
  OBVIOUS
<1> DEFINE v == Adoption!Min(adoptionBatch)
<1>1. CASE ~Adoption!Accepted(v)
  BY <1>1 DEF Adoption!Adopt, Adoption!Fails, AdoptionInv, AdoptionType, BatchCovers,
              Adoption!StartedIsAdopted
<1>2. CASE Adoption!Accepted(v)
  <2>1. /\ adoptionJob' = [adoptionJob EXCEPT ![v] = Adoption!Queued]
        /\ adoptionBatch' = adoptionBatch \ {v}
        /\ UNCHANGED <<adoptionAt, adoptionStatus, adoptionPlan, adoptionFull>>
        /\ adoptionAt = "adopting"
    BY <1>2 DEF Adoption!Adopt
  <2> HIDE DEF v
  <2>2. v \in Adoption!Library
    BY <1>2, AdoptionAssumption DEF Adoption!Accepted, Adoption!ConstantsAssumption
  <2>3. Adoption!Queued # Nil
    <3>1. Adoption!Queued \in [plan : 1..NPlans, active : BOOLEAN]
      BY DEF Adoption!Queued, AdoptionInv, AdoptionType
    <3>2. Nil \notin [plan : 1..NPlans, active : BOOLEAN]
      BY AdoptionAssumption DEF Adoption!ConstantsAssumption
    <3> QED
      BY <3>1, <3>2
  <2>4. Adoption!Candidates' \subseteq Adoption!Candidates \ {v}
    BY <2>1, <2>2, <2>3 DEF Adoption!Candidates, AdoptionInv, AdoptionType
  <2>5. AdoptionType'
    BY <2>1 DEF AdoptionInv, AdoptionType
  <2> QED
    BY <2>1, <2>4, <2>5 DEF AdoptionInv, BatchCovers, Adoption!StartedIsAdopted
<1> QED
  BY <1>1, <1>2

LEMMA AdoptionKeeps == AdoptionInv /\ Adoption!Next => AdoptionInv'
<1> SUFFICES ASSUME AdoptionInv, Adoption!Next PROVE AdoptionInv'
  OBVIOUS
<1> USE DEF AdoptionInv, AdoptionType, BatchCovers, Adoption!StartedIsAdopted
<1>1. CASE Adoption!Start
  BY <1>1 DEF Adoption!Start
<1>2. CASE Adoption!TooMany \/ Adoption!NoPlan \/ Adoption!Stop
  BY <1>2 DEF Adoption!TooMany, Adoption!NoPlan, Adoption!Stop, Adoption!Fails
<1>3. CASE Adoption!Adopted
  BY <1>3 DEF Adoption!Adopted, Adoption!Candidates
<1>4. ASSUME NEW v \in Adoption!Library, Adoption!Finish(v) PROVE AdoptionInv'
  <2>1. Adoption!Candidates' \subseteq Adoption!Candidates
    BY <1>4 DEF Adoption!Finish, Adoption!Candidates
  <2> QED
    BY <1>4, <2>1 DEF Adoption!Finish
<1> QED
  BY <1>1, <1>2, <1>3, <1>4, ListStep, AdoptStep DEF Adoption!Next, Adoption!Adopting

-----------------------------------------------------------------------------
(***************************************************************************)
(* The upgrade, for any number of programs and generations, from any       *)
(* database an older program may have left behind.                         *)
(***************************************************************************)

DbFields == {"version", "schema", "missing", "frozenAudit", "rows"}
RowFields == {"tomb", "build", "gen", "gc", "audit"}
JobFields == {"job", "state", "attempt", "backoff", "token", "error"}

Single(S) == S = {} \/ \E i : S = {i}

\* A database between two migrations.
Between(d) ==
    /\ DOMAIN d = DbFields
    /\ DOMAIN d.rows = Generations
    /\ d.version \in Nat /\ d.schema \in 0..9
    /\ \A g \in Generations :
          /\ DOMAIN d.rows[g] = RowFields
          /\ IsFiniteSet(d.rows[g].gc)
          /\ \A j \in d.rows[g].gc : DOMAIN j = JobFields
          /\ d.schema >= 7 => Single(d.rows[g].gc)
          /\ d.schema # 7 => \A j \in d.rows[g].gc : ~Upgrade!Retried(j)

JobKept(i, j) ==
    /\ j.job = i.job /\ j.attempt = i.attempt
    /\ Upgrade!Owed(i) <=> Upgrade!Owed(j)
    /\ i.state = "complete" <=> j.state = "complete"

RowKept(old, new) ==
    /\ new.build = old.build /\ new.gen = old.gen
    /\ \/ new.gc = old.gc
       \/ \E i, j : old.gc = {i} /\ new.gc = {j} /\ JobKept(i, j)

\* The work in d is the work in e.
Follows(d, e) == \A g \in Generations : RowKept(d.rows[g], e.rows[g])

\* The found database is a past of what is committed and of what a transaction has
\* made of it, and what is committed anew has been through migration 8.
UpgradeInv ==
    upgradeFound.version <= 9 =>
       /\ Between(upgradeFound) /\ Between(upgradeDb) /\ Follows(upgradeFound, upgradeDb)
       /\ upgradeDb # upgradeFound => upgradeDb.schema >= 8
       /\ \/ upgradeTxn = Upgrade!NoTxn
          \/ /\ upgradeTxn.next \in Nat
             /\ DOMAIN upgradeTxn = {"owner", "next", "copy"}
             /\ Between(upgradeTxn.copy) /\ Follows(upgradeFound, upgradeTxn.copy)
             /\ upgradeTxn.next > 9 =>
                   upgradeDb.version = 9 \/ upgradeTxn.copy.schema >= 8

LEMMA UpgradeCardinality == \A S : Upgrade!Cardinality(S) = Cardinality(S)
  BY DEF Upgrade!Cardinality, Cardinality

LEMMA UpgradeFinite == \A S : Upgrade!IsFiniteSet(S) = IsFiniteSet(S)
  BY DEF Upgrade!IsFiniteSet, IsFiniteSet

LEMMA SingleSet ==
  ASSUME NEW S, IsFiniteSet(S)
  PROVE  Cardinality(S) <= 1 => Single(S)
<1> SUFFICES ASSUME Cardinality(S) <= 1, S # {} PROVE \E i : S = {i}
  BY DEF Single
<1>1. PICK i : i \in S
  OBVIOUS
<1>2. IsFiniteSet(S \ {i}) /\ Cardinality(S \ {i}) = Cardinality(S) - 1
  BY <1>1, FS_RemoveElement
<1>3. Cardinality(S \ {i}) \in Nat /\ Cardinality(S) \in Nat
  BY <1>2, FS_CardinalityType
<1>4. Cardinality(S \ {i}) = 0
  BY <1>2, <1>3
<1>5. S \ {i} = {}
  BY <1>2, <1>4, FS_EmptySet
<1> QED
  BY <1>1, <1>5

LEMMA FollowsIsTransitive ==
  ASSUME NEW c, NEW d, NEW e, Follows(c, d), Follows(d, e)
  PROVE  Follows(c, e)
  BY DEF Follows, RowKept, JobKept

LEMMA FoundIsBetween == \A d \in Databases : Between(d)
<1> SUFFICES ASSUME NEW d \in Databases PROVE Between(d)
  OBVIOUS
<1>1. /\ DOMAIN d = DbFields /\ DOMAIN d.rows = Generations
      /\ d.version \in Nat /\ d.schema \in 0..9
      /\ \A g \in Generations :
            /\ DOMAIN d.rows[g] = RowFields
            /\ \A j \in d.rows[g].gc : DOMAIN j = JobFields
            /\ Upgrade!IsFiniteSet(d.rows[g].gc)
            /\ d.schema >= 7 => Upgrade!Cardinality(d.rows[g].gc) <= 1
            /\ d.schema # 7 => \A j \in d.rows[g].gc : ~Upgrade!Retried(j)
  BY UpgradeAssumption DEF Upgrade!ConstantsAssumption, Upgrade!LeftBehind, Upgrade!Latest,
     DbFields, RowFields, JobFields
<1>2. \A g \in Generations :
         /\ IsFiniteSet(d.rows[g].gc)
         /\ d.schema >= 7 => Single(d.rows[g].gc)
  BY <1>1, UpgradeCardinality, UpgradeFinite, SingleSet
<1> QED
  BY <1>1, <1>2 DEF Between

LEMMA UpgradeInit == Upgrade!Init => UpgradeInv
  BY FoundIsBetween DEF Upgrade!Init, UpgradeInv, Follows, RowKept

\* The jobs of migrations 7 and 8 are made of the old ones, one by one.
LEMMA RebuiltRow ==
  ASSUME NEW old, NEW new, Single(old.gc),
         new.build = old.build, new.gen = old.gen,
         old.gc = {} => new.gc = {},
         \A i : old.gc = {i} => \E j : new.gc = {j} /\ JobKept(i, j)
  PROVE  RowKept(old, new) /\ Single(new.gc)
  BY DEF RowKept, Single

LEMMA Rebuild7Keeps ==
  ASSUME NEW j, DOMAIN j = JobFields, ~Upgrade!Retried(j)
  PROVE  /\ JobKept(j, Upgrade!Rebuild7(j)) /\ DOMAIN Upgrade!Rebuild7(j) = JobFields
         /\ ~Upgrade!Retried(Upgrade!Rebuild7(j))
<1> DEFINE k == Upgrade!Rebuild7(j)
<1>1. /\ DOMAIN k = JobFields /\ k.job = j.job /\ k.attempt = j.attempt
      /\ k.state = (IF j.state = "running" THEN "pending" ELSE j.state)
      /\ k.error = (IF j.state = "failed" THEN Legacy ELSE "none")
  BY DEF Upgrade!Rebuild7, JobFields, Upgrade!None
<1>2. Legacy \notin Transient
  BY UpgradeAssumption DEF Upgrade!ConstantsAssumption
<1> HIDE DEF k
<1> QED
  BY <1>1, <1>2 DEF k, JobKept, Upgrade!Owed, Upgrade!Retried

LEMMA Rebuild8Keeps ==
  ASSUME NEW j, DOMAIN j = JobFields
  PROVE  /\ JobKept(j, Upgrade!Rebuild8(j)) /\ DOMAIN Upgrade!Rebuild8(j) = JobFields
         /\ ~Upgrade!Retried(Upgrade!Rebuild8(j))
<1> DEFINE k == Upgrade!Rebuild8(j)
<1>1. /\ DOMAIN k = JobFields /\ k.job = j.job /\ k.attempt = j.attempt
      /\ k.state = (IF Upgrade!Retried(j) THEN "pending" ELSE j.state)
      /\ k.error = j.error
  BY DEF Upgrade!Rebuild8, JobFields
<1> QED
  BY <1>1 DEF JobKept, Upgrade!Owed, Upgrade!Retried

\* What a migration that succeeds makes of a database.
Migrated(d, e, least) == Between(e) /\ Follows(d, e) /\ e.schema >= least

LEMMA Migration7 ==
  ASSUME NEW d, Between(d), Upgrade!Migrate7(d).ok
  PROVE  Migrated(d, Upgrade!Migrate7(d).db, 7)
<1> DEFINE e == Upgrade!Migrate7(d).db
<1>1. CASE d.schema >= 7
  <2>1. e = d
    BY <1>1 DEF Upgrade!Migrate7, Upgrade!Done, Upgrade!Failed
  <2> QED
    BY <1>1, <2>1 DEF Migrated, Follows, RowKept
<1>2. CASE ~(d.schema >= 7)
  <2>0. \A g \in Generations : Upgrade!HistoryIsSound(d.rows[g])
    BY <1>2 DEF Upgrade!Migrate7, Upgrade!Done, Upgrade!Failed
  <2>1. /\ DOMAIN e = DbFields /\ DOMAIN e.rows = Generations
        /\ e.version = d.version /\ e.schema = 7
        /\ \A g \in Generations :
              /\ DOMAIN e.rows[g] = RowFields
              /\ e.rows[g].build = d.rows[g].build /\ e.rows[g].gen = d.rows[g].gen
              /\ e.rows[g].gc = {Upgrade!Rebuild7(j) : j \in d.rows[g].gc}
    BY <1>2, <2>0 DEF Upgrade!Migrate7, Upgrade!Done, Upgrade!Failed, Between, DbFields,
       RowFields
  <2> HIDE DEF e
  <2>2. ASSUME NEW g \in Generations
        PROVE  /\ RowKept(d.rows[g], e.rows[g]) /\ Single(e.rows[g].gc)
               /\ IsFiniteSet(e.rows[g].gc)
               /\ \A j \in e.rows[g].gc : DOMAIN j = JobFields
    <3>1. Single(d.rows[g].gc)
      BY <2>0, UpgradeCardinality, SingleSet DEF Between, Upgrade!HistoryIsSound
    <3>2. \A j \in d.rows[g].gc : DOMAIN j = JobFields /\ ~Upgrade!Retried(j)
      BY <1>2 DEF Between
    <3>3. RowKept(d.rows[g], e.rows[g]) /\ Single(e.rows[g].gc)
      <4>1. \A i : d.rows[g].gc = {i} => e.rows[g].gc = {Upgrade!Rebuild7(i)}
        BY <2>1
      <4>2. d.rows[g].gc = {} => e.rows[g].gc = {}
        BY <2>1
      <4>3. \A i : d.rows[g].gc = {i} => JobKept(i, Upgrade!Rebuild7(i))
        BY <3>2, Rebuild7Keeps
      <4> QED
        BY <2>1, <3>1, <4>1, <4>2, <4>3, RebuiltRow
    <3>4. IsFiniteSet(e.rows[g].gc)
      BY <3>3, FS_EmptySet, FS_Singleton DEF Single
    <3> QED
      BY <2>1, <3>2, <3>3, <3>4, Rebuild7Keeps
  <2> QED
    BY <2>1, <2>2 DEF e, Migrated, Between, Follows
<1> QED
  BY <1>1, <1>2

LEMMA Reentry8 ==
  ASSUME NEW d, Between(d), Upgrade!Reenter8(d).ok
  PROVE  Between(Upgrade!Reenter8(d).db) /\ Follows(d, Upgrade!Reenter8(d).db)
         /\ Upgrade!Reenter8(d).db.schema = d.schema
<1> DEFINE e == Upgrade!Reenter8(d).db
<1>1. CASE d.frozenAudit
  <2>1. \A r : DOMAIN r = RowFields =>
           /\ DOMAIN Upgrade!Prune(r) = RowFields /\ Upgrade!Prune(r).gc = r.gc
           /\ Upgrade!Prune(r).build = r.build /\ Upgrade!Prune(r).gen = r.gen
    BY DEF Upgrade!Prune, RowFields
  <2>2. /\ DOMAIN e = DbFields /\ DOMAIN e.rows = Generations
        /\ e.version = d.version /\ e.schema = d.schema
        /\ \A g \in Generations : e.rows[g] = Upgrade!Prune(d.rows[g])
    BY <1>1 DEF Upgrade!Reenter8, Upgrade!Done, Upgrade!Failed, Between, DbFields
  <2> HIDE DEF e
  <2> QED
    BY <2>1, <2>2 DEF e, Between, Follows, RowKept
<1>2. CASE ~d.frozenAudit
  <2>1. e = d
    BY <1>2 DEF Upgrade!Reenter8, Upgrade!Done, Upgrade!Failed
  <2> QED
    BY <2>1 DEF Follows, RowKept
<1> QED
  BY <1>1, <1>2

LEMMA Migration8 ==
  ASSUME NEW d, Between(d), Upgrade!Migrate8(d).ok
  PROVE  Migrated(d, Upgrade!Migrate8(d).db, 8)
<1> DEFINE e == Upgrade!Migrate8(d).db
<1>1. CASE d.schema >= 8
  <2>1. Upgrade!Migrate8(d) = Upgrade!Reenter8(d)
    BY <1>1 DEF Upgrade!Migrate8
  <2> QED
    BY <1>1, <2>1, Reentry8 DEF Migrated
<1>2. CASE ~(d.schema >= 8)
  <2>1. /\ d.schema = 7 /\ DOMAIN e = DbFields /\ DOMAIN e.rows = Generations
        /\ e.version = d.version /\ e.schema = 8
        /\ \A g \in Generations :
              /\ DOMAIN e.rows[g] = RowFields
              /\ e.rows[g].build = d.rows[g].build /\ e.rows[g].gen = d.rows[g].gen
              /\ e.rows[g].gc = {Upgrade!Rebuild8(j) : j \in d.rows[g].gc}
    BY <1>2 DEF Upgrade!Migrate8, Upgrade!Done, Upgrade!Failed, Between, DbFields, RowFields
  <2> HIDE DEF e
  <2>2. ASSUME NEW g \in Generations
        PROVE  /\ RowKept(d.rows[g], e.rows[g]) /\ Single(e.rows[g].gc)
               /\ IsFiniteSet(e.rows[g].gc)
               /\ \A j \in e.rows[g].gc : DOMAIN j = JobFields /\ ~Upgrade!Retried(j)
    <3>1. Single(d.rows[g].gc)
      BY <2>1 DEF Between
    <3>2. \A j \in d.rows[g].gc : DOMAIN j = JobFields
      BY DEF Between
    <3>3. RowKept(d.rows[g], e.rows[g]) /\ Single(e.rows[g].gc)
      <4>1. \A i : d.rows[g].gc = {i} => e.rows[g].gc = {Upgrade!Rebuild8(i)}
        BY <2>1
      <4>2. d.rows[g].gc = {} => e.rows[g].gc = {}
        BY <2>1
      <4>3. \A i : d.rows[g].gc = {i} => JobKept(i, Upgrade!Rebuild8(i))
        BY <3>2, Rebuild8Keeps
      <4> QED
        BY <2>1, <3>1, <4>1, <4>2, <4>3, RebuiltRow
    <3>4. IsFiniteSet(e.rows[g].gc)
      BY <3>3, FS_EmptySet, FS_Singleton DEF Single
    <3> QED
      BY <2>1, <3>2, <3>3, <3>4, Rebuild8Keeps
  <2> QED
    BY <2>1, <2>2 DEF e, Migrated, Between, Follows
<1> QED
  BY <1>1, <1>2

LEMMA Migration9 ==
  ASSUME NEW d, Between(d), Upgrade!Migrate9(d).ok
  PROVE  Migrated(d, Upgrade!Migrate9(d).db, 8)
<1> DEFINE c == Upgrade!Migrate8(d).db
           e == Upgrade!Migrate9(d).db
<1>1. Migrated(d, c, 8)
  <2>1. Upgrade!Migrate8(d).ok
    BY DEF Upgrade!Migrate9, Upgrade!Failed, Upgrade!Done
  <2> QED
    BY <2>1, Migration8
<1>2. \/ e = [c EXCEPT !.schema = 9]
      \/ e = Upgrade!Ensure(c)
  BY DEF Upgrade!Migrate9, Upgrade!Failed, Upgrade!Done
<1>3. /\ DOMAIN c = DbFields
      /\ c.schema \in 0..9 /\ c.schema >= 8
  BY <1>1 DEF Migrated, Between
<1> HIDE DEF c
<1>4. /\ DOMAIN e = DbFields /\ e.version = c.version /\ e.rows = c.rows
      /\ e.schema = 9 \/ e.schema = c.schema
  BY <1>2, <1>3 DEF Upgrade!Ensure, DbFields
<1> HIDE DEF e
<1> QED
  BY <1>1, <1>3, <1>4 DEF e, Migrated, Between, Follows

LEMMA Migrations ==
  ASSUME NEW d, Between(d), NEW n \in Nat, Upgrade!Migrate(n, d).ok
  PROVE  Migrated(d, Upgrade!Migrate(n, d).db, IF n >= 9 THEN 8 ELSE 0)
<1> DEFINE e == Upgrade!Migrate(n, d).db
<1>1. CASE n <= 6
  <2>1. Upgrade!Migrate(n, d) = Upgrade!CreateTables(d)
    BY <1>1 DEF Upgrade!Migrate
  <2>2. /\ DOMAIN e = DbFields /\ e.version = d.version /\ e.rows = d.rows
        /\ e.schema = (IF d.schema < 6 THEN 6 ELSE d.schema) /\ d.schema \in 0..9
    <3>1. DOMAIN d = DbFields /\ d.schema \in 0..9
      BY DEF Between
    <3>2. e = [d EXCEPT !.schema = IF d.schema < 6 THEN 6 ELSE d.schema,
                        !.missing = d.missing \ {"old"}]
      BY <2>1 DEF Upgrade!CreateTables, Upgrade!Done
    <3> HIDE DEF e
    <3>3. /\ DOMAIN e = DbFields /\ e.version = d.version /\ e.rows = d.rows
          /\ e.schema = (IF d.schema < 6 THEN 6 ELSE d.schema)
      BY <3>1, <3>2 DEF DbFields
    <3> QED
      BY <3>1, <3>3
  <2> HIDE DEF e
  <2> QED
    BY <1>1, <2>2 DEF e, Migrated, Between, Follows, RowKept
<1>2. CASE n = 7
  <2>1. Upgrade!Migrate(n, d) = Upgrade!Migrate7(d)
    BY <1>2 DEF Upgrade!Migrate
  <2>2. Migrated(d, e, 7)
    BY <2>1, Migration7
  <2> QED
    BY <1>2, <2>2 DEF Migrated, Between
<1>3. CASE n = 8
  <2>1. Upgrade!Migrate(n, d) = Upgrade!Migrate8(d)
    BY <1>3 DEF Upgrade!Migrate
  <2>2. Migrated(d, e, 8)
    BY <2>1, Migration8
  <2> QED
    BY <1>3, <2>2 DEF Migrated, Between
<1>4. CASE n > 8
  <2>1. Upgrade!Migrate(n, d) = Upgrade!Migrate9(d)
    BY <1>4 DEF Upgrade!Migrate
  <2> QED
    BY <1>4, <2>1, Migration9 DEF Migrated, Between
<1> QED
  BY <1>1, <1>2, <1>3, <1>4

\* A step of the programs that open the database.
LEMMA OpenerStep ==
  ASSUME UpgradeInv, NEW o \in Openers,
         \/ Upgrade!ReadVersion(o) \/ Upgrade!Begin(o) \/ Upgrade!MigrateStep(o)
         \/ Upgrade!Finish(o) \/ Upgrade!Crash(o)
  PROVE  UpgradeInv'
<1> SUFFICES ASSUME upgradeFound'.version <= 9 PROVE UpgradeInv'
  BY DEF UpgradeInv
<1>0. UNCHANGED upgradeFound
  BY DEF Upgrade!ReadVersion, Upgrade!Begin, Upgrade!MigrateStep, Upgrade!Finish,
         Upgrade!Crash, Upgrade!RollBack
<1>1. /\ Between(upgradeFound) /\ Between(upgradeDb) /\ Follows(upgradeFound, upgradeDb)
      /\ upgradeDb # upgradeFound => upgradeDb.schema >= 8
  BY <1>0 DEF UpgradeInv
<1>2. \/ upgradeTxn = Upgrade!NoTxn
      \/ /\ upgradeTxn.next \in Nat
         /\ DOMAIN upgradeTxn = {"owner", "next", "copy"}
         /\ Between(upgradeTxn.copy) /\ Follows(upgradeFound, upgradeTxn.copy)
         /\ upgradeTxn.next > 9 => upgradeDb.version = 9 \/ upgradeTxn.copy.schema >= 8
  BY <1>0 DEF UpgradeInv
<1>3. CASE UNCHANGED upgradeDb /\ upgradeTxn' \in {upgradeTxn, Upgrade!NoTxn}
  BY <1>0, <1>1, <1>2, <1>3 DEF UpgradeInv
<1>4. CASE Upgrade!ReadVersion(o) \/ Upgrade!Crash(o)
  BY <1>3, <1>4 DEF Upgrade!ReadVersion, Upgrade!Crash
<1>5. CASE Upgrade!Begin(o) /\ upgradeTxn' # upgradeTxn
  <2>1. /\ upgradeTxn' = [owner |-> o, next |-> upgradeDb.version + 1, copy |-> upgradeDb]
        /\ ~(upgradeDb.version > 9) /\ UNCHANGED upgradeDb
    BY <1>5 DEF Upgrade!Begin, Upgrade!Latest
  <2>2. upgradeDb.version \in Nat
    BY <1>1 DEF Between
  <2>3. /\ upgradeTxn'.next = upgradeDb.version + 1 /\ upgradeTxn'.copy = upgradeDb
        /\ DOMAIN upgradeTxn' = {"owner", "next", "copy"}
    BY <2>1
  <2>4. upgradeTxn'.next > 9 => upgradeDb.version = 9
    BY <2>1, <2>2, <2>3
  <2> QED
    BY <1>0, <1>1, <2>1, <2>2, <2>3, <2>4 DEF UpgradeInv
<1>6. CASE Upgrade!MigrateStep(o) /\ upgradeTxn # Upgrade!NoTxn /\ upgradeTxn' # Upgrade!NoTxn
  <2> DEFINE n == upgradeTxn.next
             d == upgradeTxn.copy
             e == Upgrade!Migrate(n, d).db
  <2>1. /\ upgradeTxn' = [upgradeTxn EXCEPT !.next = n + 1,
                                            !.copy = [e EXCEPT !.version = n]]
        /\ UNCHANGED upgradeDb /\ Upgrade!Migrate(n, d).ok /\ n <= 9
    BY <1>6 DEF Upgrade!MigrateStep, Upgrade!RollBack, Upgrade!Latest
  <2>2. /\ n \in Nat /\ Between(d) /\ Follows(upgradeFound, d)
        /\ DOMAIN upgradeTxn = {"owner", "next", "copy"}
    BY <1>2, <1>6
  <2>3. Migrated(d, e, IF n >= 9 THEN 8 ELSE 0)
    BY <2>1, <2>2, Migrations
  <2> HIDE DEF e
  <2>4. DOMAIN e = DbFields
    BY <2>3 DEF Migrated, Between
  <2> DEFINE c == [e EXCEPT !.version = n]
  <2>5. DOMAIN c = DbFields /\ c.version = n /\ c.schema = e.schema /\ c.rows = e.rows
    BY <2>4 DEF DbFields
  <2>6. /\ upgradeTxn'.next = n + 1 /\ upgradeTxn'.copy = c
        /\ DOMAIN upgradeTxn' = {"owner", "next", "copy"}
    BY <2>1, <2>2
  <2> HIDE DEF c
  <2>7. Between(c) /\ Follows(d, c)
    BY <2>2, <2>3, <2>5 DEF Migrated, Between, Follows
  <2>8. n + 1 > 9 => c.schema >= 8
    BY <2>1, <2>2, <2>3, <2>5 DEF Migrated
  <2>9. Follows(upgradeFound, c)
    BY <2>2, <2>7, FollowsIsTransitive
  <2>10. upgradeTxn'.next \in Nat
    BY <2>2, <2>6
  <2> HIDE DEF n, d
  <2> QED
    BY <1>0, <1>1, <2>1, <2>6, <2>7, <2>8, <2>9, <2>10 DEF UpgradeInv
<1>7. CASE Upgrade!Finish(o) /\ upgradeTxn # Upgrade!NoTxn /\ upgradeDb' # upgradeDb
  <2> DEFINE d == upgradeTxn.copy
             e == IF upgradeDb.version = 9 THEN Upgrade!Migrate9(d).db ELSE d
  <2>1. /\ upgradeDb' = e /\ upgradeTxn' = Upgrade!NoTxn /\ upgradeTxn.next > 9
        /\ upgradeDb.version = 9 => Upgrade!Migrate9(d).ok
    BY <1>7 DEF Upgrade!Finish, Upgrade!RollBack, Upgrade!Done, Upgrade!Latest
  <2>2. Between(d) /\ Follows(upgradeFound, d)
    BY <1>2, <1>7
  <2>3. upgradeDb.version # 9 => d.schema >= 8
    BY <1>2, <1>7, <2>1
  <2>4. Migrated(d, e, 8)
    <3>1. CASE upgradeDb.version = 9
      BY <2>1, <2>2, <3>1, Migration9
    <3>2. CASE upgradeDb.version # 9
      BY <2>2, <2>3, <3>2 DEF Migrated, Follows, RowKept
    <3> QED
      BY <3>1, <3>2
  <2> HIDE DEF d, e
  <2>5. Follows(upgradeFound, e)
    BY <2>2, <2>4, FollowsIsTransitive DEF Migrated
  <2> QED
    BY <1>0, <1>1, <2>1, <2>4, <2>5 DEF UpgradeInv, Migrated
<1>8. CASE Upgrade!Begin(o) /\ upgradeTxn' = upgradeTxn
  BY <1>3, <1>8 DEF Upgrade!Begin
<1>9. CASE Upgrade!MigrateStep(o) /\ upgradeTxn' = Upgrade!NoTxn
  BY <1>3, <1>9 DEF Upgrade!MigrateStep, Upgrade!RollBack
<1>10. CASE Upgrade!Finish(o) /\ upgradeDb' = upgradeDb
  BY <1>3, <1>10 DEF Upgrade!Finish, Upgrade!RollBack
<1>11. Upgrade!MigrateStep(o) \/ Upgrade!Finish(o) => upgradeTxn # Upgrade!NoTxn
  BY UpgradeAssumption DEF Upgrade!MigrateStep, Upgrade!Finish, Upgrade!NoTxn,
     Upgrade!ConstantsAssumption
<1> QED
  BY <1>4, <1>5, <1>6, <1>7, <1>8, <1>9, <1>10, <1>11

LEMMA UpgradeKeeps == UpgradeInv /\ Upgrade!Next => UpgradeInv'
<1> SUFFICES ASSUME UpgradeInv, Upgrade!Next PROVE UpgradeInv'
  OBVIOUS
<1>1. ASSUME Upgrade!NewerUpgrade, upgradeFound'.version <= 9 PROVE FALSE
  <2>1. CASE upgradeFound.version <= 9
    <3>1. DOMAIN upgradeDb = DbFields
      BY <2>1 DEF UpgradeInv, Between
    <3> QED
      BY <1>1, <3>1 DEF Upgrade!NewerUpgrade, Upgrade!Latest, DbFields
  <2>2. CASE ~(upgradeFound.version <= 9)
    BY <1>1, <2>2 DEF Upgrade!NewerUpgrade, Upgrade!Latest
  <2> QED
    BY <2>1, <2>2
<1>2. CASE Upgrade!NewerUpgrade
  BY <1>1, <1>2 DEF UpgradeInv
<1>3. ASSUME NEW r \in Readers, Upgrade!OpenReadOnly(r) PROVE UpgradeInv'
  BY <1>3 DEF Upgrade!OpenReadOnly, UpgradeInv
<1> QED
  BY <1>2, <1>3, OpenerStep DEF Upgrade!Next

LEMMA UpgradeSound == UpgradeInv => Upgrade!WorkIsKept
<1> SUFFICES ASSUME UpgradeInv, upgradeFound.version <= 9, NEW g \in Generations
    PROVE  LET old == upgradeFound.rows[g]
               new == upgradeDb.rows[g]
           IN  /\ new.build = old.build /\ new.gen = old.gen
               /\ \A i \in old.gc : \E j \in new.gc :
                     /\ j.job = i.job /\ j.attempt = i.attempt
                     /\ Upgrade!Owed(i) <=> Upgrade!Owed(j)
                     /\ upgradeDb # upgradeFound /\ Upgrade!Owed(j) => j.state # "failed"
                     /\ i.state = "complete" <=> j.state = "complete"
               /\ Upgrade!Cardinality(new.gc) = Upgrade!Cardinality(old.gc)
  BY DEF Upgrade!WorkIsKept, Upgrade!Latest
<1> DEFINE old == upgradeFound.rows[g]
           new == upgradeDb.rows[g]
<1>1. RowKept(old, new)
  BY DEF UpgradeInv, Follows
<1>2. ASSUME NEW j \in new.gc, upgradeDb # upgradeFound, Upgrade!Owed(j)
      PROVE  j.state # "failed"
  BY <1>2 DEF UpgradeInv, Between, Upgrade!Owed, Upgrade!Retried
<1>3. Upgrade!Cardinality(new.gc) = Upgrade!Cardinality(old.gc)
  BY <1>1, UpgradeCardinality, FS_Singleton DEF RowKept
<1> HIDE DEF old, new
<1>4. ASSUME NEW i \in old.gc
      PROVE  \E j \in new.gc : JobKept(i, j)
  BY <1>1, <1>4 DEF RowKept, JobKept
<1> QED
  BY <1>1, <1>2, <1>3, <1>4 DEF old, new, RowKept, JobKept

-----------------------------------------------------------------------------
(***************************************************************************)
(* The group: the part that moves keeps its invariant, the others do not   *)
(* move.                                                                   *)
(***************************************************************************)

GroupInv ==
    /\ MediaInv
    /\ of = "Identity" => IdentityInv
    /\ of = "Adoption" => AdoptionInv
    /\ of = "Upgrade" => UpgradeInv

LEMMA MediaSame == UNCHANGED mediaVars => MediaInv' = MediaInv
  BY DEF mediaVars, MediaInv, MediaType, UploadsHold, ExportsOwn

LEMMA IdentitySame == UNCHANGED identityVars => IdentityInv' = IdentityInv
  BY DEF identityVars, IdentityInv, IdentityType, Knows, Faithful, Identity!AtPath

LEMMA AdoptionSame == UNCHANGED adoptionVars => AdoptionInv' = AdoptionInv
  BY DEF adoptionVars, AdoptionInv, AdoptionType, BatchCovers, Adoption!StartedIsAdopted,
         Adoption!Candidates

LEMMA UpgradeSame == UNCHANGED upgradeVars => UpgradeInv' = UpgradeInv
  BY DEF upgradeVars, UpgradeInv

LEMMA GroupKeeps == GroupInv /\ [GroupNext]_groupVars => GroupInv'
<1> SUFFICES ASSUME GroupInv, [GroupNext]_groupVars PROVE GroupInv'
  OBVIOUS
<1>1. CASE TablesStep
  BY <1>1, MediaSame, IdentitySame, AdoptionSame, UpgradeSame
  DEF TablesStep, Others, GroupInv
<1>2. CASE UpgradeStep
  BY <1>2, MediaSame, UpgradeKeeps DEF UpgradeStep, Others, GroupInv
<1>3. CASE IdentityStep
  BY <1>3, MediaSame, IdentityKeeps DEF IdentityStep, Others, GroupInv
<1>4. CASE AdoptionStep
  BY <1>4, MediaSame, AdoptionKeeps DEF AdoptionStep, Others, GroupInv
<1>5. CASE MediaStep
  BY <1>5, MediaKeeps DEF MediaStep, Others, GroupInv
<1>6. CASE UNCHANGED groupVars
  BY <1>6, MediaSame, IdentitySame, AdoptionSame, UpgradeSame DEF groupVars, GroupInv
<1> QED
  BY <1>1, <1>2, <1>3, <1>4, <1>5, <1>6 DEF GroupNext

LEMMA GroupInvariance == GroupSpec => []GroupInv
<1>1. GroupInit => GroupInv
  BY MediaInit, IdentityInit, AdoptionInit, UpgradeInit DEF GroupInit, GroupInv
<1> QED
  BY <1>1, GroupKeeps, PTL DEF GroupSpec

\* No work an older program left is forgotten or invented, from whatever database of
\* schemas 0 to 9 an upgrade starts and however often it is begun again, and the runtime
\* runs only when every queued video has a job (migrations, adopt_legacy_video_index_jobs).
THEOREM DatabaseWork == GroupSpec => []WorkIsKept
<1>1. GroupInv => WorkIsKept
  BY UpgradeSound DEF GroupInv, WorkIsKept, AdoptionInv, BatchCovers
<1> QED
  BY <1>1, GroupInvariance, PTL

\* A digest was that of the file at the path during the call that returns it, a row has
\* its whole media, and an exported clip stays its own, for any callers, uploads, exports
\* and changes of the file (_hash_managed_regular_file, upload_video, _reserve_export_path).
THEOREM DatabaseFiles == GroupSpec => []FilesAreWhatRowsSay
<1>1. GroupInv => FilesAreWhatRowsSay
  BY IdentitySound, MediaSound DEF GroupInv, FilesAreWhatRowsSay
<1> QED
  BY <1>1, GroupInvariance, PTL

-----------------------------------------------------------------------------
(***************************************************************************)
(* The tables of the durable jobs.                                         *)
(***************************************************************************)

USE ConstantsAssumption DEF JobIds, RunIds, Jobs, Tables

\* A generation has its run: the foreign key of the generation tables.
GenHasRun ==
    \A t \in Tables, r \in RunIds : gen[t][r] # NoGen => run[r].state # None

\* Row j is the one retry of row p.
Retries(j, p) ==
    /\ p \in Jobs /\ job[p].state \in {"failed", "cancelled"}
    /\ job[p].work = job[j].work
    /\ job[j].attempt = job[p].attempt + 1
    /\ \A i \in Jobs : job[i].retryOf = p => i = j

\* A name is the key of one row of the segment and text tables.
OneRowPerName ==
    \A t \in Tables \ {"external"}, q, r \in RunIds :
        gen[t][q] # NoGen /\ gen[t][r] # NoGen /\ gen[t][q].name = gen[t][r].name => q = r

\* What a foreign key over the whole key resolves to is of the pointer's own video
\* and kind.
PointersFit ==
    \A k \in Kinds, v \in Videos : ptr[k][v] # 0 /\ TableOf[k] # "text" =>
        gen[TableOf[k]][ptr[k][v]].video = v /\ gen[TableOf[k]][ptr[k][v]].kind = k

Inv == TypeOK /\ GenHasRun /\ OneRowPerName /\ PointersFit /\ ReleasedIsCommitted

LEMMA RowsExist ==
    /\ \A row \in Rows : row # NoJob /\ row.state # None /\ row.work # None
    /\ \A row \in RunRows : row # NoRun /\ row.state # None
    /\ \A row \in GenRows : row # NoGen
    /\ NoRun.state = None /\ NoJob.state = None
BY DEF Rows, RunRows, GenRows, NoJob, NoRun, NoGen, States, RunStates, None

LEMMA TypeInit == Init => TypeOK
BY RowsExist DEF Init, TypeOK

LEMMA TypeStep == TypeOK /\ [Next]_vars => TypeOK'
<1> SUFFICES ASSUME TypeOK, [Next]_vars PROVE TypeOK'
  OBVIOUS
<1> USE DEF TypeOK
<1>1. ASSUME NEW row \in Rows, InsertJob(row) PROVE TypeOK'
  <2>1. PICK n \in JobIds : n = count + 1
    BY <1>1 DEF InsertJob
  <2>2. count' = n /\ job' = [job EXCEPT ![n] = row] /\ UNCHANGED <<run, gen, ptr, moved>>
    BY <1>1, <2>1 DEF InsertJob
  <2>3. job' \in [JobIds -> Rows \cup {NoJob}]
    BY <2>2
  <2>4. \A j \in JobIds : j \in Jobs' <=> job'[j] # NoJob
    BY <2>1, <2>2, RowsExist
  <2> QED
    BY <2>2, <2>3, <2>4
<1>2. ASSUME NEW j \in JobIds, NEW row \in Rows, UpdateJob(j, row) PROVE TypeOK'
  BY <1>2, RowsExist DEF UpdateJob
<1>3. ASSUME NEW r \in RunIds, NEW row \in RunRows, InsertRun(r, row) \/ UpdateRun(r, row)
      PROVE TypeOK'
  BY <1>3 DEF InsertRun, UpdateRun
<1>4. ASSUME NEW r \in RunIds, DeleteRun(r) PROVE TypeOK'
  BY <1>4 DEF DeleteRun
<1>5. ASSUME NEW r \in RunIds, NEW n \in GenNames, InsertGeneration(r, n) PROVE TypeOK'
  <2>1. run[r] \in RunRows
    BY <1>5 DEF InsertGeneration, NoRun, None
  <2>2. RunIdentity(r, n) \in GenRows /\ TableOf[KindOf[run[r].spec]] \in Tables
    BY <2>1 DEF RunRows, RunIdentity, GenRows
  <2> QED
    BY <1>5, <2>2 DEF InsertGeneration
<1>6. ASSUME NEW k \in Kinds, NEW v \in Videos, NEW r \in RunIds, SetPointer(k, v, r)
      PROVE TypeOK'
  BY <1>6 DEF SetPointer
<1>7. ASSUME NEW k \in Kinds, NEW l \in Kinds, NEW v \in Videos, NEW w \in Videos,
             NEW q \in RunIds, MovePointer(k, v, l, w, q)
      PROVE TypeOK'
  <2> DEFINE cleared == [ptr EXCEPT ![k][v] = 0]
  <2>1. /\ ptr' = [cleared EXCEPT ![l][w] = q] /\ UNCHANGED <<job, count, run, gen>>
        /\ moved' \in [Kinds -> SUBSET Videos]
    BY <1>7 DEF MovePointer
  <2>2. cleared \in [Kinds -> [Videos -> 0..MaxRuns]]
    BY ConstantsAssumption
  <2> HIDE DEF cleared
  <2>3. [cleared EXCEPT ![l][w] = q] \in [Kinds -> [Videos -> 0..MaxRuns]]
    BY <2>2
  <2> QED
    BY <2>1, <2>3
<1>8. ASSUME NEW k \in Kinds, NEW v \in Videos, DeletePointer(k, v) PROVE TypeOK'
  BY <1>8 DEF DeletePointer
<1>9. CASE UNCHANGED vars
  BY <1>9 DEF vars
<1> QED
  BY <1>1, <1>2, <1>3, <1>4, <1>5, <1>6, <1>7, <1>8, <1>9 DEF Next

\* The rows of the schema stay well typed under every statement.
THEOREM TypeCorrect == Spec => []TypeOK
BY TypeInit, TypeStep, PTL DEF Spec

-----------------------------------------------------------------------------

LEMMA LineageStep == TypeOK /\ RetryLineage /\ [Next]_vars => RetryLineage'
<1> SUFFICES ASSUME TypeOK, RetryLineage, [Next]_vars PROVE RetryLineage'
  OBVIOUS
<1> USE DEF TypeOK
<1>1. ASSUME NEW row \in Rows, InsertJob(row) PROVE RetryLineage'
  <2>0. PICK n \in JobIds : n = count + 1
    BY <1>1 DEF InsertJob
  <2>1. \A j \in Jobs : job'[j] = job[j] /\ j # n
    <3>1. job' = [job EXCEPT ![n] = row]
      BY <1>1, <2>0 DEF InsertJob
    <3>2. \A j \in Jobs : j \in JobIds /\ j # n
      BY <2>0
    <3>3. job \in [JobIds -> Rows \cup {NoJob}]
      OBVIOUS
    <3> HIDE DEF TypeOK, JobIds, Jobs
    <3> QED
      BY <3>1, <3>2, <3>3
  <2>2. job'[n] = row /\ Jobs' = Jobs \cup {n} /\ n \notin Jobs
    <3>1. job' = [job EXCEPT ![n] = row] /\ count' = n
      BY <1>1, <2>0 DEF InsertJob
    <3>2. job \in [JobIds -> Rows \cup {NoJob}] /\ count \in Nat
      OBVIOUS
    <3> HIDE DEF TypeOK
    <3>3. job'[n] = row
      BY <3>1, <3>2
    <3>4. Jobs' = Jobs \cup {n} /\ n \notin Jobs
      BY <2>0, <3>1, <3>2
    <3> QED
      BY <3>3, <3>4
  <2>3. RetryIdentity(row) /\ RowUnique(n, row)
    BY <1>1, <2>0 DEF InsertJob
  <2>4. \A j \in Jobs : job[j].retryOf # 0 => Retries(j, job[j].retryOf)
    BY DEF RetryLineage, Retries
  <2>5. ASSUME NEW j \in Jobs, job[j].retryOf # 0 PROVE Retries(j, job[j].retryOf)'
    <3> DEFINE p == job[j].retryOf
    <3>1. p \in Jobs /\ Retries(j, p)
      BY <2>4, <2>5 DEF Retries
    <3>2. job'[p] = job[p] /\ job'[j] = job[j]
      BY <2>1, <3>1
    <3>3. row.retryOf # p
      BY <2>1, <2>3, <2>5 DEF RowUnique
    <3> QED
      BY <2>1, <2>2, <2>5, <3>1, <3>2, <3>3 DEF Retries
  <2>6. ASSUME row.retryOf # 0 PROVE Retries(n, row.retryOf)'
    <3>1. PICK p \in Jobs : p = row.retryOf
      BY <2>3, <2>6 DEF RetryIdentity
    <3>2. /\ job[p].state \in {"failed", "cancelled"} /\ row.work = job[p].work
          /\ row.attempt = job[p].attempt + 1
      BY <2>3, <2>6, <3>1 DEF RetryIdentity
    <3>3. \A i \in Jobs : job[i].retryOf # p
      BY <2>2, <2>3, <2>6, <3>1 DEF RowUnique
    <3>4. job'[p] = job[p] /\ p \in Jobs'
      BY <2>1, <2>2
    <3>5. \A i \in Jobs' : job'[i].retryOf = p => i = n
      BY <2>1, <2>2, <3>3
    <3> QED
      BY <2>2, <3>1, <3>2, <3>4, <3>5 DEF Retries
  <2> QED
    BY <2>1, <2>2, <2>5, <2>6 DEF RetryLineage, Retries
<1>2. ASSUME NEW j \in JobIds, NEW row \in Rows, UpdateJob(j, row) PROVE RetryLineage'
  <2>1. \A i \in Jobs : /\ job'[i].retryOf = job[i].retryOf /\ job'[i].work = job[i].work
                        /\ job'[i].attempt = job[i].attempt
                        /\ job[i].state \in {"failed", "cancelled"} => job'[i] = job[i]
    BY <1>2 DEF UpdateJob, Terminal
  <2>2. Jobs' = Jobs
    BY <1>2 DEF UpdateJob
  <2>3. \A i \in Jobs : job[i].retryOf # 0 => Retries(i, job[i].retryOf)
    BY DEF RetryLineage, Retries
  <2>4. ASSUME NEW i \in Jobs, job[i].retryOf # 0 PROVE Retries(i, job[i].retryOf)'
    <3>1. Retries(i, job[i].retryOf)
      BY <2>3, <2>4
    <3> QED
      BY <2>1, <2>2, <3>1 DEF Retries
  <2> QED
    BY <2>1, <2>2, <2>4 DEF RetryLineage, Retries
<1>3. CASE UNCHANGED <<job, count>>
  BY <1>3 DEF RetryLineage
<1> QED
  BY <1>1, <1>2, <1>3 DEF Next, vars, InsertRun, UpdateRun, DeleteRun, InsertGeneration,
     SetPointer, MovePointer, DeletePointer

\* Retries form chains of one work whatever is written to the database.
THEOREM Lineage == Spec => []RetryLineage
<1>1. Init => RetryLineage
  BY DEF Init, RetryLineage
<1> QED
  BY <1>1, LineageStep, TypeCorrect, PTL DEF Spec
-----------------------------------------------------------------------------

LEMMA GateInit == Init => GenHasRun /\ OneRowPerName /\ PointersFit /\ ReleasedIsCommitted
BY DEF Init, GenHasRun, OneRowPerName, PointersFit, ReleasedIsCommitted

LEMMA KeysStep == TypeOK /\ OneRowPerName /\ PointersFit /\ ReleasedIsCommitted /\ [Next]_vars
                    => OneRowPerName' /\ PointersFit'
<1> SUFFICES ASSUME TypeOK, OneRowPerName, PointersFit, ReleasedIsCommitted, [Next]_vars
             PROVE  OneRowPerName' /\ PointersFit'
  OBVIOUS
<1> USE DEF TypeOK
<1>1. ASSUME NEW r \in RunIds, NEW n \in GenNames, InsertGeneration(r, n)
      PROVE OneRowPerName' /\ PointersFit'
  <2>1. run[r] \in RunRows
    BY <1>1 DEF InsertGeneration, NoRun, None
  <2> DEFINE row == RunIdentity(r, n)
             u == TableOf[KindOf[run[r].spec]]
  <2>2. row.name = n /\ row \in GenRows /\ u \in Tables
    BY <2>1 DEF RunRows, RunIdentity, GenRows
  <2>3. /\ gen[u][r] = NoGen /\ NameFree(u, row)
        /\ gen' = [gen EXCEPT ![u][r] = row] /\ ptr' = ptr
    BY <1>1 DEF InsertGeneration
  <2> HIDE DEF row, u
  <2>4. gen'[u][r] = row /\ \A t \in Tables, q \in RunIds : <<t, q>> # <<u, r>> => gen'[t][q] = gen[t][q]
    BY <2>2, <2>3
  <2>5. OneRowPerName'
    <3> SUFFICES ASSUME NEW t \in Tables \ {"external"}, NEW p \in RunIds, NEW q \in RunIds,
                        gen'[t][p] # NoGen, gen'[t][q] # NoGen,
                        gen'[t][p].name = gen'[t][q].name
                 PROVE  p = q
      BY DEF OneRowPerName
    <3>1. CASE t = u /\ p = r /\ q # r
      BY <2>3, <2>4, <3>1 DEF NameFree
    <3>2. CASE t = u /\ q = r /\ p # r
      BY <2>3, <2>4, <3>2 DEF NameFree
    <3>3. CASE <<t, p>> # <<u, r>> /\ <<t, q>> # <<u, r>>
      <4>1. gen'[t][p] = gen[t][p] /\ gen'[t][q] = gen[t][q]
        BY <2>4, <3>3
      <4> QED
        BY <4>1 DEF OneRowPerName
    <3> QED
      BY <3>1, <3>2, <3>3
  <2>6. PointersFit'
    <3> SUFFICES ASSUME NEW k \in Kinds, NEW v \in Videos, ptr[k][v] # 0, TableOf[k] # "text"
                 PROVE  gen'[TableOf[k]][ptr[k][v]].video = v /\ gen'[TableOf[k]][ptr[k][v]].kind = k
      BY <2>3 DEF PointersFit
    <3>1. ptr[k][v] \in RunIds /\ TableOf[k] \in Tables
      OBVIOUS
    <3>2. gen[TableOf[k]][ptr[k][v]] # NoGen
      BY DEF ReleasedIsCommitted
    <3>3. gen'[TableOf[k]][ptr[k][v]] = gen[TableOf[k]][ptr[k][v]]
      BY <2>3, <2>4, <3>1, <3>2
    <3> QED
      BY <3>3 DEF PointersFit
  <2> QED
    BY <2>5, <2>6
<1>2. ASSUME NEW k \in Kinds, NEW v \in Videos, NEW r \in RunIds, SetPointer(k, v, r)
      PROVE OneRowPerName' /\ PointersFit'
  BY <1>2 DEF SetPointer, PointerKeys, OneRowPerName, PointersFit
<1>3. ASSUME NEW k \in Kinds, NEW l \in Kinds, NEW v \in Videos, NEW w \in Videos,
             NEW q \in RunIds, MovePointer(k, v, l, w, q)
      PROVE OneRowPerName' /\ PointersFit'
  <2>1. /\ ptr' = [ptr EXCEPT ![k][v] = 0, ![l][w] = q] /\ gen' = gen
        /\ Resolves(k, v, l, w, q)
    BY <1>3 DEF MovePointer
  <2>2. TableOf[l] # "text" => gen[TableOf[l]][q].video = w /\ gen[TableOf[l]][q].kind = l
    BY <2>1 DEF Resolves
  <2>3. \A m \in Kinds, u \in Videos : ptr'[m][u] # 0 =>
           \/ m = l /\ u = w /\ ptr'[m][u] = q
           \/ ptr'[m][u] = ptr[m][u]
    BY <2>1
  <2>4. OneRowPerName'
    BY <2>1 DEF OneRowPerName
  <2>5. PointersFit'
    <3> SUFFICES ASSUME NEW m \in Kinds, NEW u \in Videos, ptr'[m][u] # 0, TableOf[m] # "text"
                 PROVE  /\ gen[TableOf[m]][ptr'[m][u]].video = u
                        /\ gen[TableOf[m]][ptr'[m][u]].kind = m
      BY <2>1 DEF PointersFit
    <3>1. CASE m = l /\ u = w /\ ptr'[m][u] = q
      BY <2>2, <3>1
    <3>2. CASE ptr'[m][u] = ptr[m][u]
      BY <3>2 DEF PointersFit
    <3> QED
      BY <2>3, <3>1, <3>2
  <2> QED
    BY <2>4, <2>5
<1>4. ASSUME NEW k \in Kinds, NEW v \in Videos, DeletePointer(k, v)
      PROVE OneRowPerName' /\ PointersFit'
  BY <1>4 DEF DeletePointer, OneRowPerName, PointersFit
<1>5. CASE UNCHANGED <<gen, ptr>>
  BY <1>5 DEF OneRowPerName, PointersFit
<1> QED
  BY <1>1, <1>2, <1>3, <1>4, <1>5 DEF Next, vars, InsertJob, UpdateJob, InsertRun,
     UpdateRun, DeleteRun

LEMMA GateStep == Inv /\ [Next]_vars => GenHasRun' /\ ReleasedIsCommitted'
<1> SUFFICES ASSUME Inv, [Next]_vars PROVE GenHasRun' /\ ReleasedIsCommitted'
  OBVIOUS
<1> USE DEF Inv, TypeOK
<1>0. \A k \in Kinds, v \in Videos : ptr[k][v] # 0 => ptr[k][v] \in RunIds
  OBVIOUS
<1>1. ASSUME NEW row \in Rows, InsertJob(row) PROVE GenHasRun' /\ ReleasedIsCommitted'
  <2>1. \A j \in Jobs : j \in Jobs' /\ job'[j] = job[j]
    BY <1>1 DEF InsertJob
  <2> QED
    BY <1>1, <2>1 DEF InsertJob, GenHasRun, ReleasedIsCommitted, Committed
<1>2. ASSUME NEW j \in JobIds, NEW row \in Rows, UpdateJob(j, row)
      PROVE GenHasRun' /\ ReleasedIsCommitted'
  <2>1. \A i \in Jobs : i \in Jobs' /\ (job[i].state = "complete" => job'[i] = job[i])
    BY <1>2 DEF UpdateJob, Terminal
  <2> QED
    BY <1>2, <2>1 DEF UpdateJob, GenHasRun, ReleasedIsCommitted, Committed
<1>3. ASSUME NEW r \in RunIds, NEW row \in RunRows, InsertRun(r, row)
      PROVE GenHasRun' /\ ReleasedIsCommitted'
  <2>1. \A q \in RunIds : run[q].state # None => run'[q] = run[q]
    BY <1>3 DEF InsertRun
  <2>2. row.state # None
    BY RowsExist
  <2>3. GenHasRun'
    BY <1>3, <2>1, <2>2 DEF InsertRun, GenHasRun
  <2>4. ReleasedIsCommitted'
    BY <1>0, <1>3, <2>1 DEF InsertRun, ReleasedIsCommitted, Committed
  <2> QED
    BY <2>3, <2>4
<1>4. ASSUME NEW r \in RunIds, NEW row \in RunRows, UpdateRun(r, row)
      PROVE GenHasRun' /\ ReleasedIsCommitted'
  <2>1. \A q \in RunIds : /\ run'[q].job = run[q].job
                          /\ run[q].state # None => run'[q].state # None
    BY <1>4, RowsExist DEF UpdateRun, JobLinkImmutable
  <2>2. GenHasRun'
    BY <1>4, <2>1 DEF UpdateRun, GenHasRun
  <2>3. ReleasedIsCommitted'
    BY <1>0, <1>4, <2>1 DEF UpdateRun, ReleasedIsCommitted, Committed
  <2> QED
    BY <2>2, <2>3
<1>5. ASSUME NEW r \in RunIds, DeleteRun(r) PROVE GenHasRun' /\ ReleasedIsCommitted'
  <2>1. \A q \in RunIds \ {r} : run'[q] = run[q]
    <3>1. run' = [run EXCEPT ![r] = NoRun] /\ run \in [RunIds -> RunRows \cup {NoRun}]
      BY <1>5 DEF DeleteRun
    <3> HIDE DEF Inv, TypeOK
    <3> QED
      BY <3>1
  <2>2. ASSUME NEW k \in Kinds, NEW v \in Videos, ptr[k][v] # 0 PROVE ptr[k][v] # r
    <3>1. TableOf[k] \in Tables /\ \A t \in Tables : gen[t][r] = NoGen
      BY <1>5 DEF DeleteRun
    <3>2. gen[TableOf[k]][ptr[k][v]] # NoGen
      BY <2>2 DEF ReleasedIsCommitted
    <3> QED
      BY <3>1, <3>2
  <2>3. GenHasRun'
    BY <1>5, <2>1 DEF DeleteRun, GenHasRun
  <2>4. ReleasedIsCommitted'
    BY <1>0, <1>5, <2>1, <2>2 DEF DeleteRun, ReleasedIsCommitted, Committed
  <2> QED
    BY <2>3, <2>4
<1>6. ASSUME NEW r \in RunIds, NEW n \in GenNames, InsertGeneration(r, n)
      PROVE GenHasRun' /\ ReleasedIsCommitted'
  <2>1. run[r].state # None
    BY <1>6 DEF InsertGeneration, None
  <2>2. run[r] \in RunRows
    BY <2>1 DEF NoRun
  <2>3. RunIdentity(r, n) \in GenRows /\ TableOf[KindOf[run[r].spec]] \in Tables
    BY <2>2 DEF RunRows, RunIdentity, GenRows
  <2>4. \A t \in Tables, q \in RunIds : gen[t][q] # NoGen => gen'[t][q] # NoGen
    BY <1>6, <2>3, RowsExist DEF InsertGeneration
  <2>5. \A t \in Tables, q \in RunIds : gen'[t][q] # NoGen => gen[t][q] # NoGen \/ q = r
    BY <1>6, <2>3 DEF InsertGeneration
  <2>6. GenHasRun'
    BY <1>6, <2>1, <2>5 DEF InsertGeneration, GenHasRun
  <2>7. UNCHANGED <<job, count, run, ptr, moved>>
    BY <1>6 DEF InsertGeneration
  <2>8. ReleasedIsCommitted'
    <3> SUFFICES ASSUME NEW k \in Kinds, NEW v \in Videos, ptr[k][v] # 0
                 PROVE  /\ run[ptr[k][v]].state # None
                        /\ gen'[TableOf[k]][ptr[k][v]] # NoGen
                        /\ \/ Committed(ptr[k][v])'
                           \/ v \in moved[k] /\ TableOf[k] = "external"
      BY <2>7 DEF ReleasedIsCommitted
    <3>1. /\ run[ptr[k][v]].state # None /\ gen[TableOf[k]][ptr[k][v]] # NoGen
          /\ \/ Committed(ptr[k][v])
             \/ v \in moved[k] /\ TableOf[k] = "external"
      BY DEF ReleasedIsCommitted
    <3>2. TableOf[k] \in Tables
      OBVIOUS
    <3>3. Committed(ptr[k][v])' = Committed(ptr[k][v])
      BY <2>7 DEF Committed
    <3> QED
      BY <1>0, <2>4, <3>1, <3>2, <3>3
  <2> QED
    BY <2>6, <2>8
<1>7. ASSUME NEW k \in Kinds, NEW v \in Videos, NEW r \in RunIds, SetPointer(k, v, r)
      PROVE GenHasRun' /\ ReleasedIsCommitted'
  <2>1. gen[TableOf[k]][r] # NoGen /\ Committed(r) /\ TableOf[k] \in Tables
    BY <1>7 DEF SetPointer, PointerKeys, JobOwner
  <2>2. run[r].state # None
    BY <2>1 DEF GenHasRun
  <2> QED
    BY <1>7, <2>1, <2>2 DEF SetPointer, GenHasRun, ReleasedIsCommitted, Committed
<1>8. ASSUME NEW k \in Kinds, NEW l \in Kinds, NEW v \in Videos, NEW w \in Videos,
             NEW q \in RunIds, MovePointer(k, v, l, w, q)
      PROVE GenHasRun' /\ ReleasedIsCommitted'
  <2>1. /\ ptr' = [ptr EXCEPT ![k][v] = 0, ![l][w] = q] /\ UNCHANGED <<job, count, run, gen>>
        /\ ptr[k][v] # 0 /\ ptr[l][w] = 0 /\ Resolves(k, v, l, w, q)
        /\ moved' = IF TableOf[k] = "text" THEN moved
                    ELSE [moved EXCEPT ![k] = @ \ {v}, ![l] = @ \cup {w}]
    BY <1>8 DEF MovePointer
  <2>2. /\ ptr'[l][w] = q /\ (<<k, v>> # <<l, w>> => ptr'[k][v] = 0)
        /\ \A m \in Kinds, u \in Videos :
              <<m, u>> \notin {<<k, v>>, <<l, w>>} => ptr'[m][u] = ptr[m][u]
    BY <2>1
  <2> DEFINE Served(m, u, p) ==
               /\ run[p].state # None /\ gen[TableOf[m]][p] # NoGen
               /\ Committed(p) \/ (u \in moved'[m] /\ TableOf[m] = "external")
  <2>3. <<k, v>> # <<l, w>>
    BY <2>1
  <2>4. Served(l, w, q)
    <3>1. CASE TableOf[k] = "text"
      BY <2>1, <3>1 DEF Resolves, ReleasedIsCommitted
    <3>2. CASE TableOf[k] = "segment"
      <4> DEFINE p == ptr[k][v]
                 g == gen["segment"]
      <4>1. /\ g[q] = [video |-> w, kind |-> l, name |-> g[p].name]
            /\ g[p] # NoGen /\ g[p].video = v /\ g[p].kind = k /\ p \in RunIds
        BY <2>1, <3>2 DEF Resolves, ReleasedIsCommitted, PointersFit
      <4>2. g[q] # NoGen /\ g[q].name = g[p].name
        BY <4>1 DEF NoGen
      <4>3. q = p
        BY <4>1, <4>2 DEF OneRowPerName
      <4> QED
        BY <2>3, <4>1, <4>3
    <3>3. CASE TableOf[k] = "external"
      <4>1. gen["external"][q] # NoGen /\ TableOf[l] = "external"
        BY <2>1, <3>3 DEF Resolves, NoGen
      <4> QED
        BY <2>1, <3>3, <4>1 DEF GenHasRun
    <3> QED
      BY <3>1, <3>2, <3>3
  <2>5. ASSUME NEW m \in Kinds, NEW u \in Videos, <<m, u>> \notin {<<k, v>>, <<l, w>>},
               ptr[m][u] # 0
        PROVE  Served(m, u, ptr[m][u])
    BY <2>1, <2>5 DEF ReleasedIsCommitted
  <2>6. \A p : Committed(p)' = Committed(p)
    BY <2>1 DEF Committed
  <2>7. ReleasedIsCommitted'
    <3> SUFFICES ASSUME NEW m \in Kinds, NEW u \in Videos, ptr'[m][u] # 0
                 PROVE  Served(m, u, ptr'[m][u])
      BY <2>1, <2>6 DEF ReleasedIsCommitted
    <3>1. CASE m = l /\ u = w
      BY <2>2, <2>4, <3>1
    <3>2. CASE <<m, u>> \notin {<<k, v>>, <<l, w>>}
      <4>1. ptr'[m][u] = ptr[m][u]
        BY <2>2, <3>2
      <4> QED
        BY <2>5, <3>2, <4>1
    <3> QED
      BY <2>2, <2>3, <3>1, <3>2
  <2> QED
    BY <2>1, <2>7 DEF GenHasRun
<1>9. ASSUME NEW k \in Kinds, NEW v \in Videos, DeletePointer(k, v)
      PROVE GenHasRun' /\ ReleasedIsCommitted'
  BY <1>9 DEF DeletePointer, GenHasRun, ReleasedIsCommitted, Committed
<1>10. CASE UNCHANGED vars
  BY <1>10 DEF vars, GenHasRun, ReleasedIsCommitted, Committed
<1> QED
  BY <1>1, <1>2, <1>3, <1>4, <1>5, <1>6, <1>7, <1>8, <1>9, <1>10 DEF Next

\* No INSERT of a pointer and no UPDATE of the generation it names releases the output
\* of an unfinished job, for any tables, kinds and rows; only an UPDATE of the key of a
\* pointer to an external generation may.
THEOREM ReleaseGate == Spec => []ReleasedIsCommitted
<1>1. Init => Inv
  BY TypeInit, GateInit DEF Inv
<1>2. Inv /\ [Next]_vars => Inv'
  BY TypeStep, GateStep, KeysStep DEF Inv
<1>3. Inv => ReleasedIsCommitted
  BY DEF Inv
<1> QED
  BY <1>1, <1>2, <1>3, PTL DEF Spec

-----------------------------------------------------------------------------

\* Counting suffices: as many runs as kinds, of as many different kinds, are
\* one run of every kind.
LEMMA OneRunPerKind ==
    ASSUME TypeOK, NEW j \in Jobs, ExactReceipts(j), NEW k \in Kinds
    PROVE  \E r \in RunsOf(j) :
              /\ KindOf[run[r].spec] = k
              /\ \A q \in RunsOf(j) : KindOf[run[q].spec] = k => q = r
<1> DEFINE R == RunsOf(j)
           f == [r \in R |-> KindOf[run[r].spec]]
           I == {KindOf[run[r].spec] : r \in R}
<1>1. IsFiniteSet(R)
  <2>1. R \subseteq 1..MaxRuns
    BY DEF RunsOf, RunIds
  <2> QED
    BY <2>1, FS_Interval, FS_Subset DEF ConstantsAssumption
<1>2. \A r \in R : KindOf[run[r].spec] \in Kinds
  BY DEF RunsOf, TypeOK, RunRows, NoRun
<1>3. I = Kinds
  <2>1. I \in SUBSET Kinds
    BY <1>2
  <2> QED
    BY <2>1, FS_Subset DEF ExactReceipts
<1>4. f \in Surjection(R, Kinds)
  BY <1>2, <1>3 DEF Surjection
<1>5. f \in Injection(R, Kinds)
  BY <1>1, <1>4, FS_Surjection DEF ExactReceipts
<1>6. PICK r \in R : f[r] = k
  BY <1>3
<1>7. \A q \in R : f[q] = f[r] => q = r
  <2> HIDE DEF f, R
  <2> QED
    BY <1>5 DEF Injection, IsInjective
<1>8. \A q \in R : f[q] = KindOf[run[q].spec]
  OBVIOUS
<1> QED
  BY <1>6, <1>7, <1>8

LEMMA ReceiptsStep ==
    ASSUME TypeOK, [Next]_vars, NEW j \in JobIds,
           job'[j].state = "complete", job[j].state # "complete", j \in Jobs
    PROVE  ExactReceipts(j)
<1>1. ASSUME NEW row \in Rows, InsertJob(row) PROVE FALSE
  BY <1>1 DEF InsertJob, TypeOK
<1>2. ASSUME NEW i \in JobIds, NEW row \in Rows, UpdateJob(i, row) PROVE ExactReceipts(j)
  BY <1>2 DEF UpdateJob, TypeOK
<1>3. CASE UNCHANGED job
  BY <1>3
<1> QED
  BY <1>1, <1>2, <1>3 DEF Next, vars, InsertRun, UpdateRun, DeleteRun, InsertGeneration,
     SetPointer, MovePointer, DeletePointer

\* The counts of the completion trigger mean what they are there for: a job
\* that becomes complete has exactly one receipt for each planned stage.
THEOREM ReceiptsAreExact == Spec => CompletedWithReceipts
<1>1. ASSUME TypeOK, [Next]_vars, NEW j \in JobIds,
             job'[j].state = "complete", job[j].state # "complete", j \in Jobs, NEW k \in Kinds
      PROVE  \E r \in RunsOf(j) :
                /\ run[r].spec = SpecOf[job[j].work][k] /\ run[r].state \in Receipts
                /\ \A q \in RunsOf(j) : KindOf[run[q].spec] = k => q = r
  <2>1. ExactReceipts(j)
    BY <1>1, ReceiptsStep
  <2>2. PICK r \in RunsOf(j) : /\ KindOf[run[r].spec] = k
                               /\ \A q \in RunsOf(j) : KindOf[run[q].spec] = k => q = r
    BY <1>1, <2>1, OneRunPerKind
  <2> QED
    BY <2>1, <2>2 DEF ExactReceipts
<1>2. TypeOK /\ [Next]_vars =>
        [\A j \in JobIds : (job'[j].state = "complete" /\ job[j].state # "complete"
                             /\ j \in Jobs) =>
          \A k \in Kinds : \E r \in RunsOf(j) :
             /\ run[r].spec = SpecOf[job[j].work][k] /\ run[r].state \in Receipts
             /\ \A q \in RunsOf(j) : KindOf[run[q].spec] = k => q = r]_vars
  BY <1>1
<1> QED
  BY <1>2, TypeCorrect, PTL DEF Spec, CompletedWithReceipts
=============================================================================
