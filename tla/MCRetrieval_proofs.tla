-------------------------- MODULE MCRetrieval_proofs --------------------------
(***************************************************************************)
(* Proofs about what searches read and how it comes to be, for every set   *)
(* of builds, calls and videos, and every bound: the files an indexing     *)
(* derives from a video and the rows that name them, the generations of    *)
(* the Lighthouse worker with the receipts the backend accepted, searches  *)
(* while releases are replaced, and what a pinned session certifies.       *)
(*                                                                         *)
(* A part has an inductive invariant of its own; GroupInv puts them        *)
(* together, and the step of one part leaves those of the others alone.    *)
(***************************************************************************)
EXTENDS MCRetrieval, Sequences, FiniteSets, FiniteSetTheorems, TLAPS

(***************************************************************************)
(* The files an indexing derives from a video.                             *)
(***************************************************************************)

ArtifactsBuilds ==
    [kind : {"scenes", "dense"},
      at : {"new"} \cup Artifacts!Working \cup Artifacts!Ended,
     claim : 0..OtherVideos, shot : SUBSET (0..OtherVideos)]

\* What is known of one build, by where it is.
ArtifactsSound(b) ==
    LET at == artifactsBuild[b].at
    IN  /\ at \in Artifacts!Working <=> artifactsRunning = b
        /\ at \in {"new", "hashed"}
             => artifactsDir[b] = "none" /\ artifactsAlias[b] = {}
        /\ at \in {"made", "shot", "checked", "written"}
             => artifactsDir[b] = "staging" /\ artifactsAlias[b] = {}
        /\ at \in {"renamed", "built", "complete"} => artifactsDir[b] = "final"
        /\ at \in {"written"} \/ artifactsDir[b] = "final" => b \in artifactsFiles
        /\ at \in {"built", "complete"} /\ artifactsBuild[b].kind = "dense"
             => artifactsAlias[b] = Aliases
        /\ at \in {"new", "hashed", "made"} => artifactsBuild[b].shot = {}
        /\ artifactsBuild[b].kind = "dense" =>
             /\ at = "shot" => artifactsBuild[b].shot # {}
             /\ at \in {"hashed", "made", "shot"} /\ b \notin artifactsRestored
                  /\ artifactsSource = artifactsBuild[b].claim
                    => artifactsBuild[b].shot \subseteq {artifactsBuild[b].claim}
             /\ at \in {"checked", "written", "renamed", "built", "complete"}
                  => artifactsBuild[b].shot = {artifactsBuild[b].claim}
                       \/ b \in artifactsRestored
             /\ at = "complete" => artifactsBuild[b].claim = 0
        /\ at \in {"failed", "cancelled"} /\ b \notin artifactsUntidy =>
             IF artifactsBuild[b].kind = "scenes" THEN artifactsDir[b] = "none"
             ELSE artifactsDir[b] # "staging" /\ artifactsAlias[b] \in {{}, Aliases}
        /\ b \in artifactsRows => at = "complete"

ArtifactsInv == Artifacts!TypeOK /\ \A b \in IndexBuilds : ArtifactsSound(b)

\* A step changes the state of one build at most, the one that is running after
\* or before it.
ArtifactsElsewhere(b) ==
    \A c \in IndexBuilds \ {b} :
        /\ artifactsBuild'[c] = artifactsBuild[c] /\ artifactsDir'[c] = artifactsDir[c]
        /\ artifactsAlias'[c] = artifactsAlias[c]
        /\ c \in artifactsFiles' <=> c \in artifactsFiles
        /\ c \in artifactsRows' <=> c \in artifactsRows
        /\ c \in artifactsUntidy' <=> c \in artifactsUntidy
        /\ c \in artifactsRestored' <=> c \in artifactsRestored
        /\ artifactsRunning # c /\ artifactsRunning' # c

\* So the other builds are as sound as before.
LEMMA ArtifactsAside ==
    ASSUME ArtifactsInv, NEW b \in IndexBuilds, NEW c \in IndexBuilds \ {b},
             ArtifactsElsewhere(b)
    PROVE  ArtifactsSound(c)'
<1>1. ArtifactsSound(c) /\ artifactsBuild[c].at \notin Artifacts!Working
  BY DEF ArtifactsInv, ArtifactsElsewhere, ArtifactsSound
<1>2. /\ artifactsBuild'[c] = artifactsBuild[c] /\ artifactsDir'[c] = artifactsDir[c]
      /\ artifactsAlias'[c] = artifactsAlias[c]
      /\ c \in artifactsFiles' <=> c \in artifactsFiles
      /\ c \in artifactsRows' <=> c \in artifactsRows
      /\ c \in artifactsUntidy' <=> c \in artifactsUntidy
      /\ c \in artifactsRestored' <=> c \in artifactsRestored
      /\ artifactsRunning' # c
  BY DEF ArtifactsElsewhere
<1> QED BY <1>1, <1>2 DEF ArtifactsSound, Artifacts!Working

\* Records of builds with a field replaced are records of builds.
LEMMA ArtifactsEdits ==
    ASSUME NEW r \in ArtifactsBuilds
    PROVE  /\ \A at \in {"new"} \cup Artifacts!Working \cup Artifacts!Ended :
                /\ [r EXCEPT !.at = at] \in ArtifactsBuilds
                /\ \A s \in SUBSET (0..OtherVideos) :
                     [r EXCEPT !.shot = s, !.at = at] \in ArtifactsBuilds
                /\ \A k \in {"scenes", "dense"}, s \in 0..OtherVideos :
                     [r EXCEPT !.kind = k, !.at = at, !.claim = s] \in ArtifactsBuilds
BY DEF ArtifactsBuilds

\* The record of the build after a step that moves it.
LEMMA ArtifactsMoves ==
    ASSUME ArtifactsInv, NEW b \in IndexBuilds,
           NEW at \in {"new"} \cup Artifacts!Working \cup Artifacts!Ended,
             Artifacts!Goto(b, at)
    PROVE  /\ artifactsBuild' \in [IndexBuilds -> ArtifactsBuilds]
           /\ \A c \in IndexBuilds \ {b} : artifactsBuild'[c] = artifactsBuild[c]
           /\ artifactsBuild'[b].at = at
           /\ artifactsBuild'[b].kind = artifactsBuild[b].kind
           /\ artifactsBuild'[b].claim = artifactsBuild[b].claim
           /\ artifactsBuild'[b].shot = artifactsBuild[b].shot
<1>1. artifactsBuild \in [IndexBuilds -> ArtifactsBuilds]
  BY DEF ArtifactsInv, Artifacts!TypeOK, ArtifactsBuilds, Artifacts!Kinds,
     Artifacts!SourceBytes
<1> DEFINE r == [artifactsBuild[b] EXCEPT !.at = at]
<1>2. r \in ArtifactsBuilds
  BY <1>1, ArtifactsEdits
<1>3. /\ r.at = at /\ r.kind = artifactsBuild[b].kind
      /\ r.claim = artifactsBuild[b].claim /\ r.shot = artifactsBuild[b].shot
  BY <1>1 DEF ArtifactsBuilds
<1>4. artifactsBuild' = [artifactsBuild EXCEPT ![b] = r]
  BY <1>1 DEF Artifacts!Goto
<1> HIDE DEF r
<1> QED BY <1>1, <1>2, <1>3, <1>4

\* The other variables stay in their sets.
ArtifactsRest ==
    /\ artifactsSource \in 0..OtherVideos
    /\ artifactsDir \in [IndexBuilds -> {"none", "staging", "final"}]
    /\ artifactsAlias \in [IndexBuilds -> SUBSET Aliases]
    /\ artifactsFiles \subseteq IndexBuilds /\ artifactsRows \subseteq IndexBuilds
    /\ artifactsUntidy \subseteq IndexBuilds /\ artifactsRestored \subseteq IndexBuilds
    /\ artifactsRunning \in IndexBuilds \cup {"none"}
    /\ artifactsCrashes \in 0..IndexerCrashes

\* The type invariant, split; its primed form apart, for the steps.
LEMMA ArtifactsTypes ==
    Artifacts!TypeOK <=> ArtifactsRest
      /\ artifactsBuild \in [IndexBuilds -> ArtifactsBuilds]
BY DEF Artifacts!TypeOK, ArtifactsRest, ArtifactsBuilds, Artifacts!Kinds, Artifacts!None,
   Artifacts!SourceBytes

LEMMA ArtifactsTypesNext ==
    ArtifactsRest' /\ artifactsBuild' \in [IndexBuilds -> ArtifactsBuilds]
      => Artifacts!TypeOK'
BY DEF Artifacts!TypeOK, ArtifactsRest, ArtifactsBuilds, Artifacts!Kinds, Artifacts!None,
   Artifacts!SourceBytes

\* Every step of a build, and every way it ends early.
LEMMA ArtifactsHandlers ==
    ASSUME Artifacts!ArtifactsAssumption, ArtifactsInv, NEW b \in IndexBuilds,
           \/ \E kind \in Artifacts!Kinds : Artifacts!Begin(b, kind)
           \/ Artifacts!Mkdir(b) \/ Artifacts!Extract(b) \/ Artifacts!Recheck(b)
           \/ Artifacts!Write(b)
           \/ Artifacts!Rename(b) \/ \E t \in Aliases : Artifacts!Link(b, t)
           \/ Artifacts!Attest(b) \/ Artifacts!Commit(b)
           \/ \E removed \in BOOLEAN : Artifacts!Fail(b, removed)
                \/ Artifacts!Cancel(b, removed)
    PROVE  Artifacts!TypeOK' /\ ArtifactsElsewhere(b) /\ ArtifactsSound(b)'
<1>1. ArtifactsRest /\ artifactsBuild \in [IndexBuilds -> ArtifactsBuilds]
        /\ ArtifactsSound(b)
  BY ArtifactsTypes DEF ArtifactsInv
<1>2. "none" \notin IndexBuilds
  BY DEF Artifacts!ArtifactsAssumption, Artifacts!None
<1>3. artifactsRunning \in {b, "none"}
        /\ (artifactsRunning = b <=> artifactsBuild[b].at \in Artifacts!Working)
  BY <1>1, <1>2 DEF ArtifactsSound, Artifacts!Begin, Artifacts!Mkdir, Artifacts!Extract,
     Artifacts!Recheck,
     Artifacts!Write, Artifacts!Rename, Artifacts!Link, Artifacts!Attest,
       Artifacts!Commit,
       Artifacts!Fail,
     Artifacts!Cancel, Artifacts!None
<1>4. /\ Artifacts!Working = {"hashed", "made", "shot", "checked", "written", "renamed",
           "built"}
      /\ Artifacts!Ended = {"complete", "failed", "cancelled", "killed"}
      /\ Artifacts!None = "none" /\ Artifacts!Asset = 0
      /\ Artifacts!Kinds = {"scenes", "dense"}
  BY DEF Artifacts!Working, Artifacts!Ended, Artifacts!None, Artifacts!Asset,
     Artifacts!Kinds
<1>5. artifactsSource \in Nat /\ artifactsBuild[b].claim \in Nat
        /\ artifactsBuild[b].shot \in SUBSET (0..OtherVideos)
      /\ artifactsBuild[b].kind \in {"scenes", "dense"}
  <2>1. OtherVideos \in Nat /\ artifactsBuild[b] \in ArtifactsBuilds
          /\ artifactsSource \in 0..OtherVideos
    BY <1>1 DEF ArtifactsRest, Artifacts!ArtifactsAssumption
  <2> QED BY <2>1 DEF ArtifactsBuilds
<1> DEFINE Goal == Artifacts!TypeOK' /\ ArtifactsElsewhere(b) /\ ArtifactsSound(b)'
<1>10. ASSUME NEW kind \in Artifacts!Kinds, Artifacts!Begin(b, kind) PROVE Goal
  <2> DEFINE w == IF kind = "dense" THEN artifactsSource ELSE 0
             r == [artifactsBuild[b] EXCEPT !.kind = kind, !.at = "hashed", !.claim = w]
  <2>1. artifactsBuild' = [artifactsBuild EXCEPT ![b] = r]
    BY <1>10 DEF Artifacts!Begin, Artifacts!Asset
  <2>2. w \in 0..OtherVideos /\ (kind = "dense" => w = artifactsSource)
    <3>1. artifactsSource \in 0..OtherVideos /\ OtherVideos \in Nat
      BY <1>1 DEF ArtifactsRest, Artifacts!ArtifactsAssumption
    <3> QED BY <3>1
  <2> HIDE DEF w
  <2>3. r \in ArtifactsBuilds
    <3>1. artifactsBuild[b] \in ArtifactsBuilds /\ kind \in {"scenes", "dense"}
      BY <1>1, <1>4
    <3>2. "hashed" \in Artifacts!Working
      BY <1>4
    <3> QED BY <3>1, <3>2, <2>2, ArtifactsEdits
  <2>4. r.kind = kind /\ r.at = "hashed"
          /\ (kind = "dense" => r.claim = artifactsSource)
          /\ r.shot = artifactsBuild[b].shot
    BY <1>1, <2>2 DEF ArtifactsBuilds
  <2> HIDE DEF r
  <2>5. /\ artifactsBuild' \in [IndexBuilds -> ArtifactsBuilds]
        /\ artifactsBuild'[b] = r
        /\ \A c \in IndexBuilds \ {b} : artifactsBuild'[c] = artifactsBuild[c]
    BY <1>1, <2>1, <2>3
  <2>6. artifactsBuild[b].at = "new" /\ artifactsRunning' = b
        /\ UNCHANGED <<artifactsSource, artifactsRestored, artifactsDir, artifactsFiles,
             artifactsAlias,
             artifactsRows, artifactsUntidy, artifactsCrashes>>
    BY <1>10 DEF Artifacts!Begin
  <2>7. Artifacts!TypeOK'
    BY <1>1, <2>5, <2>6, ArtifactsTypesNext DEF ArtifactsRest
  <2>8. ArtifactsElsewhere(b)
    BY <1>2, <1>3, <2>5, <2>6 DEF ArtifactsElsewhere
  <2>9. ArtifactsSound(b)'
    BY <1>1, <1>4, <1>5, <2>4, <2>5, <2>6 DEF ArtifactsSound, ArtifactsRest
  <2> QED BY <2>7, <2>8, <2>9
<1>11. CASE Artifacts!Mkdir(b)
  <2>1. Artifacts!Goto(b, "made")
    BY <1>11 DEF Artifacts!Mkdir, Artifacts!End
  <2>2. /\ artifactsBuild' \in [IndexBuilds -> ArtifactsBuilds]
        /\ \A c \in IndexBuilds \ {b} : artifactsBuild'[c] = artifactsBuild[c]
        /\ artifactsBuild'[b].at = "made"
        /\ artifactsBuild'[b].kind = artifactsBuild[b].kind
        /\ artifactsBuild'[b].claim = artifactsBuild[b].claim
        /\ artifactsBuild'[b].shot = artifactsBuild[b].shot
    BY <1>4, <2>1, ArtifactsMoves
  <2>3. Artifacts!TypeOK'
    BY <1>1, <1>4, <1>11, <2>2, ArtifactsTypesNext
       DEF ArtifactsRest, Artifacts!Mkdir, Artifacts!End
  <2>4. ArtifactsElsewhere(b)
    BY <1>1, <1>2, <1>3, <1>4, <1>11, <2>2
       DEF ArtifactsRest, ArtifactsElsewhere, Artifacts!Mkdir, Artifacts!End
  <2>5. ArtifactsSound(b)'
    BY <1>1, <1>2, <1>4, <1>5, <1>11, <2>2
       DEF ArtifactsRest, ArtifactsSound, Artifacts!Mkdir, Artifacts!End,
         Artifacts!Readable
  <2> QED BY <2>3, <2>4, <2>5
<1>13. CASE Artifacts!Recheck(b)
  <2>1. Artifacts!Goto(b, "checked")
    BY <1>13 DEF Artifacts!Recheck, Artifacts!End
  <2>2. /\ artifactsBuild' \in [IndexBuilds -> ArtifactsBuilds]
        /\ \A c \in IndexBuilds \ {b} : artifactsBuild'[c] = artifactsBuild[c]
        /\ artifactsBuild'[b].at = "checked"
        /\ artifactsBuild'[b].kind = artifactsBuild[b].kind
        /\ artifactsBuild'[b].claim = artifactsBuild[b].claim
        /\ artifactsBuild'[b].shot = artifactsBuild[b].shot
    BY <1>4, <2>1, ArtifactsMoves
  <2>3. Artifacts!TypeOK'
    BY <1>1, <1>4, <1>13, <2>2, ArtifactsTypesNext
       DEF ArtifactsRest, Artifacts!Recheck, Artifacts!End
  <2>4. ArtifactsElsewhere(b)
    BY <1>1, <1>2, <1>3, <1>4, <1>13, <2>2
       DEF ArtifactsRest, ArtifactsElsewhere, Artifacts!Recheck, Artifacts!End
  <2>5. ArtifactsSound(b)'
    BY <1>1, <1>2, <1>4, <1>5, <1>13, <2>2
       DEF ArtifactsRest, ArtifactsSound, Artifacts!Recheck, Artifacts!End,
         Artifacts!Readable
  <2> QED BY <2>3, <2>4, <2>5
<1>14. CASE Artifacts!Write(b)
  <2>1. Artifacts!Goto(b, "written")
    BY <1>14 DEF Artifacts!Write, Artifacts!End
  <2>2. /\ artifactsBuild' \in [IndexBuilds -> ArtifactsBuilds]
        /\ \A c \in IndexBuilds \ {b} : artifactsBuild'[c] = artifactsBuild[c]
        /\ artifactsBuild'[b].at = "written"
        /\ artifactsBuild'[b].kind = artifactsBuild[b].kind
        /\ artifactsBuild'[b].claim = artifactsBuild[b].claim
        /\ artifactsBuild'[b].shot = artifactsBuild[b].shot
    BY <1>4, <2>1, ArtifactsMoves
  <2>3. Artifacts!TypeOK'
    BY <1>1, <1>4, <1>14, <2>2, ArtifactsTypesNext
       DEF ArtifactsRest, Artifacts!Write, Artifacts!End
  <2>4. ArtifactsElsewhere(b)
    BY <1>1, <1>2, <1>3, <1>4, <1>14, <2>2
       DEF ArtifactsRest, ArtifactsElsewhere, Artifacts!Write, Artifacts!End
  <2>5. ArtifactsSound(b)'
    BY <1>1, <1>2, <1>4, <1>5, <1>14, <2>2
       DEF ArtifactsRest, ArtifactsSound, Artifacts!Write, Artifacts!End,
         Artifacts!Readable
  <2> QED BY <2>3, <2>4, <2>5
<1>15. CASE Artifacts!Rename(b)
  <2>1. Artifacts!Goto(b, "renamed")
    BY <1>15 DEF Artifacts!Rename, Artifacts!End
  <2>2. /\ artifactsBuild' \in [IndexBuilds -> ArtifactsBuilds]
        /\ \A c \in IndexBuilds \ {b} : artifactsBuild'[c] = artifactsBuild[c]
        /\ artifactsBuild'[b].at = "renamed"
        /\ artifactsBuild'[b].kind = artifactsBuild[b].kind
        /\ artifactsBuild'[b].claim = artifactsBuild[b].claim
        /\ artifactsBuild'[b].shot = artifactsBuild[b].shot
    BY <1>4, <2>1, ArtifactsMoves
  <2>3. Artifacts!TypeOK'
    BY <1>1, <1>4, <1>15, <2>2, ArtifactsTypesNext
       DEF ArtifactsRest, Artifacts!Rename, Artifacts!End
  <2>4. ArtifactsElsewhere(b)
    BY <1>1, <1>2, <1>3, <1>4, <1>15, <2>2
       DEF ArtifactsRest, ArtifactsElsewhere, Artifacts!Rename, Artifacts!End
  <2>5. ArtifactsSound(b)'
    BY <1>1, <1>2, <1>4, <1>5, <1>15, <2>2
       DEF ArtifactsRest, ArtifactsSound, Artifacts!Rename, Artifacts!End,
         Artifacts!Readable
  <2> QED BY <2>3, <2>4, <2>5
<1>16. CASE Artifacts!Attest(b)
  <2>1. Artifacts!Goto(b, "built")
    BY <1>16 DEF Artifacts!Attest, Artifacts!End
  <2>2. /\ artifactsBuild' \in [IndexBuilds -> ArtifactsBuilds]
        /\ \A c \in IndexBuilds \ {b} : artifactsBuild'[c] = artifactsBuild[c]
        /\ artifactsBuild'[b].at = "built"
        /\ artifactsBuild'[b].kind = artifactsBuild[b].kind
        /\ artifactsBuild'[b].claim = artifactsBuild[b].claim
        /\ artifactsBuild'[b].shot = artifactsBuild[b].shot
    BY <1>4, <2>1, ArtifactsMoves
  <2>3. Artifacts!TypeOK'
    BY <1>1, <1>4, <1>16, <2>2, ArtifactsTypesNext
       DEF ArtifactsRest, Artifacts!Attest, Artifacts!End
  <2>4. ArtifactsElsewhere(b)
    BY <1>1, <1>2, <1>3, <1>4, <1>16, <2>2
       DEF ArtifactsRest, ArtifactsElsewhere, Artifacts!Attest, Artifacts!End
  <2>5. ArtifactsSound(b)'
    BY <1>1, <1>2, <1>4, <1>5, <1>16, <2>2
       DEF ArtifactsRest, ArtifactsSound, Artifacts!Attest, Artifacts!End,
         Artifacts!Readable
  <2> QED BY <2>3, <2>4, <2>5
<1>17. CASE Artifacts!Commit(b)
  <2>1. Artifacts!Goto(b, "complete")
    BY <1>17 DEF Artifacts!Commit, Artifacts!End
  <2>2. /\ artifactsBuild' \in [IndexBuilds -> ArtifactsBuilds]
        /\ \A c \in IndexBuilds \ {b} : artifactsBuild'[c] = artifactsBuild[c]
        /\ artifactsBuild'[b].at = "complete"
        /\ artifactsBuild'[b].kind = artifactsBuild[b].kind
        /\ artifactsBuild'[b].claim = artifactsBuild[b].claim
        /\ artifactsBuild'[b].shot = artifactsBuild[b].shot
    BY <1>4, <2>1, ArtifactsMoves
  <2>3. Artifacts!TypeOK'
    BY <1>1, <1>4, <1>17, <2>2, ArtifactsTypesNext
       DEF ArtifactsRest, Artifacts!Commit, Artifacts!End
  <2>4. ArtifactsElsewhere(b)
    BY <1>1, <1>2, <1>3, <1>4, <1>17, <2>2
       DEF ArtifactsRest, ArtifactsElsewhere, Artifacts!Commit, Artifacts!End
  <2>5. ArtifactsSound(b)'
    BY <1>1, <1>2, <1>4, <1>5, <1>17, <2>2
       DEF ArtifactsRest, ArtifactsSound, Artifacts!Commit, Artifacts!End,
         Artifacts!Readable
  <2> QED BY <2>3, <2>4, <2>5
<1>12. CASE Artifacts!Extract(b)
  <2>0. PICK shot \in SUBSET (0..OtherVideos) :
            shot = artifactsBuild[b].shot \cup {artifactsSource}
    <3>1. artifactsBuild[b].shot \cup {artifactsSource} \in SUBSET (0..OtherVideos)
      BY <1>1, <1>5 DEF ArtifactsRest
    <3> QED BY <3>1
  <2> DEFINE r == [artifactsBuild[b] EXCEPT !.shot = shot, !.at = "shot"]
  <2>1. artifactsBuild' = [artifactsBuild EXCEPT ![b] = r]
    BY <1>1, <1>12, <2>0 DEF Artifacts!Extract
  <2>2. r \in ArtifactsBuilds
    BY <1>1, <1>4, ArtifactsEdits DEF ArtifactsRest
  <2>3. r.kind = artifactsBuild[b].kind /\ r.at = "shot"
          /\ r.claim = artifactsBuild[b].claim
          /\ r.shot = artifactsBuild[b].shot \cup {artifactsSource}
    BY <1>1, <2>0 DEF ArtifactsBuilds
  <2> HIDE DEF r
  <2>4. /\ artifactsBuild' \in [IndexBuilds -> ArtifactsBuilds]
        /\ artifactsBuild'[b] = r
        /\ \A c \in IndexBuilds \ {b} : artifactsBuild'[c] = artifactsBuild[c]
    BY <1>1, <2>1, <2>2
  <2>5. artifactsBuild[b].at \in {"made", "shot"} /\ artifactsRunning = b
        /\ UNCHANGED <<artifactsSource, artifactsRestored, artifactsDir, artifactsFiles,
             artifactsAlias,
             artifactsRows, artifactsRunning, artifactsUntidy, artifactsCrashes>>
    BY <1>12 DEF Artifacts!Extract
  <2>6. Artifacts!TypeOK'
    BY <1>1, <2>4, <2>5, ArtifactsTypesNext DEF ArtifactsRest
  <2>7. ArtifactsElsewhere(b)
    BY <2>4, <2>5 DEF ArtifactsElsewhere
  <2>8. ArtifactsSound(b)'
    BY <1>1, <1>4, <1>5, <2>3, <2>4, <2>5 DEF ArtifactsSound, ArtifactsRest
  <2> QED BY <2>6, <2>7, <2>8
<1>18. ASSUME NEW t \in Aliases, Artifacts!Link(b, t) PROVE Goal
  <2>1. /\ artifactsAlias' = [artifactsAlias EXCEPT ![b] = artifactsAlias[b] \cup {t}]
        /\ artifactsRunning = b /\ artifactsBuild[b].at = "renamed"
        /\ UNCHANGED <<artifactsSource, artifactsRestored, artifactsBuild, artifactsDir,
             artifactsFiles,
             artifactsRows, artifactsRunning, artifactsUntidy, artifactsCrashes>>
    BY <1>18 DEF Artifacts!Link
  <2>2. Artifacts!TypeOK'
    BY <1>1, <2>1, ArtifactsTypesNext DEF ArtifactsRest
  <2>3. ArtifactsElsewhere(b)
    BY <1>1, <2>1 DEF ArtifactsElsewhere, ArtifactsRest
  <2>4. ArtifactsSound(b)'
    BY <1>1, <1>4, <2>1 DEF ArtifactsSound, ArtifactsRest
  <2> QED BY <2>2, <2>3, <2>4
<1>19. ASSUME NEW removed \in BOOLEAN, NEW at \in {"failed", "cancelled"},
                artifactsRunning = b,
             artifactsBuild[b].at \in Artifacts!Working, Artifacts!Cleanup(b, removed),
               Artifacts!End(b, at),
             UNCHANGED <<artifactsSource, artifactsRestored, artifactsFiles, artifactsRows,
               artifactsCrashes>>
      PROVE  Goal
  <2>1. /\ artifactsBuild' \in [IndexBuilds -> ArtifactsBuilds]
        /\ \A c \in IndexBuilds \ {b} : artifactsBuild'[c] = artifactsBuild[c]
        /\ artifactsBuild'[b].at = at
        /\ artifactsBuild'[b].kind = artifactsBuild[b].kind
    BY <1>4, <1>19, ArtifactsMoves DEF Artifacts!End
  <2>2. artifactsRunning' = "none"
          /\ UNCHANGED <<artifactsSource, artifactsRestored, artifactsFiles, artifactsRows,
               artifactsCrashes>>
    BY <1>4, <1>19 DEF Artifacts!End
  <2>3. /\ artifactsDir'[b] = IF removed
             /\ (artifactsBuild[b].kind = "scenes" \/ artifactsDir[b] = "staging")
                     THEN "none" ELSE artifactsDir[b]
        /\ artifactsDir' \in [IndexBuilds -> {"none", "staging", "final"}]
        /\ \A c \in IndexBuilds \ {b} : artifactsDir'[c] = artifactsDir[c]
    BY <1>1, <1>19 DEF Artifacts!Cleanup, ArtifactsRest
  <2>4. /\ artifactsAlias'[b] = IF artifactsBuild[b].at = "built"
             THEN artifactsAlias[b] ELSE {}
        /\ artifactsAlias' \in [IndexBuilds -> SUBSET Aliases]
        /\ \A c \in IndexBuilds \ {b} : artifactsAlias'[c] = artifactsAlias[c]
    BY <1>1, <1>19 DEF Artifacts!Cleanup, ArtifactsRest
  <2>5. artifactsUntidy' = IF removed \/ artifactsDir[b] = "none" THEN artifactsUntidy
          ELSE artifactsUntidy \cup {b}
    BY <1>19 DEF Artifacts!Cleanup
  <2>6. Artifacts!TypeOK'
    BY <1>1, <2>1, <2>2, <2>3, <2>4, <2>5, ArtifactsTypesNext DEF ArtifactsRest
  <2>7. ArtifactsElsewhere(b)
    BY <1>2, <1>19, <2>1, <2>2, <2>3, <2>4, <2>5 DEF ArtifactsElsewhere
  <2>8. ArtifactsSound(b)'
    <3>1. b \notin artifactsUntidy' => removed \/ artifactsDir[b] = "none"
      BY <2>5
    <3>2. artifactsBuild[b].kind = "scenes" /\ b \notin artifactsUntidy'
            => artifactsDir'[b] = "none"
      BY <2>3, <3>1
    <3>3. artifactsDir[b] = "none" \/ removed => artifactsDir'[b] # "staging"
      BY <1>1, <2>3 DEF ArtifactsRest
    <3>4. artifactsBuild[b].kind = "dense" => artifactsAlias'[b] \in {{}, Aliases}
      BY <1>1, <2>4 DEF ArtifactsSound
    <3>5. b \notin artifactsRows /\ (artifactsDir'[b] = "final" => b \in artifactsFiles)
      BY <1>1, <1>4, <1>19, <2>3 DEF ArtifactsSound
    <3> QED BY <1>2, <1>4, <1>5, <2>1, <2>2, <3>1, <3>2, <3>3, <3>4, <3>5
          DEF ArtifactsSound
  <2> QED BY <2>6, <2>7, <2>8
<1>20. ASSUME NEW removed \in BOOLEAN, Artifacts!Fail(b, removed)
                \/ Artifacts!Cancel(b, removed)
      PROVE  Goal
  <2>1. artifactsBuild[b].at \in Artifacts!Working
    BY <1>4, <1>20 DEF Artifacts!Fail, Artifacts!Cancel, Artifacts!Checkpoint
  <2> QED BY <1>19, <1>20, <2>1 DEF Artifacts!Fail, Artifacts!Cancel
<1> QED BY <1>10, <1>11, <1>12, <1>13, <1>14, <1>15, <1>16, <1>17, <1>18, <1>20

\* The process dies, the video is replaced, or nothing happens.
LEMMA ArtifactsWorld ==
    ASSUME Artifacts!ArtifactsAssumption, ArtifactsInv,
           Artifacts!Crash \/ (\E c \in Artifacts!SourceBytes : Artifacts!Replace(c))
             \/ UNCHANGED Artifacts!vars
    PROVE  ArtifactsInv'
<1>1. ArtifactsRest /\ artifactsBuild \in [IndexBuilds -> ArtifactsBuilds]
        /\ \A b \in IndexBuilds : ArtifactsSound(b)
  BY ArtifactsTypes DEF ArtifactsInv
<1>2. CASE Artifacts!Crash
  <2>1. PICK b \in IndexBuilds : artifactsRunning = b
    BY <1>1, <1>2 DEF Artifacts!Crash, ArtifactsRest, Artifacts!None
  <2>2. Artifacts!Goto(b, "killed") /\ "killed" \in Artifacts!Ended
    BY <1>2, <2>1 DEF Artifacts!Crash, Artifacts!End, Artifacts!Ended
  <2>3. /\ artifactsBuild' \in [IndexBuilds -> ArtifactsBuilds]
        /\ \A c \in IndexBuilds \ {b} : artifactsBuild'[c] = artifactsBuild[c]
        /\ artifactsBuild'[b].at = "killed"
        /\ artifactsBuild'[b].kind = artifactsBuild[b].kind
    BY <2>2, ArtifactsMoves
  <2>4. /\ artifactsRunning' = "none" /\ artifactsCrashes' = artifactsCrashes + 1
        /\ artifactsCrashes < IndexerCrashes
        /\ UNCHANGED <<artifactsSource, artifactsRestored, artifactsDir, artifactsFiles,
             artifactsAlias,
             artifactsRows, artifactsUntidy>> /\ "none" \notin IndexBuilds
    BY <1>2 DEF Artifacts!Crash, Artifacts!End, Artifacts!None,
       Artifacts!ArtifactsAssumption
  <2>5. Artifacts!TypeOK'
    <3>1. artifactsCrashes' \in 0..IndexerCrashes
      BY <1>1, <2>4 DEF ArtifactsRest, Artifacts!ArtifactsAssumption
    <3> QED BY <1>1, <2>3, <2>4, <3>1, ArtifactsTypesNext DEF ArtifactsRest
  <2>6. ArtifactsElsewhere(b)
    BY <2>1, <2>3, <2>4 DEF ArtifactsElsewhere
  <2>7. ArtifactsSound(b)'
    BY <1>1, <2>1, <2>3, <2>4 DEF ArtifactsSound, Artifacts!Working
  <2> QED BY <2>5, <2>6, <2>7, ArtifactsAside DEF ArtifactsInv
<1>3. ASSUME NEW c \in Artifacts!SourceBytes, Artifacts!Replace(c) PROVE ArtifactsInv'
  <2>1. /\ artifactsSource' = c /\ c # artifactsSource /\ c \in 0..OtherVideos
        /\ artifactsRestored' = artifactsRestored
             \cup {b \in IndexBuilds : Artifacts!Reading(b) /\ artifactsBuild[b].claim = c}
        /\ UNCHANGED <<artifactsBuild, artifactsDir, artifactsFiles, artifactsAlias,
             artifactsRows, artifactsRunning, artifactsUntidy, artifactsCrashes>>
    BY <1>3 DEF Artifacts!Replace, Artifacts!SourceBytes
  <2>2. Artifacts!TypeOK'
    BY <1>1, <2>1, ArtifactsTypesNext DEF ArtifactsRest
  <2>3. ASSUME NEW b \in IndexBuilds PROVE ArtifactsSound(b)'
    <3>1. artifactsBuild[b].kind = "dense"
             /\ artifactsBuild[b].at \in {"hashed", "made", "shot"}
             /\ b \notin artifactsRestored'
               => artifactsBuild[b].claim # c
      BY <1>1, <2>1 DEF ArtifactsSound, Artifacts!Reading, Artifacts!Working
    <3>2. artifactsRestored \subseteq artifactsRestored'
      BY <2>1
    <3> QED BY <1>1, <2>1, <3>1, <3>2 DEF ArtifactsSound
  <2> QED BY <2>2, <2>3 DEF ArtifactsInv
<1>4. CASE UNCHANGED Artifacts!vars
  <2>1. UNCHANGED <<artifactsSource, artifactsRestored, artifactsBuild, artifactsDir,
             artifactsFiles,
          artifactsAlias, artifactsRows, artifactsRunning, artifactsUntidy,
            artifactsCrashes>>
    BY <1>4 DEF Artifacts!vars
  <2>2. Artifacts!TypeOK'
    BY <1>1, <2>1, ArtifactsTypesNext DEF ArtifactsRest
  <2>3. ASSUME NEW b \in IndexBuilds PROVE ArtifactsSound(b)'
    BY <1>1, <2>1 DEF ArtifactsSound
  <2> QED BY <2>2, <2>3 DEF ArtifactsInv
<1> QED BY <1>2, <1>3, <1>4

\* Every step keeps the invariant, it holds at the start, and so always.
LEMMA ArtifactsKeeps ==
    ASSUME Artifacts!ArtifactsAssumption, ArtifactsInv,
             [Artifacts!Next]_(Artifacts!vars)
    PROVE  ArtifactsInv'
<1>1. ASSUME NEW b \in IndexBuilds, Artifacts!TypeOK', ArtifactsElsewhere(b),
               ArtifactsSound(b)' PROVE ArtifactsInv'
  BY <1>1, ArtifactsAside DEF ArtifactsInv
<1> QED BY <1>1, ArtifactsHandlers, ArtifactsWorld DEF Artifacts!Next

LEMMA ArtifactsStart ==
    ASSUME Artifacts!ArtifactsAssumption, Artifacts!Init
    PROVE  ArtifactsInv
<1>1. OtherVideos \in Nat /\ IndexerCrashes \in Nat /\ "none" \notin IndexBuilds
  BY DEF Artifacts!ArtifactsAssumption, Artifacts!None
<1>2. \A b \in IndexBuilds : artifactsBuild[b] = [kind |-> "scenes", at |-> "new",
        claim |-> 0,
        shot |-> {}]
  BY DEF Artifacts!Init, Artifacts!Asset
<1>3. ArtifactsRest /\ artifactsBuild \in [IndexBuilds -> ArtifactsBuilds]
  BY <1>1 DEF Artifacts!Init, ArtifactsRest, ArtifactsBuilds, Artifacts!None,
     Artifacts!Asset
<1>4. ASSUME NEW b \in IndexBuilds PROVE ArtifactsSound(b)
  BY <1>1, <1>2 DEF Artifacts!Init, ArtifactsSound, Artifacts!Working, Artifacts!None
<1> QED BY <1>3, <1>4, ArtifactsTypes DEF ArtifactsInv

LEMMA ArtifactsInvariant ==
    ASSUME Artifacts!ArtifactsAssumption
    PROVE  Artifacts!Spec => []ArtifactsInv
<1>1. ArtifactsInv /\ [Artifacts!Next]_(Artifacts!vars) => ArtifactsInv'
  BY ArtifactsKeeps
<1> QED BY <1>1, ArtifactsStart, PTL DEF Artifacts!Spec

LEMMA ArtifactsWhole == ArtifactsInv => Artifacts!RowsNameWholeArtifacts
<1> SUFFICES ASSUME ArtifactsInv, NEW b \in artifactsRows
             PROVE  /\ Artifacts!Readable(b)
                    /\ artifactsBuild[b].kind = "dense"
                         => artifactsBuild[b].shot = {Artifacts!Asset}
                              \/ b \in artifactsRestored
  BY DEF Artifacts!RowsNameWholeArtifacts
<1>1. b \in IndexBuilds /\ ArtifactsSound(b)
  BY DEF ArtifactsInv, Artifacts!TypeOK
<1> QED BY <1>1 DEF ArtifactsSound, Artifacts!Readable, Artifacts!Asset

\* Whatever builds there are and however often the video is exchanged, a row names
\* files a reader can load, and the frames of a dense generation are of the bytes
\* the asset has the digest of, unless the video lost them and had them back
\* between the two digests of the build, which neither can see
\* (build_video_source, commit_external_index_generation).
THEOREM MediaRowsAreWhole ==
    ASSUME Artifacts!ArtifactsAssumption
    PROVE  Artifacts!Spec => []Artifacts!RowsNameWholeArtifacts
BY ArtifactsWhole, ArtifactsInvariant, PTL

\* No later build, failure or cancellation touches the files of a committed one.
THEOREM MediaFilesStay ==
    ASSUME Artifacts!ArtifactsAssumption
    PROVE  Artifacts!Spec => Artifacts!CommittedFilesStay
<1>1. ASSUME ArtifactsInv, [Artifacts!Next]_(Artifacts!vars), NEW b \in artifactsRows
      PROVE  b \in artifactsRows' /\ artifactsDir'[b] = artifactsDir[b]
               /\ artifactsAlias'[b] = artifactsAlias[b]
  <2>1. b \in IndexBuilds /\ artifactsBuild[b].at = "complete" /\ artifactsRunning # b
    BY <1>1 DEF ArtifactsInv, Artifacts!TypeOK, ArtifactsSound, Artifacts!Working
  <2>2. ASSUME NEW c \in IndexBuilds,
               \/ \E kind \in Artifacts!Kinds : Artifacts!Begin(c, kind)
               \/ Artifacts!Mkdir(c) \/ Artifacts!Extract(c) \/ Artifacts!Recheck(c)
               \/ Artifacts!Write(c)
               \/ Artifacts!Rename(c) \/ \E t \in Aliases : Artifacts!Link(c, t)
               \/ Artifacts!Attest(c) \/ Artifacts!Commit(c)
               \/ \E removed \in BOOLEAN : Artifacts!Fail(c, removed)
                    \/ Artifacts!Cancel(c, removed)
        PROVE  b \in artifactsRows' /\ artifactsDir'[b] = artifactsDir[b]
                 /\ artifactsAlias'[b] = artifactsAlias[b]
    <3>1. artifactsBuild[c].at = "new" \/ artifactsRunning = c
      BY <2>2 DEF Artifacts!Begin, Artifacts!Mkdir, Artifacts!Extract,
         Artifacts!Recheck,
         Artifacts!Write,
         Artifacts!Rename, Artifacts!Link, Artifacts!Attest, Artifacts!Commit,
           Artifacts!Fail,
           Artifacts!Cancel
    <3>2. ArtifactsElsewhere(c)
      BY <1>1, <2>2, ArtifactsHandlers
    <3> QED BY <2>1, <3>1, <3>2 DEF ArtifactsElsewhere
  <2>3. CASE Artifacts!Crash \/ (\E c \in Artifacts!SourceBytes : Artifacts!Replace(c))
             \/ UNCHANGED Artifacts!vars
    BY <1>1, <2>3 DEF Artifacts!Crash, Artifacts!Replace, Artifacts!vars
  <2> QED BY <1>1, <2>2, <2>3 DEF Artifacts!Next
<1>2. ArtifactsInv /\ [Artifacts!Next]_(Artifacts!vars)
        => [\A b \in artifactsRows : b \in artifactsRows'
             /\ artifactsDir'[b] = artifactsDir[b]
             /\ artifactsAlias'[b] = artifactsAlias[b]]_(Artifacts!vars)
  BY <1>1
<1>3. Artifacts!Spec => [][Artifacts!Next]_(Artifacts!vars)
  BY PTL DEF Artifacts!Spec
<1> QED BY <1>2, <1>3, ArtifactsInvariant, PTL DEF Artifacts!CommittedFilesStay

\* A directory under its final name has all its files, and a build that failed or
\* was cancelled leaves nothing except where the removal was refused.
THEOREM MediaIsTidy ==
    ASSUME Artifacts!ArtifactsAssumption
    PROVE  Artifacts!Spec
             => [](Artifacts!FinalNamesAreWhole /\ Artifacts!EndedBuildsAreTidy)
<1>1. ArtifactsInv => Artifacts!FinalNamesAreWhole /\ Artifacts!EndedBuildsAreTidy
  BY DEF ArtifactsInv, ArtifactsSound, Artifacts!FinalNamesAreWhole,
     Artifacts!EndedBuildsAreTidy
<1> QED BY <1>1, ArtifactsInvariant, PTL

(***************************************************************************)
(* The Lighthouse worker.                                                  *)
(***************************************************************************)

USE DEF Lighthouse!None

LighthouseFields == {"op", "want", "seen", "read", "bound", "used", "at", "ok"}

\* What the proof needs to know of the values: not that they are bounded.
LighthouseShapes ==
    /\ DOMAIN lighthouseCall = Calls /\ DOMAIN lighthouseGen = Calls
    /\ DOMAIN lighthouseClient = Calls /\ DOMAIN lighthouseReceipt = Calls
    /\ lighthouseSource.mark \in Nat /\ lighthouseSource.content \in Contents
    /\ \A c \in Calls :
          /\ DOMAIN lighthouseCall[c] = LighthouseFields
          /\ DOMAIN lighthouseGen[c] = {"place", "claims", "windows", "version",
               "sound"}
          /\ lighthouseCall[c].op \in {"build", "prepare", "search"}
          /\ lighthouseCall[c].seen.mark \in Nat
          /\ lighthouseCall[c].read \in Seq(Contents)

\* A generation that is finished: its windows are of the content it claims.
LighthouseWhole(g) == g.place = "final" /\ g.windows = {g.claims}

\* While the video is what the call saw first, what it has read so far is of that.
LighthouseReads(r) ==
    /\ r.seen.mark <= lighthouseSource.mark
    /\ r.seen.content = r.want.content
    /\ r.seen.mark = lighthouseSource.mark => r.seen.content = lighthouseSource.content
LighthouseEncodes(r) ==
    r.seen.mark = lighthouseSource.mark =>
        \A i \in 1..Len(r.read) : r.read[i] = r.seen.content
LighthouseStages(r, g) ==
    /\ g.claims = r.want.content
    /\ r.seen.mark = lighthouseSource.mark => g.windows = {r.seen.content}

\* What is known of a call r and its generation g by where the call is.
LighthouseSound(r, g) ==
    /\ r.at # "encoding" => r.read = <<>>
    /\ r.at \in {"bound", "loaded", "ranked"} => r.op = "search"
    /\ r.at = "attested" => r.op # "build"
    /\ r.at \in {"encoding", "staged", "published"} => LighthouseReads(r)
    /\ r.at = "encoding" => LighthouseEncodes(r)
    /\ r.at \in {"staged", "published"} => LighthouseStages(r, g)
    /\ r.at = "published" => g.place = "final"
    /\ r.at = "rechecked" => LighthouseWhole(g)
    /\ r.at = "answered" /\ r.ok /\ r.op = "build" => LighthouseWhole(g)

\* A client that has not begun has sent nothing; a receipt is of a call that is over.
LighthouseKept(b, c) ==
    /\ lighthouseClient[c] = "new" => lighthouseCall[c].at = "new"
    /\ lighthouseReceipt[c] # Lighthouse(b)!NoReceipt =>
          /\ lighthouseClient[c] = "done" /\ lighthouseCall[c].at = "answered"
          /\ LighthouseWhole(lighthouseGen[c])
          /\ lighthouseReceipt[c].claims = lighthouseGen[c].claims

LighthouseInv(b) ==
    /\ LighthouseShapes
    /\ \A c \in Calls :
          LighthouseSound(lighthouseCall[c], lighthouseGen[c]) /\ LighthouseKept(b, c)

\* What Step leaves of the calls.
LEMMA LighthouseWrites ==
    ASSUME NEW b \in LighthouseBounds, LighthouseShapes, NEW c \in Calls, NEW fields,
           Lighthouse(b)!Step(c, fields)
    PROVE  /\ DOMAIN lighthouseCall' = Calls
           /\ \A d \in Calls : d # c => lighthouseCall'[d] = lighthouseCall[d]
           /\ DOMAIN lighthouseCall'[c] = LighthouseFields
           /\ \A f \in LighthouseFields :
                 lighthouseCall'[c][f] = IF f \in DOMAIN fields THEN fields[f]
                                         ELSE lighthouseCall[c][f]
BY DEF Lighthouse!Step, LighthouseShapes

\* The fields a step writes, and those it does not; the other calls stay.
LighthouseEdits(c, edited) ==
    /\ DOMAIN lighthouseCall' = Calls
    /\ \A d \in Calls : d # c => lighthouseCall'[d] = lighthouseCall[d]
    /\ DOMAIN lighthouseCall'[c] = LighthouseFields
    /\ \A f \in LighthouseFields \ edited : lighthouseCall'[c][f] = lighthouseCall[c][f]

LEMMA LighthouseGoes ==
    ASSUME NEW b \in LighthouseBounds, LighthouseShapes, NEW c \in Calls
    PROVE  LET n == lighthouseCall'[c] IN
           /\ \A at : Lighthouse(b)!Step(c, [at |-> at]) =>
                 LighthouseEdits(c, {"at"}) /\ n.at = at
           /\ \A seen, at : Lighthouse(b)!Step(c, [seen |-> seen, at |-> at]) =>
                 LighthouseEdits(c, {"seen", "at"}) /\ n.seen = seen /\ n.at = at
           /\ \A at, seen : Lighthouse(b)!Step(c, [at |-> at, seen |-> seen]) =>
                 LighthouseEdits(c, {"at", "seen"}) /\ n.at = at /\ n.seen = seen
           /\ \A read : Lighthouse(b)!Step(c, [read |-> read]) =>
                 LighthouseEdits(c, {"read"}) /\ n.read = read
           /\ \A at, read : Lighthouse(b)!Step(c, [at |-> at, read |-> read]) =>
                 LighthouseEdits(c, {"at", "read"}) /\ n.at = at /\ n.read = read
           /\ \A at, used : Lighthouse(b)!Step(c, [at |-> at, used |-> used]) =>
                 LighthouseEdits(c, {"at", "used"}) /\ n.at = at
           /\ \A at, ok, seen, read :
                 Lighthouse(b)!Step(c,
                   [at |-> at, ok |-> ok, seen |-> seen, read |-> read]) =>
                 /\ LighthouseEdits(c, {"at", "ok", "seen", "read"})
                 /\ n.at = at /\ n.ok = ok /\ n.seen = seen /\ n.read = read
           /\ \A op, want, bound, at :
                 Lighthouse(b)!Step(c,
                   [op |-> op, want |-> want, bound |-> bound, at |-> at]) =>
                 /\ LighthouseEdits(c, {"op", "want", "bound", "at"})
                 /\ n.op = op /\ n.want = want /\ n.at = at
<1>1. ASSUME NEW fields, Lighthouse(b)!Step(c, fields),
               DOMAIN fields \subseteq LighthouseFields
      PROVE  /\ LighthouseEdits(c, DOMAIN fields)
             /\ \A f \in DOMAIN fields : lighthouseCall'[c][f] = fields[f]
  BY <1>1, LighthouseWrites DEF LighthouseEdits
<1>2. ASSUME NEW at, Lighthouse(b)!Step(c, [at |-> at])
      PROVE  LighthouseEdits(c, {"at"}) /\ lighthouseCall'[c].at = at
  <2> DEFINE e == [at |-> at]
  <2>1. DOMAIN e = {"at"} /\ e["at"] = at
    OBVIOUS
  <2>2. Lighthouse(b)!Step(c, e)
    BY <1>2
  <2> HIDE DEF e
  <2> QED BY <1>1, <2>1, <2>2 DEF LighthouseFields
<1>3. ASSUME NEW seen, NEW at, Lighthouse(b)!Step(c, [seen |-> seen, at |-> at])
      PROVE  LighthouseEdits(c, {"seen", "at"}) /\ lighthouseCall'[c].seen = seen
               /\ lighthouseCall'[c].at = at
  <2> DEFINE e == [seen |-> seen, at |-> at]
  <2>1. DOMAIN e = {"seen", "at"} /\ e["seen"] = seen /\ e["at"] = at
    OBVIOUS
  <2>2. Lighthouse(b)!Step(c, e)
    BY <1>3
  <2> HIDE DEF e
  <2> QED BY <1>1, <2>1, <2>2 DEF LighthouseFields
<1>4. ASSUME NEW seen, NEW at, Lighthouse(b)!Step(c, [at |-> at, seen |-> seen])
      PROVE  LighthouseEdits(c, {"at", "seen"}) /\ lighthouseCall'[c].at = at
               /\ lighthouseCall'[c].seen = seen
  <2> DEFINE e == [at |-> at, seen |-> seen]
  <2>1. DOMAIN e = {"at", "seen"} /\ e["seen"] = seen /\ e["at"] = at
    OBVIOUS
  <2>2. Lighthouse(b)!Step(c, e)
    BY <1>4
  <2> HIDE DEF e
  <2> QED BY <1>1, <2>1, <2>2 DEF LighthouseFields
<1>5. ASSUME NEW read, Lighthouse(b)!Step(c, [read |-> read])
      PROVE  LighthouseEdits(c, {"read"}) /\ lighthouseCall'[c].read = read
  <2> DEFINE e == [read |-> read]
  <2>1. DOMAIN e = {"read"} /\ e["read"] = read
    OBVIOUS
  <2>2. Lighthouse(b)!Step(c, e)
    BY <1>5
  <2> HIDE DEF e
  <2> QED BY <1>1, <2>1, <2>2 DEF LighthouseFields
<1>6. ASSUME NEW read, NEW at, Lighthouse(b)!Step(c, [at |-> at, read |-> read])
      PROVE  LighthouseEdits(c, {"at", "read"}) /\ lighthouseCall'[c].at = at
               /\ lighthouseCall'[c].read = read
  <2> DEFINE e == [at |-> at, read |-> read]
  <2>1. DOMAIN e = {"at", "read"} /\ e["read"] = read /\ e["at"] = at
    OBVIOUS
  <2>2. Lighthouse(b)!Step(c, e)
    BY <1>6
  <2> HIDE DEF e
  <2> QED BY <1>1, <2>1, <2>2 DEF LighthouseFields
<1>7. ASSUME NEW used, NEW at, Lighthouse(b)!Step(c, [at |-> at, used |-> used])
      PROVE  LighthouseEdits(c, {"at", "used"}) /\ lighthouseCall'[c].at = at
  <2> DEFINE e == [at |-> at, used |-> used]
  <2>1. DOMAIN e = {"at", "used"} /\ e["at"] = at
    OBVIOUS
  <2>2. Lighthouse(b)!Step(c, e)
    BY <1>7
  <2> HIDE DEF e
  <2> QED BY <1>1, <2>1, <2>2 DEF LighthouseFields
<1>8. ASSUME NEW at, NEW ok, NEW seen, NEW read,
             Lighthouse(b)!Step(c, [at |-> at, ok |-> ok, seen |-> seen, read |-> read])
      PROVE  LighthouseEdits(c, {"at", "ok", "seen", "read"})
               /\ lighthouseCall'[c].at = at
               /\ lighthouseCall'[c].ok = ok /\ lighthouseCall'[c].seen = seen
               /\ lighthouseCall'[c].read = read
  <2> DEFINE e == [at |-> at, ok |-> ok, seen |-> seen, read |-> read]
  <2>1. DOMAIN e = {"at", "ok", "seen", "read"} /\ e["at"] = at /\ e["ok"] = ok
          /\ e["seen"] = seen /\ e["read"] = read
    OBVIOUS
  <2>2. Lighthouse(b)!Step(c, e)
    BY <1>8
  <2> HIDE DEF e
  <2> QED BY <1>1, <2>1, <2>2 DEF LighthouseFields
<1>9. ASSUME NEW op, NEW want, NEW bound, NEW at,
             Lighthouse(b)!Step(c,
               [op |-> op, want |-> want, bound |-> bound, at |-> at])
      PROVE  LighthouseEdits(c, {"op", "want", "bound", "at"})
               /\ lighthouseCall'[c].op = op
               /\ lighthouseCall'[c].want = want /\ lighthouseCall'[c].at = at
  <2> DEFINE e == [op |-> op, want |-> want, bound |-> bound, at |-> at]
  <2>1. DOMAIN e = {"op", "want", "bound", "at"} /\ e["op"] = op /\ e["want"] = want
          /\ e["at"] = at
    OBVIOUS
  <2>2. Lighthouse(b)!Step(c, e)
    BY <1>9
  <2> HIDE DEF e
  <2> QED BY <1>1, <2>1, <2>2 DEF LighthouseFields
<1> QED BY <1>2, <1>3, <1>4, <1>5, <1>6, <1>7, <1>8, <1>9

\* A handler of one call leaves the others as they are.
LighthouseElsewhere(c) ==
    \A d \in Calls : d # c =>
        /\ lighthouseCall'[d] = lighthouseCall[d]
        /\ lighthouseGen'[d] = lighthouseGen[d]
        /\ lighthouseClient'[d] = lighthouseClient[d]
        /\ lighthouseReceipt'[d] = lighthouseReceipt[d]

LEMMA LighthouseAside ==
    ASSUME NEW b \in LighthouseBounds, LighthouseInv(b), NEW c \in Calls,
           LighthouseShapes', LighthouseElsewhere(c),
             lighthouseSource' = lighthouseSource,
           LighthouseSound(lighthouseCall[c], lighthouseGen[c])', LighthouseKept(b, c)'
    PROVE  LighthouseInv(b)'
<1>1. ASSUME NEW d \in Calls, d # c
      PROVE  LighthouseSound(lighthouseCall[d], lighthouseGen[d])'
               /\ LighthouseKept(b, d)'
  <2>1. /\ lighthouseCall'[d] = lighthouseCall[d]
        /\ lighthouseGen'[d] = lighthouseGen[d]
        /\ lighthouseClient'[d] = lighthouseClient[d]
        /\ lighthouseReceipt'[d] = lighthouseReceipt[d]
    BY <1>1 DEF LighthouseElsewhere
  <2>2. LighthouseSound(lighthouseCall[d], lighthouseGen[d]) /\ LighthouseKept(b, d)
    BY DEF LighthouseInv
  <2> QED BY <2>1, <2>2 DEF LighthouseSound, LighthouseKept, LighthouseReads,
             LighthouseEncodes, LighthouseStages, LighthouseWhole, Lighthouse!NoReceipt
<1> QED BY <1>1 DEF LighthouseInv

\* A step of the worker that changes one call, and its generation at most.
LEMMA LighthouseTurns ==
    ASSUME NEW b \in LighthouseBounds, LighthouseInv(b), NEW c \in Calls,
           NEW edited, LighthouseEdits(c, edited),
           lighthouseCall[c].at \notin {"new", "answered"},
           UNCHANGED <<lighthouseSource, lighthouseClient, lighthouseReceipt>>,
           DOMAIN lighthouseGen' = Calls,
           \A d \in Calls : d # c => lighthouseGen'[d] = lighthouseGen[d],
           DOMAIN lighthouseGen'[c] = {"place", "claims", "windows", "version",
             "sound"},
           lighthouseCall'[c].op = lighthouseCall[c].op,
           lighthouseCall'[c].seen.mark \in Nat,
             lighthouseCall'[c].read \in Seq(Contents),
           LighthouseSound(lighthouseCall'[c], lighthouseGen'[c])
    PROVE  LighthouseInv(b)'
<1>1. LighthouseShapes /\ LighthouseKept(b, c)
  BY DEF LighthouseInv
<1>2. LighthouseShapes'
  BY <1>1 DEF LighthouseShapes, LighthouseEdits
<1>3. LighthouseElsewhere(c)
  BY DEF LighthouseElsewhere, LighthouseEdits
<1>4. LighthouseSound(lighthouseCall[c], lighthouseGen[c])'
  BY DEF LighthouseSound, LighthouseReads, LighthouseEncodes, LighthouseStages
<1>5. LighthouseKept(b, c)'
  BY <1>1 DEF LighthouseKept, Lighthouse!NoReceipt
<1> QED BY <1>2, <1>3, <1>4, <1>5, LighthouseAside

\* An answer that promises a generation only where there is a whole one.
LEMMA LighthouseAnswers ==
    ASSUME NEW b \in LighthouseBounds, LighthouseInv(b), NEW c \in Calls,
           NEW good, Lighthouse(b)!Answer(c, good),
           lighthouseCall[c].at \notin {"new", "answered"},
           UNCHANGED <<lighthouseSource, lighthouseClient, lighthouseReceipt>>,
           DOMAIN lighthouseGen' = Calls,
           \A d \in Calls : d # c => lighthouseGen'[d] = lighthouseGen[d],
           DOMAIN lighthouseGen'[c] = {"place", "claims", "windows", "version",
             "sound"},
           good /\ lighthouseCall[c].op = "build" => LighthouseWhole(lighthouseGen'[c])
    PROVE  LighthouseInv(b)'
<1>1. LighthouseShapes
  BY DEF LighthouseInv
<1>2. Lighthouse(b)!Step(c, [at |-> "answered", ok |-> good,
                             seen |-> Lighthouse(b)!NoVideo, read |-> <<>>])
  BY DEF Lighthouse!Answer
<1>3. /\ LighthouseEdits(c, {"at", "ok", "seen", "read"})
      /\ lighthouseCall'[c].at = "answered" /\ lighthouseCall'[c].ok = good
      /\ lighthouseCall'[c].seen = Lighthouse(b)!NoVideo
      /\ lighthouseCall'[c].read = <<>>
  BY <1>1, <1>2, LighthouseGoes
<1>4. lighthouseCall'[c].op = lighthouseCall[c].op
  BY <1>3 DEF LighthouseEdits, LighthouseFields
<1>5. lighthouseCall'[c].seen.mark \in Nat /\ lighthouseCall'[c].read \in Seq(Contents)
  BY <1>3 DEF Lighthouse!NoVideo
<1>6. LighthouseSound(lighthouseCall'[c], lighthouseGen'[c])
  BY <1>3, <1>4 DEF LighthouseSound
<1> QED BY <1>3, <1>4, <1>5, <1>6, LighthouseTurns

\* One call of the worker handles its request, or fails.
LEMMA LighthouseHandles ==
    ASSUME NEW b \in LighthouseBounds, Lighthouse(b)!LighthouseAssumption,
             LighthouseInv(b),
           NEW c \in Calls, Lighthouse(b)!Handle(c) \/ Lighthouse(b)!Fail(c)
    PROVE  LighthouseInv(b)'
<1> DEFINE r == lighthouseCall[c]
           g == lighthouseGen[c]
           n == lighthouseCall'[c]
           h == lighthouseGen'[c]
<1>1. LighthouseShapes /\ LighthouseSound(r, g)
  BY DEF LighthouseInv
<1>2. b.windows \in Nat \ {0}
  BY DEF Lighthouse!LighthouseAssumption
<1>3. /\ DOMAIN lighthouseGen = Calls
      /\ DOMAIN g = {"place", "claims", "windows", "version", "sound"}
      /\ lighthouseSource.mark \in Nat /\ lighthouseSource.content \in Contents
      /\ r.op \in {"build", "prepare", "search"} /\ r.seen.mark \in Nat
      /\ r.read \in Seq(Contents) /\ DOMAIN r = LighthouseFields
  BY <1>1 DEF LighthouseShapes
\* The steps that leave the generations alone, and those that answer.
<1>4. ASSUME NEW edited, LighthouseEdits(c, edited), r.at \notin {"new", "answered"},
             UNCHANGED <<lighthouseSource, lighthouseClient, lighthouseGen,
                         lighthouseReceipt>>,
             n.op = r.op, n.seen.mark \in Nat, n.read \in Seq(Contents),
             LighthouseSound(n, g)
      PROVE  LighthouseInv(b)'
  BY <1>3, <1>4, LighthouseTurns
<1>5. ASSUME NEW good, Lighthouse(b)!Answer(c, good), r.at \notin {"new", "answered"},
             UNCHANGED <<lighthouseSource, lighthouseClient, lighthouseGen,
                         lighthouseReceipt>>,
             good /\ r.op = "build" => LighthouseWhole(g)
      PROVE  LighthouseInv(b)'
  BY <1>3, <1>5, LighthouseAnswers
<1>7. r.at # "encoding" => r.read = <<>>
  BY <1>1 DEF LighthouseSound
<1>10. CASE Lighthouse(b)!Admit(c)
  <2>1. r.at = "sent" /\ UNCHANGED <<lighthouseSource, lighthouseClient, lighthouseGen,
                                     lighthouseReceipt>>
    BY <1>10 DEF Lighthouse!Admit
  <2>2. CASE Lighthouse(b)!Answer(c, FALSE)
    BY <1>5, <2>1, <2>2
  <2>3. ASSUME ~(r.op \in {"build", "prepare"}
                 /\ lighthouseSource.content # r.want.content),
               NEW at, at = IF r.op = "search" THEN "bound" ELSE "encoding",
               Lighthouse(b)!Step(c, [seen |-> lighthouseSource, at |-> at])
        PROVE  LighthouseInv(b)'
    <3>1. LighthouseEdits(c, {"seen", "at"}) /\ n.seen = lighthouseSource /\ n.at = at
      BY <1>1, <2>3, LighthouseGoes
    <3>2. n.op = r.op /\ n.read = r.read /\ n.want = r.want
      BY <3>1 DEF LighthouseEdits, LighthouseFields
    <3>3. LighthouseSound(n, g)
      BY <1>3, <1>7, <2>1, <2>3, <3>1, <3>2
         DEF LighthouseSound, LighthouseReads, LighthouseEncodes
    <3> QED BY <1>3, <1>4, <2>1, <3>1, <3>2, <3>3
  <2> QED BY <1>10, <2>2, <2>3 DEF Lighthouse!Admit, Lighthouse!Builds
<1>11. CASE Lighthouse(b)!Encode(c)
  <2>1. /\ r.at = "encoding" /\ Len(r.read) < b.windows
        /\ Lighthouse(b)!Step(c, [read |-> Append(r.read, lighthouseSource.content)])
        /\ UNCHANGED <<lighthouseSource, lighthouseClient, lighthouseGen,
             lighthouseReceipt>>
    BY <1>11 DEF Lighthouse!Encode
  <2>2. LighthouseEdits(c, {"read"})
          /\ n.read = Append(r.read, lighthouseSource.content)
    BY <1>1, <2>1, LighthouseGoes
  <2>3. n.op = r.op /\ n.seen = r.seen /\ n.want = r.want /\ n.at = r.at /\ n.ok = r.ok
    BY <2>2 DEF LighthouseEdits, LighthouseFields
  <2>4. LighthouseReads(r) /\ LighthouseEncodes(r)
    BY <1>1, <2>1 DEF LighthouseSound
  <2>5. LighthouseReads(n)
    BY <2>3, <2>4 DEF LighthouseReads
  <2>6. LighthouseEncodes(n)
    <3> SUFFICES ASSUME r.seen.mark = lighthouseSource.mark, NEW i \in 1..Len(n.read)
                 PROVE  n.read[i] = r.seen.content
      BY <2>3 DEF LighthouseEncodes
    <3>1. r.seen.content = lighthouseSource.content
      BY <2>4 DEF LighthouseReads
    <3>2. Len(n.read) = Len(r.read) + 1
      BY <1>3, <2>2
    <3>3. CASE i = Len(r.read) + 1
      BY <1>3, <2>2, <3>1, <3>3
    <3>4. CASE i \in 1..Len(r.read)
      BY <1>3, <2>2, <2>4, <3>4 DEF LighthouseEncodes
    <3> QED BY <1>3, <3>2, <3>3, <3>4
  <2>7. LighthouseSound(n, g)
    BY <2>1, <2>3, <2>5, <2>6 DEF LighthouseSound
  <2>8. n.read \in Seq(Contents)
    BY <1>3, <2>2
  <2> QED BY <1>3, <1>4, <2>1, <2>2, <2>3, <2>7, <2>8
<1>12. CASE Lighthouse(b)!Stage(c)
  <2> DEFINE made == [Lighthouse(b)!NoGen EXCEPT
                         !.place = "staging", !.claims = r.want.content,
                         !.windows = {r.read[i] : i \in 1..b.windows}]
  <2>1. /\ r.at = "encoding" /\ Len(r.read) = b.windows
        /\ Lighthouse(b)!Step(c, [at |-> "staged", read |-> <<>>])
        /\ UNCHANGED <<lighthouseSource, lighthouseClient, lighthouseReceipt>>
    BY <1>12 DEF Lighthouse!Stage
  <2>2. lighthouseGen' = [lighthouseGen EXCEPT ![c] = made]
    BY <1>12 DEF Lighthouse!Stage
  <2>3. /\ h.place = "staging" /\ h.claims = r.want.content
        /\ h.windows = {r.read[i] : i \in 1..b.windows}
        /\ DOMAIN h = {"place", "claims", "windows", "version", "sound"}
    BY <1>3, <2>2 DEF Lighthouse!NoGen
  <2>4. /\ DOMAIN lighthouseGen' = Calls
        /\ \A d \in Calls : d # c => lighthouseGen'[d] = lighthouseGen[d]
    BY <1>3, <2>2
  <2> HIDE DEF made
  <2>5. LighthouseEdits(c, {"at", "read"}) /\ n.at = "staged" /\ n.read = <<>>
    BY <1>1, <2>1, LighthouseGoes
  <2>6. n.op = r.op /\ n.seen = r.seen /\ n.want = r.want /\ n.ok = r.ok
    BY <2>5 DEF LighthouseEdits, LighthouseFields
  <2>7. LighthouseReads(r) /\ LighthouseEncodes(r)
    BY <1>1, <2>1 DEF LighthouseSound
  <2>8. LighthouseReads(n)
    BY <2>6, <2>7 DEF LighthouseReads
  <2>9. LighthouseStages(n, h)
    <3>1. ASSUME r.seen.mark = lighthouseSource.mark PROVE h.windows = {r.seen.content}
      <4>1. \A i \in 1..b.windows : r.read[i] = r.seen.content
        BY <2>1, <2>7, <3>1 DEF LighthouseEncodes
      <4>2. 1 \in 1..b.windows
        BY <1>2
      <4> QED BY <2>3, <4>1, <4>2
    <3> QED BY <2>3, <2>6, <3>1 DEF LighthouseStages
  <2>10. LighthouseSound(n, h)
    BY <2>5, <2>8, <2>9 DEF LighthouseSound
  <2>11. n.seen.mark \in Nat /\ n.read \in Seq(Contents)
    BY <1>3, <2>5, <2>6
  <2> QED BY <2>1, <2>3, <2>4, <2>5, <2>6, <2>10, <2>11, LighthouseTurns
<1>13. CASE Lighthouse(b)!Publish(c)
  <2>1. /\ r.at = "staged"
        /\ Lighthouse(b)!Step(c, [at |-> "published"])
        /\ UNCHANGED <<lighthouseSource, lighthouseClient, lighthouseReceipt>>
        /\ lighthouseGen' = [lighthouseGen EXCEPT ![c].place = "final"]
    BY <1>13 DEF Lighthouse!Publish
  <2>2. /\ h.place = "final" /\ h.claims = g.claims /\ h.windows = g.windows
        /\ DOMAIN h = {"place", "claims", "windows", "version", "sound"}
    BY <1>3, <2>1
  <2>3. /\ DOMAIN lighthouseGen' = Calls
        /\ \A d \in Calls : d # c => lighthouseGen'[d] = lighthouseGen[d]
    BY <1>3, <2>1
  <2>4. LighthouseEdits(c, {"at"}) /\ n.at = "published"
    BY <1>1, <2>1, LighthouseGoes
  <2>5. n.op = r.op /\ n.seen = r.seen /\ n.want = r.want /\ n.read = r.read
    BY <2>4 DEF LighthouseEdits, LighthouseFields
  <2>6. LighthouseReads(r) /\ LighthouseStages(r, g)
    BY <1>1, <2>1 DEF LighthouseSound
  <2>7. LighthouseReads(n) /\ LighthouseStages(n, h)
    BY <2>2, <2>5, <2>6 DEF LighthouseReads, LighthouseStages
  <2>8. LighthouseSound(n, h)
    BY <1>7, <2>1, <2>2, <2>4, <2>5, <2>7 DEF LighthouseSound
  <2> QED BY <1>3, <2>1, <2>2, <2>3, <2>4, <2>5, <2>8, LighthouseTurns
<1>14. CASE Lighthouse(b)!Recheck(c)
  <2>1. /\ r.at = "published"
        /\ UNCHANGED <<lighthouseSource, lighthouseClient, lighthouseGen,
             lighthouseReceipt>>
    BY <1>14 DEF Lighthouse!Recheck
  <2>2. CASE Lighthouse(b)!Answer(c, FALSE)
    BY <1>5, <2>1, <2>2
  <2>3. CASE /\ lighthouseSource = r.seen
             /\ Lighthouse(b)!Step(c,
                  [at |-> "rechecked", seen |-> Lighthouse(b)!NoVideo])
    <3>1. /\ LighthouseEdits(c, {"at", "seen"}) /\ n.at = "rechecked"
          /\ n.seen = Lighthouse(b)!NoVideo
      BY <1>1, <2>3, LighthouseGoes
    <3>2. n.op = r.op /\ n.read = r.read
      BY <3>1 DEF LighthouseEdits, LighthouseFields
    <3>3. LighthouseReads(r) /\ LighthouseStages(r, g) /\ g.place = "final"
      BY <1>1, <2>1 DEF LighthouseSound
    <3>4. LighthouseWhole(g)
      BY <2>3, <3>3 DEF LighthouseReads, LighthouseStages, LighthouseWhole
    <3>5. LighthouseSound(n, g)
      BY <1>7, <2>1, <3>1, <3>2, <3>4 DEF LighthouseSound
    <3>6. n.seen.mark \in Nat /\ n.read \in Seq(Contents)
      BY <1>3, <3>1, <3>2 DEF Lighthouse!NoVideo
    <3> QED BY <1>4, <2>1, <3>1, <3>2, <3>5, <3>6
  <2> QED BY <1>14, <2>2, <2>3 DEF Lighthouse!Recheck, Lighthouse!Same
\* A step that only goes on: at a point where nothing is known but of the kind.
<1>6. ASSUME NEW edited \in {{"at"}, {"at", "used"}}, LighthouseEdits(c, edited),
             r.at \notin {"new", "encoding", "answered"},
               n.at \in {"attested", "loaded", "ranked"},
             n.at = "attested" => r.op # "build",
             n.at \in {"loaded", "ranked"} => r.op = "search",
             UNCHANGED <<lighthouseSource, lighthouseClient, lighthouseGen,
                         lighthouseReceipt>>
      PROVE  LighthouseInv(b)'
  <2>1. n.op = r.op /\ n.seen = r.seen /\ n.read = r.read
    BY <1>6 DEF LighthouseEdits, LighthouseFields
  <2>2. LighthouseSound(n, g)
    BY <1>6, <1>7, <2>1 DEF LighthouseSound
  <2> QED BY <1>3, <1>4, <1>6, <2>1, <2>2
<1>15. CASE Lighthouse(b)!Attest(c)
  <2>1. /\ r.at = "rechecked"
        /\ UNCHANGED <<lighthouseSource, lighthouseClient, lighthouseGen,
             lighthouseReceipt>>
    BY <1>15 DEF Lighthouse!Attest
  <2>2. LighthouseWhole(g)
    BY <1>1, <2>1 DEF LighthouseSound
  <2>3. CASE \E good \in BOOLEAN : Lighthouse(b)!Answer(c, good)
    BY <1>5, <2>1, <2>2, <2>3
  <2>4. CASE r.op # "build" /\ Lighthouse(b)!Step(c, [at |-> "attested"])
    <3>1. LighthouseEdits(c, {"at"}) /\ n.at = "attested"
      BY <1>1, <2>4, LighthouseGoes
    <3> QED BY <1>6, <2>1, <2>4, <3>1
  <2> QED BY <1>15, <2>3, <2>4 DEF Lighthouse!Attest
<1>16. CASE Lighthouse(b)!Activate(c)
  <2>1. /\ r.at = "attested" /\ Lighthouse(b)!Answer(c, Lighthouse(b)!Loads(c))
        /\ UNCHANGED <<lighthouseSource, lighthouseClient, lighthouseGen,
             lighthouseReceipt>>
    BY <1>16 DEF Lighthouse!Activate
  <2>2. r.op # "build"
    BY <1>1, <2>1 DEF LighthouseSound
  <2> QED BY <1>5, <2>1, <2>2
<1>17. CASE Lighthouse(b)!Bind(c)
  <2>1. /\ r.at = "bound"
        /\ UNCHANGED <<lighthouseSource, lighthouseClient, lighthouseGen,
             lighthouseReceipt>>
    BY <1>17 DEF Lighthouse!Bind
  <2>2. r.op = "search"
    BY <1>1, <2>1 DEF LighthouseSound
  <2>3. CASE Lighthouse(b)!Answer(c, FALSE)
    BY <1>5, <2>1, <2>3
  <2>4. CASE Lighthouse(b)!Step(c, [at |-> "loaded"])
    <3>1. LighthouseEdits(c, {"at"}) /\ n.at = "loaded"
      BY <1>1, <2>4, LighthouseGoes
    <3> QED BY <1>6, <2>1, <2>2, <3>1
  <2> QED BY <1>17, <2>3, <2>4 DEF Lighthouse!Bind
<1>18. CASE Lighthouse(b)!Load(c)
  <2>1. /\ r.at = "loaded"
        /\ UNCHANGED <<lighthouseSource, lighthouseClient, lighthouseGen,
             lighthouseReceipt>>
    BY <1>18 DEF Lighthouse!Load
  <2>2. r.op = "search"
    BY <1>1, <2>1 DEF LighthouseSound
  <2>3. CASE Lighthouse(b)!Answer(c, FALSE)
    BY <1>5, <2>1, <2>3
  <2>4. ASSUME NEW used, Lighthouse(b)!Step(c, [at |-> "ranked", used |-> used])
        PROVE  LighthouseInv(b)'
    <3>1. LighthouseEdits(c, {"at", "used"}) /\ n.at = "ranked"
      BY <1>1, <2>4, LighthouseGoes
    <3> QED BY <1>6, <2>1, <2>2, <3>1
  <2> QED BY <1>18, <2>3, <2>4 DEF Lighthouse!Load
<1>19. CASE Lighthouse(b)!Rank(c)
  <2>1. PICK good : r.at = "ranked" /\ Lighthouse(b)!Answer(c, good)
          /\ UNCHANGED <<lighthouseSource, lighthouseClient, lighthouseGen,
               lighthouseReceipt>>
    BY <1>19 DEF Lighthouse!Rank
  <2>2. r.op = "search"
    BY <1>1, <2>1 DEF LighthouseSound
  <2> QED BY <1>5, <2>1, <2>2
<1>20. CASE Lighthouse(b)!Fail(c)
  <2>1. /\ r.at \notin {"new", "answered"} /\ Lighthouse(b)!Answer(c, FALSE)
        /\ UNCHANGED <<lighthouseSource, lighthouseClient, lighthouseReceipt>>
        /\ lighthouseGen' = [lighthouseGen EXCEPT ![c] = IF g.place = "staging"
                                THEN Lighthouse(b)!NoGen ELSE g]
    BY <1>20 DEF Lighthouse!Fail, Lighthouse!Inside
  <2>2. /\ DOMAIN lighthouseGen' = Calls
        /\ \A d \in Calls : d # c => lighthouseGen'[d] = lighthouseGen[d]
        /\ DOMAIN h = {"place", "claims", "windows", "version", "sound"}
    BY <1>3, <2>1 DEF Lighthouse!NoGen
  <2> QED BY <2>1, <2>2, LighthouseAnswers
<1> QED BY <1>10, <1>11, <1>12, <1>13, <1>14, <1>15, <1>16, <1>17, <1>18, <1>19, <1>20
        DEF Lighthouse!Handle

\* The client sends, hears and gives up.
LEMMA LighthouseClients ==
    ASSUME NEW b \in LighthouseBounds, LighthouseInv(b), NEW c \in Calls,
           \/ \E op \in Lighthouse(b)!Ops : \E d : Lighthouse(b)!Send(c, op, d)
           \/ Lighthouse(b)!Receive(c) \/ Lighthouse(b)!GiveUp(c)
    PROVE  LighthouseInv(b)'
<1> DEFINE r == lighthouseCall[c]
           g == lighthouseGen[c]
           n == lighthouseCall'[c]
<1>1. LighthouseShapes /\ LighthouseSound(r, g) /\ LighthouseKept(b, c)
  BY DEF LighthouseInv
<1>2. CASE \E op \in Lighthouse(b)!Ops : \E d : Lighthouse(b)!Send(c, op, d)
  <2>0. PICK op \in Lighthouse(b)!Ops : \E d : Lighthouse(b)!Send(c, op, d)
    BY <1>2
  <2>1. PICK d : Lighthouse(b)!Send(c, op, d)
    BY <2>0
  <2>2. /\ lighthouseClient[c] = "new"
        /\ Lighthouse(b)!Step(c, [op |-> op, want |-> lighthouseSource, bound |-> d,
                                  at |-> "sent"])
        /\ lighthouseClient' = [lighthouseClient EXCEPT ![c] = "waiting"]
        /\ UNCHANGED <<lighthouseSource, lighthouseGen, lighthouseReceipt>>
    BY <2>1 DEF Lighthouse!Send
  <2>3. r.at = "new" /\ r.read = <<>>
    BY <1>1, <2>2 DEF LighthouseKept, LighthouseSound
  <2>4. LighthouseEdits(c, {"op", "want", "bound", "at"}) /\ n.op = op /\ n.at = "sent"
    BY <1>1, <2>2, LighthouseGoes
  <2>5. n.read = <<>> /\ n.seen = r.seen
    BY <2>3, <2>4 DEF LighthouseEdits, LighthouseFields
  <2>6. LighthouseShapes'
    <3>1. /\ DOMAIN n = LighthouseFields /\ n.op \in {"build", "prepare", "search"}
          /\ n.seen.mark \in Nat
      BY <1>1, <2>4, <2>5 DEF LighthouseShapes, LighthouseEdits, Lighthouse!Ops
    <3>2. n.read \in Seq(Contents)
      BY <2>5
    <3> QED BY <1>1, <2>2, <2>4, <3>1, <3>2 DEF LighthouseShapes, LighthouseEdits
  <2>7. LighthouseElsewhere(c)
    BY <1>1, <2>2, <2>4 DEF LighthouseElsewhere, LighthouseEdits, LighthouseShapes
  <2>8. LighthouseSound(lighthouseCall[c], lighthouseGen[c])'
    BY <2>4, <2>5 DEF LighthouseSound
  <2>9. LighthouseKept(b, c)'
    BY <1>1, <2>2 DEF LighthouseKept, LighthouseShapes, Lighthouse!NoReceipt
  <2> QED BY <2>2, <2>6, <2>7, <2>8, <2>9, LighthouseAside
<1>3. CASE Lighthouse(b)!Receive(c)
  <2> DEFINE d == Lighthouse(b)!Descriptor(c)
             good == /\ r.at = "answered" /\ r.ok
                     /\ r.op = "build" => d.claims = r.want.content
                                           /\ Lighthouse(b)!Same(lighthouseSource,
                                                r.want)
  <2>1. /\ lighthouseClient[c] = "waiting"
        /\ lighthouseClient' = [lighthouseClient EXCEPT
                                   ![c] = IF good THEN "done" ELSE "failed"]
        /\ lighthouseReceipt' = IF good /\ r.op = "build"
                                THEN [lighthouseReceipt EXCEPT ![c] = d]
                                  ELSE lighthouseReceipt
        /\ UNCHANGED <<lighthouseSource, lighthouseCall, lighthouseGen>>
    BY <1>3 DEF Lighthouse!Receive
  <2>2. d.claims = g.claims
    BY DEF Lighthouse!Descriptor
  <2>3. good => r.at = "answered" /\ r.ok
    OBVIOUS
  <2> HIDE DEF d, good
  <2>4. lighthouseReceipt[c] = Lighthouse(b)!NoReceipt
    BY <1>1, <2>1 DEF LighthouseKept
  <2>5. /\ lighthouseClient'[c] = IF good THEN "done" ELSE "failed"
        /\ lighthouseReceipt'[c] = IF good /\ r.op = "build" THEN d
                                   ELSE Lighthouse(b)!NoReceipt
    BY <1>1, <2>1, <2>4 DEF LighthouseShapes
  <2>6. LighthouseShapes'
    BY <1>1, <2>1 DEF LighthouseShapes
  <2>7. LighthouseElsewhere(c)
    BY <1>1, <2>1 DEF LighthouseElsewhere, LighthouseShapes
  <2>8. LighthouseSound(lighthouseCall[c], lighthouseGen[c])'
    BY <1>1, <2>1
       DEF LighthouseSound, LighthouseReads, LighthouseEncodes, LighthouseStages
  <2>9. good /\ r.op = "build" => LighthouseWhole(g)
    BY <1>1, <2>3 DEF LighthouseSound
  <2>10. LighthouseKept(b, c)'
    BY <2>1, <2>2, <2>3, <2>5, <2>9
       DEF LighthouseKept, LighthouseWhole, Lighthouse!NoReceipt
  <2> QED BY <2>1, <2>6, <2>7, <2>8, <2>10, LighthouseAside
<1>4. CASE Lighthouse(b)!GiveUp(c)
  <2>1. /\ lighthouseClient[c] = "waiting"
        /\ lighthouseClient' = [lighthouseClient EXCEPT ![c] = "gone"]
        /\ UNCHANGED <<lighthouseSource, lighthouseCall, lighthouseGen,
             lighthouseReceipt>>
    BY <1>4 DEF Lighthouse!GiveUp
  <2>2. LighthouseShapes' /\ LighthouseElsewhere(c)
    BY <1>1, <2>1 DEF LighthouseShapes, LighthouseElsewhere
  <2>3. LighthouseSound(lighthouseCall[c], lighthouseGen[c])'
    BY <1>1, <2>1
       DEF LighthouseSound, LighthouseReads, LighthouseEncodes, LighthouseStages
  <2>4. LighthouseKept(b, c)'
    BY <1>1, <2>1 DEF LighthouseKept, LighthouseShapes, Lighthouse!NoReceipt
  <2> QED BY <2>1, <2>2, <2>3, <2>4, LighthouseAside
<1> QED BY <1>2, <1>3, <1>4

\* The video is replaced, a generation is rewritten, the worker dies.
LEMMA LighthouseWorld ==
    ASSUME NEW b \in LighthouseBounds, LighthouseInv(b),
           \/ \E v \in Contents : Lighthouse(b)!Replace(v)
           \/ \E g \in Calls, sound \in BOOLEAN : Lighthouse(b)!Rewrite(g, sound)
           \/ Lighthouse(b)!Crash \/ UNCHANGED Lighthouse(b)!vars
    PROVE  LighthouseInv(b)'
<1>1. LighthouseShapes
  BY DEF LighthouseInv
<1>2. \A c \in Calls : LighthouseSound(lighthouseCall[c], lighthouseGen[c])
        /\ LighthouseKept(b, c)
  BY DEF LighthouseInv
<1>3. ASSUME NEW v \in Contents, Lighthouse(b)!Replace(v)
      PROVE  LighthouseInv(b)'
  <2>1. /\ lighthouseSource' = [content |-> v, mark |-> lighthouseSource.mark + 1]
        /\ UNCHANGED <<lighthouseCall, lighthouseClient, lighthouseGen,
             lighthouseReceipt>>
    BY <1>3 DEF Lighthouse!Replace
  <2>2. LighthouseShapes'
    BY <1>1, <2>1 DEF LighthouseShapes
  <2>3. ASSUME NEW c \in Calls
        PROVE  LighthouseSound(lighthouseCall[c], lighthouseGen[c])'
                 /\ LighthouseKept(b, c)'
    <3> DEFINE r == lighthouseCall[c]
    <3>1. r.seen.mark \in Nat /\ lighthouseSource.mark \in Nat
          /\ lighthouseSource'.mark = lighthouseSource.mark + 1
      BY <1>1, <2>1 DEF LighthouseShapes
    <3>2. r.seen.mark <= lighthouseSource.mark =>
            /\ r.seen.mark <= lighthouseSource'.mark
            /\ r.seen.mark # lighthouseSource'.mark
      BY <3>1
    <3>3. LighthouseSound(r, lighthouseGen[c]) /\ LighthouseKept(b, c)
      BY <1>2
    <3>4. LighthouseSound(lighthouseCall[c], lighthouseGen[c])'
      BY <2>1, <3>2, <3>3 DEF LighthouseSound, LighthouseReads, LighthouseEncodes,
         LighthouseStages, LighthouseWhole
    <3>5. LighthouseKept(b, c)'
      BY <2>1, <3>3 DEF LighthouseKept, LighthouseWhole, Lighthouse!NoReceipt
    <3> QED BY <3>4, <3>5
  <2> QED BY <2>2, <2>3 DEF LighthouseInv
<1>4. ASSUME NEW g \in Calls, NEW sound \in BOOLEAN, Lighthouse(b)!Rewrite(g, sound)
      PROVE  LighthouseInv(b)'
  <2>1. /\ lighthouseGen' = [lighthouseGen EXCEPT ![g].version = @ + 1,
             ![g].sound = sound]
        /\ UNCHANGED <<lighthouseSource, lighthouseCall, lighthouseClient,
             lighthouseReceipt>>
    BY <1>4 DEF Lighthouse!Rewrite
  <2>2. /\ DOMAIN lighthouseGen' = Calls
        /\ \A c \in Calls :
              /\ DOMAIN lighthouseGen'[c] = DOMAIN lighthouseGen[c]
              /\ lighthouseGen'[c].place = lighthouseGen[c].place
              /\ lighthouseGen'[c].claims = lighthouseGen[c].claims
              /\ lighthouseGen'[c].windows = lighthouseGen[c].windows
    BY <1>1, <2>1 DEF LighthouseShapes
  <2>3. LighthouseShapes'
    BY <1>1, <2>1, <2>2 DEF LighthouseShapes
  <2>4. ASSUME NEW c \in Calls
        PROVE  LighthouseSound(lighthouseCall[c], lighthouseGen[c])'
                 /\ LighthouseKept(b, c)'
    <3>1. LighthouseSound(lighthouseCall[c], lighthouseGen[c]) /\ LighthouseKept(b, c)
      BY <1>2
    <3>2. LighthouseSound(lighthouseCall[c], lighthouseGen[c])'
      BY <2>1, <2>2, <3>1 DEF LighthouseSound, LighthouseReads, LighthouseEncodes,
         LighthouseStages, LighthouseWhole
    <3>3. LighthouseKept(b, c)'
      BY <2>1, <2>2, <3>1 DEF LighthouseKept, LighthouseWhole, Lighthouse!NoReceipt
    <3> QED BY <3>2, <3>3
  <2> QED BY <2>3, <2>4 DEF LighthouseInv
<1>5. CASE Lighthouse(b)!Crash
  <2>1. /\ lighthouseCall' = [c \in Calls |->
              IF lighthouseCall[c].at \in Lighthouse(b)!Inside \cup {"sent"}
              THEN [Lighthouse(b)!Unsent EXCEPT !.op = lighthouseCall[c].op,
                !.at = "lost"]
              ELSE lighthouseCall[c]]
        /\ UNCHANGED <<lighthouseSource, lighthouseClient, lighthouseGen,
             lighthouseReceipt>>
    BY <1>5 DEF Lighthouse!Crash
  <2>2. ASSUME NEW c \in Calls
        PROVE  \/ lighthouseCall'[c] = lighthouseCall[c]
               \/ /\ DOMAIN lighthouseCall'[c] = LighthouseFields
                  /\ lighthouseCall'[c].op = lighthouseCall[c].op
                  /\ lighthouseCall'[c].seen.mark \in Nat
                  /\ lighthouseCall'[c].read = <<>> /\ lighthouseCall'[c].at = "lost"
                  /\ lighthouseCall[c].at \notin {"new", "answered"}
    <3>1. CASE lighthouseCall[c].at \in Lighthouse(b)!Inside \cup {"sent"}
      <4>1. lighthouseCall'[c] = [Lighthouse(b)!Unsent EXCEPT
                                     !.op = lighthouseCall[c].op, !.at = "lost"]
        BY <2>1, <3>1
      <4> QED BY <3>1, <4>1
            DEF Lighthouse!Unsent, Lighthouse!NoVideo, Lighthouse!Inside,
                 LighthouseFields
    <3> QED BY <2>1, <3>1
  <2>3. LighthouseShapes'
    <3>1. ASSUME NEW c \in Calls
          PROVE  /\ DOMAIN lighthouseCall'[c] = LighthouseFields
                 /\ lighthouseCall'[c].op \in {"build", "prepare", "search"}
                 /\ lighthouseCall'[c].seen.mark \in Nat
                 /\ lighthouseCall'[c].read \in Seq(Contents)
      <4>1. CASE lighthouseCall'[c] = lighthouseCall[c]
        BY <1>1, <4>1 DEF LighthouseShapes
      <4>2. CASE lighthouseCall'[c] # lighthouseCall[c]
        <5> DEFINE n == lighthouseCall'[c]
        <5>1. n.read = <<>>
          BY <2>2, <4>2
        <5> HIDE DEF n
        <5>2. n.read \in Seq(Contents)
          BY <5>1
        <5> USE DEF n
        <5> QED BY <1>1, <2>2, <4>2, <5>2 DEF LighthouseShapes
      <4> QED BY <4>1, <4>2
    <3>2. DOMAIN lighthouseCall' = Calls
      BY <2>1
    <3> QED BY <1>1, <2>1, <3>1, <3>2 DEF LighthouseShapes
  <2>4. ASSUME NEW c \in Calls
        PROVE  LighthouseSound(lighthouseCall[c], lighthouseGen[c])'
                 /\ LighthouseKept(b, c)'
    <3>1. LighthouseSound(lighthouseCall[c], lighthouseGen[c]) /\ LighthouseKept(b, c)
      BY <1>2
    <3>2. LighthouseSound(lighthouseCall[c], lighthouseGen[c])'
      <4>1. CASE lighthouseCall'[c] = lighthouseCall[c]
        <5>1. lighthouseSource' = lighthouseSource
                /\ lighthouseGen'[c] = lighthouseGen[c]
          BY <2>1
        <5> QED BY <3>1, <4>1, <5>1 DEF LighthouseSound, LighthouseReads,
                   LighthouseEncodes, LighthouseStages, LighthouseWhole
      <4>2. CASE lighthouseCall'[c].read = <<>> /\ lighthouseCall'[c].at = "lost"
        <5> DEFINE n == lighthouseCall'[c]
                   h == lighthouseGen'[c]
        <5>1. n.read = <<>> /\ n.at = "lost"
          BY <4>2
        <5> HIDE DEF n
        <5>2. LighthouseSound(n, h)
          BY <5>1 DEF LighthouseSound
        <5> USE DEF n
        <5> QED BY <2>1, <5>2 DEF LighthouseSound, LighthouseReads, LighthouseEncodes,
                   LighthouseStages
      <4> QED BY <2>2, <4>1, <4>2
    <3>3. LighthouseKept(b, c)'
      BY <2>1, <2>2, <3>1 DEF LighthouseKept, LighthouseWhole, Lighthouse!NoReceipt
    <3> QED BY <3>2, <3>3
  <2> QED BY <2>3, <2>4 DEF LighthouseInv
<1>6. CASE UNCHANGED Lighthouse(b)!vars
  <2>1. UNCHANGED <<lighthouseSource, lighthouseCall, lighthouseClient, lighthouseGen,
                    lighthouseReceipt>>
    BY <1>6 DEF Lighthouse!vars
  <2>2. LighthouseShapes'
    BY <1>1, <2>1 DEF LighthouseShapes
  <2> QED BY <1>2, <2>1, <2>2 DEF LighthouseInv, LighthouseSound, LighthouseKept,
          LighthouseReads, LighthouseEncodes, LighthouseStages, LighthouseWhole,
          Lighthouse!NoReceipt
<1> QED BY <1>3, <1>4, <1>5, <1>6

LEMMA LighthouseKeeps ==
    ASSUME NEW b \in LighthouseBounds, Lighthouse(b)!LighthouseAssumption,
             LighthouseInv(b),
           [Lighthouse(b)!Next]_(Lighthouse(b)!vars)
    PROVE  LighthouseInv(b)'
BY LighthouseHandles, LighthouseClients, LighthouseWorld DEF Lighthouse!Next

LEMMA LighthouseStart ==
    ASSUME NEW b \in LighthouseBounds, Lighthouse(b)!LighthouseAssumption,
             Lighthouse(b)!Init
    PROVE  LighthouseInv(b)
<1>1. PICK v \in Contents : lighthouseSource = [content |-> v, mark |-> 0]
  BY DEF Lighthouse!Init
<1>2. \A c \in Calls : lighthouseCall[c] = Lighthouse(b)!Unsent
                       /\ lighthouseGen[c] = Lighthouse(b)!NoGen
                       /\ lighthouseReceipt[c] = Lighthouse(b)!NoReceipt
  BY DEF Lighthouse!Init
<1>3. LighthouseShapes
  <2>1. lighthouseSource.mark \in Nat /\ lighthouseSource.content \in Contents
    BY <1>1
  <2>2. /\ DOMAIN lighthouseCall = Calls /\ DOMAIN lighthouseGen = Calls
        /\ DOMAIN lighthouseClient = Calls /\ DOMAIN lighthouseReceipt = Calls
    BY DEF Lighthouse!Init
  <2>3. ASSUME NEW c \in Calls
        PROVE  /\ DOMAIN lighthouseCall[c] = LighthouseFields
               /\ lighthouseCall[c].op \in {"build", "prepare", "search"}
               /\ lighthouseCall[c].seen.mark \in Nat
               /\ DOMAIN lighthouseGen[c] = {"place", "claims", "windows", "version",
                    "sound"}
    BY <1>2 DEF Lighthouse!Unsent, Lighthouse!NoGen, Lighthouse!NoVideo,
       LighthouseFields
  <2>4. ASSUME NEW c \in Calls PROVE lighthouseCall[c].read \in Seq(Contents)
    <3>1. lighthouseCall[c].read = <<>>
      BY <1>2 DEF Lighthouse!Unsent
    <3> QED BY <3>1
  <2> QED BY <2>1, <2>2, <2>3, <2>4 DEF LighthouseShapes
<1>4. \A c \in Calls : LighthouseSound(lighthouseCall[c], lighthouseGen[c])
        /\ LighthouseKept(b, c)
  BY <1>2 DEF LighthouseSound, LighthouseKept, Lighthouse!Unsent
<1> QED BY <1>3, <1>4 DEF LighthouseInv

\* A receipt is of a whole generation, which stays whole until it is rewritten.
LEMMA LighthouseReceiptsHold ==
    ASSUME NEW b \in LighthouseBounds, LighthouseInv(b)
    PROVE  Lighthouse(b)!ReceiptsDescribeTheirVideo
BY DEF LighthouseInv, LighthouseKept, LighthouseWhole,
   Lighthouse!ReceiptsDescribeTheirVideo

(***************************************************************************)
(* A search against a catalogue that moves.                                *)
(***************************************************************************)

\* Generations are numbered as they are published, and the vectors of any state of
\* the active pointers are those of the segments active with them.
SearchCatalogInv(b) ==
    /\ searchLast \in Search(b)!Gens
    /\ searchInputs \in [Videos -> [Search(b)!Gens -> [Search(b)!Segments -> Search(b)!Gens]]]
    /\ searchActive \in searchPast
    /\ \A a \in searchPast :
          /\ a \in [Videos -> [Search(b)!Kinds -> Search(b)!Gens]]
          /\ \A v \in Videos :
                /\ \A k \in Search(b)!Kinds : a[v][k] <= searchLast
                /\ a[v]["text"] # 0 =>
                      \A k \in Search(b)!Segments : searchInputs[v][a[v]["text"]][k] = a[v][k]

\* What a step of the catalogue leaves as it was.
SearchGrows ==
    /\ searchPast \subseteq searchPast'
    /\ \A v \in Videos, g \in Nat : g <= searchLast
         => searchInputs'[v][g] = searchInputs[v][g]

LEMMA SearchPublishes ==
    ASSUME NEW b \in SearchBounds, Search(b)!CatalogAssumption, SearchCatalogInv(b),
           NEW v \in Videos, NEW fresh \in b.outcomes, Search(b)!Publish(v, fresh)
    PROVE  SearchCatalogInv(b)' /\ SearchGrows
<1> DEFINE Gens == Search(b)!Gens
           Kinds == Search(b)!Kinds
           Segments == Search(b)!Segments
           now == [k \in Kinds |-> IF k \in fresh THEN searchLast + 1
                                   ELSE IF k = "text" THEN Search(b)!Kept(v, fresh)
                                   ELSE searchActive[v][k]]
           new == Search(b)!NewSegments(v, fresh)
<1>1. /\ searchLast + 1 \in Gens /\ searchLast' = searchLast + 1
      /\ searchActive' = [searchActive EXCEPT ![v] = now]
      /\ searchInputs' = IF "text" \in fresh
                         THEN [searchInputs EXCEPT ![v][searchLast + 1] = new]
                           ELSE searchInputs
      /\ searchPast' = searchPast \cup {searchActive'}
  BY DEF Search!Publish
<1>2. /\ Gens \subseteq Nat /\ 0 \in Gens /\ "text" \in Kinds /\ "text" \notin Segments
      /\ Segments \subseteq Kinds
  BY DEF Search!Gens, Search!CatalogAssumption, Search!Old, Search!Kinds,
     Search!Segments,
         Search!Files
<1>3. /\ searchActive \in [Videos -> [Kinds -> Gens]] /\ searchLast \in Gens
      /\ searchInputs \in [Videos -> [Gens -> [Segments -> Gens]]]
      /\ \A k \in Kinds : searchActive[v][k] <= searchLast
  BY DEF SearchCatalogInv
<1>4. new \in [Segments -> Gens] /\ \A k \in Segments :
         new[k] = IF k \in fresh THEN searchLast + 1 ELSE searchActive[v][k]
  BY <1>1, <1>2, <1>3 DEF Search!NewSegments
<1>5. /\ Search(b)!Kept(v, fresh) \in {0, searchActive[v]["text"]}
      /\ Search(b)!Kept(v, fresh) # 0 =>
            searchInputs[v][searchActive[v]["text"]] = new
  BY DEF Search!Kept
<1>6. now \in [Kinds -> Gens] /\ (\A k \in Kinds : now[k] <= searchLast + 1)
  BY <1>1, <1>2, <1>3, <1>5
<1>7. /\ \A k \in Segments : now[k] = new[k]
      /\ "text" \in fresh => now["text"] = searchLast + 1
      /\ "text" \notin fresh => now["text"] = Search(b)!Kept(v, fresh)
  BY <1>2, <1>4
<1> HIDE DEF now, new, Gens, Kinds, Segments
<1>8. searchInputs' \in [Videos -> [Gens -> [Segments -> Gens]]]
  BY <1>1, <1>3, <1>4
<1>9. \A u \in Videos, g \in Nat : g <= searchLast
        => searchInputs'[u][g] = searchInputs[u][g]
  BY <1>1, <1>2, <1>3
<1>10. searchActive' \in [Videos -> [Kinds -> Gens]] /\ searchActive'[v] = now
       /\ \A u \in Videos \ {v} : searchActive'[u] = searchActive[u]
  BY <1>1, <1>3, <1>6
<1>11. now["text"] # 0 => \A k \in Segments : searchInputs'[v][now["text"]][k] = now[k]
  <2>1. CASE "text" \in fresh
    <3>1. searchInputs'[v][searchLast + 1] = new
      BY <1>1, <1>3, <2>1
    <3> QED BY <1>7, <2>1, <3>1
  <2>2. CASE "text" \notin fresh
    BY <1>1, <1>5, <1>7, <2>2
  <2> QED BY <2>1, <2>2
<1>17. searchLast \in Nat /\ searchLast' = searchLast + 1
  BY <1>1, <1>2, <1>3
<1>12. ASSUME NEW a \in searchPast', NEW u \in Videos
       PROVE  /\ a \in [Videos -> [Kinds -> Gens]]
              /\ \A k \in Kinds : a[u][k] <= searchLast'
              /\ a[u]["text"] # 0 =>
                    \A k \in Segments : searchInputs'[u][a[u]["text"]][k] = a[u][k]
  <2>1. ASSUME a \in searchPast
        PROVE  /\ a \in [Videos -> [Kinds -> Gens]]
               /\ \A k \in Kinds : a[u][k] <= searchLast
               /\ a[u]["text"] # 0 =>
                     \A k \in Segments : searchInputs[u][a[u]["text"]][k] = a[u][k]
    BY <2>1 DEF SearchCatalogInv, Gens, Kinds, Segments
  <2>2. CASE a \in searchPast
    <3>1. a[u]["text"] \in Nat /\ a[u]["text"] <= searchLast
      BY <1>2, <2>1, <2>2
    <3>2. searchInputs'[u][a[u]["text"]] = searchInputs[u][a[u]["text"]]
      BY <1>9, <3>1
    <3>3. \A k \in Kinds : a[u][k] \in Nat /\ a[u][k] <= searchLast
      BY <1>2, <2>1, <2>2
    <3>4. \A k \in Kinds : a[u][k] <= searchLast'
      BY <1>17, <3>3
    <3>5. a[u]["text"] # 0
            => \A k \in Segments : searchInputs'[u][a[u]["text"]][k] = a[u][k]
      BY <2>1, <2>2, <3>2
    <3> QED BY <2>1, <2>2, <3>4, <3>5
  <2>3. CASE a = searchActive' /\ u = v
    BY <1>1, <1>6, <1>10, <1>11, <2>3
  <2>4. CASE a = searchActive' /\ u # v
    <3>1. /\ \A k \in Kinds : searchActive[u][k] <= searchLast
          /\ searchActive[u]["text"] # 0 => \A k \in Segments :
                searchInputs[u][searchActive[u]["text"]][k] = searchActive[u][k]
      BY DEF SearchCatalogInv, Gens, Kinds, Segments
    <3>2. searchActive[u] \in [Kinds -> Gens] /\ a[u] = searchActive[u]
      BY <1>3, <1>10, <2>4
    <3>3. searchInputs'[u][a[u]["text"]] = searchInputs[u][a[u]["text"]]
      BY <1>2, <1>9, <3>1, <3>2
    <3>4. \A k \in Kinds : a[u][k] \in Nat /\ a[u][k] <= searchLast
      BY <1>2, <3>1, <3>2
    <3>5. \A k \in Kinds : a[u][k] <= searchLast'
      BY <1>17, <3>4
    <3> QED BY <1>10, <2>4, <3>1, <3>2, <3>3, <3>5
  <2> QED BY <1>1, <2>2, <2>3, <2>4
<1>13. \A a \in searchPast' : a \in [Videos -> [Kinds -> Gens]]
  <2>1. \A a \in searchPast : a \in [Videos -> [Kinds -> Gens]]
    BY DEF SearchCatalogInv, Gens, Kinds
  <2> QED BY <1>1, <1>10, <2>1
<1>14. searchLast' \in Gens /\ searchActive' \in searchPast'
  BY <1>1
<1>15. SearchGrows
  BY <1>1, <1>9 DEF SearchGrows
<1>16. SearchCatalogInv(b)'
  <2>1. searchInputs' \in
           [Videos -> [Search(b)!Gens -> [Search(b)!Segments -> Search(b)!Gens]]]
    BY <1>8 DEF Gens, Segments
  <2>2. searchLast' \in Search(b)!Gens
    BY <1>14 DEF Gens
  <2>3. \A a \in searchPast' : a \in [Videos -> [Search(b)!Kinds -> Search(b)!Gens]]
    BY <1>13 DEF Gens, Kinds
  <2>4. \A a \in searchPast', u \in Videos :
           /\ \A k \in Search(b)!Kinds : a[u][k] <= searchLast'
           /\ a[u]["text"] # 0 => \A k \in Search(b)!Segments :
                 searchInputs'[u][a[u]["text"]][k] = a[u][k]
    BY <1>12 DEF Kinds, Segments
  <2> QED BY <1>14, <2>1, <2>2, <2>3, <2>4 DEF SearchCatalogInv
<1> QED BY <1>15, <1>16

LEMMA SearchOthers ==
    ASSUME NEW b \in SearchBounds, Search(b)!CatalogAssumption, SearchCatalogInv(b),
           Search(b)!Others
    PROVE  SearchCatalogInv(b)' /\ SearchGrows
<1>1. PICK v \in Videos :
        \/ Search(b)!Enqueue(v) \/ Search(b)!GiveUp(v)
        \/ \E fresh \in b.outcomes : Search(b)!Publish(v, fresh)
        \/ \E g \in Search(b)!Gens : Search(b)!Collect(v, g)
        \/ \E f \in Search(b)!Files : Search(b)!Break(v, f)
  BY DEF Search!Others
<1>2. CASE \E fresh \in b.outcomes : Search(b)!Publish(v, fresh)
  BY <1>2, SearchPublishes
<1>3. ASSUME UNCHANGED <<searchActive, searchInputs, searchLast, searchPast>>
      PROVE  SearchCatalogInv(b)' /\ SearchGrows
  BY <1>3 DEF SearchCatalogInv, SearchGrows
<1> QED
  BY <1>1, <1>2, <1>3 DEF Search!Enqueue, Search!GiveUp, Search!Collect, Search!Break

SearchFields == {"at", "plan", "strict", "ready", "jobs", "bound", "segments", "bind",
                 "again", "whole", "loaded", "found", "meant", "why"}
SearchText == {"speech", "ocr", "bind", "inputs", "validate", "query", "rebind",
  "compare"}
SearchFiles == {"visual", "visual-end", "moment", "moment-end", "done"}

\* The generations of frames and moments are those of one state of the pointers.
SearchReleased(b, r) ==
    \E a \in searchPast : \A v \in r.jobs,
      f \in Search(b)!Files : r.bound[v][f] = a[v][f]

\* Vectors are of videos that are searched and were active at some time.
SearchBinds(r) ==
    \A v \in Videos : r.bind[v] # 0 =>
        v \in r.ready /\ \E a \in searchPast : a[v]["text"] = r.bind[v]

\* Nothing is found before the text is read.
SearchFresh(r) == r.loaded = {} /\ r.found = {} /\ r.meant = {}

\* Files of videos with jobs are the bound ones; text is of the segments read at
\* first, and what was found by meaning was found by spelling.
SearchExact(b, r) ==
    /\ \A v \in r.jobs, f \in Search(b)!Files : \A g :
          <<v, f, g>> \in r.loaded \cup r.found => g = r.bound[v][f]
    /\ \A v, g : \A k \in Search(b)!Segments :
          /\ <<v, k, g>> \notin r.loaded
          /\ <<v, k, g>> \in r.found => g = r.segments[v][k]
SearchMeans(b, r) ==
    \A v \in Videos, g \in Search(b)!Gens,
      k \in Search(b)!Segments : <<v, k, g>> \in r.meant =>
        /\ <<v, k, g>> \in r.found
        /\ r.bind[v] # 0 /\ g = searchInputs[v][r.bind[v]][k]

\* What is known of a search by where it is.
SearchSound(b, r) ==
    /\ DOMAIN r = SearchFields /\ r.ready \subseteq Videos
    /\ r.at \in SearchText \cup SearchFiles => SearchReleased(b, r)
    /\ r.at \in {"precheck", "list", "snapshot"} \cup SearchText => SearchFresh(r)
    /\ r.at \in (SearchText \ {"speech", "ocr", "bind"}) \cup SearchFiles
         => SearchBinds(r)
    /\ r.at \in SearchFiles => SearchExact(b, r) /\ SearchMeans(b, r)

SearchInv(b) == SearchCatalogInv(b) /\ SearchSound(b, searchQ)

\* A search in hand is as sound as before when the catalogue moves.
LEMMA SearchWaits ==
    ASSUME NEW b \in SearchBounds, Search(b)!CatalogAssumption, SearchInv(b),
           SearchCatalogInv(b)', SearchGrows, UNCHANGED searchQ
    PROVE  SearchInv(b)'
<1> DEFINE r == searchQ
<1>1. SearchReleased(b, r) => SearchReleased(b, r)'
  BY DEF SearchReleased, SearchGrows
<1>2. SearchBinds(r) => SearchBinds(r)'
  BY DEF SearchBinds, SearchGrows
<1>3. SearchBinds(r) /\ SearchMeans(b, r) => SearchMeans(b, r)'
  <2> SUFFICES ASSUME SearchBinds(r), SearchMeans(b, r), NEW v \in Videos,
                      NEW g \in Search(b)!Gens, NEW k \in Search(b)!Segments,
                      <<v, k, g>> \in r.meant
               PROVE  searchInputs'[v][r.bind[v]][k] = searchInputs[v][r.bind[v]][k]
    BY DEF SearchMeans
  <2>1. r.bind[v] # 0
    BY DEF SearchMeans
  <2>2. PICK a \in searchPast : a[v]["text"] = r.bind[v]
    BY <2>1 DEF SearchBinds
  <2>3. "text" \in Search(b)!Kinds /\ Search(b)!Gens \subseteq Nat
    BY DEF Search!Kinds, Search!Gens, Search!CatalogAssumption, Search!Old
  <2>4. r.bind[v] \in Nat /\ r.bind[v] <= searchLast
    BY <2>2, <2>3 DEF SearchInv, SearchCatalogInv
  <2> QED BY <2>4 DEF SearchGrows
<1>4. SearchExact(b, r) => SearchExact(b, r)'
  BY DEF SearchExact
<1>5. SearchFresh(r) => SearchFresh(r)'
  BY DEF SearchFresh
<1> QED
  BY <1>1, <1>2, <1>3, <1>4, <1>5 DEF SearchInv, SearchSound

\* The pointers as they are now are one state of them.
LEMMA SearchNow ==
    ASSUME NEW b \in SearchBounds, SearchInv(b), NEW v \in Videos
    PROVE  \E a \in searchPast : a[v]["text"] = searchActive[v]["text"]
BY DEF SearchInv, SearchCatalogInv

\* A refusal, a new search and the steps before the text are trivially sound.
LEMMA SearchRefuses ==
    ASSUME NEW b \in SearchBounds, SearchInv(b), NEW why, Search(b)!Refuse(why)
    PROVE  SearchSound(b, searchQ')
<1>1. DOMAIN searchQ = SearchFields /\ searchQ.ready \subseteq Videos
  BY DEF SearchInv, SearchSound
<1>2. searchQ' = [searchQ EXCEPT !.at = "refused", !.why = why]
  BY DEF Search!Refuse
<1>3. /\ searchQ'.at = "refused" /\ DOMAIN searchQ' = SearchFields
      /\ searchQ'.ready \subseteq Videos
  BY <1>1, <1>2 DEF SearchFields
<1> QED BY <1>3 DEF SearchSound, SearchText, SearchFiles

\* An error in the files of one kind refuses the search or skips the kind.
LEMMA SearchSkips ==
    ASSUME NEW b \in SearchBounds, SearchInv(b), NEW at \in SearchFiles,
           searchQ.at \in SearchFiles, searchQ' = [searchQ EXCEPT !.at = at]
    PROVE  SearchSound(b, searchQ')
<1>1. DOMAIN searchQ = SearchFields /\ searchQ.ready \subseteq Videos
  BY DEF SearchInv, SearchSound
<1>2. /\ DOMAIN searchQ' = SearchFields /\ searchQ'.at = at
      /\ searchQ'.jobs = searchQ.jobs /\ searchQ'.bound = searchQ.bound
      /\ searchQ'.loaded = searchQ.loaded /\ searchQ'.found = searchQ.found
      /\ searchQ'.segments = searchQ.segments /\ searchQ'.meant = searchQ.meant
      /\ searchQ'.bind = searchQ.bind /\ searchQ'.ready = searchQ.ready
  BY <1>1 DEF SearchFields
<1>3. /\ SearchReleased(b, searchQ) /\ SearchBinds(searchQ)
      /\ SearchExact(b, searchQ) /\ SearchMeans(b, searchQ)
  BY DEF SearchInv, SearchSound, SearchText, SearchFiles
<1>4. /\ SearchReleased(b, searchQ') /\ SearchBinds(searchQ')
      /\ SearchExact(b, searchQ') /\ SearchMeans(b, searchQ')
  BY <1>2, <1>3 DEF SearchReleased, SearchBinds, SearchExact, SearchMeans
<1> QED BY <1>1, <1>2, <1>4 DEF SearchSound, SearchText, SearchFiles

LEMMA SearchFilesFail ==
    ASSUME NEW b \in SearchBounds, SearchInv(b), NEW f \in Search(b)!Files,
           searchQ.at \in SearchFiles, Search(b)!FilesFail(f)
    PROVE  SearchSound(b, searchQ')
<1>1. Search(b)!After(f) \in SearchFiles
  BY DEF Search!After, SearchFiles
<1>2. \/ Search(b)!Refuse("files")
      \/ searchQ' = [searchQ EXCEPT !.at = Search(b)!After(f)]
  BY DEF Search!FilesFail
<1> QED BY <1>1, <1>2, SearchSkips, SearchRefuses

\* When the text is read, or its semantic part has failed, what was found is of the
\* segments read at first.
LEMMA SearchFinds ==
    ASSUME NEW b \in SearchBounds, SearchInv(b), searchQ.at \in {"validate", "compare"},
           searchQ'.at = "visual", DOMAIN searchQ' = SearchFields,
           searchQ'.found = Search(b)!LexicalHits, searchQ'.loaded = searchQ.loaded,
           searchQ'.jobs = searchQ.jobs, searchQ'.bound = searchQ.bound,
           searchQ'.segments = searchQ.segments, searchQ'.ready = searchQ.ready,
           SearchBinds(searchQ'), SearchMeans(b, searchQ')
    PROVE  SearchSound(b, searchQ')
<1>1. /\ SearchReleased(b, searchQ) /\ SearchFresh(searchQ)
      /\ searchQ.ready \subseteq Videos
  BY DEF SearchInv, SearchSound, SearchText
<1>2. SearchReleased(b, searchQ')
  BY <1>1 DEF SearchReleased
<1>3. \A x \in Search(b)!LexicalHits : \E v : \E k \in Search(b)!Segments :
         x = <<v, k, searchQ.segments[v][k]>>
  <2> TAKE x \in Search(b)!LexicalHits
  <2>1. PICK v \in searchQ.ready : x \in Search(b)!Hits(v, searchQ.segments[v])
    BY DEF Search!LexicalHits
  <2> QED BY <2>1 DEF Search!Hits
<1>4. Search(b)!Segments \cap Search(b)!Files = {}
  BY DEF Search!Segments, Search!Files
<1>5. SearchExact(b, searchQ')
  BY <1>1, <1>3, <1>4 DEF SearchExact, SearchFresh
<1> QED BY <1>1, <1>2, <1>5 DEF SearchSound, SearchText, SearchFiles

LEMMA SearchTextFails ==
    ASSUME NEW b \in SearchBounds, SearchInv(b), searchQ.at \in {"validate", "compare"},
           Search(b)!TextFails
    PROVE  SearchSound(b, searchQ')
<1>1. CASE searchQ.strict
  BY <1>1, SearchRefuses DEF Search!TextFails
<1>2. CASE ~ searchQ.strict
  <2>1. DOMAIN searchQ = SearchFields /\ SearchFresh(searchQ)
    BY DEF SearchInv, SearchSound, SearchText
  <2>2. searchQ' = [searchQ EXCEPT !.at = "visual", !.bind = Search(b)!NoGens,
          !.whole = TRUE,
                        !.again = Search(b)!NoGens, !.found = Search(b)!LexicalHits]
    BY <1>2 DEF Search!TextFails
  <2>3. /\ DOMAIN searchQ' = SearchFields /\ searchQ'.at = "visual"
        /\ searchQ'.found = Search(b)!LexicalHits /\ searchQ'.loaded = searchQ.loaded
        /\ searchQ'.jobs = searchQ.jobs /\ searchQ'.bound = searchQ.bound
        /\ searchQ'.segments = searchQ.segments /\ searchQ'.bind = Search(b)!NoGens
        /\ searchQ'.meant = searchQ.meant /\ searchQ'.ready = searchQ.ready
    BY <2>1, <2>2 DEF SearchFields
  <2>4. SearchBinds(searchQ')
    BY <2>3 DEF SearchBinds, Search!NoGens
  <2>5. SearchMeans(b, searchQ')
    BY <2>1, <2>3 DEF SearchMeans, SearchFresh
  <2> QED BY <2>3, <2>4, <2>5, SearchFinds
<1> QED BY <1>1, <1>2

\* What the store returned counts for what its vectors stand for, if the bindings are
\* still those of the beginning.
LEMMA SearchCompares ==
    ASSUME NEW b \in SearchBounds, SearchInv(b), Search(b)!Compare
    PROVE  SearchSound(b, searchQ')
<1>1. searchQ.at = "compare"
  BY DEF Search!Compare
<1>2. CASE Search(b)!Confirmed(searchQ.again) # searchQ.bind
  BY <1>1, <1>2, SearchTextFails DEF Search!Compare
<1>3. CASE Search(b)!Confirmed(searchQ.again) = searchQ.bind
  <2>1. DOMAIN searchQ = SearchFields /\ SearchFresh(searchQ) /\ SearchBinds(searchQ)
    BY <1>1 DEF SearchInv, SearchSound, SearchText
  <2>2. searchQ' = [searchQ EXCEPT !.at = "visual", !.again = Search(b)!NoGens,
                        !.found = Search(b)!LexicalHits,
                          !.meant = Search(b)!SemanticHits]
    BY <1>3 DEF Search!Compare
  <2>3. /\ DOMAIN searchQ' = SearchFields /\ searchQ'.at = "visual"
        /\ searchQ'.found = Search(b)!LexicalHits /\ searchQ'.loaded = searchQ.loaded
        /\ searchQ'.jobs = searchQ.jobs /\ searchQ'.bound = searchQ.bound
        /\ searchQ'.segments = searchQ.segments /\ searchQ'.bind = searchQ.bind
        /\ searchQ'.meant = Search(b)!SemanticHits /\ searchQ'.ready = searchQ.ready
    BY <2>1, <2>2 DEF SearchFields
  <2>4. SearchBinds(searchQ')
    BY <2>1, <2>3 DEF SearchBinds
  <2>5. SearchMeans(b, searchQ')
    <3> SUFFICES ASSUME NEW v \in Videos, NEW g \in Search(b)!Gens,
                        NEW k \in Search(b)!Segments,
                          <<v, k, g>> \in Search(b)!SemanticHits
                 PROVE  /\ <<v, k, g>> \in Search(b)!LexicalHits
                        /\ searchQ.bind[v] # 0
                        /\ g = searchInputs[v][searchQ.bind[v]][k]
      BY <2>3 DEF SearchMeans
    <3>1. PICK u \in Search(b)!Bound :
             <<v, k, g>> \in Search(b)!Meant(u) \cap Search(b)!Hits(u,
               searchQ.segments[u])
      BY DEF Search!SemanticHits
    <3>2. u = v /\ g = searchInputs[v][searchQ.bind[v]][k] /\ searchQ.bind[v] # 0
      BY <3>1 DEF Search!Meant, Search!Bound
    <3>3. v \in searchQ.ready
      BY <2>1, <3>2 DEF SearchBinds
    <3> QED BY <3>1, <3>2, <3>3 DEF Search!LexicalHits
  <2> QED BY <1>1, <2>3, <2>4, <2>5, SearchFinds
<1> QED BY <1>2, <1>3

\* The steps of a search up to the text: each reads one thing and goes on.
LEMMA SearchBegins ==
    ASSUME NEW b \in SearchBounds, SearchInv(b),
           \/ \E plan \in Plans, strict \in BOOLEAN : Search(b)!Ask(plan, strict)
           \/ Search(b)!Precheck \/ Search(b)!List \/ Search(b)!Snapshot
    PROVE  SearchSound(b, searchQ')
<1>1. DOMAIN searchQ = SearchFields /\ searchQ.ready \subseteq Videos
  BY DEF SearchInv, SearchSound
<1>2. ASSUME NEW plan \in Plans, NEW strict \in BOOLEAN, Search(b)!Ask(plan, strict)
      PROVE  SearchSound(b, searchQ')
  <2>1. /\ DOMAIN searchQ' = SearchFields /\ searchQ'.at \in {"precheck", "list"}
        /\ searchQ'.ready = {} /\ SearchFresh(searchQ')
    BY <1>2 DEF Search!Ask, Search!Idle, SearchFields, SearchFresh
  <2> QED BY <2>1 DEF SearchSound, SearchText, SearchFiles
<1>3. CASE Search(b)!Precheck
  <2>1. CASE searchQ' = [searchQ EXCEPT !.at = "list"]
    <3>1. SearchFresh(searchQ)
      BY <1>3 DEF Search!Precheck, SearchInv, SearchSound
    <3>2. /\ DOMAIN searchQ' = SearchFields /\ searchQ'.at = "list"
          /\ SearchFresh(searchQ')
          /\ searchQ'.ready = searchQ.ready
      BY <1>1, <2>1, <3>1 DEF SearchFields, SearchFresh
    <3> QED BY <1>1, <3>2 DEF SearchSound, SearchText, SearchFiles
  <2> QED BY <1>3, <2>1, SearchRefuses DEF Search!Precheck
<1>4. CASE Search(b)!List
  <2>1. SearchFresh(searchQ)
    BY <1>4 DEF Search!List, SearchInv, SearchSound
  <2>2. /\ DOMAIN searchQ' = SearchFields /\ searchQ'.at = "snapshot"
        /\ SearchFresh(searchQ')
        /\ searchQ'.ready \subseteq Videos
    BY <1>1, <1>4, <2>1 DEF Search!List, Search!Ready, SearchFields, SearchFresh
  <2> QED BY <2>2 DEF SearchSound, SearchText, SearchFiles
<1>5. CASE Search(b)!Snapshot
  <2> DEFINE durable == searchQ.ready \cap searchJobs
             bound == [v \in Videos |-> IF v \in durable THEN Search(b)!Release(v)
                                        ELSE Search(b)!NoBinding[v]]
  <2>1. CASE searchQ' = [searchQ EXCEPT !.at = "speech", !.jobs = durable,
          !.bound = bound]
    <3>1. SearchFresh(searchQ)
      BY <1>5 DEF Search!Snapshot, SearchInv, SearchSound
    <3>2. /\ DOMAIN searchQ' = SearchFields /\ searchQ'.at = "speech"
          /\ searchQ'.jobs = durable /\ searchQ'.bound = bound /\ SearchFresh(searchQ')
          /\ searchQ'.ready = searchQ.ready
      BY <1>1, <2>1, <3>1 DEF SearchFields, SearchFresh
    <3>3. \A v \in durable, f \in Search(b)!Files : bound[v][f] = searchActive[v][f]
      BY <1>1 DEF Search!Release
    <3> HIDE DEF durable, bound
    <3>4. SearchReleased(b, searchQ')
      BY <3>2, <3>3 DEF SearchReleased, SearchInv, SearchCatalogInv
    <3> QED BY <1>1, <3>2, <3>4 DEF SearchSound, SearchText, SearchFiles
  <2> QED BY <1>5, <2>1, SearchRefuses DEF Search!Snapshot
<1> QED BY <1>2, <1>3, <1>4, <1>5

\* The steps of the text before its end keep what is bound and find nothing yet.
LEMMA SearchListens ==
    ASSUME NEW b \in SearchBounds, SearchInv(b), searchQ.at \in SearchText,
           DOMAIN searchQ' = SearchFields, searchQ'.at \in SearchText,
           searchQ'.ready = searchQ.ready, searchQ'.jobs = searchQ.jobs,
           searchQ'.bound = searchQ.bound, searchQ'.loaded = searchQ.loaded,
           searchQ'.found = searchQ.found, searchQ'.meant = searchQ.meant,
           searchQ'.at \in {"speech", "ocr", "bind"} \/ SearchBinds(searchQ')
    PROVE  SearchSound(b, searchQ')
<1>1. /\ SearchReleased(b, searchQ) /\ SearchFresh(searchQ)
      /\ searchQ.ready \subseteq Videos
  BY DEF SearchInv, SearchSound, SearchText
<1>2. SearchReleased(b, searchQ') /\ SearchFresh(searchQ')
  BY <1>1 DEF SearchReleased, SearchFresh
<1> QED BY <1>1, <1>2 DEF SearchSound, SearchText, SearchFiles

LEMMA SearchTexts ==
    ASSUME NEW b \in SearchBounds, SearchInv(b),
           \/ \E k \in Search(b)!Segments : Search(b)!ReadSegments(k)
           \/ Search(b)!Bind \/ Search(b)!Inputs \/ Search(b)!Validate
           \/ Search(b)!Query \/ Search(b)!Rebind
    PROVE  SearchSound(b, searchQ')
<1>1. DOMAIN searchQ = SearchFields /\ searchQ.ready \subseteq Videos
  BY DEF SearchInv, SearchSound
<1>2. searchQ.at \in SearchText \ {"speech", "ocr", "bind"} => SearchBinds(searchQ)
  BY DEF SearchInv, SearchSound
<1>3. ASSUME NEW k \in Search(b)!Segments, Search(b)!ReadSegments(k)
      PROVE  SearchSound(b, searchQ')
  <2>1. CASE Search(b)!Refuse("text")
    BY <2>1, SearchRefuses
  <2>2. ASSUME NEW read,
               searchQ' = [searchQ EXCEPT !.at = IF k = "speech" THEN "ocr" ELSE "bind",
                              !.segments = [v \in Videos |-> [@[v] EXCEPT ![k] = read[v]]]]
        PROVE  SearchSound(b, searchQ')
    <3>1. searchQ.at \in SearchText
      BY <1>3 DEF Search!ReadSegments, Search!Segments, SearchText
    <3>2. /\ DOMAIN searchQ' = SearchFields /\ searchQ'.at \in {"ocr", "bind"}
          /\ searchQ'.ready = searchQ.ready /\ searchQ'.jobs = searchQ.jobs
          /\ searchQ'.bound = searchQ.bound /\ searchQ'.loaded = searchQ.loaded
          /\ searchQ'.found = searchQ.found /\ searchQ'.meant = searchQ.meant
      BY <1>1, <2>2 DEF SearchFields
    <3>3. searchQ'.at \in SearchText /\ searchQ'.at \in {"speech", "ocr", "bind"}
      BY <3>2 DEF SearchText
    <3> QED BY <3>1, <3>2, <3>3, SearchListens
  <2> QED BY <1>3, <2>1, <2>2 DEF Search!ReadSegments
<1>4. ASSUME Search(b)!Bind PROVE SearchSound(b, searchQ')
  <2>1. PICK read \in {Search(b)!Pointers, Search(b)!NoGens} :
           searchQ' = [searchQ EXCEPT !.at = "inputs", !.bind = read]
    BY <1>4 DEF Search!Bind
  <2>2. /\ DOMAIN searchQ' = SearchFields /\ searchQ'.at = "inputs"
        /\ searchQ'.ready = searchQ.ready /\ searchQ'.jobs = searchQ.jobs
        /\ searchQ'.bound = searchQ.bound /\ searchQ'.loaded = searchQ.loaded
        /\ searchQ'.found = searchQ.found /\ searchQ'.meant = searchQ.meant
        /\ searchQ'.bind = read
    BY <1>1, <2>1 DEF SearchFields
  <2>3. \A v \in Videos : read[v] # 0 =>
           v \in searchQ.ready /\ read[v] = searchActive[v]["text"]
    BY <2>1 DEF Search!Pointers, Search!NoGens
  <2>4. SearchBinds(searchQ')
    BY <2>2, <2>3 DEF SearchBinds, SearchInv, SearchCatalogInv
  <2>5. searchQ.at \in SearchText /\ searchQ'.at \in SearchText
    BY <1>4, <2>2 DEF Search!Bind, SearchText
  <2> QED BY <2>2, <2>4, <2>5, SearchListens
<1>5. ASSUME Search(b)!Inputs PROVE SearchSound(b, searchQ')
  <2> DEFINE bound == Search(b)!Confirmed(searchQ.bind)
  <2>1. CASE Search(b)!Refuse("text")
    BY <2>1, SearchRefuses
  <2>2. CASE searchQ' = [searchQ EXCEPT !.at = "validate", !.bind = bound]
    <3>1. /\ DOMAIN searchQ' = SearchFields /\ searchQ'.at = "validate"
          /\ searchQ'.ready = searchQ.ready /\ searchQ'.jobs = searchQ.jobs
          /\ searchQ'.bound = searchQ.bound /\ searchQ'.loaded = searchQ.loaded
          /\ searchQ'.found = searchQ.found /\ searchQ'.meant = searchQ.meant
          /\ searchQ'.bind = bound
      BY <1>1, <2>2 DEF SearchFields
    <3>2. \A v \in Videos : bound[v] \in {0, searchQ.bind[v]}
      BY DEF Search!Confirmed
    <3>3. searchQ.at = "inputs" /\ searchQ.at \in SearchText
            /\ searchQ'.at \in SearchText
      BY <1>5, <3>1 DEF Search!Inputs, SearchText
    <3>4. SearchBinds(searchQ')
      BY <1>2, <3>1, <3>2, <3>3 DEF SearchBinds
    <3> QED BY <3>1, <3>3, <3>4, SearchListens
  <2> QED BY <1>5, <2>1, <2>2 DEF Search!Inputs
<1>6. ASSUME NEW at \in {"query", "rebind", "compare"}, SearchBinds(searchQ),
             searchQ.at \in SearchText, DOMAIN searchQ' = SearchFields,
               searchQ'.at = at,
             \A x \in SearchFields \ {"at", "whole", "again"} : searchQ'[x] = searchQ[x]
      PROVE  SearchSound(b, searchQ')
  <2>1. /\ searchQ'.ready = searchQ.ready /\ searchQ'.jobs = searchQ.jobs
        /\ searchQ'.bound = searchQ.bound /\ searchQ'.loaded = searchQ.loaded
        /\ searchQ'.found = searchQ.found /\ searchQ'.meant = searchQ.meant
        /\ searchQ'.bind = searchQ.bind
    BY <1>6 DEF SearchFields
  <2>2. SearchBinds(searchQ') /\ searchQ'.at \in SearchText
    BY <1>6, <2>1 DEF SearchBinds, SearchText
  <2> QED BY <1>6, <2>1, <2>2, SearchListens
<1>7. ASSUME Search(b)!Validate PROVE SearchSound(b, searchQ')
  <2>1. CASE Search(b)!TextFails
    BY <1>7, <2>1, SearchTextFails DEF Search!Validate
  <2>2. CASE searchQ' = [searchQ EXCEPT !.at = "query"]
    <3>1. searchQ.at \in SearchText /\ SearchBinds(searchQ)
      BY <1>2, <1>7 DEF Search!Validate, SearchText
    <3>2. /\ DOMAIN searchQ' = SearchFields /\ searchQ'.at = "query"
          /\ \A x \in SearchFields \ {"at", "whole", "again"} : searchQ'[x] = searchQ[x]
      BY <1>1, <2>2 DEF SearchFields
    <3> QED BY <1>6, <3>1, <3>2
  <2> QED BY <1>7, <2>1, <2>2 DEF Search!Validate
<1>8. ASSUME Search(b)!Query \/ Search(b)!Rebind PROVE SearchSound(b, searchQ')
  <2>1. searchQ.at \in SearchText /\ SearchBinds(searchQ)
    BY <1>2, <1>8 DEF Search!Query, Search!Rebind, SearchText
  <2>2. PICK at \in {"rebind", "compare"} :
           /\ DOMAIN searchQ' = SearchFields /\ searchQ'.at = at
           /\ \A x \in SearchFields \ {"at", "whole",
                "again"} : searchQ'[x] = searchQ[x]
    BY <1>1, <1>8 DEF Search!Query, Search!Rebind, SearchFields
  <2> QED BY <1>6, <2>1, <2>2
<1> QED BY <1>3, <1>4, <1>5, <1>7, <1>8

\* Videos with jobs are searched in the generations that are bound, and what was
\* loaded counts once the search is over.
LEMMA SearchLoads ==
    ASSUME NEW b \in SearchBounds, SearchInv(b), NEW f \in Search(b)!Files,
           Search(b)!Skip(f) \/ Search(b)!Load(f) \/ Search(b)!Finish(f)
    PROVE  SearchSound(b, searchQ')
<1> USE DEF SearchFiles
<1>1. DOMAIN searchQ = SearchFields /\ searchQ.ready \subseteq Videos
  BY DEF SearchInv, SearchSound
<1>2. searchQ.at \in SearchFiles /\ Search(b)!After(f) \in SearchFiles
  BY DEF Search!Skip, Search!Load, Search!Finish, Search!After, Search!Files
<1>3. /\ SearchReleased(b, searchQ) /\ SearchBinds(searchQ)
      /\ SearchExact(b, searchQ) /\ SearchMeans(b, searchQ)
  BY <1>2 DEF SearchInv, SearchSound
<1>4. f \notin Search(b)!Segments
  BY DEF Search!Segments, Search!Files
<1>5. CASE Search(b)!Skip(f)
  BY <1>2, <1>5, SearchSkips DEF Search!Skip
<1>6. CASE Search(b)!Load(f)
  <2> DEFINE loaded == Search(b)!Exact(f) \cup Search(b)!LegacyLoad(f)
  <2>1. CASE searchQ' = [searchQ EXCEPT
                !.at = IF f = "visual" THEN "visual-end"
                  ELSE "moment-end", !.loaded = loaded]
    <3>1. /\ DOMAIN searchQ' = SearchFields /\ searchQ'.at \in SearchFiles
          /\ searchQ'.ready = searchQ.ready /\ searchQ'.jobs = searchQ.jobs
          /\ searchQ'.bound = searchQ.bound /\ searchQ'.segments = searchQ.segments
          /\ searchQ'.found = searchQ.found /\ searchQ'.meant = searchQ.meant
          /\ searchQ'.bind = searchQ.bind /\ searchQ'.loaded = loaded
      BY <1>1, <2>1 DEF SearchFields
    <3>2. \A x \in loaded : \E v : \E g :
             /\ x = <<v, f, g>>
             /\ v \in searchQ.jobs => g = searchQ.bound[v][f]
      BY DEF Search!Exact, Search!LegacyLoad, Search!Legacy
    <3> HIDE DEF loaded
    <3>3. SearchExact(b, searchQ')
      BY <1>3, <1>4, <3>1, <3>2 DEF SearchExact
    <3>4. SearchReleased(b, searchQ') /\ SearchBinds(searchQ')
            /\ SearchMeans(b, searchQ')
      BY <1>3, <3>1 DEF SearchReleased, SearchBinds, SearchMeans
    <3> QED BY <1>1, <3>1, <3>3, <3>4 DEF SearchSound, SearchText
  <2> QED BY <1>2, <1>6, <2>1, SearchRefuses, SearchFilesFail DEF Search!Load
<1>7. CASE Search(b)!Finish(f)
  <2>1. CASE searchQ' = [searchQ EXCEPT !.at = Search(b)!After(f),
                            !.found = @ \cup searchQ.loaded, !.loaded = {}]
    <3>1. /\ DOMAIN searchQ' = SearchFields /\ searchQ'.at = Search(b)!After(f)
          /\ searchQ'.ready = searchQ.ready /\ searchQ'.jobs = searchQ.jobs
          /\ searchQ'.bound = searchQ.bound /\ searchQ'.segments = searchQ.segments
          /\ searchQ'.found = searchQ.found \cup searchQ.loaded
          /\ searchQ'.meant = searchQ.meant
          /\ searchQ'.bind = searchQ.bind /\ searchQ'.loaded = {}
      BY <1>1, <2>1 DEF SearchFields
    <3>2. SearchExact(b, searchQ')
      BY <1>3, <3>1 DEF SearchExact
    <3>3. SearchReleased(b, searchQ') /\ SearchBinds(searchQ')
            /\ SearchMeans(b, searchQ')
      BY <1>3, <3>1 DEF SearchReleased, SearchBinds, SearchMeans
    <3> QED BY <1>1, <1>2, <3>1, <3>2, <3>3 DEF SearchSound, SearchText
  <2> QED BY <1>2, <1>7, <2>1, SearchFilesFail DEF Search!Finish
<1> QED BY <1>5, <1>6, <1>7

\* What is known of the search is about the history and the inputs only.
LEMMA SearchAbides ==
    ASSUME NEW b \in SearchBounds, SearchCatalogInv(b), SearchSound(b, searchQ'),
           UNCHANGED <<searchActive, searchInputs, searchLast, searchPast>>
    PROVE  SearchInv(b)'
<1>1. SearchCatalogInv(b)'
  BY DEF SearchCatalogInv
<1>2. SearchSound(b, searchQ)'
  BY DEF SearchSound, SearchReleased, SearchBinds, SearchMeans, SearchExact, SearchFresh
<1> QED BY <1>1, <1>2 DEF SearchInv

LEMMA SearchKeeps ==
    ASSUME NEW b \in SearchBounds, Search(b)!CatalogAssumption, SearchInv(b),
           [Search(b)!Next]_(Search(b)!vars)
    PROVE  SearchInv(b)'
<1> USE DEF Search!vars, Search!catalog
<1>1. CASE UNCHANGED Search(b)!vars
  BY <1>1, SearchAbides DEF SearchInv
<1>2. CASE Search(b)!Search
  <2>1. UNCHANGED <<searchActive, searchInputs, searchLast, searchPast>>
    BY <1>2 DEF Search!Search, Search!Ask, Search!Precheck, Search!List,
       Search!Snapshot,
       Search!ReadSegments, Search!Bind, Search!Inputs, Search!Validate, Search!Query,
       Search!Rebind, Search!Compare, Search!Skip, Search!Load, Search!Finish
  <2>2. SearchSound(b, searchQ')
    BY <1>2, SearchBegins, SearchTexts, SearchCompares, SearchLoads DEF Search!Search
  <2> QED BY <2>1, <2>2, SearchAbides DEF SearchInv
<1>3. CASE Search(b)!Restart
  <2>1. SearchSound(b, searchQ')
    BY <1>3 DEF Search!Restart, Search!Idle, SearchSound, SearchFields, SearchText,
       SearchFiles
  <2> QED BY <1>3, <2>1, SearchAbides DEF SearchInv, Search!Restart
<1>4. CASE Search(b)!Others /\ UNCHANGED searchQ
  BY <1>4, SearchOthers, SearchWaits DEF SearchInv
<1> QED BY <1>1, <1>2, <1>3, <1>4 DEF Search!Next

LEMMA SearchStart ==
    ASSUME NEW b \in SearchBounds, Search(b)!CatalogAssumption, Search(b)!Init
    PROVE  SearchInv(b)
<1> USE DEF Search!Init, Search!CatalogInit
<1>1. {0, 1} \subseteq Search(b)!Gens /\ Search(b)!Old = 1
  BY DEF Search!Gens, Search!Old, Search!CatalogAssumption
<1>2. /\ "text" \in Search(b)!Kinds /\ Search(b)!Segments \subseteq Search(b)!Kinds
      /\ Search(b)!Segments \cap Search(b)!Files = {} /\ "text" \notin Search(b)!Files
  BY DEF Search!Kinds, Search!Segments, Search!Files
<1>3. /\ searchActive \in [Videos -> [Search(b)!Kinds -> Search(b)!Gens]]
      /\ searchInputs \in [Videos -> [Search(b)!Gens -> [Search(b)!Segments -> Search(b)!Gens]]]
  BY <1>1
<1>4. \A v \in Videos : \A k \in Search(b)!Kinds :
         /\ searchActive[v][k] \in {0, 1}
         /\ k \notin Search(b)!Files => searchActive[v][k] = searchActive[v]["text"]
  BY <1>1, <1>2
<1>5. \A v \in Videos, k \in Search(b)!Segments : searchInputs[v][1][k] = 1
  BY <1>1
<1>6. SearchCatalogInv(b)
  <2>1. ASSUME NEW v \in Videos, searchActive[v]["text"] # 0,
                 NEW k \in Search(b)!Segments
        PROVE  searchInputs[v][searchActive[v]["text"]][k] = searchActive[v][k]
    <3>1. searchActive[v]["text"] = 1 /\ searchActive[v][k] = 1
      BY <1>2, <1>4, <2>1
    <3> QED BY <1>5, <3>1
  <2>2. \A v \in Videos : \A k \in Search(b)!Kinds : searchActive[v][k] <= searchLast
    BY <1>1, <1>4
  <2>3. searchPast = {searchActive} /\ searchLast \in Search(b)!Gens
    BY <1>1
  <2> HIDE DEF Search!Init, Search!CatalogInit
  <2> QED BY <1>3, <2>1, <2>2, <2>3 DEF SearchCatalogInv
<1>7. SearchSound(b, searchQ)
  BY DEF Search!Idle, SearchSound, SearchFields, SearchText, SearchFiles
<1> QED BY <1>6, <1>7 DEF SearchInv

\* So an answer is of one release.
LEMMA SearchAnswers ==
    ASSUME NEW b \in SearchBounds, SearchInv(b)
    PROVE  Search(b)!MeaningIsOfOneRelease /\ Search(b)!ExternalEvidenceIsOneRelease
<1> SUFFICES ASSUME Search(b)!Answered
             PROVE  Search(b)!MeaningIsOfOneRelease
                      /\ Search(b)!ExternalEvidenceIsOneRelease
  BY DEF Search!MeaningIsOfOneRelease, Search!ExternalEvidenceIsOneRelease
<1>1. /\ SearchReleased(b, searchQ) /\ SearchBinds(searchQ)
      /\ SearchExact(b, searchQ) /\ SearchMeans(b, searchQ)
      /\ searchQ.ready \subseteq Videos
  BY DEF SearchInv, SearchSound, SearchFiles, Search!Answered
<1>2. Search(b)!ExternalEvidenceIsOneRelease
  <2>1. PICK a \in searchPast :
           \A v \in searchQ.jobs, f \in Search(b)!Files : searchQ.bound[v][f] = a[v][f]
    BY <1>1 DEF SearchReleased
  <2>2. \A v \in searchQ.jobs,
          f \in Search(b)!Files : Search(b)!Found(v, f) \subseteq {a[v][f]}
    BY <1>1, <2>1 DEF SearchExact, Search!Found
  <2> QED BY <2>2 DEF Search!ExternalEvidenceIsOneRelease
<1>3. ASSUME NEW v \in searchQ.ready
      PROVE  \E a \in searchPast : \A k \in Search(b)!Segments, g \in Search(b)!Gens :
                <<v, k, g>> \in searchQ.meant =>
                  /\ a[v]["text"] = searchQ.bind[v] /\ a[v][k] = g
                  /\ Search(b)!Found(v, k) = {g}
  <2>1. CASE searchQ.bind[v] = 0
    BY <1>1, <2>1 DEF SearchMeans, SearchInv, SearchCatalogInv
  <2>2. CASE searchQ.bind[v] # 0
    <3>1. PICK a \in searchPast : a[v]["text"] = searchQ.bind[v]
      BY <1>1, <2>2 DEF SearchBinds
    <3>2. \A k \in Search(b)!Segments : searchInputs[v][searchQ.bind[v]][k] = a[v][k]
      BY <1>1, <2>2, <3>1 DEF SearchInv, SearchCatalogInv
    <3>3. ASSUME NEW k \in Search(b)!Segments, NEW g \in Search(b)!Gens,
                 <<v, k, g>> \in searchQ.meant
          PROVE  a[v][k] = g /\ Search(b)!Found(v, k) = {g}
      <4>1. <<v, k, g>> \in searchQ.found /\ g = searchInputs[v][searchQ.bind[v]][k]
        BY <1>1, <3>3 DEF SearchMeans
      <4>2. \A h \in Search(b)!Gens : <<v, k, h>> \in searchQ.found => h = g
        BY <1>1, <4>1 DEF SearchExact
      <4> QED BY <3>2, <4>1, <4>2 DEF Search!Found
    <3> QED BY <3>1, <3>3
  <2> QED BY <2>1, <2>2
<1> QED BY <1>2, <1>3 DEF Search!MeaningIsOfOneRelease

(***************************************************************************)
(* A pinned session and the certification of its answers.                  *)
(***************************************************************************)

\* Generations are numbered as they are published.
PinnedCatalogInv ==
    /\ pinnedLast \in Nat /\ pinnedLast >= 1
    /\ pinnedActive \in [Videos -> [Pinned!Kinds -> Pinned!Gens]]
    /\ pinnedInputs \in [Videos -> [Pinned!Gens -> [Pinned!Segments -> Pinned!Gens]]]
    /\ pinnedPointer \in [Videos -> [Pinned!Files -> {0, 1}]]
    /\ \A v \in Videos, k \in Pinned!Kinds : pinnedActive[v][k] <= pinnedLast
    /\ \A v \in Videos, g \in Pinned!Gens, k \in Pinned!Segments :
          pinnedInputs[v][g][k] <= pinnedLast

\* What goes away does not come back: an active generation is replaced by a later one,
\* or by none in the case of vectors.
PinnedGrows ==
    /\ pinnedLast <= pinnedLast'
    /\ pinnedJobs \subseteq pinnedJobs' /\ pinnedBroken \subseteq pinnedBroken'
    /\ pinnedPointer' = pinnedPointer
    /\ \A v \in Videos, k \in Pinned!Kinds :
          \/ pinnedActive'[v][k] = pinnedActive[v][k]
          \/ pinnedActive'[v][k] > pinnedLast
          \/ k = "text" /\ pinnedActive'[v][k] = 0

LEMMA PinnedSets ==
    ASSUME Pinned!CatalogAssumption
    PROVE  /\ Pinned!Gens \subseteq Nat /\ 0 \in Pinned!Gens /\ 1 \in Pinned!Gens
           /\ "text" \in Pinned!Kinds /\ "text" \notin Pinned!Segments
           /\ Pinned!Segments \subseteq Pinned!Kinds
           /\ Pinned!Files \subseteq Pinned!Kinds
           /\ "text" \notin Pinned!Files /\ "media" \notin Pinned!Files
BY DEF Pinned!Gens, Pinned!CatalogAssumption, Pinned!Old, Pinned!Kinds, Pinned!Segments,
       Pinned!Files

LEMMA PinnedPublishes ==
    ASSUME Pinned!CatalogAssumption, PinnedCatalogInv,
           NEW v \in Videos, NEW fresh \in PinnedOutcomes, Pinned!Publish(v, fresh)
    PROVE  PinnedCatalogInv' /\ PinnedGrows
<1> DEFINE Gens == Pinned!Gens
           Kinds == Pinned!Kinds
           Segments == Pinned!Segments
           now == [k \in Kinds |-> IF k \in fresh THEN pinnedLast + 1
                                   ELSE IF k = "text" THEN Pinned!Kept(v, fresh)
                                   ELSE pinnedActive[v][k]]
           new == Pinned!NewSegments(v, fresh)
<1>1. /\ pinnedLast + 1 \in Gens /\ pinnedLast' = pinnedLast + 1
      /\ pinnedActive' = [pinnedActive EXCEPT ![v] = now]
      /\ pinnedInputs' = IF "text" \in fresh
                         THEN [pinnedInputs EXCEPT ![v][pinnedLast + 1] = new]
                           ELSE pinnedInputs
      /\ UNCHANGED <<pinnedJobs, pinnedPointer, pinnedBroken>>
  BY DEF Pinned!Publish
<1>2. /\ Gens \subseteq Nat /\ 0 \in Gens /\ "text" \in Kinds /\ "text" \notin Segments
      /\ Segments \subseteq Kinds
  BY PinnedSets
<1>3. /\ pinnedActive \in [Videos -> [Kinds -> Gens]] /\ pinnedLast \in Nat
      /\ pinnedInputs \in [Videos -> [Gens -> [Segments -> Gens]]]
      /\ \A u \in Videos, k \in Kinds : pinnedActive[u][k] <= pinnedLast
      /\ \A u \in Videos, g \in Gens,
           k \in Segments : pinnedInputs[u][g][k] <= pinnedLast
  BY DEF PinnedCatalogInv
<1>4. /\ new \in [Segments -> Gens]
      /\ \A k \in Segments : new[k] \in {pinnedLast + 1, pinnedActive[v][k]}
  BY <1>1, <1>2, <1>3 DEF Pinned!NewSegments
<1>5. Pinned!Kept(v, fresh) \in {0, pinnedActive[v]["text"]}
  BY DEF Pinned!Kept
<1>6. /\ now \in [Kinds -> Gens]
      /\ \A k \in Kinds : \/ now[k] = pinnedLast + 1 \/ now[k] = pinnedActive[v][k]
                          \/ k = "text" /\ now[k] = 0
  BY <1>1, <1>2, <1>3, <1>5
<1> HIDE DEF now, new, Gens, Kinds, Segments
<1>7. /\ pinnedActive' \in [Videos -> [Kinds -> Gens]] /\ pinnedActive'[v] = now
      /\ \A u \in Videos \ {v} : pinnedActive'[u] = pinnedActive[u]
  BY <1>1, <1>3, <1>6
<1>8. pinnedInputs' \in [Videos -> [Gens -> [Segments -> Gens]]]
  BY <1>1, <1>3, <1>4
<1>9. ASSUME NEW u \in Videos, NEW k \in Kinds
      PROVE  /\ pinnedActive'[u][k] <= pinnedLast'
             /\ \/ pinnedActive'[u][k] = pinnedActive[u][k]
                \/ pinnedActive'[u][k] > pinnedLast
                \/ k = "text" /\ pinnedActive'[u][k] = 0
  <2>1. pinnedActive[u][k] \in Nat /\ pinnedActive[u][k] <= pinnedLast
    BY <1>2, <1>3
  <2>2. CASE u = v
    BY <1>1, <1>3, <1>6, <1>7, <2>1, <2>2
  <2>3. CASE u # v
    BY <1>1, <1>3, <1>7, <2>1, <2>3
  <2> QED BY <2>2, <2>3
<1>10. ASSUME NEW u \in Videos, NEW g \in Gens, NEW k \in Segments
       PROVE  pinnedInputs'[u][g][k] <= pinnedLast'
  <2>1. pinnedInputs[u][g][k] \in Nat /\ pinnedInputs[u][g][k] <= pinnedLast
    <3>1. pinnedInputs[u][g] \in [Segments -> Gens]
      BY <1>3
    <3> QED BY <1>2, <1>3, <3>1
  <2>2. new[k] \in Nat /\ new[k] <= pinnedLast + 1
    <3>1. pinnedActive[v][k] \in Nat /\ pinnedActive[v][k] <= pinnedLast
      BY <1>2, <1>3
    <3>2. pinnedActive[v][k] <= pinnedLast + 1 /\ pinnedLast + 1 \in Nat
      BY <1>3, <3>1
    <3>3. new[k] = pinnedLast + 1 \/ new[k] = pinnedActive[v][k]
      BY <1>4
    <3> QED BY <3>1, <3>2, <3>3
  <2>3. pinnedInputs'[u][g][k] \in {pinnedInputs[u][g][k], new[k]}
    BY <1>1, <1>3
  <2> QED BY <1>1, <1>3, <2>1, <2>2, <2>3
<1>11. PinnedGrows
  BY <1>1, <1>3, <1>9 DEF PinnedGrows, Kinds
<1>12. pinnedPointer' \in [Videos -> [Pinned!Files -> {0, 1}]]
  BY <1>1 DEF PinnedCatalogInv
<1>13. pinnedLast' \in Nat /\ pinnedLast' >= 1
  BY <1>1, <1>3
<1>14. PinnedCatalogInv'
  BY <1>7, <1>8, <1>9, <1>10, <1>12, <1>13 DEF PinnedCatalogInv, Gens, Kinds, Segments
<1> QED BY <1>11, <1>14

LEMMA PinnedOthers ==
    ASSUME Pinned!CatalogAssumption, PinnedCatalogInv, Pinned!Others
    PROVE  PinnedCatalogInv' /\ PinnedGrows
<1>1. PICK v \in Videos :
        \/ Pinned!Enqueue(v) \/ Pinned!GiveUp(v)
        \/ \E fresh \in PinnedOutcomes : Pinned!Publish(v, fresh)
        \/ \E g \in Pinned!Gens : Pinned!Collect(v, g)
        \/ \E f \in Pinned!Files : Pinned!Break(v, f)
  BY DEF Pinned!Others
<1>2. CASE \E fresh \in PinnedOutcomes : Pinned!Publish(v, fresh)
  BY <1>2, PinnedPublishes
<1>3. ASSUME UNCHANGED <<pinnedActive, pinnedInputs, pinnedLast, pinnedPointer>>,
             pinnedJobs \subseteq pinnedJobs', pinnedBroken \subseteq pinnedBroken'
      PROVE  PinnedCatalogInv' /\ PinnedGrows
  BY <1>3 DEF PinnedCatalogInv, PinnedGrows
<1> QED
  BY <1>1, <1>2, <1>3 DEF Pinned!Enqueue, Pinned!GiveUp, Pinned!Collect, Pinned!Break

PinnedFields == {"at", "assets", "jobs", "seen", "pins", "ids", "todo", "bad"}
PinnedOpen == {"open", "before", "read", "after", "answered"}

PinnedWithin(p) ==
    /\ DOMAIN p = {"text", "segments", "files"}
    /\ p.text \in Nat /\ p.text <= pinnedLast
    /\ \A k \in Pinned!Segments : p.segments[k] \in Nat /\ p.segments[k] <= pinnedLast
    /\ \A f \in Pinned!Files : p.files[f] \in Nat /\ p.files[f] <= pinnedLast

\* Everything a session has pinned or seen was published by then.
PinnedShapes(r) ==
    /\ DOMAIN r = PinnedFields
    /\ r.assets \subseteq Videos /\ r.jobs \subseteq pinnedJobs
    /\ r.ids \subseteq r.assets
    /\ DOMAIN r.pins = Videos /\ \A v \in Videos : PinnedWithin(r.pins[v])
    /\ \A v \in Videos, f \in Pinned!Files :
          r.seen[v][f] \in Nat /\ r.seen[v][f] <= pinnedLast

PinnedComplete(p) == p.text # 0 /\ \A f \in Pinned!Files : p.files[f] # 0

\* Something that the pins p of v stand for has changed for good, with now
\* for the generations of its release.
PinnedGone(r, v, now) ==
    LET p == r.pins[v] IN
    \/ v \in pinnedMedia \/ <<v, "media", 0>> \in pinnedDecayed
    \/ pinnedActive[v]["text"] # p.text
    \/ \E k \in Pinned!Segments : pinnedActive[v][k] # p.segments[k]
    \/ v \notin r.jobs /\ v \in pinnedJobs
    \/ \E f \in Pinned!Files :
          \/ <<v, f, p.files[f]>> \in pinnedBroken \cup pinnedDecayed
          \/ v \notin r.jobs /\ pinnedPointer[v][f] # p.files[f]
          \/ v \in r.jobs /\ now[f] # p.files[f]

\* What is known of a session by where it is: a video that was answered for too late
\* is one whose comparison at the end is bound to fail.
PinnedSpoils(r, spoiled) ==
    /\ r.at \in {"pin", "attest"} => spoiled = {}
    /\ r.at \in {"before", "read", "after", "answered"} =>
          \A v \in r.ids : PinnedComplete(r.pins[v])
    /\ r.at \in PinnedOpen \cup {"closing", "verify"} =>
          \A v \in spoiled : v \in r.assets /\ PinnedComplete(r.pins[v])
    /\ r.at \in PinnedOpen =>
          \A v \in spoiled : PinnedGone(r, v, pinnedActive[v])
    /\ r.at = "closing" => \A v \in spoiled :
          r.bad \/ (v \in r.todo /\ PinnedGone(r, v, r.seen[v]))
    /\ r.at = "verify" /\ spoiled # {} => r.bad
    /\ r.at = "certified" => spoiled = {}

PinnedInv ==
    /\ PinnedCatalogInv
    /\ \A d \in pinnedDecayed : d[2] = "media" => d = <<d[1], "media", 0>>
    /\ PinnedShapes(pinnedS) /\ PinnedSpoils(pinnedS, pinnedSpoiled)

\* The shape and the bounds of a session stand while the catalogue grows.
LEMMA PinnedShapesStay ==
    ASSUME Pinned!CatalogAssumption, PinnedCatalogInv, PinnedCatalogInv', PinnedGrows,
           NEW r, PinnedShapes(r)
    PROVE  PinnedShapes(r)'
<1>1. \A n \in Nat : n <= pinnedLast => n <= pinnedLast'
  BY DEF PinnedCatalogInv, PinnedGrows
<1>2. pinnedJobs \subseteq pinnedJobs'
  BY DEF PinnedGrows
<1> HIDE DEF PinnedCatalogInv, PinnedGrows
<1>3. \A v \in Videos : PinnedWithin(r.pins[v])'
  BY <1>1 DEF PinnedShapes, PinnedWithin
<1> QED BY <1>1, <1>2, <1>3 DEF PinnedShapes

\* What is gone stays gone.
LEMMA PinnedStaysGone ==
    ASSUME Pinned!CatalogAssumption, PinnedCatalogInv, PinnedCatalogInv', PinnedGrows,
           pinnedMedia \subseteq pinnedMedia', pinnedDecayed \subseteq pinnedDecayed',
           NEW r, PinnedShapes(r), NEW v \in Videos, PinnedComplete(r.pins[v]),
             v \in r.assets
    PROVE  /\ PinnedGone(r, v, pinnedActive[v]) => PinnedGone(r, v, pinnedActive[v])'
           /\ PinnedGone(r, v, r.seen[v]) => PinnedGone(r, v, r.seen[v])'
<1> DEFINE p == r.pins[v]
<1>1. /\ p.text \in Nat /\ p.text <= pinnedLast /\ p.text # 0
      /\ \A k \in Pinned!Segments : p.segments[k] \in Nat /\ p.segments[k] <= pinnedLast
      /\ \A f \in Pinned!Files : p.files[f] \in Nat /\ p.files[f] <= pinnedLast
  BY DEF PinnedShapes, PinnedWithin, PinnedComplete
<1>2. ASSUME NEW k \in Pinned!Kinds, NEW n \in Nat, n <= pinnedLast,
             k # "text" \/ n # 0, pinnedActive[v][k] # n
      PROVE  pinnedActive'[v][k] # n
  <2>1. pinnedActive'[v][k] \in Nat
    BY PinnedSets DEF PinnedCatalogInv
  <2>2. \/ pinnedActive'[v][k] = pinnedActive[v][k] \/ pinnedActive'[v][k] > pinnedLast
        \/ k = "text" /\ pinnedActive'[v][k] = 0
    BY DEF PinnedGrows
  <2> QED BY <1>2, <2>1, <2>2 DEF PinnedCatalogInv
<1>3. pinnedActive[v]["text"] # p.text => pinnedActive'[v]["text"] # p.text
  BY <1>1, <1>2, PinnedSets
<1>4. \A k \in Pinned!Segments :
         pinnedActive[v][k] # p.segments[k] => pinnedActive'[v][k] # p.segments[k]
  BY <1>1, <1>2, PinnedSets
<1>5. \A f \in Pinned!Files :
         pinnedActive[v][f] # p.files[f] => pinnedActive'[v][f] # p.files[f]
  BY <1>1, <1>2, PinnedSets
<1>6. /\ pinnedJobs \subseteq pinnedJobs' /\ pinnedBroken \subseteq pinnedBroken'
      /\ pinnedPointer' = pinnedPointer
  BY DEF PinnedGrows
<1> QED BY <1>3, <1>4, <1>5, <1>6 DEF PinnedGone

\* A session is as sound as before when the catalogue, the media or files move.
LEMMA PinnedWaits ==
    ASSUME Pinned!CatalogAssumption, PinnedInv, PinnedCatalogInv', PinnedGrows,
           pinnedMedia \subseteq pinnedMedia', pinnedDecayed \subseteq pinnedDecayed',
           \A d \in pinnedDecayed' : d[2] = "media" => d = <<d[1], "media", 0>>,
           UNCHANGED <<pinnedS, pinnedSpoiled>>
    PROVE  PinnedInv'
<1> DEFINE r == pinnedS
<1>1. PinnedShapes(r) /\ PinnedSpoils(r, pinnedSpoiled) /\ PinnedCatalogInv
  BY DEF PinnedInv
<1>2. PinnedShapes(r)'
  BY <1>1, PinnedShapesStay
<1>3. ASSUME NEW v \in r.assets, PinnedComplete(r.pins[v])
      PROVE  /\ PinnedGone(r, v, pinnedActive[v]) => PinnedGone(r, v, pinnedActive[v])'
             /\ PinnedGone(r, v, r.seen[v]) => PinnedGone(r, v, r.seen[v])'
  <2>1. v \in Videos
    BY <1>1 DEF PinnedShapes
  <2> QED BY <1>1, <1>3, <2>1, PinnedStaysGone
<1>4. r.at \in PinnedOpen => \A v \in pinnedSpoiled : PinnedGone(r, v, pinnedActive[v])'
  <2> SUFFICES ASSUME r.at \in PinnedOpen, NEW v \in pinnedSpoiled
               PROVE  PinnedGone(r, v, pinnedActive[v])'
    OBVIOUS
  <2>1. PinnedGone(r, v, pinnedActive[v]) /\ v \in r.assets /\ PinnedComplete(r.pins[v])
    BY <1>1 DEF PinnedSpoils
  <2> QED BY <1>3, <2>1
<1>5. r.at = "closing" => \A v \in pinnedSpoiled :
         r.bad \/ (v \in r.todo /\ PinnedGone(r, v, r.seen[v])')
  <2> SUFFICES ASSUME r.at = "closing", NEW v \in pinnedSpoiled, ~ r.bad
               PROVE  v \in r.todo /\ PinnedGone(r, v, r.seen[v])'
    OBVIOUS
  <2>1. /\ v \in r.todo /\ PinnedGone(r, v, r.seen[v])
        /\ v \in r.assets /\ PinnedComplete(r.pins[v])
    BY <1>1 DEF PinnedSpoils
  <2> QED BY <1>3, <2>1
<1>6. PinnedSpoils(r, pinnedSpoiled)'
  <2>1. /\ r.at \in {"pin", "attest"} => pinnedSpoiled = {}
        /\ r.at \in {"before", "read", "after", "answered"} =>
              \A v \in r.ids : PinnedComplete(r.pins[v])
        /\ r.at \in PinnedOpen \cup {"closing", "verify"} =>
              \A v \in pinnedSpoiled : v \in r.assets /\ PinnedComplete(r.pins[v])
        /\ r.at = "verify" /\ pinnedSpoiled # {} => r.bad
        /\ r.at = "certified" => pinnedSpoiled = {}
    BY <1>1 DEF PinnedSpoils
  <2> QED BY <1>4, <1>5, <2>1 DEF PinnedSpoils, PinnedOpen, PinnedComplete
<1> QED BY <1>2, <1>6 DEF PinnedInv

\* A step of the session leaves what it is about as it was.
LEMMA PinnedAbides ==
    ASSUME PinnedInv, PinnedShapes(pinnedS'), PinnedSpoils(pinnedS', pinnedSpoiled'),
           UNCHANGED <<pinnedJobs, pinnedActive, pinnedInputs, pinnedPointer,
             pinnedBroken,
                       pinnedLast, pinnedMedia, pinnedDecayed>>
    PROVE  PinnedInv'
<1>1. PinnedCatalogInv'
  BY DEF PinnedInv, PinnedCatalogInv
<1>2. PinnedShapes(pinnedS)'
  BY DEF PinnedShapes, PinnedWithin
<1>3. PinnedSpoils(pinnedS, pinnedSpoiled)'
  BY DEF PinnedSpoils, PinnedGone, PinnedComplete, PinnedOpen
<1> QED BY <1>1, <1>2, <1>3 DEF PinnedInv

\* The generations of a release, and none, were published by now.
LEMMA PinnedReads ==
    ASSUME Pinned!CatalogAssumption, PinnedCatalogInv, NEW seen,
           (\E ids : seen = Pinned!Releases(ids)) \/ seen = Pinned!None
    PROVE  \A v \in Videos, f \in Pinned!Files : seen[v][f] \in Nat
             /\ seen[v][f] <= pinnedLast
<1>1. \A v \in Videos, f \in Pinned!Files : seen[v][f] \in {0, pinnedActive[v][f]}
  BY DEF Pinned!Releases, Pinned!None
<1>2. ASSUME NEW v \in Videos, NEW f \in Pinned!Files
      PROVE  pinnedActive[v][f] \in Nat /\ pinnedActive[v][f] <= pinnedLast
  <2>1. f \in Pinned!Kinds /\ pinnedActive[v] \in [Pinned!Kinds -> Pinned!Gens]
    BY PinnedSets DEF PinnedCatalogInv
  <2> QED BY <2>1, PinnedSets DEF PinnedCatalogInv
<1>3. pinnedLast \in Nat
  BY DEF PinnedCatalogInv
<1> QED BY <1>1, <1>2, <1>3

\* While a session is open, its pins stay and what it was answered for too late is
\* gone for good.
LEMMA PinnedGoes ==
    ASSUME Pinned!CatalogAssumption, PinnedInv,
           pinnedS.at \in PinnedOpen, pinnedS'.at \in PinnedOpen,
           DOMAIN pinnedS' = PinnedFields, pinnedS'.assets = pinnedS.assets,
           pinnedS'.jobs = pinnedS.jobs, pinnedS'.pins = pinnedS.pins,
           pinnedS'.ids \subseteq pinnedS.assets,
           \/ pinnedS'.seen = pinnedS.seen \/ pinnedS'.seen = Pinned!None
           \/ \E ids : pinnedS'.seen = Pinned!Releases(ids),
           pinnedS'.at = "open"
             \/ \A v \in pinnedS'.ids : PinnedComplete(pinnedS.pins[v]),
           \A v \in pinnedSpoiled' \ pinnedSpoiled :
              /\ v \in pinnedS.assets /\ PinnedComplete(pinnedS.pins[v])
              /\ PinnedGone(pinnedS, v, pinnedActive[v])
    PROVE  PinnedShapes(pinnedS') /\ PinnedSpoils(pinnedS', pinnedSpoiled')
<1>1. PinnedShapes(pinnedS) /\ PinnedSpoils(pinnedS, pinnedSpoiled) /\ PinnedCatalogInv
  BY DEF PinnedInv
<1>2. \A v \in Videos, f \in Pinned!Files :
         pinnedS'.seen[v][f] \in Nat /\ pinnedS'.seen[v][f] <= pinnedLast
  <2>1. CASE pinnedS'.seen = pinnedS.seen
    BY <1>1, <2>1 DEF PinnedShapes
  <2>2. CASE pinnedS'.seen # pinnedS.seen
    BY <1>1, <2>2, PinnedReads
  <2> QED BY <2>1, <2>2
<1>3. PinnedShapes(pinnedS')
  BY <1>1, <1>2 DEF PinnedShapes
<1>4. \A v \in pinnedSpoiled' :
         /\ v \in pinnedS.assets /\ PinnedComplete(pinnedS.pins[v])
         /\ PinnedGone(pinnedS, v, pinnedActive[v])
  BY <1>1 DEF PinnedSpoils
<1>5. \A v : PinnedGone(pinnedS, v, pinnedActive[v])
        => PinnedGone(pinnedS', v, pinnedActive[v])
  BY DEF PinnedGone
<1>6. /\ pinnedS'.at \in {"before", "read", "after", "answered"} =>
            \A v \in pinnedS'.ids : PinnedComplete(pinnedS'.pins[v])
      /\ pinnedS'.at \notin {"pin", "attest", "closing", "verify", "certified"}
  BY DEF PinnedOpen
<1> QED BY <1>3, <1>4, <1>5, <1>6 DEF PinnedSpoils

LEMMA PinnedSearches ==
    ASSUME Pinned!CatalogAssumption, PinnedInv,
           \/ \E ids \in SUBSET Videos : Pinned!Search(ids)
           \/ \E v \in Videos : Pinned!Check(v)
           \/ Pinned!Read
    PROVE  PinnedShapes(pinnedS') /\ PinnedSpoils(pinnedS', pinnedSpoiled')
<1>1. /\ DOMAIN pinnedS = PinnedFields /\ pinnedS.ids \subseteq pinnedS.assets
      /\ pinnedS.at \in {"before", "read", "after", "answered"} =>
            \A v \in pinnedS.ids : PinnedComplete(pinnedS.pins[v])
  BY DEF PinnedInv, PinnedShapes, PinnedSpoils
<1>2. ASSUME Pinned!Refuse, pinnedS.at \in PinnedOpen, UNCHANGED pinnedSpoiled
      PROVE  PinnedShapes(pinnedS') /\ PinnedSpoils(pinnedS', pinnedSpoiled')
  <2>1. /\ DOMAIN pinnedS' = PinnedFields /\ pinnedS'.at = "open"
        /\ pinnedS'.assets = pinnedS.assets /\ pinnedS'.jobs = pinnedS.jobs
        /\ pinnedS'.pins = pinnedS.pins /\ pinnedS'.ids = {}
        /\ pinnedS'.seen = Pinned!None
    BY <1>1, <1>2 DEF Pinned!Refuse, PinnedFields
  <2>2. pinnedS'.at \in PinnedOpen
    BY <2>1 DEF PinnedOpen
  <2> QED BY <1>2, <2>1, <2>2, PinnedGoes
<1>3. ASSUME NEW ids \in SUBSET Videos, Pinned!Search(ids)
      PROVE  PinnedShapes(pinnedS') /\ PinnedSpoils(pinnedS', pinnedSpoiled')
  <2>1. /\ DOMAIN pinnedS' = PinnedFields /\ pinnedS'.at = "before"
        /\ pinnedS'.assets = pinnedS.assets /\ pinnedS'.jobs = pinnedS.jobs
        /\ pinnedS'.pins = pinnedS.pins /\ pinnedS'.ids = ids
        /\ pinnedS'.seen = Pinned!Releases(ids) /\ pinnedSpoiled' = pinnedSpoiled
    BY <1>1, <1>3 DEF Pinned!Search, PinnedFields
  <2>2. /\ pinnedS'.at \in PinnedOpen /\ pinnedS.at \in PinnedOpen
        /\ ids \subseteq pinnedS.assets
             /\ \A v \in ids : PinnedComplete(pinnedS.pins[v])
    BY <1>3, <2>1 DEF Pinned!Search, Pinned!Complete, PinnedComplete, PinnedOpen
  <2> QED BY <2>1, <2>2, PinnedGoes
<1>4. ASSUME NEW v \in Videos, Pinned!Check(v)
      PROVE  PinnedShapes(pinnedS') /\ PinnedSpoils(pinnedS', pinnedSpoiled')
  <2>1. /\ pinnedS.at \in {"before", "after"} /\ pinnedS.at \in PinnedOpen
        /\ pinnedSpoiled' = pinnedSpoiled
    BY <1>4 DEF Pinned!Check, PinnedOpen
  <2>2. CASE Pinned!Current(v)
    <3>1. /\ DOMAIN pinnedS' = PinnedFields
          /\ pinnedS'.at \in {"before", "read", "after", "answered"}
          /\ pinnedS'.assets = pinnedS.assets /\ pinnedS'.jobs = pinnedS.jobs
          /\ pinnedS'.pins = pinnedS.pins /\ pinnedS'.ids = pinnedS.ids
          /\ pinnedS'.seen = pinnedS.seen
      BY <1>1, <1>4, <2>1, <2>2 DEF Pinned!Check, PinnedFields
    <3>2. pinnedS'.at \in PinnedOpen
      BY <3>1 DEF PinnedOpen
    <3> QED BY <1>1, <2>1, <3>1, <3>2, PinnedGoes
  <2> QED BY <1>2, <1>4, <2>1, <2>2 DEF Pinned!Check
<1>5. ASSUME Pinned!Read
      PROVE  PinnedShapes(pinnedS') /\ PinnedSpoils(pinnedS', pinnedSpoiled')
  <2>1. /\ pinnedS.at = "read" /\ pinnedS.at \in PinnedOpen
        /\ pinnedSpoiled' = pinnedSpoiled
    BY <1>5 DEF Pinned!Read, PinnedOpen
  <2>2. CASE ~ Pinned!Refuse
    <3>1. /\ DOMAIN pinnedS' = PinnedFields /\ pinnedS'.at = "after"
          /\ pinnedS'.assets = pinnedS.assets /\ pinnedS'.jobs = pinnedS.jobs
          /\ pinnedS'.pins = pinnedS.pins /\ pinnedS'.ids = pinnedS.ids
          /\ pinnedS'.seen = Pinned!Releases(pinnedS.ids)
      BY <1>1, <1>5, <2>2 DEF Pinned!Read, PinnedFields
    <3>2. pinnedS'.at \in PinnedOpen
      BY <3>1 DEF PinnedOpen
    <3> QED BY <1>1, <2>1, <3>1, <3>2, PinnedGoes
  <2> QED BY <1>2, <2>1, <2>2
<1> QED BY <1>3, <1>4, <1>5

\* An answer that came too late is about something that is gone for good.
LEMMA PinnedAnswersFor ==
    ASSUME Pinned!CatalogAssumption, PinnedInv, Pinned!Answer
    PROVE  PinnedShapes(pinnedS') /\ PinnedSpoils(pinnedS', pinnedSpoiled')
<1>1. /\ PinnedShapes(pinnedS) /\ pinnedS.at = "answered" /\ pinnedS.at \in PinnedOpen
      /\ \A v \in pinnedS.ids : PinnedComplete(pinnedS.pins[v])
      /\ \A d \in pinnedDecayed : d[2] = "media" => d = <<d[1], "media", 0>>
  BY DEF PinnedInv, PinnedSpoils, Pinned!Answer, PinnedOpen
<1>2. /\ DOMAIN pinnedS' = PinnedFields /\ pinnedS'.at = "open"
      /\ pinnedS'.assets = pinnedS.assets /\ pinnedS'.jobs = pinnedS.jobs
      /\ pinnedS'.pins = pinnedS.pins /\ pinnedS'.ids = {}
      /\ pinnedS'.seen = Pinned!None
  BY <1>1 DEF Pinned!Answer, Pinned!Refuse, PinnedFields, PinnedShapes
<1>3. ASSUME NEW v \in pinnedS.ids, ~ Pinned!Intact(v)
      PROVE  PinnedGone(pinnedS, v, pinnedActive[v])
  <2> DEFINE p == pinnedS.pins[v]
  <2>1. /\ pinnedS.jobs \subseteq pinnedJobs
        /\ \A f \in Pinned!Files : p.files[f] # 0
    BY <1>1 DEF PinnedShapes, PinnedComplete
  <2>2. CASE \E d \in pinnedDecayed : d[1] = v /\ d[2] = "media"
    BY <1>1, <2>2 DEF PinnedGone
  <2>3. CASE \E f \in Pinned!Files :
               \/ ~ Pinned!Usable(v, f, p.files[f])
               \/ <<v, f, p.files[f]>> \in pinnedDecayed
               \/ p.files[f] # IF v \in pinnedJobs THEN pinnedActive[v][f]
                               ELSE pinnedPointer[v][f]
    BY <2>1, <2>3 DEF PinnedGone, Pinned!Usable
  <2>4. CASE \/ v \in pinnedMedia \/ pinnedActive[v]["text"] # p.text
             \/ \E k \in Pinned!Segments : pinnedActive[v][k] # p.segments[k]
    BY <2>4 DEF PinnedGone
  <2> QED BY <1>3, <2>2, <2>3, <2>4 DEF Pinned!Intact, Pinned!Nothing
<1>4. \A v \in pinnedSpoiled' \ pinnedSpoiled :
         /\ v \in pinnedS.assets /\ PinnedComplete(pinnedS.pins[v])
         /\ PinnedGone(pinnedS, v, pinnedActive[v])
  BY <1>1, <1>3 DEF Pinned!Answer, PinnedShapes
<1>5. pinnedS'.at \in PinnedOpen
  BY <1>2 DEF PinnedOpen
<1> QED BY <1>1, <1>2, <1>4, <1>5, PinnedGoes

\* Opening a session: it has seen the releases of its videos and answered nothing.
LEMMA PinnedOpens ==
    ASSUME Pinned!CatalogAssumption, PinnedInv,
           NEW assets \in SUBSET Videos, Pinned!Open(assets)
    PROVE  PinnedShapes(pinnedS') /\ PinnedSpoils(pinnedS', pinnedSpoiled')
<1>1. /\ DOMAIN pinnedS' = PinnedFields /\ pinnedS'.at = "pin" /\ pinnedSpoiled' = {}
      /\ pinnedS'.assets = assets /\ pinnedS'.jobs = assets \cap pinnedJobs
      /\ pinnedS'.pins = [v \in Videos |-> Pinned!NoPin] /\ pinnedS'.ids = {}
      /\ pinnedS'.seen = Pinned!Releases(assets)
  BY DEF Pinned!Open, Pinned!Session, PinnedFields
<1>2. PinnedWithin(Pinned!NoPin)
  BY DEF PinnedWithin, Pinned!NoPin, PinnedInv, PinnedCatalogInv
<1>3. \A v \in Videos, f \in Pinned!Files :
         pinnedS'.seen[v][f] \in Nat /\ pinnedS'.seen[v][f] <= pinnedLast
  BY <1>1, PinnedReads DEF PinnedInv
<1>4. PinnedShapes(pinnedS')
  BY <1>1, <1>2, <1>3 DEF PinnedShapes
<1> QED BY <1>1, <1>4 DEF PinnedSpoils, PinnedOpen

\* A session that has answered nothing yet, and goes on or fails.
LEMMA PinnedBegins ==
    ASSUME PinnedInv, pinnedS.at \in {"pin", "attest"}, pinnedSpoiled' = pinnedSpoiled,
           DOMAIN pinnedS' = PinnedFields,
             pinnedS'.at \in {"pin", "attest", "open", "failed"},
           pinnedS'.assets = pinnedS.assets, pinnedS'.jobs = pinnedS.jobs,
           pinnedS'.seen = pinnedS.seen, pinnedS'.ids = pinnedS.ids,
           DOMAIN pinnedS'.pins = Videos,
             \A v \in Videos : PinnedWithin(pinnedS'.pins[v])
    PROVE  PinnedShapes(pinnedS') /\ PinnedSpoils(pinnedS', pinnedSpoiled')
<1>1. PinnedShapes(pinnedS) /\ pinnedSpoiled' = {}
  BY DEF PinnedInv, PinnedSpoils
<1>2. PinnedShapes(pinnedS')
  BY <1>1 DEF PinnedShapes
<1> QED BY <1>1, <1>2 DEF PinnedSpoils, PinnedOpen

LEMMA PinnedFails ==
    ASSUME PinnedInv, pinnedS.at \in {"pin", "attest"}, pinnedSpoiled' = pinnedSpoiled,
           Pinned!Fail
    PROVE  PinnedShapes(pinnedS') /\ PinnedSpoils(pinnedS', pinnedSpoiled')
<1>1. PinnedShapes(pinnedS)
  BY DEF PinnedInv
<1>2. /\ DOMAIN pinnedS' = PinnedFields /\ pinnedS'.at = "failed"
      /\ pinnedS'.assets = pinnedS.assets /\ pinnedS'.jobs = pinnedS.jobs
      /\ pinnedS'.seen = pinnedS.seen /\ pinnedS'.ids = pinnedS.ids
      /\ pinnedS'.pins = pinnedS.pins
  BY <1>1 DEF Pinned!Fail, PinnedShapes, PinnedFields
<1>3. DOMAIN pinnedS'.pins = Videos /\ \A v \in Videos : PinnedWithin(pinnedS'.pins[v])
  BY <1>1, <1>2 DEF PinnedShapes
<1>4. pinnedS'.at \in {"pin", "attest", "open", "failed"}
  BY <1>2
<1> QED BY <1>2, <1>3, <1>4, PinnedBegins

LEMMA PinnedPins ==
    ASSUME Pinned!CatalogAssumption, PinnedInv, NEW v \in Videos, Pinned!Pin(v)
    PROVE  PinnedShapes(pinnedS') /\ PinnedSpoils(pinnedS', pinnedSpoiled')
<1>1. PinnedShapes(pinnedS) /\ PinnedCatalogInv
  BY DEF PinnedInv
<1>2. pinnedS.at \in {"pin", "attest"} /\ pinnedSpoiled' = pinnedSpoiled
  BY DEF Pinned!Pin
<1>3. CASE Pinned!MediaIntact(v)
  <2> DEFINE pin == Pinned!PinOf(v)
             g == pinnedActive[v]["text"]
  <2>1. /\ g \in Pinned!Gens /\ g \in Nat /\ g <= pinnedLast
        /\ \A k \in Pinned!Segments :
              pinnedInputs[v][g][k] \in Nat /\ pinnedInputs[v][g][k] <= pinnedLast
    <3>1. g \in Pinned!Gens /\ g \in Nat /\ g <= pinnedLast
      BY <1>1, PinnedSets DEF PinnedCatalogInv
    <3>2. pinnedInputs[v][g] \in [Pinned!Segments -> Pinned!Gens]
      BY <1>1, <3>1 DEF PinnedCatalogInv
    <3> QED BY <1>1, <3>1, <3>2, PinnedSets DEF PinnedCatalogInv
  <2>2. \A f \in Pinned!Files : pin.files[f] \in
           {0, pinnedS.seen[v][f], pinnedPointer[v][f]}
    BY DEF Pinned!PinOf, Pinned!Valid, Pinned!Named
  <2>3. \A f \in Pinned!Files : pin.files[f] \in Nat /\ pin.files[f] <= pinnedLast
    <3> TAKE f \in Pinned!Files
    <3>1. pinnedS.seen[v][f] \in Nat /\ pinnedS.seen[v][f] <= pinnedLast
      BY <1>1 DEF PinnedShapes
    <3>2. pinnedPointer[v][f] \in {0, 1} /\ pinnedLast \in Nat /\ pinnedLast >= 1
      BY <1>1 DEF PinnedCatalogInv
    <3> HIDE DEF pin
    <3> QED BY <2>2, <3>1, <3>2
  <2>4. DOMAIN pin = {"text", "segments", "files"} /\ pin.text = g
        /\ pin.segments = pinnedInputs[v][g]
    BY DEF Pinned!PinOf
  <2> HIDE DEF pin, g
  <2>5. PinnedWithin(pin)
    BY <2>1, <2>3, <2>4 DEF PinnedWithin
  <2>6. /\ DOMAIN pinnedS' = PinnedFields /\ pinnedS'.at \in {"pin", "attest"}
        /\ pinnedS'.assets = pinnedS.assets /\ pinnedS'.jobs = pinnedS.jobs
        /\ pinnedS'.seen = pinnedS.seen /\ pinnedS'.ids = pinnedS.ids
        /\ pinnedS'.pins = [pinnedS.pins EXCEPT ![v] = pin]
    BY <1>1, <1>3 DEF Pinned!Pin, PinnedShapes, PinnedFields, pin
  <2>7. DOMAIN pinnedS'.pins = Videos
          /\ \A u \in Videos : PinnedWithin(pinnedS'.pins[u])
    BY <1>1, <2>5, <2>6 DEF PinnedShapes
  <2> QED BY <1>2, <2>6, <2>7, PinnedBegins
<1>4. CASE ~ Pinned!MediaIntact(v)
  BY <1>2, <1>4, PinnedFails DEF Pinned!Pin
<1> QED BY <1>3, <1>4

LEMMA PinnedAttests ==
    ASSUME Pinned!CatalogAssumption, PinnedInv, Pinned!Attest
    PROVE  PinnedShapes(pinnedS') /\ PinnedSpoils(pinnedS', pinnedSpoiled')
<1>1. PinnedShapes(pinnedS) /\ pinnedLast \in Nat
  BY DEF PinnedInv, PinnedCatalogInv
<1>2. pinnedS.at \in {"pin", "attest"} /\ pinnedSpoiled' = pinnedSpoiled
  BY DEF Pinned!Attest
<1> DEFINE whole == {v \in pinnedS.assets : pinnedS.pins[v].text \in pinnedStored[v]}
           pins == [v \in Videos |-> IF v \in whole THEN pinnedS.pins[v]
                                     ELSE [pinnedS.pins[v] EXCEPT !.text = 0]]
<1>3. CASE pinnedS' = [pinnedS EXCEPT !.at = "open", !.pins = pins]
  <2>1. ASSUME NEW v \in Videos PROVE PinnedWithin(pins[v])
    <3>1. PinnedWithin(pinnedS.pins[v])
      BY <1>1 DEF PinnedShapes
    <3>2. PinnedWithin([pinnedS.pins[v] EXCEPT !.text = 0])
      BY <1>1, <3>1 DEF PinnedWithin
    <3> QED BY <3>1, <3>2
  <2>2. DOMAIN pins = Videos
    OBVIOUS
  <2> HIDE DEF pins
  <2>3. /\ DOMAIN pinnedS' = PinnedFields /\ pinnedS'.at = "open"
        /\ pinnedS'.assets = pinnedS.assets /\ pinnedS'.jobs = pinnedS.jobs
        /\ pinnedS'.seen = pinnedS.seen /\ pinnedS'.ids = pinnedS.ids
        /\ pinnedS'.pins = pins
    BY <1>1, <1>3 DEF PinnedShapes, PinnedFields
  <2>4. /\ DOMAIN pinnedS'.pins = Videos
             /\ \A u \in Videos : PinnedWithin(pinnedS'.pins[u])
        /\ pinnedS'.at \in {"pin", "attest", "open", "failed"}
    BY <2>1, <2>2, <2>3
  <2> QED BY <1>2, <2>3, <2>4, PinnedBegins
<1> QED BY <1>2, <1>3, PinnedFails DEF Pinned!Attest

\* The last comparison is with the releases of now, of which those videos lack one.
LEMMA PinnedCloses ==
    ASSUME Pinned!CatalogAssumption, PinnedInv, Pinned!Close
    PROVE  PinnedShapes(pinnedS') /\ PinnedSpoils(pinnedS', pinnedSpoiled')
<1>1. /\ PinnedShapes(pinnedS) /\ pinnedS.at = "open" /\ pinnedSpoiled' = pinnedSpoiled
      /\ \A v \in pinnedSpoiled :
            /\ v \in pinnedS.assets /\ PinnedComplete(pinnedS.pins[v])
            /\ PinnedGone(pinnedS, v, pinnedActive[v])
  BY DEF PinnedInv, PinnedSpoils, Pinned!Close, PinnedOpen
<1>2. /\ DOMAIN pinnedS' = PinnedFields /\ pinnedS'.at = "closing"
      /\ pinnedS'.assets = pinnedS.assets /\ pinnedS'.jobs = pinnedS.jobs
      /\ pinnedS'.pins = pinnedS.pins /\ pinnedS'.ids = pinnedS.ids
      /\ pinnedS'.seen = Pinned!Releases(pinnedS.assets)
      /\ pinnedS'.todo = pinnedS.assets
  BY <1>1 DEF Pinned!Close, PinnedFields, PinnedShapes
<1>3. \A v \in Videos, f \in Pinned!Files :
         pinnedS'.seen[v][f] \in Nat /\ pinnedS'.seen[v][f] <= pinnedLast
  BY <1>2, PinnedReads DEF PinnedInv
<1>4. PinnedShapes(pinnedS')
  BY <1>1, <1>2, <1>3 DEF PinnedShapes
<1>5. ASSUME NEW v \in pinnedSpoiled PROVE PinnedGone(pinnedS', v, pinnedS'.seen[v])
  <2>1. v \in Videos /\ v \in pinnedS.assets /\ pinnedS.jobs \subseteq pinnedJobs
    BY <1>1 DEF PinnedShapes
  <2>2. v \in pinnedS.jobs =>
           \A f \in Pinned!Files : pinnedS'.seen[v][f] = pinnedActive[v][f]
    BY <1>2, <2>1 DEF Pinned!Releases
  <2> QED BY <1>1, <1>2, <2>2 DEF PinnedGone
<1> QED BY <1>1, <1>2, <1>4, <1>5 DEF PinnedSpoils, PinnedOpen

\* No comparison of what is gone succeeds.
LEMMA PinnedNotices ==
    ASSUME NEW v, PinnedComplete(pinnedS.pins[v]),
             PinnedGone(pinnedS, v, pinnedS.seen[v])
    PROVE  ~ Pinned!FullyCurrent(v)
<1> SUFFICES ASSUME Pinned!FullyCurrent(v) PROVE FALSE
  OBVIOUS
<1> DEFINE p == pinnedS.pins[v]
<1>1. /\ v \notin pinnedMedia /\ <<v, "media", 0>> \notin pinnedDecayed
      /\ pinnedActive[v]["text"] = p.text
      /\ (v \in pinnedS.jobs <=> v \in pinnedJobs)
  BY DEF Pinned!FullyCurrent, Pinned!Current, Pinned!Fingerprint, Pinned!MediaIntact,
         Pinned!Nothing
<1>2. \A k \in Pinned!Segments : pinnedActive[v][k] = p.segments[k]
  BY DEF Pinned!FullyCurrent, PinnedComplete
<1>3. ASSUME NEW f \in Pinned!Files
      PROVE  /\ <<v, f, p.files[f]>> \notin pinnedBroken \cup pinnedDecayed
             /\ p.files[f] = IF v \in pinnedS.jobs THEN pinnedS.seen[v][f]
                             ELSE pinnedPointer[v][f]
  <2>1. p.files[f] = Pinned!Valid(v, f, Pinned!Named(v, f, pinnedS.seen))
          /\ p.files[f] # 0
    BY DEF Pinned!FullyCurrent, Pinned!Current, Pinned!FilesCurrent, PinnedComplete
  <2>2. <<v, f, p.files[f]>> \notin pinnedDecayed
    BY DEF Pinned!FullyCurrent, Pinned!ContentIntact
  <2> QED BY <2>1, <2>2 DEF Pinned!Valid, Pinned!Usable, Pinned!Named
<1> QED BY <1>1, <1>2, <1>3 DEF PinnedGone

LEMMA PinnedCompares ==
    ASSUME Pinned!CatalogAssumption, PinnedInv, NEW v \in Videos, Pinned!CloseCheck(v)
    PROVE  PinnedShapes(pinnedS') /\ PinnedSpoils(pinnedS', pinnedSpoiled')
<1>1. /\ PinnedShapes(pinnedS) /\ pinnedS.at = "closing"
      /\ pinnedSpoiled' = pinnedSpoiled
      /\ \A u \in pinnedSpoiled :
            /\ u \in pinnedS.assets /\ PinnedComplete(pinnedS.pins[u])
            /\ pinnedS.bad
               \/ (u \in pinnedS.todo /\ PinnedGone(pinnedS, u, pinnedS.seen[u]))
  BY DEF PinnedInv, PinnedSpoils, Pinned!CloseCheck, PinnedOpen
<1>2. /\ DOMAIN pinnedS' = PinnedFields
      /\ pinnedS'.at = IF pinnedS.todo = {v} THEN "verify" ELSE "closing"
      /\ pinnedS'.assets = pinnedS.assets /\ pinnedS'.jobs = pinnedS.jobs
      /\ pinnedS'.pins = pinnedS.pins /\ pinnedS'.ids = pinnedS.ids
      /\ pinnedS'.seen = pinnedS.seen /\ pinnedS'.todo = pinnedS.todo \ {v}
      /\ pinnedS'.bad = (pinnedS.bad \/ ~ Pinned!FullyCurrent(v))
  BY <1>1 DEF Pinned!CloseCheck, PinnedFields, PinnedShapes
<1>3. PinnedShapes(pinnedS')
  BY <1>1, <1>2 DEF PinnedShapes
<1>4. ASSUME NEW u \in pinnedSpoiled, ~ pinnedS'.bad
      PROVE  /\ u \in pinnedS.todo \ {v} /\ PinnedGone(pinnedS, u, pinnedS.seen[u])
             /\ PinnedGone(pinnedS', u, pinnedS'.seen[u])
  <2>1. u \in pinnedS.todo /\ PinnedGone(pinnedS, u, pinnedS.seen[u])
    BY <1>1, <1>2, <1>4
  <2>2. u # v
    BY <1>1, <1>2, <1>4, <2>1, PinnedNotices
  <2>3. PinnedGone(pinnedS', u, pinnedS'.seen[u])
    BY <1>2, <2>1 DEF PinnedGone
  <2> QED BY <2>1, <2>2, <2>3
<1> QED BY <1>1, <1>2, <1>3, <1>4 DEF PinnedSpoils, PinnedOpen

LEMMA PinnedEnds ==
    ASSUME Pinned!CatalogAssumption, PinnedInv, Pinned!CloseEnd
    PROVE  PinnedShapes(pinnedS') /\ PinnedSpoils(pinnedS', pinnedSpoiled')
<1>1. /\ pinnedS.at = "verify" /\ pinnedSpoiled' = pinnedSpoiled
      /\ pinnedSpoiled # {} => pinnedS.bad
  BY DEF PinnedInv, PinnedSpoils, Pinned!CloseEnd
<1>2. /\ DOMAIN pinnedS' = PinnedFields
      /\ pinnedS'.at = IF pinnedS.bad \/ ~ Pinned!StoreIntact THEN "failed"
           ELSE "certified"
      /\ pinnedS'.assets = {} /\ pinnedS'.jobs = {} /\ pinnedS'.ids = {}
      /\ pinnedS'.pins = [v \in Videos |-> Pinned!NoPin] /\ pinnedS'.seen = Pinned!None
  BY DEF Pinned!CloseEnd, Pinned!Session, PinnedFields
<1>3. PinnedWithin(Pinned!NoPin)
  BY DEF PinnedWithin, Pinned!NoPin, PinnedInv, PinnedCatalogInv
<1>4. \A v \in Videos, f \in Pinned!Files :
         pinnedS'.seen[v][f] \in Nat /\ pinnedS'.seen[v][f] <= pinnedLast
  BY <1>2, PinnedReads DEF PinnedInv
<1>5. PinnedShapes(pinnedS')
  BY <1>2, <1>3, <1>4 DEF PinnedShapes
<1> QED BY <1>1, <1>2, <1>5 DEF PinnedSpoils, PinnedOpen

LEMMA PinnedKeeps ==
    ASSUME Pinned!CatalogAssumption, PinnedInv, [Pinned!Next]_(Pinned!vars)
    PROVE  PinnedInv'
<1> USE DEF Pinned!vars, Pinned!catalog, Pinned!harm
<1>1. ASSUME PinnedShapes(pinnedS'), PinnedSpoils(pinnedS', pinnedSpoiled'),
             UNCHANGED <<Pinned!catalog, Pinned!harm>>
      PROVE  PinnedInv'
  BY <1>1, PinnedAbides
<1>2. CASE UNCHANGED Pinned!vars
  BY <1>1, <1>2 DEF PinnedInv
<1>3. CASE \E ids \in SUBSET Videos : Pinned!Open(ids)
  BY <1>1, <1>3, PinnedOpens DEF Pinned!Open
<1>4. CASE \/ \E ids \in SUBSET Videos : Pinned!Search(ids)
           \/ \E v \in Videos : Pinned!Check(v)
           \/ Pinned!Read
  BY <1>1, <1>4, PinnedSearches DEF Pinned!Search, Pinned!Check, Pinned!Read
<1>5. CASE \E v \in Videos : Pinned!Pin(v)
  BY <1>1, <1>5, PinnedPins DEF Pinned!Pin
<1>6. CASE \E v \in Videos : Pinned!CloseCheck(v)
  BY <1>1, <1>6, PinnedCompares DEF Pinned!CloseCheck
<1>7. CASE Pinned!Attest \/ Pinned!Answer \/ Pinned!Close \/ Pinned!CloseEnd
  BY <1>1, <1>7, PinnedAttests, PinnedAnswersFor, PinnedCloses, PinnedEnds
     DEF Pinned!Attest, Pinned!Answer, Pinned!Close, Pinned!CloseEnd
<1>8. ASSUME UNCHANGED <<Pinned!catalog, pinnedS, pinnedSpoiled>>
      PROVE  PinnedCatalogInv' /\ PinnedGrows
  BY <1>8 DEF PinnedInv, PinnedCatalogInv, PinnedGrows
<1>9. CASE \E v \in Videos : Pinned!Replace(v)
  <2>1. /\ pinnedMedia \subseteq pinnedMedia' /\ pinnedDecayed' = pinnedDecayed
        /\ UNCHANGED <<Pinned!catalog, pinnedS, pinnedSpoiled>>
    BY <1>9 DEF Pinned!Replace
  <2>2. \A d \in pinnedDecayed' : d[2] = "media" => d = <<d[1], "media", 0>>
    BY <2>1 DEF PinnedInv
  <2> QED BY <1>8, <2>1, <2>2, PinnedWaits
<1>10. CASE \E v \in Videos, x \in Pinned!Decays : Pinned!Decay(v, x)
  <2>1. PICK v \in Videos, x \in Pinned!Decays : Pinned!Decay(v, x)
    BY <1>10
  <2>2. PICK g \in IF x = Pinned!Nothing THEN {0}
                   ELSE {pinnedPointer[v][x], pinnedActive[v][x]} \ {0} :
           pinnedDecayed' = pinnedDecayed \cup {<<v, x, g>>}
    BY <2>1 DEF Pinned!Decay
  <2>3. \A d \in pinnedDecayed' : d[2] = "media" => d = <<d[1], "media", 0>>
    BY <2>2 DEF PinnedInv, Pinned!Nothing
  <2>4. /\ UNCHANGED <<Pinned!catalog, pinnedMedia, pinnedS, pinnedSpoiled>>
        /\ pinnedDecayed \subseteq pinnedDecayed'
    BY <2>1, <2>2 DEF Pinned!Decay
  <2> QED BY <1>8, <2>3, <2>4, PinnedWaits
<1>11. CASE Pinned!Others
         /\ UNCHANGED <<Pinned!harm, pinnedS, pinnedAttested, pinnedSpoiled>>
  <2>1. PinnedCatalogInv' /\ PinnedGrows
    BY <1>11, PinnedOthers DEF PinnedInv
  <2>2. \A d \in pinnedDecayed' : d[2] = "media" => d = <<d[1], "media", 0>>
    BY <1>11 DEF PinnedInv
  <2> QED BY <1>11, <2>1, <2>2, PinnedWaits
<1> QED
  BY <1>2, <1>3, <1>4, <1>5, <1>6, <1>7, <1>9, <1>10, <1>11 DEF Pinned!Next

LEMMA PinnedStart ==
    ASSUME Pinned!CatalogAssumption, Pinned!Init
    PROVE  PinnedInv
<1> USE DEF Pinned!Init, Pinned!CatalogInit
<1>1. Pinned!Old = 1
  BY DEF Pinned!Old
<1>2. \A v \in Videos, k \in Pinned!Kinds : pinnedActive[v][k] \in {0, 1}
  BY <1>1
<1>3. \A v \in Videos, g \in Pinned!Gens, k \in Pinned!Segments :
         pinnedInputs[v][g][k] \in {0, 1}
  BY <1>1
<1>4. /\ pinnedActive \in [Videos -> [Pinned!Kinds -> Pinned!Gens]]
      /\ pinnedInputs \in [Videos -> [Pinned!Gens -> [Pinned!Segments -> Pinned!Gens]]]
  BY <1>1, PinnedSets
<1>5. pinnedLast = 1 /\ pinnedPointer \in [Videos -> [Pinned!Files -> {0, 1}]]
  BY <1>1
<1>6. PinnedCatalogInv
  <2> HIDE DEF Pinned!Init, Pinned!CatalogInit
  <2>1. \A n \in {0, 1} : n <= pinnedLast
    BY <1>5
  <2>2. \A v \in Videos, k \in Pinned!Kinds : pinnedActive[v][k] <= pinnedLast
    BY <1>2, <2>1
  <2>3. \A v \in Videos, g \in Pinned!Gens, k \in Pinned!Segments :
           pinnedInputs[v][g][k] <= pinnedLast
    BY <1>3, <2>1
  <2>4. pinnedLast \in Nat /\ pinnedLast >= 1
    BY <1>5
  <2> QED BY <1>4, <1>5, <2>2, <2>3, <2>4 DEF PinnedCatalogInv
<1>7. /\ DOMAIN pinnedS = PinnedFields /\ pinnedS.at = "none"
      /\ pinnedS.assets = {} /\ pinnedS.jobs = {} /\ pinnedS.ids = {}
      /\ pinnedS.pins = [v \in Videos |-> Pinned!NoPin] /\ pinnedS.seen = Pinned!None
  BY DEF Pinned!Session, PinnedFields
<1>8. PinnedWithin(Pinned!NoPin)
  BY <1>5 DEF PinnedWithin, Pinned!NoPin
<1>9. \A v \in Videos, f \in Pinned!Files :
         pinnedS.seen[v][f] \in Nat /\ pinnedS.seen[v][f] <= pinnedLast
  BY <1>5, <1>7 DEF Pinned!None
<1>10. PinnedShapes(pinnedS)
  BY <1>7, <1>8, <1>9 DEF PinnedShapes
<1>11. PinnedSpoils(pinnedS, pinnedSpoiled)
  BY <1>7 DEF PinnedSpoils, PinnedOpen
<1>12. pinnedDecayed = {}
  OBVIOUS
<1> QED BY <1>6, <1>10, <1>11, <1>12 DEF PinnedInv

(***************************************************************************)
(* The parts together.                                                     *)
(***************************************************************************)

GroupInv ==
    /\ of \in Parts
    /\ \A b \in LighthouseBounds : of = <<"Lighthouse", b>> => LighthouseInv(b)
    /\ \A b \in SearchBounds : of = <<"Search", b>> => SearchInv(b)
    /\ of[1] = "Pinned" => PinnedInv
    /\ ArtifactsInv

\* A step moves the part it is of, if any, by a step of its own.
LEMMA GroupSteps ==
    ASSUME [GroupNext]_groupVars
    PROVE  /\ UNCHANGED of
           /\ \A b \in LighthouseBounds : of = <<"Lighthouse", b>> =>
                 [Lighthouse(b)!Next]_(Lighthouse(b)!vars)
           /\ \A b \in SearchBounds : of = <<"Search", b>> =>
                 [Search(b)!Next]_(Search(b)!vars)
           /\ [Artifacts!Next]_(Artifacts!vars)
           /\ [Pinned!Next]_(Pinned!vars)
<1>1. ASSUME UNCHANGED artifactsVars PROVE UNCHANGED Artifacts!vars
  BY <1>1 DEF artifactsVars, Artifacts!vars
<1>2. ASSUME UNCHANGED lighthouseVars, NEW b \in LighthouseBounds
      PROVE  UNCHANGED Lighthouse(b)!vars
  BY <1>2 DEF lighthouseVars, Lighthouse!vars
<1>3. ASSUME UNCHANGED searchVars, NEW b \in SearchBounds
      PROVE  UNCHANGED Search(b)!vars
  BY <1>3 DEF searchVars, Search!vars, Search!catalog
<1>4. ASSUME UNCHANGED pinnedVars PROVE UNCHANGED Pinned!vars
  BY <1>4 DEF pinnedVars, Pinned!vars, Pinned!catalog
<1>5. CASE UNCHANGED groupVars
  BY <1>1, <1>2, <1>3, <1>4, <1>5 DEF groupVars
<1>6. CASE TablesStep
  BY <1>1, <1>2, <1>3, <1>4, <1>6 DEF TablesStep, Others
<1>7. CASE LighthouseStep
  <2>1. PICK b \in LighthouseBounds :
           of = <<"Lighthouse", b>> /\ Lighthouse(b)!Next /\ Others("Lighthouse")
    BY <1>7 DEF LighthouseStep
  <2>2. \A c \in LighthouseBounds : of = <<"Lighthouse", c>> => c = b
    BY <2>1
  <2> QED BY <1>1, <1>3, <1>4, <2>1, <2>2 DEF Others
<1>8. CASE ArtifactsStep
  BY <1>2, <1>3, <1>4, <1>8 DEF ArtifactsStep, Others
<1>9. CASE SearchStep
  <2>1. PICK b \in SearchBounds :
           of = <<"Search", b>> /\ Search(b)!Next /\ Others("Search")
    BY <1>9 DEF SearchStep
  <2>2. \A c \in SearchBounds : of = <<"Search", c>> => c = b
    BY <2>1
  <2> QED BY <1>1, <1>2, <1>4, <2>1, <2>2 DEF Others
<1>10. CASE PinnedStep
  BY <1>1, <1>2, <1>3, <1>10 DEF PinnedStep, Others
<1> QED BY <1>5, <1>6, <1>7, <1>8, <1>9, <1>10 DEF GroupNext

LEMMA GroupStart ==
    GroupInit => GroupInv
<1> SUFFICES ASSUME GroupInit PROVE GroupInv
  OBVIOUS
<1>1. ArtifactsInv
  BY ArtifactsStart, ArtifactsAssumption DEF GroupInit
<1>2. ASSUME NEW b \in LighthouseBounds, of = <<"Lighthouse", b>> PROVE LighthouseInv(b)
  <2>1. PICK c \in LighthouseBounds : of = <<"Lighthouse", c>> /\ Lighthouse(c)!Init
    BY <1>2 DEF GroupInit
  <2>2. c = b
    BY <1>2, <2>1
  <2> QED BY <2>1, <2>2, LighthouseStart, LighthouseAssumption
<1>3. ASSUME NEW b \in SearchBounds, of = <<"Search", b>> PROVE SearchInv(b)
  <2>1. PICK c \in SearchBounds : of = <<"Search", c>> /\ Search(c)!Init
    BY <1>3 DEF GroupInit
  <2>2. c = b
    BY <1>3, <2>1
  <2> QED BY <2>1, <2>2, SearchStart, SearchAssumption
<1>4. of[1] = "Pinned" => PinnedInv
  BY PinnedStart, PinnedAssumption DEF GroupInit
<1> QED BY <1>1, <1>2, <1>3, <1>4 DEF GroupInv, GroupInit

LEMMA GroupKeeps ==
    GroupInv /\ [GroupNext]_groupVars => GroupInv'
<1> SUFFICES ASSUME GroupInv, [GroupNext]_groupVars PROVE GroupInv'
  OBVIOUS
<1>1. ArtifactsInv'
  BY GroupSteps, ArtifactsKeeps, ArtifactsAssumption DEF GroupInv
<1>2. ASSUME NEW b \in LighthouseBounds, of' = <<"Lighthouse", b>>
               PROVE LighthouseInv(b)'
  <2>1. LighthouseInv(b) /\ [Lighthouse(b)!Next]_(Lighthouse(b)!vars)
          /\ Lighthouse(b)!LighthouseAssumption
    BY <1>2, GroupSteps, LighthouseAssumption DEF GroupInv
  <2> QED BY <2>1, LighthouseKeeps
<1>3. ASSUME NEW b \in SearchBounds, of' = <<"Search", b>> PROVE SearchInv(b)'
  <2>1. SearchInv(b) /\ [Search(b)!Next]_(Search(b)!vars) /\ Search(b)!CatalogAssumption
    BY <1>3, GroupSteps, SearchAssumption DEF GroupInv
  <2> QED BY <2>1, SearchKeeps
<1>4. ASSUME of'[1] = "Pinned" PROVE PinnedInv'
  BY <1>4, GroupSteps, PinnedKeeps, PinnedAssumption DEF GroupInv
<1>5. of' \in Parts
  BY GroupSteps DEF GroupInv
<1> QED BY <1>1, <1>2, <1>3, <1>4, <1>5 DEF GroupInv

LEMMA GroupInvariant == GroupSpec => []GroupInv
BY GroupStart, GroupKeeps, PTL DEF GroupSpec

\* A row of the database names files a reader can load, and the frames of a dense
\* generation are of the bytes the asset has the digest of, unless the video was
\* replaced and put back between the two digests of its build (build_video_source,
\* commit_external_index_generation).
THEOREM RetrievalRowsAreWhole == GroupSpec => []RowsNameWholeArtifacts
<1>1. GroupInv => RowsNameWholeArtifacts
  BY ArtifactsWhole DEF GroupInv, RowsNameWholeArtifacts
<1> QED BY <1>1, GroupInvariant, PTL

\* A generation the backend accepted a receipt for is under its final name and, until
\* somebody rewrites it, every window of it was encoded from the bytes the receipt
\* names, whatever calls run side by side, however often the video is replaced, and
\* put back, and the worker dies (build_inactive_generation, build_video_source).
THEOREM RetrievalReceipts == GroupSpec => []ReceiptsDescribeTheirVideo
<1>1. GroupInv => ReceiptsDescribeTheirVideo
  BY LighthouseReceiptsHold DEF GroupInv, ReceiptsDescribeTheirVideo
<1> QED BY <1>1, GroupInvariant, PTL

\* What a search finds by meaning in one video was active together with the vectors
\* that led to it, and the frames and moments of all videos with jobs are of one state
\* of the active pointers, however many releases are published while the search reads
\* them one after the other (SearchService.search).
THEOREM RetrievalAnswers == GroupSpec => []AnswersAreOfOneRelease
<1>1. GroupInv => AnswersAreOfOneRelease
  BY SearchAnswers DEF GroupInv, AnswersAreOfOneRelease
<1> QED BY <1>1, GroupInvariant, PTL

\* A session that closes without an error gave no answer for a video whose media,
\* vectors, segments or files were no longer those it had pinned: whatever was gone
\* when an answer left is still gone at the comparison of close
\* (PinnedProductSearchSession).
THEOREM RetrievalCertified == GroupSpec => []CertifiedAnswersHold
<1>1. GroupInv => CertifiedAnswersHold
  BY DEF GroupInv, PinnedInv, PinnedSpoils, CertifiedAnswersHold,
         Pinned!CertifiedAnswersHold
<1> QED BY <1>1, GroupInvariant, PTL
=============================================================================
