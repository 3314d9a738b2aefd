-------------------------- MODULE MCServer_proofs --------------------------
(***************************************************************************)
(* Proofs about the processes of a running installation, for every set of  *)
(* requests, clients, copies, clips, children and threads, and every       *)
(* bound: what the model workers answer, what nobody takes from an         *)
(* inference, where copies lie and whose the OCR children are.             *)
(*                                                                         *)
(* Each part has an inductive invariant of its own; GroupInv puts them     *)
(* together, and the step of one part leaves those of the others alone.    *)
(***************************************************************************)
EXTENDS MCServer, FiniteSets, FiniteSetTheorems, TLAPS

(***************************************************************************)
(* The vision worker.                                                      *)
(***************************************************************************)

USE DEF Vision!Models, Vision!HasSource, Vision!ModelFor, Vision!Other, Vision!At,
        Vision!None

VisionRecords(b) ==
    [client : Vision(b)!Clients \cup {"none"}, op : Vision(b)!Ops,
     want : Contents \cup {"none"}, copy : Contents \cup {"none"},
     mark : 0..b.rewrites, at : Vision(b)!Points,
     answer : Vision(b)!Answers \cup {"none"}]

\* Everything TypeOK says but the upper bound of the permits.
VisionShapes(b) ==
    /\ visionSlot \in [Requests -> VisionRecords(b)]
    /\ visionPermits \in Nat
    /\ visionHolder \in Requests \cup {"none"}
    /\ visionLoaded \in SUBSET Vision(b)!Models
    /\ visionUnhealthy \in BOOLEAN
    /\ visionFile \in [content : Contents, mark : 0..b.rewrites]
    /\ visionClient \in [Vision(b)!Clients -> {"idle", "waiting", "backoff"}]

\* The three ways in which a handler writes its slot.
VisionGoes(i, at) == visionSlot' = [visionSlot EXCEPT ![i] = [visionSlot[i] EXCEPT !.at = at]]
VisionAnswered(i, a) ==
    visionSlot' = [visionSlot EXCEPT ![i] = [visionSlot[i] EXCEPT !.at = "answered", !.answer = a]]
VisionCopied(i) ==
    visionSlot' = [visionSlot EXCEPT ![i] = [visionSlot[i] EXCEPT
               !.at = "waiting", !.copy = visionFile.content, !.mark = visionFile.mark]]

\* Records with a field replaced are records.
LEMMA VisionEdits ==
    ASSUME NEW b \in VisionBounds, NEW r \in VisionRecords(b)
    PROVE  /\ \A at \in Vision(b)!Points : [r EXCEPT !.at = at] \in VisionRecords(b)
           /\ \A at \in Vision(b)!Points, a \in Vision(b)!Answers :
                 [r EXCEPT !.at = at, !.answer = a] \in VisionRecords(b)
           /\ \A at \in Vision(b)!Points, c \in Contents, m \in 0..b.rewrites :
                 [r EXCEPT !.at = at, !.copy = c, !.mark = m] \in VisionRecords(b)
           /\ [r EXCEPT !.client = "none"] \in VisionRecords(b)
<1>1. ASSUME NEW at \in Vision(b)!Points PROVE [r EXCEPT !.at = at] \in VisionRecords(b)
  BY DEF VisionRecords
<1>2. ASSUME NEW at \in Vision(b)!Points, NEW a \in Vision(b)!Answers
      PROVE  [r EXCEPT !.at = at, !.answer = a] \in VisionRecords(b)
  BY DEF VisionRecords
<1>3. ASSUME NEW at \in Vision(b)!Points, NEW c \in Contents, NEW m \in 0..b.rewrites
      PROVE  [r EXCEPT !.at = at, !.copy = c, !.mark = m] \in VisionRecords(b)
  BY DEF VisionRecords
<1>4. [r EXCEPT !.client = "none"] \in VisionRecords(b)
  BY DEF VisionRecords
<1> QED BY <1>1, <1>2, <1>3, <1>4

\* Goto and Answer, as records written into a slot.
LEMMA VisionForms ==
    ASSUME NEW b \in VisionBounds, VisionShapes(b), NEW i \in Requests
    PROVE  /\ \A at : Vision(b)!Goto(i, at) => VisionGoes(i, at)
           /\ \A a : Vision(b)!Answer(i, a) => VisionAnswered(i, a)
<1>1. visionSlot \in [Requests -> VisionRecords(b)]
  BY DEF VisionShapes
<1>2. \A at : Vision(b)!Goto(i, at) => VisionGoes(i, at)
  BY <1>1 DEF Vision!Goto, VisionGoes
<1>3. \A a : Vision(b)!Answer(i, a) => VisionAnswered(i, a)
  BY <1>1 DEF Vision!Answer, VisionAnswered
<1> QED BY <1>2, <1>3

\* What a step of a handler does to its slot.
LEMMA VisionWrites ==
    ASSUME NEW b \in VisionBounds, VisionShapes(b), NEW i \in Requests, Vision(b)!Handle(i)
    PROVE  /\ \/ \E at \in Vision(b)!Points : VisionGoes(i, at)
              \/ \E a \in Vision(b)!Answers : VisionAnswered(i, a)
              \/ VisionCopied(i)
           /\ UNCHANGED <<visionFile, visionClient>>
<1>0. /\ {"answered", "preparing", "waiting", "loading", "inferring", "checking",
          "confirming"} \subseteq Vision(b)!Points
      /\ {"ok", "busy", "rejected", "changed", "failed"} \subseteq Vision(b)!Answers
  BY DEF Vision!Points, Vision!Admitted, Vision!Answers
<1>21. visionSlot' = [visionSlot EXCEPT ![i].at = "answered", ![i].answer = "busy"]
         => VisionAnswered(i, "busy")
  BY DEF VisionAnswered, VisionShapes
<1>22. visionSlot' = [visionSlot EXCEPT ![i].at = "waiting", ![i].copy = visionFile.content,
                            ![i].mark = visionFile.mark]
         => VisionCopied(i)
  BY DEF VisionCopied, VisionShapes
<1>1. CASE Vision(b)!Admit(i)
  BY <1>0, <1>21, <1>22, <1>1, VisionForms DEF Vision!Admit
<1>2. CASE Vision(b)!Prepare(i)
  BY <1>0, <1>21, <1>22, <1>2, VisionForms DEF Vision!Prepare
<1>3. CASE Vision(b)!Lock(i)
  BY <1>0, <1>21, <1>22, <1>3, VisionForms DEF Vision!Lock
<1>4. CASE Vision(b)!Load(i)
  BY <1>0, <1>21, <1>22, <1>4, VisionForms DEF Vision!Load
<1>5. CASE Vision(b)!LoadFails(i)
  BY <1>0, <1>21, <1>22, <1>5, VisionForms DEF Vision!LoadFails
<1>6. CASE Vision(b)!Infer(i)
  BY <1>0, <1>21, <1>22, <1>6, VisionForms DEF Vision!Infer
<1>7. CASE Vision(b)!InferFails(i)
  BY <1>0, <1>21, <1>22, <1>7, VisionForms DEF Vision!InferFails
<1>8. CASE Vision(b)!Check(i)
  BY <1>0, <1>21, <1>22, <1>8, VisionForms DEF Vision!Check
<1>9. CASE Vision(b)!ReleaseDetector(i)
  BY <1>0, <1>21, <1>22, <1>9, VisionForms DEF Vision!ReleaseDetector
<1>10. CASE Vision(b)!Confirm(i)
  BY <1>0, <1>21, <1>22, <1>10, VisionForms DEF Vision!Confirm
<1> QED BY <1>1, <1>2, <1>3, <1>4, <1>5, <1>6, <1>7, <1>8, <1>9, <1>10 DEF Vision!Handle

\* The record a handler leaves is one, and of the same request.
LEMMA VisionWriteShapes ==
    ASSUME NEW b \in VisionBounds, VisionShapes(b), NEW i \in Requests, Vision(b)!Handle(i)
    PROVE  /\ visionSlot' \in [Requests -> VisionRecords(b)]
           /\ \A j \in Requests : /\ j # i => visionSlot'[j] = visionSlot[j]
                              /\ visionSlot'[j].op = visionSlot[j].op
                              /\ visionSlot'[j].want = visionSlot[j].want
<1>1. visionSlot \in [Requests -> VisionRecords(b)] /\ visionSlot[i] \in VisionRecords(b)
      /\ visionFile.content \in Contents /\ visionFile.mark \in 0..b.rewrites
  BY DEF VisionShapes
<1>2. {"answered", "waiting"} \subseteq Vision(b)!Points
  BY DEF Vision!Points, Vision!Admitted
<1>3. PICK r \in VisionRecords(b) : /\ visionSlot' = [visionSlot EXCEPT ![i] = r]
                           /\ r.op = visionSlot[i].op /\ r.want = visionSlot[i].want
  <2>1. CASE \E at \in Vision(b)!Points : VisionGoes(i, at)
    <3>1. PICK at \in Vision(b)!Points : VisionGoes(i, at)
      BY <2>1
    <3> DEFINE r == [visionSlot[i] EXCEPT !.at = at]
    <3>2. r \in VisionRecords(b)
      BY <1>1, VisionEdits
    <3>3. r.op = visionSlot[i].op /\ r.want = visionSlot[i].want
      BY <1>1 DEF VisionRecords
    <3> QED BY <3>1, <3>2, <3>3 DEF VisionGoes
  <2>2. CASE \E a \in Vision(b)!Answers : VisionAnswered(i, a)
    <3>1. PICK a \in Vision(b)!Answers : VisionAnswered(i, a)
      BY <2>2
    <3> DEFINE r == [visionSlot[i] EXCEPT !.at = "answered", !.answer = a]
    <3>2. r \in VisionRecords(b)
      BY <1>1, <1>2, VisionEdits
    <3>3. r.op = visionSlot[i].op /\ r.want = visionSlot[i].want
      BY <1>1 DEF VisionRecords
    <3> QED BY <3>1, <3>2, <3>3 DEF VisionAnswered
  <2>3. CASE VisionCopied(i)
    <3> DEFINE r == [visionSlot[i] EXCEPT !.at = "waiting", !.copy = visionFile.content,
                                    !.mark = visionFile.mark]
    <3>2. r \in VisionRecords(b)
      BY <1>1, <1>2, VisionEdits
    <3>3. r.op = visionSlot[i].op /\ r.want = visionSlot[i].want
      BY <1>1 DEF VisionRecords
    <3> QED BY <2>3, <3>2, <3>3 DEF VisionCopied
  <2> QED BY <2>1, <2>2, <2>3, VisionWrites
<1>4. visionSlot'[i] = r /\ \A j \in Requests : j # i => visionSlot'[j] = visionSlot[j]
  BY <1>1, <1>3
<1>5. visionSlot' \in [Requests -> VisionRecords(b)]
  BY <1>1, <1>3
<1> QED BY <1>3, <1>4, <1>5

\* The fields a handler's step leaves.
LEMMA VisionArrives ==
    ASSUME NEW b \in VisionBounds, VisionShapes(b), NEW i \in Requests
    PROVE  /\ \A at : VisionGoes(i, at) => /\ visionSlot'[i].at = at
                                     /\ visionSlot'[i].copy = visionSlot[i].copy
                                     /\ visionSlot'[i].answer = visionSlot[i].answer
           /\ \A a : VisionAnswered(i, a)
                => /\ visionSlot'[i].at = "answered" /\ visionSlot'[i].answer = a
                                       /\ visionSlot'[i].copy = visionSlot[i].copy
           /\ VisionCopied(i)
                => visionSlot'[i].at = "waiting" /\ visionSlot'[i].copy = visionFile.content
<1>1. visionSlot \in [Requests -> VisionRecords(b)] /\ visionSlot[i] \in VisionRecords(b)
  BY DEF VisionShapes
<1>2. ASSUME NEW at, VisionGoes(i, at)
      PROVE  /\ visionSlot'[i].at = at /\ visionSlot'[i].copy = visionSlot[i].copy
             /\ visionSlot'[i].answer = visionSlot[i].answer
  BY <1>1, <1>2 DEF VisionGoes, VisionRecords
<1>3. ASSUME NEW a, VisionAnswered(i, a)
      PROVE  /\ visionSlot'[i].at = "answered" /\ visionSlot'[i].answer = a
             /\ visionSlot'[i].copy = visionSlot[i].copy
  BY <1>1, <1>3 DEF VisionAnswered, VisionRecords
<1>4. VisionCopied(i) => visionSlot'[i].at = "waiting" /\ visionSlot'[i].copy = visionFile.content
  BY <1>1 DEF VisionCopied, VisionRecords
<1> QED BY <1>2, <1>3, <1>4

\* The lock, the operations at each point, models and copies.
VisionInv(b) ==
    /\ VisionShapes(b)
    /\ \A i \in Requests : visionHolder = i <=> visionSlot[i].at \in {"loading", "inferring"}
    /\ \A i \in Requests :
          /\ visionSlot[i].at \in {"preparing", "checking"}
               => visionSlot[i].op \in Vision(b)!HasSource
          /\ visionSlot[i].at = "inferring" => visionSlot[i].op # "release_detector"
          /\ visionSlot[i].at = "confirming" => visionSlot[i].op = "release_detector"
    /\ Vision(b)!OneModelResident
    /\ Vision(b)!ModelInUseStays
    /\ Vision(b)!UnhealthyNeverInfers
    /\ \A i \in Requests :
          /\ visionSlot[i].op \in Vision(b)!HasSource
          /\ \/ visionSlot[i].at \in {"waiting", "loading", "inferring", "checking"}
             \/ visionSlot[i].at = "answered" /\ visionSlot[i].answer = "ok"
          => visionSlot[i].copy = visionSlot[i].want

\* Every step of a handler keeps the invariant.
LEMMA VisionHandlers ==
    ASSUME NEW b \in VisionBounds, Vision(b)!WorkerAssumption, VisionInv(b), NEW i \in Requests,
           Vision(b)!Handle(i)
    PROVE  VisionInv(b)'
<1>1. VisionShapes(b)
  BY DEF VisionInv
<1>2. /\ visionSlot' \in [Requests -> VisionRecords(b)]
      /\ \A j \in Requests : /\ j # i => visionSlot'[j] = visionSlot[j]
                          /\ visionSlot'[j].op = visionSlot[j].op
                          /\ visionSlot'[j].want = visionSlot[j].want
  BY <1>1, VisionWriteShapes
<1>3. UNCHANGED <<visionFile, visionClient>>
  BY <1>1, VisionWrites
<1>4. \A f : Vision(b)!Goto(i, f) =>
         /\ visionSlot'[i].at = f
         /\ visionSlot'[i].copy = visionSlot[i].copy /\ visionSlot'[i].answer = visionSlot[i].answer
  BY <1>1, VisionForms, VisionArrives
<1>5. \A a : Vision(b)!Answer(i, a) =>
         /\ visionSlot'[i].at = "answered" /\ visionSlot'[i].answer = a
         /\ visionSlot'[i].copy = visionSlot[i].copy /\ visionPermits' = visionPermits + 1
  <2>1. \A a : Vision(b)!Answer(i, a) => VisionAnswered(i, a) /\ visionPermits' = visionPermits + 1
    BY <1>1, VisionForms DEF Vision!Answer
  <2> QED BY <1>1, <2>1, VisionArrives
<1>6. "none" \notin Requests
  BY DEF Vision!WorkerAssumption
<1>7. visionSlot[i].op \in Vision(b)!Ops
  BY <1>1 DEF VisionShapes, VisionRecords
<1> USE DEF VisionInv, Vision!OneModelResident, Vision!ModelInUseStays,
            Vision!UnhealthyNeverInfers, Vision!Unlock, Vision!DropFails, Vision!Ops
<1>10. CASE Vision(b)!Admit(i)
  <2>1. visionSlot' = [visionSlot EXCEPT ![i].at = "answered", ![i].answer = "busy"]
          => visionSlot'[i].at = "answered" /\ visionSlot'[i].answer = "busy"
    BY <1>1 DEF VisionShapes, VisionRecords
  <2>2. VisionShapes(b)'
    BY <1>1, <1>2, <1>3, <1>10 DEF VisionShapes, Vision!Admit
  <2>3. /\ visionSlot[i].at = "sent" /\ visionSlot'[i].at \in {"answered", "preparing", "waiting"}
        /\ visionSlot'[i].at = "answered" => visionSlot'[i].answer = "busy"
        /\ visionSlot'[i].at # "answered" =>
              visionSlot'[i].at = IF visionSlot[i].op \in Vision(b)!HasSource
                                  THEN "preparing" ELSE "waiting"
        /\ UNCHANGED <<visionHolder, visionLoaded, visionUnhealthy>>
    BY <2>1, <1>4, <1>10 DEF Vision!Admit
  <2> QED BY <1>2, <1>3, <2>2, <2>3
<1>11. CASE Vision(b)!Prepare(i)
  <2>1. VisionShapes(b)'
    BY <1>1, <1>2, <1>3, <1>11 DEF VisionShapes, Vision!Prepare, Vision!Answer
  <2>2. visionSlot' = [visionSlot EXCEPT ![i].at = "waiting", ![i].copy = visionFile.content,
                             ![i].mark = visionFile.mark]
          => visionSlot'[i].at = "waiting" /\ visionSlot'[i].copy = visionFile.content
    BY <1>1 DEF VisionShapes, VisionRecords
  <2> QED BY <1>2, <1>3, <1>5, <1>6, <1>11, <2>1, <2>2 DEF Vision!Prepare
<1>12. CASE Vision(b)!Lock(i)
  <2>1. VisionShapes(b)'
    BY <1>1, <1>2, <1>3, <1>12 DEF VisionShapes, Vision!Lock, Vision!Answer
  <2> QED BY <1>1, <1>2, <1>3, <1>4, <1>5, <1>6, <1>7, <1>12, <2>1 DEF Vision!Lock
<1>13. CASE Vision(b)!Load(i)
  <2>1. VisionShapes(b)'
    BY <1>1, <1>2, <1>3, <1>13 DEF VisionShapes, Vision!Load, Vision!Answer
  <2> QED BY <1>1, <1>2, <1>3, <1>4, <1>5, <1>6, <1>7, <1>13, <2>1 DEF Vision!Load
<1>14. CASE Vision(b)!LoadFails(i)
  <2>1. VisionShapes(b)'
    <3>1. visionLoaded' \in SUBSET Vision(b)!Models /\ visionUnhealthy' \in BOOLEAN
      BY <1>1, <1>14 DEF VisionShapes, Vision!LoadFails
    <3>2. visionPermits' \in Nat /\ visionHolder' \in Requests \cup {"none"}
      BY <1>1, <1>14 DEF VisionShapes, Vision!LoadFails, Vision!Answer
    <3> QED BY <1>1, <1>2, <1>3, <3>1, <3>2 DEF VisionShapes
  <2> QED BY <1>1, <1>2, <1>3, <1>4, <1>5, <1>6, <1>7, <1>14, <2>1 DEF Vision!LoadFails
<1>15. CASE Vision(b)!Infer(i)
  <2>1. VisionShapes(b)'
    BY <1>1, <1>2, <1>3, <1>15 DEF VisionShapes, Vision!Infer, Vision!Answer
  <2> QED BY <1>1, <1>2, <1>3, <1>4, <1>5, <1>6, <1>7, <1>15, <2>1 DEF Vision!Infer
<1>16. CASE Vision(b)!InferFails(i)
  <2>1. VisionShapes(b)'
    BY <1>1, <1>2, <1>3, <1>16 DEF VisionShapes, Vision!InferFails, Vision!Answer
  <2> QED BY <1>1, <1>2, <1>3, <1>4, <1>5, <1>6, <1>7, <1>16, <2>1 DEF Vision!InferFails
<1>17. CASE Vision(b)!Check(i)
  <2>1. VisionShapes(b)'
    BY <1>1, <1>2, <1>3, <1>17 DEF VisionShapes, Vision!Check, Vision!Answer
  <2> QED BY <1>1, <1>2, <1>3, <1>4, <1>5, <1>6, <1>7, <1>17, <2>1 DEF Vision!Check
<1>18. CASE Vision(b)!ReleaseDetector(i)
  <2>1. VisionShapes(b)'
    <3>1. visionLoaded' \in SUBSET Vision(b)!Models /\ visionUnhealthy' \in BOOLEAN
      BY <1>1, <1>18 DEF VisionShapes, Vision!ReleaseDetector
    <3>2. visionPermits' \in Nat /\ visionHolder' \in Requests \cup {"none"}
      BY <1>1, <1>18 DEF VisionShapes, Vision!ReleaseDetector, Vision!Answer
    <3> QED BY <1>1, <1>2, <1>3, <3>1, <3>2 DEF VisionShapes
  <2> QED BY <1>1, <1>2, <1>3, <1>4, <1>5, <1>6, <1>7, <1>18, <2>1 DEF Vision!ReleaseDetector
<1>19. CASE Vision(b)!Confirm(i)
  <2>1. VisionShapes(b)'
    BY <1>1, <1>2, <1>3, <1>19 DEF VisionShapes, Vision!Confirm, Vision!Answer
  <2> QED BY <1>1, <1>2, <1>3, <1>4, <1>5, <1>6, <1>7, <1>19, <2>1 DEF Vision!Confirm
<1> QED BY <1>10, <1>11, <1>12, <1>13, <1>14, <1>15, <1>16, <1>17, <1>18, <1>19 DEF Vision!Handle

\* Clients, the world and a restart keep it too.
LEMMA VisionOthers ==
    ASSUME NEW b \in VisionBounds, Vision(b)!WorkerAssumption, VisionInv(b),
           \/ \E c \in Vision(b)!Clients, op \in Vision(b)!Ops, i \in Requests :
                Vision(b)!Send(c, op, i)
           \/ \E c \in Vision(b)!Clients : Vision(b)!Abandon(c)
           \/ \E i \in Requests : Vision(b)!Receive(i)
           \/ Vision(b)!Rewrite \/ Vision(b)!Restart \/ UNCHANGED Vision(b)!vars
    PROVE  VisionInv(b)'
<1>1. visionSlot \in [Requests -> VisionRecords(b)] /\ VisionShapes(b)
  BY DEF VisionInv, VisionShapes
<1>2. Vision(b)!Free \in VisionRecords(b) /\ Vision(b)!Free.at = "free" /\ "none" \notin Requests
  BY DEF Vision!Free, VisionRecords, Vision!Ops, Vision!Points, Vision!WorkerAssumption
<1> USE DEF VisionInv, Vision!OneModelResident, Vision!ModelInUseStays,
            Vision!UnhealthyNeverInfers
<1>3. ASSUME NEW c \in Vision(b)!Clients, NEW op \in Vision(b)!Ops, NEW i \in Requests,
             Vision(b)!Send(c, op, i)
      PROVE  VisionInv(b)'
  <2> DEFINE r == [Vision(b)!Free EXCEPT
                     !.client = c, !.op = op, !.at = "sent",
                     !.want = IF op \in Vision(b)!HasSource THEN visionFile.content ELSE "none"]
  <2>1. r \in VisionRecords(b) /\ r.at = "sent"
    <3> DEFINE w == IF op \in Vision(b)!HasSource THEN visionFile.content ELSE "none"
    <3>1. w \in Contents \cup {"none"}
      BY <1>1 DEF VisionShapes
    <3>2. 0 \in 0..b.rewrites /\ "sent" \in Vision(b)!Points
      BY DEF Vision!WorkerAssumption, Vision!Points
    <3>3. r = [Vision(b)!Free EXCEPT !.client = c, !.op = op, !.at = "sent", !.want = w]
      OBVIOUS
    <3> HIDE DEF w, r
    <3> QED BY <3>1, <3>2, <3>3 DEF VisionRecords, Vision!Free
  <2>2. visionSlot' = [visionSlot EXCEPT ![i] = r] /\ visionSlot[i].at = "free"
    BY <1>3 DEF Vision!Send
  <2>3. visionClient' \in [Vision(b)!Clients -> {"idle", "waiting", "backoff"}]
    BY <1>1, <1>3 DEF Vision!Send, VisionShapes
  <2>4. UNCHANGED <<visionPermits, visionHolder, visionLoaded, visionUnhealthy, visionFile>>
    BY <1>3 DEF Vision!Send
  <2> HIDE DEF r
  <2>5. /\ visionSlot' \in [Requests -> VisionRecords(b)] /\ visionSlot'[i] = r
        /\ \A j \in Requests : j # i => visionSlot'[j] = visionSlot[j]
    BY <1>1, <2>1, <2>2
  <2>6. VisionShapes(b)'
    BY <1>1, <2>3, <2>4, <2>5 DEF VisionShapes
  <2> QED BY <2>1, <2>2, <2>4, <2>5, <2>6
<1>4. ASSUME NEW i \in Requests, Vision(b)!Receive(i) PROVE VisionInv(b)'
  <2>1. visionSlot' = [visionSlot EXCEPT ![i] = Vision(b)!Free] /\ visionSlot[i].at = "answered"
    BY <1>4 DEF Vision!Receive
  <2>2. UNCHANGED <<visionPermits, visionHolder, visionLoaded, visionUnhealthy, visionFile>>
    BY <1>4 DEF Vision!Receive
  <2>3. visionClient' \in [Vision(b)!Clients -> {"idle", "waiting", "backoff"}]
    BY <1>1, <1>4 DEF Vision!Receive, VisionShapes
  <2>4. /\ visionSlot' \in [Requests -> VisionRecords(b)] /\ visionSlot'[i] = Vision(b)!Free
        /\ \A j \in Requests : j # i => visionSlot'[j] = visionSlot[j]
    BY <1>1, <1>2, <2>1
  <2>5. VisionShapes(b)'
    BY <1>1, <2>2, <2>3, <2>4 DEF VisionShapes
  <2> QED BY <1>2, <2>1, <2>2, <2>4, <2>5
<1>5. ASSUME NEW c \in Vision(b)!Clients, Vision(b)!Abandon(c) PROVE VisionInv(b)'
  <2>1. visionSlot' = [i \in Requests |-> IF visionSlot[i].client = c
                                 THEN [visionSlot[i] EXCEPT !.client = "none"] ELSE visionSlot[i]]
    BY <1>5 DEF Vision!Abandon
  <2>2. \A i \in Requests : [visionSlot[i] EXCEPT !.client = "none"] \in VisionRecords(b)
    BY <1>1, VisionEdits
  <2>3. visionSlot' \in [Requests -> VisionRecords(b)]
    BY <1>1, <2>1, <2>2
  <2>4. \A i \in Requests : /\ visionSlot'[i].at = visionSlot[i].at
                         /\ visionSlot'[i].op = visionSlot[i].op
                         /\ visionSlot'[i].copy = visionSlot[i].copy
                         /\ visionSlot'[i].want = visionSlot[i].want
                         /\ visionSlot'[i].answer = visionSlot[i].answer
    BY <1>1, <2>1 DEF VisionRecords
  <2>5. visionClient' \in [Vision(b)!Clients -> {"idle", "waiting", "backoff"}]
    BY <1>1, <1>5 DEF Vision!Abandon, VisionShapes
  <2>6. UNCHANGED <<visionPermits, visionHolder, visionLoaded, visionUnhealthy, visionFile>>
    BY <1>5 DEF Vision!Abandon
  <2>7. VisionShapes(b)'
    BY <1>1, <2>3, <2>5, <2>6 DEF VisionShapes
  <2> QED BY <2>4, <2>6, <2>7
<1>6. CASE Vision(b)!Rewrite
  <2>1. visionFile' \in [content : Contents, mark : 0..b.rewrites]
    BY <1>1, <1>6 DEF Vision!Rewrite, VisionShapes, Vision!WorkerAssumption
  <2>2. UNCHANGED <<visionSlot, visionPermits, visionHolder, visionLoaded, visionUnhealthy,
          visionClient>>
    BY <1>6 DEF Vision!Rewrite
  <2>3. VisionShapes(b)'
    BY <1>1, <2>1, <2>2 DEF VisionShapes
  <2> QED BY <2>2, <2>3
<1>7. CASE Vision(b)!Restart
  <2>1. /\ visionSlot' = [i \in Requests |-> Vision(b)!Free] /\ visionPermits' = b.permits
        /\ visionHolder' = "none" /\ visionLoaded' = {} /\ visionUnhealthy' = FALSE
        /\ visionFile' = visionFile
    BY <1>7 DEF Vision!Restart
  <2>2. visionClient' \in [Vision(b)!Clients -> {"idle", "waiting", "backoff"}]
    BY <1>1, <1>7 DEF Vision!Restart, VisionShapes
  <2>3. VisionShapes(b)'
    <3>1. visionSlot' \in [Requests -> VisionRecords(b)]
      BY <1>2, <2>1
    <3>2. b.permits \in Nat
      BY DEF Vision!WorkerAssumption
    <3> QED BY <1>1, <2>1, <2>2, <3>1, <3>2 DEF VisionShapes
  <2> QED BY <1>2, <2>1, <2>3
<1>8. CASE UNCHANGED Vision(b)!vars
  BY <1>1, <1>8 DEF Vision!vars, VisionShapes
<1> QED BY <1>3, <1>4, <1>5, <1>6, <1>7, <1>8

\* The requests that hold a permit.
VisionUnderWay(b) == {i \in Requests : visionSlot[i].at \in Vision(b)!Admitted}
VisionCounted(b) ==
    /\ IsFiniteSet(VisionUnderWay(b))
    /\ visionPermits + Cardinality(VisionUnderWay(b)) = b.permits

\* A request takes a permit, and gives it back.
LEMMA VisionEnters ==
    ASSUME NEW b \in VisionBounds, VisionShapes(b), VisionCounted(b), NEW i \in Requests,
           i \notin VisionUnderWay(b),
           VisionUnderWay(b)' = VisionUnderWay(b) \cup {i}, visionPermits # 0,
           visionPermits' = visionPermits - 1
    PROVE  VisionCounted(b)'
<1>1. /\ IsFiniteSet(VisionUnderWay(b) \cup {i})
      /\ Cardinality(VisionUnderWay(b) \cup {i}) = Cardinality(VisionUnderWay(b)) + 1
  BY FS_AddElement DEF VisionCounted
<1>2. Cardinality(VisionUnderWay(b)) \in Nat
  BY FS_CardinalityType DEF VisionCounted
<1>3. visionPermits - 1 + (Cardinality(VisionUnderWay(b)) + 1) = b.permits
  BY <1>2 DEF VisionCounted, VisionShapes
<1> QED BY <1>1, <1>3 DEF VisionCounted

LEMMA VisionLeaves ==
    ASSUME NEW b \in VisionBounds, VisionShapes(b), VisionCounted(b), NEW i \in VisionUnderWay(b),
           VisionUnderWay(b)' = VisionUnderWay(b) \ {i}, visionPermits' = visionPermits + 1
    PROVE  VisionCounted(b)'
<1>1. /\ IsFiniteSet(VisionUnderWay(b) \ {i})
      /\ Cardinality(VisionUnderWay(b) \ {i}) = Cardinality(VisionUnderWay(b)) - 1
  BY FS_RemoveElement DEF VisionCounted
<1>2. Cardinality(VisionUnderWay(b)) \in Nat
  BY FS_CardinalityType DEF VisionCounted
<1>3. visionPermits + 1 + (Cardinality(VisionUnderWay(b)) - 1) = b.permits
  BY <1>2 DEF VisionCounted, VisionShapes
<1> QED BY <1>1, <1>3 DEF VisionCounted

\* With one permit, whoever is under way is alone.
LEMMA VisionAlone ==
    ASSUME NEW b \in VisionBounds, VisionShapes(b), VisionCounted(b), b.permits = 1,
           NEW i \in VisionUnderWay(b), NEW j \in VisionUnderWay(b)
    PROVE  i = j
<1>1. IsFiniteSet(VisionUnderWay(b) \ {i})
        /\ Cardinality(VisionUnderWay(b) \ {i}) = Cardinality(VisionUnderWay(b)) - 1
  BY FS_RemoveElement DEF VisionCounted
<1>2. Cardinality(VisionUnderWay(b) \ {i}) \in Nat /\ Cardinality(VisionUnderWay(b)) \in Nat
  BY <1>1, FS_CardinalityType DEF VisionCounted
<1>3. Cardinality(VisionUnderWay(b) \ {i}) = 0
  BY <1>1, <1>2 DEF VisionCounted, VisionShapes
<1> QED BY <1>1, <1>3, FS_EmptySet

\* Every path through a handler, abandoned or failed, counts its permit.
LEMMA VisionCountedStep ==
    ASSUME NEW b \in VisionBounds, Vision(b)!WorkerAssumption, VisionInv(b), VisionCounted(b),
           [Vision(b)!Next]_(Vision(b)!vars)
    PROVE  VisionCounted(b)'
<1>1. VisionShapes(b) /\ visionSlot \in [Requests -> VisionRecords(b)]
  BY DEF VisionInv, VisionShapes
<1>2. ASSUME visionPermits' = visionPermits,
             \A i \in Requests : visionSlot'[i].at \in Vision(b)!Admitted
                                                    <=> visionSlot[i].at \in Vision(b)!Admitted
      PROVE  VisionCounted(b)'
  <2>1. VisionUnderWay(b)' = VisionUnderWay(b)
    BY <1>2 DEF VisionUnderWay
  <2> QED BY <1>2, <2>1 DEF VisionCounted
<1>3. ASSUME NEW i \in Requests, Vision(b)!Handle(i) PROVE VisionCounted(b)'
  <2>1. /\ \A j \in Requests : j # i => visionSlot'[j] = visionSlot[j]
    BY <1>1, <1>3, VisionWriteShapes
  <2>2. \A f : Vision(b)!Goto(i, f) => visionSlot'[i].at = f
    BY <1>1, VisionForms, VisionArrives
  <2>3. \A a : Vision(b)!Answer(i, a)
          => visionSlot'[i].at = "answered" /\ visionPermits' = visionPermits + 1
    <3>1. \A a : Vision(b)!Answer(i, a)
            => VisionAnswered(i, a) /\ visionPermits' = visionPermits + 1
      BY <1>1, VisionForms DEF Vision!Answer
    <3> QED BY <1>1, <3>1, VisionArrives
  <2>4. CASE visionSlot[i].at \in Vision(b)!Admitted /\ visionSlot'[i].at = "answered"
          /\ visionPermits' = visionPermits + 1
    <3>1. VisionUnderWay(b)' = VisionUnderWay(b) \ {i} /\ i \in VisionUnderWay(b)
      BY <2>1, <2>4 DEF VisionUnderWay, Vision!Admitted
    <3> QED BY <1>1, <2>4, <3>1, VisionLeaves
  <2>5. CASE visionSlot[i].at \in Vision(b)!Admitted /\ visionSlot'[i].at \in Vision(b)!Admitted
          /\ visionPermits' = visionPermits
    BY <1>2, <2>1, <2>5
  <2>6. CASE Vision(b)!Admit(i)
    <3>1. visionSlot[i].at = "sent"
      BY <2>6 DEF Vision!Admit
    <3>2. CASE visionPermits = 0
      <4>1. visionSlot'[i].at = "answered" /\ visionPermits' = visionPermits
        <5>1. visionSlot' = [visionSlot EXCEPT ![i].at = "answered", ![i].answer = "busy"]
                => visionSlot'[i].at = "answered"
          BY <1>1 DEF VisionRecords
        <5> QED BY <2>6, <3>2, <5>1 DEF Vision!Admit
      <4> QED BY <1>2, <2>1, <3>1, <4>1 DEF Vision!Admitted
    <3>3. CASE visionPermits # 0
      <4>1. visionSlot'[i].at \in {"preparing", "waiting"} /\ visionPermits' = visionPermits - 1
        BY <2>2, <2>6, <3>3 DEF Vision!Admit
      <4>2. VisionUnderWay(b)' = VisionUnderWay(b) \cup {i} /\ i \notin VisionUnderWay(b)
        BY <2>1, <3>1, <4>1 DEF VisionUnderWay, Vision!Admitted
      <4> QED BY <1>1, <3>3, <4>1, <4>2, VisionEnters
    <3> QED BY <3>2, <3>3
  <2>7. CASE Vision(b)!Prepare(i)
    <3>1. visionSlot' = [visionSlot EXCEPT ![i].at = "waiting", ![i].copy = visionFile.content,
                               ![i].mark = visionFile.mark]
            => visionSlot'[i].at = "waiting"
      BY <1>1
    <3> QED BY <2>3, <2>4, <2>5, <2>7, <3>1 DEF Vision!Prepare, Vision!Admitted
  <2>8. CASE \/ Vision(b)!Lock(i) \/ Vision(b)!Load(i) \/ Vision(b)!LoadFails(i)
             \/ Vision(b)!Infer(i)
             \/ Vision(b)!InferFails(i) \/ Vision(b)!Check(i) \/ Vision(b)!ReleaseDetector(i)
             \/ Vision(b)!Confirm(i)
    BY <2>2, <2>3, <2>4, <2>5, <2>8
    DEF Vision!Lock, Vision!Load, Vision!LoadFails, Vision!Infer, Vision!InferFails,
        Vision!Check, Vision!ReleaseDetector, Vision!Confirm, Vision!Admitted
  <2> QED BY <1>3, <2>6, <2>7, <2>8 DEF Vision!Handle
<1>4. ASSUME NEW c \in Vision(b)!Clients, NEW op \in Vision(b)!Ops, NEW i \in Requests,
             Vision(b)!Send(c, op, i)
      PROVE  VisionCounted(b)'
  <2>1. visionSlot'[i].at = "sent" /\ visionSlot[i].at = "free" /\ visionPermits' = visionPermits
        /\ \A j \in Requests : j # i => visionSlot'[j] = visionSlot[j]
    BY <1>1, <1>4 DEF Vision!Send, Vision!Free
  <2> QED BY <1>2, <2>1 DEF Vision!Admitted
<1>5. ASSUME NEW i \in Requests, Vision(b)!Receive(i) PROVE VisionCounted(b)'
  <2>1. visionSlot'[i].at = "free" /\ visionSlot[i].at = "answered"
          /\ visionPermits' = visionPermits
        /\ \A j \in Requests : j # i => visionSlot'[j] = visionSlot[j]
    BY <1>1, <1>5 DEF Vision!Receive, Vision!Free
  <2> QED BY <1>2, <2>1 DEF Vision!Admitted
<1>6. ASSUME NEW c \in Vision(b)!Clients, Vision(b)!Abandon(c) PROVE VisionCounted(b)'
  <2>1. \A i \in Requests : visionSlot'[i].at = visionSlot[i].at
    BY <1>1, <1>6 DEF Vision!Abandon, VisionRecords
  <2> QED BY <1>2, <1>6, <2>1 DEF Vision!Abandon
<1>7. CASE Vision(b)!Rewrite \/ UNCHANGED Vision(b)!vars
  BY <1>2, <1>7 DEF Vision!Rewrite, Vision!vars
<1>8. CASE Vision(b)!Restart
  <2>1. VisionUnderWay(b)' = {}
    BY <1>8 DEF Vision!Restart, VisionUnderWay, Vision!Free, Vision!Admitted
  <2> QED BY <1>8, <2>1, FS_EmptySet DEF Vision!Restart, VisionCounted, Vision!WorkerAssumption
<1> QED BY <1>3, <1>4, <1>5, <1>6, <1>7, <1>8 DEF Vision!Next

\* With one permit a release that failed has marked the worker, and what it is
\* about to confirm is so.
VisionReleased(b) ==
    b.permits = 1 => \A i \in Requests :
        /\ visionSlot[i].at = "confirming" => "detector" \notin visionLoaded
        /\ /\ visionSlot[i].at = "answered" /\ visionSlot[i].op = "release_detector"
           /\ visionSlot[i].answer = "failed"
           => visionUnhealthy

LEMMA VisionReleasedStep ==
    ASSUME NEW b \in VisionBounds, Vision(b)!WorkerAssumption, VisionInv(b), VisionCounted(b),
           VisionReleased(b),
           [Vision(b)!Next]_(Vision(b)!vars)
    PROVE  VisionReleased(b)'
<1> SUFFICES ASSUME b.permits = 1, NEW j \in Requests
             PROVE  /\ visionSlot'[j].at = "confirming" => "detector" \notin visionLoaded'
                    /\ /\ visionSlot'[j].at = "answered" /\ visionSlot'[j].op = "release_detector"
                       /\ visionSlot'[j].answer = "failed"
                       => visionUnhealthy'
  BY DEF VisionReleased
<1>1. VisionShapes(b) /\ visionSlot \in [Requests -> VisionRecords(b)]
  BY DEF VisionInv, VisionShapes
<1>2. /\ visionSlot[j].at = "confirming" => "detector" \notin visionLoaded
      /\ /\ visionSlot[j].at = "answered" /\ visionSlot[j].op = "release_detector"
         /\ visionSlot[j].answer = "failed"
         => visionUnhealthy
  BY DEF VisionReleased
<1>3. ASSUME NEW i \in Requests, Vision(b)!Handle(i)
      PROVE  /\ visionSlot'[j].at = "confirming" => "detector" \notin visionLoaded'
             /\ /\ visionSlot'[j].at = "answered" /\ visionSlot'[j].op = "release_detector"
                /\ visionSlot'[j].answer = "failed"
                => visionUnhealthy'
  <2>1. /\ \A k \in Requests : /\ k # i => visionSlot'[k] = visionSlot[k]
                            /\ visionSlot'[k].op = visionSlot[k].op
    BY <1>1, <1>3, VisionWriteShapes
  <2>2. \A f : Vision(b)!Goto(i, f) => visionSlot'[i].at = f
    BY <1>1, VisionForms, VisionArrives
  <2>3. \A a : Vision(b)!Answer(i, a) => visionSlot'[i].at = "answered" /\ visionSlot'[i].answer = a
    <3>1. \A a : Vision(b)!Answer(i, a) => VisionAnswered(i, a)
      BY <1>1, VisionForms
    <3> QED BY <1>1, <3>1, VisionArrives
  <2>4. visionSlot[i].at \in Vision(b)!Admitted /\ visionSlot[j].at = "confirming" => i = j
    BY <1>1, VisionAlone DEF VisionUnderWay, Vision!Admitted
  <2>5. /\ visionSlot[i].at \in {"preparing", "checking"}
             => visionSlot[i].op \in Vision(b)!HasSource
        /\ visionSlot[i].at = "inferring" => visionSlot[i].op # "release_detector"
    BY DEF VisionInv
  <2>6. CASE Vision(b)!Admit(i)
    <3>1. visionSlot' = [visionSlot EXCEPT ![i].at = "answered", ![i].answer = "busy"]
            => visionSlot'[i].answer = "busy" /\ visionSlot'[i].at = "answered"
      BY <1>1 DEF VisionRecords
    <3> QED BY <1>2, <2>1, <2>2, <2>6, <3>1 DEF Vision!Admit
  <2>7. CASE Vision(b)!Prepare(i)
    <3>1. visionSlot' = [visionSlot EXCEPT ![i].at = "waiting", ![i].copy = visionFile.content,
                               ![i].mark = visionFile.mark]
            => visionSlot'[i].at = "waiting"
      BY <1>1
    <3> QED BY <1>2, <2>1, <2>3, <2>5, <2>7, <3>1 DEF Vision!Prepare
  <2>8. CASE Vision(b)!Lock(i) \/ Vision(b)!Load(i)
    BY <1>2, <2>1, <2>2, <2>4, <2>8 DEF Vision!Lock, Vision!Load, Vision!Admitted
  <2>9. CASE Vision(b)!LoadFails(i)
    BY <1>2, <2>1, <2>3, <2>4, <2>9 DEF Vision!LoadFails, Vision!DropFails, Vision!Admitted
  <2>10. CASE Vision(b)!Infer(i) \/ Vision(b)!InferFails(i) \/ Vision(b)!Check(i)
    BY <1>2, <2>1, <2>2, <2>3, <2>5, <2>10
    DEF Vision!Infer, Vision!InferFails, Vision!Check
  <2>11. CASE Vision(b)!ReleaseDetector(i)
    BY <1>2, <2>1, <2>2, <2>3, <2>4, <2>11
    DEF Vision!ReleaseDetector, Vision!DropFails, Vision!Admitted
  <2>12. CASE Vision(b)!Confirm(i)
    BY <1>2, <2>1, <2>3, <2>4, <2>12, VisionReleased(b) DEF Vision!Confirm, VisionReleased
  <2> QED BY <1>3, <2>6, <2>7, <2>8, <2>9, <2>10, <2>11, <2>12 DEF Vision!Handle
<1>4. ASSUME NEW c \in Vision(b)!Clients, NEW op \in Vision(b)!Ops, NEW i \in Requests,
             Vision(b)!Send(c, op, i)
      PROVE  /\ \A k \in Requests : k # i => visionSlot'[k] = visionSlot[k]
             /\ visionSlot'[i].at = "sent" /\ UNCHANGED <<visionLoaded, visionUnhealthy>>
  BY <1>1, <1>4 DEF Vision!Send, Vision!Free
<1>5. ASSUME NEW i \in Requests, Vision(b)!Receive(i)
      PROVE  /\ \A k \in Requests : k # i => visionSlot'[k] = visionSlot[k]
             /\ visionSlot'[i].at = "free" /\ UNCHANGED <<visionLoaded, visionUnhealthy>>
  BY <1>1, <1>5 DEF Vision!Receive, Vision!Free
<1>6. ASSUME NEW c \in Vision(b)!Clients, Vision(b)!Abandon(c)
      PROVE  /\ visionSlot'[j].at = visionSlot[j].at /\ visionSlot'[j].op = visionSlot[j].op
             /\ visionSlot'[j].answer = visionSlot[j].answer
             /\ UNCHANGED <<visionLoaded, visionUnhealthy>>
  BY <1>1, <1>6 DEF Vision!Abandon, VisionRecords
<1>7. CASE Vision(b)!Rewrite \/ UNCHANGED Vision(b)!vars
  BY <1>2, <1>7 DEF Vision!Rewrite, Vision!vars
<1>8. CASE Vision(b)!Restart
  BY <1>8 DEF Vision!Restart, Vision!Free
<1> QED BY <1>2, <1>3, <1>4, <1>5, <1>6, <1>7, <1>8 DEF Vision!Next

\* It holds of a worker that has just started, and so always.
LEMMA VisionStart ==
    ASSUME NEW b \in VisionBounds, Vision(b)!WorkerAssumption, Vision(b)!Init
    PROVE  VisionInv(b) /\ VisionCounted(b) /\ VisionReleased(b)
<1>1. Vision(b)!Free \in VisionRecords(b) /\ Vision(b)!Free.at = "free" /\ "none" \notin Requests
  BY DEF Vision!Free, VisionRecords, Vision!Ops, Vision!Points, Vision!WorkerAssumption
<1>2. visionSlot \in [Requests -> VisionRecords(b)] /\ \A i \in Requests : visionSlot[i].at = "free"
  BY <1>1 DEF Vision!Init
<1>3. VisionShapes(b)
  <2>1. visionClient \in [Vision(b)!Clients -> {"idle", "waiting", "backoff"}]
    BY DEF Vision!Init
  <2>2. visionFile \in [content : Contents, mark : 0..b.rewrites]
    BY DEF Vision!Init, Vision!WorkerAssumption
  <2>3. visionPermits \in Nat /\ visionHolder = "none" /\ visionLoaded = {}
          /\ visionUnhealthy = FALSE
    BY DEF Vision!Init, Vision!WorkerAssumption
  <2> QED BY <1>2, <2>1, <2>2, <2>3 DEF VisionShapes
<1>4. VisionInv(b)
  BY <1>1, <1>2, <1>3 DEF VisionInv, Vision!Init, Vision!OneModelResident,
     Vision!ModelInUseStays, Vision!UnhealthyNeverInfers
<1>5. VisionUnderWay(b) = {}
  BY <1>2 DEF VisionUnderWay, Vision!Admitted
<1>6. VisionCounted(b)
  BY <1>5, FS_EmptySet DEF VisionCounted, Vision!Init, Vision!WorkerAssumption
<1> QED BY <1>2, <1>4, <1>6 DEF VisionReleased

LEMMA VisionInvariant ==
    ASSUME NEW b \in VisionBounds, Vision(b)!WorkerAssumption
    PROVE  Vision(b)!Spec => [](VisionInv(b) /\ VisionCounted(b) /\ VisionReleased(b))
<1>1. VisionInv(b) /\ [Vision(b)!Next]_(Vision(b)!vars) => VisionInv(b)'
  BY VisionHandlers, VisionOthers DEF Vision!Next
<1>2. VisionInv(b) /\ VisionCounted(b) /\ VisionReleased(b) /\ [Vision(b)!Next]_(Vision(b)!vars)
        => (VisionInv(b) /\ VisionCounted(b) /\ VisionReleased(b))'
  BY <1>1, VisionCountedStep, VisionReleasedStep
<1> QED BY <1>2, VisionStart, PTL DEF Vision!Spec

\* Whatever clients, slots and images there are, vectors and detections are of the
\* bytes whose digest the client named (_prepare_image, providers/vision_worker.py).
THEOREM VisionEvidence ==
    ASSUME NEW b \in VisionBounds, Vision(b)!WorkerAssumption
    PROVE  Vision(b)!Spec => []Vision(b)!EvidenceIsExact
<1>1. VisionInv(b) => Vision(b)!EvidenceIsExact
  BY DEF VisionInv, Vision!EvidenceIsExact
<1> QED BY <1>1, VisionInvariant, PTL

\* No model is taken from a request that infers with it, and the two models are
\* never on the device together (_load_siglip, _load_detector, release_detector).
THEOREM VisionModelStays ==
    ASSUME NEW b \in VisionBounds, Vision(b)!WorkerAssumption
    PROVE  Vision(b)!Spec => [](Vision(b)!ModelInUseStays /\ Vision(b)!OneModelResident)
<1>1. VisionInv(b) => Vision(b)!ModelInUseStays /\ Vision(b)!OneModelResident
  BY DEF VisionInv
<1> QED BY <1>1, VisionInvariant, PTL

\* The capacity semaphore neither loses a permit nor gains one, however requests
\* end (the finally clauses of the handlers).
THEOREM VisionPermits ==
    ASSUME NEW b \in VisionBounds, Vision(b)!WorkerAssumption
    PROVE  Vision(b)!Spec => [](Vision(b)!TypeOK /\ Vision(b)!PermitsConserved)
<1>1. VisionCounted(b) => Vision(b)!PermitsConserved
  BY DEF VisionCounted, VisionUnderWay, Vision!PermitsConserved, Vision!Cardinality, Cardinality
<1>2. VisionInv(b) /\ VisionCounted(b) => Vision(b)!TypeOK
  <2>1. ASSUME VisionCounted(b), VisionShapes(b) PROVE visionPermits \in 0..b.permits
    <3>1. Cardinality(VisionUnderWay(b)) \in Nat
      BY <2>1, FS_CardinalityType DEF VisionCounted
    <3> QED BY <2>1, <3>1 DEF VisionCounted, VisionShapes, Vision!WorkerAssumption
  <2> QED BY <2>1 DEF VisionInv, VisionShapes, Vision!TypeOK, VisionRecords
<1> QED BY <1>1, <1>2, VisionInvariant, PTL

\* With one permit, a release of the detector that is answered as failed has met a
\* device that could not be cleaned: no other request brought the detector back.
THEOREM VisionReleases ==
    ASSUME NEW b \in VisionBounds, Vision(b)!WorkerAssumption
    PROVE  Vision(b)!Spec => []Vision(b)!ReleaseIsConfirmed
<1>1. VisionReleased(b) => Vision(b)!ReleaseIsConfirmed
  BY DEF VisionReleased, Vision!ReleaseIsConfirmed
<1> QED BY <1>1, VisionInvariant, PTL

(***************************************************************************)
(* The whisper worker.                                                     *)
(***************************************************************************)

WhisperDirs ==
    [there : BOOLEAN, owner : BOOLEAN, lease : BOOLEAN,
     locker : WhisperWorkers \cup {"none"}, copies : SUBSET Copies]
WhisperStates ==
    [at : {"down", "cleaning", "making", "serving", "ending"}, todo : SUBSET Dirs,
     cur : Dirs \cup {"none"}, home : Dirs \cup {"none"}]
WhisperRequests ==
    [at : {"idle", "accepted", "copying", "inferring", "clearing", "checking", "leaving"},
     want : Contents \cup {"none"}, mark : Nat, copy : Copies \cup {"none"},
     bytes : Contents \cup {"mixed", "none"}, answer : {"none", "ok", "refused"}]

WhisperShapes ==
    /\ whisperDir \in [Dirs -> WhisperDirs]
    /\ whisperWorker \in [WhisperWorkers -> WhisperStates]
    /\ whisperRequest \in [WhisperWorkers -> WhisperRequests]
    /\ whisperMedia \in [content : Contents, mark : Nat]

\* Who lives holds the root; what it has open, makes, or serves from.
WhisperOwners ==
    \A w \in WhisperWorkers :
        /\ whisperWorker[w].at # "down" => whisperRootLock = w
        /\ whisperRequest[w].at # "idle" => whisperWorker[w].at = "serving"
        /\ whisperWorker[w].cur # "none" =>
              /\ whisperWorker[w].at \in {"cleaning", "ending"}
              /\ whisperWorker[w].cur \in whisperWorker[w].todo
        /\ whisperWorker[w].at = "making" =>
              LET h == whisperWorker[w].home IN
              /\ h \in Dirs /\ whisperDir[h].there /\ whisperDir[h].copies = {}
              /\ whisperDir[h].lease => whisperDir[h].owner
        /\ whisperWorker[w].at = "serving" =>
              LET h == whisperWorker[w].home IN
              /\ h \in Dirs /\ whisperDir[h].there /\ whisperDir[h].owner
              /\ whisperDir[h].lease /\ whisperDir[h].locker = w

\* The bytes of a request that has a copy are those it named.
WhisperBytes ==
    \A w \in WhisperWorkers :
        \/ whisperRequest[w].at \in {"inferring", "clearing", "checking"}
        \/ whisperRequest[w].at = "leaving" /\ whisperRequest[w].answer = "ok"
        => whisperRequest[w].bytes = whisperRequest[w].want

WhisperInv ==
    /\ WhisperShapes /\ WhisperOwners /\ WhisperBytes
    /\ Whisper!CopiesAreReclaimable /\ Whisper!CopyOutlivesInference

USE DEF Whisper!None, Whisper!Mixed, Whisper!Is

\* While a worker lives no other does anything.
LEMMA WhisperAlone ==
    ASSUME WhisperOwners, NEW w \in WhisperWorkers, whisperWorker[w].at # "down",
           NEW v \in WhisperWorkers, v # w
    PROVE  /\ whisperWorker[v].at = "down" /\ whisperWorker[v].cur = "none"
           /\ whisperRequest[v].at = "idle"
BY DEF WhisperOwners

\* Records with fields replaced are records.
LEMMA WhisperEdits ==
    /\ \A x \in WhisperDirs :
          /\ \A l \in WhisperWorkers \cup {"none"} : [x EXCEPT !.locker = l] \in WhisperDirs
          /\ \A c \in SUBSET Copies : [x EXCEPT !.copies = c] \in WhisperDirs
          /\ \A y \in BOOLEAN : /\ [x EXCEPT !.owner = y] \in WhisperDirs
                                /\ [x EXCEPT !.lease = y] \in WhisperDirs
                                /\ [x EXCEPT !.there = y] \in WhisperDirs
                                /\ [x EXCEPT !.lease = y, !.locker = "none"] \in WhisperDirs
    /\ Whisper!NoDir \in WhisperDirs
    /\ \A x \in WhisperStates :
          /\ \A D \in SUBSET Dirs :
                /\ [x EXCEPT !.todo = D] \in WhisperStates
                /\ [x EXCEPT !.cur = "none", !.todo = D] \in WhisperStates
                /\ [x EXCEPT !.at = "ending", !.todo = D] \in WhisperStates
                /\ [x EXCEPT !.at = "cleaning", !.todo = D] \in WhisperStates
          /\ \A d \in Dirs : /\ [x EXCEPT !.cur = d] \in WhisperStates
                             /\ [x EXCEPT !.at = "making", !.home = d] \in WhisperStates
          /\ [x EXCEPT !.at = "serving"] \in WhisperStates
    /\ Whisper!Down \in WhisperStates
<1>1. ASSUME NEW x \in WhisperDirs
      PROVE  /\ \A l \in WhisperWorkers \cup {"none"} : [x EXCEPT !.locker = l] \in WhisperDirs
             /\ \A c \in SUBSET Copies : [x EXCEPT !.copies = c] \in WhisperDirs
             /\ \A y \in BOOLEAN : /\ [x EXCEPT !.owner = y] \in WhisperDirs
                                   /\ [x EXCEPT !.lease = y] \in WhisperDirs
                                   /\ [x EXCEPT !.there = y] \in WhisperDirs
                                   /\ [x EXCEPT !.lease = y, !.locker = "none"] \in WhisperDirs
  BY DEF WhisperDirs
<1>2. Whisper!NoDir \in WhisperDirs /\ Whisper!Down \in WhisperStates
  BY DEF WhisperDirs, WhisperStates, Whisper!NoDir, Whisper!Down
<1>3. ASSUME NEW x \in WhisperStates, NEW D \in SUBSET Dirs
      PROVE  /\ [x EXCEPT !.todo = D] \in WhisperStates
             /\ [x EXCEPT !.cur = "none", !.todo = D] \in WhisperStates
             /\ [x EXCEPT !.at = "ending", !.todo = D] \in WhisperStates
             /\ [x EXCEPT !.at = "cleaning", !.todo = D] \in WhisperStates
  BY DEF WhisperStates
<1>4. ASSUME NEW x \in WhisperStates, NEW d \in Dirs
      PROVE  /\ [x EXCEPT !.cur = d] \in WhisperStates
             /\ [x EXCEPT !.at = "making", !.home = d] \in WhisperStates
  BY DEF WhisperStates
<1>5. ASSUME NEW x \in WhisperStates PROVE [x EXCEPT !.at = "serving"] \in WhisperStates
  BY DEF WhisperStates
<1> QED BY <1>1, <1>2, <1>3, <1>4, <1>5

\* A step that leaves the requests alone, and in the directories nothing that a
\* request or a lasting copy needs.
LEMMA WhisperQuiet ==
    ASSUME WhisperInv, NEW w \in WhisperWorkers, whisperRequest[w].at = "idle",
           \/ whisperWorker[w].at # "down" \/ whisperRootLock = "none",
           "none" \notin WhisperWorkers,
           UNCHANGED <<whisperRequest, whisperMedia>>,
           whisperDir' \in [Dirs -> WhisperDirs],
           whisperWorker' \in [WhisperWorkers -> WhisperStates],
           \A v \in WhisperWorkers : v # w => whisperWorker'[v] = whisperWorker[v],
           \A d \in Dirs : whisperDir'[d].copies # {} =>
               whisperDir'[d].there /\ whisperDir'[d].owner /\ whisperDir'[d].lease,
           whisperWorker'[w].at # "down" => whisperRootLock' = w,
           whisperWorker'[w].cur # "none" =>
               /\ whisperWorker'[w].at \in {"cleaning", "ending"}
               /\ whisperWorker'[w].cur \in whisperWorker'[w].todo,
           whisperWorker'[w].at = "making" =>
               LET h == whisperWorker'[w].home IN
               /\ h \in Dirs /\ whisperDir'[h].there /\ whisperDir'[h].copies = {}
               /\ whisperDir'[h].lease => whisperDir'[h].owner,
           whisperWorker'[w].at = "serving" =>
               LET h == whisperWorker'[w].home IN
               /\ h \in Dirs /\ whisperDir'[h].there /\ whisperDir'[h].owner
               /\ whisperDir'[h].lease /\ whisperDir'[h].locker = w
    PROVE  WhisperInv'
<1>1. WhisperShapes'
  BY DEF WhisperInv, WhisperShapes
<1>2. \A v \in WhisperWorkers : v # w
        => /\ whisperWorker[v].at = "down" /\ whisperWorker[v].cur = "none"
                                         /\ whisperRequest[v].at = "idle"
  BY DEF WhisperInv, WhisperOwners
<1>3. WhisperOwners'
  BY <1>2 DEF WhisperOwners
<1>4. Whisper!CopyOutlivesInference' /\ WhisperBytes' /\ Whisper!CopiesAreReclaimable'
  BY <1>2 DEF WhisperBytes, Whisper!CopyOutlivesInference, Whisper!CopiesAreReclaimable
<1> QED BY <1>1, <1>3, <1>4 DEF WhisperInv

\* The start and the end of a worker.
LEMMA WhisperLives ==
    ASSUME Whisper!WhisperAssumption, WhisperInv, NEW w \in WhisperWorkers,
           \/ Whisper!Run(w) \/ Whisper!Stop(w) \/ Whisper!UnlinkFails(w)
           \/ Whisper!MakeFails(w)
    PROVE  WhisperInv'
<1>1. /\ whisperDir \in [Dirs -> WhisperDirs]
      /\ whisperWorker \in [WhisperWorkers -> WhisperStates]
      /\ whisperWorker[w] \in WhisperStates
      /\ WhisperShapes /\ WhisperOwners /\ "none" \notin WhisperWorkers /\ "none" \notin Dirs
      /\ \A d \in Dirs : whisperDir[d].copies # {} =>
               whisperDir[d].there /\ whisperDir[d].owner /\ whisperDir[d].lease
  BY DEF WhisperInv, WhisperShapes, Whisper!WhisperAssumption, Whisper!CopiesAreReclaimable
<1>2. /\ UNCHANGED <<whisperRequest, whisperMedia>>
      /\ whisperRequest[w].at = "idle"
  BY <1>1 DEF WhisperOwners, Whisper!Run, Whisper!Stop, Whisper!UnlinkFails,
     Whisper!MakeFails, Whisper!Acquire, Whisper!Unlink, Whisper!Furnish, Whisper!Release,
     Whisper!Open, Whisper!Mkdir, WhisperStates
<1>3. /\ whisperWorker[w].at # "down" => whisperRootLock = w
      /\ whisperWorker[w].cur # "none" =>
            /\ whisperWorker[w].at \in {"cleaning", "ending"}
            /\ whisperWorker[w].cur \in whisperWorker[w].todo
      /\ whisperWorker[w].todo \in SUBSET Dirs
  BY <1>1 DEF WhisperOwners, WhisperStates
<1>4. whisperWorker[w].at = "making" =>
         LET h == whisperWorker[w].home IN
         /\ h \in Dirs /\ whisperDir[h].there /\ whisperDir[h].copies = {}
         /\ whisperDir[h].lease => whisperDir[h].owner
  BY <1>1 DEF WhisperOwners
<1>5. whisperWorker[w].at = "serving" =>
         LET h == whisperWorker[w].home IN
         /\ h \in Dirs /\ whisperDir[h].there /\ whisperDir[h].owner
         /\ whisperDir[h].lease /\ whisperDir[h].locker = w
  BY <1>1 DEF WhisperOwners
<1>6. ASSUME NEW d \in Dirs
      PROVE  whisperDir[d] \in WhisperDirs /\ whisperDir[d].copies \in SUBSET Copies
  BY <1>1 DEF WhisperDirs
<1>11. CASE Whisper!Acquire(w)
  <2> DEFINE D == {d \in Dirs : whisperDir[d].there}
  <2>1. whisperWorker' = [whisperWorker EXCEPT ![w] =
                            [Whisper!Down EXCEPT !.at = "cleaning", !.todo = D]]
        /\ UNCHANGED whisperDir /\ whisperRootLock' = w /\ whisperRootLock = "none"
    BY <1>11 DEF Whisper!Acquire
  <2>2. D \in SUBSET Dirs
    OBVIOUS
  <2> HIDE DEF D
  <2>3. [Whisper!Down EXCEPT !.at = "cleaning", !.todo = D] \in WhisperStates
    BY <2>2, WhisperEdits
  <2>4. whisperWorker'[w].at = "cleaning" /\ whisperWorker'[w].cur = "none"
    BY <1>1, <2>1 DEF Whisper!Down
  <2> QED BY <1>1, <1>2, <2>1, <2>3, <2>4, WhisperQuiet
<1>12. ASSUME NEW d \in Dirs, Whisper!Open(w, d) PROVE WhisperInv'
  <2>1. whisperWorker[w].at \in {"cleaning", "ending"} /\ UNCHANGED whisperRootLock
    BY <1>12 DEF Whisper!Open
  <2>2. CASE Whisper!Ours(d)
    <3>1. /\ whisperDir' = [whisperDir EXCEPT ![d].locker = w]
          /\ whisperWorker' = [whisperWorker EXCEPT ![w].cur = d]
      BY <1>12, <2>2 DEF Whisper!Open
    <3>2. whisperDir' \in [Dirs -> WhisperDirs]
      BY <1>1, <3>1, WhisperEdits
    <3>3. whisperWorker' \in [WhisperWorkers -> WhisperStates]
      BY <1>1, <3>1, WhisperEdits
    <3>4. \A e \in Dirs : /\ whisperDir'[e].copies = whisperDir[e].copies
                          /\ whisperDir'[e].there = whisperDir[e].there
                          /\ whisperDir'[e].owner = whisperDir[e].owner
                          /\ whisperDir'[e].lease = whisperDir[e].lease
      BY <1>1, <3>1 DEF WhisperDirs
    <3>5. /\ whisperWorker'[w].at = whisperWorker[w].at
          /\ whisperWorker'[w].cur = d /\ d \in whisperWorker'[w].todo
          /\ \A v \in WhisperWorkers : v # w => whisperWorker'[v] = whisperWorker[v]
      BY <1>1, <1>12, <3>1 DEF WhisperStates, Whisper!Open
    <3> QED BY <1>1, <1>2, <1>3, <2>1, <3>2, <3>3, <3>4, <3>5, WhisperQuiet
  <2>3. CASE ~Whisper!Ours(d)
    <3>1. /\ whisperDir' = whisperDir
          /\ whisperWorker' = [whisperWorker EXCEPT ![w].todo = @ \ {d}]
      BY <1>12, <2>3 DEF Whisper!Open
    <3>3. whisperWorker' \in [WhisperWorkers -> WhisperStates]
      <4>1. whisperWorker[w].todo \ {d} \in SUBSET Dirs
        BY <1>3
      <4> QED BY <1>1, <3>1, <4>1, WhisperEdits
    <3>5. /\ whisperWorker'[w].at = whisperWorker[w].at /\ whisperWorker'[w].cur = "none"
          /\ \A v \in WhisperWorkers : v # w => whisperWorker'[v] = whisperWorker[v]
      BY <1>1, <1>12, <3>1 DEF WhisperStates, Whisper!Open
    <3> QED BY <1>1, <1>2, <1>3, <2>1, <3>1, <3>3, <3>5, WhisperQuiet
  <2> QED BY <2>2, <2>3
<1>13. CASE Whisper!Unlink(w)
  <2> DEFINE d == whisperWorker[w].cur
  <2>1. d \in Dirs /\ whisperWorker[w].at \in {"cleaning", "ending"} /\ UNCHANGED whisperRootLock
    BY <1>1, <1>3, <1>13 DEF Whisper!Unlink, WhisperStates
  <2> HIDE DEF d
  <2>2. PICK x \in Whisper!Unlinked(whisperDir[d]) :
          /\ whisperDir' = [whisperDir EXCEPT ![d] = x]
          /\ whisperWorker' = IF x.there THEN whisperWorker
                       ELSE [whisperWorker EXCEPT ![w].cur = "none", ![w].todo = @ \ {d}]
    BY <1>13 DEF Whisper!Unlink, d
  <2>3. x \in WhisperDirs /\ (x.copies # {} => x.there /\ x.owner /\ x.lease)
    <3>1. CASE whisperDir[d].copies # {}
      <4>1. PICK c \in whisperDir[d].copies : x = [whisperDir[d] EXCEPT !.copies = @ \ {c}]
        BY <2>2, <3>1 DEF Whisper!Unlinked
      <4>2. whisperDir[d].copies \ {c} \in SUBSET Copies
        BY <1>6, <2>1
      <4>3. x \in WhisperDirs
        BY <1>6, <2>1, <4>1, <4>2, WhisperEdits
      <4>4. x.there = whisperDir[d].there /\ x.owner = whisperDir[d].owner
            /\ x.lease = whisperDir[d].lease
        BY <1>6, <2>1, <4>1 DEF WhisperDirs
      <4> QED BY <1>1, <2>1, <3>1, <4>3, <4>4
    <3>2. CASE whisperDir[d].copies = {}
      <4>1. \/ x = [whisperDir[d] EXCEPT !.owner = FALSE]
            \/ x = [whisperDir[d] EXCEPT !.lease = FALSE, !.locker = "none"]
            \/ x = Whisper!NoDir
        BY <2>2, <3>2 DEF Whisper!Unlinked
      <4>2. CASE x = [whisperDir[d] EXCEPT !.owner = FALSE]
        BY <1>6, <2>1, <3>2, <4>2 DEF WhisperDirs
      <4>3. CASE x = [whisperDir[d] EXCEPT !.lease = FALSE, !.locker = "none"]
        BY <1>6, <2>1, <3>2, <4>3 DEF WhisperDirs
      <4>4. CASE x = Whisper!NoDir
        BY <4>4, WhisperEdits DEF Whisper!NoDir
      <4> QED BY <4>1, <4>2, <4>3, <4>4
    <3> QED BY <3>1, <3>2
  <2>4. whisperDir' \in [Dirs -> WhisperDirs] /\ whisperDir'[d] = x
        /\ \A e \in Dirs : e # d => whisperDir'[e] = whisperDir[e]
    BY <1>1, <2>1, <2>2, <2>3
  <2>5. whisperWorker' \in [WhisperWorkers -> WhisperStates]
    <3>1. whisperWorker[w].todo \ {d} \in SUBSET Dirs
      BY <1>3
    <3> QED BY <1>1, <2>2, <3>1, WhisperEdits
  <2>6. /\ whisperWorker'[w].at = whisperWorker[w].at
        /\ \/ whisperWorker'[w].cur = "none"
           \/ /\ whisperWorker'[w].cur = whisperWorker[w].cur
              /\ whisperWorker'[w].todo = whisperWorker[w].todo
        /\ \A v \in WhisperWorkers : v # w => whisperWorker'[v] = whisperWorker[v]
    BY <1>1, <2>2 DEF WhisperStates
  <2> QED BY <1>1, <1>2, <1>3, <2>1, <2>3, <2>4, <2>5, <2>6, WhisperQuiet
<1>14. CASE Whisper!UnlinkFails(w)
  <2> DEFINE d == whisperWorker[w].cur
  <2>1. /\ d \in Dirs /\ whisperWorker[w].at \in {"cleaning", "ending"}
        /\ UNCHANGED whisperRootLock
        /\ whisperDir' = [whisperDir EXCEPT ![d].locker = "none"]
        /\ whisperWorker' = [whisperWorker EXCEPT ![w].cur = "none", ![w].todo = @ \ {d}]
    BY <1>1, <1>3, <1>14 DEF Whisper!UnlinkFails, WhisperStates
  <2> HIDE DEF d
  <2>2. whisperDir' \in [Dirs -> WhisperDirs]
    BY <1>1, <2>1, WhisperEdits
  <2>3. whisperWorker' \in [WhisperWorkers -> WhisperStates]
    <3>1. whisperWorker[w].todo \ {d} \in SUBSET Dirs
      BY <1>3
    <3> QED BY <1>1, <2>1, <3>1, WhisperEdits
  <2>4. \A e \in Dirs : /\ whisperDir'[e].copies = whisperDir[e].copies
                        /\ whisperDir'[e].there = whisperDir[e].there
                        /\ whisperDir'[e].owner = whisperDir[e].owner
                        /\ whisperDir'[e].lease = whisperDir[e].lease
    BY <1>1, <2>1 DEF WhisperDirs
  <2>5. /\ whisperWorker'[w].at = whisperWorker[w].at /\ whisperWorker'[w].cur = "none"
        /\ \A v \in WhisperWorkers : v # w => whisperWorker'[v] = whisperWorker[v]
    BY <1>1, <2>1 DEF WhisperStates
  <2> QED BY <1>1, <1>2, <1>3, <2>1, <2>2, <2>3, <2>4, <2>5, WhisperQuiet
<1>15. ASSUME NEW d \in Dirs, Whisper!Mkdir(w, d) PROVE WhisperInv'
  <2>1. /\ whisperWorker[w].at = "cleaning" /\ UNCHANGED whisperRootLock
        /\ whisperDir' = [whisperDir EXCEPT ![d] = [Whisper!NoDir EXCEPT !.there = TRUE]]
        /\ whisperWorker' = [whisperWorker EXCEPT ![w].at = "making", ![w].home = d]
    BY <1>15 DEF Whisper!Mkdir
  <2>2. [Whisper!NoDir EXCEPT !.there = TRUE] \in WhisperDirs
    BY WhisperEdits
  <2>3. /\ whisperDir' \in [Dirs -> WhisperDirs]
        /\ \A e \in Dirs : e # d => whisperDir'[e] = whisperDir[e]
    BY <1>1, <2>1, <2>2
  <2>4. whisperDir'[d].there /\ whisperDir'[d].copies = {} /\ ~whisperDir'[d].lease
    BY <1>1, <2>1 DEF Whisper!NoDir
  <2>5. whisperWorker' \in [WhisperWorkers -> WhisperStates]
    BY <1>1, <2>1, WhisperEdits
  <2>6. /\ whisperWorker'[w].at = "making" /\ whisperWorker'[w].home = d
        /\ \A v \in WhisperWorkers : v # w => whisperWorker'[v] = whisperWorker[v]
        /\ whisperWorker'[w].cur = whisperWorker[w].cur
    BY <1>1, <2>1 DEF WhisperStates
  <2>7. whisperWorker[w].cur = "none"
    BY <1>3, <1>15 DEF Whisper!Mkdir
  <2>8. \A e \in Dirs : whisperDir'[e].copies # {} =>
            whisperDir'[e].there /\ whisperDir'[e].owner /\ whisperDir'[e].lease
    BY <1>1, <2>3, <2>4
  <2>9. whisperRootLock' = w /\ whisperRootLock = w
    BY <1>3, <2>1
  <2>10. LET h == whisperWorker'[w].home IN
         /\ h \in Dirs /\ whisperDir'[h].there /\ whisperDir'[h].copies = {}
         /\ whisperDir'[h].lease => whisperDir'[h].owner
    BY <2>4, <2>6
  <2>11. /\ whisperWorker'[w].cur = "none" /\ whisperWorker'[w].at = "making"
         /\ whisperWorker[w].at # "down" /\ "none" \notin WhisperWorkers
         /\ \A v \in WhisperWorkers : v # w => whisperWorker'[v] = whisperWorker[v]
    BY <1>1, <2>1, <2>6, <2>7
  <2>12. whisperDir' \in [Dirs -> WhisperDirs]
    BY <2>3
  <2> QED BY <1>2, <2>5, <2>8, <2>9, <2>10, <2>11, <2>12, WhisperQuiet
<1>16. CASE Whisper!Furnish(w)
  <2> DEFINE d == whisperWorker[w].home
  <2>1. /\ whisperWorker[w].at = "making" /\ UNCHANGED whisperRootLock
        /\ d \in Dirs /\ whisperDir[d].there /\ whisperDir[d].copies = {}
        /\ whisperDir[d].lease => whisperDir[d].owner
    BY <1>4, <1>16 DEF Whisper!Furnish
  <2> HIDE DEF d
  <2>2. CASE ~whisperDir[d].owner /\ whisperDir' = [whisperDir EXCEPT ![d].owner = TRUE]
             /\ UNCHANGED whisperWorker
    <3>1. whisperDir' \in [Dirs -> WhisperDirs]
      BY <1>1, <2>2, WhisperEdits
    <3>2. /\ whisperDir'[d].there /\ whisperDir'[d].copies = {} /\ whisperDir'[d].owner
          /\ \A e \in Dirs : e # d => whisperDir'[e] = whisperDir[e]
      BY <1>1, <2>1, <2>2 DEF WhisperDirs
    <3> QED BY <1>1, <1>2, <1>3, <2>1, <2>2, <3>1, <3>2, WhisperQuiet DEF d
  <2>3. CASE /\ whisperDir[d].owner /\ whisperDir' = [whisperDir EXCEPT ![d].lease = TRUE]
             /\ UNCHANGED whisperWorker
    <3>1. whisperDir' \in [Dirs -> WhisperDirs]
      BY <1>1, <2>3, WhisperEdits
    <3>2. /\ whisperDir'[d].there /\ whisperDir'[d].copies = {} /\ whisperDir'[d].owner
          /\ \A e \in Dirs : e # d => whisperDir'[e] = whisperDir[e]
      BY <1>1, <2>1, <2>3 DEF WhisperDirs
    <3> QED BY <1>1, <1>2, <1>3, <2>1, <2>3, <3>1, <3>2, WhisperQuiet DEF d
  <2>4. CASE /\ whisperDir[d].lease /\ whisperDir' = [whisperDir EXCEPT ![d].locker = w]
             /\ whisperWorker' = [whisperWorker EXCEPT ![w].at = "serving"]
    <3>1. whisperDir' \in [Dirs -> WhisperDirs]
      BY <1>1, <2>4, WhisperEdits
    <3>2. /\ whisperDir'[d].there /\ whisperDir'[d].copies = {} /\ whisperDir'[d].owner
          /\ whisperDir'[d].lease /\ whisperDir'[d].locker = w
          /\ \A e \in Dirs : e # d => whisperDir'[e] = whisperDir[e]
      BY <1>1, <2>1, <2>4 DEF WhisperDirs
    <3>3. whisperWorker' \in [WhisperWorkers -> WhisperStates]
      BY <1>1, <2>4, WhisperEdits
    <3>4. /\ whisperWorker'[w].at = "serving" /\ whisperWorker'[w].home = d
          /\ whisperWorker'[w].cur = whisperWorker[w].cur
          /\ \A v \in WhisperWorkers : v # w => whisperWorker'[v] = whisperWorker[v]
      BY <1>1, <2>4 DEF WhisperStates, d
    <3> QED BY <1>1, <1>2, <1>3, <2>1, <3>1, <3>2, <3>3, <3>4, WhisperQuiet
  <2> QED BY <1>16, <2>2, <2>3, <2>4 DEF Whisper!Furnish, d
<1>17. CASE Whisper!MakeFails(w)
  <2> DEFINE d == whisperWorker[w].home
  <2>1. /\ whisperWorker[w].at = "making" /\ d \in Dirs
        /\ whisperDir' = [whisperDir EXCEPT ![d] = Whisper!NoDir]
        /\ whisperWorker' = [whisperWorker EXCEPT ![w] = Whisper!Down]
    BY <1>4, <1>17 DEF Whisper!MakeFails
  <2> HIDE DEF d
  <2>2. /\ whisperDir' \in [Dirs -> WhisperDirs] /\ whisperDir'[d].copies = {}
        /\ \A e \in Dirs : e # d => whisperDir'[e] = whisperDir[e]
    BY <1>1, <2>1, WhisperEdits DEF Whisper!NoDir
  <2>3. /\ whisperWorker' \in [WhisperWorkers -> WhisperStates]
        /\ whisperWorker'[w].at = "down" /\ whisperWorker'[w].cur = "none"
        /\ \A v \in WhisperWorkers : v # w => whisperWorker'[v] = whisperWorker[v]
    BY <1>1, <2>1, WhisperEdits DEF Whisper!Down
  <2> QED BY <1>1, <1>2, <2>1, <2>2, <2>3, WhisperQuiet
<1>18. CASE Whisper!Stop(w)
  <2> DEFINE d == whisperWorker[w].home
  <2>1. /\ whisperWorker[w].at = "serving" /\ d \in Dirs /\ UNCHANGED whisperRootLock
        /\ whisperDir' = [whisperDir EXCEPT ![d].locker = "none"]
        /\ whisperWorker' = [whisperWorker EXCEPT ![w].at = "ending", ![w].todo = {d}]
    BY <1>5, <1>18 DEF Whisper!Stop
  <2> HIDE DEF d
  <2>2. whisperDir' \in [Dirs -> WhisperDirs]
    BY <1>1, <2>1, WhisperEdits
  <2>3. \A e \in Dirs : /\ whisperDir'[e].copies = whisperDir[e].copies
                        /\ whisperDir'[e].there = whisperDir[e].there
                        /\ whisperDir'[e].owner = whisperDir[e].owner
                        /\ whisperDir'[e].lease = whisperDir[e].lease
    BY <1>1, <2>1 DEF WhisperDirs
  <2>4. whisperWorker' \in [WhisperWorkers -> WhisperStates]
    <3>1. {d} \in SUBSET Dirs
      BY <2>1
    <3> QED BY <1>1, <2>1, <3>1, WhisperEdits
  <2>5. /\ whisperWorker'[w].at = "ending" /\ whisperWorker'[w].cur = whisperWorker[w].cur
        /\ \A v \in WhisperWorkers : v # w => whisperWorker'[v] = whisperWorker[v]
    BY <1>1, <2>1 DEF WhisperStates
  <2>6. whisperWorker[w].cur = "none"
    BY <1>3, <2>1
  <2> QED BY <1>1, <1>2, <1>3, <2>1, <2>2, <2>3, <2>4, <2>5, <2>6, WhisperQuiet
<1>19. CASE Whisper!Release(w)
  <2>1. /\ whisperWorker[w].at = "ending" /\ UNCHANGED whisperDir
        /\ whisperWorker' = [whisperWorker EXCEPT ![w] = Whisper!Down]
    BY <1>19 DEF Whisper!Release
  <2>2. /\ whisperWorker' \in [WhisperWorkers -> WhisperStates]
        /\ whisperWorker'[w].at = "down" /\ whisperWorker'[w].cur = "none"
        /\ \A v \in WhisperWorkers : v # w => whisperWorker'[v] = whisperWorker[v]
    BY <1>1, <2>1, WhisperEdits DEF Whisper!Down
  <2> QED BY <1>1, <1>2, <2>1, <2>2, WhisperQuiet
<1> QED BY <1>11, <1>12, <1>13, <1>14, <1>15, <1>16, <1>17, <1>18, <1>19 DEF Whisper!Run

\* A step of the request of a worker that serves: its directory keeps what makes
\* it the worker's, and its copies change by the copy of the request at most.
LEMMA WhisperServed ==
    ASSUME WhisperInv, NEW w \in WhisperWorkers, whisperWorker[w].at = "serving",
           UNCHANGED <<whisperRootLock, whisperWorker, whisperMedia>>,
           NEW r \in WhisperRequests, whisperRequest' = [whisperRequest EXCEPT ![w] = r],
           NEW C \in SUBSET Copies,
           whisperDir' = [whisperDir EXCEPT ![whisperWorker[w].home].copies = C],
           r.at \in {"copying", "inferring", "clearing"} => r.copy \in C,
           \/ r.at \in {"inferring", "clearing", "checking"}
           \/ r.at = "leaving" /\ r.answer = "ok"
           => r.bytes = r.want
    PROVE  WhisperInv'
<1> DEFINE h == whisperWorker[w].home
<1>1. /\ whisperDir \in [Dirs -> WhisperDirs] /\ h \in Dirs
      /\ whisperRequest \in [WhisperWorkers -> WhisperRequests]
      /\ whisperDir[h].there /\ whisperDir[h].owner /\ whisperDir[h].lease
      /\ whisperDir[h].locker = w
  BY DEF WhisperInv, WhisperShapes, WhisperOwners
<1> HIDE DEF h
<1>2. whisperDir' \in [Dirs -> WhisperDirs]
  BY <1>1, WhisperEdits DEF h
<1>3. /\ whisperRequest' \in [WhisperWorkers -> WhisperRequests] /\ whisperRequest'[w] = r
      /\ \A v \in WhisperWorkers : v # w => whisperRequest'[v] = whisperRequest[v]
  BY <1>1
<1>4. /\ \A d \in Dirs : d # h => whisperDir'[d] = whisperDir[d]
      /\ whisperDir'[h].there /\ whisperDir'[h].owner /\ whisperDir'[h].lease
      /\ whisperDir'[h].locker = w /\ whisperDir'[h].copies = C
  BY <1>1 DEF h, WhisperDirs
<1>5. \A v \in WhisperWorkers : v # w => /\ whisperWorker[v].at = "down"
                                         /\ whisperRequest[v].at = "idle"
  BY WhisperAlone DEF WhisperInv
<1>6. WhisperShapes'
  BY <1>2, <1>3 DEF WhisperInv, WhisperShapes
<1>7. WhisperOwners'
  BY <1>1, <1>3, <1>4, <1>5 DEF WhisperInv, WhisperOwners, h
<1>8. WhisperBytes'
  BY <1>3 DEF WhisperInv, WhisperBytes
<1>9. Whisper!CopiesAreReclaimable'
  BY <1>4 DEF WhisperInv, Whisper!CopiesAreReclaimable
<1>10. Whisper!CopyOutlivesInference'
  BY <1>3, <1>4, <1>5 DEF Whisper!CopyOutlivesInference, h
<1> QED BY <1>6, <1>7, <1>8, <1>9, <1>10 DEF WhisperInv

\* The request of a worker.
LEMMA WhisperServes ==
    ASSUME Whisper!WhisperAssumption, WhisperInv, NEW w \in WhisperWorkers,
           \/ Whisper!Serve(w) \/ Whisper!Accept(w) \/ Whisper!ClearFails(w)
           \/ Whisper!LeaveFails(w)
    PROVE  WhisperInv'
<1> DEFINE q == whisperRequest[w]
           h == whisperWorker[w].home
<1>1. /\ whisperDir \in [Dirs -> WhisperDirs]
      /\ whisperRequest \in [WhisperWorkers -> WhisperRequests] /\ q \in WhisperRequests
      /\ whisperMedia.content \in Contents /\ whisperMedia.mark \in Nat
  BY DEF WhisperInv, WhisperShapes
<1>2. whisperWorker[w].at = "serving"
  BY DEF WhisperInv, WhisperOwners, Whisper!Serve, Whisper!Accept, Whisper!ClearFails,
     Whisper!LeaveFails, Whisper!Refuse, Whisper!CopyEnd, Whisper!Infer, Whisper!Clear,
     Whisper!Check, Whisper!Leave, Whisper!CopyBegin
<1>3. /\ h \in Dirs /\ whisperDir[h].copies \in SUBSET Copies
      /\ whisperDir = [whisperDir EXCEPT ![h].copies = whisperDir[h].copies]
  BY <1>1, <1>2 DEF WhisperInv, WhisperOwners, WhisperDirs
<1>4. /\ q.at \in {"copying", "inferring", "clearing"} => q.copy \in whisperDir[h].copies
      /\ \/ q.at \in {"inferring", "clearing", "checking"}
         \/ q.at = "leaving" /\ q.answer = "ok"
         => q.bytes = q.want
  BY DEF WhisperInv, WhisperBytes, Whisper!CopyOutlivesInference
<1>5. UNCHANGED <<whisperRootLock, whisperWorker, whisperMedia>>
  BY DEF Whisper!Serve, Whisper!Accept, Whisper!ClearFails,
     Whisper!LeaveFails, Whisper!Refuse, Whisper!CopyEnd, Whisper!Infer, Whisper!Clear,
     Whisper!Check, Whisper!Leave, Whisper!CopyBegin
<1>6. "mixed" \notin Contents
  BY DEF Whisper!WhisperAssumption
<1>7. ASSUME NEW r \in WhisperRequests, UNCHANGED whisperDir,
             whisperRequest' = [whisperRequest EXCEPT ![w] = r],
             r.at \in {"copying", "inferring", "clearing"} =>
                r.copy = q.copy /\ q.at \in {"copying", "inferring", "clearing"},
             \/ r.at \in {"inferring", "clearing", "checking"}
             \/ r.at = "leaving" /\ r.answer = "ok"
             => r.bytes = r.want
      PROVE  WhisperInv'
  <2>1. whisperDir' = [whisperDir EXCEPT ![h].copies = whisperDir[h].copies]
    BY <1>3, <1>7
  <2>2. r.at \in {"copying", "inferring", "clearing"} => r.copy \in whisperDir[h].copies
    BY <1>4, <1>7
  <2> QED BY <1>2, <1>3, <1>5, <1>7, <2>1, <2>2, WhisperServed
<1> HIDE DEF q, h
<1>11. CASE Whisper!Accept(w)
  <2> DEFINE r == [Whisper!NoRequest EXCEPT !.at = "accepted", !.want = whisperMedia.content]
  <2>1. r \in WhisperRequests /\ r.at = "accepted"
    BY <1>1 DEF Whisper!NoRequest, WhisperRequests
  <2>2. whisperRequest' = [whisperRequest EXCEPT ![w] = r] /\ UNCHANGED whisperDir
    BY <1>11 DEF Whisper!Accept, Whisper!Named
  <2> HIDE DEF r
  <2> QED BY <1>7, <2>1, <2>2
<1>12. CASE Whisper!Refuse(w) \/ Whisper!ClearFails(w)
  <2> DEFINE r == [q EXCEPT !.at = "leaving", !.answer = "refused"]
  <2>1. r \in WhisperRequests /\ r.at = "leaving" /\ r.answer = "refused"
    BY <1>1 DEF WhisperRequests
  <2>2. whisperRequest' = [whisperRequest EXCEPT ![w] = r] /\ UNCHANGED whisperDir
    BY <1>1, <1>12 DEF Whisper!Refuse, Whisper!ClearFails, q
  <2> HIDE DEF r
  <2> QED BY <1>7, <2>1, <2>2
<1>13. ASSUME NEW c \in Copies, Whisper!CopyBegin(w, c) PROVE WhisperInv'
  <2> DEFINE r == [q EXCEPT !.at = "copying", !.copy = c, !.mark = whisperMedia.mark]
             C == whisperDir[h].copies \cup {c}
  <2>1. r \in WhisperRequests /\ r.at = "copying" /\ r.copy = c
    BY <1>1 DEF WhisperRequests
  <2>2. whisperRequest' = [whisperRequest EXCEPT ![w] = r]
    BY <1>1, <1>13 DEF Whisper!CopyBegin, q
  <2>3. whisperDir' = [whisperDir EXCEPT ![whisperWorker[w].home].copies = C]
    BY <1>1, <1>3, <1>13 DEF Whisper!CopyBegin, h
  <2>4. C \in SUBSET Copies /\ c \in C
    BY <1>3
  <2> HIDE DEF r, C
  <2> QED BY <1>2, <1>5, <2>1, <2>2, <2>3, <2>4, WhisperServed
<1>14. CASE Whisper!CopyEnd(w)
  <2>1. CASE /\ Whisper!Copied(w) = q.want
             /\ whisperRequest' = [whisperRequest EXCEPT ![w].at = "inferring",
                                                         ![w].bytes = Whisper!Copied(w)]
    <3> DEFINE r == [q EXCEPT !.at = "inferring", !.bytes = q.want]
    <3>1. Whisper!Copied(w) \in Contents \cup {"mixed"}
      BY <1>1 DEF Whisper!Copied
    <3>2. r \in WhisperRequests /\ r.at = "inferring" /\ r.bytes = q.want
      BY <1>1, <2>1, <3>1 DEF WhisperRequests
    <3>3. whisperRequest' = [whisperRequest EXCEPT ![w] = r]
      BY <1>1, <2>1 DEF q
    <3>4. UNCHANGED whisperDir /\ q.at = "copying" /\ r.copy = q.copy /\ r.want = q.want
      BY <1>1, <1>14 DEF Whisper!CopyEnd, q, WhisperRequests
    <3> HIDE DEF r
    <3> QED BY <1>7, <3>2, <3>3, <3>4
  <2>2. CASE whisperRequest' = [whisperRequest EXCEPT ![w].at = "leaving",
                                                      ![w].answer = "refused"]
    <3> DEFINE r == [q EXCEPT !.at = "leaving", !.answer = "refused"]
    <3>1. r \in WhisperRequests /\ r.at = "leaving" /\ r.answer = "refused"
      BY <1>1 DEF WhisperRequests
    <3>2. whisperRequest' = [whisperRequest EXCEPT ![w] = r] /\ UNCHANGED whisperDir
      BY <1>1, <1>14, <2>2 DEF Whisper!CopyEnd, q
    <3> HIDE DEF r
    <3> QED BY <1>7, <3>1, <3>2
  <2> QED BY <1>14, <2>1, <2>2 DEF Whisper!CopyEnd, q
<1>15. CASE Whisper!Infer(w)
  <2>1. PICK answer \in {"ok", "refused"} :
          whisperRequest' = [whisperRequest EXCEPT ![w].at = "clearing", ![w].answer = answer]
    BY <1>15 DEF Whisper!Infer
  <2> DEFINE r == [q EXCEPT !.at = "clearing", !.answer = answer]
  <2>2. /\ r \in WhisperRequests /\ r.at = "clearing" /\ r.copy = q.copy
        /\ r.bytes = q.bytes /\ r.want = q.want
    BY <1>1 DEF WhisperRequests
  <2>3. whisperRequest' = [whisperRequest EXCEPT ![w] = r] /\ UNCHANGED whisperDir
    BY <1>1, <1>15, <2>1 DEF Whisper!Infer, q
  <2>4. q.at = "inferring"
    BY <1>15 DEF Whisper!Infer, q
  <2> HIDE DEF r
  <2> QED BY <1>4, <1>7, <2>2, <2>3, <2>4
<1>16. CASE Whisper!Clear(w)
  <2> DEFINE at == IF q.answer = "ok" THEN "checking" ELSE "leaving"
             r == [q EXCEPT !.at = at]
  <2>2. /\ r \in WhisperRequests /\ r.at = at /\ r.answer = q.answer
        /\ r.bytes = q.bytes /\ r.want = q.want
    BY <1>1 DEF WhisperRequests
  <2>3. whisperRequest' = [whisperRequest EXCEPT ![w] = r] /\ UNCHANGED whisperDir
    BY <1>1, <1>16 DEF Whisper!Clear, q
  <2>4. q.at = "clearing"
    BY <1>16 DEF Whisper!Clear, q
  <2> HIDE DEF r
  <2> QED BY <1>4, <1>7, <2>2, <2>3, <2>4
<1>17. CASE Whisper!Check(w)
  <2> DEFINE a == IF whisperMedia.mark = q.mark THEN "ok" ELSE "refused"
             r == [q EXCEPT !.at = "leaving", !.answer = a]
  <2>2. /\ r \in WhisperRequests /\ r.at = "leaving"
        /\ r.bytes = q.bytes /\ r.want = q.want
    BY <1>1 DEF WhisperRequests
  <2>3. whisperRequest' = [whisperRequest EXCEPT ![w] = r] /\ UNCHANGED whisperDir
    BY <1>1, <1>17 DEF Whisper!Check, q
  <2>4. q.at = "checking"
    BY <1>17 DEF Whisper!Check, q
  <2> HIDE DEF r
  <2> QED BY <1>4, <1>7, <2>2, <2>3, <2>4
<1>18. CASE Whisper!Leave(w)
  <2> DEFINE C == whisperDir[h].copies \ {q.copy}
  <2>1. Whisper!NoRequest \in WhisperRequests /\ Whisper!NoRequest.at = "idle"
    BY DEF Whisper!NoRequest, WhisperRequests
  <2>2. whisperRequest' = [whisperRequest EXCEPT ![w] = Whisper!NoRequest]
    BY <1>18 DEF Whisper!Leave
  <2>3. whisperDir' = [whisperDir EXCEPT ![whisperWorker[w].home].copies = C]
    BY <1>1, <1>3, <1>18 DEF Whisper!Leave, h, q
  <2>4. C \in SUBSET Copies
    BY <1>3
  <2> HIDE DEF C
  <2> QED BY <1>2, <1>5, <2>1, <2>2, <2>3, <2>4, WhisperServed
<1>19. CASE Whisper!LeaveFails(w)
  <2>1. Whisper!NoRequest \in WhisperRequests /\ Whisper!NoRequest.at = "idle"
    BY DEF Whisper!NoRequest, WhisperRequests
  <2>2. whisperRequest' = [whisperRequest EXCEPT ![w] = Whisper!NoRequest] /\ UNCHANGED whisperDir
    BY <1>19 DEF Whisper!LeaveFails
  <2> QED BY <1>7, <2>1, <2>2
<1> QED BY <1>11, <1>12, <1>13, <1>14, <1>15, <1>16, <1>17, <1>18, <1>19 DEF Whisper!Serve

\* A kill takes the locks and leaves the files.
LEMMA WhisperDies ==
    ASSUME WhisperInv, NEW w \in WhisperWorkers, Whisper!Crash(w)
    PROVE  WhisperInv'
<1>1. /\ whisperDir \in [Dirs -> WhisperDirs]
      /\ whisperWorker \in [WhisperWorkers -> WhisperStates]
      /\ whisperRequest \in [WhisperWorkers -> WhisperRequests]
  BY DEF WhisperInv, WhisperShapes
<1>2. \A d \in Dirs : [whisperDir[d] EXCEPT !.locker = "none"] \in WhisperDirs
  BY <1>1, WhisperEdits
<1>3. /\ whisperDir' \in [Dirs -> WhisperDirs]
      /\ \A d \in Dirs : /\ whisperDir'[d].there = whisperDir[d].there
                         /\ whisperDir'[d].owner = whisperDir[d].owner
                         /\ whisperDir'[d].lease = whisperDir[d].lease
                         /\ whisperDir'[d].copies = whisperDir[d].copies
  <2>1. whisperDir' = [d \in Dirs |-> IF whisperDir[d].locker = w
                        THEN [whisperDir[d] EXCEPT !.locker = "none"] ELSE whisperDir[d]]
    BY DEF Whisper!Crash
  <2>2. whisperDir' \in [Dirs -> WhisperDirs]
    BY <1>1, <1>2, <2>1
  <2>3. ASSUME NEW d \in Dirs
        PROVE  /\ whisperDir'[d].there = whisperDir[d].there
               /\ whisperDir'[d].owner = whisperDir[d].owner
               /\ whisperDir'[d].lease = whisperDir[d].lease
               /\ whisperDir'[d].copies = whisperDir[d].copies
    BY <1>1, <2>1 DEF WhisperDirs
  <2> QED BY <2>2, <2>3
<1>4. /\ whisperWorker' \in [WhisperWorkers -> WhisperStates]
      /\ whisperWorker'[w].at = "down" /\ whisperWorker'[w].cur = "none"
      /\ \A v \in WhisperWorkers : v # w => whisperWorker'[v] = whisperWorker[v]
  BY <1>1, WhisperEdits DEF Whisper!Crash, Whisper!Down
<1>5. /\ whisperRequest' \in [WhisperWorkers -> WhisperRequests]
      /\ whisperRequest'[w].at = "idle"
      /\ \A v \in WhisperWorkers : v # w => whisperRequest'[v] = whisperRequest[v]
  BY <1>1 DEF Whisper!Crash, Whisper!NoRequest, WhisperRequests
<1>6. \A v \in WhisperWorkers : v # w => /\ whisperWorker[v].at = "down"
                                         /\ whisperWorker[v].cur = "none"
                                         /\ whisperRequest[v].at = "idle"
  BY WhisperAlone DEF WhisperInv, Whisper!Crash
<1>7. WhisperShapes'
  BY <1>3, <1>4, <1>5 DEF WhisperInv, WhisperShapes, Whisper!Crash
<1>8. WhisperOwners'
  BY <1>4, <1>5, <1>6 DEF WhisperOwners
<1>9. WhisperBytes' /\ Whisper!CopyOutlivesInference' /\ Whisper!CopiesAreReclaimable'
  BY <1>3, <1>5, <1>6 DEF WhisperInv, WhisperBytes, Whisper!CopyOutlivesInference,
     Whisper!CopiesAreReclaimable
<1> QED BY <1>7, <1>8, <1>9 DEF WhisperInv

LEMMA WhisperKeeps ==
    ASSUME Whisper!WhisperAssumption, WhisperInv, [Whisper!Next]_(Whisper!vars)
    PROVE  WhisperInv'
<1>1. CASE Whisper!Rewrite
  <2>1. whisperMedia' \in [content : Contents, mark : Nat]
    BY <1>1 DEF WhisperInv, WhisperShapes, Whisper!Rewrite
  <2>2. UNCHANGED <<whisperRootLock, whisperDir, whisperWorker, whisperRequest>>
    BY <1>1 DEF Whisper!Rewrite
  <2> QED BY <2>1, <2>2 DEF WhisperInv, WhisperShapes, WhisperOwners, WhisperBytes,
      Whisper!CopyOutlivesInference, Whisper!CopiesAreReclaimable
<1>2. CASE UNCHANGED Whisper!vars
  BY <1>2 DEF Whisper!vars, WhisperInv, WhisperShapes, WhisperOwners, WhisperBytes,
     Whisper!CopyOutlivesInference, Whisper!CopiesAreReclaimable
<1>3. ASSUME NEW w \in WhisperWorkers,
             \/ Whisper!Run(w) \/ Whisper!Serve(w) \/ Whisper!Accept(w) \/ Whisper!Stop(w)
             \/ Whisper!Crash(w) \/ Whisper!UnlinkFails(w) \/ Whisper!MakeFails(w)
             \/ Whisper!ClearFails(w) \/ Whisper!LeaveFails(w)
      PROVE  WhisperInv'
  BY <1>3, WhisperLives, WhisperServes, WhisperDies
<1> QED BY <1>1, <1>2, <1>3 DEF Whisper!Next

\* Nobody lives and nothing is on disk when the first worker starts.
LEMMA WhisperStart ==
    ASSUME Whisper!WhisperAssumption, Whisper!Init
    PROVE  WhisperInv
<1>1. /\ whisperDir = [d \in Dirs |-> Whisper!NoDir]
      /\ whisperWorker = [w \in WhisperWorkers |-> Whisper!Down]
      /\ whisperRequest = [w \in WhisperWorkers |-> Whisper!NoRequest]
      /\ whisperMedia \in [content : Contents, mark : {0}]
  BY DEF Whisper!Init
<1>2. /\ Whisper!NoDir \in WhisperDirs /\ Whisper!Down \in WhisperStates
      /\ Whisper!NoRequest \in WhisperRequests
      /\ Whisper!NoDir.copies = {} /\ Whisper!Down.at = "down" /\ Whisper!Down.cur = "none"
      /\ Whisper!NoRequest.at = "idle"
  BY WhisperEdits DEF Whisper!NoDir, Whisper!Down, Whisper!NoRequest, WhisperRequests
<1>3. WhisperShapes
  BY <1>1, <1>2 DEF WhisperShapes
<1>4. \A w \in WhisperWorkers : /\ whisperWorker[w].at = "down" /\ whisperWorker[w].cur = "none"
                                /\ whisperRequest[w].at = "idle"
  BY <1>1, <1>2
<1>5. \A d \in Dirs : whisperDir[d].copies = {}
  BY <1>1, <1>2
<1> QED BY <1>3, <1>4, <1>5 DEF WhisperInv, WhisperOwners, WhisperBytes,
    Whisper!CopyOutlivesInference, Whisper!CopiesAreReclaimable

(***************************************************************************)
(* The qwen worker.                                                        *)
(***************************************************************************)

USE DEF Qwen!None

QwenJudgements ==
    [key : Clips \cup {"none"}, want : Nat, read : Nat, residue : Requests \cup {"none"}]
QwenRequests ==
    [client : Reranks \cup {"none"}, key : Clips \cup {"none"}, want : Nat, copy : Nat,
     at : Qwen!Points, result : QwenJudgements, ok : BOOLEAN]
QwenSearches ==
    [at : {"idle", "next", "cut", "waiting", "done", "failed"}, strict : BOOLEAN,
     asked : SUBSET Clips, todo : SUBSET Clips, key : Clips \cup {"none"}]

QwenShapes ==
    /\ qwenSlot \in [Requests -> QwenRequests]
    /\ qwenSearch \in [Reranks -> QwenSearches]
    /\ qwenFound \in [Reranks -> SUBSET QwenJudgements]
    /\ qwenClip \in [Reranks -> Nat]
    /\ qwenCache \in [Clips -> QwenJudgements]
    /\ qwenHolder \in Requests \cup {"none"} /\ qwenResidue \in Requests \cup {"none"}
    /\ qwenHealthy \in BOOLEAN

\* The inference lock, and the model that is clean when it is taken.
QwenLocked ==
    /\ \A i \in Requests : qwenHolder = i <=> qwenSlot[i].at \in {"locked", "inferred"}
    /\ \A i \in Requests : qwenSlot[i].at = "locked" => qwenResidue = "none"
    /\ qwenHealthy /\ qwenResidue # "none" =>
          \E i \in Requests : qwenHolder = i /\ qwenSlot[i].at = "inferred"

\* A request whose result counts: it was made from the bytes named, for its key.
QwenExact(r) ==
    /\ r.at \in {"copied", "locked"} => r.copy = r.want
    /\ r.at \in {"inferred", "released", "verified", "answered"} /\ r.ok =>
          r.result.key = r.key /\ Qwen!Exact(r.result)

\* A search has one request at most, about the candidate it waits for, unless a
\* restart has answered it.
QwenAsked ==
    /\ \A i \in Requests : qwenSlot[i].client # "none" =>
          /\ qwenSearch[qwenSlot[i].client].at = "waiting"
          /\ \/ qwenSearch[qwenSlot[i].client].key = qwenSlot[i].key
             \/ qwenSlot[i].at = "answered" /\ ~qwenSlot[i].ok
    /\ \A i, j \in Requests :
          qwenSlot[i].client = qwenSlot[j].client /\ qwenSlot[i].client # "none" => i = j
    /\ \A s \in Reranks :
          /\ qwenSearch[s].at \in {"cut", "waiting"} => qwenSearch[s].key \in qwenSearch[s].asked
          /\ qwenSearch[s].todo \subseteq qwenSearch[s].asked
          /\ qwenSearch[s].at = "idle" => qwenFound[s] = {}

QwenInv ==
    /\ QwenShapes /\ QwenLocked /\ QwenAsked
    /\ \A i \in Requests : QwenExact(qwenSlot[i])
    /\ Qwen!JudgementsAreExact

\* Two requests of one search are one.
LEMMA QwenAlone ==
    ASSUME QwenAsked, NEW i \in Requests, NEW j \in Requests,
           qwenSlot[i].client = qwenSlot[j].client, qwenSlot[i].client # "none"
    PROVE  i = j
BY Zenon DEF QwenAsked

\* The record of a request with a few fields replaced.
LEMMA QwenEdits ==
    ASSUME NEW r \in QwenRequests
    PROVE  /\ \A at \in Qwen!Points :
                 /\ [r EXCEPT !.at = at] \in QwenRequests
                 /\ \A y \in BOOLEAN : [r EXCEPT !.ok = y, !.at = at] \in QwenRequests
                 /\ \A y \in BOOLEAN : [r EXCEPT !.at = at, !.ok = y] \in QwenRequests
                 /\ \A n \in Nat : [r EXCEPT !.copy = n, !.at = at] \in QwenRequests
                 /\ \A y \in BOOLEAN, j \in QwenJudgements :
                       /\ [r EXCEPT !.ok = y, !.at = at, !.result = j] \in QwenRequests
                       /\ [r EXCEPT !.at = at, !.ok = y, !.copy = 0, !.result = j] \in QwenRequests
           /\ [r EXCEPT !.client = "none"] \in QwenRequests
<1>1. ASSUME NEW at \in Qwen!Points PROVE [r EXCEPT !.at = at] \in QwenRequests
  BY DEF QwenRequests
<1>2. ASSUME NEW at \in Qwen!Points, NEW y \in BOOLEAN
      PROVE  /\ [r EXCEPT !.ok = y, !.at = at] \in QwenRequests
             /\ [r EXCEPT !.at = at, !.ok = y] \in QwenRequests
  BY DEF QwenRequests
<1>3. ASSUME NEW at \in Qwen!Points, NEW n \in Nat
      PROVE  [r EXCEPT !.copy = n, !.at = at] \in QwenRequests
  BY DEF QwenRequests
<1>4. ASSUME NEW at \in Qwen!Points, NEW y \in BOOLEAN, NEW j \in QwenJudgements
      PROVE  /\ [r EXCEPT !.ok = y, !.at = at, !.result = j] \in QwenRequests
             /\ [r EXCEPT !.at = at, !.ok = y, !.copy = 0, !.result = j] \in QwenRequests
  BY DEF QwenRequests
<1>5. [r EXCEPT !.client = "none"] \in QwenRequests
  BY DEF QwenRequests
<1> QED BY <1>1, <1>2, <1>3, <1>4, <1>5

LEMMA QwenFree ==
    /\ Qwen!Free \in QwenRequests /\ Qwen!Free.client = "none" /\ Qwen!Free.at = "free"
    /\ Qwen!NoJudgement \in QwenJudgements /\ QwenExact(Qwen!Free) /\ ~Qwen!Free.ok
BY DEF Qwen!Free, QwenRequests, Qwen!NoJudgement, QwenJudgements, Qwen!Points, QwenExact

\* What a handler may do to its request.
LEMMA QwenTurn ==
    ASSUME QwenInv, NEW i \in Requests, NEW r \in QwenRequests,
           qwenSlot[i].at # "answered", qwenSlot' = [qwenSlot EXCEPT ![i] = r],
           UNCHANGED <<qwenSearch, qwenFound, qwenClip, qwenCache>>,
           r.client # "none" => r.client = qwenSlot[i].client /\ r.key = qwenSlot[i].key,
           QwenExact(r),
           qwenHolder' \in Requests \cup {"none"}, qwenResidue' \in Requests \cup {"none"},
           qwenHealthy' \in BOOLEAN, QwenLocked'
    PROVE  QwenInv'
<1>1. /\ qwenSlot \in [Requests -> QwenRequests]
      /\ qwenSlot' \in [Requests -> QwenRequests] /\ qwenSlot'[i] = r
      /\ \A j \in Requests : j # i => qwenSlot'[j] = qwenSlot[j]
  BY DEF QwenInv, QwenShapes
<1>2. QwenShapes'
  BY <1>1 DEF QwenInv, QwenShapes
<1>3. QwenAsked'
  BY <1>1 DEF QwenInv, QwenAsked
<1>4. \A j \in Requests : QwenExact(qwenSlot'[j])
  BY <1>1 DEF QwenInv
<1>5. Qwen!JudgementsAreExact'
  BY DEF QwenInv, Qwen!JudgementsAreExact
<1> QED BY <1>2, <1>3, <1>4, <1>5 DEF QwenInv

LEMMA QwenHandles ==
    ASSUME Qwen!QwenAssumption, QwenInv, NEW i \in Requests, Qwen!Handle(i)
    PROVE  QwenInv'
<1> DEFINE q == qwenSlot[i]
<1>1. /\ qwenSlot \in [Requests -> QwenRequests] /\ q \in QwenRequests
      /\ q.client # "none" => q.client \in Reranks
      /\ qwenClip \in [Reranks -> Nat] /\ QwenExact(q) /\ QwenLocked
      /\ qwenHolder \in Requests \cup {"none"} /\ qwenResidue \in Requests \cup {"none"}
      /\ qwenHealthy \in BOOLEAN /\ q.ok \in BOOLEAN /\ q.result \in QwenJudgements
  BY DEF QwenInv, QwenShapes, QwenRequests
<1>2. /\ {"free", "answered", "admitted", "copied", "locked", "inferred", "released",
          "verified"} \subseteq Qwen!Points
      /\ "none" \notin Requests
  BY DEF Qwen!Points, Qwen!Admitted, Qwen!QwenAssumption
<1>3. \A r \in QwenRequests : qwenSlot' = [qwenSlot EXCEPT ![i] = r] =>
         qwenSlot'[i] = r /\ \A j \in Requests : j # i => qwenSlot'[j] = qwenSlot[j]
  BY <1>1
<1>4. ASSUME NEW good \in BOOLEAN, Qwen!Answered(i, good), q.at \notin {"locked", "inferred"},
             good => q.at = "verified" /\ q.ok,
             UNCHANGED <<qwenSearch, qwenFound, qwenClip, qwenCache, qwenHolder, qwenResidue,
                         qwenHealthy>>, q.at # "answered"
      PROVE  QwenInv'
  <2> DEFINE r == IF q.client = "none" THEN Qwen!Free
                  ELSE [q EXCEPT !.at = "answered", !.ok = good]
  <2>1. r \in QwenRequests
    BY <1>1, <1>2, QwenEdits, QwenFree
  <2>2. /\ r.client # "none" => r.client = q.client /\ r.key = q.key
        /\ r.at \in {"free", "answered"}
    BY <1>1, QwenFree DEF QwenRequests
  <2>3. QwenExact(r)
    <3>1. CASE q.client = "none"
      BY <3>1, QwenFree
    <3>2. CASE q.client # "none"
      <4>1. r.at = "answered" /\ r.ok = good /\ r.result = q.result /\ r.key = q.key
        BY <1>1, <3>2 DEF QwenRequests
      <4> QED BY <1>1, <1>4, <4>1 DEF QwenExact
    <3> QED BY <3>1, <3>2
  <2>4. qwenSlot' = [qwenSlot EXCEPT ![i] = r]
    BY <1>4, <1>1 DEF Qwen!Answered
  <2> HIDE DEF r
  <2>5. QwenLocked'
    BY <1>1, <1>3, <1>4, <2>1, <2>2, <2>4 DEF QwenLocked
  <2> QED BY <1>1, <1>4, <2>1, <2>2, <2>3, <2>4, <2>5, QwenTurn
<1> HIDE DEF q
<1>10. CASE Qwen!Admit(i)
  <2>1. CASE qwenPermits > 0
    <3> DEFINE r == [q EXCEPT !.at = "admitted"]
    <3>1. /\ qwenSlot' = [qwenSlot EXCEPT ![i] = r] /\ q.at = "sent"
          /\ UNCHANGED <<qwenSearch, qwenFound, qwenClip, qwenCache, qwenHolder, qwenResidue,
                         qwenHealthy>>
      BY <1>1, <1>10, <2>1 DEF Qwen!Admit, q
    <3>2. /\ r \in QwenRequests /\ r.client = q.client /\ r.key = q.key /\ r.at = "admitted"
      BY <1>1, <1>2, QwenEdits DEF QwenRequests
    <3> HIDE DEF r
    <3>3. QwenLocked' /\ QwenExact(r)
      BY <1>1, <1>3, <3>1, <3>2 DEF QwenLocked, QwenExact, q
    <3> QED BY <1>1, <3>1, <3>2, <3>3, QwenTurn DEF q
  <2>2. CASE ~(qwenPermits > 0)
    BY <1>4, <1>10, <2>2 DEF Qwen!Admit, q
  <2> QED BY <2>1, <2>2
<1>11. CASE Qwen!Copy(i)
  <2>1. /\ q.at = "admitted"
        /\ UNCHANGED <<qwenSearch, qwenFound, qwenClip, qwenCache, qwenHolder, qwenResidue,
                       qwenHealthy>>
    BY <1>11 DEF Qwen!Copy, Qwen!Worker, q
  <2>2. CASE Qwen!Intact(i)
    <3> DEFINE n == qwenClip[q.client]
               r == [q EXCEPT !.copy = n, !.at = "copied"]
    <3>1. n \in Nat /\ n = q.want
      BY <1>1, <2>2 DEF Qwen!Intact, Qwen!Present, q
    <3>2. qwenSlot' = [qwenSlot EXCEPT ![i] = r]
      BY <1>1, <1>11, <2>2 DEF Qwen!Copy, q
    <3> HIDE DEF n
    <3>3. /\ r \in QwenRequests /\ r.client = q.client /\ r.key = q.key /\ r.at = "copied"
          /\ r.copy = r.want
      <4>1. r \in QwenRequests
        BY <1>1, <1>2, <3>1, QwenEdits
      <4>2. /\ r.client = q.client /\ r.key = q.key /\ r.at = "copied" /\ r.copy = n
            /\ r.want = q.want
        BY <1>1 DEF QwenRequests
      <4> QED BY <3>1, <4>1, <4>2
    <3> HIDE DEF r
    <3>4. QwenLocked' /\ QwenExact(r)
      BY <1>1, <1>3, <2>1, <3>2, <3>3 DEF QwenLocked, QwenExact, q
    <3> QED BY <1>1, <2>1, <3>2, <3>3, <3>4, QwenTurn DEF q
  <2>3. CASE ~Qwen!Intact(i)
    <3> DEFINE r == [q EXCEPT !.ok = FALSE, !.at = "verified"]
    <3>2. qwenSlot' = [qwenSlot EXCEPT ![i] = r]
      BY <1>1, <1>11, <2>3 DEF Qwen!Copy, q
    <3>3. /\ r \in QwenRequests /\ r.client = q.client /\ r.key = q.key /\ r.at = "verified"
          /\ ~r.ok
      BY <1>1, <1>2, QwenEdits DEF QwenRequests
    <3> HIDE DEF r
    <3>4. QwenLocked' /\ QwenExact(r)
      BY <1>1, <1>3, <2>1, <3>2, <3>3 DEF QwenLocked, QwenExact, q
    <3> QED BY <1>1, <2>1, <3>2, <3>3, <3>4, QwenTurn DEF q
  <2> QED BY <2>2, <2>3
<1>12. CASE Qwen!Lock(i)
  <2>1. /\ q.at = "copied" /\ qwenHolder = "none"
        /\ UNCHANGED <<qwenSearch, qwenFound, qwenClip, qwenCache, qwenResidue, qwenHealthy>>
    BY <1>12 DEF Qwen!Lock, q
  <2>2. CASE qwenHealthy
    <3> DEFINE r == [q EXCEPT !.at = "locked"]
    <3>2. qwenSlot' = [qwenSlot EXCEPT ![i] = r] /\ qwenHolder' = i
      BY <1>1, <1>12, <2>2 DEF Qwen!Lock, q
    <3>3. /\ r \in QwenRequests /\ r.client = q.client /\ r.key = q.key /\ r.at = "locked"
          /\ r.copy = q.copy /\ r.want = q.want
      BY <1>1, <1>2, QwenEdits DEF QwenRequests
    <3> HIDE DEF r
    <3>4. QwenExact(r)
      BY <1>1, <2>1, <3>3 DEF QwenExact
    <3>5. QwenLocked'
      BY <1>1, <1>2, <1>3, <2>1, <2>2, <3>2, <3>3 DEF QwenLocked, q
    <3> QED BY <1>1, <2>1, <3>2, <3>3, <3>4, <3>5, QwenTurn DEF q
  <2>3. CASE ~qwenHealthy
    <3> DEFINE r == [q EXCEPT !.ok = FALSE, !.at = "verified"]
    <3>2. qwenSlot' = [qwenSlot EXCEPT ![i] = r] /\ qwenHolder' = qwenHolder
      BY <1>1, <1>12, <2>3 DEF Qwen!Lock, q
    <3>3. /\ r \in QwenRequests /\ r.client = q.client /\ r.key = q.key /\ r.at = "verified"
          /\ ~r.ok
      BY <1>1, <1>2, QwenEdits DEF QwenRequests
    <3> HIDE DEF r
    <3>4. QwenLocked' /\ QwenExact(r)
      BY <1>1, <1>3, <2>1, <3>2, <3>3 DEF QwenLocked, QwenExact, q
    <3> QED BY <1>1, <2>1, <3>2, <3>3, <3>4, QwenTurn DEF q
  <2> QED BY <2>2, <2>3
<1>13. CASE Qwen!Verify(i)
  <2>1. /\ q.at = "released"
        /\ UNCHANGED <<qwenSearch, qwenFound, qwenClip, qwenCache, qwenHolder, qwenResidue,
                       qwenHealthy>>
    BY <1>13 DEF Qwen!Verify, Qwen!Worker, q
  <2> DEFINE y == q.ok /\ Qwen!Intact(i)
             j == IF y THEN q.result ELSE Qwen!NoJudgement
             r == [q EXCEPT !.ok = y, !.at = "verified", !.result = j]
  <2>2. qwenSlot' = [qwenSlot EXCEPT ![i] = r]
    BY <1>1, <1>13 DEF Qwen!Verify, q
  <2>3. y \in BOOLEAN /\ j \in QwenJudgements /\ (y => q.ok /\ j = q.result)
    BY <1>1, QwenFree
  <2> HIDE DEF y, j
  <2>4. /\ r \in QwenRequests /\ r.client = q.client /\ r.key = q.key /\ r.at = "verified"
        /\ r.ok = y /\ r.result = j
    <3>1. r \in QwenRequests
      BY <1>1, <1>2, <2>3, QwenEdits
    <3>2. /\ r.client = q.client /\ r.key = q.key /\ r.at = "verified" /\ r.ok = y
          /\ r.result = j
      BY <1>1 DEF QwenRequests
    <3> QED BY <3>1, <3>2
  <2> HIDE DEF r
  <2>5. QwenExact(r)
    BY <1>1, <2>1, <2>3, <2>4 DEF QwenExact
  <2>6. QwenLocked'
    BY <1>1, <1>3, <2>1, <2>2, <2>4 DEF QwenLocked, q
  <2> QED BY <1>1, <2>1, <2>2, <2>4, <2>5, <2>6, QwenTurn DEF q
<1>14. ASSUME NEW y \in BOOLEAN, Qwen!Infer(i, y) PROVE QwenInv'
  <2>1. /\ q.at = "locked" /\ qwenResidue' = i
        /\ UNCHANGED <<qwenSearch, qwenFound, qwenClip, qwenCache, qwenHolder, qwenHealthy>>
    BY <1>14 DEF Qwen!Infer, q
  <2> DEFINE j == IF y THEN [key |-> q.key, want |-> q.want, read |-> q.copy,
                             residue |-> qwenResidue]
                       ELSE Qwen!NoJudgement
             r == [q EXCEPT !.at = "inferred", !.ok = y, !.copy = 0, !.result = j]
  <2>2. qwenSlot' = [qwenSlot EXCEPT ![i] = r]
    BY <1>1, <1>14 DEF Qwen!Infer, q
  <2>3. j \in QwenJudgements /\ (y => j.key = q.key /\ Qwen!Exact(j))
    <3>1. q.copy = q.want /\ qwenResidue = "none"
      BY <1>1, <2>1 DEF QwenExact, QwenLocked, q
    <3>2. q.key \in Clips \cup {"none"} /\ q.want \in Nat /\ q.copy \in Nat
      BY <1>1 DEF QwenRequests
    <3> QED BY <3>1, <3>2, QwenFree DEF QwenJudgements, Qwen!Exact
  <2> HIDE DEF j
  <2>4. /\ r \in QwenRequests /\ r.client = q.client /\ r.key = q.key /\ r.at = "inferred"
        /\ r.ok = y /\ r.result = j
    <3>1. r \in QwenRequests
      BY <1>1, <1>2, <2>3, QwenEdits
    <3>2. /\ r.client = q.client /\ r.key = q.key /\ r.at = "inferred" /\ r.ok = y
          /\ r.result = j
      BY <1>1 DEF QwenRequests
    <3> QED BY <3>1, <3>2
  <2> HIDE DEF r
  <2>5. QwenExact(r)
    BY <1>1, <2>1, <2>3, <2>4 DEF QwenExact
  <2>6. QwenLocked'
    BY <1>1, <1>2, <1>3, <2>1, <2>2, <2>4 DEF QwenLocked, q
  <2> QED BY <1>1, <2>1, <2>2, <2>4, <2>5, <2>6, QwenTurn DEF q
<1>15. ASSUME NEW y \in BOOLEAN, Qwen!Release(i, y) PROVE QwenInv'
  <2>1. /\ q.at = "inferred" /\ qwenHolder' = "none" /\ qwenHealthy' = (qwenHealthy /\ y)
        /\ qwenResidue' = IF y THEN "none" ELSE qwenResidue
        /\ UNCHANGED <<qwenSearch, qwenFound, qwenClip, qwenCache>>
    BY <1>15 DEF Qwen!Release, q
  <2> DEFINE o == q.ok /\ y
             r == [q EXCEPT !.ok = o, !.at = "released"]
  <2>2. qwenSlot' = [qwenSlot EXCEPT ![i] = r]
    BY <1>1, <1>15 DEF Qwen!Release, q
  <2>3. o \in BOOLEAN /\ (o => q.ok)
    BY <1>1
  <2> HIDE DEF o
  <2>4. /\ r \in QwenRequests /\ r.client = q.client /\ r.key = q.key /\ r.at = "released"
        /\ r.ok = o /\ r.result = q.result
    BY <1>1, <1>2, <2>3, QwenEdits DEF QwenRequests
  <2> HIDE DEF r
  <2>5. QwenExact(r)
    BY <1>1, <2>1, <2>3, <2>4 DEF QwenExact
  <2>6. QwenLocked'
    BY <1>1, <1>2, <1>3, <2>1, <2>2, <2>4 DEF QwenLocked, q
  <2> QED BY <1>1, <2>1, <2>2, <2>4, <2>5, <2>6, QwenTurn DEF q
<1>16. ASSUME NEW y \in BOOLEAN, Qwen!Close(i, y) PROVE QwenInv'
  BY <1>1, <1>4, <1>16 DEF Qwen!Close, q
<1> QED BY <1>10, <1>11, <1>12, <1>13, <1>14, <1>15, <1>16 DEF Qwen!Handle

\* A step of a search: of its own record, of requests that were its own, of what it
\* has found, and of the cache.
QwenOwn(s, r) ==
    /\ qwenSlot' \in [Requests -> QwenRequests]
    /\ \A i \in Requests :
          /\ \/ qwenSlot'[i] = qwenSlot[i] \/ qwenSlot'[i] = Qwen!Free
             \/ qwenSlot'[i] = [qwenSlot[i] EXCEPT !.client = "none"]
             \/ qwenSlot'[i].client = s /\ qwenSlot'[i].at = "sent"
          /\ qwenSlot'[i].at # qwenSlot[i].at => qwenSlot[i].at \in {"free", "answered"}
          /\ qwenSlot'[i].client = s => r.at = "waiting" /\ r.key = qwenSlot'[i].key
    /\ \A i, j \in Requests : qwenSlot'[i].client = s /\ qwenSlot'[j].client = s => i = j

LEMMA QwenSearchTurn ==
    ASSUME QwenInv, NEW s \in Reranks, NEW r \in QwenSearches,
           qwenSearch' = [qwenSearch EXCEPT ![s] = r],
           UNCHANGED <<qwenHolder, qwenResidue, qwenHealthy>>,
           qwenClip' \in [Reranks -> Nat], QwenOwn(s, r),
           r.at \in {"cut", "waiting"} => r.key \in r.asked,
           r.todo \subseteq r.asked,
           r.at = "idle" => qwenFound'[s] = {},
           qwenFound' \in [Reranks -> SUBSET QwenJudgements],
           \A z \in Reranks : z # s => qwenFound'[z] = qwenFound[z],
           \A j \in qwenFound'[s] : j.key \in r.asked /\ Qwen!Exact(j),
           qwenCache' \in [Clips -> QwenJudgements],
           \A k \in Clips : qwenCache'[k] # Qwen!NoJudgement =>
               qwenCache'[k].key = k /\ Qwen!Exact(qwenCache'[k])
    PROVE  QwenInv'
<1>1. /\ qwenSearch \in [Reranks -> QwenSearches] /\ qwenSlot \in [Requests -> QwenRequests]
      /\ qwenSearch' \in [Reranks -> QwenSearches] /\ qwenSearch'[s] = r
      /\ \A z \in Reranks : z # s => qwenSearch'[z] = qwenSearch[z]
  BY DEF QwenInv, QwenShapes
<1> USE DEF QwenOwn
<1>2. QwenShapes'
  BY <1>1 DEF QwenInv, QwenShapes
<1>3. ASSUME NEW i \in Requests
      PROVE  /\ QwenExact(qwenSlot'[i])
             /\ qwenSlot'[i].client \notin {"none", s} =>
                   qwenSlot'[i] = qwenSlot[i]
             /\ qwenSlot'[i].at \in {"locked", "inferred"}
                   <=> qwenSlot[i].at \in {"locked", "inferred"}
             /\ qwenSlot[i].at \in {"locked", "inferred"} => qwenSlot'[i].at = qwenSlot[i].at
  <2>1. qwenSlot[i] \in QwenRequests /\ QwenExact(qwenSlot[i])
    BY <1>1 DEF QwenInv
  <2>2. CASE qwenSlot'[i] = qwenSlot[i]
    BY <2>1, <2>2
  <2>3. CASE qwenSlot'[i] = Qwen!Free
    BY <2>1, <2>3, QwenFree
  <2>4. CASE qwenSlot'[i] = [qwenSlot[i] EXCEPT !.client = "none"]
    <3> DEFINE q == qwenSlot[i]
    <3>1. /\ qwenSlot'[i].client = "none" /\ qwenSlot'[i].at = q.at
          /\ qwenSlot'[i].copy = q.copy /\ qwenSlot'[i].want = q.want
          /\ qwenSlot'[i].ok = q.ok /\ qwenSlot'[i].result = q.result
          /\ qwenSlot'[i].key = q.key
      BY <2>1, <2>4 DEF QwenRequests
    <3> QED BY <2>1, <3>1 DEF QwenExact
  <2>5. CASE qwenSlot'[i].client = s /\ qwenSlot'[i].at = "sent"
    BY <2>1, <2>5 DEF QwenExact
  <2> QED BY <2>2, <2>3, <2>4, <2>5
<1>4. QwenLocked'
  BY <1>3 DEF QwenInv, QwenLocked
<1>5. QwenAsked'
  <2>1. ASSUME NEW i \in Requests, qwenSlot'[i].client # "none"
        PROVE  /\ qwenSearch'[qwenSlot'[i].client].at = "waiting"
               /\ \/ qwenSearch'[qwenSlot'[i].client].key = qwenSlot'[i].key
                  \/ qwenSlot'[i].at = "answered" /\ ~qwenSlot'[i].ok
    <3>1. CASE qwenSlot'[i].client = s
      BY <1>1, <3>1
    <3>2. CASE qwenSlot'[i].client # s
      <4>1. qwenSlot'[i].client \in Reranks
        BY <2>1 DEF QwenRequests
      <4> QED BY <1>1, <1>3, <2>1, <3>2, <4>1 DEF QwenInv, QwenAsked
    <3> QED BY <3>1, <3>2
  <2>2. ASSUME NEW i \in Requests, NEW j \in Requests,
               qwenSlot'[i].client = qwenSlot'[j].client, qwenSlot'[i].client # "none"
        PROVE  i = j
    BY <1>3, <2>2 DEF QwenInv, QwenAsked
  <2>3. ASSUME NEW z \in Reranks
        PROVE  /\ qwenSearch'[z].at \in {"cut", "waiting"} =>
                     qwenSearch'[z].key \in qwenSearch'[z].asked
               /\ qwenSearch'[z].todo \subseteq qwenSearch'[z].asked
               /\ qwenSearch'[z].at = "idle" => qwenFound'[z] = {}
    BY <1>1 DEF QwenInv, QwenAsked
  <2> QED BY <2>1, <2>2, <2>3 DEF QwenAsked
<1>6. Qwen!JudgementsAreExact'
  BY <1>1 DEF QwenInv, Qwen!JudgementsAreExact
<1> QED BY <1>2, <1>3, <1>4, <1>5, <1>6 DEF QwenInv

LEMMA QwenReranks ==
    ASSUME Qwen!QwenAssumption, QwenInv, NEW s \in Reranks,
           \/ \E keys \in SUBSET Clips \ {{}}, y \in BOOLEAN : Qwen!Start(s, keys, y)
           \/ Qwen!Rerank(s) \/ Qwen!Fail(s)
    PROVE  QwenInv'
<1> DEFINE q == qwenSearch[s]
<1>1. /\ qwenSlot \in [Requests -> QwenRequests] /\ qwenClip \in [Reranks -> Nat]
      /\ qwenSearch \in [Reranks -> QwenSearches] /\ q \in QwenSearches
      /\ qwenFound \in [Reranks -> SUBSET QwenJudgements]
      /\ qwenCache \in [Clips -> QwenJudgements]
      /\ \A k \in Clips : qwenCache[k] # Qwen!NoJudgement =>
            qwenCache[k].key = k /\ Qwen!Exact(qwenCache[k])
      /\ \A j \in qwenFound[s] : j.key \in q.asked /\ Qwen!Exact(j)
      /\ \A i \in Requests : QwenExact(qwenSlot[i])
  BY DEF QwenInv, QwenShapes, Qwen!JudgementsAreExact
<1>2. /\ q.at \in {"cut", "waiting"} => q.key \in q.asked
      /\ q.todo \subseteq q.asked /\ q.asked \subseteq Clips
      /\ q.at = "idle" => qwenFound[s] = {}
      /\ \A i \in Requests : qwenSlot[i].client = s =>
            /\ q.at = "waiting"
            /\ \/ q.key = qwenSlot[i].key
               \/ qwenSlot[i].at = "answered" /\ ~qwenSlot[i].ok
      /\ \A i, j \in Requests : qwenSlot[i].client = s /\ qwenSlot[j].client = s => i = j
      /\ "none" \notin Reranks /\ "none" \notin Clips
  <2>1. "none" \notin Reranks /\ "none" \notin Clips
    BY DEF Qwen!QwenAssumption
  <2>2. q.asked \subseteq Clips
    BY <1>1 DEF QwenSearches
  <2>3. QwenAsked
    BY DEF QwenInv
  <2>4. /\ q.at \in {"cut", "waiting"} => q.key \in q.asked
        /\ q.todo \subseteq q.asked
        /\ q.at = "idle" => qwenFound[s] = {}
    BY <2>3 DEF QwenAsked
  <2>5. ASSUME NEW i \in Requests, qwenSlot[i].client = s
        PROVE  /\ q.at = "waiting"
               /\ \/ q.key = qwenSlot[i].key
                  \/ qwenSlot[i].at = "answered" /\ ~qwenSlot[i].ok
    BY <2>1, <2>3, <2>5 DEF QwenAsked
  <2>6. ASSUME NEW i \in Requests, NEW j \in Requests, qwenSlot[i].client = s,
               qwenSlot[j].client = s
        PROVE  i = j
    <3>1. qwenSlot[i].client = qwenSlot[j].client /\ qwenSlot[i].client # "none"
      BY <2>1, <2>6
    <3> QED BY <2>3, <3>1, QwenAlone
  <2> QED BY <2>1, <2>2, <2>4, <2>5, <2>6
<1> HIDE DEF q
<1>3. ASSUME NEW r \in QwenSearches, qwenSearch' = [qwenSearch EXCEPT ![s] = r],
             UNCHANGED <<qwenSlot, qwenClip, qwenHolder, qwenResidue, qwenHealthy, qwenCache>>,
             q.at # "waiting",
             r.at \in {"cut", "waiting"} => r.key \in r.asked,
             r.todo \subseteq r.asked,
             r.at = "idle" => qwenFound'[s] = {},
             qwenFound' \in [Reranks -> SUBSET QwenJudgements],
             \A z \in Reranks : z # s => qwenFound'[z] = qwenFound[z],
             \A j \in qwenFound'[s] : j.key \in r.asked /\ Qwen!Exact(j)
      PROVE  QwenInv'
  BY <1>1, <1>2, <1>3, QwenSearchTurn DEF QwenOwn
<1>10. ASSUME NEW keys \in SUBSET Clips, NEW y \in BOOLEAN, Qwen!Start(s, keys, y)
       PROVE  QwenInv'
  <2> DEFINE r == [at |-> "next", strict |-> y, asked |-> keys, todo |-> keys,
                   key |-> "none"]
  <2>1. r \in QwenSearches /\ r.at = "next" /\ r.todo \subseteq r.asked
    BY DEF QwenSearches
  <2>2. /\ qwenSearch' = [qwenSearch EXCEPT ![s] = r] /\ q.at = "idle"
        /\ UNCHANGED <<qwenFound, qwenSlot, qwenClip, qwenHolder, qwenResidue, qwenHealthy,
                       qwenCache>>
    BY <1>10 DEF Qwen!Start, Qwen!Worker, q
  <2> HIDE DEF r
  <2> QED BY <1>1, <1>2, <1>3, <2>1, <2>2
<1>11. ASSUME NEW k \in Clips, Qwen!Take(s, k) PROVE QwenInv'
  <2>1. /\ q.at = "next" /\ k \in q.todo
        /\ UNCHANGED <<qwenSlot, qwenClip, qwenHolder, qwenResidue, qwenHealthy, qwenCache>>
    BY <1>11 DEF Qwen!Take, Qwen!Worker, q
  <2>2. CASE qwenCache[k] # Qwen!NoJudgement
    <3> DEFINE D == q.todo \ {k}
               r == [q EXCEPT !.todo = D]
    <3>1. /\ qwenSearch' = [qwenSearch EXCEPT ![s] = r]
          /\ qwenFound' = [qwenFound EXCEPT ![s] = @ \cup {qwenCache[k]}]
      BY <1>1, <1>11, <2>2 DEF Qwen!Take, q
    <3>2. D \in SUBSET Clips /\ D \subseteq q.todo
      BY <1>2
    <3> HIDE DEF D
    <3>3. /\ r \in QwenSearches /\ r.at = q.at /\ r.asked = q.asked /\ r.todo = D
      BY <1>1, <3>2 DEF QwenSearches
    <3> HIDE DEF r
    <3>4. /\ qwenFound'[s] = qwenFound[s] \cup {qwenCache[k]}
          /\ \A z \in Reranks : z # s => qwenFound'[z] = qwenFound[z]
          /\ qwenFound' \in [Reranks -> SUBSET QwenJudgements]
      BY <1>1, <3>1
    <3>5. \A j \in qwenFound'[s] : j.key \in r.asked /\ Qwen!Exact(j)
      BY <1>1, <1>2, <2>1, <2>2, <3>3, <3>4
    <3> QED BY <1>2, <1>3, <2>1, <3>1, <3>2, <3>3, <3>4, <3>5
  <2>3. CASE qwenCache[k] = Qwen!NoJudgement
    <3> DEFINE r == [q EXCEPT !.at = "cut", !.key = k]
    <3>1. qwenSearch' = [qwenSearch EXCEPT ![s] = r] /\ UNCHANGED qwenFound
      BY <1>1, <1>11, <2>3 DEF Qwen!Take, q
    <3>2. /\ r \in QwenSearches /\ r.at = "cut" /\ r.key = k /\ r.asked = q.asked
          /\ r.todo = q.todo
      BY <1>1 DEF QwenSearches
    <3> HIDE DEF r
    <3> QED BY <1>1, <1>2, <1>3, <2>1, <3>1, <3>2
  <2> QED BY <2>2, <2>3
<1>12. CASE Qwen!Finish(s)
  <2> DEFINE r == [q EXCEPT !.at = "done"]
  <2>1. /\ qwenSearch' = [qwenSearch EXCEPT ![s] = r] /\ q.at = "next"
        /\ UNCHANGED <<qwenFound, qwenSlot, qwenClip, qwenHolder, qwenResidue, qwenHealthy,
                       qwenCache>>
    BY <1>1, <1>12 DEF Qwen!Finish, Qwen!Worker, q
  <2>2. /\ r \in QwenSearches /\ r.at = "done" /\ r.asked = q.asked /\ r.todo = q.todo
    BY <1>1 DEF QwenSearches
  <2> HIDE DEF r
  <2> QED BY <1>1, <1>2, <1>3, <2>1, <2>2
<1>13. ASSUME NEW i \in Requests, Qwen!Send(s, i) PROVE QwenInv'
  <2> DEFINE r == [q EXCEPT !.at = "waiting"]
             n == qwenClip[s]
             z == [Qwen!Free EXCEPT !.client = s, !.key = q.key, !.want = n, !.at = "sent"]
  <2>1. /\ qwenSearch' = [qwenSearch EXCEPT ![s] = r] /\ q.at = "cut"
        /\ qwenSlot' = [qwenSlot EXCEPT ![i] = z] /\ qwenSlot[i].at = "free"
        /\ UNCHANGED <<qwenFound, qwenClip, qwenHolder, qwenResidue, qwenHealthy, qwenCache>>
    BY <1>1, <1>13 DEF Qwen!Send, Qwen!Worker, q
  <2>2. /\ r \in QwenSearches /\ r.at = "waiting" /\ r.asked = q.asked /\ r.todo = q.todo
        /\ r.key = q.key
    BY <1>1 DEF QwenSearches
  <2>3. n \in Nat /\ q.key \in Clips \cup {"none"}
    BY <1>1 DEF QwenSearches
  <2> HIDE DEF n, r
  <2>4. z \in QwenRequests /\ z.client = s /\ z.key = q.key /\ z.at = "sent"
    BY <2>3, QwenFree DEF Qwen!Free, QwenRequests, Qwen!Points
  <2> HIDE DEF z
  <2>5. /\ qwenSlot' \in [Requests -> QwenRequests] /\ qwenSlot'[i] = z
        /\ \A j \in Requests : j # i => qwenSlot'[j] = qwenSlot[j]
    BY <1>1, <2>1, <2>4
  <2>6. QwenOwn(s, r)
    BY <1>2, <2>1, <2>2, <2>4, <2>5 DEF QwenOwn
  <2> QED BY <1>1, <1>2, <2>1, <2>2, <2>6, QwenSearchTurn
<1>14. ASSUME Qwen!GoOn(s)
       PROVE  \E r \in QwenSearches :
                 /\ qwenSearch' = [qwenSearch EXCEPT ![s] = r] /\ r.at \in {"failed", "next"}
                 /\ r.asked = q.asked /\ r.todo \subseteq q.todo
  <2> DEFINE D == q.todo \ {q.key}
             a == IF q.strict THEN "failed" ELSE "next"
             r == [q EXCEPT !.key = "none", !.at = a, !.todo = D]
  <2>1. qwenSearch' = [qwenSearch EXCEPT ![s] = r]
    BY <1>1, <1>14 DEF Qwen!GoOn, q
  <2>2. D \in SUBSET Clips /\ D \subseteq q.todo /\ a \in {"failed", "next"}
    BY <1>2
  <2> HIDE DEF D, a
  <2>3. r \in QwenSearches /\ r.at = a /\ r.asked = q.asked /\ r.todo = D
    BY <1>1, <2>2 DEF QwenSearches
  <2> QED BY <2>1, <2>2, <2>3
<1>15. ASSUME NEW i \in Requests, NEW y \in BOOLEAN, Qwen!Receive(s, i, y) PROVE QwenInv'
  <2>1. /\ q.at = "waiting" /\ qwenSlot[i].client = s /\ qwenSlot[i].at = "answered"
        /\ qwenSlot' = [qwenSlot EXCEPT ![i] = Qwen!Free]
        /\ UNCHANGED <<qwenHolder, qwenResidue, qwenHealthy>>
        /\ qwenClip' \in [Reranks -> Nat]
    BY <1>1, <1>15 DEF Qwen!Receive, Qwen!Worker, q
  <2>2. /\ qwenSlot' \in [Requests -> QwenRequests] /\ qwenSlot'[i] = Qwen!Free
        /\ \A j \in Requests : j # i => qwenSlot'[j] = qwenSlot[j]
        /\ \A j \in Requests : qwenSlot'[j].client # s
    BY <1>1, <1>2, <2>1, QwenFree
  <2>5. \A r : QwenOwn(s, r)
    BY <2>1, <2>2, QwenFree DEF QwenOwn
  <2>3. CASE qwenSlot[i].ok /\ y
    <3> DEFINE D == q.todo \ {q.key}
               j == qwenSlot[i].result
               r == [q EXCEPT !.key = "none", !.at = "next", !.todo = D]
    <3>1. /\ qwenSearch' = [qwenSearch EXCEPT ![s] = r]
          /\ qwenCache' = [qwenCache EXCEPT ![q.key] = j]
          /\ qwenFound' = [qwenFound EXCEPT ![s] = @ \cup {j}]
      BY <1>1, <1>15, <2>3 DEF Qwen!Receive, q
    <3>2. D \in SUBSET Clips /\ D \subseteq q.todo
      BY <1>2
    <3>3. /\ j \in QwenJudgements /\ j.key = q.key /\ Qwen!Exact(j)
          /\ q.key \in q.asked /\ q.key \in Clips
      BY <1>1, <1>2, <2>1, <2>3 DEF QwenExact, QwenRequests
    <3> HIDE DEF D, j
    <3>4. /\ r \in QwenSearches /\ r.at = "next" /\ r.asked = q.asked /\ r.todo = D
      BY <1>1, <3>2 DEF QwenSearches
    <3> HIDE DEF r
    <3>5. /\ qwenFound'[s] = qwenFound[s] \cup {j}
          /\ \A z \in Reranks : z # s => qwenFound'[z] = qwenFound[z]
          /\ qwenFound' \in [Reranks -> SUBSET QwenJudgements]
          /\ qwenCache' \in [Clips -> QwenJudgements]
          /\ qwenCache'[q.key] = j
          /\ \A k \in Clips : k # q.key => qwenCache'[k] = qwenCache[k]
      BY <1>1, <3>1, <3>3
    <3>6. \A x \in qwenFound'[s] : x.key \in r.asked /\ Qwen!Exact(x)
      BY <1>1, <3>3, <3>4, <3>5
    <3>7. \A k \in Clips : qwenCache'[k] # Qwen!NoJudgement =>
             qwenCache'[k].key = k /\ Qwen!Exact(qwenCache'[k])
      BY <1>1, <3>3, <3>5
    <3> QED BY <1>2, <2>1, <2>5, <3>1, <3>2, <3>4, <3>5, <3>6, <3>7, QwenSearchTurn
  <2>4. CASE ~(qwenSlot[i].ok /\ y)
    <3>1. Qwen!GoOn(s) /\ UNCHANGED <<qwenCache, qwenFound>>
      BY <1>15, <2>4 DEF Qwen!Receive
    <3>2. PICK r \in QwenSearches :
             /\ qwenSearch' = [qwenSearch EXCEPT ![s] = r] /\ r.at \in {"failed", "next"}
             /\ r.asked = q.asked /\ r.todo \subseteq q.todo
      BY <1>14, <3>1
    <3> QED BY <1>1, <1>2, <2>1, <2>5, <3>1, <3>2, QwenSearchTurn
  <2> QED BY <2>3, <2>4
<1>16. CASE Qwen!Fail(s)
  <2>1. /\ Qwen!GoOn(s)
        /\ qwenSlot' = [i \in Requests |->
             IF qwenSlot[i].client # s THEN qwenSlot[i]
             ELSE IF qwenSlot[i].at = "answered" THEN Qwen!Free
             ELSE [qwenSlot[i] EXCEPT !.client = "none"]]
        /\ UNCHANGED <<qwenFound, qwenHolder, qwenResidue, qwenHealthy, qwenCache>>
        /\ qwenClip' \in [Reranks -> Nat]
    BY <1>1, <1>16 DEF Qwen!Fail, Qwen!Worker
  <2>2. PICK r \in QwenSearches :
           /\ qwenSearch' = [qwenSearch EXCEPT ![s] = r] /\ r.at \in {"failed", "next"}
           /\ r.asked = q.asked /\ r.todo \subseteq q.todo
    BY <1>14, <2>1
  <2>3. ASSUME NEW i \in Requests
        PROVE  /\ qwenSlot'[i] \in QwenRequests /\ qwenSlot'[i].client # s
               /\ \/ qwenSlot'[i] = qwenSlot[i] \/ qwenSlot'[i] = Qwen!Free
                  \/ qwenSlot'[i] = [qwenSlot[i] EXCEPT !.client = "none"]
               /\ qwenSlot'[i].at # qwenSlot[i].at => qwenSlot[i].at \in {"free", "answered"}
    <3>1. /\ [qwenSlot[i] EXCEPT !.client = "none"] \in QwenRequests
          /\ qwenSlot[i] \in QwenRequests
      BY <1>1, QwenEdits
    <3>2. /\ [qwenSlot[i] EXCEPT !.client = "none"].client = "none"
          /\ [qwenSlot[i] EXCEPT !.client = "none"].at = qwenSlot[i].at
      BY <3>1 DEF QwenRequests
    <3> QED BY <1>2, <2>1, <3>1, <3>2, QwenFree
  <2>4. qwenSlot' \in [Requests -> QwenRequests]
    BY <2>1, <2>3
  <2>5. QwenOwn(s, r)
    BY <2>3, <2>4 DEF QwenOwn
  <2> QED BY <1>1, <1>2, <2>1, <2>2, <2>5, QwenSearchTurn
<1> QED BY <1>10, <1>11, <1>12, <1>13, <1>15, <1>16 DEF Qwen!Rerank

\* What happens around them.
LEMMA QwenAround ==
    ASSUME Qwen!QwenAssumption, QwenInv,
           \/ \E s \in Reranks : Qwen!Rewrite(s)
           \/ \E k \in Clips : Qwen!Damage(k)
           \/ Qwen!Restart \/ UNCHANGED Qwen!vars
    PROVE  QwenInv'
<1> USE DEF QwenInv, Qwen!JudgementsAreExact
<1>1. ASSUME NEW s \in Reranks, Qwen!Rewrite(s) PROVE QwenInv'
  <2>1. /\ qwenClip' \in [Reranks -> Nat]
        /\ UNCHANGED <<qwenSearch, qwenFound, qwenSlot, qwenHolder, qwenResidue, qwenHealthy,
                       qwenCache>>
    <3>1. qwenClip \in [Reranks -> Nat]
      BY DEF QwenShapes
    <3> QED BY <1>1, <3>1 DEF Qwen!Rewrite, Qwen!Worker
  <2> QED BY <2>1 DEF QwenShapes, QwenLocked, QwenAsked
<1>2. ASSUME NEW k \in Clips, Qwen!Damage(k) PROVE QwenInv'
  <2>1. /\ qwenCache' = [qwenCache EXCEPT ![k] = Qwen!NoJudgement]
        /\ UNCHANGED <<qwenSearch, qwenFound, qwenSlot, qwenHolder, qwenResidue, qwenHealthy,
                       qwenClip>>
    BY <1>2 DEF Qwen!Damage, Qwen!Worker
  <2>2. qwenCache' \in [Clips -> QwenJudgements] /\ qwenCache'[k] = Qwen!NoJudgement
        /\ \A l \in Clips : l # k => qwenCache'[l] = qwenCache[l]
    BY <2>1, QwenFree DEF QwenShapes
  <2> QED BY <2>1, <2>2 DEF QwenShapes, QwenLocked, QwenAsked
<1>3. CASE Qwen!Restart
  <2>1. /\ qwenSlot' = [i \in Requests |->
             IF qwenSlot[i].at \in {"free", "answered"} THEN qwenSlot[i]
             ELSE IF qwenSlot[i].client = "none" THEN Qwen!Free
             ELSE [Qwen!Free EXCEPT !.client = qwenSlot[i].client, !.at = "answered"]]
        /\ qwenHolder' = "none" /\ qwenResidue' = "none" /\ qwenHealthy' = TRUE
        /\ UNCHANGED <<qwenSearch, qwenFound, qwenClip, qwenCache>>
    BY <1>3 DEF Qwen!Restart
  <2>2. ASSUME NEW i \in Requests
        PROVE  /\ qwenSlot'[i] \in QwenRequests /\ QwenExact(qwenSlot'[i])
               /\ qwenSlot'[i].at \in {"free", "answered"}
               /\ qwenSlot'[i].client # "none" => qwenSlot'[i].client = qwenSlot[i].client
               /\ qwenSlot'[i] # qwenSlot[i] =>
                     \/ qwenSlot'[i].client = "none"
                     \/ qwenSlot'[i].at = "answered" /\ ~qwenSlot'[i].ok
    <3> DEFINE c == qwenSlot[i].client
               r == [Qwen!Free EXCEPT !.client = c, !.at = "answered"]
    <3>1. qwenSlot[i] \in QwenRequests /\ c \in Reranks \cup {"none"}
      BY DEF QwenShapes, QwenRequests
    <3>2. CASE qwenSlot'[i] = qwenSlot[i] /\ qwenSlot[i].at \in {"free", "answered"}
      BY <3>1, <3>2
    <3>3. CASE qwenSlot'[i] = Qwen!Free
      BY <3>3, QwenFree
    <3>4. CASE qwenSlot'[i] = r
      <4> HIDE DEF c
      <4>1. r \in QwenRequests /\ r.client = c /\ r.at = "answered" /\ r.ok = FALSE
        BY <3>1, QwenFree DEF QwenRequests, Qwen!Free, Qwen!Points
      <4> HIDE DEF r
      <4>2. QwenExact(r)
        BY <4>1 DEF QwenExact
      <4> QED BY <3>4, <4>1, <4>2 DEF c
    <3> QED BY <2>1, <3>2, <3>3, <3>4
  <2>3. qwenSlot' \in [Requests -> QwenRequests]
    BY <2>1, <2>2
  <2>4. QwenLocked'
    <3>1. "none" \notin Requests
      BY DEF Qwen!QwenAssumption
    <3> QED BY <2>1, <2>2, <3>1 DEF QwenLocked
  <2>5. QwenAsked'
    <3>1. ASSUME NEW i \in Requests, qwenSlot'[i].client # "none"
          PROVE  /\ qwenSearch'[qwenSlot'[i].client].at = "waiting"
                 /\ \/ qwenSearch'[qwenSlot'[i].client].key = qwenSlot'[i].key
                    \/ qwenSlot'[i].at = "answered" /\ ~qwenSlot'[i].ok
      <4>1. qwenSlot'[i].client = qwenSlot[i].client /\ qwenSearch' = qwenSearch
        BY <2>1, <2>2, <3>1
      <4> QED BY <2>2, <3>1, <4>1 DEF QwenAsked
    <3>2. ASSUME NEW i \in Requests, NEW j \in Requests,
                 qwenSlot'[i].client = qwenSlot'[j].client, qwenSlot'[i].client # "none"
          PROVE  i = j
      <4>1. qwenSlot'[i].client = qwenSlot[i].client /\ qwenSlot'[j].client = qwenSlot[j].client
        BY <2>2, <3>2
      <4> QED BY <3>2, <4>1, QwenAlone
    <3>3. ASSUME NEW s \in Reranks
          PROVE  /\ qwenSearch'[s].at \in {"cut", "waiting"} =>
                       qwenSearch'[s].key \in qwenSearch'[s].asked
                 /\ qwenSearch'[s].todo \subseteq qwenSearch'[s].asked
                 /\ qwenSearch'[s].at = "idle" => qwenFound'[s] = {}
      BY <2>1 DEF QwenAsked
    <3> QED BY <3>1, <3>2, <3>3 DEF QwenAsked
  <2>6. QwenShapes'
    BY <2>1, <2>3 DEF QwenShapes
  <2> QED BY <2>1, <2>2, <2>4, <2>5, <2>6
<1>4. CASE UNCHANGED Qwen!vars
  BY <1>4 DEF Qwen!vars, QwenShapes, QwenLocked, QwenAsked
<1> QED BY <1>1, <1>2, <1>3, <1>4

LEMMA QwenKeeps ==
    ASSUME Qwen!QwenAssumption, QwenInv, [Qwen!Next]_(Qwen!vars)
    PROVE  QwenInv'
<1>1. ASSUME NEW s \in Reranks,
             \/ \E keys \in SUBSET Clips \ {{}}, y \in BOOLEAN : Qwen!Start(s, keys, y)
             \/ Qwen!Rerank(s) \/ Qwen!Fail(s)
      PROVE  QwenInv'
  BY <1>1, QwenReranks
<1>2. ASSUME NEW i \in Requests, Qwen!Handle(i) PROVE QwenInv'
  BY <1>2, QwenHandles
<1>3. CASE \/ \E s \in Reranks : Qwen!Rewrite(s)
           \/ \E k \in Clips : Qwen!Damage(k)
           \/ Qwen!Restart \/ UNCHANGED Qwen!vars
  BY <1>3, QwenAround
<1> QED BY <1>1, <1>2, <1>3 DEF Qwen!Next

\* Before the first search nothing is asked, judged or cached.
LEMMA QwenStart ==
    ASSUME Qwen!QwenAssumption, Qwen!Init
    PROVE  QwenInv
<1>1. /\ qwenSlot = [i \in Requests |-> Qwen!Free]
      /\ qwenSearch = [s \in Reranks |-> [at |-> "idle", strict |-> FALSE, asked |-> {},
                                          todo |-> {}, key |-> "none"]]
      /\ qwenFound = [s \in Reranks |-> {}] /\ qwenClip = [s \in Reranks |-> 0]
      /\ qwenCache = [k \in Clips |-> Qwen!NoJudgement]
      /\ qwenHolder = "none" /\ qwenResidue = "none" /\ qwenHealthy = TRUE
  BY DEF Qwen!Init
<1>2. QwenShapes
  BY <1>1, QwenFree DEF QwenShapes, QwenSearches
<1>3. QwenLocked
  BY <1>1, QwenFree DEF QwenLocked, Qwen!QwenAssumption
<1>4. QwenAsked
  BY <1>1, QwenFree DEF QwenAsked
<1>5. Qwen!JudgementsAreExact
  BY <1>1 DEF Qwen!JudgementsAreExact
<1> QED BY <1>1, <1>2, <1>3, <1>4, <1>5, QwenFree DEF QwenInv

(***************************************************************************)
(* The OCR reader and its children.                                        *)
(***************************************************************************)

USE DEF Ocr!None, Ocr!Alive

OcrReads == {"frame", "send", "answer", "unlink"}
OcrThens == {"none", "contract", "fail", "spawn", "unlink", "over"}
OcrStages ==
    [at : Ocr!Calling \cup {"stage", "wants", "release", "over"}, left : Int,
     proc : Children \cup {"none"}, then : OcrThens, ok : BOOLEAN]
OcrChildren ==
    [at : Ocr!Living \cup {"new", "exited", "killed", "lost"}, in : Stages \cup {"none"},
     out : Stages \cup {"none", "hello", "wrong", "error"}, open : BOOLEAN]

\* The child a living one must be: that of the thread with the lock, if it has one
\* in hand, or else the reader's.
OcrOwned(p) ==
    p = IF ocrLock \in Stages /\ ocrStage[ocrLock].proc # "none"
        THEN ocrStage[ocrLock].proc ELSE ocrTracked

\* What a thread is entitled to where it is.
OcrFits(s) ==
    /\ ocrStage[s].at \in Ocr!Calling => ocrLock = s
    /\ ocrStage[s].at \notin OcrReads \cup {"hello", "discard"} => ocrStage[s].proc = "none"
    /\ ocrStage[s].at = "discard" =>
          /\ ocrStage[s].then # "none"
          /\ ocrStage[s].then \in {"contract", "spawn", "over"} => ocrStage[s].proc = "none"
    /\ ocrStage[s].at = "hello" => ocrStage[s].proc \in Children
    /\ ocrStage[s].at \in OcrReads => \A p \in Children :
          ocrStage[s].proc = p /\ Ocr!Alive(p) => ocrTracked = p
    /\ \/ ocrStage[s].at = "spawn"
       \/ ocrStage[s].at = "discard" /\ ocrStage[s].then = "spawn"
       => \A p \in Children : ~Ocr!Alive(p)

OcrShapes ==
    /\ ocrStage \in [Stages -> OcrStages]
    /\ ocrLock \in Stages \cup {"none"}
    /\ ocrTracked \in Children \cup {"none"}
    /\ ocrChild \in [Children -> OcrChildren]

OcrInv ==
    /\ OcrShapes
    /\ \A s \in Stages : OcrFits(s)
    /\ \A p \in Children : Ocr!Alive(p) => p \in ocrBundles /\ OcrOwned(p)

\* At most one child lives that is not lost, and it is somebody's.
LEMMA OcrOwners ==
    ASSUME OcrInv PROVE Ocr!LiveChildrenAreOwned
BY DEF OcrInv, OcrShapes, OcrOwned, Ocr!LiveChildrenAreOwned

\* Records with fields replaced.
LEMMA OcrEdits ==
    ASSUME NEW r \in OcrStages
    PROVE  /\ \A a \in Ocr!Calling \cup {"stage", "wants", "release", "over"} :
                 /\ [r EXCEPT !.at = a] \in OcrStages
                 /\ \A p \in Children \cup {"none"} :
                       /\ [r EXCEPT !.at = a, !.proc = p] \in OcrStages
                       /\ [r EXCEPT !.proc = p, !.at = a] \in OcrStages
                       /\ [r EXCEPT !.then = "none", !.proc = p, !.at = a] \in OcrStages
                       /\ \A t \in OcrThens :
                             [r EXCEPT !.at = a, !.proc = p, !.then = t] \in OcrStages
                 /\ \A y \in BOOLEAN :
                       /\ [r EXCEPT !.at = a, !.ok = y] \in OcrStages
                       /\ \A n \in Int : [r EXCEPT !.left = n, !.ok = y, !.at = a] \in OcrStages
<1>1. ASSUME NEW a \in Ocr!Calling \cup {"stage", "wants", "release", "over"},
           NEW p \in Children \cup {"none"}
      PROVE  /\ [r EXCEPT !.at = a] \in OcrStages
             /\ [r EXCEPT !.at = a, !.proc = p] \in OcrStages
             /\ [r EXCEPT !.proc = p, !.at = a] \in OcrStages
  BY DEF OcrStages
<1>2. ASSUME NEW a \in Ocr!Calling \cup {"stage", "wants", "release", "over"},
           NEW p \in Children \cup {"none"}
      PROVE  [r EXCEPT !.then = "none", !.proc = p, !.at = a] \in OcrStages
  BY DEF OcrStages, OcrThens
<1>3. ASSUME NEW a \in Ocr!Calling \cup {"stage", "wants", "release", "over"},
           NEW p \in Children \cup {"none"}, NEW t \in OcrThens
      PROVE  [r EXCEPT !.at = a, !.proc = p, !.then = t] \in OcrStages
  BY DEF OcrStages
<1>4. ASSUME NEW a \in Ocr!Calling \cup {"stage", "wants", "release", "over"},
           NEW y \in BOOLEAN, NEW n \in Int
      PROVE  [r EXCEPT !.left = n, !.ok = y, !.at = a] \in OcrStages
  BY DEF OcrStages
<1>5. ASSUME NEW a \in Ocr!Calling \cup {"stage", "wants", "release", "over"},
           NEW y \in BOOLEAN
      PROVE  [r EXCEPT !.at = a, !.ok = y] \in OcrStages
  BY DEF OcrStages
<1> QED BY <1>1, <1>2, <1>3, <1>4, <1>5

\* A step of one thread, by which no child begins to live, or the child it starts.
LEMMA OcrTurn ==
    ASSUME Ocr!OcrAssumption, OcrInv, NEW s \in Stages,
           ocrLock = s \/ ocrLock = "none", ocrLock' \in {s, "none"},
           ocrStage' \in [Stages -> OcrStages],
           \A u \in Stages : u # s => ocrStage'[u] = ocrStage[u],
           OcrFits(s)',
           ocrTracked' \in Children \cup {"none"}, ocrChild' \in [Children -> OcrChildren],
           \A p \in Children : Ocr!Alive(p)' => p \in ocrBundles' /\ OcrOwned(p)'
    PROVE  OcrInv'
<1>1. OcrShapes'
  BY DEF OcrShapes
<1>2. ASSUME NEW u \in Stages, u # s PROVE OcrFits(u)'
  <2>1. ocrStage[u].at \notin Ocr!Calling /\ OcrFits(u)
    BY <1>2 DEF OcrInv, Ocr!OcrAssumption, OcrFits
  <2> QED BY <1>2, <2>1 DEF OcrFits, Ocr!Calling, OcrReads
<1> QED BY <1>1, <1>2 DEF OcrInv

\* The same when the thread keeps or takes the lock, and the reader its child.
LEMMA OcrPasses ==
    ASSUME Ocr!OcrAssumption, OcrInv, NEW s \in Stages,
           ocrLock = s \/ ocrLock = "none", ocrLock' \in {s, "none"},
           ocrStage' \in [Stages -> OcrStages],
           \A u \in Stages : u # s => ocrStage'[u] = ocrStage[u],
           OcrFits(s)',
           UNCHANGED <<ocrTracked, ocrBundles>>, ocrChild' \in [Children -> OcrChildren],
           \A p \in Children : Ocr!Alive(p)' => Ocr!Alive(p),
           \A p \in Children : Ocr!Alive(p)' /\ OcrOwned(p) => OcrOwned(p)'
    PROVE  OcrInv'
BY OcrTurn DEF OcrInv, OcrShapes

\* A thread puts a record into its place.
LEMMA OcrPuts ==
    ASSUME OcrShapes, NEW s \in Stages, NEW e \in OcrStages,
           ocrStage' = [ocrStage EXCEPT ![s] = e]
    PROVE  /\ ocrStage' \in [Stages -> OcrStages] /\ ocrStage'[s] = e
           /\ \A u \in Stages : u # s => ocrStage'[u] = ocrStage[u]
BY DEF OcrShapes

\* A thread that does not have the lock, between two reads.
LEMMA OcrAside ==
    ASSUME Ocr!OcrAssumption, OcrInv, NEW s \in Stages,
           \/ Ocr!Leave(s)
           \/ \E b \in BOOLEAN : Ocr!Read(s, b)
    PROVE  OcrInv'
<1> DEFINE r == ocrStage[s]
<1>1. r \in OcrStages /\ OcrFits(s) /\ OcrShapes
  BY DEF OcrInv, OcrShapes
<1>2. /\ r.at = "stage"
      /\ UNCHANGED <<ocrLock, ocrTracked, ocrBundles, ocrChild>>
  BY DEF Ocr!Leave, Ocr!Read, Ocr!Reader, Ocr!Disk
<1>3. r.proc = "none"
  BY <1>1, <1>2 DEF OcrFits, OcrReads
<1>4. PICK e \in OcrStages : /\ ocrStage' = [ocrStage EXCEPT ![s] = e]
                             /\ e.at \in {"wants", "release"} /\ e.proc = "none"
  <2>1. CASE Ocr!Leave(s)
    <3> DEFINE e == [r EXCEPT !.at = "release"]
    <3>1. e \in OcrStages /\ ocrStage' = [ocrStage EXCEPT ![s] = e]
      BY <1>1, <2>1, OcrEdits DEF Ocr!Leave, Ocr!Goto
    <3>2. e.at = "release" /\ e.proc = "none"
      BY <1>1, <1>3 DEF OcrStages
    <3> QED BY <3>1, <3>2
  <2>2. ASSUME NEW b \in BOOLEAN, Ocr!Read(s, b)
        PROVE  \E e \in OcrStages : /\ ocrStage' = [ocrStage EXCEPT ![s] = e]
                                    /\ e.at \in {"wants", "release"} /\ e.proc = "none"
    <3> DEFINE to == IF b THEN "wants" ELSE "release"
               e == [r EXCEPT !.left = r.left - 1, !.ok = FALSE, !.at = to]
    <3>1. r.left - 1 \in Int /\ to \in Ocr!Calling \cup {"stage", "wants", "release", "over"}
      BY <1>1 DEF OcrStages
    <3>2. e \in OcrStages
      BY <1>1, <3>1, OcrEdits
    <3>3. ocrStage' = [ocrStage EXCEPT ![s] = e]
      BY <2>2 DEF Ocr!Read
    <3>4. e.at = to /\ e.proc = "none"
      BY <1>1, <1>3 DEF OcrStages
    <3> QED BY <3>2, <3>3, <3>4
  <2> QED BY <2>1, <2>2
<1>5. /\ ocrStage' \in [Stages -> OcrStages] /\ ocrStage'[s] = e
      /\ \A u \in Stages : u # s => ocrStage'[u] = ocrStage[u]
  BY <1>1, <1>4, OcrPuts
<1>6. OcrShapes'
  BY <1>1, <1>2, <1>5 DEF OcrShapes
<1>7. \A u \in Stages : u # s => OcrFits(u)'
  BY <1>2, <1>5 DEF OcrInv, OcrFits
<1>8. OcrFits(s)'
  BY <1>4, <1>5 DEF OcrFits, Ocr!Calling, OcrReads
<1>9. \A p \in Children : Ocr!Alive(p)' => p \in ocrBundles' /\ OcrOwned(p)'
  <2> SUFFICES ASSUME NEW p \in Children, Ocr!Alive(p)' PROVE p \in ocrBundles' /\ OcrOwned(p)'
    OBVIOUS
  <2>1. p \in ocrBundles /\ OcrOwned(p)
    BY <1>2 DEF OcrInv
  <2> QED BY <1>2, <1>3, <1>4, <1>5, <2>1 DEF OcrOwned
<1> QED BY <1>6, <1>7, <1>8, <1>9 DEF OcrInv

\* The records a thread writes: it goes on, goes on with a child in hand, or means
\* to end a child.
LEMMA OcrGoesOn ==
    ASSUME NEW r \in OcrStages, NEW a \in Ocr!Calling \cup {"stage", "wants", "release", "over"}
    PROVE  /\ [r EXCEPT !.at = a] \in OcrStages
           /\ [r EXCEPT !.at = a].at = a /\ [r EXCEPT !.at = a].proc = r.proc
           /\ [r EXCEPT !.at = a, !.ok = TRUE] \in OcrStages
           /\ [r EXCEPT !.at = a, !.ok = TRUE].at = a
           /\ [r EXCEPT !.at = a, !.ok = TRUE].proc = r.proc
           /\ \A p \in Children \cup {"none"} :
                 /\ [r EXCEPT !.at = a, !.proc = p] \in OcrStages
                 /\ [r EXCEPT !.at = a, !.proc = p].at = a
                 /\ [r EXCEPT !.at = a, !.proc = p].proc = p
                 /\ [r EXCEPT !.proc = p, !.at = a] \in OcrStages
                 /\ [r EXCEPT !.proc = p, !.at = a].at = a
                 /\ [r EXCEPT !.proc = p, !.at = a].proc = p
<1>1. /\ [r EXCEPT !.at = a] \in OcrStages /\ [r EXCEPT !.at = a, !.ok = TRUE] \in OcrStages
      /\ \A p \in Children \cup {"none"} :
            /\ [r EXCEPT !.at = a, !.proc = p] \in OcrStages
            /\ [r EXCEPT !.proc = p, !.at = a] \in OcrStages
  BY OcrEdits
<1>2. /\ [r EXCEPT !.at = a].at = a /\ [r EXCEPT !.at = a].proc = r.proc
      /\ [r EXCEPT !.at = a, !.ok = TRUE].at = a
      /\ [r EXCEPT !.at = a, !.ok = TRUE].proc = r.proc
  BY DEF OcrStages
<1>3. ASSUME NEW p \in Children \cup {"none"}
      PROVE  /\ [r EXCEPT !.at = a, !.proc = p].at = a
             /\ [r EXCEPT !.at = a, !.proc = p].proc = p
             /\ [r EXCEPT !.proc = p, !.at = a].at = a
             /\ [r EXCEPT !.proc = p, !.at = a].proc = p
  BY DEF OcrStages
<1> QED BY <1>1, <1>2, <1>3

LEMMA OcrMeans ==
    ASSUME OcrShapes, NEW s \in Stages, NEW p \in Children \cup {"none"}, NEW t \in OcrThens
    PROVE  /\ Ocr!Discarding(s, p, t) \in OcrStages
           /\ Ocr!Discarding(s, p, t).at = "discard"
           /\ Ocr!Discarding(s, p, t).proc = p /\ Ocr!Discarding(s, p, t).then = t
<1>1. ocrStage[s] \in OcrStages /\ "discard" \in Ocr!Calling
  BY DEF OcrShapes, Ocr!Calling
<1>2. Ocr!Discarding(s, p, t) \in OcrStages
  BY <1>1, OcrEdits DEF Ocr!Discarding
<1> QED BY <1>1, <1>2 DEF Ocr!Discarding, OcrStages

\* What the thread with the lock may make of itself while the reader and the
\* children stay, or a child ends.
LEMMA OcrWrites ==
    ASSUME Ocr!OcrAssumption, OcrInv, NEW s \in Stages, NEW e \in OcrStages,
           ocrLock = s \/ (ocrLock = "none" /\ ocrStage[s].proc = "none"),
           ocrLock' \in {s, "none"},
           ocrStage' = [ocrStage EXCEPT ![s] = e],
           UNCHANGED <<ocrTracked, ocrBundles>>, ocrChild' \in [Children -> OcrChildren],
           \A p \in Children : Ocr!Alive(p)' => Ocr!Alive(p),
           e.at \in Ocr!Calling => ocrLock' = s,
           e.at \in OcrReads \cup {"discard", "hello"} => ocrLock' = s,
           e.at \notin OcrReads \cup {"hello", "discard"} => e.proc = "none",
           e.at = "discard" => /\ e.then # "none"
                               /\ e.then \in {"contract", "spawn", "over"} => e.proc = "none",
           e.at = "hello" => e.proc \in Children,
           e.at \in OcrReads => \A p \in Children : e.proc = p /\ Ocr!Alive(p) => ocrTracked = p,
           e.at = "spawn" \/ (e.at = "discard" /\ e.then = "spawn") =>
               \A p \in Children : ~Ocr!Alive(p),
           \A p \in Children : Ocr!Alive(p) /\ e.proc # ocrStage[s].proc =>
               ocrTracked = p /\ e.proc \in {"none", p}
    PROVE  OcrInv'
<1>1. /\ ocrStage' \in [Stages -> OcrStages] /\ ocrStage'[s] = e
      /\ \A u \in Stages : u # s => ocrStage'[u] = ocrStage[u]
  BY OcrPuts DEF OcrInv
<1>2. OcrFits(s)'
  BY <1>1 DEF OcrFits
<1>3. ASSUME NEW p \in Children, Ocr!Alive(p)', OcrOwned(p) PROVE OcrOwned(p)'
  <2>1. Ocr!Alive(p)
    BY <1>3
  <2>2. /\ ocrLock # s => ocrStage[s].proc = "none" /\ ocrTracked = p
        /\ ocrLock = s => p = IF ocrStage[s].proc # "none" THEN ocrStage[s].proc ELSE ocrTracked
    BY <1>3 DEF OcrOwned, Ocr!OcrAssumption
  <2>3. "none" \notin Stages /\ "none" \notin Children
    BY DEF Ocr!OcrAssumption
  <2>4. CASE e.proc # ocrStage[s].proc
    BY <1>1, <2>1, <2>3, <2>4 DEF OcrOwned
  <2>5. CASE e.proc = ocrStage[s].proc
    <3>1. CASE e.proc = "none"
      BY <1>1, <2>2, <2>3, <2>5, <3>1 DEF OcrOwned
    <3>2. CASE e.proc # "none"
      <4>1. ocrLock = s /\ p = e.proc
        BY <2>2, <2>5, <3>2
      <4>2. CASE ocrLock' = s
        BY <1>1, <3>2, <4>1, <4>2 DEF OcrOwned
      <4>3. CASE ocrLock' = "none"
        BY <2>3, <3>2, <4>3
      <4> QED BY <4>2, <4>3
    <3> QED BY <3>1, <3>2
  <2> QED BY <2>4, <2>5
<1> QED BY <1>1, <1>2, <1>3, OcrPasses

\* What the edits of a child leave of it.
LEMMA OcrChildEdits ==
    ASSUME NEW x \in OcrChildren
    PROVE  /\ \A y \in BOOLEAN : /\ [x EXCEPT !.open = y] \in OcrChildren
                                 /\ [x EXCEPT !.open = y].at = x.at
           /\ \A a \in Ocr!Living \cup {"new", "exited", "killed", "lost"} :
                 /\ [x EXCEPT !.at = a] \in OcrChildren /\ [x EXCEPT !.at = a].at = a
                 /\ \A y \in BOOLEAN : /\ [x EXCEPT !.open = y, !.at = a] \in OcrChildren
                                       /\ [x EXCEPT !.open = y, !.at = a].at = a
                 /\ \A m \in Stages \cup {"none", "hello", "wrong", "error"} :
                       /\ [x EXCEPT !.at = a, !.out = m] \in OcrChildren
                       /\ [x EXCEPT !.at = a, !.out = m].at = a
                       /\ [x EXCEPT !.at = a, !.out = m, !.in = "none"] \in OcrChildren
                       /\ [x EXCEPT !.at = a, !.out = m, !.in = "none"].at = a
           /\ \A s \in Stages : /\ [x EXCEPT !.in = s] \in OcrChildren
                                /\ [x EXCEPT !.in = s].at = x.at
           /\ [x EXCEPT !.out = "none"] \in OcrChildren /\ [x EXCEPT !.out = "none"].at = x.at
<1>1. ASSUME NEW y \in BOOLEAN
      PROVE  [x EXCEPT !.open = y] \in OcrChildren /\ [x EXCEPT !.open = y].at = x.at
  BY DEF OcrChildren
<1>2. ASSUME NEW a \in Ocr!Living \cup {"new", "exited", "killed", "lost"}
      PROVE  /\ [x EXCEPT !.at = a] \in OcrChildren /\ [x EXCEPT !.at = a].at = a
             /\ \A y \in BOOLEAN : /\ [x EXCEPT !.open = y, !.at = a] \in OcrChildren
                                   /\ [x EXCEPT !.open = y, !.at = a].at = a
  BY DEF OcrChildren
<1>3. ASSUME NEW a \in Ocr!Living \cup {"new", "exited", "killed", "lost"},
           NEW m \in Stages \cup {"none", "hello", "wrong", "error"}
      PROVE  /\ [x EXCEPT !.at = a, !.out = m] \in OcrChildren
             /\ [x EXCEPT !.at = a, !.out = m].at = a
             /\ [x EXCEPT !.at = a, !.out = m, !.in = "none"] \in OcrChildren
             /\ [x EXCEPT !.at = a, !.out = m, !.in = "none"].at = a
  BY DEF OcrChildren
<1>4. ASSUME NEW s \in Stages
      PROVE  [x EXCEPT !.in = s] \in OcrChildren /\ [x EXCEPT !.in = s].at = x.at
  BY DEF OcrChildren
<1>5. [x EXCEPT !.out = "none"] \in OcrChildren /\ [x EXCEPT !.out = "none"].at = x.at
  BY DEF OcrChildren
<1> QED BY <1>1, <1>2, <1>3, <1>4, <1>5

\* The steps of the thread with the lock that leave its child to it.
LEMMA OcrCalls ==
    ASSUME Ocr!OcrAssumption, OcrInv, NEW s \in Stages,
           \/ Ocr!Acquire(s) \/ Ocr!Load(s) \/ Ocr!Contract(s) \/ Ocr!Timeout(s) \/ Ocr!Fail(s)
           \/ Ocr!Forget(s) \/ Ocr!NoSpawn(s) \/ Ocr!Send(s) \/ Ocr!Receive(s)
           \/ \E b \in BOOLEAN : Ocr!WriteFrame(s, b) \/ Ocr!Unlink(s, b)
    PROVE  OcrInv'
<1> USE DEF Ocr!Reader, Ocr!Disk, Ocr!Files
<1> DEFINE r == ocrStage[s]
<1>1. /\ r \in OcrStages /\ r.proc \in Children \cup {"none"} /\ OcrFits(s) /\ OcrShapes
      /\ ocrTracked \in Children \cup {"none"} /\ ocrLock \in Stages \cup {"none"}
      /\ ocrChild \in [Children -> OcrChildren]
      /\ "none" \notin Stages /\ "none" \notin Children
  BY DEF OcrInv, OcrShapes, OcrStages, Ocr!OcrAssumption
<1>2. \A p \in Children : Ocr!Alive(p) =>
         \/ ocrLock = "none" /\ p = ocrTracked
         \/ ocrLock = s /\ p = IF r.proc # "none" THEN r.proc ELSE ocrTracked
         \/ ocrLock \notin {s, "none"}
  BY <1>1 DEF OcrInv, OcrOwned
<1>0. \A a \in Ocr!Calling \cup {"stage", "wants", "release", "over"} :
         /\ [r EXCEPT !.at = a] \in OcrStages
         /\ [r EXCEPT !.at = a].at = a /\ [r EXCEPT !.at = a].proc = r.proc
         /\ [r EXCEPT !.at = a, !.ok = TRUE] \in OcrStages
         /\ [r EXCEPT !.at = a, !.ok = TRUE].at = a
         /\ [r EXCEPT !.at = a, !.ok = TRUE].proc = r.proc
         /\ [r EXCEPT !.at = a, !.proc = ocrTracked] \in OcrStages
         /\ [r EXCEPT !.at = a, !.proc = ocrTracked].at = a
         /\ [r EXCEPT !.at = a, !.proc = ocrTracked].proc = ocrTracked
         /\ [r EXCEPT !.proc = "none", !.at = a] \in OcrStages
         /\ [r EXCEPT !.proc = "none", !.at = a].at = a
         /\ [r EXCEPT !.proc = "none", !.at = a].proc = "none"
  <2> HIDE DEF r
  <2> SUFFICES ASSUME NEW a \in Ocr!Calling \cup {"stage", "wants", "release", "over"}
               PROVE  /\ [r EXCEPT !.at = a] \in OcrStages
                      /\ [r EXCEPT !.at = a].at = a /\ [r EXCEPT !.at = a].proc = r.proc
                      /\ [r EXCEPT !.at = a, !.ok = TRUE] \in OcrStages
                      /\ [r EXCEPT !.at = a, !.ok = TRUE].at = a
                      /\ [r EXCEPT !.at = a, !.ok = TRUE].proc = r.proc
                      /\ [r EXCEPT !.at = a, !.proc = ocrTracked] \in OcrStages
                      /\ [r EXCEPT !.at = a, !.proc = ocrTracked].at = a
                      /\ [r EXCEPT !.at = a, !.proc = ocrTracked].proc = ocrTracked
                      /\ [r EXCEPT !.proc = "none", !.at = a] \in OcrStages
                      /\ [r EXCEPT !.proc = "none", !.at = a].at = a
                      /\ [r EXCEPT !.proc = "none", !.at = a].proc = "none"
    OBVIOUS
  <2>1. "none" \in Children \cup {"none"}
    OBVIOUS
  <2>2. /\ [r EXCEPT !.at = a] \in OcrStages
        /\ [r EXCEPT !.at = a].at = a /\ [r EXCEPT !.at = a].proc = r.proc
        /\ [r EXCEPT !.at = a, !.ok = TRUE] \in OcrStages
        /\ [r EXCEPT !.at = a, !.ok = TRUE].at = a
        /\ [r EXCEPT !.at = a, !.ok = TRUE].proc = r.proc
    BY <1>1, OcrGoesOn
  <2>3. \A p \in Children \cup {"none"} :
           /\ [r EXCEPT !.at = a, !.proc = p] \in OcrStages
           /\ [r EXCEPT !.at = a, !.proc = p].at = a
           /\ [r EXCEPT !.at = a, !.proc = p].proc = p
           /\ [r EXCEPT !.proc = p, !.at = a] \in OcrStages
           /\ [r EXCEPT !.proc = p, !.at = a].at = a
           /\ [r EXCEPT !.proc = p, !.at = a].proc = p
    <3> SUFFICES ASSUME NEW p \in Children \cup {"none"}
                 PROVE  /\ [r EXCEPT !.at = a, !.proc = p] \in OcrStages
                        /\ [r EXCEPT !.at = a, !.proc = p].at = a
                        /\ [r EXCEPT !.at = a, !.proc = p].proc = p
                        /\ [r EXCEPT !.proc = p, !.at = a] \in OcrStages
                        /\ [r EXCEPT !.proc = p, !.at = a].at = a
                        /\ [r EXCEPT !.proc = p, !.at = a].proc = p
      OBVIOUS
    <3>1. /\ [r EXCEPT !.at = a, !.proc = p].at = a
          /\ [r EXCEPT !.at = a, !.proc = p].proc = p
          /\ [r EXCEPT !.proc = p, !.at = a].at = a
          /\ [r EXCEPT !.proc = p, !.at = a].proc = p
      BY <1>1 DEF OcrStages
    <3> QED BY <1>1, <3>1, OcrEdits
  <2> QED BY <1>1, <2>1, <2>2, <2>3, Zenon
<1> USE DEF Ocr!Calling, OcrReads, OcrThens
<1>3. CASE Ocr!Acquire(s)
  <2>1. /\ r.at \in {"wants", "release"} /\ ocrLock = "none" /\ ocrLock' = s
        /\ UNCHANGED <<ocrTracked, ocrBundles, ocrChild>>
    BY <1>3 DEF Ocr!Acquire
  <2>2. r.proc = "none"
    BY <1>1, <2>1 DEF OcrFits
  <2>3. CASE r.at = "wants"
    <3> DEFINE e == [r EXCEPT !.at = "load"]
    <3>1. e \in OcrStages /\ e.at = "load" /\ e.proc = "none"
      BY <1>1, <2>2, <1>0
    <3>2. ocrStage' = [ocrStage EXCEPT ![s] = e]
      BY <1>3, <2>3 DEF Ocr!Acquire
    <3> HIDE DEF e
    <3> QED BY <1>1, <2>1, <2>2, <3>1, <3>2, OcrWrites
  <2>4. CASE r.at # "wants"
    <3> DEFINE e == Ocr!Discarding(s, "none", "over")
    <3>1. e \in OcrStages /\ e.at = "discard" /\ e.proc = "none" /\ e.then = "over"
      BY <1>1, OcrMeans
    <3>2. ocrStage' = [ocrStage EXCEPT ![s] = e]
      BY <1>3, <2>4 DEF Ocr!Acquire
    <3> HIDE DEF e
    <3> QED BY <1>1, <2>1, <2>2, <3>1, <3>2, OcrWrites
  <2> QED BY <2>3, <2>4
<1>4. CASE Ocr!Load(s)
  <2>1. /\ r.at = "load" /\ ocrLock = s
        /\ UNCHANGED <<ocrLock, ocrTracked, ocrBundles, ocrChild>>
    BY <1>1, <1>4 DEF Ocr!Load, OcrFits
  <2>2. r.proc = "none"
    BY <1>1, <2>1 DEF OcrFits
  <2>3. CASE ~ocrPending
    <3> DEFINE e == [r EXCEPT !.at = "contract"]
    <3>1. e \in OcrStages /\ e.at = "contract" /\ e.proc = "none"
      BY <1>1, <2>2, <1>0
    <3>2. ocrStage' = [ocrStage EXCEPT ![s] = e]
      BY <1>4, <2>3 DEF Ocr!Load
    <3> HIDE DEF e
    <3> QED BY <1>1, <2>1, <2>2, <3>1, <3>2, OcrWrites
  <2>4. CASE ocrPending
    <3> DEFINE e == Ocr!Discarding(s, "none", "contract")
    <3>1. e \in OcrStages /\ e.at = "discard" /\ e.proc = "none" /\ e.then = "contract"
      BY <1>1, OcrMeans
    <3>2. ocrStage' = [ocrStage EXCEPT ![s] = e]
      BY <1>4, <2>4 DEF Ocr!Load
    <3> HIDE DEF e
    <3> QED BY <1>1, <2>1, <2>2, <3>1, <3>2, OcrWrites
  <2> QED BY <2>3, <2>4
<1>5. CASE Ocr!Contract(s)
  <2>1. /\ r.at = "contract" /\ ocrLock = s
        /\ UNCHANGED <<ocrLock, ocrTracked, ocrBundles, ocrChild>>
    BY <1>1, <1>5 DEF Ocr!Contract, OcrFits
  <2>2. r.proc = "none"
    BY <1>1, <2>1 DEF OcrFits
  <2>3. CASE ~ocrCurrent
    <3> DEFINE e == Ocr!Discarding(s, "none", "fail")
    <3>1. e \in OcrStages /\ e.at = "discard" /\ e.proc = "none" /\ e.then = "fail"
      BY <1>1, OcrMeans
    <3>2. ocrStage' = [ocrStage EXCEPT ![s] = e]
      BY <1>5, <2>3 DEF Ocr!Contract
    <3> HIDE DEF e
    <3> QED BY <1>1, <2>1, <2>2, <3>1, <3>2, OcrWrites
  <2>4. CASE ocrCurrent /\ ocrTracked # "none" /\ Ocr!Alive(ocrTracked)
    <3> DEFINE e == [r EXCEPT !.at = "frame", !.proc = ocrTracked]
    <3>1. e \in OcrStages /\ e.at = "frame" /\ e.proc = ocrTracked
      BY <1>1, <1>0
    <3>2. ocrStage' = [ocrStage EXCEPT ![s] = e]
      BY <1>5, <2>4 DEF Ocr!Contract
    <3> HIDE DEF e
    <3> QED BY <1>1, <1>2, <2>1, <2>2, <3>1, <3>2, OcrWrites
  <2>5. CASE ocrCurrent /\ ~(ocrTracked # "none" /\ Ocr!Alive(ocrTracked))
    <3> DEFINE e == Ocr!Discarding(s, "none", "spawn")
    <3>1. e \in OcrStages /\ e.at = "discard" /\ e.proc = "none" /\ e.then = "spawn"
      BY <1>1, OcrMeans
    <3>2. ocrStage' = [ocrStage EXCEPT ![s] = e]
      BY <1>5, <2>5 DEF Ocr!Contract
    <3>3. \A p \in Children : ~Ocr!Alive(p)
      BY <1>1, <1>2, <2>1, <2>2, <2>5
    <3> HIDE DEF e
    <3> QED BY <1>1, <2>1, <2>2, <3>1, <3>2, <3>3, OcrWrites
  <2> QED BY <2>3, <2>4, <2>5
<1>6. CASE Ocr!Timeout(s)
  <2>1. /\ r.at \in {"hello", "answer"} /\ ocrLock = s
        /\ UNCHANGED <<ocrLock, ocrTracked, ocrBundles, ocrChild>>
    BY <1>1, <1>6 DEF Ocr!Timeout, OcrFits
  <2> DEFINE t == IF r.at = "hello" THEN "fail" ELSE "unlink"
             e == Ocr!Discarding(s, r.proc, t)
  <2>2. e \in OcrStages /\ e.at = "discard" /\ e.proc = r.proc /\ e.then = t
    BY <1>1, OcrMeans
  <2>3. ocrStage' = [ocrStage EXCEPT ![s] = e]
    BY <1>6 DEF Ocr!Timeout
  <2> HIDE DEF e
  <2> QED BY <1>1, <2>1, <2>2, <2>3, OcrWrites
<1>7. CASE Ocr!Fail(s)
  <2>1. /\ r.at = "fail" /\ ocrLock = s /\ r.proc = "none" /\ ocrLock' = "none"
        /\ UNCHANGED <<ocrTracked, ocrBundles, ocrChild>>
    BY <1>1, <1>7 DEF Ocr!Fail, OcrFits
  <2> DEFINE e == [r EXCEPT !.proc = "none", !.at = "release"]
  <2>2. e \in OcrStages /\ e.at = "release" /\ e.proc = "none"
    BY <1>1, <1>0
  <2>3. ocrStage' = [ocrStage EXCEPT ![s] = e]
    BY <1>7 DEF Ocr!Fail
  <2> HIDE DEF e
  <2> QED BY <1>1, <2>1, <2>2, <2>3, OcrWrites
<1>8. CASE Ocr!NoSpawn(s)
  <2>1. /\ r.at = "spawn" /\ ocrLock = s /\ r.proc = "none"
        /\ UNCHANGED <<ocrLock, ocrTracked, ocrBundles, ocrChild>>
    BY <1>1, <1>8 DEF Ocr!NoSpawn, OcrFits
  <2> DEFINE e == [r EXCEPT !.at = "fail"]
  <2>2. e \in OcrStages /\ e.at = "fail" /\ e.proc = "none"
    BY <1>1, <2>1, <1>0
  <2>3. ocrStage' = [ocrStage EXCEPT ![s] = e]
    BY <1>1, <1>8 DEF Ocr!NoSpawn, Ocr!Goto
  <2> HIDE DEF e
  <2> QED BY <1>1, <2>1, <2>2, <2>3, OcrWrites
<1>9. CASE Ocr!Send(s)
  <2>1. /\ r.at = "send" /\ ocrLock = s
        /\ UNCHANGED <<ocrLock, ocrTracked, ocrBundles>>
        /\ \A p \in Children : r.proc = p /\ Ocr!Alive(p) => ocrTracked = p
    BY <1>1, <1>9 DEF Ocr!Send, OcrFits
  <2>2. CASE ocrCurrent /\ Ocr!Alive(r.proc)
    <3> DEFINE e == [r EXCEPT !.at = "answer"]
    <3>1. e \in OcrStages /\ e.at = "answer" /\ e.proc = r.proc
      BY <1>1, <1>0
    <3>2. ocrStage' = [ocrStage EXCEPT ![s] = e]
      BY <1>1, <1>9, <2>2 DEF Ocr!Send, Ocr!Goto
    <3>3. /\ ocrChild' \in [Children -> OcrChildren]
          /\ \A p \in Children : ocrChild'[p].at = ocrChild[p].at
      <4>1. ocrChild' = [ocrChild EXCEPT ![r.proc] = [ocrChild[r.proc] EXCEPT !.in = s]]
        BY <1>9, <2>2 DEF Ocr!Send
      <4> HIDE DEF r
      <4>2. \A x \in OcrChildren : /\ [x EXCEPT !.in = s] \in OcrChildren
                                   /\ [x EXCEPT !.in = s].at = x.at
        BY OcrChildEdits
      <4> QED BY <1>1, <4>1, <4>2
    <3> HIDE DEF e
    <3> QED BY <1>1, <2>1, <3>1, <3>2, <3>3, OcrWrites
  <2>3. CASE ~(ocrCurrent /\ Ocr!Alive(r.proc))
    <3> DEFINE e == Ocr!Discarding(s, r.proc, "unlink")
    <3>1. e \in OcrStages /\ e.at = "discard" /\ e.proc = r.proc /\ e.then = "unlink"
      BY <1>1, OcrMeans
    <3>2. ocrStage' = [ocrStage EXCEPT ![s] = e] /\ ocrChild' = ocrChild
      BY <1>9, <2>3 DEF Ocr!Send
    <3> HIDE DEF e
    <3> QED BY <1>1, <2>1, <3>1, <3>2, OcrWrites
  <2> QED BY <2>2, <2>3
<1>10. CASE Ocr!Receive(s)
  <2>1. /\ r.at = "answer" /\ ocrLock = s
        /\ UNCHANGED <<ocrLock, ocrTracked, ocrBundles>>
        /\ \A p \in Children : r.proc = p /\ Ocr!Alive(p) => ocrTracked = p
    BY <1>1, <1>10 DEF Ocr!Receive, OcrFits
  <2>2. /\ ocrChild' \in [Children -> OcrChildren]
        /\ \A p \in Children : ocrChild'[p].at = ocrChild[p].at
    <3>1. ocrChild' = [ocrChild EXCEPT ![r.proc] = [ocrChild[r.proc] EXCEPT !.out = "none"]]
      BY <1>10 DEF Ocr!Receive
    <3> HIDE DEF r
    <3> QED BY <1>1, <3>1, OcrChildEdits
  <2>3. CASE ocrChild[r.proc].out = s /\ ocrCurrent
    <3> DEFINE e == [r EXCEPT !.at = "unlink", !.ok = TRUE]
    <3>1. e \in OcrStages /\ e.at = "unlink" /\ e.proc = r.proc
      BY <1>1, <1>0
    <3>2. ocrStage' = [ocrStage EXCEPT ![s] = e]
      BY <1>10, <2>3 DEF Ocr!Receive
    <3> HIDE DEF e
    <3> QED BY <1>1, <2>1, <2>2, <3>1, <3>2, OcrWrites
  <2>4. CASE ~(ocrChild[r.proc].out = s /\ ocrCurrent)
    <3> DEFINE e == Ocr!Discarding(s, r.proc, "unlink")
    <3>1. e \in OcrStages /\ e.at = "discard" /\ e.proc = r.proc /\ e.then = "unlink"
      BY <1>1, OcrMeans
    <3>2. ocrStage' = [ocrStage EXCEPT ![s] = e]
      BY <1>10, <2>4 DEF Ocr!Receive
    <3> HIDE DEF e
    <3> QED BY <1>1, <2>1, <2>2, <3>1, <3>2, OcrWrites
  <2> QED BY <2>3, <2>4
<1>11. ASSUME NEW b \in BOOLEAN, Ocr!WriteFrame(s, b) PROVE OcrInv'
  <2>1. /\ r.at = "frame" /\ ocrLock = s
        /\ UNCHANGED <<ocrLock, ocrTracked, ocrBundles, ocrChild>>
        /\ \A p \in Children : r.proc = p /\ Ocr!Alive(p) => ocrTracked = p
    BY <1>1, <1>11 DEF Ocr!WriteFrame, OcrFits
  <2>2. CASE b
    <3> DEFINE e == [r EXCEPT !.at = "send"]
    <3>1. e \in OcrStages /\ e.at = "send" /\ e.proc = r.proc
      BY <1>1, <1>0
    <3>2. ocrStage' = [ocrStage EXCEPT ![s] = e]
      BY <1>11, <2>2 DEF Ocr!WriteFrame
    <3> HIDE DEF e
    <3> QED BY <1>1, <2>1, <3>1, <3>2, OcrWrites
  <2>3. CASE ~b
    <3> DEFINE e == Ocr!Discarding(s, r.proc, "fail")
    <3>1. e \in OcrStages /\ e.at = "discard" /\ e.proc = r.proc /\ e.then = "fail"
      BY <1>1, OcrMeans
    <3>2. ocrStage' = [ocrStage EXCEPT ![s] = e]
      BY <1>11, <2>3 DEF Ocr!WriteFrame
    <3> HIDE DEF e
    <3> QED BY <1>1, <2>1, <3>1, <3>2, OcrWrites
  <2> QED BY <2>2, <2>3
<1>12. ASSUME NEW b \in BOOLEAN, Ocr!Unlink(s, b) PROVE OcrInv'
  <2>1. /\ r.at = "unlink" /\ ocrLock = s
        /\ UNCHANGED <<ocrTracked, ocrBundles, ocrChild>>
        /\ \A p \in Children : r.proc = p /\ Ocr!Alive(p) => ocrTracked = p
    BY <1>1, <1>12 DEF Ocr!Unlink, OcrFits
  <2>2. CASE b
    <3> DEFINE to == IF r.ok THEN "stage" ELSE "release"
               e == [r EXCEPT !.proc = "none", !.at = to]
    <3>1. e \in OcrStages /\ e.at = to /\ e.proc = "none"
      <4>1. to \in Ocr!Calling \cup {"stage", "wants", "release", "over"}
        OBVIOUS
      <4> HIDE DEF to
      <4> QED BY <4>1, <1>0
    <3>2. ocrStage' = [ocrStage EXCEPT ![s] = e] /\ ocrLock' = "none"
      BY <1>12, <2>2 DEF Ocr!Unlink
    <3> HIDE DEF e
    <3> QED BY <1>1, <1>2, <2>1, <3>1, <3>2, OcrWrites
  <2>3. CASE ~b
    <3> DEFINE e == Ocr!Discarding(s, r.proc, "fail")
    <3>1. e \in OcrStages /\ e.at = "discard" /\ e.proc = r.proc /\ e.then = "fail"
      BY <1>1, OcrMeans
    <3>2. ocrStage' = [ocrStage EXCEPT ![s] = e] /\ ocrLock' = ocrLock
      BY <1>12, <2>3 DEF Ocr!Unlink
    <3> HIDE DEF e
    <3> QED BY <1>1, <2>1, <3>1, <3>2, OcrWrites
  <2> QED BY <2>2, <2>3
<1>13. CASE Ocr!Forget(s)
  <2>1. /\ r.at = "hello" /\ ocrLock = s /\ r.proc \in Children
        /\ UNCHANGED <<ocrLock, ocrTracked, ocrBundles>>
    BY <1>1, <1>13 DEF Ocr!Forget, OcrFits
  <2> DEFINE e == [r EXCEPT !.proc = "none", !.at = "fail"]
  <2>2. e \in OcrStages /\ e.at = "fail" /\ e.proc = "none"
    BY <1>1, <1>0
  <2>3. ocrStage' = [ocrStage EXCEPT ![s] = e]
    BY <1>13 DEF Ocr!Forget
  <2>4. \A p \in Children : Ocr!Alive(p) => p = r.proc
    BY <1>1, <1>2, <2>1
  <2>5. ocrChild' \in [Children -> OcrChildren] /\ \A p \in Children : ~Ocr!Alive(p)'
    <3>1. CASE Ocr!Alive(r.proc)
      <4> DEFINE y == [ocrChild[r.proc] EXCEPT !.open = FALSE, !.at = "lost"]
      <4>1. y \in OcrChildren /\ y.at = "lost"
        <5>1. ocrChild[r.proc] \in OcrChildren
          BY <1>1, <2>1
        <5> HIDE DEF r
        <5>2. \A x \in OcrChildren : /\ [x EXCEPT !.open = FALSE, !.at = "lost"] \in OcrChildren
                                     /\ [x EXCEPT !.open = FALSE, !.at = "lost"].at = "lost"
          BY OcrChildEdits
        <5> QED BY <5>1, <5>2
      <4>2. ocrChild' = [ocrChild EXCEPT ![r.proc] = y]
        BY <1>13, <3>1 DEF Ocr!Forget
      <4> HIDE DEF y, r
      <4> QED BY <1>1, <2>1, <2>4, <4>1, <4>2 DEF Ocr!Living
    <3>2. CASE ~Ocr!Alive(r.proc)
      BY <1>1, <1>13, <2>4, <3>2 DEF Ocr!Forget
    <3> QED BY <3>1, <3>2
  <2> HIDE DEF e
  <2>6. /\ ocrStage' \in [Stages -> OcrStages] /\ ocrStage'[s] = e
        /\ \A u \in Stages : u # s => ocrStage'[u] = ocrStage[u]
    BY <1>1, <2>2, <2>3, OcrPuts
  <2>7. OcrFits(s)'
    BY <2>1, <2>2, <2>6 DEF OcrFits
  <2> QED BY <1>1, <2>1, <2>5, <2>6, <2>7, OcrTurn
<1> QED BY <1>3, <1>4, <1>5, <1>6, <1>7, <1>8, <1>9, <1>10, <1>11, <1>12, <1>13

\* What a thread that has ended a child, or could not, makes of itself.
LEMMA OcrAfter ==
    ASSUME Ocr!OcrAssumption, OcrInv, NEW s \in Stages, ocrStage[s].at = "discard",
           NEW done \in BOOLEAN, Ocr!After(s, done)
    PROVE  \E e \in OcrStages :
              /\ ocrStage' = [ocrStage EXCEPT ![s] = e]
              /\ e.at \in {"contract", "fail", "spawn", "unlink", "over"}
              /\ e.at \in {"contract", "spawn"} => done
              /\ e.at = "over" => ocrLock' = "none"
              /\ e.at # "over" => ocrLock' = ocrLock
              /\ e.proc = IF e.at = "unlink" THEN ocrStage[s].proc ELSE "none"
<1> DEFINE r == ocrStage[s]
           to == IF done \/ r.then \in {"unlink", "over"} THEN r.then ELSE "fail"
           left == IF r.then = "unlink" THEN r.proc ELSE "none"
           e == [r EXCEPT !.then = "none", !.proc = left, !.at = to]
<1>1. /\ r \in OcrStages /\ r.proc \in Children \cup {"none"} /\ r.then \in OcrThens
      /\ r.then # "none"
  BY DEF OcrInv, OcrShapes, OcrStages, OcrFits
<1>2. /\ to \in {"contract", "fail", "spawn", "unlink", "over"}
      /\ to \in {"contract", "spawn"} => done
      /\ to = "unlink" <=> r.then = "unlink"
      /\ to = "over" <=> r.then = "over"
  BY <1>1 DEF OcrThens
<1>3. to \in Ocr!Calling \cup {"over"} /\ left \in Children \cup {"none"}
  BY <1>1, <1>2 DEF Ocr!Calling
<1>4. ocrStage' = [ocrStage EXCEPT ![s] = e]
  BY DEF Ocr!After
<1>5. ocrLock' = IF to = "over" THEN "none" ELSE ocrLock
  BY <1>2 DEF Ocr!After
<1> HIDE DEF r, to, left
<1>6. e \in OcrStages
  BY <1>1, <1>3, OcrEdits
<1>7. e.at = to /\ e.proc = left
  BY <1>1 DEF OcrStages
<1>8. left = IF to = "unlink" THEN ocrStage[s].proc ELSE "none"
  BY <1>2 DEF left, r
<1> HIDE DEF e
<1> QED BY <1>2, <1>4, <1>5, <1>6, <1>7, <1>8

\* The steps that give the reader a child, or take one away.
LEMMA OcrHands ==
    ASSUME Ocr!OcrAssumption, OcrInv, NEW s \in Stages,
           \/ \E p \in Children : Ocr!Spawn(s, p)
           \/ Ocr!Hello(s) \/ Ocr!Keep(s)
           \/ \E b \in BOOLEAN : Ocr!Discard(s, b)
    PROVE  OcrInv'
<1> USE DEF Ocr!Reader, Ocr!Disk, Ocr!Files
<1> DEFINE r == ocrStage[s]
<1>1. /\ r \in OcrStages /\ r.proc \in Children \cup {"none"} /\ OcrFits(s) /\ OcrShapes
      /\ ocrTracked \in Children \cup {"none"} /\ ocrLock \in Stages \cup {"none"}
      /\ ocrChild \in [Children -> OcrChildren] /\ r.then \in OcrThens
      /\ "none" \notin Stages /\ "none" \notin Children
  BY DEF OcrInv, OcrShapes, OcrStages, Ocr!OcrAssumption
<1>2. ASSUME ocrLock = s, NEW p \in Children, Ocr!Alive(p)
      PROVE  p = (IF r.proc # "none" THEN r.proc ELSE ocrTracked) /\ p \in ocrBundles
  BY <1>2, <1>1 DEF OcrInv, OcrOwned
<1>3. \A e \in OcrStages : ocrStage' = [ocrStage EXCEPT ![s] = e] =>
         /\ ocrStage' \in [Stages -> OcrStages] /\ ocrStage'[s] = e
         /\ \A u \in Stages : u # s => ocrStage'[u] = ocrStage[u]
  BY <1>1, OcrPuts
<1> USE DEF Ocr!Calling, OcrReads
<1>4. ASSUME NEW p \in Children, Ocr!Spawn(s, p) PROVE OcrInv'
  <2>1. /\ r.at = "spawn" /\ ocrLock = s /\ ocrLock' = ocrLock /\ ocrTracked' = ocrTracked
        /\ p \in ocrBundles'
    BY <1>1, <1>4 DEF Ocr!Spawn, OcrFits
  <2>2. \A q \in Children : ~Ocr!Alive(q)
    BY <1>1, <2>1 DEF OcrFits
  <2>3. /\ ocrChild' \in [Children -> OcrChildren]
        /\ \A q \in Children : q # p => ocrChild'[q] = ocrChild[q]
    <3>1. ocrChild' = [ocrChild EXCEPT ![p] = [ocrChild[p] EXCEPT !.at = "starting"]]
      BY <1>4 DEF Ocr!Spawn
    <3>2. [ocrChild[p] EXCEPT !.at = "starting"] \in OcrChildren
      BY <1>1, OcrChildEdits DEF Ocr!Living
    <3> QED BY <1>1, <3>1, <3>2
  <2> DEFINE e == [r EXCEPT !.at = "hello", !.proc = p]
  <2>4. e \in OcrStages
    BY <1>1, OcrEdits
  <2>5. e.at = "hello" /\ e.proc = p
    BY <1>1 DEF OcrStages
  <2>6. ocrStage' = [ocrStage EXCEPT ![s] = e]
    BY <1>4 DEF Ocr!Spawn
  <2> HIDE DEF e
  <2>7. ocrStage'[s] = e
    BY <1>3, <2>4, <2>6
  <2>8. OcrFits(s)'
    BY <2>1, <2>5, <2>7 DEF OcrFits
  <2>9. \A q \in Children : Ocr!Alive(q)' => q \in ocrBundles' /\ OcrOwned(q)'
    BY <1>1, <2>1, <2>2, <2>3, <2>5, <2>7 DEF OcrOwned
  <2> QED BY <1>1, <1>3, <2>1, <2>3, <2>4, <2>6, <2>8, <2>9, OcrTurn
<1>5. CASE Ocr!Hello(s)
  <2>1. /\ r.at = "hello" /\ ocrLock = s /\ r.proc \in Children
        /\ UNCHANGED <<ocrLock, ocrBundles>>
    BY <1>1, <1>5 DEF Ocr!Hello, OcrFits
  <2>2. /\ ocrChild' \in [Children -> OcrChildren]
        /\ \A p \in Children : ocrChild'[p].at = ocrChild[p].at
    <3>1. ocrChild' = [ocrChild EXCEPT ![r.proc] = [ocrChild[r.proc] EXCEPT !.out = "none"]]
      BY <1>5 DEF Ocr!Hello
    <3> HIDE DEF r
    <3> QED BY <1>1, <3>1, OcrChildEdits
  <2>3. CASE ocrChild[r.proc].out = "hello"
    <3> DEFINE e == [r EXCEPT !.at = "frame"]
    <3>1. e \in OcrStages
      BY <1>1, OcrEdits
    <3>2. e.at = "frame" /\ e.proc = r.proc
      BY <1>1 DEF OcrStages
    <3>3. ocrStage' = [ocrStage EXCEPT ![s] = e] /\ ocrTracked' = r.proc
      BY <1>1, <1>5, <2>3 DEF Ocr!Hello, Ocr!Goto
    <3> HIDE DEF e
    <3>4. ocrStage'[s] = e
      BY <1>3, <3>1, <3>3
    <3>5. OcrFits(s)'
      BY <2>1, <3>2, <3>3, <3>4 DEF OcrFits
    <3>6. \A q \in Children : Ocr!Alive(q)' => q \in ocrBundles' /\ OcrOwned(q)'
      BY <1>1, <1>2, <2>1, <2>2, <3>2, <3>3, <3>4 DEF OcrOwned
    <3> QED BY <1>1, <1>3, <2>1, <2>2, <3>1, <3>3, <3>5, <3>6, OcrTurn
  <2>4. CASE ocrChild[r.proc].out # "hello"
    <3> DEFINE e == Ocr!Discarding(s, r.proc, "fail")
    <3>1. e \in OcrStages /\ e.at = "discard" /\ e.proc = r.proc /\ e.then = "fail"
      BY <1>1, OcrMeans DEF OcrThens
    <3>2. ocrStage' = [ocrStage EXCEPT ![s] = e] /\ ocrTracked' = ocrTracked
      BY <1>5, <2>4 DEF Ocr!Hello
    <3> HIDE DEF e
    <3> QED BY <1>1, <2>1, <2>2, <3>1, <3>2, OcrWrites
  <2> QED BY <2>3, <2>4
<1>6. ASSUME NEW b \in BOOLEAN, Ocr!Discard(s, b) PROVE OcrInv'
  <2> DEFINE p == Ocr!Active(s)
             live == p # "none" /\ Ocr!Alive(p)
  <2>1. /\ r.at = "discard" /\ ocrLock = s /\ ocrTracked' = "none"
        /\ Ocr!After(s, TRUE)
    BY <1>1, <1>6 DEF Ocr!Discard, OcrFits
  <2>2. p = (IF r.proc # "none" THEN r.proc ELSE ocrTracked) /\ p \in Children \cup {"none"}
    BY <1>1 DEF Ocr!Active
  <2>3. ocrChild' \in [Children -> OcrChildren] /\ \A q \in Children : ~Ocr!Alive(q)'
    <3>1. \A q \in Children : Ocr!Alive(q) => q = p
      BY <1>2, <2>1, <2>2
    <3>2. CASE live
      <4> DEFINE a == IF b THEN "killed" ELSE "exited"
                 x == [ocrChild[p] EXCEPT !.open = FALSE, !.at = a]
      <4>4. a \in Ocr!Living \cup {"new", "exited", "killed", "lost"} /\ p \in Children
        BY <2>2, <3>2
      <4>1. x \in OcrChildren /\ x.at = a
        <5> HIDE DEF a, p
        <5>1. ocrChild[p] \in OcrChildren
          BY <1>1, <4>4
        <5> QED BY <4>4, <5>1, OcrChildEdits
      <4>2. ocrChild' = [ocrChild EXCEPT ![p] = x]
        BY <1>6, <3>2 DEF Ocr!Discard
      <4>3. a \notin Ocr!Living
        BY DEF Ocr!Living
      <4> HIDE DEF x, p, a
      <4> QED BY <1>1, <3>1, <4>1, <4>2, <4>3, <4>4
    <3>3. CASE ~live
      <4>1. ocrChild' = ocrChild
        BY <1>6, <3>3 DEF Ocr!Discard
      <4> QED BY <1>1, <2>2, <3>1, <3>3, <4>1
    <3> QED BY <3>2, <3>3
  <2> HIDE DEF p
  <2>4. PICK e \in OcrStages :
              /\ ocrStage' = [ocrStage EXCEPT ![s] = e]
              /\ e.at \in {"contract", "fail", "spawn", "unlink", "over"}
              /\ e.at = "over" => ocrLock' = "none"
              /\ e.at # "over" => ocrLock' = ocrLock
              /\ e.proc = IF e.at = "unlink" THEN ocrStage[s].proc ELSE "none"
    BY <2>1, OcrAfter
  <2>5. ocrStage'[s] = e
    BY <1>3, <2>4
  <2>6. OcrFits(s)'
    BY <2>1, <2>3, <2>4, <2>5 DEF OcrFits
  <2>7. ocrLock' \in {s, "none"}
    BY <2>1, <2>4
  <2> QED BY <1>1, <1>3, <2>1, <2>3, <2>4, <2>6, <2>7, OcrTurn
<1>7. CASE Ocr!Keep(s)
  <2> DEFINE p == Ocr!Active(s)
  <2>1. /\ r.at = "discard" /\ ocrLock = s /\ ocrTracked' = p /\ ocrBundles' = ocrBundles
        /\ Ocr!After(s, FALSE) /\ p # "none" /\ Ocr!Alive(p)
    BY <1>1, <1>7 DEF Ocr!Keep, OcrFits
  <2>2. p = (IF r.proc # "none" THEN r.proc ELSE ocrTracked) /\ p \in Children
    BY <1>1, <2>1 DEF Ocr!Active
  <2>3. /\ ocrChild' \in [Children -> OcrChildren]
        /\ \A q \in Children : ocrChild'[q].at = ocrChild[q].at
    <3>1. ocrChild' = [ocrChild EXCEPT ![p] = [ocrChild[p] EXCEPT !.open = FALSE]]
      BY <1>7 DEF Ocr!Keep
    <3> HIDE DEF p
    <3>2. /\ [ocrChild[p] EXCEPT !.open = FALSE] \in OcrChildren
          /\ [ocrChild[p] EXCEPT !.open = FALSE].at = ocrChild[p].at
      BY <1>1, <2>2, OcrChildEdits
    <3> QED BY <1>1, <2>2, <3>1, <3>2
  <2> HIDE DEF p
  <2>4. PICK e \in OcrStages :
              /\ ocrStage' = [ocrStage EXCEPT ![s] = e]
              /\ e.at \in {"contract", "fail", "spawn", "unlink", "over"}
              /\ e.at \notin {"contract", "spawn"}
              /\ e.at = "over" => ocrLock' = "none"
              /\ e.at # "over" => ocrLock' = ocrLock
              /\ e.proc = IF e.at = "unlink" THEN ocrStage[s].proc ELSE "none"
    BY <2>1, OcrAfter
  <2>5. ocrStage'[s] = e /\ ocrLock' \in {s, "none"}
    BY <1>3, <2>1, <2>4
  <2>6. \A q \in Children : Ocr!Alive(q)' => q = p /\ q \in ocrBundles'
    BY <1>2, <2>1, <2>2, <2>3
  <2>7. OcrFits(s)'
    BY <2>1, <2>4, <2>5, <2>6 DEF OcrFits
  <2>8. \A q \in Children : Ocr!Alive(q)' => q \in ocrBundles' /\ OcrOwned(q)'
    BY <1>1, <2>1, <2>2, <2>4, <2>5, <2>6 DEF OcrOwned
  <2> QED BY <1>1, <1>3, <2>1, <2>2, <2>3, <2>4, <2>5, <2>7, <2>8, OcrTurn
<1> QED BY <1>4, <1>5, <1>6, <1>7

\* The children, of their own accord or killed.
LEMMA OcrLives ==
    ASSUME Ocr!OcrAssumption, OcrInv, NEW p \in Children, Ocr!Work(p) \/ Ocr!Killed(p)
    PROVE  OcrInv'
<1> DEFINE x == ocrChild[p]
<1>1. /\ ocrChild \in [Children -> OcrChildren] /\ x \in OcrChildren
      /\ x.in \in Stages \cup {"none"}
  BY DEF OcrInv, OcrShapes, OcrChildren
<1>2. /\ UNCHANGED <<ocrStage, ocrLock, ocrTracked, ocrBundles>>
  BY DEF Ocr!Work, Ocr!Copy, Ocr!Greet, Ocr!NoStart, Ocr!TakeFrame, Ocr!Answer, Ocr!Eof,
     Ocr!LostEnds, Ocr!Killed, Ocr!Reader, Ocr!Disk, Ocr!Files
<1>3. \/ ocrChild' = ocrChild
      \/ \E y \in OcrChildren : /\ ocrChild' = [ocrChild EXCEPT ![p] = y]
                                /\ y.at \in Ocr!Living => x.at \in Ocr!Living
  <2> USE DEF Ocr!Living
  <2>1. ASSUME NEW m \in {"none", "error"}, Ocr!Exit(p, m)
        PROVE  \E y \in OcrChildren : /\ ocrChild' = [ocrChild EXCEPT ![p] = y]
                                      /\ y.at \in Ocr!Living => x.at \in Ocr!Living
    <3> DEFINE y == [x EXCEPT !.at = "exited", !.out = m]
    <3>1. y \in OcrChildren /\ y.at = "exited"
      <4> HIDE DEF x
      <4> QED BY <1>1 DEF OcrChildren
    <3>2. ocrChild' = [ocrChild EXCEPT ![p] = y]
      BY <2>1 DEF Ocr!Exit
    <3> HIDE DEF y
    <3> QED BY <3>1, <3>2
  <2>2. CASE Ocr!Copy(p)
    BY <2>2 DEF Ocr!Copy
  <2>3. ASSUME NEW m \in {"hello", "wrong"}, Ocr!Greet(p, m)
        PROVE  \E y \in OcrChildren : /\ ocrChild' = [ocrChild EXCEPT ![p] = y]
                                      /\ y.at \in Ocr!Living => x.at \in Ocr!Living
    <3> DEFINE y == [x EXCEPT !.at = "ready", !.out = m]
    <3>1. y \in OcrChildren /\ y.at = "ready"
      <4> HIDE DEF x
      <4> QED BY <1>1 DEF OcrChildren
    <3>2. ocrChild' = [ocrChild EXCEPT ![p] = y] /\ x.at = "starting"
      BY <2>3 DEF Ocr!Greet
    <3> HIDE DEF y
    <3> QED BY <3>1, <3>2
  <2>4. CASE Ocr!NoStart(p) \/ Ocr!Eof(p) \/ Ocr!LostEnds(p)
    BY <2>1, <2>4 DEF Ocr!NoStart, Ocr!Eof, Ocr!LostEnds
  <2>5. CASE Ocr!TakeFrame(p)
    <3>1. CASE Ocr!Exit(p, "error")
      BY <2>1, <3>1
    <3>2. CASE ocrChild' = [ocrChild EXCEPT ![p].at = "working"]
      <4> DEFINE y == [x EXCEPT !.at = "working"]
      <4>1. y \in OcrChildren
        BY <1>1, OcrChildEdits
      <4>2. ocrChild' = [ocrChild EXCEPT ![p] = y] /\ x.at = "ready"
        BY <2>5, <3>2 DEF Ocr!TakeFrame
      <4> HIDE DEF y
      <4> QED BY <4>1, <4>2
    <3> QED BY <2>5, <3>1, <3>2 DEF Ocr!TakeFrame
  <2>6. ASSUME NEW b \in BOOLEAN, Ocr!Answer(p, b)
        PROVE  \E y \in OcrChildren : /\ ocrChild' = [ocrChild EXCEPT ![p] = y]
                                      /\ y.at \in Ocr!Living => x.at \in Ocr!Living
    <3>1. CASE ~b
      BY <2>1, <2>6, <3>1 DEF Ocr!Answer
    <3>2. CASE b
      <4> DEFINE y == [x EXCEPT !.at = "ready", !.out = x.in, !.in = "none"]
      <4>1. y \in OcrChildren
        BY <1>1, OcrChildEdits
      <4>2. ocrChild' = [ocrChild EXCEPT ![p] = y] /\ x.at = "working"
        BY <2>6, <3>2 DEF Ocr!Answer
      <4> HIDE DEF y
      <4> QED BY <4>1, <4>2
    <3> QED BY <3>1, <3>2
  <2>7. CASE Ocr!Killed(p)
    <3> DEFINE y == [x EXCEPT !.at = "killed"]
    <3>1. y \in OcrChildren /\ y.at = "killed"
      BY <1>1, OcrChildEdits
    <3>2. ocrChild' = [ocrChild EXCEPT ![p] = y]
      BY <2>7 DEF Ocr!Killed
    <3> HIDE DEF y
    <3> QED BY <3>1, <3>2
  <2> QED BY <2>2, <2>3, <2>4, <2>5, <2>6, <2>7, <2>1 DEF Ocr!Work
<1>4. /\ ocrChild' \in [Children -> OcrChildren]
      /\ \A q \in Children : Ocr!Alive(q)' => Ocr!Alive(q)
  BY <1>1, <1>3
<1> QED BY <1>2, <1>4 DEF OcrInv, OcrShapes, OcrFits, OcrOwned

LEMMA OcrKeeps ==
    ASSUME Ocr!OcrAssumption, OcrInv, [Ocr!Next]_(Ocr!vars)
    PROVE  OcrInv'
<1>1. ASSUME NEW s \in Stages, Ocr!Call(s) \/ Ocr!Leave(s) \/ \E b \in BOOLEAN : Ocr!Read(s, b)
      PROVE  OcrInv'
  BY <1>1, OcrAside, OcrCalls, OcrHands DEF Ocr!Call
<1>2. ASSUME NEW p \in Children, Ocr!Work(p) \/ Ocr!Killed(p) PROVE OcrInv'
  BY <1>2, OcrLives
<1>3. CASE Ocr!Change \/ UNCHANGED Ocr!vars
  BY <1>3 DEF Ocr!Change, Ocr!vars, Ocr!Reader, Ocr!Disk, OcrInv, OcrShapes, OcrFits, OcrOwned
<1> QED BY <1>1, <1>2, <1>3 DEF Ocr!Next

\* No child is there at first, and no thread has the lock.
LEMMA OcrStart ==
    ASSUME Ocr!OcrAssumption, Ocr!Init
    PROVE  OcrInv
<1>1. /\ ocrStage = [s \in Stages |-> [at |-> "stage", left |-> MaxReads, proc |-> "none",
                                       then |-> "none", ok |-> FALSE]]
      /\ ocrLock = "none" /\ ocrTracked = "none"
      /\ ocrChild = [p \in Children |-> [at |-> "new", in |-> "none", out |-> "none",
                                         open |-> TRUE]]
      /\ MaxReads \in Int
  BY DEF Ocr!Init, Ocr!OcrAssumption
<1>2. OcrShapes
  BY <1>1 DEF OcrShapes, OcrStages, OcrThens, OcrChildren
<1> QED BY <1>1, <1>2 DEF OcrInv, OcrFits, Ocr!Calling, OcrReads, Ocr!Living

(***************************************************************************)
(* The text embedding.                                                     *)
(***************************************************************************)

\* Steps at which a thread has the lock of the embedding.
EmbeddingHeld ==
    {"load", "attest", "construct", "confirm", "probe", "settle", "before", "infer", "after",
     "check"}
EmbeddingCalls ==
    [kind : Embedding!Kinds, at : EmbeddingHeld \cup {"idle", "lock", "given", "refused"}]

\* A thread at work has the lock, and nobody else does; the close gives up the
\* model with the lock free, and the copy after that.
EmbeddingInv ==
    /\ embeddingCall \in [Threads -> EmbeddingCalls]
    /\ \A t \in Threads : embeddingCall[t].at \in EmbeddingHeld => embeddingLock = t
    /\ embeddingClosed => \A t \in Threads : embeddingCall[t].at \notin EmbeddingHeld
    /\ embeddingCloser \in {"waiting", "cleanup", "closed"} => embeddingClosing
    /\ embeddingClosed => embeddingClosing
    /\ embeddingCloser = "cleanup" => embeddingClosed
    /\ embeddingClosed \/ embeddingScratch
    /\ Embedding!InUseIsThere

\* An operation leaves the lock of the others alone.
LEMMA EmbeddingTurn ==
    ASSUME EmbeddingInv, NEW t \in Threads,
           NEW at \in EmbeddingHeld \cup {"lock", "given", "refused"},
           Embedding!ConstantsAssumption,
           Embedding!Goes(t, at),
           \/ embeddingLock = t \/ embeddingLock = Nil,
           at \in EmbeddingHeld => embeddingLock' = t /\ ~embeddingClosed,
           UNCHANGED <<embeddingClosing, embeddingClosed, embeddingCloser, embeddingScratch>>,
           at \in Embedding!OfModel => embeddingModel'
    PROVE  EmbeddingInv'
<1>1. /\ embeddingCall' \in [Threads -> EmbeddingCalls]
      /\ embeddingCall'[t].at = at
      /\ \A u \in Threads : u # t => embeddingCall'[u] = embeddingCall[u]
  BY DEF EmbeddingInv, EmbeddingCalls, Embedding!Goes
<1>2. \A u \in Threads : u # t => embeddingCall[u].at \notin EmbeddingHeld
  BY DEF EmbeddingInv, Embedding!ConstantsAssumption
<1>3. Embedding!InUse \subseteq EmbeddingHeld /\ Embedding!OfModel \subseteq Embedding!InUse
  BY DEF Embedding!InUse, Embedding!OfModel, EmbeddingHeld
<1>4. Embedding!InUseIsThere'
  BY <1>1, <1>2, <1>3 DEF EmbeddingInv, Embedding!InUseIsThere
<1> QED BY <1>1, <1>2, <1>4 DEF EmbeddingInv

\* The steps of a call.
LEMMA EmbeddingWorks ==
    ASSUME EmbeddingInv, Embedding!ConstantsAssumption,
           NEW t \in Threads, Embedding!Work(t)
    PROVE  EmbeddingInv'
<1> USE DEF Embedding!others, Embedding!flags
<1> DEFINE at == embeddingCall[t].at
<1>1. /\ at \in EmbeddingHeld => embeddingLock = t /\ ~embeddingClosed
      /\ at \in Embedding!OfModel => embeddingModel
  <2>1. Embedding!OfModel \subseteq Embedding!InUse
    BY DEF Embedding!InUse
  <2> QED BY <2>1 DEF EmbeddingInv, Embedding!InUseIsThere
<1>2. CASE Embedding!Acquire(t)
  <2>1. CASE embeddingClosing \/ (embeddingCall[t].kind = "verify" /\ ~Embedding!Verifiable(t))
    <3>1. Embedding!Goes(t, "refused") /\ embeddingLock = Nil
      BY <1>2, <2>1 DEF Embedding!Acquire
    <3> QED BY <1>2, <3>1, EmbeddingTurn DEF Embedding!Acquire, EmbeddingHeld, Embedding!OfModel
  <2>2. CASE ~(embeddingClosing \/ (embeddingCall[t].kind = "verify" /\ ~Embedding!Verifiable(t)))
    <3>1. PICK p \in {"check", "load"} : Embedding!Goes(t, p)
      BY <1>2, <2>2 DEF Embedding!Acquire
    <3>2. embeddingLock' = t /\ ~embeddingClosed /\ embeddingLock = Nil
      BY <1>2, <2>2 DEF Embedding!Acquire, EmbeddingInv
    <3> QED BY <1>2, <3>1, <3>2, EmbeddingTurn
        DEF Embedding!Acquire, EmbeddingHeld, Embedding!OfModel
  <2> QED BY <2>1, <2>2
<1>3. CASE Embedding!Load(t)
  <2>1. at \in EmbeddingHeld
    BY <1>3 DEF Embedding!Load, EmbeddingHeld
  <2>2. PICK p \in {"before", "probe", "refused", "attest"} :
           /\ Embedding!Goes(t, p)
           /\ p \in {"before", "probe"} => embeddingModel
           /\ p # "refused" => embeddingLock' = embeddingLock
    BY <1>3 DEF Embedding!Load, Embedding!Ends
  <2> QED BY <1>1, <1>3, <2>1, <2>2, EmbeddingTurn
      DEF Embedding!Load, EmbeddingHeld, Embedding!OfModel
<1>4. CASE Embedding!Construct(t) \/ Embedding!Infer(t)
  <2>1. at \in EmbeddingHeld
    BY <1>4 DEF Embedding!Construct, Embedding!Infer, EmbeddingHeld
  <2>2. PICK p \in {"confirm", "refused", "after"} :
           /\ Embedding!Goes(t, p)
           /\ p = "after" => at \in Embedding!OfModel
           /\ p # "refused" => embeddingLock' = embeddingLock
    BY <1>4 DEF Embedding!Construct, Embedding!Infer, Embedding!Ends, Embedding!OfModel
  <2> QED BY <1>1, <1>4, <2>1, <2>2, EmbeddingTurn
      DEF Embedding!Construct, Embedding!Infer, EmbeddingHeld, Embedding!OfModel
<1>5. CASE Embedding!Probe(t)
  <2>1. at \in EmbeddingHeld /\ at \in Embedding!OfModel
    BY <1>5 DEF Embedding!Probe, EmbeddingHeld, Embedding!OfModel
  <2>2. PICK p \in {"settle", "refused"} :
           /\ Embedding!Goes(t, p)
           /\ p = "settle" => embeddingModel' = embeddingModel /\ embeddingLock' = embeddingLock
    BY <1>5 DEF Embedding!Probe, Embedding!Ends
  <2>3. p \in EmbeddingHeld => embeddingLock' = t /\ ~embeddingClosed
    BY <1>1, <2>1, <2>2 DEF EmbeddingHeld
  <2>4. p \in Embedding!OfModel => embeddingModel'
    BY <1>1, <2>1, <2>2 DEF Embedding!OfModel
  <2>5. UNCHANGED <<embeddingClosing, embeddingClosed, embeddingCloser, embeddingScratch>>
    BY <1>5 DEF Embedding!Probe
  <2>6. p \in EmbeddingHeld \cup {"lock", "given", "refused"}
    BY DEF EmbeddingHeld
  <2> QED BY <1>1, <2>1, <2>2, <2>3, <2>4, <2>5, <2>6, EmbeddingTurn
<1>6. CASE Embedding!Verify(t)
  <2>1. at \in EmbeddingHeld
    BY <1>6 DEF Embedding!Verify, EmbeddingHeld
  <2>2. PICK p \in {"construct", "before", "probe", "infer", "given", "refused"} :
           /\ Embedding!Goes(t, p)
           /\ p \in {"before", "probe", "infer"} => embeddingModel'
           /\ p \notin {"given", "refused"} => embeddingLock' = embeddingLock
    <3>1. CASE embeddingFailed \/ ~(embeddingReviewed /\ embeddingScratch)
      BY <1>6, <3>1 DEF Embedding!Verify, Embedding!Ends
    <3>2. CASE Embedding!Passes(t) /\ embeddingFailed' = embeddingFailed
      <4>1. at \in {"attest", "confirm", "before", "settle", "after", "check"}
        BY <1>6 DEF Embedding!Verify
      <4>2. CASE at = "attest"
        BY <3>2, <4>2 DEF Embedding!Passes
      <4>3. CASE at = "confirm"
        BY <3>2, <4>3 DEF Embedding!Passes
      <4>4. CASE at = "before"
        BY <1>1, <3>2, <4>4 DEF Embedding!Passes, Embedding!OfModel
      <4>5. CASE at \in {"settle", "after", "check"}
        BY <3>2, <4>5 DEF Embedding!Passes, Embedding!Ends
      <4> QED BY <4>1, <4>2, <4>3, <4>4, <4>5
    <3> QED BY <1>6, <3>1, <3>2 DEF Embedding!Verify
  <2> QED BY <1>1, <1>6, <2>1, <2>2, EmbeddingTurn
      DEF Embedding!Verify, EmbeddingHeld, Embedding!OfModel
<1> QED BY <1>2, <1>3, <1>4, <1>5, <1>6 DEF Embedding!Work

LEMMA EmbeddingKeeps ==
    ASSUME Embedding!ConstantsAssumption, EmbeddingInv, [Embedding!Next]_(Embedding!vars)
    PROVE  EmbeddingInv'
<1> USE DEF Embedding!others, Embedding!flags
<1>1. ASSUME NEW t \in Threads, NEW k \in Embedding!Kinds, Embedding!Call(t, k) PROVE EmbeddingInv'
  <2>1. /\ embeddingCall' \in [Threads -> EmbeddingCalls]
        /\ embeddingCall'[t].at = "lock"
        /\ \A u \in Threads : u # t => embeddingCall'[u] = embeddingCall[u]
    BY <1>1 DEF EmbeddingInv, EmbeddingCalls, Embedding!Call
  <2>2. "lock" \notin EmbeddingHeld /\ "lock" \notin Embedding!InUse
    BY DEF EmbeddingHeld, Embedding!InUse, Embedding!OfModel
  <2>3. UNCHANGED <<embeddingClosing, embeddingClosed, embeddingCloser, embeddingScratch,
                    embeddingModel, embeddingLock>>
    BY <1>1 DEF Embedding!Call
  <2> QED BY <2>1, <2>2, <2>3 DEF EmbeddingInv, Embedding!InUseIsThere
<1>2. CASE Embedding!Close \/ Embedding!TimesOut \/ Embedding!Cleanup \/ Embedding!Change
  BY <1>2 DEF EmbeddingInv, Embedding!InUseIsThere, Embedding!Close, Embedding!TimesOut,
     Embedding!Cleanup, Embedding!Change, EmbeddingHeld, Embedding!InUse, Embedding!OfModel
<1>3. CASE Embedding!Release
  <2>1. \A t \in Threads : embeddingCall[t].at \notin EmbeddingHeld
    BY <1>3 DEF Embedding!Release, EmbeddingInv, Embedding!ConstantsAssumption
  <2>2. Embedding!InUse \subseteq EmbeddingHeld
    BY DEF Embedding!InUse, Embedding!OfModel, EmbeddingHeld
  <2> QED BY <1>3, <2>1, <2>2 DEF EmbeddingInv, Embedding!InUseIsThere, Embedding!Release
<1>4. CASE UNCHANGED Embedding!vars
  BY <1>4 DEF EmbeddingInv, Embedding!InUseIsThere, Embedding!vars
<1> QED BY <1>1, <1>2, <1>3, <1>4, EmbeddingWorks DEF Embedding!Next

\* Nobody calls and nothing is closed at first.
LEMMA EmbeddingStart ==
    ASSUME Embedding!ConstantsAssumption, Embedding!Init
    PROVE  EmbeddingInv
BY DEF Embedding!Init, EmbeddingInv, EmbeddingCalls, EmbeddingHeld, Embedding!InUseIsThere,
   Embedding!InUse, Embedding!OfModel, Embedding!Kinds

(***************************************************************************)
(* The parts together.                                                     *)
(***************************************************************************)

GroupInv ==
    /\ of \in Parts
    /\ \A b \in VisionBounds : of = <<"Vision", b>> => VisionInv(b)
    /\ WhisperInv /\ QwenInv /\ OcrInv /\ EmbeddingInv

\* A step moves the part it is of, if any, by a step of its own.
LEMMA GroupSteps ==
    ASSUME [GroupNext]_groupVars
    PROVE  /\ UNCHANGED of
           /\ \A b \in VisionBounds : of = <<"Vision", b>> => [Vision(b)!Next]_(Vision(b)!vars)
           /\ [Whisper!Next]_(Whisper!vars) /\ [Qwen!Next]_(Qwen!vars)
           /\ [Ocr!Next]_(Ocr!vars) /\ [Embedding!Next]_(Embedding!vars)
<1>1. ASSUME UNCHANGED whisperVars PROVE UNCHANGED Whisper!vars
  BY <1>1 DEF whisperVars, Whisper!vars
<1>2. ASSUME UNCHANGED qwenVars PROVE UNCHANGED Qwen!vars
  BY <1>2 DEF qwenVars, Qwen!vars
<1>3. ASSUME UNCHANGED ocrVars PROVE UNCHANGED Ocr!vars
  BY <1>3 DEF ocrVars, Ocr!vars
<1>4. ASSUME UNCHANGED embeddingVars PROVE UNCHANGED Embedding!vars
  BY <1>4 DEF embeddingVars, Embedding!vars
<1>5. ASSUME UNCHANGED visionVars, NEW b \in VisionBounds PROVE UNCHANGED Vision(b)!vars
  BY <1>5 DEF visionVars, Vision!vars
<1>6. CASE UNCHANGED groupVars
  BY <1>1, <1>2, <1>3, <1>4, <1>5, <1>6 DEF groupVars
<1>7. CASE RuntimeStep
  BY <1>1, <1>2, <1>3, <1>4, <1>5, <1>7 DEF RuntimeStep, Others
<1>8. CASE VisionStep
  <2>1. PICK b \in VisionBounds : of = <<"Vision", b>> /\ Vision(b)!Next /\ Others("Vision")
    BY <1>8 DEF VisionStep
  <2>2. \A c \in VisionBounds : of = <<"Vision", c>> => c = b
    BY <2>1
  <2> QED BY <1>1, <1>2, <1>3, <1>4, <2>1, <2>2 DEF Others
<1>9. CASE WhisperStep
  BY <1>2, <1>3, <1>4, <1>5, <1>9 DEF WhisperStep, Others
<1>10. CASE QwenStep
  BY <1>1, <1>3, <1>4, <1>5, <1>10 DEF QwenStep, Others
<1>11. CASE OcrStep
  BY <1>1, <1>2, <1>4, <1>5, <1>11 DEF OcrStep, Others
<1>12. CASE EmbeddingStep
  BY <1>1, <1>2, <1>3, <1>5, <1>12 DEF EmbeddingStep, Others
<1> QED BY <1>6, <1>7, <1>8, <1>9, <1>10, <1>11, <1>12 DEF GroupNext

LEMMA GroupStart ==
    GroupInit => GroupInv
<1> SUFFICES ASSUME GroupInit PROVE GroupInv
  OBVIOUS
<1>1. WhisperInv /\ QwenInv /\ OcrInv /\ EmbeddingInv
  BY WhisperStart, QwenStart, OcrStart, EmbeddingStart, WhisperAssumption, QwenAssumption,
     OcrAssumption, EmbeddingAssumption DEF GroupInit
<1>2. ASSUME NEW b \in VisionBounds, of = <<"Vision", b>> PROVE VisionInv(b)
  <2>1. PICK c \in VisionBounds : of = <<"Vision", c>> /\ Vision(c)!Init
    BY <1>2 DEF GroupInit
  <2>2. c = b
    BY <1>2, <2>1
  <2> QED BY <2>1, <2>2, VisionStart, VisionAssumption
<1> QED BY <1>1, <1>2 DEF GroupInv, GroupInit

LEMMA GroupKeeps ==
    GroupInv /\ [GroupNext]_groupVars => GroupInv'
<1> SUFFICES ASSUME GroupInv, [GroupNext]_groupVars PROVE GroupInv'
  OBVIOUS
<1>1. WhisperInv' /\ QwenInv' /\ OcrInv' /\ EmbeddingInv'
  BY GroupSteps, WhisperKeeps, QwenKeeps, OcrKeeps, EmbeddingKeeps, WhisperAssumption,
     QwenAssumption, OcrAssumption, EmbeddingAssumption DEF GroupInv
<1>2. ASSUME NEW b \in VisionBounds, of' = <<"Vision", b>> PROVE VisionInv(b)'
  <2>1. VisionInv(b) /\ [Vision(b)!Next]_(Vision(b)!vars) /\ Vision(b)!WorkerAssumption
    BY <1>2, GroupSteps, VisionAssumption DEF GroupInv
  <2> QED BY <2>1, VisionHandlers, VisionOthers DEF Vision!Next
<1>3. of' \in Parts
  BY GroupSteps DEF GroupInv
<1> QED BY <1>1, <1>2, <1>3 DEF GroupInv

LEMMA GroupInvariant == GroupSpec => []GroupInv
BY GroupStart, GroupKeeps, PTL DEF GroupSpec

\* Every answer of the vision, whisper and qwen workers is of the bytes its client
\* named, whatever is rewritten while they work (_prepare_image of
\* providers/vision_worker.py, the copies of whisper_worker.py and qwen_worker.py).
THEOREM ServerEvidence == GroupSpec => []EvidenceIsExact
<1>1. GroupInv => EvidenceIsExact
  <2> SUFFICES ASSUME GroupInv PROVE EvidenceIsExact
    OBVIOUS
  <2>1. \A b \in VisionBounds : of = <<"Vision", b>> => Vision(b)!EvidenceIsExact
    BY DEF GroupInv, VisionInv, Vision!EvidenceIsExact
  <2>2. Whisper!TranscriptIsExact
    BY DEF GroupInv, WhisperInv, WhisperBytes, Whisper!TranscriptIsExact
  <2>3. Qwen!JudgementsAreExact
    BY DEF GroupInv, QwenInv
  <2> QED BY <2>1, <2>2, <2>3 DEF EvidenceIsExact
<1> QED BY <1>1, GroupInvariant, PTL

\* No release, start, end or close takes from an inference the model or the copy it
\* uses (release_detector of providers/vision_worker.py, the runtime directories of
\* whisper_worker.py, close of search/embeddings.py).
THEOREM ServerInUse == GroupSpec => []InUseStays
<1>1. GroupInv => InUseStays
  BY DEF GroupInv, VisionInv, WhisperInv, EmbeddingInv, InUseStays
<1> QED BY <1>1, GroupInvariant, PTL

\* Wherever a whisper worker is killed, what it leaves of a user's media lies in a
\* directory a later start recognises as its own (providers/whisper_worker.py).
THEOREM ServerCopies == GroupSpec => []CopiesAreReclaimable
<1>1. GroupInv => CopiesAreReclaimable
  BY DEF GroupInv, WhisperInv, CopiesAreReclaimable
<1> QED BY <1>1, GroupInvariant, PTL

\* A child of the OCR reader that lives is the reader's or in the hands of the
\* thread with the lock, and at most one lives (_discard_worker of
\* providers/paddle_ocr.py), apart from children whose hello could not be waited for
\* because of an error of the system.
THEOREM ServerChildren == GroupSpec => []LiveChildrenAreOwned
<1>1. GroupInv => LiveChildrenAreOwned
  BY OcrOwners DEF GroupInv, LiveChildrenAreOwned
<1> QED BY <1>1, GroupInvariant, PTL
=============================================================================
