-------------------------- MODULE MCTools_proofs ---------------------------
(***************************************************************************)
(* Proofs about the programs beside the server.                            *)
(*                                                                         *)
(* That a returned snapshot is the source at one moment, and that it is    *)
(* durable, for any tree and any number of changes and faults.             *)
(*                                                                         *)
(* That a snapshot that fails, a benchmark and a batch leave nothing       *)
(* behind; that a registered run and a saved answer are kept; and that     *)
(* what a benchmark or a batch publishes is sound: for any number of       *)
(* clients, servers, runs and profiles, and however often calls fail,      *)
(* programs are stopped and power is lost.                                 *)
(***************************************************************************)
EXTENDS MCTools, SequenceTheorems, TLAPS
-----------------------------------------------------------------------------
(* The snapshot of a store that is being written to.                        *)

Scanning == {"list", "next", "read", "check"}

\* The state in which scan p found directory d.
FoundAs(p, d) == IF d = Root THEN atStart ELSE seen[p][d].state

\* Scan p has listed directory d.
HasListed(p, d) ==
    /\ p <= pass
    /\ d # Root => seen[p][d].there
    /\ ~(p = pass /\ d = dir /\ pc = "list")

Pending(p, d) == IF p = pass THEN todo[d] ELSE {}

\* Change times only grow, and a file has the content it was seen with until
\* its change time does.
Times ==
    /\ \A p \in {1, 2}, f \in Files : seen[p][f].there =>
          /\ seen[p][f].state <= stamp[f]
          /\ stamp[f] = seen[p][f].state => src[f] = seen[p][f].content /\ src[f] # None
    /\ \A p \in {1, 2}, d \in Subdirs : seen[p][d].there => seen[p][d].state <= stamp[d]
    /\ atStart <= stamp[Root]

OpenedFile ==
    /\ pc = "read" =>
          /\ file.name \in Files /\ file.name \in todo[dir]
          /\ file.state <= stamp[file.name]
          /\ stamp[file.name] = file.state => src[file.name] # None
    /\ pc = "check" =>
          file.name \in Files /\ seen[pass][file.name].there
             /\ seen[pass][file.name].state = file.state

Copied == \A f \in Files : copy[f] = IF seen[1][f].there THEN seen[1][f].content ELSE None

\* A directory that has not changed since it was listed has the listed files.
Presence ==
    \A p \in {1, 2}, d \in Dirs : (HasListed(p, d) /\ stamp[d] = FoundAs(p, d)) =>
        \A f \in Files : DirOf[f] = d =>
            (src[f] # None <=> f \in Pending(p, d) \/ seen[p][f].there)

\* The order in which names are visited.
Order ==
    /\ \A d \in Dirs : todo[d] \subseteq {f \in Files : DirOf[f] = d} \cup (IF d = Root THEN Subdirs ELSE {})
    /\ \A d \in Dirs : \A n \in todo[d] : ~seen[pass][n].there
    /\ \A d \in Subdirs : d # dir => todo[d] = {}
    /\ pc = "list" => todo[dir] = {}
    /\ pc = "list" /\ dir = Root => \A n \in Nodes : ~seen[pass][n].there
    /\ dir # Root => seen[pass][dir].there
    /\ \A p \in {1, 2}, f \in Files :
          DirOf[f] # Root /\ ~seen[p][DirOf[f]].there => ~seen[p][f].there
    /\ pc = "list" => \A f \in Files : DirOf[f] = dir => ~seen[pass][f].there
    /\ pass = 1 => \A n \in Nodes : ~seen[2][n].there
    /\ HasListed(pass, Root) => \A d \in Subdirs : d \in todo[Root] \/ seen[pass][d].there
    /\ pass = 2 => \A d \in Subdirs : seen[1][d].there

\* What the first scan saw and the second finds unchanged was so between them.
Between ==
    pass = 2 =>
       /\ \A f \in Files : seen[1][f].there /\ stamp[f] = seen[1][f].state
                              => mid[f] = seen[1][f].content
       /\ \A f \in Files : seen[1][f].there /\ seen[2][f].there /\ seen[1][f].state = seen[2][f].state
                              => mid[f] = seen[1][f].content
       /\ pc = "read" /\ seen[1][file.name].there /\ seen[1][file.name].state = file.state
             => mid[file.name] = seen[1][file.name].content
       /\ \A d \in Dirs : stamp[d] = FoundAs(1, d) =>
             \A f \in Files : DirOf[f] = d => (mid[f] # None <=> seen[1][f].there)
       /\ \A d \in Subdirs : seen[2][d].there /\ seen[2][d].state = seen[1][d].state =>
             \A f \in Files : DirOf[f] = d => (mid[f] # None <=> seen[1][f].there)

Synchronised ==
    /\ \A f \in Files : seen[1][f].there /\ ~(pass = 1 /\ pc = "check" /\ file.name = f)
                           => f \in disk.nodes
    /\ made \subseteq disk.nodes

Published ==
    /\ pc \in {"publish", "sync", "returned"} => copy = mid /\ Staged \subseteq disk.nodes
    /\ pc \in {"sync", "returned"} => name = "final"
    /\ pc = "returned" => disk.name = "final"

TriesLeft == pc # "pending" => tries < Attempts

\* At the start nothing is seen and nothing is staged.
Fresh ==
    pc = "start" =>
       /\ seen = [p \in {1, 2} |-> [n \in Nodes |-> Unseen]]
       /\ todo = [d \in Dirs |-> {}] /\ pass = 1 /\ dir = Root
       /\ copy = [f \in Files |-> None] /\ made = {} /\ stamp[Root] >= 0

ScanInv == Times /\ OpenedFile /\ Copied /\ Presence /\ Order /\ Between /\ Synchronised

IInv ==
    /\ TypeOK /\ TriesLeft
    /\ pc \in Scanning => ScanInv
    /\ Published
    /\ Fresh

-----------------------------------------------------------------------------
(* Type correctness *)

LEMMA InitType == Init => TypeOK /\ TriesLeft
BY ConstantsAssumption DEF ConstantsAssumption, Init, TypeOK, TriesLeft, States, Entries, Unseen,
   NoFile, Nodes, Dirs

LEMMA TypeStep ==
    ASSUME TypeOK, TriesLeft, pc \in {"read", "check"} => OpenedFile, [Next]_vars
    PROVE TypeOK' /\ TriesLeft'
<1>. USE ConstantsAssumption DEF ConstantsAssumption, TypeOK, TriesLeft, States, Nodes, Dirs
<1>1. CASE Start
    BY <1>1 DEF Start, source, staging, scan
<1>2. CASE List
    BY <1>2 DEF List, Fail, Listed, staging, source
<1>3. CASE LeaveDirectory
    BY <1>3 DEF LeaveDirectory, Fail, source, staging
<1>4. CASE ReadFile
    BY <1>4 DEF OpenedFile, ReadFile, Visited, Entry, Entries, source
<1>5. CASE CheckFile
    BY <1>5 DEF OpenedFile, CheckFile, Fail, NoFile, source
<1>6. ASSUME NEW d \in Subdirs, EnterDirectory(d) PROVE TypeOK' /\ TriesLeft'
  <2>1. stamp[d] \in 0..MaxClock /\ Entry(stamp[d], None) \in Entries
    BY <1>6 DEF Entry, Entries
  <2>2. seen' \in [{1, 2} -> [Nodes -> Entries]] /\ todo' \in [Dirs -> SUBSET Nodes]
    BY <1>6, <2>1 DEF EnterDirectory, Visited
  <2>3. made' \subseteq Subdirs /\ disk'.name = disk.name /\ disk'.nodes \subseteq Nodes
    BY <1>6 DEF EnterDirectory
  <2>. QED
    BY <1>6, <2>2, <2>3 DEF EnterDirectory, source
<1>7. ASSUME NEW f \in Files, OpenFile(f) PROVE TypeOK' /\ TriesLeft'
    BY <1>7 DEF OpenFile, Fail, source, staging
<1>8. CASE EndFirstScan
    BY <1>8 DEF EndFirstScan, source, staging
<1>9. CASE EndSecondScan
    BY <1>9 DEF EndSecondScan, Fail, source, scan, staging
<1>10. CASE Rename
    BY <1>10 DEF Rename, source, scan
<1>11. CASE SyncParent
    BY <1>11 DEF SyncParent, source, scan
<1>12. CASE OpenStaging
    BY <1>12 DEF OpenStaging, source, scan, staging
<1>13. CASE RemoveStaging
    BY <1>13 DEF RemoveStaging, source, scan
<1>14. CASE SyncRemoval
    BY <1>14 DEF SyncRemoval, source, scan
<1>15. CASE TryAgain
    BY <1>15 DEF TryAgain, source, scan, staging
<1>16. ASSUME NEW n \in Nodes, ClearEntry(n) PROVE TypeOK' /\ TriesLeft'
    BY <1>16 DEF ClearEntry, source, scan
<1>17. CASE RetryCleanup
    BY <1>17 DEF RetryCleanup, source, scan, staging
<1>18. CASE Fault
    BY <1>18 DEF Fault, Fail, source, scan, staging
<1>19. CASE CleanupFault
    BY <1>19 DEF CleanupFault, source, scan, staging
<1>20. CASE PowerLoss
    BY <1>20 DEF PowerLoss, source, scan
<1>21. ASSUME NEW f \in Files, NEW c \in Contents \cup {None}, Change(f, c) PROVE TypeOK' /\ TriesLeft'
    BY <1>21 DEF Change, scan, staging
<1>22. CASE UNCHANGED vars
    BY <1>22 DEF vars, source, scan, staging
<1>. QED
    BY <1>1, <1>2, <1>3, <1>4, <1>5, <1>6, <1>7, <1>8, <1>9, <1>10, <1>11, <1>12, <1>13, <1>14,
       <1>15, <1>16, <1>17, <1>18, <1>19, <1>20, <1>21, <1>22 DEF Next, Step

-----------------------------------------------------------------------------
(* The scans *)

LEMMA BeginsFresh ==
    ASSUME TypeOK, Fresh, Start
    PROVE  ScanInv'
<1>. USE ConstantsAssumption DEF ConstantsAssumption, TypeOK, Fresh, Start, Unseen, Nodes, Dirs, source, staging, scan
<1>1. Times'
    BY DEF Times
<1>2. OpenedFile'
    BY DEF OpenedFile
<1>3. Copied'
    BY DEF Copied
<1>4. Presence'
    BY DEF Presence, HasListed, FoundAs, Pending
<1>5. Order'
    BY DEF Order, HasListed
<1>6. Between'
    BY DEF Between
<1>7. Synchronised'
    BY DEF Synchronised
<1>. QED
    BY <1>1, <1>2, <1>3, <1>4, <1>5, <1>6, <1>7 DEF ScanInv

LEMMA ListKeeps ==
    ASSUME IInv, List, pc \in Scanning, pc' \in Scanning
    PROVE  ScanInv'
<1>. USE ConstantsAssumption DEF ConstantsAssumption, IInv, TypeOK, ScanInv, Scanning, Nodes, Dirs,
        List, Fail, Listed, source, staging, scan
<1>1. Times'
    BY DEF Times, OpenedFile, Order
<1>2. OpenedFile'
    BY DEF Times, OpenedFile, Order
<1>3. Copied'
    BY DEF Copied, OpenedFile, Order
<1>4. Presence'
    BY DEF Presence, Order, Times, OpenedFile, HasListed, FoundAs, Pending
<1>5. Order'
    BY SMTT(60) DEF Presence, Order, Times, OpenedFile, HasListed, FoundAs, Pending
<1>6. Between'
    BY DEF Between, Times, OpenedFile, Order, Presence, HasListed, FoundAs, Pending
<1>7. Synchronised'
    BY DEF Synchronised, OpenedFile, Order
<1>. QED
    BY <1>1, <1>2, <1>3, <1>4, <1>5, <1>6, <1>7 DEF ScanInv

LEMMA EnterKeeps ==
    ASSUME NEW d \in Subdirs, IInv, EnterDirectory(d), pc \in Scanning, pc' \in Scanning
    PROVE  ScanInv'
<1>. USE ConstantsAssumption DEF ConstantsAssumption, IInv, TypeOK, ScanInv, Scanning, Nodes, Dirs,
        EnterDirectory, Visited, Entry, Entries, source, staging, scan
<1>1. Times'
    BY DEF Times, OpenedFile, Order
<1>2. OpenedFile'
    BY DEF Times, OpenedFile, Order
<1>3. Copied'
    BY DEF Copied, OpenedFile, Order
<1>4. Presence'
  <2>. SUFFICES ASSUME NEW p \in {1, 2}, NEW e \in Dirs, HasListed(p, e)', stamp'[e] = FoundAs(p, e)',
                       NEW g \in Files, DirOf[g] = e
                PROVE  src'[g] # None <=> g \in Pending(p, e)' \/ seen'[p][g].there
    BY DEF Presence
  <2>1. CASE p = pass /\ e = d
    BY <2>1 DEF HasListed
  <2>2. CASE ~(p = pass /\ e = d)
    <3>1. HasListed(p, e) /\ FoundAs(p, e)' = FoundAs(p, e)
      BY <2>2 DEF HasListed, FoundAs, Order
    <3>2. seen'[p][g] = seen[p][g] /\ src'[g] = src[g] /\ stamp'[e] = stamp[e]
      OBVIOUS
    <3>3. g \in Pending(p, e)' <=> g \in Pending(p, e)
      BY DEF Pending
    <3>. QED
      BY <3>1, <3>2, <3>3 DEF Presence
  <2>. QED
    BY <2>1, <2>2
<1>5. Order'
    BY DEF Order, OpenedFile, HasListed
<1>6. Between'
  <2>1. CASE pass = 2
    <3>1. seen'[1] = seen[1] /\ \A f \in Files : seen'[2][f] = seen[2][f]
      BY <2>1
    <3>2. seen'[2][d].state = stamp[d] /\ \A e \in Subdirs \ {d} : seen'[2][e] = seen[2][e]
      BY <2>1
    <3>3. \A e \in Dirs : FoundAs(1, e)' = FoundAs(1, e)
      BY <3>1 DEF FoundAs
    <3>4. FoundAs(1, d) = seen[1][d].state /\ d \in Dirs
      BY DEF FoundAs
    <3>. QED
      BY <2>1, <3>1, <3>2, <3>3, <3>4 DEF Between
  <2>2. CASE pass = 1
    BY <2>2 DEF Between
  <2>. QED
    BY <2>1, <2>2
<1>7. Synchronised'
    BY DEF Synchronised, OpenedFile, Order
<1>. QED
    BY <1>1, <1>2, <1>3, <1>4, <1>5, <1>6, <1>7 DEF ScanInv

LEMMA LeaveKeeps ==
    ASSUME IInv, LeaveDirectory, pc \in Scanning, pc' \in Scanning
    PROVE  ScanInv'
<1>. USE ConstantsAssumption DEF ConstantsAssumption, IInv, TypeOK, ScanInv, Scanning, Nodes, Dirs,
        LeaveDirectory, Fail, source, staging, scan
<1>1. Times'
    BY DEF Times, OpenedFile, Order
<1>2. OpenedFile'
    BY DEF Times, OpenedFile, Order
<1>3. Copied'
    BY DEF Copied, OpenedFile, Order
<1>4. Presence'
  <2>. SUFFICES ASSUME NEW p \in {1, 2}, NEW e \in Dirs, HasListed(p, e)', stamp'[e] = FoundAs(p, e)',
                       NEW g \in Files, DirOf[g] = e
                PROVE  src'[g] # None <=> g \in Pending(p, e)' \/ seen'[p][g].there
    BY DEF Presence
  <2>1. HasListed(p, e) /\ FoundAs(p, e)' = FoundAs(p, e)
    BY DEF HasListed, FoundAs, Order
  <2>2. Pending(p, e)' = Pending(p, e)
    BY DEF Pending
  <2>. QED
    BY <2>1, <2>2 DEF Presence
<1>5. Order'
    BY DEF Order, OpenedFile, HasListed
<1>6. Between'
    BY DEF Between, Times, OpenedFile, Order, Presence, HasListed, FoundAs, Pending
<1>7. Synchronised'
    BY DEF Synchronised, OpenedFile, Order
<1>. QED
    BY <1>1, <1>2, <1>3, <1>4, <1>5, <1>6, <1>7 DEF ScanInv

LEMMA OpenKeeps ==
    ASSUME NEW f \in Files, IInv, OpenFile(f), pc \in Scanning, pc' \in Scanning
    PROVE  ScanInv'
<1>. USE ConstantsAssumption DEF ConstantsAssumption, IInv, TypeOK, ScanInv, Scanning, Nodes, Dirs,
        OpenFile, Fail, source, staging, scan
<1>1. Times'
    BY DEF Times, OpenedFile, Order
<1>2. OpenedFile'
    BY DEF Times, OpenedFile, Order
<1>3. Copied'
    BY DEF Copied, OpenedFile, Order
<1>4. Presence'
    BY DEF Presence, Order, Times, OpenedFile, HasListed, FoundAs, Pending
<1>5. Order'
    BY DEF Order, OpenedFile, HasListed
<1>6. Between'
    BY DEF Between, Times, OpenedFile, Order, Presence, HasListed, FoundAs, Pending
<1>7. Synchronised'
    BY DEF Synchronised, OpenedFile, Order
<1>. QED
    BY <1>1, <1>2, <1>3, <1>4, <1>5, <1>6, <1>7 DEF ScanInv

LEMMA ReadKeeps ==
    ASSUME IInv, ReadFile, pc \in Scanning, pc' \in Scanning
    PROVE  ScanInv'
<1>. USE ConstantsAssumption DEF ConstantsAssumption, IInv, TypeOK, ScanInv, Scanning, Nodes, Dirs,
        ReadFile, Visited, Entry, Entries, source, staging, scan
<1>1. Times'
    BY DEF Times, OpenedFile, Order
<1>2. OpenedFile'
    BY DEF Times, OpenedFile, Order
<1>3. Copied'
    BY DEF Copied, OpenedFile, Order
<1>4. Presence'
  <2>. SUFFICES ASSUME NEW p \in {1, 2}, NEW e \in Dirs, HasListed(p, e)', stamp'[e] = FoundAs(p, e)',
                       NEW g \in Files, DirOf[g] = e
                PROVE  src'[g] # None <=> g \in Pending(p, e)' \/ seen'[p][g].there
    BY DEF Presence
  <2>1. HasListed(p, e) /\ FoundAs(p, e)' = FoundAs(p, e)
    BY DEF HasListed, FoundAs, Order, OpenedFile
  <2>2. stamp'[e] = stamp[e] /\ src'[g] = src[g]
    OBVIOUS
  <2>3. CASE p = pass /\ g = file.name
    <3>1. seen'[p][g].there /\ e = dir /\ g \in Pending(p, e)
      BY <2>3 DEF OpenedFile, Order, Pending
    <3>. QED
      BY <2>1, <2>2, <3>1 DEF Presence
  <2>4. CASE ~(p = pass /\ g = file.name)
    <3>1. seen'[p][g] = seen[p][g]
      BY <2>4 DEF OpenedFile
    <3>2. g \in Pending(p, e)' <=> g \in Pending(p, e)
      BY <2>4 DEF Pending
    <3>. QED
      BY <2>1, <2>2, <3>1, <3>2 DEF Presence
  <2>. QED
    BY <2>3, <2>4
<1>5. Order'
    BY DEF Order, OpenedFile, HasListed
<1>6. Between'
    BY DEF Between, Times, OpenedFile, Order, Presence, HasListed, FoundAs, Pending
<1>7. Synchronised'
    BY DEF Synchronised, OpenedFile, Order
<1>. QED
    BY <1>1, <1>2, <1>3, <1>4, <1>5, <1>6, <1>7 DEF ScanInv

LEMMA CheckKeeps ==
    ASSUME IInv, CheckFile, pc \in Scanning, pc' \in Scanning
    PROVE  ScanInv'
<1>. USE ConstantsAssumption DEF ConstantsAssumption, IInv, TypeOK, ScanInv, Scanning, Nodes, Dirs,
        CheckFile, Fail, NoFile, source, staging, scan
<1>1. Times'
    BY DEF Times, OpenedFile, Order
<1>2. OpenedFile'
    BY DEF Times, OpenedFile, Order
<1>3. Copied'
    BY DEF Copied, OpenedFile, Order
<1>4. Presence'
    BY DEF Presence, Order, Times, OpenedFile, HasListed, FoundAs, Pending
<1>5. Order'
    BY DEF Order, OpenedFile, HasListed
<1>6. Between'
    BY DEF Between, Times, OpenedFile, Order, Presence, HasListed, FoundAs, Pending
<1>7. Synchronised'
    BY DEF Synchronised, OpenedFile, Order
<1>. QED
    BY <1>1, <1>2, <1>3, <1>4, <1>5, <1>6, <1>7 DEF ScanInv

LEMMA FirstScanKeeps ==
    ASSUME IInv, EndFirstScan, pc \in Scanning, pc' \in Scanning
    PROVE  ScanInv'
<1>. USE ConstantsAssumption DEF ConstantsAssumption, IInv, TypeOK, ScanInv, Scanning, Nodes, Dirs,
        EndFirstScan, source, staging, scan
<1>1. Times'
    BY DEF Times, OpenedFile, Order
<1>2. OpenedFile'
    BY DEF Times, OpenedFile, Order
<1>3. Copied'
    BY DEF Copied, OpenedFile, Order
<1>4. Presence'
    BY DEF Presence, Order, Times, OpenedFile, HasListed, FoundAs, Pending
<1>5. Order'
    BY DEF Order, OpenedFile, HasListed
<1>6. Between'
    BY DEF Between, Times, OpenedFile, Order, Presence, HasListed, FoundAs, Pending
<1>7. Synchronised'
    BY DEF Synchronised, OpenedFile, Order
<1>. QED
    BY <1>1, <1>2, <1>3, <1>4, <1>5, <1>6, <1>7 DEF ScanInv

LEMMA ChangeKeeps ==
    ASSUME NEW f \in Files, NEW c \in Contents \cup {None}, IInv, Change(f, c), pc \in Scanning, pc' \in Scanning
    PROVE  ScanInv'
<1>. USE ConstantsAssumption DEF ConstantsAssumption, IInv, TypeOK, ScanInv, Scanning, Nodes, Dirs,
        Change, source, staging, scan
<1>1. Times'
  <2>1. \A n \in Nodes \cup {Root} : stamp'[n] = stamp[n] \/ stamp'[n] = clock + 1
    OBVIOUS
  <2>2. \A n \in Nodes \cup {Root} : stamp[n] <= clock /\ stamp[n] \in Nat /\ clock \in Nat
    OBVIOUS
  <2>3. \A g \in Files : src'[g] # src[g] => stamp'[g] = clock + 1
    OBVIOUS
  <2>4. seen' = seen /\ atStart' = atStart /\ \A p \in {1, 2}, n \in Nodes : seen[p][n].state \in Nat
    BY DEF Entries
  <2>. QED
    BY <2>1, <2>2, <2>3, <2>4 DEF Times
<1>2. OpenedFile'
    BY DEF Times, OpenedFile, Order
<1>3. Copied'
    BY DEF Copied, OpenedFile, Order
<1>4. Presence'
  <2>. SUFFICES ASSUME NEW p \in {1, 2}, NEW e \in Dirs, HasListed(p, e)', stamp'[e] = FoundAs(p, e)',
                       NEW g \in Files, DirOf[g] = e
                PROVE  src'[g] # None <=> g \in Pending(p, e)' \/ seen'[p][g].there
    BY DEF Presence
  <2>1. HasListed(p, e) /\ FoundAs(p, e)' = FoundAs(p, e) /\ Pending(p, e)' = Pending(p, e)
    BY DEF HasListed, FoundAs, Pending
  <2>2. FoundAs(p, e) <= clock /\ stamp[e] <= clock /\ clock \in Nat /\ FoundAs(p, e) \in Nat
    BY <2>1 DEF FoundAs, Times, HasListed, Entries
  <2>3. stamp'[e] = stamp[e]
    BY <2>1, <2>2
  <2>4. src'[g] # None <=> src[g] # None
    BY <2>2, <2>3
  <2>. QED
    BY <2>1, <2>3, <2>4 DEF Presence
<1>5. Order'
    BY DEF Order, OpenedFile, HasListed
<1>6. Between'
    BY DEF Between, Times, OpenedFile, Order, Presence, HasListed, FoundAs, Pending
<1>7. Synchronised'
    BY DEF Synchronised, OpenedFile, Order
<1>. QED
    BY <1>1, <1>2, <1>3, <1>4, <1>5, <1>6, <1>7 DEF ScanInv

-----------------------------------------------------------------------------
(* Publication *)

\* Two scans that agree have copied what was there between them.
LEMMA ScansAgree ==
    ASSUME IInv, EndSecondScan, pc' = "publish"
    PROVE  copy = mid /\ Staged \subseteq disk.nodes
<1>. USE ConstantsAssumption DEF ConstantsAssumption, IInv, TypeOK, Nodes, Dirs
<1>1. ScanInv /\ Unchanged /\ pass = 2 /\ dir = Root /\ todo[Root] = {}
  BY DEF EndSecondScan, Scanning, Fail
<1>2. ASSUME NEW f \in Files PROVE copy[f] = mid[f]
  <2>1. seen[1][f] = seen[2][f] /\ Copied
    BY <1>1 DEF Unchanged, ScanInv
  <2>2. CASE seen[1][f].there
    BY <1>1, <2>1, <2>2 DEF Copied, Between, ScanInv
  <2>3. CASE ~seen[1][f].there
    <3>1. copy[f] = None
      BY <2>1, <2>3 DEF Copied
    <3>2. CASE DirOf[f] = Root
      <4>1. stamp[DirOf[f]] = FoundAs(1, DirOf[f]) /\ DirOf[f] \in Dirs
        BY <1>1, <3>2 DEF Unchanged, FoundAs
      <4>. QED
        BY <1>1, <4>1, <3>1, <2>3 DEF Between, ScanInv
    <3>3. CASE DirOf[f] \in Subdirs
      <4>1. seen[2][DirOf[f]].there /\ seen[2][DirOf[f]].state = seen[1][DirOf[f]].state
        BY <1>1, <3>3 DEF Order, ScanInv, Unchanged, HasListed, EndSecondScan
      <4>. QED
        BY <1>1, <4>1, <3>3, <3>1, <2>3 DEF Between, ScanInv
    <3>. QED
      BY <3>2, <3>3
  <2>. QED
    BY <2>2, <2>3
<1>3. copy = mid
  BY <1>2
<1>4. Staged \subseteq disk.nodes
  BY <1>1 DEF Staged, Copied, Synchronised, ScanInv
<1>. QED
  BY <1>3, <1>4

LEMMA PublishedStep ==
    ASSUME IInv, [Next]_vars
    PROVE  Published'
<1>. USE DEF Published
<1>1. CASE EndSecondScan
  <2>1. UNCHANGED <<copy, mid, disk, Staged>>
    BY <1>1 DEF EndSecondScan, scan, staging, Staged
  <2>2. pc' \in {"publish", "open", "failed"}
    BY <1>1 DEF EndSecondScan, Fail
  <2>. QED
    BY <1>1, <2>1, <2>2, ScansAgree
<1>2. CASE PowerLoss
  <2>1. pc = "returned" => Staged \subseteq disk.nodes /\ name = "final" /\ disk.name = "final"
    BY DEF IInv
  <2>2. CASE pc = "returned"
    <3>1. PICK kept \in SUBSET Nodes :
             /\ Staged \cap disk.nodes \subseteq kept /\ kept \subseteq Staged
             /\ copy' = [f \in Files |-> IF f \in kept THEN copy[f] ELSE None]
             /\ made' = made \cap kept
      BY <1>2 DEF PowerLoss
    <3>2. kept = Staged
      BY <2>1, <2>2, <3>1
    <3>3. copy' = copy
      BY <3>1, <3>2 DEF Staged, IInv, TypeOK
    <3>4. made' = made
      BY <3>1, <3>2 DEF Staged
    <3>. QED
      BY <1>2, <2>1, <2>2, <3>3, <3>4 DEF PowerLoss, scan, Staged, IInv
  <2>3. CASE pc # "returned"
    BY <1>2, <2>3 DEF PowerLoss
  <2>. QED
    BY <2>2, <2>3
<1>3. CASE SyncParent
  BY <1>3 DEF SyncParent, IInv, TypeOK, scan, Staged
<1>4. CASE Rename
  BY <1>4 DEF Rename, IInv, scan, Staged
<1>5. CASE UNCHANGED vars
  BY <1>5 DEF vars, scan, staging, Staged, IInv
<1>6. ASSUME NEW f \in Files, NEW c \in Contents \cup {None}, Change(f, c) PROVE Published'
  BY <1>6 DEF Change, scan, staging, Staged, IInv
<1>7. CASE Fault
  BY <1>7 DEF Fault, Fail
<1>8. CASE \E n \in Nodes : ClearEntry(n)
  BY <1>8 DEF ClearEntry
<1>9. CASE \/ Start \/ List \/ LeaveDirectory \/ ReadFile \/ CheckFile \/ EndFirstScan
           \/ OpenStaging \/ RemoveStaging \/ SyncRemoval \/ TryAgain \/ RetryCleanup \/ CleanupFault
           \/ \E d \in Subdirs : EnterDirectory(d)
           \/ \E f \in Files : OpenFile(f)
  <2>1. pc' \notin {"publish", "sync", "returned"}
    BY <1>9 DEF Start, List, LeaveDirectory, ReadFile, CheckFile, EndFirstScan, OpenStaging,
       RemoveStaging,
                SyncRemoval, TryAgain, RetryCleanup, CleanupFault, EnterDirectory, OpenFile, Fail
  <2>. QED
    BY <2>1
<1>. QED
  BY <1>1, <1>2, <1>3, <1>4, <1>5, <1>6, <1>7, <1>8, <1>9 DEF Next, Step

LEMMA FreshStep ==
    ASSUME IInv, [Next]_vars
    PROVE  Fresh'
<1>1. CASE pc' # "start"
  BY <1>1 DEF Fresh
<1>2. CASE pc' = "start"
  <2>1. pc = "start" /\ (UNCHANGED vars \/ \E f \in Files, c \in Contents \cup {None} : Change(f, c))
    <3>1. ~(Start \/ List \/ LeaveDirectory \/ ReadFile \/ CheckFile \/ EndFirstScan \/ EndSecondScan)
      BY <1>2 DEF Start, List, LeaveDirectory, ReadFile, CheckFile, EndFirstScan, EndSecondScan,
         Fail
    <3>2. ~(\/ OpenStaging \/ RemoveStaging \/ SyncRemoval \/ TryAgain \/ RetryCleanup \/ CleanupFault
            \/ Fault \/ Rename \/ SyncParent)
      BY <1>2 DEF OpenStaging, RemoveStaging, SyncRemoval, TryAgain, RetryCleanup, CleanupFault,
         Fault, Fail,
                  Rename, SyncParent
    <3>3. /\ \A d \in Subdirs : ~EnterDirectory(d)
          /\ \A f \in Files : ~OpenFile(f)
          /\ \A n \in Nodes : ~ClearEntry(n)
      BY <1>2 DEF EnterDirectory, OpenFile, Fail, ClearEntry
    <3>4. ~PowerLoss
      BY <1>2 DEF PowerLoss
    <3>5. pc = "start"
      BY <1>2, <3>1, <3>2, <3>3, <3>4 DEF Next, Step, Change, vars
    <3>. QED
      BY <3>1, <3>2, <3>3, <3>4, <3>5 DEF Next, Step
  <2>2. UNCHANGED <<seen, todo, pass, dir, copy, made>>
    BY <2>1 DEF vars, Change, scan, staging
  <2>3. stamp'[Root] >= 0
    BY <2>1, ConstantsAssumption DEF ConstantsAssumption, IInv, TypeOK, Nodes, Change, vars, source
  <2>. QED
    BY <2>1, <2>2, <2>3 DEF IInv, Fresh
<1>. QED
  BY <1>1, <1>2

LEMMA ScanStep ==
    ASSUME IInv, [Next]_vars, pc' \in Scanning
    PROVE  ScanInv'
<1>1. CASE Start
  BY <1>1, BeginsFresh DEF IInv
<1>2. CASE UNCHANGED vars
  <2>1. ScanInv
    BY <1>2 DEF IInv, vars
  <2>. QED
    BY <1>2, <2>1 DEF vars, source, scan, staging, ScanInv, Times, OpenedFile, Copied, Presence,
       Order, Between,
                      Synchronised, HasListed, FoundAs, Pending
<1>3. CASE pc \in Scanning /\ ~UNCHANGED vars
  <2>1. \/ List \/ LeaveDirectory \/ ReadFile \/ CheckFile \/ EndFirstScan
        \/ \E d \in Subdirs : EnterDirectory(d)
        \/ \E f \in Files : OpenFile(f)
        \/ \E f \in Files, c \in Contents \cup {None} : Change(f, c)
    BY <1>3 DEF Scanning, Next, Step, Start, EndSecondScan, Rename, SyncParent, OpenStaging,
       RemoveStaging,
                SyncRemoval, TryAgain, ClearEntry, RetryCleanup, Fault, CleanupFault, PowerLoss, Fail
  <2>. QED
    BY <1>3, <2>1, ListKeeps, LeaveKeeps, ReadKeeps, CheckKeeps, FirstScanKeeps, EnterKeeps,
       OpenKeeps, ChangeKeeps
<1>4. CASE pc \notin Scanning /\ ~Start /\ ~UNCHANGED vars
  BY <1>4 DEF Scanning, Next, Step, List, LeaveDirectory, ReadFile, CheckFile, EndFirstScan,
     EndSecondScan,
              EnterDirectory, OpenFile, Rename, SyncParent, OpenStaging, RemoveStaging, SyncRemoval, TryAgain,
              ClearEntry, RetryCleanup, Fault, CleanupFault, PowerLoss, Change, Fail
<1>. QED
  BY <1>1, <1>2, <1>3, <1>4

-----------------------------------------------------------------------------
(* The theorems *)

LEMMA Invariance == Spec => []IInv
<1>1. Init => IInv
  <2>. SUFFICES ASSUME Init PROVE IInv
    OBVIOUS
  <2>1. TypeOK /\ TriesLeft
    BY InitType
  <2>2. pc \notin Scanning /\ Published
    BY DEF Init, Scanning, Published
  <2>3. Fresh
    BY ConstantsAssumption DEF ConstantsAssumption, Init, Fresh, Nodes, Dirs
  <2>. QED
    BY <2>1, <2>2, <2>3 DEF IInv
<1>2. IInv /\ [Next]_vars => IInv'
  <2>. SUFFICES ASSUME IInv, [Next]_vars PROVE IInv'
    OBVIOUS
  <2>1. pc \in {"read", "check"} => OpenedFile
    BY DEF IInv, ScanInv, Scanning
  <2>2. TypeOK' /\ TriesLeft'
    BY <2>1, TypeStep DEF IInv
  <2>. QED
    BY <2>2, ScanStep, PublishedStep, FreshStep DEF IInv, Scanning
<1>. QED
  BY <1>1, <1>2, PTL DEF Spec

\* The state stays well typed (snapshot_qdrant_storage).
THEOREM TypeCorrect == Spec => []TypeOK
BY Invariance, PTL DEF IInv

\* Whatever another program changes while the tree is scanned, a snapshot that
\* is published is the source as it was at one moment.
THEOREM SnapshotOfOneMoment == Spec => []OneMoment
<1>1. IInv => OneMoment
  BY DEF IInv, Published, OneMoment
<1>. QED
  BY <1>1, Invariance, PTL

\* A snapshot that was returned survives a power loss completely.
THEOREM SnapshotIsDurable == Spec => []ReturnedIsDurable
<1>1. IInv => ReturnedIsDurable
  BY DEF IInv, Published, ReturnedIsDurable
<1>. QED
  BY <1>1, Invariance, PTL
-----------------------------------------------------------------------------
(* The snapshot whose calls fail: what a step may find under its staging    *)
(* name, and what is durable of it.                                         *)

FaultyBusy == {"list", "next", "read", "check", "publish", "sync", "returned"}

FaultyInv ==
    /\ faultyDisk = [name |-> faultyDisk.name, nodes |-> faultyDisk.nodes]
    /\ faultyDisk.name \in {"absent", "final"}
    /\ faultyMade \subseteq Subdirs /\ DOMAIN faultyCopy = Files
    /\ faultyDisk.name = "final" => faultyPc = "returned"
    /\ faultyPc \in FaultyBusy => faultyName # "absent" \/ faultyPc = "returned"
    /\ faultyPc \in {"start", "removed", "failed"} => faultyName = "absent"
    /\ faultyName = "absent" /\ faultyPc # "returned" => FaultySnapshot!Staged = {}
-----------------------------------------------------------------------------
(* The benchmark run.  While it closes, everything before its position in   *)
(* ClosingOrder has been given back; a run that may still be published was  *)
(* measured by a session that is closed, with a copy nobody altered.        *)

RunClosed == runOpen \cap Run!Owned = {}
Measured == runMode = "run" /\ runMeasured = "complete"

RunResources ==
    /\ runOpen \subseteq Run!Owned \cup {"measurement"}
    /\ runPc = "open" => runOpen = {}
    /\ runPc = "close" =>
          /\ runAt \in 1..9
          /\ \A i \in 1..8 : i < runAt => Run!Holds(Run!ClosingOrder[i]) \cap runOpen = {}
    /\ runPc \in {"checks", "publish"} => RunClosed
    /\ runPc = "done" /\ ~runGaveUp => RunClosed

RunCopy ==
    /\ runPc \in {"open", "roots", "scratch", "copy"} => ~runAltered /\ "embedding" \notin runOpen
    /\ runAltered => runCopy \in {"altered", "partial", "gone"}
    /\ runPc = "close" /\ runAt > 4 /\ ~runFailed => ~runAltered
    /\ runPc \in {"checks", "publish"} => ~runAltered

RunMeasured ==
    /\ runMode \in {"run", "preflight"}
    /\ runPc \in {"preflight", "preflight.measure"} => runMode # "run"
    /\ Measured => runEvidence /\ runMeasuring
    /\ Measured /\ (runPc \in {"prepared", "checks", "publish"}
                      \/ (runPc = "close" /\ runContext = "final"))
         => "measurement" \notin runOpen

RunInv ==
    /\ RunResources /\ RunCopy /\ RunMeasured
    /\ runPc = "publish" => Measured /\ runOutcome = "complete" /\ ~runEdited
    /\ runPublished => runPc = "done"
    /\ Run!PublishedIsSound
-----------------------------------------------------------------------------
(* The batch.  A process that is alive is owned, unless a stop was cut      *)
(* short; and a stop that succeeds stops everything that is owned.          *)

BatchDead == \A role \in Batch!Roles : ~Batch!Alive(role)

BatchProcesses ==
    /\ batchProc \in [Batch!Roles -> {"none", "loading", "serving", "terminated", "killed", "dead"}]
    /\ batchCut \in BOOLEAN /\ batchFailed \in BOOLEAN
    /\ batchPc = "prepare" => \A role \in Batch!Roles : batchProc[role] = "none"
    /\ batchCut \/ \A role \in Batch!Roles : Batch!Alive(role) => role \in batchOwned
    /\ batchPc \in {"undoing", "undoing last", "closing", "closing last"} => batchTargets = batchOwned
    /\ batchPc \in {"retire", "retire last"} => batchTargets = IngestOnly
    /\ batchCut => batchPc = "end" \/ batchPrimary # "none"
    /\ batchPc \in {"final", "write"} => BatchDead
    /\ batchPc = "end" /\ ~batchCut => BatchDead

BatchProgress ==
    /\ batchPublished \in 0..NProfiles
    /\ batchPc = "running" => batchPublished < NProfiles
    /\ batchPc \in {"closing", "closing last"} /\ batchPrimary = "none" => batchPublished = NProfiles
    /\ batchPc \in {"final", "write"} => batchPublished = NProfiles
    /\ batchTainted \in BOOLEAN
    /\ batchTainted => batchChanged # {}
    /\ batchPc = "write" => ~batchTainted
    /\ batchReceipt => /\ batchPc = "end" /\ BatchDead
                       /\ batchPublished = NProfiles /\ ~batchTainted

BatchInv == BatchProcesses /\ BatchProgress
-----------------------------------------------------------------------------
(* The registry.  What an acknowledged run of an undamaged directory is, in *)
(* the files, in what a power loss may leave of them, and in every index    *)
(* that a call is about to write; and what is true of a run being added.    *)

RegistryStates == Clients \cup {"edited", "absent", "empty", "broken"}
RegistryManifests == Clients \cup {"edited"}
RegistryEntries == [Runs -> RegistryManifests \cup {Nil}]
RegistryIndexes == [ok: BOOLEAN, runs: RegistryEntries]
RegistryCoulds == [dirs: [Runs -> SUBSET RegistryStates], index: SUBSET RegistryIndexes]
RegistrySteps == {"idle", "publish", "syncRuns", "index", "syncRoot", "unlink", "rmdir"}

\* What of the types the argument needs.
RegistryTypes ==
    /\ registryDirs \in [Runs -> RegistryStates] /\ registryIndex \in RegistryIndexes
    /\ registryCould \in RegistryCoulds
    /\ registryPc \in [Clients -> RegistrySteps]
    /\ registryRun \in [Clients -> Runs \cup {Nil}]
    /\ registryNew \in [Clients -> RegistryEntries]
    /\ registryUnsure \in [Clients -> BOOLEAN]
    /\ registryAcked \subseteq Runs \X Clients
    /\ \A c \in Clients : registryPc[c] # "idle" => registryLock = c
    /\ registryIndex \in registryCould.index

RegistryKept(r, m) ==
    /\ registryDirs[r] = m /\ registryCould.dirs[r] = {m}
    /\ \A i \in registryCould.index : i.ok => i.runs[r] = m
    /\ \A c \in Clients : registryPc[c] # "idle" => registryRun[c] # r
    /\ \A c \in Clients : registryPc[c] \in {"publish", "syncRuns", "index"} => registryNew[c][r] = m

RegistryAdds(c, r) ==
    /\ registryPc[c] \in {"publish", "syncRuns", "index"} => registryNew[c][r] = c
    /\ registryPc[c] \in {"syncRuns", "index", "syncRoot"} => registryDirs[r] = c
    /\ registryPc[c] \in {"index", "syncRoot"} /\ ~registryUnsure[c] => registryCould.dirs[r] = {c}
    /\ registryPc[c] = "syncRoot" /\ registryIndex.ok => registryIndex.runs[r] = c

RegistryInv ==
    /\ RegistryTypes
    /\ \A c \in Clients : registryPc[c] = "idle" => registryRun[c] = Nil
    /\ \A c \in Clients : registryRun[c] # Nil /\ registryRun[c] \notin registryTouched
                             => RegistryAdds(c, registryRun[c])
    /\ \A a \in registryAcked : a[1] \notin registryTouched => RegistryKept(a[1], a[2])
-----------------------------------------------------------------------------
(* The review.  Only the holder of the lock changes the answers, so the     *)
(* revision it checked stays the next one; and the directories on its way   *)
(* are synced one after another before it writes, all but annotations,      *)
(* which is synced outside the lock or not at all.                          *)

ReviewSteps == Review!Steps
ReviewWorks ==
    [event: Review!Events, expected: Nat, revision: Nat, id: Nat, level: Nat,
     whole: BOOLEAN, at: Review!Steps]

ReviewTypes ==
    /\ reviewDirs \in [Review!Directories -> {"absent", "loose", "synced"}]
    /\ reviewFiles \in [Review!Events -> Seq([id: Nat, whole: BOOLEAN])]
    /\ reviewSynced \in [Review!Events -> Nat]
    /\ reviewWork \in [Servers -> ReviewWorks]
    /\ reviewSaves \in Nat
    /\ \A e \in Review!Events : reviewSynced[e] <= Len(reviewFiles[e])

Durable(e, n) == \A k \in 2..n : reviewDirs[Review!Way(e)[k]] = "synced"

Stored(e, revision, id) ==
    /\ revision \in 1..Len(reviewFiles[e]) /\ reviewFiles[e][revision].id = id

\* What a loss of power that spares annotations cannot take.
SafelyStored(a) ==
    /\ Stored(a.event, a.revision, a.id)
    /\ a.revision <= reviewSynced[a.event]
    /\ Durable(a.event, Len(Review!Way(a.event)))

ReviewGoes(p) ==
    LET w == reviewWork[p] IN
    /\ w.at \in {"make", "sync"} => /\ w.level \in 2..Len(Review!Way(w.event))
                                    /\ Durable(w.event, w.level - 1)
    /\ w.at \in {"write", "link", "settle", "tidy"} => Durable(w.event, Len(Review!Way(w.event)))
    /\ w.at \in {"make", "sync", "write", "link"} => w.revision = Len(reviewFiles[w.event]) + 1
    /\ w.at \in {"settle", "tidy"} => Stored(w.event, w.revision, w.id)
    /\ w.at = "tidy" => w.revision <= reviewSynced[w.event]

ReviewInv ==
    /\ ReviewTypes
    /\ \A p, q \in Review!Locked : p = q
    /\ \A p \in Servers : ReviewGoes(p)
    /\ \A a \in reviewAcked :
          /\ a.event \in Review!Events
          /\ a.root => reviewDirs["annotations"] = "synced"
          /\ a \notin reviewVanished => SafelyStored(a)
    /\ \A a \in reviewVanished : ~a.root
-----------------------------------------------------------------------------
-----------------------------------------------------------------------------
LEMMA FaultyStart == FaultySnapshot!Init => FaultyInv
BY DEF FaultySnapshot!Init, FaultyInv, FaultyBusy, FaultySnapshot!Staged, FaultySnapshot!None

LEMMA FaultyMoves ==
  ASSUME FaultyInv, [FaultySnapshot!Next]_(FaultySnapshot!vars) PROVE FaultyInv'
<1> USE DEF FaultyInv, FaultyBusy, FaultySnapshot!Staged, FaultySnapshot!None,
        FaultySnapshot!source, FaultySnapshot!scan, FaultySnapshot!staging
<1>1. CASE UNCHANGED FaultySnapshot!vars
  BY <1>1 DEF FaultySnapshot!vars
<1>2. CASE FaultySnapshot!Start
  BY <1>2 DEF FaultySnapshot!Start
<1>3. CASE FaultySnapshot!List
  BY <1>3 DEF FaultySnapshot!List, FaultySnapshot!Fail
<1>4. CASE FaultySnapshot!LeaveDirectory
  BY <1>4 DEF FaultySnapshot!LeaveDirectory, FaultySnapshot!Fail
<1>5. CASE FaultySnapshot!ReadFile
  BY <1>5 DEF FaultySnapshot!ReadFile
<1>6. CASE FaultySnapshot!CheckFile
  BY <1>6 DEF FaultySnapshot!CheckFile, FaultySnapshot!Fail, FaultySnapshot!Nodes
<1>7. ASSUME NEW d \in Subdirs, FaultySnapshot!EnterDirectory(d) PROVE FaultyInv'
  BY <1>7 DEF FaultySnapshot!EnterDirectory, Nodes
<1>8. ASSUME NEW f \in Files, FaultySnapshot!OpenFile(f) PROVE FaultyInv'
  BY <1>8 DEF FaultySnapshot!OpenFile, FaultySnapshot!Fail
<1>9. CASE FaultySnapshot!EndFirstScan
  BY <1>9 DEF FaultySnapshot!EndFirstScan
<1>10. CASE FaultySnapshot!EndSecondScan
  BY <1>10 DEF FaultySnapshot!EndSecondScan, FaultySnapshot!Fail
<1>11. CASE FaultySnapshot!Rename
  BY <1>11 DEF FaultySnapshot!Rename
<1>12. CASE FaultySnapshot!SyncParent
  BY <1>12 DEF FaultySnapshot!SyncParent
<1>13. CASE FaultySnapshot!OpenStaging
  BY <1>13 DEF FaultySnapshot!OpenStaging
<1>14. CASE FaultySnapshot!RemoveStaging
  BY <1>14 DEF FaultySnapshot!RemoveStaging
<1>15. CASE FaultySnapshot!SyncRemoval
  BY <1>15 DEF FaultySnapshot!SyncRemoval
<1>16. CASE FaultySnapshot!TryAgain
  BY <1>16 DEF FaultySnapshot!TryAgain
<1>17. ASSUME NEW n \in FaultySnapshot!Nodes, FaultySnapshot!ClearEntry(n) PROVE FaultyInv'
  BY <1>17 DEF FaultySnapshot!ClearEntry
<1>18. CASE FaultySnapshot!RetryCleanup
  BY <1>18 DEF FaultySnapshot!RetryCleanup
<1>19. CASE FaultySnapshot!Fault
  BY <1>19 DEF FaultySnapshot!Fault, FaultySnapshot!Fail
<1>20. CASE FaultySnapshot!CleanupFault
  BY <1>20 DEF FaultySnapshot!CleanupFault
<1>21. CASE FaultySnapshot!PowerLoss
  BY <1>21 DEF FaultySnapshot!PowerLoss
<1>22. ASSUME NEW f \in Files, NEW c \in FaultyContents \cup {FaultySnapshot!None},
              FaultySnapshot!Change(f, c)
       PROVE FaultyInv'
  BY <1>22 DEF FaultySnapshot!Change
<1>23. QED
  BY <1>1, <1>2, <1>3, <1>4, <1>5, <1>6, <1>7, <1>8, <1>9, <1>10, <1>11, <1>12, <1>13,
     <1>14, <1>15, <1>16, <1>17, <1>18, <1>19, <1>20, <1>21, <1>22
  DEF FaultySnapshot!Next, FaultySnapshot!Step
-----------------------------------------------------------------------------
LEMMA RunConstants ==
  /\ Nil \notin Kinds /\ Nil # "error" /\ Nil \notin Run!Cancellations
  /\ Nil \notin {"altered", "partial", "gone", "whole", "attestation", "incomplete"}
  /\ Kinds \subseteq {"error", "interrupt", "termination"}
  /\ Modes \subseteq {"run", "preflight"}
BY RunAssumption DEF Run!ConstantsAssumption, Run!ModesAssumption, Run!Error, Run!Cancellations,
   Run!Interrupt,
   Run!Termination

LEMMA ClosingPlaces ==
  /\ Len(Run!ClosingOrder) = 8
  /\ Run!ClosingOrder[1] = "adapter" /\ Run!ClosingOrder[2] = "vector"
  /\ Run!ClosingOrder[3] = "embedding" /\ Run!ClosingOrder[4] = "copy"
  /\ Run!ClosingOrder[5] = "borrowed" /\ Run!ClosingOrder[6] = "roots"
  /\ Run!ClosingOrder[7] = "scratch" /\ Run!ClosingOrder[8] = "product"
BY DEF Run!ClosingOrder

LEMMA OwnedOnes ==
  Run!Owned = {"adapter", "vector", "embedding", "borrowed", "roots", "scratch", "product",
               "session"}
<1>1. {Run!ClosingOrder[i] : i \in 1..Len(Run!ClosingOrder)}
        = {"adapter", "vector", "embedding", "copy", "borrowed", "roots", "scratch", "product"}
  <2>1. ASSUME NEW i \in 1..8
        PROVE Run!ClosingOrder[i] \in {"adapter", "vector", "embedding", "copy", "borrowed",
                                       "roots", "scratch", "product"}
    <3>1. i = 1 \/ i = 2 \/ i = 3 \/ i = 4 \/ i = 5 \/ i = 6 \/ i = 7 \/ i = 8
      OBVIOUS
    <3>2. QED
      BY <3>1, ClosingPlaces
  <2>2. /\ 1 \in 1..8 /\ 2 \in 1..8 /\ 3 \in 1..8 /\ 4 \in 1..8
        /\ 5 \in 1..8 /\ 6 \in 1..8 /\ 7 \in 1..8 /\ 8 \in 1..8
    OBVIOUS
  <2>3. QED
    BY <2>1, <2>2, ClosingPlaces
<1>2. QED
  BY <1>1 DEF Run!Owned

LEMMA RunStages ==
  /\ Len(Run!Stages) = 6
  /\ Run!Stages[1] = "roots" /\ Run!Stages[2] = "scratch" /\ Run!Stages[3] = "copy"
  /\ Run!Stages[4] = "embedding" /\ Run!Stages[5] = "vector" /\ Run!Stages[6] = "adapter"
BY DEF Run!Stages

\* Everything before position n has been given back.
Released(n) == \A i \in 1..8 : i < n => Run!Holds(Run!ClosingOrder[i]) \cap runOpen = {}

LEMMA AllReleased == ASSUME RunResources, runPc = "close", runAt > 8 PROVE RunClosed
<1>1. \A i \in 1..8 : Run!Holds(Run!ClosingOrder[i]) \cap runOpen = {}
  BY DEF RunResources
<1>2. /\ 1 \in 1..8 /\ 2 \in 1..8 /\ 3 \in 1..8 /\ 4 \in 1..8
      /\ 5 \in 1..8 /\ 6 \in 1..8 /\ 7 \in 1..8 /\ 8 \in 1..8
  OBVIOUS
<1>3. /\ {"adapter", "session"} \cap runOpen = {} /\ {"vector"} \cap runOpen = {}
      /\ {"embedding"} \cap runOpen = {} /\ {"borrowed"} \cap runOpen = {}
      /\ {"roots"} \cap runOpen = {} /\ {"scratch"} \cap runOpen = {}
      /\ {"product"} \cap runOpen = {}
  BY <1>1, <1>2, ClosingPlaces DEF Run!Holds
<1>4. QED
  BY <1>3, OwnedOnes DEF RunClosed

LEMMA RunStart == Run!Init => RunInv
BY RunConstants DEF Run!Init, RunInv, RunResources, RunCopy, RunMeasured, Measured, RunClosed,
   Run!PublishedIsSound

\* Where a call of close() leads.
LEMMA ClosesOr ==
  ASSUME NEW k, NEW closed \in BOOLEAN, runPc = "close", Run!CloseReturns(k, closed)
  PROVE  \/ /\ runPc' = "close" /\ runAt' = 1 /\ runFailed' = FALSE
            /\ runContext' = runContext \/ runContext' = "handover"
         \/ runPc' = "done" /\ (closed \/ runGaveUp')
         \/ /\ runPc' = "checks" /\ runContext = "final" /\ closed /\ k # "error"
            /\ k \notin Run!Cancellations
<1>1. CASE Run!AfterSetup(k, closed)
  BY <1>1 DEF Run!AfterSetup, Run!Ends, Run!BeginClose
<1>2. CASE Run!Fully(k, closed)
  <2>1. CASE closed
    <3>1. PICK outcome :
             /\ Run!Finish(outcome) /\ UNCHANGED runContext
             /\ outcome = CASE k \in Run!Cancellations -> k
                            [] k = Run!Error -> "attestation"
                            [] OTHER -> IF k \in Run!Cancellations THEN k ELSE runCancelled
      BY <1>2, <2>1 DEF Run!Fully
    <3>2. k = "error" => outcome = "attestation"
      BY <3>1 DEF Run!Cancellations, Run!Error, Run!Interrupt, Run!Termination
    <3>3. CASE k = "error"
      BY <3>1, <3>2, <3>3, <2>1, RunConstants
      DEF Run!Finish, Run!Ends, Run!Cancellations, Run!Interrupt, Run!Termination
    <3>4. CASE k # "error"
      <4>1. k \in Run!Cancellations => outcome = k /\ outcome # Nil /\ outcome # "attestation" /\ outcome # "incomplete"
        BY <3>1, RunConstants DEF Run!Cancellations, Run!Interrupt, Run!Termination, Run!Error
      <4>2. CASE k \in Run!Cancellations
        BY <3>1, <4>1, <4>2, <2>1 DEF Run!Finish, Run!Ends
      <4>3. CASE k \notin Run!Cancellations
        BY <3>1, <3>4, <4>3, <2>1 DEF Run!Finish, Run!Ends
      <4>4. QED
        BY <4>2, <4>3
    <3>5. QED
      BY <3>3, <3>4
  <2>2. CASE ~closed
    BY <1>2, <2>2, RunConstants DEF Run!Fully, Run!Finish, Run!Ends, Run!Cancellations,
       Run!Interrupt, Run!Termination
  <2>3. QED
    BY <2>1, <2>2
<1>3. QED
  BY <1>1, <1>2 DEF Run!CloseReturns

\* A step that neither closes nor publishes: what it must keep.
LEMMA RunOpens ==
  ASSUME RunInv, runPc \notin {"close", "checks", "publish", "done"}, UNCHANGED <<runMode, runAltered, runPublished>>,
         runOpen' \subseteq Run!Owned \cup {"measurement"},
         runPc' \notin {"open", "checks", "publish", "done"} \/ (runPc' = "done" /\ runOpen' = {}),
         runPc' = "close" => runAt' = 1 /\ (runContext' # "final" \/ UNCHANGED <<runOpen, runMode, runMeasured>>),
         runPc' \in {"roots", "scratch", "copy"} => "embedding" \notin runOpen' /\ ~runAltered,
         runAltered => runCopy' = runCopy,
         runPc' \in {"preflight", "preflight.measure"} => runMode' # "run",
         Measured' => runEvidence' /\ runMeasuring',
         Measured' /\ runPc' = "prepared" => "measurement" \notin runOpen',
         runPc' = "close" /\ runContext' = "final" => runPc = "prepared"
  PROVE  RunInv'
<1>1. RunResources'
  BY DEF RunInv, RunResources, RunClosed
<1>2. RunCopy'
  BY DEF RunInv, RunCopy
<1>3. RunMeasured'
  BY DEF RunInv, RunMeasured, Measured
<1>4. ~runPublished
  BY DEF RunInv
<1>5. QED
  BY <1>1, <1>2, <1>3, <1>4 DEF RunInv, Run!PublishedIsSound

\* A step of close() that goes on at the next position.
LEMMA ClosesOn ==
  ASSUME RunInv, runPc = "close", runPc' = "close", runAt \in 1..8, runAt' = runAt + 1,
         UNCHANGED <<runContext, runAltered, runMode, runMeasuring, runMeasured, runEvidence,
                     runOutcome, runEdited, runPublished>>,
         runOpen' \subseteq runOpen,
         Run!Holds(Run!ClosingOrder[runAt]) \cap runOpen' = {},
         runAltered => runCopy' \in {"altered", "partial", "gone"},
         runAt > 4 => runFailed' = runFailed,
         runAt = 4 /\ ~runFailed' => ~runAltered
  PROVE  RunInv'
<1>1. RunResources'
  <2>1. ASSUME NEW i \in 1..8, i < runAt' PROVE Run!Holds(Run!ClosingOrder[i]) \cap runOpen' = {}
    <3>1. i < runAt \/ i = runAt
      BY <2>1
    <3>2. i < runAt => Run!Holds(Run!ClosingOrder[i]) \cap runOpen = {}
      BY DEF RunInv, RunResources
    <3>3. QED
      BY <3>1, <3>2
  <2>2. runAt' \in 1..9
    OBVIOUS
  <2>3. QED
    BY <2>1, <2>2 DEF RunInv, RunResources
<1>2. RunCopy'
  <2>1. runAt' > 4 => runAt > 4 \/ runAt = 4
    OBVIOUS
  <2>2. QED
    BY <2>1 DEF RunInv, RunCopy
<1>3. RunMeasured'
  BY DEF RunInv, RunMeasured, Measured
<1>4. QED
  BY <1>1, <1>2, <1>3 DEF RunInv, Run!PublishedIsSound

\* A call of close() that ends, in whatever way.
LEMMA ClosesUp ==
  ASSUME RunInv, NEW k, NEW closed \in BOOLEAN, runPc = "close", Run!CloseReturns(k, closed),
         closed => runAt > 8 /\ (k = "error" \/ ~runFailed \/ k \in Run!Cancellations),
         UNCHANGED <<runOpen, runAltered, runMode, runMeasuring, runMeasured, runEvidence,
                     runOutcome, runEdited, runPublished>>,
         runAltered => runCopy' \in {"altered", "partial", "gone"}
  PROVE  RunInv'
<1>1. closed => RunClosed
  BY AllReleased DEF RunInv
<1>3. ~runPublished
  BY DEF RunInv
<1>4. /\ runPc' \in {"close", "done", "checks"}
      /\ runPc' = "close" => runAt' = 1 /\ (runContext' = runContext \/ runContext' = "handover")
      /\ runPc' = "done" => closed \/ runGaveUp'
      /\ runPc' = "checks" => runContext = "final" /\ closed /\ ~runFailed
  BY ClosesOr
<1>5. RunResources'
  BY <1>1, <1>4 DEF RunInv, RunResources, RunClosed
<1>6. RunCopy'
  <2>1. runPc' = "checks" => ~runAltered
    BY <1>4 DEF RunInv, RunCopy, RunResources
  <2>2. QED
    BY <2>1, <1>4 DEF RunInv, RunCopy
<1>7. RunMeasured'
  BY <1>4 DEF RunInv, RunMeasured, Measured
<1>8. QED
  BY <1>3, <1>4, <1>5, <1>6, <1>7 DEF RunInv, Run!PublishedIsSound

LEMMA RunCloses == ASSUME RunInv, Run!CloseSteps, UNCHANGED Run!run PROVE RunInv'
<1> USE DEF Run!environment, Run!command, Run!run
<1>0. 1..Len(Run!ClosingOrder) = 1..8
  BY ClosingPlaces
<1>c. runAltered => runCopy \in {"altered", "partial", "gone"}
  BY DEF RunInv, RunCopy
<1>1. ASSUME NEW i \in 1..8, Run!Release(Run!ClosingOrder[i]) PROVE RunInv'
  <2>1. /\ runPc = "close" /\ runAt \in 1..8 /\ Run!ClosingOrder[runAt] = Run!ClosingOrder[i]
    BY <1>1, ClosingPlaces DEF Run!Release, Run!Closing, RunInv, RunResources
  <2>2. runAltered => runCopy' \in {"altered", "partial", "gone"}
    BY <1>1, <1>c DEF Run!Release
  <2>3. runAt # 4
    BY <1>1, <2>1, ClosingPlaces DEF Run!Release
  <2>4. Run!Holds(Run!ClosingOrder[runAt]) \cap runOpen' = {} /\ runOpen' \subseteq runOpen
    BY <1>1, <2>1 DEF Run!Release
  <2>5. QED
    BY <1>1, <2>1, <2>2, <2>3, <2>4, ClosesOn DEF Run!Release
<1>2. ASSUME NEW i \in 1..8, Run!Raise(Run!ClosingOrder[i]) PROVE RunInv'
  <2>1. PICK k \in Kinds : Run!CloseReturns(Run!LeavesAs(Run!ClosingOrder[i], k), FALSE)
    BY <1>2 DEF Run!Raise
  <2>2. runAltered => runCopy' \in {"altered", "partial", "gone"}
    BY <1>2, <1>c, RunConstants DEF Run!Raise, Run!CutShort
  <2>3. QED
    BY <1>2, <2>1, <2>2, ClosesUp DEF Run!Raise, Run!Closing
<1>3. CASE Run!Verify \/ Run!VerifyFails
  <2>1. runPc = "close" /\ runAt \in 1..8 /\ Run!ClosingOrder[runAt] = "copy"
    BY <1>3, ClosingPlaces DEF Run!Verify, Run!VerifyFails, Run!Closing, RunInv, RunResources
  <2>2. "copy" \notin runOpen
    BY OwnedOnes DEF RunInv, RunResources
  <2>3. ~runFailed' => ~runAltered
    BY <1>3, <1>c, RunConstants DEF Run!Verify, Run!VerifyFails
  <2>4. runAt = 4
    <3>1. runAt = 1 \/ runAt = 2 \/ runAt = 3 \/ runAt = 4 \/ runAt = 5 \/ runAt = 6 \/ runAt = 7 \/ runAt = 8
      BY <2>1
    <3>2. QED
      BY <3>1, <2>1, ClosingPlaces
  <2>5. Run!Holds("copy") \cap runOpen = {}
    BY <2>2 DEF Run!Holds
  <2>6. QED
    BY <1>3, <1>c, <2>1, <2>3, <2>4, <2>5, ClosesOn DEF Run!Verify, Run!VerifyFails
<1>4. CASE Run!TerminationSwallowed
  <2>1. runPc = "close" /\ runAt \in 1..8 /\ Run!ClosingOrder[runAt] = "adapter"
    BY <1>4, ClosingPlaces DEF Run!TerminationSwallowed, Run!Closing, RunInv, RunResources
  <2>2. runAt # 4
    BY <2>1, ClosingPlaces
  <2>3. Run!Holds("adapter") \cap runOpen' = {} /\ runOpen' \subseteq runOpen
    BY <1>4 DEF Run!TerminationSwallowed
  <2>4. QED
    BY <1>4, <1>c, <2>1, <2>2, <2>3, ClosesOn DEF Run!TerminationSwallowed
<1>5. CASE Run!Return
  <2>1. runPc = "close" /\ runAt > 8
    BY <1>5, ClosingPlaces DEF Run!Return
  <2>2. PICK k : Run!CloseReturns(k, TRUE) /\ (k \in Run!Cancellations \/ k = IF runFailed THEN "error" ELSE Nil)
    BY <1>5 DEF Run!Return, Run!Error
  <2>3. QED
    BY <1>5, <1>c, <2>1, <2>2, ClosesUp DEF Run!Return
<1>6. QED
  BY <1>0, <1>1, <1>2, <1>3, <1>4, <1>5 DEF Run!CloseSteps

LEMMA RunMoves == ASSUME RunInv, [Run!Next]_(Run!vars) PROVE RunInv'
<1> USE DEF Run!environment, Run!command, Run!run, Run!NotClosing, Run!Quiet
<1>o. runOpen \subseteq Run!Owned \cup {"measurement"}
  BY DEF RunInv, RunResources
<1>m. Measured => runEvidence /\ runMeasuring
  BY DEF RunInv, RunMeasured
<1>c. runPc \in {"open", "roots", "scratch", "copy"} => ~runAltered /\ "embedding" \notin runOpen
  BY DEF RunInv, RunCopy
<1>1. CASE UNCHANGED Run!vars
  BY <1>1 DEF Run!vars, RunInv, RunResources, RunCopy, RunMeasured, Measured, RunClosed,
     Run!PublishedIsSound, Run!IsClosed
<1>2. CASE Run!OpenProduct /\ UNCHANGED Run!run
  <2>1. runOpen = {}
    BY <1>2 DEF Run!OpenProduct, RunInv, RunResources
  <2>2. QED
    BY <1>2, <2>1, <1>m, <1>c, RunStages, OwnedOnes, RunOpens
    DEF Run!OpenProduct, Measured
<1>3. ASSUME NEW i \in 1..Len(Run!Stages), Run!SetUp(i), UNCHANGED Run!run PROVE RunInv'
  <2>1. i = 1 \/ i = 2 \/ i = 3 \/ i = 4 \/ i = 5 \/ i = 6
    BY RunStages
  <2>2. /\ runPc \in {"roots", "scratch", "copy", "embedding", "vector", "adapter"}
        /\ runPc' \in {"scratch", "copy", "embedding", "vector", "adapter", "probe"}
        /\ runPc' \in {"scratch", "copy"} => runPc \in {"roots", "scratch"} /\ "embedding" \notin runOpen'
        /\ runOpen' \subseteq runOpen \cup {"roots", "scratch", "embedding", "vector", "adapter"}
        /\ runPc # "copy" => runCopy' = runCopy
    BY <2>1, <1>3, <1>c, RunStages DEF Run!SetUp
  <2>3. runOpen' \subseteq Run!Owned \cup {"measurement"}
    BY <2>2, <1>o, OwnedOnes
  <2>4. UNCHANGED <<runAltered, runPublished, runMode, runMeasured, runEvidence, runMeasuring>>
    BY <1>3 DEF Run!SetUp
  <2>5. QED
    BY <2>2, <2>3, <2>4, <1>c, <1>m, RunOpens DEF Measured
<1>4. ASSUME NEW i \in 1..Len(Run!Stages), Run!SetUpFails(i), UNCHANGED Run!run PROVE RunInv'
  <2>1. i = 1 \/ i = 2 \/ i = 3 \/ i = 4 \/ i = 5 \/ i = 6
    BY RunStages
  <2>2. QED
    BY <2>1, <1>4, <1>o, <1>m, RunStages, OwnedOnes, RunOpens
    DEF Run!SetUpFails, Run!BeginClose, Run!Leftovers, Measured
<1>5. CASE Run!Probe
  BY <1>5, <1>o, <1>m, RunOpens DEF Run!Probe, Run!Goto, Run!Escapes, Run!BeginClose, Measured
<1>6. CASE Run!Measure
  BY <1>6, <1>o, <1>m, RunOpens DEF Run!Measure, Run!Goto, Run!Escapes, Run!BeginClose, Measured
<1>7. CASE Run!OpenSession
  BY <1>7, <1>o, <1>m, OwnedOnes, RunOpens DEF Run!OpenSession, Run!Goto, Run!Handled, Measured
<1>8. CASE Run!Cases
  BY <1>8, <1>o, <1>m, RunOpens DEF Run!Cases, Run!Goto, Run!Handled, Measured
<1>9. CASE Run!FinishMeasurement
  BY <1>9, <1>o, <1>m, RunOpens DEF Run!FinishMeasurement, Run!Goto, Run!Handled, Measured
<1>10. CASE Run!CloseSession
  BY <1>10, <1>o, <1>m, RunOpens DEF Run!CloseSession, Run!Goto, Run!Handled, Measured
<1>11. CASE Run!CloseAdapter
  BY <1>11, <1>o, <1>m, RunOpens DEF Run!CloseAdapter, Run!Goto, Run!Handled, Measured
<1>12. CASE Run!Unwind
  BY <1>12, <1>o, <1>m, RunOpens DEF Run!Unwind, Run!Goto, Run!Escapes, Run!BeginClose, Measured
<1>13. CASE Run!CloseMeasurement
  BY <1>13, <1>o, <1>m, RunOpens
  DEF Run!CloseMeasurement, Run!Goto, Run!Escapes, Run!BeginClose, Measured
<1>14. CASE Run!Preflight
  <2>1. /\ runPc = "preflight" /\ runPc' \in {"preflight.measure", "close"}
        /\ runOpen' \in {runOpen, runOpen \cup {"session"}}
        /\ runPc' = "close" => runAt' = 1 /\ runContext' = "unwind"
        /\ UNCHANGED <<runAltered, runPublished, runMode, runMeasured, runEvidence, runMeasuring, runCopy>>
    BY <1>14 DEF Run!Preflight, Run!Goto, Run!Escapes, Run!BeginClose
  <2>2. runOpen' \subseteq Run!Owned \cup {"measurement"}
    BY <2>1, <1>o, OwnedOnes
  <2>3. runMode # "run"
    BY <2>1 DEF RunInv, RunMeasured
  <2>4. QED
    BY <2>1, <2>2, <2>3, <1>m, RunOpens DEF Measured
<1>15. CASE Run!PreflightMeasurement
  BY <1>15, <1>o, <1>m, RunOpens
  DEF Run!PreflightMeasurement, Run!Goto, Run!Escapes, Run!BeginClose, Measured, RunInv, RunMeasured
<1>16. CASE Run!CloseEnvironment
  BY <1>16, <1>o, <1>m, RunOpens DEF Run!CloseEnvironment, Run!BeginClose, Measured
<1>17. CASE Run!Checks
  <2>1. Run!Verdict = "publish" => Measured /\ runOutcome = "complete" /\ ~runEdited
    <3>1. CASE runMode = "preflight"
      <4>1. Run!Verdict \in {"failed", "measurement", "ready"}
        BY <3>1 DEF Run!Verdict
      <4>2. QED
        BY <4>1
    <3>2. CASE runMode = "run"
      BY <3>2 DEF Run!Verdict, Measured
    <3>3. QED
      BY <3>1, <3>2 DEF RunInv, RunMeasured
  <2>2. /\ runPc = "checks" /\ runPc' \in {"publish", "done"}
        /\ runPc' = "publish" => Run!Verdict = "publish"
        /\ UNCHANGED <<runOpen, runCopy, runAltered, Run!run>>
    BY <1>17 DEF Run!Checks, Run!Ends
  <2>3. RunClosed /\ ~runAltered
    BY <2>2 DEF RunInv, RunResources, RunCopy
  <2>4. RunResources' /\ RunCopy'
    BY <2>2, <2>3 DEF RunInv, RunResources, RunCopy, RunClosed
  <2>5. RunMeasured'
    BY <2>2 DEF RunInv, RunMeasured, Measured
  <2>6. QED
    BY <2>1, <2>2, <2>4, <2>5 DEF RunInv, Measured, Run!PublishedIsSound
<1>18. CASE Run!Publish
  BY <1>18, OwnedOnes DEF Run!Publish, Run!Ends, RunInv, RunResources, RunCopy, RunMeasured,
     Measured, RunClosed,
     Run!PublishedIsSound, Run!IsClosed
<1>19. CASE Run!EditCode
  BY <1>19 DEF Run!EditCode, RunInv, RunResources, RunCopy, RunMeasured, Measured, RunClosed,
     Run!PublishedIsSound, Run!IsClosed
<1>20. CASE Run!Alter /\ UNCHANGED Run!run
  <2>1. /\ "embedding" \in runOpen /\ runCopy' = "altered"
        /\ UNCHANGED <<runPc, runOpen, runAt, runFailed, runContext, runGaveUp, Run!run>>
    BY <1>20 DEF Run!Alter
  <2>2. ~RunClosed
    BY <2>1, OwnedOnes DEF RunClosed
  <2>3. ~(runPc = "close" /\ runAt > 4)
    <3>1. ASSUME runPc = "close", runAt > 4 PROVE FALSE
      <4>1. 3 \in 1..8 /\ 3 < runAt
        BY <3>1 DEF RunInv, RunResources
      <4>2. Run!Holds("embedding") \cap runOpen = {}
        BY <3>1, <4>1, ClosingPlaces DEF RunInv, RunResources
      <4>3. QED
        BY <4>2, <2>1 DEF Run!Holds
    <3>2. QED
      BY <3>1
  <2>4. ~runPublished
    BY <2>1 DEF RunInv, Run!PublishedIsSound
  <2>5. RunResources' /\ RunMeasured'
    BY <2>1 DEF RunInv, RunResources, RunMeasured, RunClosed, Measured
  <2>6. RunCopy'
    BY <2>1, <2>2, <2>3, <1>c DEF RunInv, RunResources, RunCopy
  <2>7. QED
    BY <2>1, <2>4, <2>5, <2>6 DEF RunInv, Run!PublishedIsSound, Measured


<1>21. CASE Run!Finished
  BY <1>21, <1>1 DEF Run!Finished
<1>22. CASE Run!CloseSteps /\ UNCHANGED Run!run
  BY <1>22, RunCloses DEF Run!run
<1>23. QED
  BY <1>1, <1>2, <1>3, <1>4, <1>5, <1>6, <1>7, <1>8, <1>9, <1>10, <1>11, <1>12, <1>13,
     <1>14, <1>15, <1>16, <1>17, <1>18, <1>19, <1>20, <1>21, <1>22
  DEF Run!Next, Run!CommandStep
-----------------------------------------------------------------------------
LEMMA RegistryConstants ==
  /\ Nil \notin Clients /\ Nil \notin Runs
  /\ "absent" \notin Clients /\ "empty" \notin Clients /\ "broken" \notin Clients
  /\ "edited" \notin Clients /\ Nil \notin {"absent", "empty", "broken", "edited"}
  /\ {MaxFailures, MaxStops, MaxDamage} \subseteq Nat
BY RegistryAssumption DEF Registry!ConstantsAssumption, Registry!Absent, Registry!Empty,
   Registry!Broken, Registry!Edited

LEMMA RegistryStart == Registry!Init => RegistryInv
<1> SUFFICES ASSUME Registry!Init PROVE RegistryInv
  OBVIOUS
<1>1. RegistryTypes
  BY RegistryConstants DEF Registry!Init, RegistryTypes, RegistryCoulds, RegistryStates,
     RegistryIndexes,
     RegistryEntries, RegistryManifests, RegistrySteps, Registry!Absent, Registry!NoEntries
<1>2. QED
  BY <1>1, RegistryConstants DEF Registry!Init, RegistryInv

\* What a power loss may leave, after a step that adds to it or settles it.
LEMMA RegistryCouldBe ==
  ASSUME NEW x \in RegistryCoulds
  PROVE  /\ \A r : \A s \in RegistryStates : [x EXCEPT !.dirs[r] = @ \cup {s}] \in RegistryCoulds
         /\ \A r : \A s \in RegistryStates : [x EXCEPT !.dirs[r] = {s}] \in RegistryCoulds
         /\ \A i \in RegistryIndexes : [x EXCEPT !.index = @ \cup {i}] \in RegistryCoulds
         /\ \A i \in RegistryIndexes : [x EXCEPT !.index = {i}] \in RegistryCoulds
         /\ \A f \in [Runs -> SUBSET RegistryStates] : [x EXCEPT !.dirs = f] \in RegistryCoulds
<1>1. ASSUME NEW r, NEW s \in RegistryStates
      PROVE  [x EXCEPT !.dirs[r] = @ \cup {s}] \in RegistryCoulds
  <2>1. [x.dirs EXCEPT ![r] = @ \cup {s}] \in [Runs -> SUBSET RegistryStates]
    BY DEF RegistryCoulds
  <2>2. [x EXCEPT !.dirs[r] = @ \cup {s}] = [x EXCEPT !.dirs = [x.dirs EXCEPT ![r] = @ \cup {s}]]
    BY DEF RegistryCoulds
  <2>3. QED
    BY <2>1, <2>2 DEF RegistryCoulds
<1>2. ASSUME NEW r, NEW s \in RegistryStates
      PROVE  [x EXCEPT !.dirs[r] = {s}] \in RegistryCoulds
  <2>1. [x.dirs EXCEPT ![r] = {s}] \in [Runs -> SUBSET RegistryStates]
    BY DEF RegistryCoulds
  <2>2. [x EXCEPT !.dirs[r] = {s}] = [x EXCEPT !.dirs = [x.dirs EXCEPT ![r] = {s}]]
    BY DEF RegistryCoulds
  <2>3. QED
    BY <2>1, <2>2 DEF RegistryCoulds
<1>3. QED
  BY <1>1, <1>2 DEF RegistryCoulds

LEMMA RegistryMoves == ASSUME RegistryInv, [Registry!Next]_(Registry!vars) PROVE RegistryInv'
<1> USE RegistryConstants DEF Registry!files, Registry!client, Registry!past, Registry!outside,
        Registry!Absent, Registry!Empty, Registry!Broken, Registry!Edited
<1>1. ASSUME NEW c \in Clients, NEW r \in Runs, Registry!AddBegin(c, r) PROVE RegistryInv'
  <2>1. RegistryTypes'
    BY <1>1 DEF Registry!AddBegin, Registry!CanAdd, Registry!Acquire, Registry!Goto, RegistryInv,
       RegistryTypes, RegistryCoulds, RegistryStates, RegistryIndexes, RegistryEntries, RegistryManifests, RegistrySteps
  <2>2. \A d \in Clients : registryPc'[d] = "idle" => registryRun'[d] = Nil
    BY <1>1 DEF Registry!AddBegin, Registry!CanAdd, Registry!Acquire, Registry!Goto, RegistryInv,
       RegistryTypes
  <2>3. ASSUME NEW d \in Clients, registryRun'[d] # Nil, registryRun'[d] \notin registryTouched'
        PROVE  RegistryAdds(d, registryRun[d])'
    <3>1. d = c
      BY <1>1, <2>3 DEF Registry!AddBegin, Registry!Acquire, RegistryInv, RegistryTypes
    <3>2. /\ registryRun'[c] = r /\ registryPc'[c] = "publish"
          /\ registryNew'[c] = [registryIndex.runs EXCEPT ![r] = c]
      BY <1>1 DEF Registry!AddBegin, Registry!Acquire, Registry!Goto, RegistryInv, RegistryTypes
    <3>3. registryNew'[c][r] = c
      BY <3>2 DEF RegistryInv, RegistryTypes, RegistryIndexes, RegistryEntries
    <3>4. QED
      BY <3>1, <3>2, <3>3 DEF RegistryAdds
  <2>4. ASSUME NEW a \in registryAcked', a[1] \notin registryTouched' PROVE RegistryKept(a[1], a[2])'
    BY <1>1, <2>4 DEF Registry!AddBegin, Registry!CanAdd, Registry!Acquire, Registry!Goto,
       RegistryInv, RegistryTypes, RegistryCoulds, RegistryKept
  <2>5. QED
    BY <2>1, <2>2, <2>3, <2>4 DEF RegistryInv
<1>2. ASSUME NEW c \in Clients, Registry!Publish(c) PROVE RegistryInv'
  <2>6. registryCould' \in RegistryCoulds
    BY <1>2, RegistryCouldBe DEF Registry!Publish, Registry!SetRun, Registry!Goto, RegistryInv,
       RegistryTypes, RegistryStates
  <2>7. registryIndex' \in registryCould'.index
    BY <1>2 DEF Registry!Publish, Registry!SetRun, Registry!Goto, RegistryInv, RegistryTypes,
       RegistryCoulds
  <2>1. RegistryTypes'
    BY <1>2, <2>6, <2>7 DEF Registry!Publish, Registry!SetRun, Registry!Goto, RegistryInv,
       RegistryTypes, RegistryStates, RegistryIndexes, RegistryEntries, RegistryManifests, RegistrySteps
  <2>2. \A d \in Clients : registryPc'[d] = "idle" => registryRun'[d] = Nil
    BY <1>2 DEF Registry!Publish, Registry!SetRun, Registry!Goto, RegistryInv, RegistryTypes
  <2>3. ASSUME NEW d \in Clients, registryRun'[d] # Nil, registryRun'[d] \notin registryTouched'
        PROVE  RegistryAdds(d, registryRun[d])'
    BY <1>2, <2>3 DEF Registry!Publish, Registry!SetRun, Registry!Goto, RegistryInv,
       RegistryTypes, RegistryCoulds, RegistryAdds
  <2>4. ASSUME NEW a \in registryAcked', a[1] \notin registryTouched' PROVE RegistryKept(a[1], a[2])'
    BY <1>2, <2>4 DEF Registry!Publish, Registry!SetRun, Registry!Goto, RegistryInv,
       RegistryTypes, RegistryCoulds, RegistryKept
  <2>5. QED
    BY <2>1, <2>2, <2>3, <2>4 DEF RegistryInv
<1>3. ASSUME NEW c \in Clients, Registry!PublishFails(c) PROVE RegistryInv'
  <2>1. RegistryTypes'
    BY <1>3 DEF Registry!PublishFails, Registry!Release, Registry!Goto, RegistryInv,
       RegistryTypes, RegistryCoulds, RegistryStates, RegistryIndexes, RegistryEntries, RegistryManifests, RegistrySteps
  <2>2. \A d \in Clients : registryPc'[d] = "idle" => registryRun'[d] = Nil
    BY <1>3 DEF Registry!PublishFails, Registry!Release, Registry!Goto, RegistryInv, RegistryTypes
  <2>3. ASSUME NEW d \in Clients, registryRun'[d] # Nil, registryRun'[d] \notin registryTouched'
        PROVE  RegistryAdds(d, registryRun[d])'
    BY <1>3, <2>3 DEF Registry!PublishFails, Registry!Release, Registry!Goto, RegistryInv,
       RegistryTypes, RegistryCoulds, RegistryAdds
  <2>4. ASSUME NEW a \in registryAcked', a[1] \notin registryTouched' PROVE RegistryKept(a[1], a[2])'
    BY <1>3, <2>4 DEF Registry!PublishFails, Registry!Release, Registry!Goto, RegistryInv,
       RegistryTypes, RegistryCoulds, RegistryKept
  <2>5. QED
    BY <2>1, <2>2, <2>3, <2>4 DEF RegistryInv
<1>4. ASSUME NEW c \in Clients, Registry!SyncRuns(c) PROVE RegistryInv'
  <2>6. registryCould' \in RegistryCoulds
    <3>1. [r \in Runs |-> Registry!Settled(r)] \in [Runs -> SUBSET RegistryStates]
      BY DEF Registry!Settled, RegistryInv, RegistryTypes, RegistryCoulds
    <3>2. QED
      BY <1>4, <3>1, RegistryCouldBe DEF Registry!SyncRuns, RegistryInv, RegistryTypes
  <2>7. registryIndex' \in registryCould'.index
    BY <1>4 DEF Registry!SyncRuns, Registry!Goto, Registry!Settled, Registry!Fault, RegistryInv,
       RegistryTypes, RegistryCoulds
  <2>1. RegistryTypes'
    BY <1>4, <2>6, <2>7 DEF Registry!SyncRuns, Registry!Goto, Registry!Settled, Registry!Fault,
       RegistryInv,
       RegistryTypes, RegistryStates, RegistryIndexes, RegistryEntries, RegistryManifests, RegistrySteps
  <2>2. \A d \in Clients : registryPc'[d] = "idle" => registryRun'[d] = Nil
    BY <1>4 DEF Registry!SyncRuns, Registry!Goto, Registry!Settled, Registry!Fault, RegistryInv,
       RegistryTypes
  <2>3. ASSUME NEW d \in Clients, registryRun'[d] # Nil, registryRun'[d] \notin registryTouched'
        PROVE  RegistryAdds(d, registryRun[d])'
    BY <1>4, <2>3 DEF Registry!SyncRuns, Registry!Goto, Registry!Settled, Registry!Fault,
       RegistryInv, RegistryTypes, RegistryCoulds, RegistryAdds
  <2>4. ASSUME NEW a \in registryAcked', a[1] \notin registryTouched' PROVE RegistryKept(a[1], a[2])'
    BY <1>4, <2>4 DEF Registry!SyncRuns, Registry!Goto, Registry!Settled, Registry!Fault,
       RegistryInv, RegistryTypes, RegistryCoulds, RegistryKept
  <2>5. QED
    BY <2>1, <2>2, <2>3, <2>4 DEF RegistryInv
<1>5. ASSUME NEW c \in Clients, Registry!ReplaceIndex(c) PROVE RegistryInv'
  <2>6. registryCould' \in RegistryCoulds
    BY <1>5, RegistryCouldBe DEF Registry!ReplaceIndex, Registry!Goto, RegistryInv, RegistryTypes,
       RegistryIndexes, RegistryEntries
  <2>7. registryIndex' \in registryCould'.index
    BY <1>5 DEF Registry!ReplaceIndex, Registry!Goto, RegistryInv, RegistryTypes, RegistryCoulds
  <2>1. RegistryTypes'
    BY <1>5, <2>6, <2>7 DEF Registry!ReplaceIndex, Registry!Goto, RegistryInv,
       RegistryTypes, RegistryStates, RegistryIndexes, RegistryEntries, RegistryManifests, RegistrySteps
  <2>2. \A d \in Clients : registryPc'[d] = "idle" => registryRun'[d] = Nil
    BY <1>5 DEF Registry!ReplaceIndex, Registry!Goto, RegistryInv, RegistryTypes
  <2>3. ASSUME NEW d \in Clients, registryRun'[d] # Nil, registryRun'[d] \notin registryTouched'
        PROVE  RegistryAdds(d, registryRun[d])'
    BY <1>5, <2>3 DEF Registry!ReplaceIndex, Registry!Goto, RegistryInv, RegistryTypes,
       RegistryCoulds, RegistryAdds
  <2>4. ASSUME NEW a \in registryAcked', a[1] \notin registryTouched' PROVE RegistryKept(a[1], a[2])'
    BY <1>5, <2>4 DEF Registry!ReplaceIndex, Registry!Goto, RegistryInv, RegistryTypes,
       RegistryCoulds, RegistryKept
  <2>5. QED
    BY <2>1, <2>2, <2>3, <2>4 DEF RegistryInv
<1>6. ASSUME NEW c \in Clients, Registry!ReplaceFails(c) PROVE RegistryInv'
  <2>6. registryCould' \in RegistryCoulds
    BY <1>6, RegistryCouldBe DEF Registry!ReplaceFails, Registry!Fault, Registry!Goto,
       Registry!Release, RegistryInv, RegistryTypes, RegistryStates
  <2>7. registryIndex' \in registryCould'.index
    BY <1>6 DEF Registry!ReplaceFails, Registry!Fault, Registry!Goto, Registry!Release,
       RegistryInv, RegistryTypes, RegistryCoulds
  <2>8. ASSUME registryRun[c] # Nil PROVE RegistryTypes'
    BY <1>6, <2>6, <2>7, <2>8 DEF Registry!ReplaceFails, Registry!Goto, RegistryInv, RegistryTypes,
       RegistrySteps
  <2>9. ASSUME registryRun[c] = Nil PROVE RegistryTypes'
    BY <1>6, <2>6, <2>7, <2>9 DEF Registry!ReplaceFails, Registry!Release, Registry!Goto,
       RegistryInv,
       RegistryTypes, RegistrySteps
  <2>1. RegistryTypes'
    BY <2>8, <2>9
  <2>2. \A d \in Clients : registryPc'[d] = "idle" => registryRun'[d] = Nil
    BY <1>6 DEF Registry!ReplaceFails, Registry!Fault, Registry!Goto, Registry!Release,
       RegistryInv, RegistryTypes
  <2>3. ASSUME NEW d \in Clients, registryRun'[d] # Nil, registryRun'[d] \notin registryTouched'
        PROVE  RegistryAdds(d, registryRun[d])'
    BY <1>6, <2>3 DEF Registry!ReplaceFails, Registry!Fault, Registry!Goto, Registry!Release,
       RegistryInv, RegistryTypes, RegistryCoulds, RegistryAdds
  <2>4. ASSUME NEW a \in registryAcked', a[1] \notin registryTouched' PROVE RegistryKept(a[1], a[2])'
    BY <1>6, <2>4 DEF Registry!ReplaceFails, Registry!Fault, Registry!Goto, Registry!Release,
       RegistryInv, RegistryTypes, RegistryCoulds, RegistryKept
  <2>5. QED
    BY <2>1, <2>2, <2>3, <2>4 DEF RegistryInv
<1>7. ASSUME NEW c \in Clients, Registry!SyncRoot(c) PROVE RegistryInv'
  <2>1. RegistryTypes'
    BY <1>7 DEF Registry!SyncRoot, Registry!Fault, Registry!Release, Registry!Goto, RegistryInv,
       RegistryTypes, RegistryCoulds, RegistryStates, RegistryIndexes, RegistryEntries, RegistryManifests, RegistrySteps
  <2>2. \A d \in Clients : registryPc'[d] = "idle" => registryRun'[d] = Nil
    BY <1>7 DEF Registry!SyncRoot, Registry!Fault, Registry!Release, Registry!Goto, RegistryInv,
       RegistryTypes
  <2>3. ASSUME NEW d \in Clients, registryRun'[d] # Nil, registryRun'[d] \notin registryTouched'
        PROVE  RegistryAdds(d, registryRun[d])'
    BY <1>7, <2>3 DEF Registry!SyncRoot, Registry!Fault, Registry!Release, Registry!Goto,
       RegistryInv, RegistryTypes, RegistryCoulds, RegistryAdds
  <2>4. ASSUME NEW a \in registryAcked', a[1] \notin registryTouched' PROVE RegistryKept(a[1], a[2])'
    <3>1. /\ registryPc[c] = "syncRoot" /\ registryPc' = [registryPc EXCEPT ![c] = "idle"]
          /\ UNCHANGED <<registryDirs, registryIndex, registryNew, registryTouched>>
          /\ registryCould' \in {registryCould, [registryCould EXCEPT !.index = {registryIndex}]}
          /\ \A d \in Clients : registryPc[d] # "idle" => d = c
      BY <1>7 DEF Registry!SyncRoot, Registry!Release, Registry!Goto, RegistryInv, RegistryTypes
    <3>2. \A d \in Clients : registryPc'[d] = "idle"
      BY <3>1 DEF RegistryInv, RegistryTypes
    <3>3. CASE a \in registryAcked
      BY <3>1, <3>2, <3>3, <2>4 DEF RegistryInv, RegistryTypes, RegistryCoulds, RegistryKept
    <3>4. CASE a \notin registryAcked
      <4>1. /\ a = <<registryRun[c], c>> /\ registryRun[c] # Nil /\ ~registryUnsure[c]
            /\ registryCould' = [registryCould EXCEPT !.index = {registryIndex}]
        BY <1>7, <2>4, <3>4 DEF Registry!SyncRoot, RegistryInv
      <4>2. RegistryAdds(c, a[1]) /\ a[1] \in Runs
        BY <4>1, <2>4, <3>1 DEF RegistryInv, RegistryTypes
      <4>3. QED
        BY <4>1, <4>2, <3>1, <3>2 DEF RegistryAdds, RegistryKept, RegistryInv, RegistryTypes,
           RegistryCoulds
    <3>5. QED
      BY <3>3, <3>4
  <2>5. QED
    BY <2>1, <2>2, <2>3, <2>4 DEF RegistryInv
<1>8. ASSUME NEW c \in Clients, Registry!Unlink(c) PROVE RegistryInv'
  <2>6. registryCould' \in RegistryCoulds
    <3>1. \/ registryCould' = registryCould
          \/ registryCould' = [registryCould EXCEPT !.dirs[registryRun[c]] = @ \cup {"empty"}]
          \/ registryCould' = [registryCould EXCEPT !.dirs[registryRun[c]] = @ \cup {"absent"}]
      BY <1>8 DEF Registry!Unlink, Registry!SetRun
    <3>2. {"empty", "absent"} \subseteq RegistryStates
      BY DEF RegistryStates
    <3>3. registryCould \in RegistryCoulds
      BY DEF RegistryInv, RegistryTypes
    <3>4. /\ [registryCould EXCEPT !.dirs[registryRun[c]] = @ \cup {"empty"}] \in RegistryCoulds
          /\ [registryCould EXCEPT !.dirs[registryRun[c]] = @ \cup {"absent"}] \in RegistryCoulds
      <4> HIDE DEF RegistryCoulds, RegistryStates
      <4>1. QED
        BY <3>2, <3>3, RegistryCouldBe
    <3>5. QED
      BY <3>1, <3>3, <3>4
  <2>7. registryIndex' \in registryCould'.index
    BY <1>8 DEF Registry!Unlink, Registry!SetRun, Registry!Goto, Registry!Fault, Registry!Release,
       RegistryInv, RegistryTypes, RegistryCoulds
  <2>8. registryDirs' \in [Runs -> RegistryStates]
    BY <1>8 DEF Registry!Unlink, Registry!SetRun, RegistryInv, RegistryTypes, RegistryStates
  <2>9. \A d \in Clients : registryPc'[d] # "idle" => registryLock' = d
    BY <1>8 DEF Registry!Unlink, Registry!Goto, Registry!Release, RegistryInv, RegistryTypes
  <2>10. /\ registryPc' \in [Clients -> RegistrySteps] /\ registryRun' \in [Clients -> Runs \cup {Nil}]
         /\ registryUnsure' \in [Clients -> BOOLEAN]
    BY <1>8 DEF Registry!Unlink, Registry!Goto, Registry!Release, RegistryInv, RegistryTypes,
       RegistrySteps
  <2>1. RegistryTypes'
    BY <1>8, <2>6, <2>7, <2>8, <2>9, <2>10 DEF Registry!Unlink, RegistryInv, RegistryTypes
  <2>2. \A d \in Clients : registryPc'[d] = "idle" => registryRun'[d] = Nil
    BY <1>8 DEF Registry!Unlink, Registry!SetRun, Registry!Goto, Registry!Fault, Registry!Release,
       RegistryInv, RegistryTypes
  <2>3. ASSUME NEW d \in Clients, registryRun'[d] # Nil, registryRun'[d] \notin registryTouched'
        PROVE  RegistryAdds(d, registryRun[d])'
    BY <1>8, <2>3 DEF Registry!Unlink, Registry!SetRun, Registry!Goto, Registry!Fault,
       Registry!Release, RegistryInv, RegistryTypes, RegistryCoulds, RegistryAdds
  <2>4. ASSUME NEW a \in registryAcked', a[1] \notin registryTouched' PROVE RegistryKept(a[1], a[2])'
    BY <1>8, <2>4 DEF Registry!Unlink, Registry!SetRun, Registry!Goto, Registry!Fault,
       Registry!Release, RegistryInv, RegistryTypes, RegistryCoulds, RegistryKept
  <2>5. QED
    BY <2>1, <2>2, <2>3, <2>4 DEF RegistryInv
<1>9. ASSUME NEW c \in Clients, Registry!Rmdir(c) PROVE RegistryInv'
  <2>6. registryCould' \in RegistryCoulds
    <3>1. \/ registryCould' = registryCould
          \/ registryCould' = [registryCould EXCEPT !.dirs[registryRun[c]] = @ \cup {"empty"}]
          \/ registryCould' = [registryCould EXCEPT !.dirs[registryRun[c]] = @ \cup {"absent"}]
      BY <1>9 DEF Registry!Rmdir, Registry!SetRun
    <3>2. {"empty", "absent"} \subseteq RegistryStates
      BY DEF RegistryStates
    <3>3. registryCould \in RegistryCoulds
      BY DEF RegistryInv, RegistryTypes
    <3>4. /\ [registryCould EXCEPT !.dirs[registryRun[c]] = @ \cup {"empty"}] \in RegistryCoulds
          /\ [registryCould EXCEPT !.dirs[registryRun[c]] = @ \cup {"absent"}] \in RegistryCoulds
      <4> HIDE DEF RegistryCoulds, RegistryStates
      <4>1. QED
        BY <3>2, <3>3, RegistryCouldBe
    <3>5. QED
      BY <3>1, <3>3, <3>4
  <2>7. registryIndex' \in registryCould'.index
    BY <1>9 DEF Registry!Rmdir, Registry!SetRun, Registry!Fault, Registry!Release, Registry!Goto,
       RegistryInv, RegistryTypes, RegistryCoulds
  <2>1. RegistryTypes'
    BY <1>9, <2>6, <2>7 DEF Registry!Rmdir, Registry!SetRun, Registry!Fault, Registry!Release,
       Registry!Goto, RegistryInv,
       RegistryTypes, RegistryStates, RegistryIndexes, RegistryEntries, RegistryManifests, RegistrySteps
  <2>2. \A d \in Clients : registryPc'[d] = "idle" => registryRun'[d] = Nil
    BY <1>9 DEF Registry!Rmdir, Registry!SetRun, Registry!Fault, Registry!Release, Registry!Goto,
       RegistryInv, RegistryTypes
  <2>3. ASSUME NEW d \in Clients, registryRun'[d] # Nil, registryRun'[d] \notin registryTouched'
        PROVE  RegistryAdds(d, registryRun[d])'
    BY <1>9, <2>3 DEF Registry!Rmdir, Registry!SetRun, Registry!Fault, Registry!Release,
       Registry!Goto, RegistryInv, RegistryTypes, RegistryCoulds, RegistryAdds
  <2>4. ASSUME NEW a \in registryAcked', a[1] \notin registryTouched' PROVE RegistryKept(a[1], a[2])'
    BY <1>9, <2>4 DEF Registry!Rmdir, Registry!SetRun, Registry!Fault, Registry!Release,
       Registry!Goto, RegistryInv, RegistryTypes, RegistryCoulds, RegistryKept
  <2>5. QED
    BY <2>1, <2>2, <2>3, <2>4 DEF RegistryInv
<1>10. ASSUME NEW c \in Clients, Registry!Rebuild(c) PROVE RegistryInv'
  <2>1. RegistryTypes'
    BY <1>10 DEF Registry!Rebuild, Registry!Acquire, Registry!Rebuildable, Registry!Goto,
       Registry!Manifests, RegistryInv,
       RegistryTypes, RegistryCoulds, RegistryStates, RegistryIndexes, RegistryEntries, RegistryManifests, RegistrySteps
  <2>2. \A d \in Clients : registryPc'[d] = "idle" => registryRun'[d] = Nil
    BY <1>10 DEF Registry!Rebuild, Registry!Acquire, Registry!Rebuildable, Registry!Goto,
       Registry!Manifests, RegistryInv, RegistryTypes
  <2>3. ASSUME NEW d \in Clients, registryRun'[d] # Nil, registryRun'[d] \notin registryTouched'
        PROVE  RegistryAdds(d, registryRun[d])'
    BY <1>10, <2>3 DEF Registry!Rebuild, Registry!Acquire, Registry!Rebuildable, Registry!Goto,
       Registry!Manifests, RegistryInv, RegistryTypes, RegistryCoulds, RegistryAdds
  <2>4. ASSUME NEW a \in registryAcked', a[1] \notin registryTouched' PROVE RegistryKept(a[1], a[2])'
    BY <1>10, <2>4 DEF Registry!Rebuild, Registry!Acquire, Registry!Rebuildable, Registry!Goto,
       Registry!Manifests, RegistryInv, RegistryTypes, RegistryCoulds, RegistryKept
  <2>5. QED
    BY <2>1, <2>2, <2>3, <2>4 DEF RegistryInv
<1>11. ASSUME NEW c \in Clients, Registry!Kill(c) PROVE RegistryInv'
  <2>1. RegistryTypes'
    BY <1>11 DEF Registry!Kill, Registry!Stop, Registry!Release, Registry!Goto, RegistryInv,
       RegistryTypes, RegistryCoulds, RegistryStates, RegistryIndexes, RegistryEntries, RegistryManifests, RegistrySteps
  <2>2. \A d \in Clients : registryPc'[d] = "idle" => registryRun'[d] = Nil
    BY <1>11 DEF Registry!Kill, Registry!Stop, Registry!Release, Registry!Goto, RegistryInv,
       RegistryTypes
  <2>3. ASSUME NEW d \in Clients, registryRun'[d] # Nil, registryRun'[d] \notin registryTouched'
        PROVE  RegistryAdds(d, registryRun[d])'
    BY <1>11, <2>3 DEF Registry!Kill, Registry!Stop, Registry!Release, Registry!Goto, RegistryInv,
       RegistryTypes, RegistryCoulds, RegistryAdds
  <2>4. ASSUME NEW a \in registryAcked', a[1] \notin registryTouched' PROVE RegistryKept(a[1], a[2])'
    BY <1>11, <2>4 DEF Registry!Kill, Registry!Stop, Registry!Release, Registry!Goto, RegistryInv,
       RegistryTypes, RegistryCoulds, RegistryKept
  <2>5. QED
    BY <2>1, <2>2, <2>3, <2>4 DEF RegistryInv
<1>12. ASSUME Registry!PowerLoss PROVE RegistryInv'
  <2>1. RegistryTypes'
    BY <1>12 DEF Registry!PowerLoss, Registry!Stop, RegistryInv,
       RegistryTypes, RegistryCoulds, RegistryStates, RegistryIndexes, RegistryEntries, RegistryManifests, RegistrySteps
  <2>2. \A d \in Clients : registryPc'[d] = "idle" => registryRun'[d] = Nil
    BY <1>12 DEF Registry!PowerLoss, Registry!Stop, RegistryInv, RegistryTypes
  <2>3. ASSUME NEW d \in Clients, registryRun'[d] # Nil, registryRun'[d] \notin registryTouched'
        PROVE  RegistryAdds(d, registryRun[d])'
    BY <1>12, <2>3 DEF Registry!PowerLoss, Registry!Stop, RegistryInv, RegistryTypes,
       RegistryCoulds, RegistryAdds
  <2>4. ASSUME NEW a \in registryAcked', a[1] \notin registryTouched' PROVE RegistryKept(a[1], a[2])'
    BY <1>12, <2>4 DEF Registry!PowerLoss, Registry!Stop, RegistryInv, RegistryTypes,
       RegistryCoulds, RegistryKept
  <2>5. QED
    BY <2>1, <2>2, <2>3, <2>4 DEF RegistryInv
<1>13. ASSUME NEW r \in Runs, Registry!Damage(r) PROVE RegistryInv'
  <2>6. registryCould' \in RegistryCoulds
    <3>1. PICK state \in {"edited", "broken", "absent"} :
             registryCould' = [registryCould EXCEPT !.dirs[r] = {state}]
      BY <1>13 DEF Registry!Damage
    <3>2. state \in RegistryStates /\ registryCould \in RegistryCoulds
      BY DEF RegistryStates, RegistryInv, RegistryTypes
    <3>3. [registryCould EXCEPT !.dirs[r] = {state}] \in RegistryCoulds
      BY <3>2, RegistryCouldBe
    <3>4. QED
      BY <3>1, <3>3
  <2>7. registryIndex' \in registryCould'.index
    BY <1>13 DEF Registry!Damage, RegistryInv, RegistryTypes, RegistryCoulds
  <2>1. RegistryTypes'
    BY <1>13, <2>6, <2>7 DEF Registry!Damage, RegistryInv,
       RegistryTypes, RegistryStates, RegistryIndexes, RegistryEntries, RegistryManifests, RegistrySteps
  <2>2. \A d \in Clients : registryPc'[d] = "idle" => registryRun'[d] = Nil
    BY <1>13 DEF Registry!Damage, RegistryInv, RegistryTypes
  <2>3. ASSUME NEW d \in Clients, registryRun'[d] # Nil, registryRun'[d] \notin registryTouched'
        PROVE  RegistryAdds(d, registryRun[d])'
    BY <1>13, <2>3 DEF Registry!Damage, RegistryInv, RegistryTypes, RegistryCoulds, RegistryAdds
  <2>4. ASSUME NEW a \in registryAcked', a[1] \notin registryTouched' PROVE RegistryKept(a[1], a[2])'
    BY <1>13, <2>4 DEF Registry!Damage, RegistryInv, RegistryTypes, RegistryCoulds, RegistryKept
  <2>5. QED
    BY <2>1, <2>2, <2>3, <2>4 DEF RegistryInv
<1>14. ASSUME Registry!CorruptIndex PROVE RegistryInv'
  <2>6. registryCould' \in RegistryCoulds
    BY <1>14, RegistryCouldBe DEF Registry!CorruptIndex, RegistryInv, RegistryTypes,
       RegistryIndexes, RegistryEntries
  <2>7. registryIndex' \in registryCould'.index
    BY <1>14 DEF Registry!CorruptIndex, RegistryInv, RegistryTypes, RegistryCoulds
  <2>1. RegistryTypes'
    BY <1>14, <2>6, <2>7 DEF Registry!CorruptIndex, RegistryInv,
       RegistryTypes, RegistryStates, RegistryIndexes, RegistryEntries, RegistryManifests, RegistrySteps
  <2>2. \A d \in Clients : registryPc'[d] = "idle" => registryRun'[d] = Nil
    BY <1>14 DEF Registry!CorruptIndex, RegistryInv, RegistryTypes
  <2>3. ASSUME NEW d \in Clients, registryRun'[d] # Nil, registryRun'[d] \notin registryTouched'
        PROVE  RegistryAdds(d, registryRun[d])'
    BY <1>14, <2>3 DEF Registry!CorruptIndex, RegistryInv, RegistryTypes, RegistryCoulds,
       RegistryAdds
  <2>8. registryIndex'.ok = FALSE /\ registryCould'.dirs = registryCould.dirs
    BY <1>14 DEF Registry!CorruptIndex, RegistryInv, RegistryTypes, RegistryIndexes, RegistryCoulds
  <2>9. \A i \in registryCould'.index : i \in registryCould.index \/ i.ok = FALSE
    BY <1>14, <2>8 DEF Registry!CorruptIndex, RegistryInv, RegistryTypes, RegistryCoulds
  <2>4. ASSUME NEW a \in registryAcked', a[1] \notin registryTouched' PROVE RegistryKept(a[1], a[2])'
    BY <1>14, <2>4, <2>8, <2>9 DEF Registry!CorruptIndex, RegistryInv, RegistryTypes, RegistryKept
  <2>5. QED
    BY <2>1, <2>2, <2>3, <2>4 DEF RegistryInv
<1>15. ASSUME UNCHANGED Registry!vars PROVE RegistryInv'
  <2>1. RegistryTypes'
    BY <1>15 DEF Registry!vars, RegistryInv,
       RegistryTypes, RegistryCoulds, RegistryStates, RegistryIndexes, RegistryEntries, RegistryManifests, RegistrySteps
  <2>2. \A d \in Clients : registryPc'[d] = "idle" => registryRun'[d] = Nil
    BY <1>15 DEF Registry!vars, RegistryInv, RegistryTypes
  <2>3. ASSUME NEW d \in Clients, registryRun'[d] # Nil, registryRun'[d] \notin registryTouched'
        PROVE  RegistryAdds(d, registryRun[d])'
    BY <1>15, <2>3 DEF Registry!vars, RegistryInv, RegistryTypes, RegistryCoulds, RegistryAdds
  <2>4. ASSUME NEW a \in registryAcked', a[1] \notin registryTouched' PROVE RegistryKept(a[1], a[2])'
    BY <1>15, <2>4 DEF Registry!vars, RegistryInv, RegistryTypes, RegistryCoulds, RegistryKept
  <2>5. QED
    BY <2>1, <2>2, <2>3, <2>4 DEF RegistryInv
<1>16. ASSUME NEW c \in Clients, NEW r \in Runs, Registry!Read(c, r) PROVE RegistryInv'
  <2>1. RegistryTypes'
    BY <1>16 DEF Registry!Read, RegistryInv,
       RegistryTypes, RegistryCoulds, RegistryStates, RegistryIndexes, RegistryEntries, RegistryManifests, RegistrySteps
  <2>2. \A d \in Clients : registryPc'[d] = "idle" => registryRun'[d] = Nil
    BY <1>16 DEF Registry!Read, RegistryInv, RegistryTypes
  <2>3. ASSUME NEW d \in Clients, registryRun'[d] # Nil, registryRun'[d] \notin registryTouched'
        PROVE  RegistryAdds(d, registryRun[d])'
    BY <1>16, <2>3 DEF Registry!Read, RegistryInv, RegistryTypes, RegistryCoulds, RegistryAdds
  <2>4. ASSUME NEW a \in registryAcked', a[1] \notin registryTouched' PROVE RegistryKept(a[1], a[2])'
    BY <1>16, <2>4 DEF Registry!Read, RegistryInv, RegistryTypes, RegistryCoulds, RegistryKept
  <2>5. QED
    BY <2>1, <2>2, <2>3, <2>4 DEF RegistryInv
<1>17. QED
  BY <1>1, <1>2, <1>3, <1>4, <1>5, <1>6, <1>7, <1>8, <1>9, <1>10, <1>11, <1>12, <1>13,
     <1>14, <1>15, <1>16 DEF Registry!Next
LEMMA BatchConstants == NProfiles \in Nat /\ NProfiles > 0
BY BatchAssumption DEF Batch!ConstantsAssumption

LEMMA BatchStart == Batch!Init => BatchInv
<1> SUFFICES ASSUME Batch!Init PROVE BatchInv
  OBVIOUS
<1>1. BatchProcesses
  BY DEF Batch!Init, BatchProcesses, BatchDead, Batch!Alive
<1>2. batchPublished \in 0..NProfiles
  BY BatchConstants DEF Batch!Init
<1>4. BatchProgress
  BY <1>2, Zenon DEF Batch!Init, BatchProgress, BatchDead, Batch!Alive
<1>3. QED
  BY <1>1, <1>4 DEF BatchInv

LEMMA BatchMoves == ASSUME BatchInv, [Batch!Next]_(Batch!vars) PROVE BatchInv'
<1>0. BatchInv /\ [Batch!Next]_(Batch!vars)
  OBVIOUS
<1> USE DEF BatchInv, BatchProcesses, BatchProgress, BatchDead, Batch!Alive,
        Batch!control, Batch!cluster, Batch!stopping,
        Batch!progress, Batch!world
<1>1. CASE UNCHANGED Batch!vars
  BY <1>1 DEF Batch!vars
<1>2. CASE Batch!Prepare
  BY <1>2 DEF Batch!Prepare
<1>3. CASE Batch!Spawn
  BY <1>3 DEF Batch!Spawn
<1>4. CASE Batch!Spawned
  BY <1>4 DEF Batch!Spawned
<1>5. CASE Batch!Bind
  BY <1>5 DEF Batch!Bind
<1>6. CASE Batch!Ready
  BY <1>6 DEF Batch!Ready, Batch!Fail, Batch!Starting, Batch!Using
<1>7. CASE Batch!ReadyTimeout
  BY <1>7 DEF Batch!ReadyTimeout, Batch!Fail, Batch!Starting, Batch!Using
<1>8. CASE \E role \in Batch!Roles : Batch!SeenReady(role)
  BY <1>8 DEF Batch!SeenReady
<1>9. CASE Batch!Ingest
  BY <1>9 DEF Batch!Ingest
<1>10. CASE Batch!ProfileBegins
  BY <1>10 DEF Batch!ProfileBegins
<1>11. CASE Batch!ProfileEnds
  BY <1>11, BatchConstants DEF Batch!ProfileEnds
<1>12. CASE Batch!ProfilesDone
  <2>1. batchPublished = NProfiles
    BY <1>12, BatchConstants DEF Batch!ProfilesDone
  <2>2. BatchProcesses'
    BY <1>12 DEF Batch!ProfilesDone
  <2>3. BatchProgress'
    BY <1>12, <2>1 DEF Batch!ProfilesDone
  <2>4. QED
    BY <2>2, <2>3
<1>13. CASE Batch!Final
  BY <1>13 DEF Batch!Final
<1>14. CASE Batch!Write
  BY <1>14 DEF Batch!Write
<1>15. CASE Batch!StepFails
  BY <1>15 DEF Batch!StepFails, Batch!Fail, Batch!Starting, Batch!Using
<1>16. CASE Batch!Interrupt
  BY <1>16 DEF Batch!Interrupt, Batch!Fail, Batch!Starting, Batch!Using
<1>17. CASE Batch!Terminate
  BY <1>17 DEF Batch!Terminate, Batch!Stopping
<1>18. CASE Batch!Kill
  <2>1. /\ batchPc = "undoing" => batchPc' = "undoing last"
        /\ batchPc = "retire" => batchPc' = "retire last"
        /\ batchPc = "closing" => batchPc' = "closing last"
        /\ batchPc \in {"undoing", "retire", "closing"}
    BY <1>18 DEF Batch!Kill, Batch!Stopping, Batch!LastOf
  <2>2. \A role \in Batch!Roles : Batch!Alive(role)' => Batch!Alive(role)
    BY <1>18 DEF Batch!Kill
  <2>6. batchProc' \in [Batch!Roles -> {"none", "loading", "serving", "terminated", "killed", "dead"}]
    BY <1>18 DEF Batch!Kill
  <2>3. BatchProcesses'
    <3>1. batchCut' \/ \A role \in Batch!Roles : Batch!Alive(role)' => role \in batchOwned'
      BY <1>18, <2>2 DEF Batch!Kill
    <3>2. QED
      BY <1>18, <2>1, <2>6, <3>1, Zenon DEF Batch!Kill
  <2>4. BatchProgress'
    BY <1>18, <2>1, <2>2 DEF Batch!Kill
  <2>5. QED
    BY <2>3, <2>4
<1>19. CASE Batch!Undone
  BY <1>19 DEF Batch!Undone, Batch!Stopped
<1>20. CASE Batch!Retired
  BY <1>20 DEF Batch!Retired, Batch!Stopped, Batch!Roles
<1>21. CASE Batch!Closed
  BY <1>21 DEF Batch!Closed, Batch!Stopped
<1>22. CASE Batch!SpawnInterrupted
  BY <1>22 DEF Batch!SpawnInterrupted, Batch!Fail, Batch!Starting, Batch!Using
<1>23. CASE Batch!StopInterrupted
  BY <1>23 DEF Batch!StopInterrupted
<1>24. ASSUME NEW role \in Batch!Roles, Batch!Listen(role) PROVE BatchInv'
  <2>1. \A r \in Batch!Roles : Batch!Alive(r)' => Batch!Alive(r)
    BY <1>24 DEF Batch!Listen
  <2>2. BatchProcesses'
    BY <1>24, <2>1 DEF Batch!Listen
  <2>3. BatchProgress'
    BY <1>24, <2>1 DEF Batch!Listen
  <2>4. QED
    BY <2>2, <2>3
<1>25. ASSUME NEW role \in Batch!Roles, Batch!Die(role) PROVE BatchInv'
  <2>1. \A r \in Batch!Roles : Batch!Alive(r)' => Batch!Alive(r)
    BY <1>25 DEF Batch!Die
  <2>2. BatchProcesses'
    BY <1>25, <2>1 DEF Batch!Die
  <2>3. BatchProgress'
    BY <1>25, <2>1 DEF Batch!Die
  <2>4. QED
    BY <2>2, <2>3
<1>26. CASE Batch!TakePort
  BY <1>26 DEF Batch!TakePort
<1>27. CASE Batch!Change
  BY <1>27 DEF Batch!Change
<1>28. QED
  BY <1>1, <1>2, <1>3, <1>4, <1>5, <1>6, <1>7, <1>8, <1>9, <1>10, <1>11, <1>12, <1>13,
     <1>14, <1>15, <1>16, <1>17, <1>18, <1>19, <1>20, <1>21, <1>22, <1>23, <1>24, <1>25,
     <1>26, <1>27 DEF Batch!Next, Batch!Main, Batch!Signals, Batch!World
-----------------------------------------------------------------------------
(* The review *)

LEMMA ReviewConstants ==
  /\ {"annotations", "example", "events"} \cap Extras = {} /\ "primary" \notin Extras
  /\ {MaxExtra, MaxSaves, MaxReviewFaults} \subseteq Nat
BY ReviewAssumption DEF Review!ConstantsAssumption

\* The directories on the way to an event, and that they are those above one another.
LEMMA ReviewWays ==
  ASSUME NEW e \in Review!Events
  PROVE  /\ Len(Review!Way(e)) = IF e = "primary" THEN 2 ELSE 4
         /\ Review!Way(e)[1] = "annotations" /\ Review!Way(e)[2] = "example"
         /\ e # "primary" => Review!Way(e)[3] = "events" /\ Review!Way(e)[4] = e
         /\ \A k \in 1..Len(Review!Way(e)) : Review!Way(e)[k] \in Review!Directories
BY DEF Review!Way, Review!Events, Review!Directories

LEMMA ReviewStart == Review!Init => ReviewInv
<1> SUFFICES ASSUME Review!Init PROVE ReviewInv
  OBVIOUS
<1>1. Review!Idle \in ReviewWorks
  BY DEF Review!Idle, ReviewWorks, Review!Events, Review!Steps
<1>2. ReviewTypes
  BY <1>1 DEF Review!Init, ReviewTypes, Review!Directories
<1>3. \A p \in Servers : reviewWork[p].at = "idle"
  BY DEF Review!Init, Review!Idle
<1>4. /\ \A p, q \in Review!Locked : p = q
      /\ \A p \in Servers : ReviewGoes(p)
  BY <1>3 DEF Review!Locked, ReviewGoes
<1>5. reviewAcked = {} /\ reviewVanished = {}
  BY DEF Review!Init
<1>6. QED
  BY <1>2, <1>4, <1>5 DEF ReviewInv

\* What a step of one server keeps, if it only adds: a directory stays synced, an
\* answer stays where it is, and answers are added only by the holder of the lock.
LEMMA ReviewAdds ==
  ASSUME ReviewInv, NEW p \in Servers, ReviewTypes',
         \A q \in Servers \ {p} : reviewWork'[q] = reviewWork[q],
         \A d \in Review!Directories : reviewDirs[d] = "synced" => reviewDirs'[d] = "synced",
         \A e \in Review!Events :
            /\ Len(reviewFiles[e]) <= Len(reviewFiles'[e])
            /\ \A n \in 1..Len(reviewFiles[e]) : reviewFiles'[e][n] = reviewFiles[e][n]
            /\ reviewSynced[e] <= reviewSynced'[e],
         reviewFiles' = reviewFiles \/ p \in Review!Locked,
         p \in Review!Locked' => Review!Locked \subseteq {p},
         ReviewGoes(p)', reviewVanished' = reviewVanished,
         \A a \in reviewAcked' :
            \/ a \in reviewAcked
            \/ /\ a.event \in Review!Events /\ SafelyStored(a)'
               /\ a.root => reviewDirs'["annotations"] = "synced"
  PROVE  ReviewInv'
<1>1. ASSUME NEW e \in Review!Events, NEW n, n <= Len(Review!Way(e)), n \in Nat, Durable(e, n)
      PROVE  Durable(e, n)'
  <2>1. \A k \in 2..n : Review!Way(e)[k] \in Review!Directories
    BY <1>1, ReviewWays
  <2>2. QED
    BY <1>1, <2>1 DEF Durable
<1>2. ASSUME NEW e \in Review!Events, NEW n, NEW i, Stored(e, n, i) PROVE Stored(e, n, i)'
  <2>1. Len(reviewFiles[e]) \in Nat /\ Len(reviewFiles'[e]) \in Nat
    BY DEF ReviewInv, ReviewTypes
  <2>2. n \in 1..Len(reviewFiles[e]) /\ reviewFiles[e][n].id = i
    BY <1>2 DEF Stored
  <2>3. n \in 1..Len(reviewFiles'[e]) /\ reviewFiles'[e][n] = reviewFiles[e][n]
    BY <2>1, <2>2
  <2>4. QED
    BY <2>2, <2>3 DEF Stored
<1>3. \A e \in Review!Events : Len(Review!Way(e)) \in Nat
  BY ReviewWays
<1>4. "annotations" \in Review!Directories
  BY DEF Review!Directories
<1>5. \A q, r \in Review!Locked' : q = r
  BY DEF ReviewInv, Review!Locked
<1>6. ASSUME NEW q \in Servers, q # p PROVE ReviewGoes(q)'
  <2>1. reviewWork'[q] = reviewWork[q] /\ reviewWork[q] \in ReviewWorks /\ ReviewGoes(q)
    BY <1>6 DEF ReviewInv, ReviewTypes
  <2>2. reviewWork[q].event \in Review!Events
    BY <2>1 DEF ReviewWorks
  <2> DEFINE w == reviewWork[q]
             way == Len(Review!Way(w.event))
  <2>3. w.at \in {"make", "sync", "write", "link"} => reviewFiles' = reviewFiles
    BY <1>6 DEF Review!Locked, ReviewInv
  <2>4. w.at \in {"make", "sync"} => w.level \in 2..way /\ Durable(w.event, w.level - 1)'
    BY <1>1, <1>3, <2>1, <2>2 DEF ReviewGoes
  <2>5. w.at \in {"write", "link", "settle", "tidy"} => Durable(w.event, way)'
    BY <1>1, <1>3, <2>1, <2>2 DEF ReviewGoes
  <2>6. w.at \in {"settle", "tidy"} => Stored(w.event, w.revision, w.id)'
    BY <1>2, <2>1, <2>2 DEF ReviewGoes
  <2>7. w.at = "tidy" => w.revision <= reviewSynced'[w.event]
    <3>1. reviewSynced[w.event] \in Nat /\ reviewSynced'[w.event] \in Nat
      BY <2>2 DEF ReviewInv, ReviewTypes
    <3>2. w.revision \in Nat /\ reviewSynced[w.event] <= reviewSynced'[w.event]
      BY <2>1, <2>2 DEF ReviewWorks
    <3>3. w.at = "tidy" => w.revision <= reviewSynced[w.event]
      BY <2>1 DEF ReviewGoes
    <3>4. QED
      BY <3>1, <3>2, <3>3
  <2>8. QED
    BY <2>1, <2>3, <2>4, <2>5, <2>6, <2>7 DEF ReviewGoes, Durable, Stored
<1>7. ASSUME NEW a \in reviewAcked', a \in reviewAcked
      PROVE  /\ a.event \in Review!Events
             /\ a.root => reviewDirs'["annotations"] = "synced"
             /\ a \notin reviewVanished => SafelyStored(a)'
  <2>1. a.event \in Review!Events /\ (a.root => reviewDirs'["annotations"] = "synced")
    BY <1>4, <1>7 DEF ReviewInv
  <2>2. ASSUME a \notin reviewVanished PROVE SafelyStored(a)'
    <3>1. /\ Stored(a.event, a.revision, a.id) /\ a.revision <= reviewSynced[a.event]
          /\ Durable(a.event, Len(Review!Way(a.event)))
      BY <1>7, <2>2 DEF ReviewInv, SafelyStored
    <3>2. Stored(a.event, a.revision, a.id)' /\ Durable(a.event, Len(Review!Way(a.event)))'
      BY <1>1, <1>2, <1>3, <2>1, <3>1
    <3>3. a.revision <= reviewSynced'[a.event]
      BY <2>1, <3>1 DEF ReviewInv, ReviewTypes, Stored
    <3>4. QED
      BY <3>2, <3>3 DEF SafelyStored, Durable, Stored
  <2>3. QED
    BY <2>1, <2>2
<1>9. \A a \in reviewAcked' :
         /\ a.event \in Review!Events
         /\ a.root => reviewDirs'["annotations"] = "synced"
         /\ a \notin reviewVanished' => SafelyStored(a)'
  BY <1>7
<1>8. QED
  BY <1>5, <1>6, <1>9 DEF ReviewInv, SafelyStored, Durable, Stored

\* A step of one server that leaves the directories and the answers alone.
LEMMA ReviewGoesOn ==
  ASSUME ReviewInv, NEW p \in Servers, NEW w \in ReviewWorks,
         reviewWork' = [reviewWork EXCEPT ![p] = w],
         UNCHANGED <<reviewDirs, reviewFiles, reviewSynced, reviewAcked, reviewVanished>>, reviewSaves' \in Nat,
         p \in Review!Locked' => Review!Locked \subseteq {p},
         ReviewGoes(p)'
  PROVE  ReviewInv'
<1>1. ReviewTypes'
  BY DEF ReviewInv, ReviewTypes
<1>2. \A q \in Servers \ {p} : reviewWork'[q] = reviewWork[q]
  BY DEF ReviewInv, ReviewTypes
<1>3. \A e \in Review!Events :
         /\ Len(reviewFiles[e]) <= Len(reviewFiles'[e])
         /\ \A n \in 1..Len(reviewFiles[e]) : reviewFiles'[e][n] = reviewFiles[e][n]
         /\ reviewSynced[e] <= reviewSynced'[e]
  BY DEF ReviewInv, ReviewTypes
<1>4. QED
  BY <1>1, <1>2, <1>3, ReviewAdds

LEMMA ReviewIdle == ASSUME ReviewInv PROVE Review!Idle \in ReviewWorks
BY DEF Review!Idle, ReviewWorks, Review!Events, Review!Steps

\* A server that has answered is in no save.
LEMMA ReviewAnswers ==
  ASSUME ReviewInv, NEW p \in Servers, Review!Answer(p),
         UNCHANGED <<reviewDirs, reviewFiles, reviewSynced, reviewAcked, reviewVanished>>, reviewSaves' \in Nat
  PROVE  ReviewInv'
<1>1. reviewWork'[p] = Review!Idle /\ Review!Idle.at = "idle"
  BY DEF Review!Answer, Review!Idle, ReviewInv, ReviewTypes
<1>2. p \notin Review!Locked' /\ ReviewGoes(p)'
  BY <1>1 DEF Review!Locked, ReviewGoes
<1>3. QED
  BY <1>2, ReviewIdle, ReviewGoesOn DEF Review!Answer

LEMMA ReviewMoves == ASSUME ReviewInv, [Review!Next]_(Review!vars) PROVE ReviewInv'
<1> USE DEF Review!At, Review!Go
<1>0. /\ reviewWork \in [Servers -> ReviewWorks] /\ reviewSaves \in Nat
      /\ reviewDirs \in [Review!Directories -> {"absent", "loose", "synced"}]
      /\ "annotations" \in Review!Directories
  BY DEF ReviewInv, ReviewTypes, Review!Directories
<1>1. ASSUME NEW p \in Servers, NEW event \in Review!Events, Review!Ask(p, event) PROVE ReviewInv'
  <2>1. PICK expected \in {n \in 0..Len(reviewFiles[event]) : n + 1 >= Len(reviewFiles[event])} :
           reviewWork' = [reviewWork EXCEPT ![p] =
              [Review!Idle EXCEPT !.event = event, !.expected = expected, !.id = reviewSaves + 1, !.at = "look"]]
    BY <1>1 DEF Review!Ask
  <2> DEFINE w == [Review!Idle EXCEPT !.event = event, !.expected = expected, !.id = reviewSaves + 1, !.at = "look"]
  <2>2. w \in ReviewWorks /\ w.at = "look"
    <3>1. expected \in Nat
      BY DEF ReviewInv, ReviewTypes
    <3>3. PICK n \in Nat : n = reviewSaves + 1
      BY <1>0
    <3>4. /\ "primary" \in Review!Events /\ "look" \in Review!Steps
          /\ 0 \in Nat /\ FALSE \in BOOLEAN
      BY DEF Review!Events, Review!Steps
    <3>2. w = [Review!Idle EXCEPT !.event = event, !.expected = expected, !.id = n, !.at = "look"]
      BY <3>3
    <3> HIDE DEF w
    <3>5. w = [event |-> event, expected |-> expected, revision |-> 0, id |-> n,
               level |-> 0, whole |-> FALSE, at |-> "look"]
      BY <3>2 DEF Review!Idle
    <3>6. QED
      BY <3>1, <3>3, <3>4, <3>5, Zenon DEF ReviewWorks
  <2> HIDE DEF w
  <2>3. reviewWork' = [reviewWork EXCEPT ![p] = w]
    BY <2>1 DEF w
  <2>4. reviewWork'[p].at = "look"
    BY <1>0, <2>2, <2>3
  <2>5. p \notin Review!Locked' /\ ReviewGoes(p)'
    BY <2>4 DEF Review!Locked, ReviewGoes
  <2>6. /\ UNCHANGED <<reviewDirs, reviewFiles, reviewSynced, reviewAcked, reviewVanished>>
        /\ reviewSaves' \in Nat
    BY <1>0, <1>1 DEF Review!Ask
  <2>7. QED
    BY <2>2, <2>3, <2>5, <2>6, ReviewGoesOn
<1>2. ASSUME NEW p \in Servers, Review!Look(p) \/ Review!MakeRoot(p) \/ Review!SyncRoot(p) PROVE ReviewInv'
  <2>1. /\ reviewDirs' \in [Review!Directories -> {"absent", "loose", "synced"}]
        /\ \A d \in Review!Directories : reviewDirs[d] = "synced" => reviewDirs'[d] = "synced"
    BY <1>0, <1>2 DEF Review!Look, Review!MakeRoot, Review!SyncRoot, Review!Made
  <2>2. PICK step \in {"root", "lock", "syncroot"} : reviewWork' = [reviewWork EXCEPT ![p].at = step]
    BY <1>2 DEF Review!Look, Review!MakeRoot, Review!SyncRoot
  <2>3. PICK w \in ReviewWorks : w = [reviewWork[p] EXCEPT !.at = step]
    BY <1>0, <2>2 DEF ReviewWorks, Review!Steps
  <2>4. w.at = step /\ reviewWork' = [reviewWork EXCEPT ![p] = w]
    BY <1>0, <2>2, <2>3 DEF ReviewWorks
  <2>5. reviewWork'[p].at = step /\ \A q \in Servers \ {p} : reviewWork'[q] = reviewWork[q]
    BY <1>0, <2>4
  <2>6. p \notin Review!Locked' /\ ReviewGoes(p)'
    BY <2>5 DEF Review!Locked, ReviewGoes
  <2>7. /\ reviewFiles' = reviewFiles /\ reviewSynced' = reviewSynced
        /\ reviewAcked' = reviewAcked /\ reviewVanished' = reviewVanished /\ reviewSaves' = reviewSaves
    BY <1>2 DEF Review!Look, Review!MakeRoot, Review!SyncRoot
  <2>8. ReviewTypes'
    BY <1>0, <2>1, <2>4, <2>7 DEF ReviewInv, ReviewTypes
  <2>9. \A e \in Review!Events :
           /\ Len(reviewFiles[e]) <= Len(reviewFiles'[e])
           /\ \A n \in 1..Len(reviewFiles[e]) : reviewFiles'[e][n] = reviewFiles[e][n]
           /\ reviewSynced[e] <= reviewSynced'[e]
    BY <2>7 DEF ReviewInv, ReviewTypes
  <2>10. QED
    BY <2>1, <2>5, <2>6, <2>7, <2>8, <2>9, ReviewAdds
<1>3. ASSUME NEW p \in Servers, Review!Lock(p) PROVE ReviewInv'
  <2> DEFINE w == [reviewWork[p] EXCEPT !.at = "check"]
  <2>1. w \in ReviewWorks /\ w.at = "check" /\ reviewWork' = [reviewWork EXCEPT ![p] = w]
    BY <1>0, <1>3 DEF Review!Lock, ReviewWorks, Review!Steps
  <2> HIDE DEF w
  <2>2. reviewWork'[p].at = "check"
    BY <1>0, <2>1
  <2>3. ReviewGoes(p)'
    BY <2>2 DEF ReviewGoes
  <2>4. QED
    BY <1>0, <1>3, <2>1, <2>3, ReviewGoesOn DEF Review!Lock
<1>4. ASSUME NEW p \in Servers, Review!Check(p) PROVE ReviewInv'
  <2>1. CASE Review!Refused(p)
    BY <1>0, <1>4, <2>1, ReviewAnswers DEF Review!Check
  <2>2. CASE ~Review!Refused(p)
    <3>1. /\ reviewWork[p] \in ReviewWorks /\ "make" \in Review!Steps
          /\ reviewWork[p].expected = Len(reviewFiles[reviewWork[p].event])
      BY <1>0, <2>2 DEF Review!Refused, Review!Steps
    <3>2. reviewWork[p].event \in Review!Events /\ reviewWork[p].expected \in Nat
      BY <3>1 DEF ReviewWorks
    <3>3. PICK n \in Nat, two \in Nat : n = reviewWork[p].expected + 1 /\ two = 2
      BY <3>2
    <3>4. PICK w \in ReviewWorks :
             w = [reviewWork[p] EXCEPT !.at = "make", !.level = two, !.revision = n]
      BY <3>1, <3>3 DEF ReviewWorks
    <3>5. /\ w.at = "make" /\ w.level = two /\ w.revision = n
          /\ w.event = reviewWork[p].event
      BY <3>1, <3>4 DEF ReviewWorks
    <3>6. reviewWork' = [reviewWork EXCEPT ![p] = w]
      BY <1>0, <1>4, <2>2, <3>3, <3>4 DEF Review!Check, ReviewWorks
    <3>9. reviewWork'[p] = w
      BY <1>0, <3>6
    <3>10. /\ reviewDirs' = reviewDirs /\ reviewFiles' = reviewFiles
           /\ 2 \in 2..Len(Review!Way(w.event))
      BY <1>4, <3>2, <3>5, ReviewWays DEF Review!Check
    <3>11. Durable(w.event, 2 - 1)'
      BY DEF Durable
    <3>12. ReviewGoes(p)'
      BY <3>1, <3>3, <3>5, <3>9, <3>10, <3>11 DEF ReviewGoes
    <3>7. Review!Locked \subseteq {p}
      BY <1>4 DEF Review!Check, Review!Locked, ReviewInv
    <3>8. QED
      BY <1>0, <1>4, <3>6, <3>7, <3>12, ReviewGoesOn DEF Review!Check
  <2>3. QED
    BY <2>1, <2>2
<1>5. ASSUME NEW p \in Servers, Review!Write(p) PROVE ReviewInv'
  <2>0. PICK w \in ReviewWorks : w = [reviewWork[p] EXCEPT !.whole = TRUE, !.at = "link"]
    BY <1>0 DEF ReviewWorks, Review!Steps
  <2>1. /\ w.at = "link" /\ w.event = reviewWork[p].event
        /\ w.revision = reviewWork[p].revision /\ reviewWork' = [reviewWork EXCEPT ![p] = w]
    BY <1>0, <1>5, <2>0 DEF Review!Write, ReviewWorks
  <2>2. reviewWork'[p] = w
    BY <1>0, <2>1
  <2>6. /\ Durable(w.event, Len(Review!Way(w.event)))'
        /\ w.revision = Len(reviewFiles'[w.event]) + 1
    <3>1. ReviewGoes(p)
      BY DEF ReviewInv
    <3>2. QED
      BY <1>5, <2>1, <3>1 DEF ReviewGoes, Review!Write, Durable
  <2>3. ReviewGoes(p)'
    BY <2>1, <2>2, <2>6 DEF ReviewGoes
  <2>4. Review!Locked \subseteq {p}
    BY <1>5 DEF Review!Write, Review!Locked, ReviewInv
  <2>5. QED
    BY <1>0, <1>5, <2>1, <2>3, <2>4, ReviewGoesOn DEF Review!Write
<1>6. ASSUME NEW p \in Servers, Review!Stops(p) PROVE ReviewInv'
  BY <1>0, <1>6, ReviewAnswers DEF Review!Stops
<1>7. ASSUME NEW p \in Servers, Review!Make(p) PROVE ReviewInv'
  <2>1. CASE Review!TooMany(p)
    BY <1>0, <1>7, <2>1, ReviewAnswers DEF Review!Make
  <2>2. CASE ~Review!TooMany(p)
    <3>1. PICK w \in ReviewWorks : w = [reviewWork[p] EXCEPT !.at = "sync"]
      BY <1>0 DEF ReviewWorks, Review!Steps
    <3>2. /\ w.at = "sync" /\ w.event = reviewWork[p].event /\ w.level = reviewWork[p].level
          /\ w.revision = reviewWork[p].revision /\ reviewWork' = [reviewWork EXCEPT ![p] = w]
      BY <1>0, <1>7, <2>2, <3>1 DEF Review!Make, ReviewWorks
    <3>3. reviewWork'[p] = w /\ \A q \in Servers \ {p} : reviewWork'[q] = reviewWork[q]
      BY <1>0, <3>2
    <3>4. /\ reviewDirs' \in [Review!Directories -> {"absent", "loose", "synced"}]
          /\ \A d \in Review!Directories : reviewDirs[d] = "synced" => reviewDirs'[d] = "synced"
      BY <1>0, <1>7, <2>2 DEF Review!Make, Review!Made
    <3>5. ReviewTypes'
      BY <1>0, <1>7, <3>2, <3>4 DEF Review!Make, ReviewInv, ReviewTypes
    <3>6. /\ ReviewGoes(p) /\ w.event \in Review!Events
          /\ reviewFiles' = reviewFiles /\ reviewSynced' = reviewSynced
          /\ reviewAcked' = reviewAcked /\ reviewVanished' = reviewVanished
      BY <1>7, <3>1 DEF Review!Make, ReviewInv, ReviewWorks
    <3>7. /\ w.level \in 2..Len(Review!Way(w.event)) /\ Durable(w.event, w.level - 1)
          /\ w.revision = Len(reviewFiles[w.event]) + 1
      BY <1>7, <3>2, <3>6 DEF Review!Make, ReviewGoes
    <3>8. Durable(w.event, w.level - 1)'
      BY <3>4, <3>6, <3>7, ReviewWays DEF Durable
    <3>9. ReviewGoes(p)'
      BY <3>2, <3>3, <3>6, <3>7, <3>8 DEF ReviewGoes
    <3>10. Review!Locked \subseteq {p}
      BY <1>7 DEF Review!Make, Review!Locked, ReviewInv
    <3>11. \A e \in Review!Events :
              /\ Len(reviewFiles[e]) <= Len(reviewFiles'[e])
              /\ \A n \in 1..Len(reviewFiles[e]) : reviewFiles'[e][n] = reviewFiles[e][n]
              /\ reviewSynced[e] <= reviewSynced'[e]
      BY <3>6 DEF ReviewInv, ReviewTypes
    <3>12. QED
      BY <3>3, <3>4, <3>5, <3>6, <3>9, <3>10, <3>11, ReviewAdds
  <2>3. QED
    BY <2>1, <2>2
<1>8. ASSUME NEW p \in Servers, Review!Sync(p) PROVE ReviewInv'
  <2> DEFINE level == reviewWork[p].level
             event == reviewWork[p].event
  <2>1. /\ reviewWork[p] \in ReviewWorks /\ event \in Review!Events /\ ReviewGoes(p)
        /\ reviewWork[p].at = "sync" /\ reviewDirs' = [reviewDirs EXCEPT ![Review!Way(event)[level]] = "synced"]
        /\ reviewFiles' = reviewFiles /\ reviewSynced' = reviewSynced
        /\ reviewAcked' = reviewAcked /\ reviewVanished' = reviewVanished
        /\ reviewSaves' = reviewSaves
    BY <1>0, <1>8 DEF Review!Sync, Review!Level, ReviewInv, ReviewWorks
  <2>2. /\ level \in 2..Len(Review!Way(event)) /\ Durable(event, level - 1)
        /\ reviewWork[p].revision = Len(reviewFiles[event]) + 1
    BY <2>1 DEF ReviewGoes
  <2>3. /\ reviewDirs' \in [Review!Directories -> {"absent", "loose", "synced"}]
        /\ \A d \in Review!Directories : reviewDirs[d] = "synced" => reviewDirs'[d] = "synced"
    BY <1>0, <2>1
  <2>4. Len(Review!Way(event)) \in {2, 4} /\ \A k \in 1..Len(Review!Way(event)) : Review!Way(event)[k] \in Review!Directories
    BY <2>1, ReviewWays
  <2>5. \A k \in 2..level : reviewDirs'[Review!Way(event)[k]] = "synced"
    BY <1>0, <2>1, <2>2, <2>3, <2>4 DEF Durable
  <2>6. PICK w \in ReviewWorks :
           /\ w.event = event /\ w.revision = reviewWork[p].revision
           /\ reviewWork' = [reviewWork EXCEPT ![p] = w]
           /\ IF level = Len(Review!Way(event)) THEN w.at = "write"
              ELSE w.at = "make" /\ w.level = level + 1
    <3>1. CASE level = Len(Review!Way(event))
      <4>1. PICK w \in ReviewWorks : w = [reviewWork[p] EXCEPT !.at = "write"]
        BY <2>1 DEF ReviewWorks, Review!Steps
      <4>2. reviewWork' = [reviewWork EXCEPT ![p] = w]
        BY <1>0, <1>8, <3>1, <4>1 DEF Review!Sync, Review!Below
      <4>3. w.event = event /\ w.revision = reviewWork[p].revision /\ w.at = "write"
        BY <2>1, <4>1 DEF ReviewWorks
      <4>4. QED
        BY <3>1, <4>2, <4>3
    <3>2. CASE level # Len(Review!Way(event))
      <4>1. PICK n \in Nat : n = level + 1
        BY <2>1 DEF ReviewWorks
      <4>2. PICK w \in ReviewWorks : w = [reviewWork[p] EXCEPT !.level = n, !.at = "make"]
        BY <2>1 DEF ReviewWorks, Review!Steps
      <4>3. reviewWork' = [reviewWork EXCEPT ![p].level = n, ![p].at = "make"]
        BY <1>0, <1>8, <3>2, <4>1 DEF Review!Sync, Review!Below
      <4>4. reviewWork' = [reviewWork EXCEPT ![p] = w]
        BY <1>0, <4>2, <4>3 DEF ReviewWorks
      <4>5. w.event = event /\ w.revision = reviewWork[p].revision /\ w.at = "make" /\ w.level = n
        BY <2>1, <4>2 DEF ReviewWorks
      <4>6. QED
        BY <3>2, <4>1, <4>4, <4>5
    <3>3. QED
      BY <3>1, <3>2
  <2>7. reviewWork'[p] = w /\ \A q \in Servers \ {p} : reviewWork'[q] = reviewWork[q]
    BY <1>0, <2>6
  <2>8. ReviewTypes'
    BY <1>0, <2>1, <2>3, <2>6 DEF ReviewInv, ReviewTypes
  <2>9. w.at = "write" => Durable(w.event, Len(Review!Way(w.event)))'
    BY <2>5, <2>6 DEF Durable
  <2>10. w.at = "make" => /\ w.level \in 2..Len(Review!Way(w.event))
                          /\ Durable(w.event, w.level - 1)'
    BY <2>2, <2>4, <2>5, <2>6 DEF Durable
  <2>11. ReviewGoes(p)'
    BY <2>1, <2>2, <2>6, <2>7, <2>9, <2>10 DEF ReviewGoes
  <2>12. Review!Locked \subseteq {p}
    BY <2>1 DEF Review!Locked, ReviewInv
  <2>13. \A e \in Review!Events :
            /\ Len(reviewFiles[e]) <= Len(reviewFiles'[e])
            /\ \A n \in 1..Len(reviewFiles[e]) : reviewFiles'[e][n] = reviewFiles[e][n]
            /\ reviewSynced[e] <= reviewSynced'[e]
    BY <2>1 DEF ReviewInv, ReviewTypes
  <2>14. QED
    BY <2>1, <2>3, <2>7, <2>8, <2>11, <2>12, <2>13, ReviewAdds
<1>9. ASSUME NEW p \in Servers, Review!Link(p) PROVE ReviewInv'
  <2> DEFINE event == reviewWork[p].event
             answer == [id |-> reviewWork[p].id, whole |-> reviewWork[p].whole]
  <2>1. /\ reviewWork[p] \in ReviewWorks /\ event \in Review!Events /\ ReviewGoes(p)
        /\ reviewWork[p].at = "link" /\ reviewWork[p].revision \in Nat
        /\ answer \in [id: Nat, whole: BOOLEAN]
        /\ reviewDirs' = reviewDirs /\ reviewSynced' = reviewSynced
        /\ reviewAcked' = reviewAcked /\ reviewVanished' = reviewVanished
        /\ reviewSaves' = reviewSaves
    BY <1>0, <1>9 DEF Review!Link, ReviewInv, ReviewWorks
  <2>2. /\ Durable(event, Len(Review!Way(event)))
        /\ reviewWork[p].revision = Len(reviewFiles[event]) + 1
    BY <2>1 DEF ReviewGoes
  <2>3. /\ reviewFiles \in [Review!Events -> Seq([id: Nat, whole: BOOLEAN])]
        /\ reviewFiles[event] \in Seq([id: Nat, whole: BOOLEAN]) /\ Len(reviewFiles[event]) \in Nat
        /\ reviewSynced \in [Review!Events -> Nat]
        /\ \A e \in Review!Events : reviewSynced[e] <= Len(reviewFiles[e])
    BY <2>1 DEF ReviewInv, ReviewTypes
  <2>4. /\ reviewFiles' = [reviewFiles EXCEPT ![event] = Append(@, answer)]
        /\ reviewWork' = [reviewWork EXCEPT ![p].at = "settle"]
    BY <1>9, <2>2, <2>3 DEF Review!Link
  <2> HIDE DEF answer
  <2>5. /\ Append(reviewFiles[event], answer) \in Seq([id: Nat, whole: BOOLEAN])
        /\ Len(Append(reviewFiles[event], answer)) = Len(reviewFiles[event]) + 1
        /\ \A n \in 1..Len(reviewFiles[event]) : Append(reviewFiles[event], answer)[n] = reviewFiles[event][n]
        /\ Append(reviewFiles[event], answer)[Len(reviewFiles[event]) + 1] = answer
    BY <2>1, <2>3
  <2>6. reviewFiles' \in [Review!Events -> Seq([id: Nat, whole: BOOLEAN])]
    BY <2>1, <2>3, <2>4, <2>5
  <2>7. \A e \in Review!Events :
           /\ Len(reviewFiles[e]) <= Len(reviewFiles'[e])
           /\ \A n \in 1..Len(reviewFiles[e]) : reviewFiles'[e][n] = reviewFiles[e][n]
           /\ reviewSynced[e] <= reviewSynced'[e]
    <3>1. TAKE e \in Review!Events
    <3>2. CASE e = event
      BY <2>1, <2>3, <2>4, <2>5, <3>2
    <3>3. CASE e # event
      <4>1. reviewFiles'[e] = reviewFiles[e] /\ Len(reviewFiles[e]) \in Nat /\ reviewSynced[e] \in Nat
        BY <2>3, <2>4, <3>3
      <4>2. QED
        BY <2>1, <4>1
    <3>4. QED
      BY <3>2, <3>3
  <2>8. PICK w \in ReviewWorks : w = [reviewWork[p] EXCEPT !.at = "settle"]
    BY <2>1 DEF ReviewWorks, Review!Steps
  <2>9. /\ w.at = "settle" /\ w.event = event /\ w.revision = reviewWork[p].revision
        /\ w.id = reviewWork[p].id /\ reviewWork' = [reviewWork EXCEPT ![p] = w]
    BY <1>0, <2>1, <2>4, <2>8 DEF ReviewWorks
  <2>10. reviewWork'[p] = w /\ \A q \in Servers \ {p} : reviewWork'[q] = reviewWork[q]
    BY <1>0, <2>9
  <2>11. \A e \in Review!Events : reviewSynced'[e] <= Len(reviewFiles'[e])
    <3>1. TAKE e \in Review!Events
    <3>2. Len(reviewFiles'[e]) \in Nat /\ Len(reviewFiles[e]) \in Nat /\ reviewSynced[e] \in Nat
      BY <2>3, <2>6
    <3>3. QED
      BY <2>1, <2>3, <2>7, <3>2
  <2>12. ReviewTypes'
    BY <1>0, <2>1, <2>3, <2>6, <2>9, <2>11 DEF ReviewTypes
  <2>13. Stored(event, reviewWork[p].revision, reviewWork[p].id)'
    <3>1. reviewFiles'[event] = Append(reviewFiles[event], answer) /\ answer.id = reviewWork[p].id
      BY <2>1, <2>3, <2>4 DEF answer
    <3>2. reviewWork[p].revision \in 1..Len(reviewFiles'[event])
      BY <2>2, <2>3, <2>5, <3>1
    <3>3. reviewFiles'[event][reviewWork[p].revision].id = reviewWork[p].id
      BY <2>2, <2>5, <3>1
    <3>4. QED
      BY <3>2, <3>3, <2>9, <2>10 DEF Stored
  <2>14. Durable(event, Len(Review!Way(event)))'
    BY <2>1, <2>2, <2>9, <2>10 DEF Durable
  <2>15. ReviewGoes(p)'
    BY <2>9, <2>10, <2>13, <2>14 DEF ReviewGoes, Stored, Durable
  <2>16. p \in Review!Locked /\ Review!Locked \subseteq {p}
    BY <2>1 DEF Review!Locked, ReviewInv
  <2>17. QED
    BY <2>1, <2>7, <2>10, <2>12, <2>15, <2>16, ReviewAdds
<1>10. ASSUME NEW p \in Servers, Review!Settle(p) PROVE ReviewInv'
  <2> DEFINE event == reviewWork[p].event
  <2>1. /\ reviewWork[p] \in ReviewWorks /\ event \in Review!Events /\ ReviewGoes(p)
        /\ reviewWork[p].at = "settle"
        /\ reviewDirs' = reviewDirs /\ reviewFiles' = reviewFiles
        /\ reviewAcked' = reviewAcked /\ reviewVanished' = reviewVanished
        /\ reviewSaves' = reviewSaves
        /\ reviewSynced' = [reviewSynced EXCEPT ![event] = Len(reviewFiles[event])]
    BY <1>0, <1>10 DEF Review!Settle, ReviewInv, ReviewWorks
  <2>2. /\ reviewFiles \in [Review!Events -> Seq([id: Nat, whole: BOOLEAN])]
        /\ reviewSynced \in [Review!Events -> Nat]
        /\ \A e \in Review!Events : Len(reviewFiles[e]) \in Nat /\ reviewSynced[e] <= Len(reviewFiles[e])
    BY DEF ReviewInv, ReviewTypes
  <2>3. /\ Durable(event, Len(Review!Way(event)))
        /\ Stored(event, reviewWork[p].revision, reviewWork[p].id)
    BY <2>1 DEF ReviewGoes
  <2>4. PICK w \in ReviewWorks : w = [reviewWork[p] EXCEPT !.at = "tidy"]
    BY <2>1 DEF ReviewWorks, Review!Steps
  <2>5. /\ w.at = "tidy" /\ w.event = event /\ w.revision = reviewWork[p].revision
        /\ w.id = reviewWork[p].id /\ reviewWork' = [reviewWork EXCEPT ![p] = w]
    BY <1>0, <1>10, <2>1, <2>4 DEF Review!Settle, ReviewWorks
  <2>6. reviewWork'[p] = w /\ \A q \in Servers \ {p} : reviewWork'[q] = reviewWork[q]
    BY <1>0, <2>5
  <2>7. \A e \in Review!Events :
           /\ Len(reviewFiles[e]) <= Len(reviewFiles'[e])
           /\ \A n \in 1..Len(reviewFiles[e]) : reviewFiles'[e][n] = reviewFiles[e][n]
           /\ reviewSynced[e] <= reviewSynced'[e] /\ reviewSynced'[e] <= Len(reviewFiles'[e])
    BY <2>1, <2>2
  <2>8. reviewSynced' \in [Review!Events -> Nat]
    BY <2>1, <2>2
  <2>9. ReviewTypes'
    BY <1>0, <2>1, <2>2, <2>5, <2>7, <2>8 DEF ReviewTypes
  <2>10. reviewWork[p].revision <= reviewSynced'[event]
    BY <2>1, <2>2, <2>3 DEF Stored
  <2>11. ReviewGoes(p)'
    BY <2>1, <2>3, <2>5, <2>6, <2>10 DEF ReviewGoes, Stored, Durable
  <2>12. Review!Locked \subseteq {p}
    BY <2>1 DEF Review!Locked, ReviewInv
  <2>13. QED
    BY <2>1, <2>6, <2>7, <2>9, <2>11, <2>12, ReviewAdds
<1>11. ASSUME NEW p \in Servers, Review!Tidy(p) PROVE ReviewInv'
  <2> DEFINE event == reviewWork[p].event
             revision == reviewWork[p].revision
  <2>1. /\ event \in Review!Events /\ ReviewGoes(p) /\ reviewWork[p].at = "tidy"
        /\ UNCHANGED <<reviewDirs, reviewFiles, reviewSynced, reviewVanished, reviewSaves>>
        /\ reviewWork' = [reviewWork EXCEPT ![p] = Review!Idle]
        /\ reviewAcked' = reviewAcked \cup {[event |-> event, revision |-> revision,
               id |-> reviewWork[p].id, root |-> reviewDirs["annotations"] = "synced"]}
    BY <1>0, <1>11 DEF Review!Tidy, Review!Answer, ReviewInv, ReviewWorks
  <2>2. /\ Durable(event, Len(Review!Way(event))) /\ revision <= reviewSynced[event]
        /\ Stored(event, revision, reviewWork[p].id)
    BY <2>1 DEF ReviewGoes
  <2>3. ReviewTypes'
    BY <1>0, <2>1, ReviewIdle DEF ReviewInv, ReviewTypes
  <2>4. reviewWork'[p].at = "idle" /\ \A q \in Servers \ {p} : reviewWork'[q] = reviewWork[q]
    BY <1>0, <2>1 DEF Review!Idle
  <2>5. p \notin Review!Locked' /\ ReviewGoes(p)'
    BY <2>4 DEF Review!Locked, ReviewGoes
  <2>6. \A e \in Review!Events :
           /\ Len(reviewFiles[e]) <= Len(reviewFiles'[e])
           /\ \A n \in 1..Len(reviewFiles[e]) : reviewFiles'[e][n] = reviewFiles[e][n]
           /\ reviewSynced[e] <= reviewSynced'[e]
    BY <2>1 DEF ReviewInv, ReviewTypes
  <2>7. ASSUME NEW a \in reviewAcked', a \notin reviewAcked
        PROVE  /\ a.event \in Review!Events /\ SafelyStored(a)'
               /\ a.root => reviewDirs'["annotations"] = "synced"
    <3>1. /\ a.event = event /\ a.revision = revision /\ a.id = reviewWork[p].id
          /\ a.root = (reviewDirs["annotations"] = "synced")
      BY <2>1, <2>7
    <3>2. QED
      BY <2>1, <2>2, <3>1 DEF SafelyStored, Stored, Durable
  <2>8. QED
    BY <2>1, <2>3, <2>4, <2>5, <2>6, <2>7, ReviewAdds
<1>12. ASSUME Review!PowerLoss PROVE ReviewInv'
  <2> DEFINE Above(d) == IF d \in Extras THEN Review!Way(d)
                         ELSE IF d = "events" THEN <<"annotations", "example", "events">>
                         ELSE IF d = "example" THEN <<"annotations", "example">> ELSE <<"annotations">>
             Gone(way, lost) == \E n \in 1..Len(way) : way[n] \in lost
  <2>1. PICK lost \in SUBSET {d \in Review!Directories : reviewDirs[d] = "loose"},
             most \in [Review!Events -> 0..MaxSaves] :
           /\ reviewDirs' = [d \in Review!Directories |->
                IF reviewDirs[d] = "absent" \/ Gone(Above(d), lost) THEN "absent" ELSE "synced"]
           /\ \A e \in Review!Events :
                most[e] \in IF e \in {x \in Review!Events : ~Gone(Review!Way(x), lost)}
                            THEN reviewSynced[e]..Len(reviewFiles[e]) ELSE {0}
           /\ reviewFiles' = [e \in Review!Events |-> SubSeq(reviewFiles[e], 1, most[e])]
           /\ reviewSynced' = most
           /\ reviewVanished' = IF "annotations" \in lost THEN reviewVanished \cup reviewAcked
                                ELSE reviewVanished
    BY <1>12, ZenonT(40) DEF Review!PowerLoss
  <2>2. /\ reviewWork' = [q \in Servers |-> Review!Idle] /\ reviewAcked' = reviewAcked
        /\ reviewSaves' = reviewSaves
    BY <1>12 DEF Review!PowerLoss
  <2>3. /\ reviewFiles \in [Review!Events -> Seq([id: Nat, whole: BOOLEAN])]
        /\ reviewSynced \in [Review!Events -> Nat]
    BY DEF ReviewInv, ReviewTypes
  <2>4. \A e \in Review!Events : most[e] \in 0..Len(reviewFiles[e]) /\ most[e] \in Nat
    <3>1. TAKE e \in Review!Events
    <3>2. most[e] \in 0..MaxSaves /\ MaxSaves \in Nat
      BY <2>1, ReviewConstants
    <3>3. most[e] \in reviewSynced[e]..Len(reviewFiles[e]) \cup {0}
      BY <2>1
    <3>4. Len(reviewFiles[e]) \in Nat /\ reviewSynced[e] \in Nat
      BY <2>3
    <3>5. QED
      BY <3>2, <3>3, <3>4
  <2>5. \A e \in Review!Events :
           /\ reviewFiles'[e] \in Seq([id: Nat, whole: BOOLEAN]) /\ Len(reviewFiles'[e]) = most[e]
           /\ \A n \in 1..most[e] : reviewFiles'[e][n] = reviewFiles[e][n]
    <3>1. TAKE e \in Review!Events
    <3>2. reviewFiles[e] \in Seq([id: Nat, whole: BOOLEAN]) /\ most[e] \in 0..Len(reviewFiles[e])
      BY <2>3, <2>4
    <3>3. reviewFiles'[e] = SubSeq(reviewFiles[e], 1, most[e])
      BY <2>1
    <3>4. \A i \in 1..most[e] : reviewFiles[e][i] \in [id: Nat, whole: BOOLEAN]
      <4>1. TAKE i \in 1..most[e]
      <4>2. i \in 1..Len(reviewFiles[e])
        BY <3>2
      <4>3. QED
        BY <3>2, <4>2, ElementOfSeq
    <3>5. /\ most[e] \in Int /\ 1 \in Int /\ most[e] >= 0
      BY <3>2, <2>4
    <3>6. /\ SubSeq(reviewFiles[e], 1, most[e]) \in Seq([id: Nat, whole: BOOLEAN])
          /\ Len(SubSeq(reviewFiles[e], 1, most[e])) = IF 1 <= most[e] THEN most[e] - 1 + 1 ELSE 0
          /\ \A i \in 1..most[e] - 1 + 1 : SubSeq(reviewFiles[e], 1, most[e])[i] = reviewFiles[e][1 + i - 1]
      BY <3>4, <3>5, SubSeqProperties
    <3>7. QED
      BY <3>3, <3>5, <3>6
  <2>6. ReviewTypes'
    <3>1. reviewDirs' \in [Review!Directories -> {"absent", "loose", "synced"}]
      <4> HIDE DEF Gone, Above
      <4>1. QED
        BY <2>1
    <3>2. reviewFiles' \in [Review!Events -> Seq([id: Nat, whole: BOOLEAN])]
      BY <2>1, <2>5
    <3>3. reviewSynced' \in [Review!Events -> Nat] /\ \A e \in Review!Events : reviewSynced'[e] <= Len(reviewFiles'[e])
      BY <2>1, <2>4, <2>5
    <3>4. QED
      BY <1>0, <2>2, <3>1, <3>2, <3>3, ReviewIdle DEF ReviewTypes
  <2>7. \A q \in Servers : reviewWork'[q].at = "idle"
    BY <2>2 DEF Review!Idle
  <2>8. /\ \A p, q \in Review!Locked' : p = q
        /\ \A q \in Servers : ReviewGoes(q)'
    BY <2>7 DEF Review!Locked, ReviewGoes
  <2>9. /\ reviewDirs["annotations"] = "synced" => reviewDirs'["annotations"] = "synced"
        /\ reviewDirs["annotations"] = "synced" => "annotations" \notin lost
    <3>1. Above("annotations") = <<"annotations">>
      BY ReviewConstants
    <3>2. reviewDirs["annotations"] = "synced" => "annotations" \notin lost
      BY <1>0
    <3>3. "annotations" \notin lost => ~Gone(Above("annotations"), lost)
      BY <3>1
    <3> HIDE DEF Gone, Above
    <3>4. QED
      BY <1>0, <2>1, <3>2, <3>3
  <2>12. \A a \in reviewVanished' : ~a.root
    BY <2>1, <2>9 DEF ReviewInv
  <2>13. \A a \in reviewAcked :
            /\ a.event \in Review!Events
            /\ a.root => reviewDirs'["annotations"] = "synced"
    BY <2>9 DEF ReviewInv
  <2>10. ASSUME NEW a \in reviewAcked, a \notin reviewVanished' PROVE SafelyStored(a)'
    <3> DEFINE e == a.event
    <3>1. /\ e \in Review!Events /\ Stored(e, a.revision, a.id)
          /\ a.revision <= reviewSynced[e] /\ Durable(e, Len(Review!Way(e)))
          /\ "annotations" \notin lost
      BY <2>1, <2>10 DEF ReviewInv, SafelyStored
    <3>2. \A k \in 2..Len(Review!Way(e)) :
             /\ reviewDirs[Review!Way(e)[k]] = "synced" /\ Review!Way(e)[k] \notin lost
             /\ Review!Way(e)[k] \in Review!Directories
      BY <2>1, <3>1, ReviewWays DEF Durable
    <3>3. ~Gone(Review!Way(e), lost)
      BY <3>1, <3>2, ReviewWays
    <3>4. reviewSynced[e] <= most[e] /\ most[e] \in Nat /\ reviewSynced[e] \in Nat
      <4> HIDE DEF Gone
      <4>1. most[e] \in reviewSynced[e]..Len(reviewFiles[e])
        BY <2>1, <3>1, <3>3
      <4>2. QED
        BY <2>3, <2>4, <3>1, <4>1
    <3>5. a.revision \in 1..most[e]
      BY <3>1, <3>4, <2>3 DEF Stored
    <3>6. Stored(e, a.revision, a.id)'
      BY <2>5, <3>1, <3>5 DEF Stored
    <3>7. ASSUME NEW k \in 2..Len(Review!Way(e)) PROVE reviewDirs'[Review!Way(e)[k]] = "synced"
      <4> DEFINE d == Review!Way(e)[k]
      <4>1. ~Gone(Above(d), lost)
        <5>2. CASE d = "example"
          <6>1. Above(d) = <<"annotations", "example">>
            BY <5>2, ReviewConstants
          <6>2. "annotations" \notin lost /\ "example" \notin lost
            BY <3>1, <3>2, <5>2
          <6>3. QED
            BY <6>1, <6>2
        <5>3. CASE d = "events"
          <6>1. Above(d) = <<"annotations", "example", "events">>
            BY <5>3, ReviewConstants
          <6>2. "annotations" \notin lost /\ "events" \notin lost
            BY <3>1, <3>2, <5>3
          <6>3. "example" \notin lost
            BY <3>1, <3>2, ReviewWays
          <6> HIDE DEF Above
          <6>4. QED
            BY <6>1, <6>2, <6>3
        <5>4. CASE d = e /\ e # "primary"
          <6>1. e \in Extras
            BY <3>1, <5>4 DEF Review!Events
          <6>2. Above(d) = Review!Way(e)
            BY <5>4, <6>1
          <6>3. QED
            BY <3>3, <6>2
        <5>5. d = "example" \/ d = "events" \/ (d = e /\ e # "primary")
          BY <3>1, ReviewWays
        <5>6. QED
          BY <5>2, <5>3, <5>4, <5>5
      <4>2. d \in Review!Directories /\ reviewDirs[d] # "absent"
        BY <3>2
      <4> HIDE DEF Gone, Above
      <4>3. QED
        BY <2>1, <4>1, <4>2
    <3>8. Durable(e, Len(Review!Way(e)))'
      BY <3>7 DEF Durable
    <3>9. a.revision <= reviewSynced'[e]
      BY <2>1, <3>4, <3>5
    <3> HIDE DEF Gone, Above
    <3>10. QED
      BY <3>6, <3>8, <3>9 DEF SafelyStored
  <2>11. QED
    BY <2>2, <2>6, <2>8, <2>10, <2>12, <2>13 DEF ReviewInv, SafelyStored, Stored, Durable
<1>13. CASE UNCHANGED Review!vars
  BY <1>13 DEF Review!vars, ReviewInv, ReviewTypes, SafelyStored, Durable, Stored, ReviewGoes,
     Review!Locked
<1>14. QED
  BY <1>1, <1>2, <1>3, <1>4, <1>5, <1>6, <1>7, <1>8, <1>9, <1>10, <1>11, <1>12, <1>13
     DEF Review!Next
-----------------------------------------------------------------------------
(* All the programs.  A behaviour is one of a single part: the others stay  *)
(* as they began.                                                           *)

ToolsInv ==
    /\ of = "FaultySnapshot" => FaultyInv
    /\ of = "Run" => RunInv
    /\ RegistryInv /\ BatchInv /\ ReviewInv

LEMMA FaultySame == UNCHANGED faultyVars => FaultyInv' = FaultyInv
BY DEF faultyVars, FaultyInv, FaultySnapshot!Staged, FaultyBusy

LEMMA RunSame == UNCHANGED runVars => [Run!Next]_(Run!vars)
BY DEF runVars, Run!vars, Run!environment, Run!command, Run!run

LEMMA RegistrySame == UNCHANGED registryVars => [Registry!Next]_(Registry!vars)
BY DEF registryVars, Registry!vars, Registry!files, Registry!client, Registry!past, Registry!outside

LEMMA BatchSame == UNCHANGED batchVars => [Batch!Next]_(Batch!vars)
BY DEF batchVars, Batch!vars, Batch!control, Batch!cluster, Batch!stopping, Batch!progress,
   Batch!world

LEMMA ReviewSame == UNCHANGED reviewVars => [Review!Next]_(Review!vars)
BY DEF reviewVars, Review!vars

LEMMA ToolsStart == GroupInit => ToolsInv
BY FaultyStart, RunStart, RegistryStart, BatchStart, ReviewStart DEF GroupInit, ToolsInv

LEMMA ToolsMove == ToolsInv /\ [GroupNext]_groupVars => ToolsInv'
<1> SUFFICES ASSUME ToolsInv, [GroupNext]_groupVars PROVE ToolsInv'
  OBVIOUS
<1>1. [Registry!Next]_(Registry!vars)
  BY RegistrySame DEF GroupNext, groupVars, Others, SnapshotStep, FaultySnapshotStep, RunStep,
     RegistryStep, BatchStep, ReviewStep
<1>2. [Batch!Next]_(Batch!vars)
  BY BatchSame DEF GroupNext, groupVars, Others, SnapshotStep, FaultySnapshotStep, RunStep,
     RegistryStep, BatchStep, ReviewStep
<1>3. [Review!Next]_(Review!vars)
  BY ReviewSame DEF GroupNext, groupVars, Others, SnapshotStep, FaultySnapshotStep, RunStep,
     RegistryStep, BatchStep, ReviewStep
<1>4. of' = of /\ (of = "Run" => [Run!Next]_(Run!vars))
  BY RunSame DEF GroupNext, groupVars, Others, SnapshotStep, FaultySnapshotStep, RunStep,
     RegistryStep, BatchStep, ReviewStep
<1>5. of = "FaultySnapshot" => [FaultySnapshot!Next]_(FaultySnapshot!vars) \/ UNCHANGED faultyVars
  BY DEF GroupNext, groupVars, Others, SnapshotStep, FaultySnapshotStep, RunStep,
     RegistryStep, BatchStep, ReviewStep
<1>6. of = "FaultySnapshot" => FaultyInv'
  BY <1>5, FaultyMoves, FaultySame DEF ToolsInv
<1>7. of = "Run" => RunInv'
  BY <1>4, RunMoves DEF ToolsInv
<1>8. RegistryInv' /\ BatchInv' /\ ReviewInv'
  BY <1>1, <1>2, <1>3, RegistryMoves, BatchMoves, ReviewMoves DEF ToolsInv
<1>9. QED
  BY <1>4, <1>6, <1>7, <1>8 DEF ToolsInv

LEMMA ToolsInvariance == GroupSpec => []ToolsInv
BY ToolsStart, ToolsMove, PTL DEF GroupSpec

\* Whichever calls fail, a snapshot that came to an end without an interrupt, and without
\* reporting that its cleanup failed, leaves nothing under its staging name, a benchmark
\* that did not give up has closed its whole environment, and a batch whose stops neither
\* failed nor were cut short leaves no process (_remove_owned_staging,
\* BenchmarkEnvironment.close, stop_all).
THEOREM ToolsLeaveNothing == GroupSpec => []NothingIsLeftBehind
<1>1. ASSUME ToolsInv PROVE NothingIsLeftBehind
  <2>1. of = "FaultySnapshot" => FaultySnapshot!NothingLeftBehind
    BY <1>1 DEF ToolsInv, FaultyInv, FaultySnapshot!NothingLeftBehind, FaultyBusy
  <2>2. of = "Run" => Run!NothingLeft
    BY <1>1 DEF ToolsInv, RunInv, RunResources, RunClosed, Run!NothingLeft
  <2>3. Batch!NoOrphans
    BY <1>1 DEF ToolsInv, BatchInv, BatchProcesses, BatchDead, Batch!NoOrphans
  <2>4. QED
    BY <2>1, <2>2, <2>3 DEF NothingIsLeftBehind
<1>2. QED
  BY <1>1, ToolsInvariance, PTL

\* A run the registry acknowledged below a durable root keeps its entry and its manifest
\* until that very run is damaged, and an answer of the review its revision unless it was
\* acknowledged before annotations had been synced and the power took that directory, for
\* any number of clients and servers, killed at any step, and through any losses of power
\* (RunRegistry.add, ReviewStore.save).
THEOREM ToolsKeep == GroupSpec => []AcknowledgedIsKept
<1>1. ASSUME ToolsInv PROVE AcknowledgedIsKept
  <2>1. Registry!AckedIsKept
    BY <1>1 DEF ToolsInv, RegistryInv, RegistryTypes, RegistryKept, Registry!AckedIsKept,
       Registry!Registered
  <2>2. Review!AckedKept
    BY <1>1 DEF ToolsInv, ReviewInv, ReviewTypes, SafelyStored, Stored, Review!AckedKept
  <2>3. QED
    BY <2>1, <2>2 DEF AcknowledgedIsKept
<1>2. QED
  BY <1>1, ToolsInvariance, PTL

\* What a benchmark published was complete, measured, made with an unaltered copy and
\* after everything was given back, and a receipt of a batch means that all of it ran on
\* the inputs it names and nothing runs any more, for any failures, signals, attempts and
\* profiles (run_retrieval, the regression batch).
THEOREM ToolsPublishSound == GroupSpec => []PublishedIsSound
<1>1. ASSUME ToolsInv PROVE PublishedIsSound
  <2>1. of = "Run" => Run!PublishedIsSound
    BY <1>1 DEF ToolsInv, RunInv
  <2>2. Batch!SameInputs
    BY <1>1 DEF ToolsInv, BatchInv, BatchProgress, Batch!SameInputs
  <2>3. Batch!ReceiptMeansStopped
    BY <1>1 DEF ToolsInv, BatchInv, BatchProgress, BatchDead, Batch!ReceiptMeansStopped
  <2>4. QED
    BY <2>1, <2>2, <2>3 DEF PublishedIsSound
<1>2. QED
  BY <1>1, ToolsInvariance, PTL
=============================================================================
