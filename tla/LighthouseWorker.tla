-------------------------- MODULE LighthouseWorker --------------------------
(***************************************************************************)
(* The Lighthouse worker (providers/lighthouse_worker.py): the process     *)
(* that encodes a video window by window into an immutable generation of   *)
(* features on the disk it shares with the backend, and ranks moments from *)
(* such generations; the store of generations with its one pointer; and    *)
(* the client in the backend.                                              *)
(*                                                                         *)
(* A call is one HTTP request and is used once, so it also names the       *)
(* generation it builds (both have fresh uuids).  The video is a file with *)
(* a content and a fingerprint, abstracted to the number of the rewrite    *)
(* that left it.  The content of a generation is abstracted to the         *)
(* contents of the video its windows were read from and to the number of   *)
(* its rewrites; manifests and window digests make any other damage        *)
(* unreadable.  The descriptor cache is keyed by the fingerprints of the   *)
(* files and is left out with the shape of requests, the authentication,   *)
(* the model and the power loss that the calls of fsync are for.           *)
(***************************************************************************)
EXTENDS Naturals, Sequences, FiniteSets

CONSTANTS
    Calls,         \* bound: requests ever sent
    Contents,      \* what the video file may contain
    Windows,       \* windows of at most max_window_seconds in the video
    MaxReplaced,   \* bound: times the video file is replaced
    MaxRewritten,  \* bound: times a finished generation is damaged or rewritten
    MaxCrashes     \* bound: times the worker process dies

None == "none"
LighthouseAssumption ==
    /\ Windows \in Nat \ {0}
    /\ {MaxReplaced, MaxRewritten, MaxCrashes} \subseteq Nat
    /\ Contents # {} /\ None \notin Calls \cup Contents

Ops    == {"build", "prepare", "search"}
Builds == {"build", "prepare"}
Inside == {"encoding", "staged", "published", "rechecked", "attested",
           "bound", "loaded", "ranked"}
Points == {"new", "sent", "lost", "answered"} \cup Inside

VARIABLES
    source,   \* the video: [content, mark]
    call,     \* call[c]: [op, want, seen, read, bound, used, at, ok]
    client,   \* client[c]: new, waiting, gone, failed, done
    gen,      \* gen[c]: [place, claims, windows, version, sound]
    active,   \* the generation active.json names, or None
    permit,   \* the call that holds the capacity semaphore, or None
    latest,   \* the call that got the permit last, or None
    receipt,  \* receipt[c]: the descriptor the client accepted, or None
    faults    \* [rewritten, crashes]
vars == <<source, call, client, gen, active, permit, latest, receipt, faults>>

NoVideo   == [content |-> None, mark |-> 0]
NoReceipt == [gen |-> None, claims |-> None, version |-> 0]
Unsent == [op |-> "build", want |-> NoVideo, seen |-> NoVideo, read |-> <<>>,
           bound |-> NoReceipt, used |-> NoReceipt, at |-> "new", ok |-> FALSE]
NoGen  == [place |-> "none", claims |-> None, windows |-> {}, version |-> 0, sound |-> TRUE]

Init ==
    /\ source \in {[content |-> v, mark |-> 0] : v \in Contents}
    /\ call    = [c \in Calls |-> Unsent]
    /\ client  = [c \in Calls |-> "new"]
    /\ gen     = [c \in Calls |-> NoGen]
    /\ active  = None
    /\ permit  = None
    /\ latest  = None
    /\ receipt = [c \in Calls |-> NoReceipt]
    /\ faults  = [rewritten |-> 0, crashes |-> 0]

\* A generation that the store loads: its directory has its final name and every
\* file matches the manifest.
Loads(g) == gen[g].place = "final" /\ gen[g].sound
Descriptor(g) == [gen |-> g, claims |-> gen[g].claims, version |-> gen[g].version]
Receipts == {receipt[c] : c \in Calls} \ {NoReceipt}

\* Two snapshots of the video are the same: digest, size and fingerprint.
MutSame(x, y) == x.content = y.content
Same(x, y) == x = y

Step(c, fields) ==
    call' = [call EXCEPT ![c] = [f \in DOMAIN @ |-> IF f \in DOMAIN fields THEN fields[f] ELSE @[f]]]
\* A handler ends: it returns the permit and answers, and forgets what it read.
MutAnswer(c, good) ==
    /\ Step(c, [at |-> "answered", ok |-> good])
    /\ permit' = IF permit = c /\ good THEN None ELSE permit
Answer(c, good) ==
    /\ Step(c, [at |-> "answered", ok |-> good, seen |-> NoVideo, read |-> <<>>])
    /\ permit' = IF permit = c THEN None ELSE permit

(***************************************************************************)
(* The client.                                                             *)
(***************************************************************************)

\* build_video_source and prepare take a snapshot of the video and name it in
\* the request; search_generations names descriptors committed before.
Send(c, op, bound) ==
    /\ client[c] = "new"
    /\ IF op = "search" THEN bound \in Receipts \cup {NoReceipt} ELSE bound = NoReceipt
    /\ Step(c, [op |-> op, want |-> source, bound |-> bound, at |-> "sent"])
    /\ client' = [client EXCEPT ![c] = "waiting"]
    /\ UNCHANGED <<source, gen, active, permit, latest, receipt, faults>>

\* The answer arrives.  A receipt is accepted only if it describes the video of
\* the request and the video is still the file it was.
Receive(c) ==
    /\ client[c] = "waiting" /\ call[c].at \in {"answered", "lost"}
    /\ LET d == Descriptor(c)
           good == /\ call[c].at = "answered" /\ call[c].ok
                   /\ call[c].op = "build" =>
                        d.claims = call[c].want.content /\ Same(source, call[c].want)
       IN /\ client' = [client EXCEPT ![c] = IF good THEN "done" ELSE "failed"]
          /\ receipt' = IF good /\ call[c].op = "build"
                        THEN [receipt EXCEPT ![c] = d] ELSE receipt
    /\ UNCHANGED <<source, call, gen, active, permit, latest, faults>>

\* The timeout of the client passes; the worker does not know and works on.
GiveUp(c) ==
    /\ client[c] = "waiting"
    /\ client' = [client EXCEPT ![c] = "gone"]
    /\ UNCHANGED <<source, call, gen, active, permit, latest, receipt, faults>>

(***************************************************************************)
(* The worker.                                                             *)
(***************************************************************************)

\* A build compares its own snapshot of the video with the request before it
\* asks for the permit; neither is waited for.
Admit(c) ==
    /\ call[c].at = "sent"
    /\ IF \/ call[c].op \in Builds /\ source.content # call[c].want.content
          \/ permit # None
       THEN Answer(c, FALSE) /\ UNCHANGED latest
       ELSE /\ permit' = c
            /\ latest' = c
            /\ Step(c, [seen |-> source,
                        at |-> IF call[c].op = "search" THEN "bound" ELSE "encoding"])
    /\ UNCHANGED <<source, client, gen, active, receipt, faults>>

\* One window is cut out of the video and encoded.
MutEncode(c) ==
    /\ call[c].at = "encoding" /\ Len(call[c].read) <= Windows
    /\ Step(c, [read |-> Append(call[c].read, source.content)])
    /\ UNCHANGED <<source, client, gen, active, permit, latest, receipt, faults>>
Encode(c) ==
    /\ call[c].at = "encoding" /\ Len(call[c].read) < Windows
    /\ Step(c, [read |-> Append(call[c].read, source.content)])
    /\ UNCHANGED <<source, client, gen, active, permit, latest, receipt, faults>>

\* ffmpeg, the model, the disk or a validation fails; what was staged is removed
\* and what has its final name stays.
Fail(c) ==
    /\ call[c].at \in Inside
    /\ Answer(c, FALSE)
    /\ gen' = [gen EXCEPT ![c] = IF @.place = "staging" THEN NoGen ELSE @]
    /\ UNCHANGED <<source, client, active, latest, receipt, faults>>

\* The windows and then the manifest are written under a name no reader looks at.
Stage(c) ==
    /\ call[c].at = "encoding" /\ Len(call[c].read) = Windows
    /\ gen' = [gen EXCEPT ![c] = [NoGen EXCEPT
                  !.place = "staging", !.claims = call[c].want.content,
                  !.windows = {call[c].read[i] : i \in 1..Windows}]]
    /\ Step(c, [at |-> "staged", read |-> <<>>])
    /\ UNCHANGED <<source, client, active, permit, latest, receipt, faults>>

Publish(c) ==
    /\ call[c].at = "staged"
    /\ gen' = [gen EXCEPT ![c].place = "final"]
    /\ Step(c, [at |-> "published"])
    /\ UNCHANGED <<source, client, active, permit, latest, receipt, faults>>

\* The snapshot of the video after the build must be the one before it, the
\* fingerprint included.
Recheck(c) ==
    /\ call[c].at = "published"
    /\ IF Same(source, call[c].seen) THEN Step(c, [at |-> "rechecked", seen |-> NoVideo]) /\ UNCHANGED permit
                       ELSE Answer(c, FALSE)
    /\ UNCHANGED <<source, client, gen, active, latest, receipt, faults>>

\* The generation is read back from the disk; a build answers its descriptor.
MutAttest(c) ==
    /\ call[c].at = "rechecked"
    /\ Step(c, [at |-> IF Loads(c) /\ call[c].op = "prepare" THEN "attested" ELSE "answered",
                ok |-> Loads(c)])
    /\ permit' = IF permit = c THEN None ELSE permit
    /\ UNCHANGED <<source, client, gen, active, latest, receipt, faults>>
Attest(c) ==
    /\ call[c].at = "rechecked"
    /\ CASE ~Loads(c) -> Answer(c, FALSE)
         [] Loads(c) /\ call[c].op = "build" -> Answer(c, TRUE)
         [] OTHER -> Step(c, [at |-> "attested"]) /\ UNCHANGED permit
    /\ UNCHANGED <<source, client, gen, active, latest, receipt, faults>>

\* The legacy prepare ends with the pointer, still under its permit.
Activate(c) ==
    /\ call[c].at = "attested"
    /\ active' = IF Loads(c) THEN c ELSE active
    /\ Answer(c, Loads(c))
    /\ UNCHANGED <<source, client, gen, latest, receipt, faults>>

\* A bound search first compares the descriptor on disk with the bound one; the
\* legacy search follows the pointer.  Then the features are read into memory.
Bind(c) ==
    /\ call[c].at = "bound"
    /\ LET b == call[c].bound
           good == b = NoReceipt \/ (Loads(b.gen) /\ Descriptor(b.gen) = b)
       IN IF good THEN Step(c, [at |-> "loaded"]) /\ UNCHANGED permit
                  ELSE Answer(c, FALSE)
    /\ UNCHANGED <<source, client, gen, active, latest, receipt, faults>>

Load(c) ==
    /\ call[c].at = "loaded"
    /\ LET b == call[c].bound
           g == IF b = NoReceipt THEN active ELSE b.gen
           found == g # None /\ Loads(g)
       IN IF found \/ b = NoReceipt
          THEN /\ Step(c, [at |-> "ranked", used |-> IF found THEN Descriptor(g) ELSE NoReceipt])
               /\ UNCHANGED permit
          ELSE Answer(c, FALSE)
    /\ UNCHANGED <<source, client, gen, active, latest, receipt, faults>>

\* The model ranks the windows; a bound search compares the descriptors again.
MutRank(c) ==
    /\ call[c].at = "ranked"
    /\ Answer(c, TRUE)
    /\ UNCHANGED <<source, client, gen, active, latest, receipt, faults>>
Rank(c) ==
    /\ call[c].at = "ranked"
    /\ LET b == call[c].bound
       IN Answer(c, b = NoReceipt \/ (Loads(b.gen) /\ Descriptor(b.gen) = b))
    /\ UNCHANGED <<source, client, gen, active, latest, receipt, faults>>

(***************************************************************************)
(* What happens around it.                                                 *)
(***************************************************************************)

\* Another program replaces the video; the same content may come back, under
\* another fingerprint.
Replace(v) ==
    /\ source.mark < MaxReplaced
    /\ source' = [content |-> v, mark |-> source.mark + 1]
    /\ UNCHANGED <<call, client, gen, active, permit, latest, receipt, faults>>

\* A finished generation is damaged, or rewritten by hand with other features and
\* a manifest that fits; nobody puts the old bytes back.
Rewrite(g, sound) ==
    /\ faults.rewritten < MaxRewritten
    /\ gen[g].place = "final" /\ (sound => receipt[g] # NoReceipt)
    /\ gen' = [gen EXCEPT ![g].version = @ + 1, ![g].sound = sound]
    /\ faults' = [faults EXCEPT !.rewritten = @ + 1]
    /\ UNCHANGED <<source, call, client, active, permit, latest, receipt>>

\* The worker process dies and is started again.  Every request is lost, and what
\* was staged stays on the disk.
Crash ==
    /\ faults.crashes < MaxCrashes
    /\ call' = [c \in Calls |-> IF call[c].at \in Inside \cup {"sent"}
                                THEN [Unsent EXCEPT !.op = call[c].op, !.at = "lost"] ELSE call[c]]
    /\ permit' = None
    /\ faults' = [faults EXCEPT !.crashes = @ + 1]
    /\ UNCHANGED <<source, client, gen, active, latest, receipt>>

Handle(c) ==
    \/ Admit(c) \/ Encode(c) \/ Stage(c) \/ Publish(c) \/ Recheck(c)
    \/ Attest(c) \/ Activate(c) \/ Bind(c) \/ Load(c) \/ Rank(c)

Next ==
    \/ \E c \in Calls :
          \/ \E op \in Ops, b \in Receipts \cup {NoReceipt} : Send(c, op, b)
          \/ Receive(c) \/ GiveUp(c) \/ Handle(c) \/ Fail(c)
    \/ \E v \in Contents : Replace(v)
    \/ \E g \in Calls, s \in BOOLEAN : Rewrite(g, s)
    \/ Crash
    \/ (\A c \in Calls : client[c] \notin {"new", "waiting"}) /\ permit = None /\ UNCHANGED vars

\* The worker serves what it received and the client hears of it; nothing is
\* assumed of failures, replacements, damage or the timeout.
Fairness == \A c \in Calls : WF_vars(Handle(c)) /\ WF_vars(Receive(c))
Spec == Init /\ [][Next]_vars /\ Fairness

(***************************************************************************)
(* Properties.                                                             *)
(***************************************************************************)

Snapshots   == [content : Contents, mark : 0..MaxReplaced]
Descriptors == [gen : Calls, claims : Contents, version : 0..MaxRewritten]

TypeOK ==
    /\ source \in Snapshots
    /\ \A c \in Calls :
          /\ call[c].op \in Ops /\ call[c].at \in Points /\ call[c].ok \in BOOLEAN
          /\ {call[c].want, call[c].seen} \subseteq Snapshots \cup {NoVideo}
          /\ {call[c].bound, call[c].used, receipt[c]} \subseteq Descriptors \cup {NoReceipt}
          /\ \A i \in DOMAIN call[c].read : i \in 1..Windows /\ call[c].read[i] \in Contents
          /\ gen[c].place \in {"none", "staging", "final"} /\ gen[c].sound \in BOOLEAN
          /\ gen[c].windows \subseteq Contents /\ gen[c].version \in 0..MaxRewritten
    /\ client \in [Calls -> {"new", "waiting", "gone", "failed", "done"}]
    /\ {active, permit, latest} \subseteq Calls \cup {None}

\* A generation the backend accepted a receipt for is on the disk under its final
\* name, and until somebody rewrites it every window was encoded from the bytes
\* the receipt names, however often the video was replaced, and put back, while
\* the worker read it, and whenever the worker died (_source_snapshot before and
\* after, build_inactive_generation, build_video_source).
ReceiptsDescribeTheirVideo ==
    \A c \in Calls : receipt[c] # NoReceipt =>
        /\ gen[c].place = "final"
        /\ gen[c].version = 0 => gen[c].windows = {receipt[c].claims}

\* The same holds of the generation the legacy pointer names: activation is never
\* reached with a generation of a video that changed, also when the client has
\* given up meanwhile (prepare).
PointerDescribesItsVideo ==
    active # None =>
        /\ gen[active].place = "final"
        /\ gen[active].version = 0 => gen[active].windows = {gen[active].claims}

\* A bound search that succeeds ranked exactly the generation it was bound to, as
\* it was when the receipt was given, although the files are compared, read, and
\* compared again in steps a rewrite may fall between (search).
BoundHitsAreBound ==
    \A c \in Calls : client[c] = "done" /\ call[c].op = "search" /\ call[c].bound # NoReceipt =>
        call[c].used = call[c].bound

\* The pointer follows the order in which the worker took the requests up: a
\* preparation the client gave up on never overwrites a later one, and a worker
\* that dies leaves the pointer it had (capacity held over build and activation).
ActivationFollowsAdmission ==
    [][active' # active => active' = latest]_vars

\* Every request that reaches the worker ends and gives its permit back, whether
\* it is refused, fails, is given up by its client or is lost with the process.
RequestsEnd ==
    \A c \in Calls : call[c].at = "sent" ~> (call[c].at \in {"answered", "lost"} /\ permit # c)
=============================================================================
