---------------------------- MODULE PinnedSession ----------------------------
(***************************************************************************)
(* PinnedProductSearchSession (search/service.py): a benchmark pins the    *)
(* generations of its videos once, searches them several times and closes  *)
(* with a verification that certifies all the answers together.            *)
(*                                                                         *)
(* A benchmark holds the lock of the data directory, so no job of the      *)
(* program runs meanwhile; the session does not rely on that, and neither  *)
(* does this model: the catalogue moves, a media file is replaced, and     *)
(* files decay without a change of their size or times.  Each search asks  *)
(* for text, frames and moments.                                           *)
(***************************************************************************)
EXTENDS SearchCatalog

CONSTANT MaxHarm  \* bound: media files replaced, and files decayed, in all

Nothing == "media"
Decays  == Files \cup {Nothing}

VARIABLES
    media,    \* videos whose media file is not the one that was uploaded
    decayed,  \* <<v, x, g>>: content that changed under an unchanged stat
    s,        \* the session
    attested, \* <<v, g>> whose validation the vector index keeps in memory
    spoiled   \* history: videos answered for after their evidence had changed

vars == <<catalog, media, decayed, s, attested, spoiled>>
harm == <<media, decayed>>

Points == {"none", "pin", "attest", "open", "before", "read", "after", "answered",
           "closing", "verify", "certified", "failed"}

None    == [v \in Videos |-> [f \in Files |-> 0]]
NoPin   == [text |-> 0, segments |-> [k \in Segments |-> 0], files |-> [f \in Files |-> 0]]
Session == [at |-> "none", assets |-> {}, jobs |-> {}, seen |-> None,
            pins |-> [v \in Videos |-> NoPin], ids |-> {}, todo |-> {}, bad |-> FALSE]

TypeOK ==
    /\ CatalogTypeOK
    /\ media \subseteq Videos
    /\ decayed \subseteq Videos \X Decays \X Gens
    /\ s \in [at : Points, assets : SUBSET Videos, jobs : SUBSET Videos,
              seen : [Videos -> [Files -> Gens]],
              pins : [Videos -> [text : Gens, segments : [Segments -> Gens],
                                 files : [Files -> Gens]]],
              ids : SUBSET Videos, todo : SUBSET Videos, bad : BOOLEAN]
    /\ attested \subseteq Videos \X Gens
    /\ spoiled \subseteq Videos

Init == /\ CatalogInit /\ media = {} /\ decayed = {}
        /\ s = Session /\ attested = {} /\ spoiled = {}

\* One transaction reads which videos have jobs and their released generations.
Releases(ids) == [v \in Videos |-> [f \in Files |->
                    IF v \in ids \cap jobs THEN active[v][f] ELSE 0]]

Open(assets) ==
    /\ s.at \in {"none", "certified", "failed"} /\ assets # {}
    /\ s' = [Session EXCEPT !.at = "pin", !.assets = assets, !.todo = assets,
                            !.jobs = assets \cap jobs, !.seen = Releases(assets)]
    /\ spoiled' = {}
    /\ UNCHANGED <<catalog, harm, attested>>

\* The status, and the identity of the media file as far as stat tells it.
Fingerprint(v) == status[v] = "ready" /\ v \notin media
MediaIntact(v) == Fingerprint(v) /\ <<v, Nothing, 0>> \notin decayed

\* The generation of f that v is searched in: of its release, or what the
\* pointer of the directory names; none if its descriptor does not match.
Named(v, f, release) == IF v \in s.jobs THEN release[v][f] ELSE pointer[v][f]
Valid(v, f, g) == IF Usable(v, f, g) THEN g ELSE 0

\* Mutant: a state the session does not know.
MutFail == s' = [s EXCEPT !.at = "refused", !.todo = {}]

Fail == s' = [s EXCEPT !.at = "failed", !.todo = {}]

\* The active vectors, and the segments they were made of.
PinOf(v) == LET g == active[v]["text"] IN
    [text |-> g, segments |-> inputs[v][g],
     files |-> [f \in Files |-> Valid(v, f, Named(v, f, s.seen))]]

Pin(v) ==
    /\ s.at = "pin" /\ v \in s.todo
    /\ IF MediaIntact(v)
       THEN s' = [s EXCEPT !.pins[v] = PinOf(v), !.todo = @ \ {v},
                           !.at = IF s.todo = {v} THEN "attest" ELSE @]
       ELSE Fail
    /\ UNCHANGED <<catalog, harm, attested, spoiled>>

\* The vectors of every pinned generation are validated; a generation that does
\* not pass leaves its video without text.  The identities of the session are
\* built after that, and their failure takes the validations back.
Attest ==
    /\ s.at = "attest"
    /\ LET whole == {v \in s.assets : s.pins[v].text \in stored[v]}
       IN  \/ /\ attested' = attested \cup {<<v, s.pins[v].text>> : v \in whole}
              /\ s' = [s EXCEPT !.at = "open", !.pins = [v \in Videos |->
                          IF v \in whole THEN @[v] ELSE [@[v] EXCEPT !.text = 0]]]
           \/ Fail /\ UNCHANGED attested
    /\ UNCHANGED <<catalog, harm, spoiled>>
-----------------------------------------------------------------------------
Complete(v) == s.pins[v].text # 0 /\ \A f \in Files : s.pins[v].files[f] # 0

\* A search of some of the videos begins with a comparison of each of them with
\* what is current, for which the releases are read first.
Search(ids) ==
    /\ s.at = "open" /\ ids # {} /\ ids \subseteq s.assets
    /\ \A v \in ids : Complete(v)
    /\ s' = [s EXCEPT !.at = "before", !.ids = ids, !.todo = ids, !.seen = Releases(ids)]
    /\ UNCHANGED <<catalog, harm, attested, spoiled>>

\* Mutant: the pinned files still load, whatever has been released meanwhile.
MutFilesCurrent(v) == \A f \in Files : Usable(v, f, s.pins[v].files[f])

FilesCurrent(v) == \A f \in Files :
    s.pins[v].files[f] = Valid(v, f, Named(v, f, s.seen))
\* _state_is_current without a look at content.
Current(v) ==
    /\ Fingerprint(v)
    /\ v \in s.jobs <=> v \in jobs
    /\ active[v]["text"] = s.pins[v].text
    /\ FilesCurrent(v)

Refuse == s' = [s EXCEPT !.at = "open", !.ids = {}, !.todo = {}, !.seen = None]

Check(v) ==
    /\ s.at \in {"before", "after"} /\ v \in s.todo
    /\ IF Current(v)
       THEN s' = [s EXCEPT !.todo = @ \ {v},
                           !.at = IF s.todo # {v} THEN @
                                  ELSE IF @ = "before" THEN "read" ELSE "answered"]
       ELSE Refuse
    /\ UNCHANGED <<catalog, harm, attested, spoiled>>

\* The strict search itself, in the pinned generations.
Read ==
    /\ s.at = "read"
    /\ IF \A v \in s.ids, f \in Files : Usable(v, f, s.pins[v].files[f])
       THEN s' = [s EXCEPT !.at = "after", !.todo = s.ids, !.seen = Releases(s.ids)]
       ELSE Refuse
    /\ UNCHANGED <<catalog, harm, attested, spoiled>>

\* What the pins of v stand for is still there and active.
Intact(v) ==
    /\ v \notin media /\ \A d \in decayed : d[1] # v \/ d[2] # Nothing
    /\ active[v]["text"] = s.pins[v].text
    /\ \A k \in Segments : active[v][k] = s.pins[v].segments[k]
    /\ \A f \in Files : LET g == s.pins[v].files[f] IN
          /\ Usable(v, f, g) /\ <<v, f, g>> \notin decayed
          /\ g = IF v \in jobs THEN active[v][f] ELSE pointer[v][f]

Answer ==
    /\ s.at = "answered"
    /\ Refuse
    /\ spoiled' = spoiled \cup {v \in s.ids : ~ Intact(v)}
    /\ UNCHANGED <<catalog, harm, attested>>
-----------------------------------------------------------------------------
\* close: every video is compared once more, with its content; failures are
\* collected, and the validations are released whatever happens.
Close ==
    /\ s.at = "open"
    /\ s' = [s EXCEPT !.at = "closing", !.todo = s.assets, !.seen = Releases(s.assets)]
    /\ UNCHANGED <<catalog, harm, attested, spoiled>>

\* Mutant: the descriptor that is cached under the stat of the files is enough.
MutContentIntact(v) == TRUE

ContentIntact(v) == \A f \in Files : <<v, f, s.pins[v].files[f]>> \notin decayed

FullyCurrent(v) ==
    /\ Current(v) /\ MediaIntact(v) /\ ContentIntact(v)
    /\ s.pins[v].text # 0 =>
          \A k \in Segments : active[v][k] = s.pins[v].segments[k]

CloseCheck(v) ==
    /\ s.at = "closing" /\ v \in s.todo
    /\ s' = [s EXCEPT !.todo = @ \ {v}, !.bad = @ \/ ~ FullyCurrent(v),
                      !.at = IF s.todo = {v} THEN "verify" ELSE @]
    /\ UNCHANGED <<catalog, harm, attested, spoiled>>

Held == {<<v, s.pins[v].text>> : v \in {u \in s.assets : s.pins[u].text # 0}}
StoreIntact == \A a \in Held : a[2] \in stored[a[1]]

\* Mutant: a session that has failed raises before it lets go of anything.
MutCloseEnd ==
    /\ s.at = "verify"
    /\ LET bad == s.bad \/ ~ StoreIntact
       IN  /\ s' = [Session EXCEPT !.at = IF bad THEN "failed" ELSE "certified"]
           /\ attested' = IF bad THEN attested ELSE attested \ Held
    /\ UNCHANGED <<catalog, harm, spoiled>>

CloseEnd ==
    /\ s.at = "verify"
    /\ s' = [Session EXCEPT !.at = IF s.bad \/ ~ StoreIntact THEN "failed" ELSE "certified"]
    /\ attested' = attested \ Held
    /\ UNCHANGED <<catalog, harm, spoiled>>
-----------------------------------------------------------------------------
Harms == Cardinality(media) + Cardinality(decayed)

\* Another program replaces the media file of v.
Replace(v) ==
    /\ Harms < MaxHarm /\ status[v] # "absent" /\ v \notin media
    /\ media' = media \cup {v}
    /\ UNCHANGED <<catalog, decayed, s, attested, spoiled>>

\* Bytes change and the stat of their file does not.
Decay(v, x) ==
    /\ Harms < MaxHarm /\ status[v] # "absent"
    /\ \E g \in IF x = Nothing THEN {0} ELSE {pointer[v][x], active[v][x]} \ {0} :
          /\ <<v, x, g>> \notin decayed
          /\ decayed' = decayed \cup {<<v, x, g>>}
    /\ UNCHANGED <<catalog, media, s, attested, spoiled>>

Next ==
    \/ \E ids \in SUBSET Videos : Open(ids) \/ Search(ids)
    \/ \E v \in Videos : Pin(v) \/ Check(v) \/ CloseCheck(v) \/ Replace(v)
    \/ Attest \/ Read \/ Answer \/ Close \/ CloseEnd
    \/ \E v \in Videos, x \in Decays : Decay(v, x)
    \/ Others /\ UNCHANGED <<harm, s, attested, spoiled>>

Spec == Init /\ [][Next]_vars
-----------------------------------------------------------------------------
\* Whatever a session answers stems from one state of the active generations,
\* for all its videos and every kind of evidence, although the pins were taken
\* one after the other and are compared one after the other.
AnswersAreOneRelease ==
    s.at = "answered" => \E a \in past : \A v \in s.ids :
        /\ a[v]["text"] = s.pins[v].text
        /\ \A k \in Segments : a[v][k] = s.pins[v].segments[k]
        /\ v \in s.jobs => \A f \in Files : a[v][f] = s.pins[v].files[f]

\* A session that closes without an error certifies all of its answers: the
\* media, the files and the releases they rest on had not changed by then, not
\* even in a way that the comparison before and after each search cannot see.
CertifiedAnswersHold == s.at = "certified" => spoiled = {}

\* The validations that the vector index keeps for a session go with it, also
\* when opening or closing it fails.
AttestationsEnd == s.at \in {"none", "certified", "failed"} => attested = {}
=============================================================================
