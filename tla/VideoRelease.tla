---------------------------- MODULE VideoRelease ----------------------------
(***************************************************************************)
(* What durable indexing promises about the release of a video, the set of *)
(* generations that search reads (docs/architecture.md, "Failure           *)
(* isolation"): one attempt at a time works on a video; a release is       *)
(* replaced in one step, by an attempt that nobody asked to stop; and the  *)
(* new release consists of outputs of that attempt and of generations of   *)
(* the release before it.  An attempt that ends in any other way leaves    *)
(* the release alone.                                                      *)
(***************************************************************************)
EXTENDS Naturals

CONSTANTS Videos, Stages, Gens   \* 0 \in Gens is the absent generation

VARIABLES
    release,  \* release[v][s]: generation of stage s that search reads
    attempt   \* attempt[v]: none, open, or stopping once a stop was requested

vars == <<release, attempt>>

Init ==
    /\ release = [v \in Videos |-> [s \in Stages |-> 0]]
    /\ attempt = [v \in Videos |-> "none"]

Begin(v) ==
    /\ attempt[v] = "none"
    /\ attempt' = [attempt EXCEPT ![v] = "open"]
    /\ UNCHANGED release

RequestStop(v) ==
    /\ attempt[v] = "open"
    /\ attempt' = [attempt EXCEPT ![v] = "stopping"]
    /\ UNCHANGED release

\* The outputs of one attempt carry a name no release has used so far.
Fresh(g) == g # 0 /\ \A v \in Videos, s \in Stages : release[v][s] # g

Publish(v) ==
    /\ attempt[v] = "open"
    /\ attempt' = [attempt EXCEPT ![v] = "none"]
    /\ \E g \in Gens, r \in [Stages -> Gens] :
          /\ Fresh(g)
          /\ \A s \in Stages : r[s] \in {0, g, release[v][s]}
          /\ release' = [release EXCEPT ![v] = r]

GiveUp(v) ==
    /\ attempt[v] # "none"
    /\ attempt' = [attempt EXCEPT ![v] = "none"]
    /\ UNCHANGED release

Next == \E v \in Videos : Begin(v) \/ RequestStop(v) \/ Publish(v) \/ GiveUp(v)

Spec == Init /\ [][Next]_vars
=============================================================================
