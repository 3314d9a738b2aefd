------------------------- MODULE ReviewedEmbedding ------------------------
(***************************************************************************)
(* The text embedding of the runtime (search/embeddings.py): a strict      *)
(* SemanticEmbedding that verifies its private copy of the model at every  *)
(* boundary of an operation, and ReviewedSemanticEmbeddingRuntime, which   *)
(* closes it and removes the copy.  Threads of searches and of the indexer *)
(* call it, one at a time under its lock; the close waits for the lock a   *)
(* limited time and is repeated by its caller.                             *)
(*                                                                         *)
(* Abstractions.  The files of the copy are as reviewed or not; a          *)
(* verification is one step.  Identities, versions, the checks of vectors  *)
(* and the mode with a fallback, which the runtime does not use, are left  *)
(* out.                                                                    *)
(***************************************************************************)
EXTENDS Naturals

CONSTANTS
    Threads,
    None,
    MaxDrifts \* bound: changes of the files, back or forth

ConstantsAssumption == MaxDrifts \in Nat /\ None \notin Threads

VARIABLES
    reviewed,   \* whether the files are as reviewed
    model,      \* whether a model is loaded
    attempted, validated, failed, \* _attempted, _validated, _attestation_failed
    closing, closed,              \* of the embedding
    lock,       \* holder of the operation lock
    call,       \* of each thread: what it calls and where it is
    closer,     \* where the runtime's close is
    scratch,    \* whether the directory of the copy is there
    observed,   \* whether a verification ever found the files changed
    drifts

vars == <<reviewed, model, attempted, validated, failed, closing, closed, lock, call, closer,
          scratch, observed, drifts>>
flags == <<model, attempted, validated, failed>>
others == <<closing, closed, closer, scratch, reviewed, drifts>>

\* embed with texts or without any, ensure_ready, verify_benchmark_model_current.
Kinds == {"embed", "nothing", "ready", "verify"}
Closer == "closer"
\* Steps at which the model or its files are in use.
OfModel == {"probe", "settle", "before", "infer", "after"}
InUse == OfModel \union {"construct", "confirm", "check"}

Init ==
    /\ reviewed = TRUE /\ model = FALSE /\ attempted = FALSE /\ validated = FALSE /\ failed = FALSE
    /\ closing = FALSE /\ closed = FALSE /\ lock = None
    /\ call = [t \in Threads |-> [kind |-> "embed", at |-> "idle"]]
    /\ closer = "idle" /\ scratch = TRUE /\ observed = FALSE /\ drifts = 0

Goes(t, at) == call' = [call EXCEPT ![t].at = at]
\* An operation that ends gives up the lock; it gives a result, or not.
Ends(t, result) == Goes(t, result) /\ lock' = None
Keep(fs) == UNCHANGED <<others, fs>>

(***************************************************************************)
(* Calls.                                                                  *)
(***************************************************************************)
Call(t, k) ==
    /\ call[t].at \in {"idle", "given", "refused"} /\ ~closing
    /\ call' = [call EXCEPT ![t] = [kind |-> k, at |-> "lock"]]
    /\ UNCHANGED <<others, flags, lock, observed>>
\* Whether verify_benchmark_model_current, or a ready model, is verified without a load.
Verifiable(t) ==
    /\ validated
    /\ call[t].kind = "ready" \/ (call[t].kind = "verify" /\ model /\ ~failed)
Acquire(t) ==
    /\ call[t].at = "lock" /\ lock = None
    /\ IF closing \/ (call[t].kind = "verify" /\ ~Verifiable(t))
       THEN Goes(t, "refused") /\ UNCHANGED lock
       ELSE /\ lock' = t
            /\ Goes(t, IF Verifiable(t) \/ call[t].kind = "nothing" THEN "check" ELSE "load")
    /\ UNCHANGED <<others, flags, observed>>

\* _load: once attempted, a model that is not there is never loaded again.
Load(t) ==
    /\ call[t].at = "load" /\ UNCHANGED <<others, observed, model, validated, failed>>
    /\ IF model /\ ~failed /\ ~closed
       THEN /\ Goes(t, IF call[t].kind = "embed" THEN "before" ELSE "probe")
            /\ UNCHANGED <<lock, attempted>>
       ELSE IF attempted \/ failed \/ closed
       THEN Ends(t, "refused") /\ UNCHANGED attempted
       ELSE Goes(t, "attest") /\ attempted' = TRUE /\ UNCHANGED lock
\* TextEmbedding is built from the files.
Construct(t) ==
    /\ call[t].at = "construct"
    /\ \/ Goes(t, "confirm") /\ UNCHANGED lock
       \/ Ends(t, "refused")
    /\ UNCHANGED <<others, flags, observed>>
Probe(t) ==
    /\ call[t].at = "probe" /\ UNCHANGED <<others, observed, attempted, validated, failed>>
    /\ \/ Goes(t, "settle") /\ UNCHANGED <<lock, model>>
       \/ Ends(t, "refused") /\ model' = FALSE
Infer(t) ==
    /\ call[t].at = "infer"
    /\ \/ Goes(t, "after") /\ UNCHANGED lock
       \/ Ends(t, "refused")
    /\ UNCHANGED <<others, flags, observed>>

(***************************************************************************)
(* _verify_strict_model at each boundary: before and after the load,       *)
(* before and after an inference, after the probe, and on demand.          *)
(***************************************************************************)
MutDrift == model' = FALSE /\ validated' = FALSE /\ UNCHANGED failed
Drift == model' = FALSE /\ validated' = FALSE /\ failed' = TRUE
Passes(t) ==
    LET at == call[t].at IN
    CASE at = "attest" -> Goes(t, "construct") /\ UNCHANGED <<model, validated, lock>>
      [] at = "confirm" -> /\ Goes(t, IF call[t].kind = "embed" THEN "before" ELSE "probe")
                           /\ model' = TRUE /\ UNCHANGED <<validated, lock>>
      [] at = "before" -> Goes(t, "infer") /\ UNCHANGED <<model, validated, lock>>
      [] at = "settle" -> Ends(t, "given") /\ validated' = TRUE /\ UNCHANGED model
      [] at \in {"after", "check"} -> Ends(t, "given") /\ UNCHANGED <<model, validated>>
Verify(t) ==
    /\ call[t].at \in {"attest", "confirm", "before", "settle", "after", "check"}
    /\ IF failed THEN Ends(t, "refused") /\ UNCHANGED <<model, validated, failed, observed>>
       ELSE IF reviewed /\ scratch THEN Passes(t) /\ UNCHANGED <<failed, observed>>
       ELSE Ends(t, "refused") /\ Drift /\ observed' = TRUE
    /\ UNCHANGED <<others, attempted>>

(***************************************************************************)
(* The close of the runtime, which its caller repeats until it is done.    *)
(***************************************************************************)
MutClose ==
    /\ closer = "idle" /\ closer' = "waiting" /\ closing' = TRUE
    /\ UNCHANGED <<closed, scratch, reviewed, drifts, flags, lock, call, observed>>
Close ==
    /\ closer \in {"idle", "raised"} /\ closer' = "waiting" /\ closing' = TRUE
    /\ UNCHANGED <<closed, scratch, reviewed, drifts, flags, lock, call, observed>>
TimesOut ==
    /\ closer = "waiting" /\ lock # None /\ closer' = "raised"
    /\ UNCHANGED <<closing, closed, scratch, reviewed, drifts, flags, lock, call, observed>>
MutRelease ==
    /\ closer = "waiting" /\ closer' = "cleanup"
    /\ closed' = TRUE /\ model' = FALSE /\ validated' = FALSE
    /\ UNCHANGED <<closing, scratch, reviewed, drifts, attempted, failed, lock, call, observed>>
Release ==
    /\ closer = "waiting" /\ lock = None /\ closer' = "cleanup"
    /\ closed' = TRUE /\ model' = FALSE /\ validated' = FALSE
    /\ UNCHANGED <<closing, scratch, reviewed, drifts, attempted, failed, lock, call, observed>>
\* The removal of the copy may fail, and is tried again.
Cleanup ==
    /\ closer = "cleanup"
    /\ \/ closer' = "closed" /\ scratch' = FALSE
       \/ closer' = "raised" /\ UNCHANGED scratch
    /\ UNCHANGED <<closing, closed, reviewed, drifts, flags, lock, call, observed>>

Change ==
    /\ drifts < MaxDrifts /\ drifts' = drifts + 1 /\ reviewed' = ~reviewed
    /\ UNCHANGED <<closing, closed, closer, scratch, flags, lock, call, observed>>

Work(t) == Acquire(t) \/ Load(t) \/ Construct(t) \/ Probe(t) \/ Infer(t) \/ Verify(t)
Next ==
    \/ \E t \in Threads : Work(t) \/ (\E k \in Kinds : Call(t, k))
    \/ Close \/ TimesOut \/ Release \/ Cleanup \/ Change
Spec == Init /\ [][Next]_vars
\* Operations end, the close is repeated, gets a free lock, and the removal succeeds in
\* the end.
Fairness ==
    /\ \A t \in Threads : WF_vars(Work(t))
    /\ WF_vars(closing /\ Close) /\ WF_vars(Release)
    /\ SF_vars(Cleanup /\ closer' = "closed")
FairSpec == Spec /\ Fairness

(***************************************************************************)
(* Properties.                                                             *)
(***************************************************************************)
\* Once a verification found the files changed, no call is given a vector or told that
\* the model is ready, even if the files are restored (_verify_strict_model).
DriftIsFinal ==
    [][observed => \A t \in Threads : call'[t].at = "given" => call[t].at = "given"]_vars

\* No operation reads a model that was released, or files that were removed: the close
\* waits for the operation (SemanticEmbedding.close).
InUseIsThere ==
    \A t \in Threads : call[t].at \in InUse =>
        scratch /\ ~closed /\ (call[t].at \in OfModel => model)

\* A close that was asked for is done in the end, whatever calls keep coming.
CloseEnds == closing ~> closer = "closed"
=============================================================================
