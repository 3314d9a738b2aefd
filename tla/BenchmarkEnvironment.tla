------------------------ MODULE BenchmarkEnvironment ------------------------
(***************************************************************************)
(* ProductBenchmarkEnvironment (benchmark/environment.py): the resources a *)
(* benchmark command opens one after another and must give back in a fixed *)
(* order, the product lock last.  Every call can raise an error, and the   *)
(* two signals a user or a supervisor sends (an interrupt, a termination)  *)
(* can arrive in any of them.  The command closes through retries.         *)
(*                                                                         *)
(* Abstractions.  A resource is held or it is not; releasing one that is   *)
(* no longer held does nothing.  copy is the private FastEmbed copy inside *)
(* the scratch directory, which close() verifies before it deletes it.     *)
(* The contents, identities and wiring of the resources are left out.      *)
(* Opening the product snapshot is one step, that succeeds or holds nothing.*)
(***************************************************************************)
EXTENDS Naturals, Sequences

CONSTANTS
    None,
    Kinds,          \* what a call may raise
    CloseAttempts   \* _MAX_ENVIRONMENT_CLOSE_ATTEMPTS

Error == "error"
Interrupt == "interrupt"
Termination == "termination"
Cancellations == {Interrupt, Termination}

ConstantsAssumption ==
    /\ Kinds \subseteq {Error} \cup Cancellations
    /\ None \notin {Error, "attestation", "incomplete"} \cup Cancellations
    /\ None \notin {"whole", "altered", "partial", "gone"}
    /\ CloseAttempts \in Nat \ {0}

VARIABLES
    pc,         \* the command's next step
    open,       \* the resources held
    copy,       \* the FastEmbed copy: None, "whole", "altered", "partial", "gone"
    raised,     \* the exception on its way up, or None
    context,    \* who called close(): "setup", "handover", "unwind", "final"
    at,         \* the position of close() in ClosingOrder
    failed,     \* this call of close() found the copy not as it should be
    cancelled,  \* the cancellation _close_environment_fully keeps for the end
    attempts,   \* the calls of close() it has made
    exit,       \* what the command ends with
    signals,    \* the cancellations that arrived before the publication
    altered,    \* somebody changed the copy while the model was in use
    gaveUp      \* the command ended with the environment not closed

environment == <<open, copy, context, at, failed, cancelled, attempts>>
command == <<pc, raised, exit, gaveUp>>

(***************************************************************************)
(* Opening.  Each stage holds one thing more.                              *)
(***************************************************************************)
Stages == <<"roots", "scratch", "copy", "embedding", "vector", "adapter">>

MutClosingOrder ==
    <<"adapter", "vector", "embedding", "copy", "borrowed", "roots", "product", "scratch">>
MutScratchOrder ==
    <<"adapter", "vector", "copy", "scratch", "embedding", "borrowed", "roots", "product">>
ClosingOrder ==
    <<"adapter", "vector", "embedding", "copy", "borrowed", "roots", "scratch", "product">>

Owned == ({ClosingOrder[i] : i \in 1..Len(ClosingOrder)} \ {"copy"}) \cup {"session"}

Heard(k) == signals' = signals \cup ({k} \cap Cancellations)

BeginClose(ctx) ==
    /\ pc' = "close" /\ context' = ctx
    /\ at' = 1 /\ failed' = FALSE /\ attempts' = 1 /\ cancelled' = None

\* open_product_runtime_snapshot either hands over the lock and the snapshot
\* or leaves nothing; a termination in it becomes a product error.
OpenProduct ==
    /\ pc = "open"
    /\ \/ /\ pc' = Stages[1] /\ open' = {"product"}
          /\ UNCHANGED <<raised, exit, signals, gaveUp>>
       \/ \E k \in Kinds :
            /\ pc' = "done" /\ raised' = k /\ Heard(k)
            /\ exit' = IF k = Interrupt THEN "interrupted" ELSE "failed"
            /\ UNCHANGED <<open, gaveUp>>
    /\ UNCHANGED <<copy, context, at, failed, cancelled, attempts, altered>>

SetUp(i) ==
    /\ pc = Stages[i]
    /\ pc' = IF i = Len(Stages) THEN "probe" ELSE Stages[i + 1]
    /\ IF Stages[i] = "copy"
       THEN copy' = "whole" /\ open' = open
       ELSE open' = open \cup {Stages[i]} /\ copy' = copy
    /\ UNCHANGED <<raised, context, at, failed, cancelled, attempts>>
    /\ UNCHANGED <<exit, signals, altered, gaveUp>>

\* What a failing stage may have duplicated or retained before it failed.
Leftovers(stage) == IF stage \in {"roots", "copy"} THEN SUBSET {"borrowed", "roots"} ELSE {{}}

\* While the external model source is retained, a termination becomes an error.
SetUpFails(i) ==
    /\ pc = Stages[i]
    /\ \E k \in Kinds, left \in Leftovers(Stages[i]) :
         /\ open' = open \cup left
         /\ Heard(k)
         /\ raised' \in IF Stages[i] = "copy" /\ k = Termination
                        THEN {Termination, Error} ELSE {k}
    /\ BeginClose("setup")
    /\ UNCHANGED <<copy, exit, altered, gaveUp>>

(***************************************************************************)
(* ProductBenchmarkEnvironment.close: one call walks ClosingOrder from its *)
(* start; what an earlier call released is skipped.                        *)
(***************************************************************************)
Holds(x) == IF x = "adapter" THEN {"adapter", "session"} ELSE {x}

Closing(x) == pc = "close" /\ at <= Len(ClosingOrder) /\ ClosingOrder[at] = x

Release(x) ==
    /\ Closing(x) /\ x # "copy"
    /\ open' = open \ Holds(x)
    /\ copy' = IF x = "scratch" /\ x \in open /\ copy # None THEN "gone" ELSE copy
    /\ at' = at + 1
    /\ UNCHANGED <<command, context, failed, cancelled, attempts, signals, altered>>

\* verify_fastembed_snapshot, on every call.
MutVerify ==
    /\ Closing("copy")
    /\ failed' = (copy = "altered" /\ attempts = 1)
    /\ at' = at + 1
    /\ UNCHANGED <<command, open, copy, context, cancelled, attempts, signals, altered>>
Verify ==
    /\ Closing("copy")
    /\ failed' = (copy \notin {None, "whole"})
    /\ at' = at + 1
    /\ UNCHANGED <<command, open, copy, context, cancelled, attempts, signals, altered>>

\* A verification that cannot read the copy, or is terminated, has failed;
\* an interrupt leaves close().
VerifyFails ==
    /\ Closing("copy") /\ copy # None
    /\ \E k \in Kinds \ {Interrupt} : Heard(k)
    /\ failed' = TRUE
    /\ at' = at + 1
    /\ UNCHANGED <<command, open, copy, context, cancelled, attempts, altered>>

\* The adapter retries a session whose close is terminated: the signal is lost.
TerminationSwallowed ==
    /\ Closing("adapter") /\ "session" \in open /\ Termination \in Kinds
    /\ Heard(Termination)
    /\ open' = open \ Holds("adapter")
    /\ at' = at + 1
    /\ UNCHANGED <<command, copy, context, failed, cancelled, attempts, altered>>

\* A step of close() that catches everything but an interrupt turns a
\* termination into an error, and so does a failed verification.
LeavesAs(x, k) ==
    IF k # Interrupt /\ (failed \/ x \in {"adapter", "vector", "embedding", "roots", "product"})
    THEN Error ELSE k

IsClosed == "product" \notin open

Result(k) ==
    CASE k = Interrupt -> "interrupted"
      [] k = Termination -> "terminated"
      [] k = Error -> "failed"

Ends(code) == pc' = "done" /\ exit' = code

(***************************************************************************)
(* What the caller of close() does with the outcome of _close_environment_ *)
(* fully: None, a cancellation, "attestation" (closed, but the copy was    *)
(* not as it should be) or "incomplete" (not closed after all attempts).   *)
(***************************************************************************)
MutFinish(outcome) ==
    \/ context = "final" /\ outcome \in {None} \cup Cancellations /\ pc' = "checks" /\ exit' = exit
    \/ context = "final" /\ outcome \in {"attestation", "incomplete"} /\ Ends("failed")
    \/ context = "unwind" /\ Ends(Result(raised))
    \/ context = "handover" /\ Ends("failed")
Finish(outcome) ==
    \/ context = "final" /\ outcome = None /\ pc' = "checks" /\ exit' = exit
    \/ context = "final" /\ outcome = "attestation" /\ Ends("attestation")
    \/ context = "final" /\ outcome = "incomplete" /\ Ends("failed")
    \/ context = "unwind" /\ outcome \in Cancellations /\ raised = Error /\ Ends(Result(outcome))
    \/ context = "unwind" /\ (outcome \notin Cancellations \/ raised # Error) /\ Ends(Result(raised))
    \/ context = "handover" /\ outcome \notin Cancellations /\ Ends("failed")
    \/ context \in {"final", "handover"} /\ outcome \in Cancellations /\ Ends(Result(outcome))

\* One more call of close(), or the end of the retries.
MutFully(k, closed) ==
    LET kept == IF k \in Cancellations THEN k ELSE cancelled IN
    IF closed
    THEN /\ Finish(CASE k \in Cancellations -> k [] k = Error -> "attestation" [] OTHER -> kept)
         /\ UNCHANGED <<context, at, failed, cancelled, attempts, gaveUp>>
    ELSE /\ at' = 1 /\ failed' = FALSE /\ cancelled' = kept
         /\ UNCHANGED <<pc, exit, context, attempts, gaveUp>>
MutFullyBound(k, closed) ==
    LET kept == IF k \in Cancellations THEN k ELSE cancelled IN
    IF closed
    THEN /\ Finish(CASE k \in Cancellations -> k [] k = Error -> "attestation" [] OTHER -> kept)
         /\ UNCHANGED <<context, at, failed, cancelled, attempts, gaveUp>>
    ELSE IF attempts <= CloseAttempts
    THEN /\ at' = 1 /\ failed' = FALSE /\ attempts' = attempts + 1 /\ cancelled' = kept
         /\ UNCHANGED <<pc, exit, context, gaveUp>>
    ELSE /\ Finish("incomplete") /\ gaveUp' = TRUE
         /\ UNCHANGED <<context, at, failed, cancelled, attempts>>
Fully(k, closed) ==
    LET kept == IF k \in Cancellations THEN k ELSE cancelled IN
    IF closed
    THEN /\ Finish(CASE k \in Cancellations -> k [] k = Error -> "attestation" [] OTHER -> kept)
         /\ UNCHANGED <<context, at, failed, cancelled, attempts, gaveUp>>
    ELSE IF attempts < CloseAttempts
    THEN /\ at' = 1 /\ failed' = FALSE /\ attempts' = attempts + 1 /\ cancelled' = kept
         /\ UNCHANGED <<pc, exit, context, gaveUp>>
    ELSE /\ Finish("incomplete") /\ gaveUp' = TRUE
         /\ UNCHANGED <<context, at, failed, cancelled, attempts>>

\* The one call of close() that a failed setup makes; what is not closed then
\* is handed to the command, unless an interrupt ended the setup.
MutAfterSetup(k, closed) ==
    /\ Ends(Result(raised))
    /\ UNCHANGED <<context, at, failed, cancelled, attempts, gaveUp>>
AfterSetup(k, closed) ==
    \/ /\ k = None \/ raised = Interrupt
       /\ Ends(Result(raised)) /\ gaveUp' = ~closed
       /\ UNCHANGED <<context, at, failed, cancelled, attempts>>
    \/ /\ k # None /\ raised # Interrupt /\ closed
       /\ Ends("failed")
       /\ UNCHANGED <<context, at, failed, cancelled, attempts, gaveUp>>
    \/ /\ k # None /\ raised # Interrupt /\ ~closed
       /\ BeginClose("handover")
       /\ UNCHANGED <<exit, gaveUp>>

CloseReturns(k, closed) ==
    IF context = "setup" THEN AfterSetup(k, closed) ELSE Fully(k, closed)

\* A removal of the scratch directory deletes its entries one by one, and what
\* it deleted before it failed stays deleted.
CutShort == IF copy = None THEN {None} ELSE {copy, "partial", "gone"}

\* A step of close() raises.
Raise(x) ==
    /\ Closing(x)
    /\ IF x = "copy" THEN copy # None ELSE Holds(x) \cap open # {}
    /\ \E k \in (IF x = "copy" THEN Kinds \cap {Interrupt} ELSE Kinds) :
         Heard(k) /\ CloseReturns(LeavesAs(x, k), FALSE)
    /\ copy' \in IF x = "scratch" THEN CutShort ELSE {copy}
    /\ UNCHANGED <<open, raised, altered>>

\* Everything is released: close() reports the failed verification now, unless
\* a signal arrives first.
Return ==
    /\ pc = "close" /\ at > Len(ClosingOrder)
    /\ \/ /\ CloseReturns(IF failed THEN Error ELSE None, TRUE)
          /\ UNCHANGED signals
       \/ \E k \in Kinds \cap Cancellations : Heard(k) /\ CloseReturns(k, TRUE)
    /\ UNCHANGED <<open, copy, raised, altered>>

CloseSteps ==
    \/ \E i \in 1..Len(ClosingOrder) : Release(ClosingOrder[i]) \/ Raise(ClosingOrder[i])
    \/ Verify \/ VerifyFails \/ TerminationSwallowed \/ Return

\* Somebody writes into the private copy while the model runs from it.
Alter ==
    /\ copy = "whole" /\ "embedding" \in open
    /\ copy' = "altered" /\ altered' = TRUE
    /\ UNCHANGED <<command, open, context, at, failed, cancelled, attempts, signals>>
=============================================================================
