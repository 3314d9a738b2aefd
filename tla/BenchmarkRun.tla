---------------------------- MODULE BenchmarkRun ----------------------------
(***************************************************************************)
(* The commands `run` and `run --preflight` of the benchmark (benchmark/   *)
(* cli.py, benchmark/runner.py) over BenchmarkEnvironment: open the        *)
(* environment, probe the workers, measure and search, close everything,   *)
(* and only then publish the run that was prepared.                        *)
(*                                                                         *)
(* Abstractions.  The cases of the dataset are one step that completes or  *)
(* not.  The registry is one bit; RunRegistry models it.  Argument checks  *)
(* that end the command before anything is opened are left out.            *)
(***************************************************************************)
EXTENDS BenchmarkEnvironment

CONSTANT Modes   \* which of "run" and "preflight" are started

ModesAssumption == Modes \subseteq {"run", "preflight"}

VARIABLES
    mode,
    measuring,    \* measurement_active
    measured,     \* measurement_status
    evidence,     \* the manifest (or the preflight) has measurement evidence
    outcome,      \* run_status, or the readiness of all capabilities
    edited,       \* the working tree is no longer at code_sha
    published     \* the registry holds the run

run == <<mode, measuring, measured, evidence, outcome, edited, published>>
vars == <<environment, command, signals, altered, run>>

Init ==
    /\ mode \in Modes
    /\ pc = "open" /\ open = {} /\ copy = None /\ raised = None
    /\ context = None /\ at = 1 /\ failed = FALSE /\ cancelled = None /\ attempts = 0
    /\ exit = None /\ signals = {} /\ altered = FALSE /\ gaveUp = FALSE
    /\ measuring = FALSE /\ measured = "not_measured" /\ evidence = FALSE
    /\ outcome = None /\ edited = FALSE /\ published = FALSE

Quiet == UNCHANGED <<copy, exit, altered, gaveUp>>
NotClosing == UNCHANGED <<context, at, failed, cancelled, attempts>>

\* The next step of the command.
Goto(step) == pc' = step /\ raised' = raised /\ NotClosing /\ Quiet /\ UNCHANGED signals

\* An exception leaves the try block of _execute_product_run: the environment
\* is closed, and the exception goes on from there.
Escapes(k, as) == raised' = as /\ Heard(k) /\ BeginClose("unwind") /\ Quiet

\* An exception enters the handler of BenchmarkRunner.run.
Handled(k) == raised' = k /\ Heard(k) /\ pc' = "unwind.session" /\ NotClosing /\ Quiet

\* probe_worker_sources turns a termination into an error.
Probe ==
    /\ pc = "probe"
    /\ \/ Goto(IF mode = "run" THEN "measure" ELSE "preflight")
       \/ \E k \in Kinds : Escapes(k, IF k = Interrupt THEN Interrupt ELSE Error)
    /\ UNCHANGED <<open, run>>

\* The measurement starts before the try block of run(): a signal here leaves
\* its session open.  An error closes it, and the run goes on unmeasured.
Measure ==
    /\ pc = "measure"
    /\ \/ /\ Goto("session")
          /\ open' = open \cup {"measurement"} /\ measuring' = TRUE
          /\ UNCHANGED measured
       \/ /\ Error \in Kinds /\ Goto("session")
          /\ measured' = "failed"
          /\ open' \in {open, open \cup {"measurement"}}
          /\ UNCHANGED measuring
       \/ \E k \in Kinds :
            /\ Escapes(k, k)
            /\ open' \in {open, open \cup {"measurement"}}
            /\ UNCHANGED <<measuring, measured>>
    /\ UNCHANGED <<mode, evidence, outcome, edited, published>>

\* _open_session; a session that fails to open may stay with the adapter.
OpenSession ==
    /\ pc = "session"
    /\ \/ Goto("cases") /\ open' = open \cup {"session"}
       \/ \E k \in Kinds : Handled(k) /\ open' \in {open, open \cup {"session"}}
    /\ UNCHANGED run

\* _execute_cases: a case whose provider fails is recorded as failed.
Cases ==
    /\ pc = "cases"
    /\ \/ /\ Goto("finish")
          /\ outcome' \in {"complete"} \cup (IF Error \in Kinds THEN {"partial"} ELSE {})
       \/ \E k \in Kinds : Handled(k) /\ UNCHANGED outcome
    /\ UNCHANGED <<open, mode, measuring, measured, evidence, edited, published>>

FinishMeasurement ==
    /\ pc = "finish"
    /\ \/ /\ ~measuring /\ Goto("close.session")
          /\ UNCHANGED <<measured, evidence>>
       \/ /\ measuring /\ Goto("close.session")
          /\ measured' = "complete" /\ evidence' = TRUE
       \/ /\ measuring /\ Error \in Kinds /\ Goto("close.session")
          /\ measured' = "failed" /\ UNCHANGED evidence
       \/ /\ measuring /\ \E k \in Kinds \cap Cancellations : Handled(k)
          /\ UNCHANGED <<measured, evidence>>
    /\ UNCHANGED <<open, mode, measuring, outcome, edited, published>>

CloseSession ==
    /\ pc = "close.session"
    /\ \/ Goto("close.adapter") /\ open' = open \ {"session"}
       \/ \E k \in Kinds : Handled(k) /\ UNCHANGED open
    /\ UNCHANGED run

\* _close_adapter retries; the adapter swallows a termination.
CloseAdapter ==
    /\ pc = "close.adapter"
    /\ \/ Goto("close.measurement")
       \/ \E k \in Kinds : Handled(k)
    /\ open' = open \ {"session"}
    /\ UNCHANGED run

\* The handler of run(): session, measurement, adapter.  Errors are dropped;
\* a signal replaces the exception and skips the rest.
Unwind ==
    \/ /\ pc = "unwind.session"
       /\ \/ Goto("unwind.measurement") /\ open' \in {open \ {"session"}, open}
          \/ \E k \in Kinds \cap Cancellations : Escapes(k, k) /\ open' = open
       /\ UNCHANGED run
    \/ /\ pc = "unwind.measurement"
       /\ \/ /\ Goto("unwind.adapter")
             /\ open' \in (IF measuring THEN {open \ {"measurement"}, open} ELSE {open})
          \/ \E k \in Kinds \cap Cancellations : measuring /\ Escapes(k, k) /\ open' = open
       /\ UNCHANGED run
    \/ /\ pc = "unwind.adapter"
       /\ \/ Escapes(Error, raised) /\ open' = open \ {"session"}
          \/ \E k \in Kinds :
               /\ Escapes(k, IF raised = Interrupt THEN Interrupt ELSE k)
               /\ open' = open
       /\ UNCHANGED run

\* After the try block: a measurement that cannot be closed is no evidence.
CloseMeasurement ==
    /\ pc = "close.measurement"
    /\ \/ /\ Goto("prepared")
          /\ open' = open \ (IF measuring THEN {"measurement"} ELSE {})
          /\ UNCHANGED <<measured, evidence>>
       \/ /\ measuring /\ Error \in Kinds /\ Goto("prepared")
          /\ measured' = "failed" /\ evidence' = FALSE
          /\ UNCHANGED open
       \/ /\ measuring /\ \E k \in Kinds \cap Cancellations : Escapes(k, k)
          /\ UNCHANGED <<open, measured, evidence>>
    /\ UNCHANGED <<mode, measuring, outcome, edited, published>>

\* _preflight_environment: open a session, ask for the capabilities, close it
\* in a finally clause, whose error replaces what was on its way.
Preflight ==
    /\ pc = "preflight"
    /\ \/ /\ Goto("preflight.measure") /\ UNCHANGED open
          /\ outcome' \in {"complete", "partial"}
       \/ \E k \in Kinds, left \in {open, open \cup {"session"}} :
            /\ Escapes(k, k) \/ (Error \in Kinds /\ Escapes(k, Error))
            /\ open' = left
            /\ UNCHANGED outcome
    /\ UNCHANGED <<mode, measuring, measured, evidence, edited, published>>

\* _preflight_measurement: a signal leaves the session open, and so may an
\* error of its close; then the measurement is not ready.
PreflightMeasurement ==
    /\ pc = "preflight.measure"
    /\ \/ /\ Goto("prepared") /\ measured' = "complete" /\ evidence' = TRUE
          /\ UNCHANGED open
       \/ /\ Error \in Kinds /\ Goto("prepared") /\ measured' = "failed"
          /\ open' \in {open, open \cup {"measurement"}}
          /\ UNCHANGED evidence
       \/ \E k \in Kinds \cap Cancellations :
            /\ Escapes(k, k)
            /\ open' \in {open, open \cup {"measurement"}}
            /\ UNCHANGED <<measured, evidence>>
    /\ UNCHANGED <<mode, measuring, outcome, edited, published>>

CloseEnvironment ==
    /\ pc = "prepared"
    /\ BeginClose("final")
    /\ UNCHANGED <<open, copy, raised, exit, signals, altered, gaveUp, run>>

\* What must hold of a run before it is published, in the code's order.
MutVerdict ==
    IF mode = "preflight"
    THEN CASE measured # "complete" -> "measurement"
           [] OTHER -> IF outcome = "complete" THEN "ready" ELSE "failed"
    ELSE CASE outcome # "complete" -> "failed"
           [] outcome = "complete" /\ measured # "complete" -> "measurement"
           [] OTHER -> IF edited THEN "failed" ELSE "publish"
Verdict ==
    IF mode = "preflight"
    THEN CASE edited -> "failed"
           [] ~edited /\ measured # "complete" -> "measurement"
           [] OTHER -> IF outcome = "complete" THEN "ready" ELSE "failed"
    ELSE CASE outcome # "complete" -> "failed"
           [] outcome = "complete" /\ measured # "complete" -> "measurement"
           [] OTHER -> IF edited THEN "failed" ELSE "publish"

Checks ==
    /\ pc = "checks"
    /\ \/ /\ Verdict = "publish" /\ pc' = "publish" /\ exit' = exit
          /\ UNCHANGED signals
       \/ /\ Verdict # "publish" /\ Ends(Verdict)
          /\ UNCHANGED signals
       \/ \E k \in Kinds : Heard(k) /\ Ends(Result(k))
    /\ UNCHANGED <<environment, raised, gaveUp, altered, run>>

\* publish_prepared_run: an add that fails, or is interrupted, may have
\* published the run all the same.
Publish ==
    /\ pc = "publish"
    /\ \/ published' = TRUE /\ Ends("published")
       \/ \E k \in Kinds : Ends(Result(k)) /\ published' \in BOOLEAN
    /\ UNCHANGED <<environment, raised, gaveUp, signals, altered>>
    /\ UNCHANGED <<mode, measuring, measured, evidence, outcome, edited>>

\* Somebody changes the working tree.
EditCode ==
    /\ ~edited /\ pc \notin {"publish", "done"}
    /\ edited' = TRUE
    /\ UNCHANGED <<environment, command, signals, altered>>
    /\ UNCHANGED <<mode, measuring, measured, evidence, outcome, published>>

CommandStep ==
    \/ (OpenProduct \/ (\E i \in 1..Len(Stages) : SetUp(i) \/ SetUpFails(i))) /\ UNCHANGED run
    \/ Probe \/ Measure \/ OpenSession \/ Cases \/ FinishMeasurement \/ CloseSession
    \/ CloseAdapter \/ Unwind \/ CloseMeasurement \/ Preflight \/ PreflightMeasurement
    \/ CloseEnvironment \/ (CloseSteps /\ UNCHANGED run)
    \/ Checks \/ Publish

Finished == pc = "done" /\ UNCHANGED vars

Next == CommandStep \/ (Alter /\ UNCHANGED run) \/ EditCode \/ Finished

Spec == Init /\ [][Next]_vars
FairSpec == Spec /\ WF_vars(CommandStep)

(***************************************************************************)
(* Properties.                                                             *)
(***************************************************************************)
\* Every variable stays within what the code can put there.
TypeOK ==
    /\ pc \in {"open", "probe", "measure", "session", "cases", "finish", "close.session",
              "close.adapter", "unwind.session", "unwind.measurement", "unwind.adapter",
              "close.measurement", "preflight", "preflight.measure", "prepared", "close",
              "checks", "publish", "done"} \cup {Stages[i] : i \in 1..Len(Stages)}
    /\ mode \in Modes /\ open \subseteq Owned \cup {"measurement"}
    /\ copy \in {None, "whole", "altered", "partial", "gone"}
    /\ raised \in Kinds \cup {None, Error} /\ cancelled \in Cancellations \cup {None}
    /\ context \in {None, "setup", "handover", "unwind", "final"}
    /\ at \in 1..(Len(ClosingOrder) + 1) /\ attempts \in 0..CloseAttempts
    /\ exit \in {None, "published", "ready", "failed", "measurement", "attestation",
                "interrupted", "terminated"}
    /\ (exit # None) = (pc = "done")
    /\ signals \subseteq Cancellations
    /\ {failed, altered, gaveUp, measuring, evidence, edited, published} \subseteq BOOLEAN
    /\ measured \in {"not_measured", "complete", "failed"}
    /\ outcome \in {None, "complete", "partial"}

\* A run in the registry was complete, was measured by a session that was
\* closed, searched a model copy nobody had changed, ran the code it names,
\* and every resource had been given back first.
PublishedIsSound ==
    published =>
        /\ open = {} /\ IsClosed
        /\ outcome = "complete" /\ measured = "complete" /\ evidence
        /\ ~altered /\ ~edited

\* The product lock is given back only after everything opened under it: the
\* sessions, the indexes, the model and the private copies.
LockLast == "product" \notin open => open \cap Owned = {}

\* An interrupt that arrives before the publication keeps the run out of the
\* registry, wherever it arrives and however often cleanup is retried.
InterruptStops == Interrupt \in signals => ~published

\* The private copies are deleted only when nothing reads them any more.
FilesOutliveReaders ==
    copy \in {"partial", "gone"} =>
        open \cap {"adapter", "session", "vector", "embedding", "borrowed", "roots"} = {}

\* A command that ends without having given up has closed the environment.
NothingLeft == pc = "done" /\ ~gaveUp => open \cap Owned = {}

\* A preflight that says it is ready measured, closed what it had opened, and
\* left the code as it was.
ReadyIsSound ==
    exit = "ready" => open = {} /\ evidence /\ outcome = "complete" /\ ~edited /\ ~altered

\* The command ends, even when closing fails each time.
CommandEnds == <>(pc = "done")

\* A command that is interrupted while it closes what a finished run used, and
\* manages to close it with nobody having changed its model copy, ends with the exit code of an interrupt.
InterruptTells ==
    pc = "done" /\ context = "final" /\ Interrupt \in signals /\ ~gaveUp /\ ~altered
        => exit = "interrupted"

\* A command that is terminated before the publication ends with the exit code
\* of a termination, and has published nothing.
TerminationStops == Termination \in signals => ~published
=============================================================================
