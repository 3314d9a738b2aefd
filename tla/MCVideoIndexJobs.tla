-------------------------- MODULE MCVideoIndexJobs --------------------------
(* Small instances of VideoIndexJobs for TLC. *)
EXTENDS VideoIndexJobs

\* Three of the seven stages: one that publishes frames, a semantic one that
\* needs the frames, and the text vectors that embed the semantic one.
MCStageOrder == <<"scenes", "ocr", "text_vectors">>

\* The two mandatory stages, for runs about jobs rather than releases.
MCShortOrder == <<"scenes", "text_vectors">>

\* p2 differs from p1 in the semantic stage, hence in the text vectors.
MCSpecOf ==
    [p \in Plans |-> [s \in Stages |->
        IF s = "scenes" \/ p = "p1" THEN "spec1" ELSE "spec2"]]
=============================================================================
