------------------------- MODULE ChangeControlClaims -------------------------
(***************************************************************************)
(* Sentences of the repository's own documentation and comments about      *)
(* change control, stated of the model.  Each one is checked by a run of   *)
(* its own, and TLC finds a behaviour of the code that breaks it; the      *)
(* README tells each story.                                                *)
(***************************************************************************)
EXTENDS ChangeControl

\* README.md:369: "A run ends in exactly one of two places: ready_for_prod ... or escalated."
\* When no agent run is left on a change, the record no longer says one is on.
RunEndIsRecorded ==
    \A c \in Changes : (\A g \in Runs : run[g].of = c => run[g].at = "none")
                            => changes[c].agentRun # "running"

\* docs/ARCHITECTURE.md:120: "begin_agent_run is the reservation, so duplicates and concurrent
\* starts are refused."  Two agent runs never work on the same change.
OneRunPerChange ==
    \A g, h \in Runs :
        (g # h /\ run[g].at # "none" /\ run[h].at # "none") => run[g].of # run[h].of

=============================================================================
