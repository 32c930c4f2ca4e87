-------------------------- MODULE MCCheckPipeline --------------------------
(***************************************************************************)
(* CheckPipeline on small sets of checks and results.                      *)
(***************************************************************************)
EXTENDS CheckPipeline, TLC

CONSTANT watched  \* the check whose client and expiry are explored in full

(* Results are interchangeable.                                            *)
Symmetry == Permutations(Result)

(* Bound of the run with two checks: the other checks are load on the bus, *)
(* the workers and the repository; they do not expire and their client     *)
(* does no more than post and wait.                                        *)
OthersAreLoad ==
  \A c \in Check \ {watched} :
    c \notin expired' /\ client'[c] \in {"new", "publishing", "waiting"}

LoadedNext == PipelineNext /\ OthersAreLoad
LoadedSpec == PipelineInit /\ [][LoadedNext]_pipelineVars

FairLoadedSpec ==
  LoadedSpec /\ WF_pipelineVars(AMLWorker) /\ WF_pipelineVars(ReportWorker)

=============================================================================
