----------------------------- MODULE MCPipeline -----------------------------
(***************************************************************************)
(* Instances of the pipeline for TLC: who there is, and which handler runs *)
(* in which worker process.                                                *)
(***************************************************************************)
EXTENDS PipelineProperties, TLC

CONSTANTS s1, s2, c1, w1, w2, h1, h2, h3

\* A worker whose handlers overlap after a lost connection, and another worker.
OverlapAndWedge == h1 :> w1 @@ h2 :> w1 @@ h3 :> w2

OneWorker == h1 :> w1 @@ h2 :> w1

OneHandler == h1 :> w1

\* The slots are interchangeable: no formula names one.
SlotSymmetry == Permutations(Requests)

\* So are the handlers of OneWorker.
SlotAndHandlerSymmetry == Permutations(Requests) \cup Permutations(Handlers)
=============================================================================
