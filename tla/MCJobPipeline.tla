--------------------------- MODULE MCJobPipeline ---------------------------
(* Small instances of the job pipeline.                                     *)
EXTENDS JobProperties, TLC

CONSTANTS alice, yt, web, best, hd, sd, w1, w2, null

NoPairs == {}
WebHd   == {<<web, hd>>}
WebBest == {<<web, best>>}

WorkerSymmetry == Permutations(Workers)
SlotSymmetry   == Permutations(Workers) \cup Permutations({hd, sd})
=============================================================================
