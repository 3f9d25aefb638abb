----------------------------- MODULE MCUWSJobs -----------------------------
(* UWSJobs with interchangeable requests and arq jobs, and the choices of    *)
(* operations that the runs are about.                                       *)
EXTENDS UWSJobs, TLC

Symmetry == Permutations(Requests) \union Permutations(ArqIds)
AnyOp == AllOps
AsyncOps == {"create_run", "abort", "delete"}
RunOps == {"create_run"}

\* Bound: arq runs a job again only where there is one, asked for by a sync
\* request, which may be deleted.
RestartsOrRequests ==
    \/ \A a \in ArqIds : arq[a].runs <= 1
    \/ /\ \A r \in Requests : req[r].op \in {"sync", "delete", None}
       /\ Cardinality({a \in ArqIds : arq[a].status # "none"}) = 1
=============================================================================
