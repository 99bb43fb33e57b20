---------------------------- MODULE MCLspSession ----------------------------
(***************************************************************************)
(* Small instances of LspSession for TLC.  A behaviour takes one of three  *)
(* lanes: the diagnostic worker with two documents; the worker with one    *)
(* document that may grow over the size limit, and files that change on    *)
(* disk; or a query.  Worker and query only meet in the session state,     *)
(* which both check again under the lock, and the product is far larger.   *)
(***************************************************************************)
EXTENDS LspSession, TLC

CONSTANTS u1, u2, a, Lanes

VARIABLE lane

\* u1 imports u2; u2 stands alone.
MCGroup == [u \in Uris |-> IF u = u1 THEN {u2} ELSE {}]

mcvars == <<vars, lane>>
Diagnosing == lane \in {"worker", "files"} /\ UNCHANGED lane
Answering == lane = "query" /\ UNCHANGED lane

MCInit == Init /\ lane \in Lanes

MCNext ==
    \/ lane # "files" /\ UNCHANGED lane /\ Client(Uris, Texts)
    \/ lane = "files" /\ UNCHANGED lane /\ Client({u1}, {a, Oversized})
    \/ lane # "worker" /\ UNCHANGED lane /\ (DidChangeWatchedFiles \/ \E f \in Files : WriteFile(f))
    \/ Diagnosing /\ (Schedule \/ \E u \in Uris : CloseNotify(u))
    \/ Diagnosing /\ \E w \in Workers : WorkerStep(w) \/ (lane = "files" /\ WorkerPanics(w))
    \/ Answering /\ \E q \in Queries : QueryStep(q) \/ QueryPanics(q) \/ \E u \in Uris : QueryStart(q, u)

MCFairness ==
    /\ WF_mcvars(UNCHANGED lane /\ DidChangeWatchedFiles)
    /\ WF_mcvars(Diagnosing /\ Schedule)
    /\ \A u \in Uris : WF_mcvars(Diagnosing /\ CloseNotify(u))
    /\ \A w \in Workers : WF_mcvars(Diagnosing /\ WorkerStep(w))

\* No worker runs beside a query, so the lane of queries never settles.
WorkerSettles == lane = "query" \/ DiagnosticsSettle

MCSpec == MCInit /\ [][MCNext]_mcvars /\ MCFairness

=============================================================================
