--------------------------- MODULE MCSwallowPaths ---------------------------
EXTENDS SwallowPaths

\* The cases of the scripts ...
AllCases == S1 \union S1b \union S2 \union S3 \union S4 \union S5 \union S6 \union S7
            \union S8 \union S8b \union S10 \union S11 \union S12 \union S13 \union run_raising

\* ... and what they leave out: every interference under every durability, with
\* either trap; the fence in put of a subgraph that races an outer error; the
\* error handler on the async runtime.
Interfered == {Case(Linear, r, d, t, e) : r \in Runtimes, d \in Durabilities,
                    t \in {N1Write, AnyPut, Trap("put", put_from_step(1), AnyLoop)},
                    e \in {"abandon", "sigint", "cancel"}}
SubgraphPut == {Case(SubgraphRace, "sync", d, Trap("put", always, ns_nonempty), "none") : d \in MidRun}
HandledAsync == {[c EXCEPT !.runtime = "async"] : c \in S7}

Wide == AllCases \union Interfered \union SubgraphPut \union HandledAsync
=============================================================================
