------------------------------ MODULE MCVerdicts ------------------------------
EXTENDS Verdicts

\* The savers of the scripts' lanes, and for a run of their own one that lacks a
\* base capability, has another skipped, and advertises an ownership it breaks.
NoDeleteSaver == [methods |-> {"put", "put_writes", "get_tuple", "list", WO}, skip |-> {"list"}, broken |-> {WO}]
Savers == {l.saver : l \in Range(verdict) \union Range(q_conformance)} \union {NoDeleteSaver}

AllRequests == {All, {WO}, {"put", "list"}}
=============================================================================
