--------------------------- MODULE OwnershipSuite ---------------------------
(***************************************************************************)
(* The write-ownership capability of the conformance suite (upstream/      *)
(* checkpoint-conformance-write-ownership): the contract of ownership.py,  *)
(* the clauses that test it, and a family of savers that keep it or break  *)
(* it.  The question is whether passing the clauses is the same as keeping *)
(* the contract.                                                           *)
(*                                                                         *)
(* A clause is a sequence of operations on a thread of its own; the state  *)
(* is the saver's and the place the runner has got to.                     *)
(***************************************************************************)
EXTENDS Naturals, Sequences, SequencesExt

CONSTANTS
    Savers,     \* the savers to test, members of Family
    Interrupted \* those of them whose run may be cancelled or interrupted

VARIABLES
    saver,      \* the saver under test
    cl, pos,    \* the clause, and the operation in it, to be done next
    token,      \* per thread: claims made so far
    handle,     \* per claimed writer: its thread and token
    spent,      \* writers that were refused
    ids,        \* the thread's checkpoints, oldest first
    rows,       \* its writes: <<checkpoint, task, channel, value>>
    failures,   \* clauses that failed
    aborted,    \* has an exception left the runner?
    interrupted \* history: was the run cancelled or interrupted?

vars == <<saver, cl, pos, token, handle, spent, ids, rows, failures, aborted, interrupted>>

-----------------------------------------------------------------------------
(* Savers: how a claim supersedes, what becomes of a write by a superseded  *)
(* owner on either path, how the owner is told, what the barrier does.      *)

Saver(supersedes, put, writes, tells, barrier, once) ==
    [supersedes |-> supersedes, enforce |-> [put |-> put, writes |-> writes],
     tells |-> tells, barrier |-> barrier, once |-> once]

\* Every way of superseding, of enforcing on either path, of telling, of answering
\* the barrier, of keeping on.
Enforcement == {"drop", "store", "skip"}
Family == {Saver(s, p, w, t, b, o) :
              s \in {"next", "never", "saver", "first", "always", "toggle"}, p \in Enforcement, w \in Enforcement,
              t \in {"raise", "quiet", "unmarked"},
              b \in {"none", "fine", "current", "unmarked", "always"}, o \in BOOLEAN}

ASSUME SaversAssumption == Savers \subseteq Family /\ Interrupted \subseteq Savers

OwnedInMemorySaver == Saver("next", "drop", "drop", "raise", "current", FALSE)
HostileInMemorySaver == Saver("never", "skip", "skip", "quiet", "none", FALSE)
SilentInMemorySaver == Saver("next", "drop", "drop", "quiet", "fine", FALSE)
DeferredInMemorySaver == Saver("next", "drop", "drop", "quiet", "current", FALSE)

\* The bookkeeping that answers at the barrier, on a saver that stores any write.
FenceRemoved == Saver("next", "skip", "skip", "quiet", "current", FALSE)

\* The contract, in the saver's terms: claims are monotonic and per thread, a
\* write of a superseded owner is not durable, and the owner can learn of it.
SupportsWriteOwnership(s) ==
    /\ s.supersedes = "next"
    /\ s.enforce = [put |-> "drop", writes |-> "drop"]
    /\ ~s.once
    /\ s.tells = "raise" \/ (s.tells = "quiet" /\ s.barrier = "current")
    /\ s.barrier # "always"

Silent(s) == s.supersedes \in {"next", "never"} /\ s.tells = "quiet" /\ s.barrier \in {"none", "fine"}

-----------------------------------------------------------------------------
(* Operations.  Stale(o) is observe_rejection of o.                         *)

Claim(h, t) == [op |-> "claim", h |-> h, t |-> t]
Put(h, c) == [op |-> "put", h |-> h, c |-> c]
Write(h, c, ch, v) == [op |-> "writes", h |-> h, c |-> c, ch |-> ch, v |-> v]
Stale(o) == [op |-> "stale", of |-> o]
TipIs(c) == [op |-> "tip", c |-> c]
IdsAre(cs) == [op |-> "ids", cs |-> cs]
WritesAre(c, vs) == [op |-> "rows", c |-> c, vs |-> vs]
Barrier(h) == [op |-> "barrier", h |-> h]

Owned == <<Claim("a", "t1"), Put("a", "c1")>>
Superseded == Append(Owned, Claim("b", "t1"))

claim_returns_a_writer == <<Claim("a", "t1")>>
current_owner_can_put == Owned \o <<TipIs("c1")>>
current_owner_can_put_writes == Owned \o <<Write("a", "c1", "ch", "owned"), WritesAre("c1", {"owned"})>>
put_is_rejected == Append(Superseded, Stale(Put("a", "c2")))
put_is_not_durable == Append(put_is_rejected, IdsAre({"c1"}))
cannot_fork_the_chain ==
    Superseded \o <<Put("b", "c2"), TipIs("c2"), Stale(Put("a", "c3")), TipIs("c2"), IdsAre({"c1", "c2"})>>
put_writes_is_rejected == Append(Superseded, Stale(Write("a", "c1", "ch", "stale")))
put_writes_is_not_durable == Append(put_writes_is_rejected, WritesAre("c1", {}))
cannot_displace_the_current_owners_write ==
    Superseded \o <<Write("b", "c1", "ch", "current"), Stale(Write("a", "c1", "ch", "stale")),
                    WritesAre("c1", {"current"})>>
cannot_displace_a_special_channel_write ==
    Superseded \o <<Write("b", "c1", "__resume__", "current"), Stale(Write("a", "c1", "__resume__", "stale")),
                    WritesAre("c1", {"current"})>>
stays_superseded == Superseded \o <<Stale(Put("a", "c2")), Stale(Put("a", "c3")), IdsAre({"c1"})>>
ownership_is_per_thread == <<Claim("a", "t1"), Claim("b", "t2"), Put("a", "c1"), TipIs("c1")>>
new_owner_can_write_after_superseding ==
    Superseded \o <<Put("b", "c2"), Write("b", "c2", "ch", "recovered"), TipIs("c2"),
                    WritesAre("c2", {"recovered"})>>
duplicate_put_writes_is_not_a_rejection ==
    Owned \o <<Write("a", "c1", "ch", "v"), Write("a", "c1", "ch", "v"), Barrier("a")>>
reads_do_not_require_ownership == Owned \o <<TipIs("c1"), IdsAre({"c1"})>>

ALL_WRITE_OWNERSHIP_TESTS ==
    << claim_returns_a_writer, current_owner_can_put, current_owner_can_put_writes,
       put_is_rejected, put_is_not_durable, cannot_fork_the_chain,
       put_writes_is_rejected, put_writes_is_not_durable,
       cannot_displace_the_current_owners_write, cannot_displace_a_special_channel_write,
       stays_superseded, ownership_is_per_thread, new_owner_can_write_after_superseding,
       duplicate_put_writes_is_not_a_rejection, reads_do_not_require_ownership >>

EXPECTED_HOSTILE_FAILURES == 4..11
DURABILITY_CLAUSES == {5, 6, 8, 10, 11}

-----------------------------------------------------------------------------
NoHandle == [t |-> "none", token |-> 0]
NoClaims == [t \in {"t1", "t2"} |-> 0]
NoHandles == [h \in {"a", "b"} |-> NoHandle]

TypeOK ==
    /\ saver \in Savers
    /\ cl \in 1..(Len(ALL_WRITE_OWNERSHIP_TESTS) + 1) /\ pos \in 1..9
    /\ token \in [{"t1", "t2"} -> 0..2]
    /\ \A h \in {"a", "b"} : handle[h].token \in 0..2
    /\ spent \subseteq {"a", "b"}
    /\ ids \in Seq({"c1", "c2", "c3"}) /\ IsInjective(ids)
    /\ \A r \in rows : r[1] \in Range(ids)
    /\ failures \subseteq 1..Len(ALL_WRITE_OWNERSHIP_TESTS)
    /\ aborted \in BOOLEAN /\ interrupted \in BOOLEAN

Init ==
    /\ saver \in Savers
    /\ cl = 1 /\ pos = 1
    /\ token = NoClaims /\ handle = NoHandles
    /\ spent = {} /\ ids = <<>> /\ rows = {}
    /\ failures = {}
    /\ aborted = FALSE /\ interrupted = FALSE

\* What the saver takes for superseded: a later claim on the thread; nothing;
\* any later claim of its own; every owner but the first; anyone; a change of parity.
IsStale(h) ==
    LET n == handle[h].token  last == token[handle[h].t]
    IN  CASE saver.supersedes = "next"   -> n # last
          [] saver.supersedes = "never"  -> FALSE
          [] saver.supersedes = "saver"  -> h = "a" /\ handle["b"] # NoHandle
          [] saver.supersedes = "first"  -> n # 1
          [] saver.supersedes = "always" -> TRUE
          [] saver.supersedes = "toggle" -> n % 2 # last % 2

\* The saver checks a write on the paths it enforces, or until it refused once.
Checked(o) == saver.enforce[o.op] # "skip" /\ IsStale(o.h) /\ ~(saver.once /\ o.h \in spent)

\* A special channel is upserted, of an ordinary one the first write stays.
Stored(o) ==
    LET same == {r \in rows : r[1] = o.c /\ r[2] = o.ch}
    IN  IF same = {} \/ o.ch = "__resume__" THEN (rows \ same) \union {<<o.c, o.ch, o.v>>} ELSE rows

Effect(o) ==
    /\ IF Checked(o) /\ saver.enforce[o.op] = "drop"
       THEN UNCHANGED <<ids, rows>>
       ELSE IF o.op = "put"
       THEN ids' = Append(ids, o.c) /\ UNCHANGED rows
       ELSE rows' = Stored(o) /\ UNCHANGED ids
    /\ spent' = IF Checked(o) THEN spent \union {o.h} ELSE spent

\* What the awaited call ends in: it returns, or raises a marked exception, or
\* one the suite cannot tell from any other, or one that is no Exception.
WriteEnds(o) ==
    IF ~Checked(o) THEN "returns"
    ELSE CASE saver.tells = "raise"    -> "marked"
           [] saver.tells = "quiet"    -> "returns"
           [] saver.tells = "unmarked" -> "unmarked"

BarrierEnds(h) ==
    CASE saver.barrier \in {"none", "fine"} -> "returns"
      [] saver.barrier = "current"          -> IF IsStale(h) THEN "marked" ELSE "returns"
      [] saver.barrier = "unmarked"         -> IF IsStale(h) THEN "unmarked" ELSE "returns"
      [] saver.barrier = "always"           -> "marked"

\* Mutant: any Exception counts.
is_stale_write_owner_rejection_Any(end) == end \in {"marked", "unmarked"}
is_stale_write_owner_rejection(end) == end = "marked"

\* Mutants: the barrier is not asked; only put is looked at.
observe_rejection_Eager(o) == is_stale_write_owner_rejection(WriteEnds(o))
observe_rejection_PutOnly(o) ==
    o.op = "put" => IF WriteEnds(o) # "returns" THEN is_stale_write_owner_rejection(WriteEnds(o))
                    ELSE is_stale_write_owner_rejection(BarrierEnds(o.h))

\* TRUE if the refusal can be seen, by the write's end or else at the barrier.
observe_rejection(o) ==
    IF WriteEnds(o) # "returns" THEN is_stale_write_owner_rejection(WriteEnds(o))
    ELSE is_stale_write_owner_rejection(BarrierEnds(o.h))

\* The operation's demand.  A write must return, and put must return the id it
\* stored: a quiet owner gives back a config that has none.  Every put is held
\* to it here, also in the clauses that do not take the id at once and go on.  Only a
\* saver that drops quietly what the owner itself puts can tell the difference,
\* and it fails current_owner_can_put, which takes the id, either way.
Accepts(o) ==
    CASE o.op = "claim"   -> TRUE
      [] o.op = "put"     -> WriteEnds(o) = "returns" /\ ~(Checked(o) /\ saver.enforce.put = "drop")
      [] o.op = "writes"  -> WriteEnds(o) = "returns"
      [] o.op = "stale"   -> observe_rejection(o.of)
      [] o.op = "tip"     -> ids # <<>> /\ Last(ids) = o.c
      [] o.op = "ids"     -> Range(ids) = o.cs
      [] o.op = "rows"    -> {r[3] : r \in {s \in rows : s[1] = o.c}} = o.vs
      [] o.op = "barrier" -> BarrierEnds(o.h) = "returns"

Running == cl <= Len(ALL_WRITE_OWNERSHIP_TESTS) /\ ~aborted
Op == ALL_WRITE_OWNERSHIP_TESTS[cl][pos]

aclaim_write_ownership(o) ==
    /\ token' = [token EXCEPT ![o.t] = @ + 1]
    /\ handle' = [handle EXCEPT ![o.h] = [t |-> o.t, token |-> token'[o.t]]]

\* The next clause has a new thread id.
NextClause ==
    /\ cl' = cl + 1 /\ pos' = 1
    /\ token' = NoClaims /\ handle' = NoHandles
    /\ spent' = {} /\ ids' = <<>> /\ rows' = {}

Fails == failures' = failures \union {cl} /\ NextClause

\* One operation of a clause.  An AssertionError, as any Exception, fails the
\* clause; the last operation passes it.
Operate ==
    /\ Running
    /\ IF Accepts(Op) /\ pos < Len(ALL_WRITE_OWNERSHIP_TESTS[cl])
       THEN /\ pos' = pos + 1
            /\ IF Op.op = "claim" THEN aclaim_write_ownership(Op) ELSE UNCHANGED <<token, handle>>
            /\ IF Op.op \in {"put", "writes"} THEN Effect(Op)
               ELSE IF Op.op = "stale" THEN Effect(Op.of) ELSE UNCHANGED <<spent, ids, rows>>
            /\ UNCHANGED <<cl, failures>>
       ELSE IF Accepts(Op) THEN NextClause /\ UNCHANGED failures ELSE Fails
    /\ UNCHANGED <<saver, aborted, interrupted>>

\* Mutant: what left the write is not looked at.
Interrupt_Passes ==
    /\ saver \in Interrupted /\ ~interrupted
    /\ Running
    /\ interrupted' = TRUE
    /\ IF Op.op = "stale" THEN NextClause /\ UNCHANGED <<failures, aborted>>
       ELSE aborted' = TRUE /\ UNCHANGED <<cl, pos, token, handle, spent, ids, rows, failures>>
    /\ UNCHANGED saver

\* The run is cancelled or interrupted while an operation is awaited: what is
\* raised there is no Exception.  It leaves the runner, but for observe_rejection,
\* which takes it for the saver's.
Interrupt ==
    /\ saver \in Interrupted /\ ~interrupted
    /\ Running
    /\ interrupted' = TRUE
    /\ IF Op.op = "stale"
       THEN /\ IF is_stale_write_owner_rejection("interrupt") THEN NextClause /\ UNCHANGED failures ELSE Fails
            /\ UNCHANGED aborted
       ELSE aborted' = TRUE /\ UNCHANGED <<cl, pos, token, handle, spent, ids, rows, failures>>
    /\ UNCHANGED saver

Done == ~Running /\ UNCHANGED vars

Next == Operate \/ Interrupt \/ Done

Spec == Init /\ [][Next]_vars

Over == cl > Len(ALL_WRITE_OWNERSHIP_TESTS)
Passes == Over /\ failures = {}

-----------------------------------------------------------------------------
\* A saver that keeps the contract passes every clause, whether it refuses at
\* the write or at the barrier only.
ContractPasses == SupportsWriteOwnership(saver) /\ ~interrupted => failures = {}

\* A saver that passes every clause keeps the contract: a write that is refused
\* but durable, an owner that is not told or told by an exception of no mark, a
\* guard that works once or on one path, an ownership of too wide a scope all
\* fail some clause.  All but one thing: no clause claims a thread three times, so
\* that a saver whose next but one claim revives a dead handle is as good.
PassMeansContract ==
    Passes => SupportsWriteOwnership([saver EXCEPT !.supersedes = IF @ = "toggle" THEN "next" ELSE @])

\* From the loser's side, silence and no enforcement are the same: a saver that
\* never says so fails the eight clauses a hostile one fails, whatever it stores.
\* And what the fence earns: without it the bookkeeping still passes every clause
\* on observability, and the one where the storage itself keeps the first write.
SilenceIsNoEnforcement ==
    Over /\ ~interrupted =>
        /\ Silent(saver) => failures = EXPECTED_HOSTILE_FAILURES
        /\ saver = FenceRemoved => failures = DURABILITY_CLAUSES

\* An interrupted run does not end in a verdict of conformance.
InterruptNeverPasses == interrupted => ~Passes

Inv == TypeOK /\ InterruptNeverPasses
=============================================================================
