-------------------------- MODULE SwallowPaths_proof --------------------------
(***************************************************************************)
(* Proofs about SwallowPaths, for any set of cases: whatever graph is run, *)
(* whichever writes the saver refuses, and whatever interferes.            *)
(*                                                                         *)
(* The argument: a future is looked at after it has ended, and ended       *)
(* futures do not change; a put carries the failures of the puts before    *)
(* it; and a loop that is left without an exception has no failed future,  *)
(* nor has the loop inside it.                                             *)
(***************************************************************************)
EXTENDS SwallowPaths, SequenceTheorems, WellFoundedInduction, TLAPS

-----------------------------------------------------------------------------
(* The inductive invariant.                                                 *)

Fault == {"StaleOwner", "SiblingBoom"}
Names == {"", "start", "i1", "i2", "handler", "error"}
            \union {t.name : t \in UNION {UNION Range(c.graph) : c \in Cases}}
Write == [method : {"put", "put_writes"}, step : Int, task : Names,
          through : BOOLEAN, refused : BOOLEAN, chain : Seq(Fault)]

Data ==
    /\ TypeOK
    /\ pc \in [Loops -> {"idle", "run", "await", "leaving", "exit", "done"}]
    /\ step \in [Loops -> Nat] /\ exc \in [Loops -> Seq(Exceptions)]
    /\ running = [l \in Loops |-> running[l]]
    /\ futs \in [Loops -> Seq(Write)] /\ kept \in [Loops -> Seq(Write)]

\* A future says nothing before it is through; only what the trap is set for
\* fails, and only where it looks.
Fresh(w) == ~w.through /\ ~w.refused /\ w.chain = <<>>
Sound(l, w) ==
    /\ ~w.through => Fresh(w)
    /\ w.refused => w.chain # <<>> /\ l \in case.trap.loops
    /\ w.chain # <<>> => w.method = case.trap.method

\* Puts end in the order of their submission, each with the failures before it.
Ordered(l) ==
    \A i, j \in Puts(l) : j < i /\ futs[l][i].through =>
        futs[l][j].through /\ Range(futs[l][j].chain) \subseteq Range(futs[l][i].chain)

WritesInv(l) ==
    /\ \A i \in DOMAIN futs[l] : Sound(l, futs[l][i])
    /\ \A i \in DOMAIN kept[l] : Fresh(kept[l][i])
    /\ Ordered(l)

\* Under durability "sync" the puts of the past super-steps were accepted, and
\* those of a loop that was left are accepted or in what left it.
Accepted(l) == \A i \in Puts(l) : futs[l][i].through /\ futs[l][i].chain = <<>>
Carried(l) == \A i \in Puts(l) : futs[l][i].through /\ Range(futs[l][i].chain) \subseteq Range(exc[l])
SyncInv(l) ==
    case.durability = "sync" =>
        /\ pc[l] = "run" /\ step[l] # 1 => Accepted(l)
        /\ case.env = "none" /\ pc[l] \in {"leaving", "exit", "done"} => Accepted(l) \/ Carried(l)

\* Where a loop is, and what its futures have come to by then.
PlaceInv(l) ==
    /\ pc[l] \in {"idle", "run", "await"} => exc[l] = <<>>
    /\ pc[l] = "await" => case.durability = "sync" /\ Puts(l) # {}
    /\ pc[l] = "done" => \A i \in DOMAIN futs[l] : futs[l][i].through
    /\ pc[l] = "done" /\ exc[l] = <<>> => Failed(l) = {}
    /\ pc[l] = "idle" => step[l] = 1 /\ futs[l] = <<>>
    /\ case.durability = "exit" /\ (l = Inner \/ pc[l] \notin {"exit", "done"}) => futs[l] = <<>>

LoopInv(l) == WritesInv(l) /\ PlaceInv(l) /\ SyncInv(l)

\* A subgraph that has not ended well is inside a task, or an exception that
\* nobody swallows leaves the run.
InnerFine == pc[Inner] = "idle" \/ (pc[Inner] = "done" /\ exc[Inner] = <<>>)
SubgraphInv ==
    /\ \/ InnerFine
       \/ pc[Outer] = "run" /\ \E t \in running[Outer] : t.does = "sub"
       \/ pc[Outer] \in {"leaving", "exit", "done"} /\ exc[Outer] \notin {<<>>, <<"GraphInterrupt">>}
    /\ pc[Outer] # "idle"
    /\ pc[Outer] = "done" => pc[Inner] \in {"idle", "done"}

\* Where an exception comes from: the futures of a loop ...
Raised(l, e) ==
    \E i \in Failed(l) :
        /\ e = futs[l][i].chain
        /\ \/ i \in Puts(l)
           \/ case.runtime = "async" /\ i \in ErrorWrites(l)
           \/ pc[l] = "done" /\ \A j \in Failed(l) : i <= j

\* ... or the graph, or the outside.
Alien == {<<"NodeBoom">>, <<"KeyboardInterrupt">>, <<"CancelledError">>, <<"GeneratorExit">>}
CauseInv ==
    /\ exc[Inner] = <<>> \/ Raised(Inner, exc[Inner])
    /\ \/ exc[Outer] \in {<<>>} \union Alien
       \/ exc[Outer] = <<"GraphInterrupt">> /\ pc[Outer] = "leaving"
       \/ exc[Outer] = <<"GraphDrained">> /\ pc[Outer] = "done" /\ Failed(Outer) = {} /\ InnerFine
       \/ \E l \in Loops : Raised(l, exc[Outer])

IInv ==
    /\ Data
    /\ \A l \in Loops : LoopInv(l)
    /\ SubgraphInv
    /\ CauseInv
    /\ case.durability = "sync" => ~ranLate

-----------------------------------------------------------------------------
(* First and last, and the graphs.                                          *)

LEMMA FirstIs ==
    ASSUME NEW S, S \subseteq Nat, S # {}
    PROVE  FirstOf(S) \in S /\ \A j \in S : FirstOf(S) <= j
  <1>1. PICK x \in S : \A y \in S : <<y, x>> \notin OpToRel(<, Nat)
    BY WFMin, NatLessThanWellFounded
  <1>2. \A y \in S : x <= y
    <2> TAKE y \in S
    <2>1. <<y, x>> \notin OpToRel(<, Nat) /\ y \in Nat /\ x \in Nat
      BY <1>1
    <2>2. ~(y < x)
      BY <2>1 DEF OpToRel
    <2>3. y \in Nat /\ x \in Nat
      OBVIOUS
    <2>4. QED
      BY <2>2, <2>3
  <1>3. QED
    BY <1>2 DEF FirstOf

LEMMA LastIs ==
    ASSUME NEW n \in Nat, NEW S, S \subseteq 1..n, S # {}
    PROVE  LastOf(S) \in S /\ \A j \in S : j <= LastOf(S)
  <1> DEFINE U == {n - j : j \in S}
  <1>1. U \subseteq Nat /\ U # {}
    <2>1. PICK k \in S : TRUE
      OBVIOUS
    <2>2. n - k \in U
      BY <2>1
    <2>3. QED
      BY <2>2
  <1>2. PICK x \in U : \A y \in U : <<y, x>> \notin OpToRel(<, Nat)
    BY <1>1, WFMin, NatLessThanWellFounded
  <1>3. PICK k \in S : x = n - k
    BY <1>2
  <1>4. \A j \in S : j <= k
    <2> TAKE j \in S
    <2>1. n - j \in U /\ n - j \in Nat /\ x \in Nat
      BY <1>1, <1>2
    <2>2. <<n - j, x>> \notin OpToRel(<, Nat)
      BY <1>2, <2>1
    <2>3. ~(n - j < x)
      BY <2>1, <2>2 DEF OpToRel
    <2>4. QED
      BY <1>3, <2>3
  <1>5. QED
    BY <1>4 DEF LastOf

LEMMA StartIs == \A t \in START : t.name = "start" /\ t.does = "ok"
  BY DEF START, Ok, T

\* Every graph begins with START; a subgraph's tasks return.
LEMMA Graphs ==
    ASSUME case \in Cases, NEW l \in Loops
    PROVE  /\ Len(Graph(l)) \in Nat \ {0}
           /\ Graph(l)[1] = START
           /\ \A k \in 1..Len(Graph(l)) : \A t \in Graph(l)[k] :
                 t.name \in Names /\ (l = Inner => t.does = "ok")
  <1>1. CASE l = Inner
    <2>1. \A t \in START \union Ok({"i1"}) \union Ok({"i2"}) : t.name \in Names /\ t.does = "ok"
      <3>1. {"start", "i1", "i2"} \subseteq Names
        BY DEF Names
      <3>2. ASSUME NEW n \in Names, NEW t \in Ok({n}) PROVE t.name \in Names /\ t.does = "ok"
        <4>1. t = [name |-> n, does |-> "ok"]
          BY DEF Ok, T
        <4>2. QED
          BY <4>1
      <3>3. START = Ok({"start"})
        BY DEF START
      <3>4. QED
        BY <3>1, <3>2, <3>3
    <2>2. /\ Len(<<START, Ok({"i1"})>>) = 2 /\ <<START, Ok({"i1"})>>[1] = START /\ <<START, Ok({"i1"})>>[2] = Ok({"i1"})
          /\ Len(<<START, Ok({"i1"}), Ok({"i2"})>>) = 3 /\ <<START, Ok({"i1"}), Ok({"i2"})>>[1] = START
          /\ <<START, Ok({"i1"}), Ok({"i2"})>>[2] = Ok({"i1"}) /\ <<START, Ok({"i1"}), Ok({"i2"})>>[3] = Ok({"i2"})
      OBVIOUS
    <2>3. \/ Graph(l) = <<START, Ok({"i1"})>>
          \/ Graph(l) = <<START, Ok({"i1"}), Ok({"i2"})>>
      BY <1>1 DEF Graph, SubgraphBody
    <2>5. CASE Graph(l) = <<START, Ok({"i1"})>>
      <3>1. Len(Graph(l)) = 2 /\ Graph(l)[1] = START /\ Graph(l)[2] = Ok({"i1"})
        BY <2>2, <2>5
      <3>2. \A k \in 1..2 : k = 1 \/ k = 2
        OBVIOUS
      <3>3. QED
        BY <1>1, <2>1, <3>1, <3>2
    <2>6. CASE Graph(l) = <<START, Ok({"i1"}), Ok({"i2"})>>
      <3>1. Len(Graph(l)) = 3 /\ Graph(l)[1] = START /\ Graph(l)[2] = Ok({"i1"}) /\ Graph(l)[3] = Ok({"i2"})
        BY <2>2, <2>6
      <3>2. \A k \in 1..3 : k = 1 \/ k = 2 \/ k = 3
        OBVIOUS
      <3>3. QED
        BY <1>1, <2>1, <3>1, <3>2
    <2>7. QED
      BY <2>3, <2>5, <2>6
  <1>2. CASE l = Outer
    <2>1. Graph(l) = case.graph /\ l # Inner
      BY <1>2 DEF Graph, Outer, Inner
    <2>2. case.graph \in Seq(SUBSET Task) /\ case.graph # <<>> /\ case.graph[1] = START
      BY CasesAssumption
    <2>3. Len(case.graph) \in Nat \ {0}
      BY <2>2, EmptySeq, LenProperties
    <2>4. ASSUME NEW k \in 1..Len(case.graph), NEW t \in case.graph[k] PROVE t.name \in Names
      <3>1. case.graph[k] \in Range(case.graph)
        BY <2>2, LenProperties DEF Range
      <3>2. t \in UNION {UNION Range(c.graph) : c \in Cases}
        BY <3>1
      <3>3. QED
        BY <3>2 DEF Names
    <2>5. QED
      BY <2>1, <2>2, <2>3, <2>4
  <1>3. QED
    BY <1>1, <1>2 DEF Loops

LEMMA TasksAre ==
    ASSUME Data, NEW l \in Loops, NEW t \in running[l]
    PROVE  /\ t.name \in Names
           /\ l = Inner => t.does = "ok"
           /\ step[l] = 1 => t.name = "start" /\ t.does = "ok"
  <1>1. /\ step[l] \in 1..Len(Graph(l)) /\ t \in Tasks(l) /\ case \in Cases
    BY DEF Data, TypeOK
  <1>2. Handler.name = "handler" /\ Handler.does = "handler" /\ "handler" \in Names
    BY DEF Handler, T, Names
  <1>3. CASE t \in Graph(l)[step[l]]
    BY <1>1, <1>3, Graphs, StartIs
  <1>4. CASE t = Handler /\ \E u \in Graph(l)[step[l]] : u.does = "handled"
    <2>1. PICK u \in Graph(l)[step[l]] : u.does = "handled"
      BY <1>4
    <2>2. u.does # "ok"
      BY <2>1
    <2>3. l # Inner /\ step[l] # 1
      BY <1>1, <2>2, Graphs, StartIs
    <2>4. QED
      BY <1>2, <1>4, <2>3
  <1>5. QED
    BY <1>1, <1>3, <1>4 DEF Tasks

-----------------------------------------------------------------------------
(* A step is of one loop and leaves the other alone.                        *)

Effect(l) ==
    /\ case' = case
    /\ pc' = [pc EXCEPT ![l] = pc'[l]] /\ step' = [step EXCEPT ![l] = step'[l]]
    /\ running' = [running EXCEPT ![l] = running'[l]] /\ exc' = [exc EXCEPT ![l] = exc'[l]]
    /\ futs' = [futs EXCEPT ![l] = futs'[l]] /\ kept' = [kept EXCEPT ![l] = kept'[l]]

\* The other loop.
Aside(m) ==
    /\ pc'[m] = pc[m] /\ step'[m] = step[m] /\ running'[m] = running[m]
    /\ exc'[m] = exc[m] /\ futs'[m] = futs[m] /\ kept'[m] = kept[m]

LEMMA EffectLeaves ==
    ASSUME Data, NEW l \in Loops, Effect(l), NEW m \in Loops, m # l
    PROVE  Aside(m)
  BY DEF Data, Effect, Aside

LEMMA GraphStays ==
    ASSUME case' = case, NEW l \in Loops
    PROVE  Graph(l)' = Graph(l)
  BY DEF Graph, SubgraphBody

\* Types, if the step's own are right.
LEMMA DataStays ==
    ASSUME Data, NEW l \in Loops, Effect(l),
           pc'[l] \in {"idle", "run", "await", "leaving", "exit", "done"},
           step'[l] \in 1..Len(Graph(l)), running'[l] \subseteq Tasks(l)',
           exc'[l] \in Seq(Exceptions), futs'[l] \in Seq(Write), kept'[l] \in Seq(Write),
           kept'[l] # <<>> => case.durability = "exit", ranLate' \in BOOLEAN
    PROVE  Data'
  <1>1. /\ pc' \in [Loops -> {"idle", "run", "await", "leaving", "exit", "done"}]
        /\ exc' \in [Loops -> Seq(Exceptions)]
        /\ futs' \in [Loops -> Seq(Write)] /\ kept' \in [Loops -> Seq(Write)]
        /\ running' = [m \in Loops |-> running'[m]] /\ case' \in Cases /\ case' = case
    BY DEF Data, TypeOK, Effect
  <1>2. step' \in [Loops -> Nat]
    <2>1. step'[l] \in Nat
      BY Graphs DEF Data, TypeOK
    <2>2. QED
      BY <2>1 DEF Data, Effect
  <1>3. ASSUME NEW m \in Loops
        PROVE  /\ step'[m] \in 1..Len(Graph(m)') /\ running'[m] \subseteq Tasks(m)'
               /\ exc'[m] \in Seq(Exceptions) /\ (kept'[m] # <<>> => case'.durability = "exit")
    <2>1. Graph(m)' = Graph(m)
      BY <1>1, GraphStays
    <2>2. CASE m = l
      BY <1>1, <2>1, <2>2
    <2>3. CASE m # l
      <3>1. Aside(m)
        BY <2>3, EffectLeaves
      <3>2. Tasks(m)' = Tasks(m)
        BY <2>1, <3>1 DEF Tasks, Aside
      <3>3. QED
        BY <1>1, <2>1, <3>1, <3>2 DEF Aside, Data, TypeOK
    <2>4. QED
      BY <2>2, <2>3
  <1>4. Write' = Write
    BY DEF Write, Names
  <1>5. TypeOK'
    BY <1>1, <1>3 DEF TypeOK
  <1>6. QED
    BY <1>1, <1>2, <1>4, <1>5 DEF Data

LEMMA AsideSame ==
    ASSUME case' = case, NEW m \in Loops, Aside(m)
    PROVE  /\ Failed(m)' = Failed(m) /\ Puts(m)' = Puts(m) /\ ErrorWrites(m)' = ErrorWrites(m)
           /\ Accepted(m)' = Accepted(m) /\ Carried(m)' = Carried(m) /\ Ordered(m)' = Ordered(m)
  <1>1. Failed(m)' = Failed(m) /\ Puts(m)' = Puts(m) /\ ErrorWrites(m)' = ErrorWrites(m)
    BY DEF Aside, Failed, Puts, ErrorWrites
  <1>2. QED
    BY <1>1 DEF Aside, Accepted, Carried, Ordered, Range

LEMMA AsideStays ==
    ASSUME case' = case, NEW m \in Loops, Aside(m), LoopInv(m)
    PROVE  LoopInv(m)'
  <1>1. WritesInv(m)'
    BY AsideSame DEF LoopInv, WritesInv, Aside, Sound, Fresh
  <1>2. PlaceInv(m)'
    BY AsideSame DEF LoopInv, PlaceInv, Aside
  <1>3. SyncInv(m)'
    BY AsideSame DEF LoopInv, SyncInv, Aside
  <1>4. QED
    BY <1>1, <1>2, <1>3 DEF LoopInv

-----------------------------------------------------------------------------
(* What a step does to the futures of its loop.                             *)

\* It adds new ones, which are not through.
Grows(l) ==
    /\ futs'[l] \in Seq(Write) /\ kept'[l] \in Seq(Write)
    /\ \A i \in DOMAIN futs[l] : i \in DOMAIN futs'[l] /\ futs'[l][i] = futs[l][i]
    /\ \A i \in DOMAIN futs'[l] : i \in DOMAIN futs[l] \/ Fresh(futs'[l][i])
    /\ \A i \in DOMAIN kept'[l] : Fresh(kept'[l][i])

\* No put is among the new ones.
NoPut(l) == Puts(l)' = Puts(l)

LEMMA GrowsKeeps ==
    ASSUME Data, case' = case, NEW l \in Loops, WritesInv(l), Grows(l)
    PROVE  /\ WritesInv(l)'
           /\ Failed(l)' = Failed(l) /\ Failed(l) \subseteq DOMAIN futs[l]
           /\ Puts(l) \subseteq Puts(l)' /\ ErrorWrites(l) \subseteq ErrorWrites(l)'
           /\ Puts(l) \subseteq DOMAIN futs[l]
  <1>1. /\ Puts(l) \subseteq Puts(l)' /\ ErrorWrites(l) \subseteq ErrorWrites(l)'
        /\ Puts(l) \subseteq DOMAIN futs[l] /\ Failed(l) \subseteq DOMAIN futs[l]
    BY DEF Grows, Puts, ErrorWrites, Failed
  <1>2. Failed(l)' = Failed(l)
    BY DEF Grows, Failed, Fresh
  <1>3. \A i \in DOMAIN futs'[l] : Sound(l, futs'[l][i])
    <2> TAKE i \in DOMAIN futs'[l]
    <2>1. CASE i \in DOMAIN futs[l]
      <3>1. Sound(l, futs[l][i]) /\ futs'[l][i] = futs[l][i]
        BY <2>1 DEF WritesInv, Grows
      <3>2. QED
        BY <3>1
    <2>2. CASE Fresh(futs'[l][i])
      BY <2>2 DEF Sound, Fresh
    <2>3. QED
      BY <2>1, <2>2 DEF Grows
  <1>4. Ordered(l)'
    <2>1. \A i \in Puts(l)' : i \in DOMAIN futs'[l] /\ (i \in Puts(l) \/ ~futs'[l][i].through)
      BY DEF Grows, Puts, Fresh
    <2>2. DOMAIN futs[l] = 1..Len(futs[l]) /\ Len(futs[l]) \in Nat /\ DOMAIN futs'[l] = 1..Len(futs'[l]) /\ Len(futs'[l]) \in Nat
      BY LenProperties DEF Data, Grows
    <2>3. ASSUME NEW i \in Puts(l)', NEW j \in Puts(l)', j < i, futs'[l][i].through
          PROVE  futs'[l][j].through /\ Range(futs'[l][j].chain) \subseteq Range(futs'[l][i].chain)
      <3>1. i \in Puts(l) /\ i \in DOMAIN futs[l] /\ j \in 1..Len(futs'[l])
        BY <1>1, <2>1, <2>2, <2>3
      <3>2. j \in DOMAIN futs[l]
        BY <2>2, <2>3, <3>1
      <3>3. futs'[l][i] = futs[l][i] /\ futs'[l][j] = futs[l][j]
        BY <3>1, <3>2 DEF Grows
      <3>4. j \in Puts(l)
        BY <3>2, <3>3 DEF Puts
      <3>5. QED
        BY <2>3, <3>1, <3>3, <3>4 DEF WritesInv, Ordered
    <2>4. QED
      BY <2>3 DEF Ordered
  <1>5. QED
    BY <1>1, <1>2, <1>3, <1>4 DEF WritesInv, Sound, Grows, Fresh

\* What is through stays, in a loop that is done everything.
Keeps(l) ==
    /\ \A i \in DOMAIN futs[l] :
          /\ i \in DOMAIN futs'[l]
          /\ futs'[l][i].method = futs[l][i].method /\ futs'[l][i].task = futs[l][i].task
          /\ futs[l][i].through => futs'[l][i] = futs[l][i]
    /\ pc[l] = "done" => pc'[l] = "done" /\ futs'[l] = futs[l]

LEMMA RaisedStays ==
    ASSUME case' = case, NEW m \in Loops, Keeps(m), NEW e, Raised(m, e)
    PROVE  Raised(m, e)'
  <1>1. PICK i \in Failed(m) :
          /\ e = futs[m][i].chain
          /\ \/ i \in Puts(m)
             \/ case.runtime = "async" /\ i \in ErrorWrites(m)
             \/ pc[m] = "done" /\ \A j \in Failed(m) : i <= j
    BY DEF Raised
  <1>2. i \in DOMAIN futs[m] /\ futs[m][i].through /\ futs[m][i].chain # <<>>
    BY DEF Failed
  <1>3. i \in DOMAIN futs'[m] /\ futs'[m][i] = futs[m][i]
    BY <1>2 DEF Keeps
  <1>4. i \in Failed(m)' /\ (i \in Puts(m) => i \in Puts(m)') /\ (i \in ErrorWrites(m) => i \in ErrorWrites(m)')
    BY <1>2, <1>3 DEF Failed, Puts, ErrorWrites
  <1>5. pc[m] = "done" => pc'[m] = "done" /\ Failed(m)' = Failed(m)
    BY DEF Keeps, Failed
  <1>6. e = futs'[m][i].chain
    BY <1>1, <1>3
  <1>7. QED
    BY <1>1, <1>4, <1>5, <1>6 DEF Raised

LEMMA BothKeep ==
    ASSUME Data, NEW l \in Loops, Effect(l), Keeps(l) \/ (pc[l] # "done" /\ Grows(l))
    PROVE  \A m \in Loops : Keeps(m)
  <1> TAKE m \in Loops
  <1>1. CASE m = l
    BY <1>1 DEF Keeps, Grows
  <1>2. CASE m # l
    BY <1>2, EffectLeaves DEF Keeps, Aside
  <1>3. QED
    BY <1>1, <1>2

\* An exception that was there keeps its cause.
LEMMA CauseStays ==
    ASSUME IInv, case' = case, exc' = exc, \A m \in Loops : Keeps(m),
           pc[Outer] \in {"leaving", "done"} => pc'[Outer] = pc[Outer], InnerFine => InnerFine'
    PROVE  CauseInv'
  <1>1. PICK e : e = exc[Outer]
    OBVIOUS
  <1>2. PICK d : d = exc[Inner]
    OBVIOUS
  <1>3. exc'[Outer] = e /\ exc'[Inner] = d /\ Inner \in Loops /\ Outer \in Loops
    BY <1>1, <1>2 DEF Loops
  <1>4. d = <<>> \/ Raised(Inner, d)'
    BY <1>2, <1>3, RaisedStays DEF IInv, CauseInv
  <1>5. pc[Outer] = "done" => Failed(Outer)' = Failed(Outer)
    BY <1>3 DEF Keeps, Failed
  <1>6. (\E l \in Loops : Raised(l, e)) => \E l \in Loops : Raised(l, e)'
    BY RaisedStays
  <1>7. \/ e \in {<<>>} \union Alien
        \/ e = <<"GraphInterrupt">> /\ pc'[Outer] = "leaving"
        \/ e = <<"GraphDrained">> /\ pc'[Outer] = "done" /\ Failed(Outer)' = {} /\ InnerFine'
        \/ \E l \in Loops : Raised(l, e)'
    BY <1>1, <1>5, <1>6 DEF IInv, CauseInv
  <1>8. exc[Inner]' = d /\ exc[Outer]' = e
    BY <1>3
  <1>9. QED
    BY <1>4, <1>7, <1>8 DEF CauseInv, Alien

-----------------------------------------------------------------------------
(* The saver ends a write.                                                  *)

LEMMA ChainsJoin ==
    ASSUME NEW s \in Seq(Fault), NEW t \in Seq(Fault)
    PROVE  /\ s \o t \in Seq(Fault) /\ Range(t) \subseteq Range(s \o t)
           /\ s \o t # <<>> <=> s # <<>> \/ t # <<>>
  <1>1. /\ s \o t \in Seq(Fault) /\ Len(s \o t) = Len(s) + Len(t) /\ Len(s) \in Nat /\ Len(t) \in Nat
        /\ \A p \in 1..Len(t) : (s \o t)[Len(s) + p] = t[p]
    BY ConcatProperties, LenProperties
  <1>2. Range(t) \subseteq Range(s \o t)
    <2> SUFFICES ASSUME NEW x \in Range(t) PROVE x \in Range(s \o t)
      OBVIOUS
    <2>1. PICK p \in 1..Len(t) : x = t[p]
      BY LenProperties DEF Range
    <2>2. Len(s) + p \in DOMAIN (s \o t)
      BY <1>1, LenProperties
    <2>3. QED
      BY <1>1, <2>1, <2>2 DEF Range
  <1>3. QED
    BY <1>1, <1>2, EmptySeq

LEMMA FaultsAre == case \in Cases => ExcFactory \in Fault
  BY CasesAssumption DEF ExcFactory, Fault

\* The future as it is left.
Ends(l, i, u) ==
    /\ ~futs[l][i].through /\ u \in Write /\ u.through
    /\ u.method = futs[l][i].method /\ u.task = futs[l][i].task
    /\ Sound(l, u)
    /\ i \in Puts(l) => \A j \in Puts(l) : j < i => /\ futs[l][j].through
                                                    /\ Range(futs[l][j].chain) \subseteq Range(u.chain)
    /\ futs'[l] = [futs[l] EXCEPT ![i] = u]

LEMMA ResolveEnds ==
    ASSUME IInv, NEW l \in Loops, NEW i \in DOMAIN futs[l], Resolve(l, i)
    PROVE  Effect(l) /\ \E u : Ends(l, i, u)
  <1> DEFINE w == futs[l][i]
             prev == {j \in Puts(l) : w.method = "put" /\ j < i}
             ctx == IF prev = {} THEN <<>> ELSE futs[l][LastOf(prev)].chain
             own == IF Refuses(l, w) THEN <<ExcFactory>> ELSE <<>>
             u == [w EXCEPT !.through = TRUE, !.refused = own # <<>>, !.chain = own \o ctx]
  <1>1. /\ ~w.through /\ (\A j \in prev : futs[l][j].through)
        /\ futs' = [futs EXCEPT ![l][i] = u]
        /\ UNCHANGED <<case, pc, step, running, kept, exc, ranLate>>
    BY DEF Resolve
  <1>2. /\ futs[l] \in Seq(Write) /\ DOMAIN futs[l] = 1..Len(futs[l]) /\ Len(futs[l]) \in Nat /\ w \in Write
        /\ futs \in [Loops -> Seq(Write)]
    BY LenProperties DEF IInv, Data
  <1>3. Sound(l, w) /\ Ordered(l)
    BY DEF IInv, LoopInv, WritesInv
  <1>4. own \in Seq(Fault) /\ (own # <<>> <=> Refuses(l, w))
    <2>1. ExcFactory \in Fault
      BY FaultsAre DEF IInv, Data, TypeOK
    <2>2. <<ExcFactory>> \in Seq(Fault) /\ <<ExcFactory>> # <<>> /\ <<>> \in Seq(Fault)
      BY <2>1
    <2>3. QED
      BY <2>2
  <1>5. prev = {} \/ (LastOf(prev) \in prev /\ \A j \in prev : j <= LastOf(prev))
    <2>1. prev \subseteq 1..Len(futs[l])
      BY <1>2 DEF Puts
    <2>2. QED
      BY <1>2, <2>1, LastIs
  <1>6. /\ ctx \in Seq(Fault)
        /\ ctx # <<>> => w.method = "put" /\ case.trap.method = "put"
        /\ \A j \in prev : Range(futs[l][j].chain) \subseteq Range(ctx)
    <2>1. CASE prev = {}
      BY <2>1
    <2>2. CASE prev # {}
      <3>1. PICK k \in prev : k = LastOf(prev) /\ \A j \in prev : j <= k
        BY <1>5, <2>2
      <3>2. k \in DOMAIN futs[l] /\ futs[l][k] \in Write /\ futs[l][k].method = "put" /\ w.method = "put"
        BY <1>2 DEF Puts
      <3>3. ctx = futs[l][k].chain /\ ctx \in Seq(Fault)
        BY <2>2, <3>1, <3>2 DEF Write
      <3>4. ctx # <<>> => case.trap.method = "put"
        BY <3>2, <3>3 DEF IInv, LoopInv, WritesInv, Sound
      <3>5. \A j \in prev : j = k \/ j < k
        <4>1. prev \subseteq Nat
          BY <1>2 DEF Puts
        <4>2. QED
          BY <3>1, <4>1
      <3>6. \A j \in prev : Range(futs[l][j].chain) \subseteq Range(ctx)
        BY <1>1, <1>3, <3>3, <3>5 DEF Ordered
      <3>7. QED
        BY <3>2, <3>3, <3>4, <3>6
    <2>3. QED
      BY <2>1, <2>2
  <1> HIDE DEF prev, ctx, own
  <1>7. /\ own \o ctx \in Seq(Fault) /\ Range(ctx) \subseteq Range(own \o ctx)
        /\ own \o ctx # <<>> <=> own # <<>> \/ ctx # <<>>
    BY <1>4, <1>6, ChainsJoin
  <1>8. /\ u \in Write /\ u.through /\ u.method = w.method /\ u.task = w.task
        /\ u.refused = (own # <<>>) /\ u.chain = own \o ctx
    BY <1>2, <1>7 DEF Write
  <1>9. Sound(l, u)
    <2>1. Refuses(l, w) => w.method = case.trap.method /\ l \in case.trap.loops
      BY DEF Refuses
    <2>2. QED
      BY <1>4, <1>6, <1>7, <1>8, <2>1 DEF Sound
  <1>10. i \in Puts(l) => \A j \in Puts(l) : j < i => futs[l][j].through /\ Range(futs[l][j].chain) \subseteq Range(u.chain)
    <2>1. i \in Puts(l) => \A j \in Puts(l) : j < i => j \in prev
      BY DEF Puts, prev
    <2>2. QED
      BY <1>1, <1>6, <1>7, <1>8, <2>1
  <1> HIDE DEF u
  <1>11. futs'[l] = [futs[l] EXCEPT ![i] = u] /\ futs' = [futs EXCEPT ![l] = futs'[l]]
    BY <1>1, <1>2
  <1>12. Effect(l)
    BY <1>1, <1>11 DEF Effect, IInv, Data
  <1>13. QED
    BY <1>1, <1>8, <1>9, <1>10, <1>11, <1>12 DEF Ends, w

LEMMA ResolveKeeps ==
    ASSUME IInv, NEW l \in Loops, NEW i \in DOMAIN futs[l], Resolve(l, i)
    PROVE  IInv'
  <1>1. Effect(l) /\ \E v : Ends(l, i, v)
    BY ResolveEnds
  <1>2. PICK u : Ends(l, i, u)
    BY <1>1
  <1>3. /\ UNCHANGED <<case, pc, step, running, kept, exc, ranLate>>
        /\ Data /\ LoopInv(l) /\ SubgraphInv
    BY DEF Resolve, IInv
  <1>4. futs[l] \in Seq(Write) /\ DOMAIN futs[l] = 1..Len(futs[l]) /\ Len(futs[l]) \in Nat
    BY <1>3, LenProperties DEF Data
  <1>5. /\ futs'[l] \in Seq(Write) /\ DOMAIN futs'[l] = DOMAIN futs[l] /\ futs'[l][i] = u
        /\ \A j \in DOMAIN futs[l] : j # i => futs'[l][j] = futs[l][j]
    BY <1>2, <1>4 DEF Ends
  <1>6. ~futs[l][i].through /\ u.through /\ u.method = futs[l][i].method /\ u.task = futs[l][i].task
    BY <1>2 DEF Ends
  <1>7. pc[l] \notin {"idle", "done"} /\ ~(case.durability = "exit" /\ futs[l] = <<>>)
    <2>1. futs[l] # <<>>
      BY <1>4, EmptySeq
    <2>2. QED
      BY <1>3, <1>6, <2>1 DEF LoopInv, PlaceInv
  <1>8. Keeps(l) /\ Puts(l)' = Puts(l)
    BY <1>5, <1>6, <1>7 DEF Keeps, Puts
  <1>9. Data'
    <2>1. Tasks(l)' = Tasks(l)
      BY <1>3, GraphStays DEF Tasks
    <2>2. QED
      BY <1>1, <1>3, <1>5, <2>1, DataStays DEF Data, TypeOK
  <1>10. WritesInv(l)'
    <2>1. \A j \in DOMAIN futs'[l] : Sound(l, futs'[l][j])
      BY <1>2, <1>3, <1>5 DEF Ends, LoopInv, WritesInv
    <2>2. ASSUME NEW a \in Puts(l), NEW j \in Puts(l), j < a, futs'[l][a].through
          PROVE  futs'[l][j].through /\ Range(futs'[l][j].chain) \subseteq Range(futs'[l][a].chain)
      <3>1. a \in DOMAIN futs[l] /\ j \in DOMAIN futs[l] /\ Ordered(l) /\ a \in Nat /\ j \in Nat
        BY <1>3, <1>4 DEF Puts, LoopInv, WritesInv
      <3>2. CASE a = i
        BY <1>2, <1>5, <2>2, <3>1, <3>2 DEF Ends
      <3>3. CASE a # i
        <4>1. futs'[l][a] = futs[l][a] /\ futs[l][j].through /\ Range(futs[l][j].chain) \subseteq Range(futs[l][a].chain)
          BY <1>5, <2>2, <3>1, <3>3 DEF Ordered
        <4>2. futs'[l][j] = futs[l][j]
          BY <1>5, <1>6, <3>1, <4>1
        <4>3. QED
          BY <4>1, <4>2
      <3>4. QED
        BY <3>2, <3>3
    <2>3. Ordered(l)'
      BY <1>8, <2>2 DEF Ordered
    <2>4. QED
      BY <1>3, <2>1, <2>3 DEF LoopInv, WritesInv, Sound, Fresh
  <1>11. PlaceInv(l)'
    BY <1>3, <1>7, <1>8 DEF LoopInv, PlaceInv
  <1>12. SyncInv(l)'
    <2>1. (\A j \in Puts(l) : futs[l][j].through) => \A j \in Puts(l) : futs'[l][j] = futs[l][j]
      BY <1>5, <1>6 DEF Puts
    <2>2. Accepted(l) => Accepted(l)'
      BY <1>8, <2>1 DEF Accepted
    <2>3. Carried(l) => Carried(l)'
      BY <1>3, <1>8, <2>1 DEF Carried
    <2>4. QED
      BY <1>3, <2>2, <2>3 DEF LoopInv, SyncInv
  <1>13. \A m \in Loops : LoopInv(m)'
    <2> TAKE m \in Loops
    <2>1. CASE m = l
      BY <1>10, <1>11, <1>12, <2>1 DEF LoopInv
    <2>2. CASE m # l
      BY <1>1, <1>3, <2>2, EffectLeaves, AsideStays DEF IInv
    <2>3. QED
      BY <2>1, <2>2
  <1>14. SubgraphInv' /\ (InnerFine => InnerFine')
    BY <1>3 DEF SubgraphInv, InnerFine
  <1>15. CauseInv'
    BY <1>1, <1>3, <1>8, <1>14, BothKeep, CauseStays
  <1>16. QED
    BY <1>3, <1>9, <1>13, <1>14, <1>15 DEF IInv

-----------------------------------------------------------------------------
(* The loop's steps.                                                        *)

LEMMA WritesTyped ==
    /\ \A k \in Int : Put(k) \in Write /\ Fresh(Put(k)) /\ Put(k).method = "put"
    /\ \A n \in Names : PutWrites(n) \in Write /\ Fresh(PutWrites(n)) /\ PutWrites(n).method # "put"
    /\ "error" \in Names
  <1>1. {"", "error"} \subseteq Names /\ <<>> \in Seq(Fault)
    BY DEF Names
  <1>2. ASSUME NEW m \in {"put", "put_writes"}, NEW k \in Int, NEW n \in Names
        PROVE  [method |-> m, step |-> k, task |-> n, through |-> FALSE, refused |-> FALSE, chain |-> <<>>] \in Write
    BY <1>1 DEF Write
  <1>3. \A k \in Int : Put(k) \in Write
    BY <1>1, <1>2 DEF Put
  <1>4. \A n \in Names : PutWrites(n) \in Write
    BY <1>2 DEF PutWrites
  <1>5. \A k \in Int : Fresh(Put(k)) /\ Put(k).method = "put"
    BY DEF Put, Fresh
  <1>6. \A n \in Names : Fresh(PutWrites(n)) /\ PutWrites(n).method # "put"
    BY DEF PutWrites, Fresh
  <1>7. QED
    BY <1>1, <1>3, <1>4, <1>5, <1>6

LEMMA AppendGrows ==
    ASSUME NEW s \in Seq(Write), NEW w \in Write
    PROVE  /\ Append(s, w) \in Seq(Write)
           /\ DOMAIN s = 1..Len(s) /\ Len(s) \in Nat /\ DOMAIN Append(s, w) = 1..(Len(s) + 1)
           /\ \A i \in DOMAIN s : i \in DOMAIN Append(s, w) /\ Append(s, w)[i] = s[i]
           /\ \A i \in DOMAIN Append(s, w) : i \in DOMAIN s \/ Append(s, w)[i] = w
  <1>1. /\ Append(s, w) \in Seq(Write) /\ Len(Append(s, w)) = Len(s) + 1 /\ Len(s) \in Nat
        /\ \A i \in 1..Len(s) : Append(s, w)[i] = s[i]
        /\ Append(s, w)[Len(s) + 1] = w
    BY AppendProperties, LenProperties
  <1>2. DOMAIN s = 1..Len(s) /\ DOMAIN Append(s, w) = 1..(Len(s) + 1)
    BY <1>1, LenProperties
  <1>3. \A i \in 1..(Len(s) + 1) : i \in 1..Len(s) \/ i = Len(s) + 1
    BY <1>1
  <1>4. \A i \in 1..Len(s) : i \in 1..(Len(s) + 1)
    BY <1>1
  <1>5. QED
    BY <1>1, <1>2, <1>3, <1>4

\* A write of a task is submitted, or kept.
LEMMA SubmitGrows ==
    ASSUME Data, NEW l \in Loops, WritesInv(l), NEW n \in Names, submit(l, PutWrites(n))
    PROVE  /\ Grows(l) /\ NoPut(l)
           /\ futs' = [futs EXCEPT ![l] = futs'[l]] /\ kept' = [kept EXCEPT ![l] = kept'[l]]
           /\ case.durability = "exit" => futs' = futs
           /\ kept'[l] # <<>> => case.durability = "exit"
  <1>1. PICK w \in Write : w = PutWrites(n) /\ Fresh(w) /\ w.method # "put"
    BY WritesTyped
  <1>2. futs \in [Loops -> Seq(Write)] /\ kept \in [Loops -> Seq(Write)] /\ futs[l] \in Seq(Write) /\ kept[l] \in Seq(Write)
    BY DEF Data
  <1>3. kept[l] # <<>> => case.durability = "exit"
    BY DEF Data, TypeOK
  <1>4. CASE case.durability = "exit"
    <2>1. kept' = [kept EXCEPT ![l] = Append(kept[l], w)] /\ futs' = futs
      BY <1>1, <1>2, <1>4 DEF submit
    <2>2. kept'[l] = Append(kept[l], w) /\ futs'[l] = futs[l]
      BY <1>2, <2>1
    <2>3. \A i \in DOMAIN kept'[l] : Fresh(kept'[l][i])
      BY <1>1, <1>2, <2>2, AppendGrows DEF WritesInv
    <2>4. Grows(l) /\ NoPut(l)
      BY <1>1, <1>2, <2>2, <2>3, AppendGrows DEF Grows, NoPut, Puts
    <2>5. QED
      BY <1>2, <1>4, <2>1, <2>2, <2>4
  <1>5. CASE case.durability # "exit"
    <2>1. futs' = [futs EXCEPT ![l] = Append(futs[l], w)] /\ kept' = kept
      BY <1>1, <1>2, <1>5 DEF submit
    <2>2. futs'[l] = Append(futs[l], w) /\ kept'[l] = kept[l]
      BY <1>2, <2>1
    <2>3. Grows(l)
      BY <1>1, <1>2, <2>2, AppendGrows DEF Grows, WritesInv
    <2>4. NoPut(l)
      BY <1>1, <1>2, <2>2, AppendGrows DEF NoPut, Puts
    <2>5. QED
      BY <1>2, <1>3, <1>5, <2>1, <2>2, <2>3, <2>4
  <1>6. QED
    BY <1>4, <1>5

LEMMA QuietGrows ==
    ASSUME Data, NEW l \in Loops, WritesInv(l), futs'[l] = futs[l], kept'[l] = kept[l] \/ kept'[l] = <<>>
    PROVE  Grows(l) /\ NoPut(l)
  <1>1. futs[l] \in Seq(Write) /\ kept[l] \in Seq(Write) /\ <<>> \in Seq(Write) /\ DOMAIN <<>> = {}
    BY DEF Data
  <1>2. kept'[l] \in Seq(Write) /\ \A i \in DOMAIN kept'[l] : Fresh(kept'[l][i])
    <2>1. CASE kept'[l] = kept[l]
      BY <1>1, <2>1 DEF WritesInv
    <2>2. CASE kept'[l] = <<>>
      <3>1. DOMAIN kept'[l] = {}
        BY <1>1, <2>2
      <3>2. QED
        BY <1>1, <2>2, <3>1
    <2>3. QED
      BY <2>1, <2>2
  <1>3. QED
    BY <1>1, <1>2 DEF Grows, NoPut, Puts

\* Puts that were looked at stay what they are.
LEMMA AcceptedStays ==
    ASSUME NEW l \in Loops, Grows(l), NoPut(l)
    PROVE  /\ Accepted(l) => Accepted(l)'
           /\ Carried(l) /\ exc'[l] = exc[l] => Carried(l)'
  <1>1. Puts(l)' = Puts(l) /\ \A i \in Puts(l) : futs'[l][i] = futs[l][i]
    BY DEF NoPut, Grows, Puts
  <1>2. QED
    BY <1>1 DEF Accepted, Carried

LEMMA FailedChains ==
    ASSUME Data, NEW l \in Loops, NEW i \in Failed(l)
    PROVE  /\ futs[l][i].chain \in Seq(Fault) /\ futs[l][i].chain # <<>>
           /\ futs[l][i].chain \in Seq(Exceptions)
  <1>1. futs[l] \in Seq(Write) /\ i \in DOMAIN futs[l] /\ futs[l][i].chain # <<>>
    BY DEF Data, Failed
  <1>2. futs[l][i] \in Write
    BY <1>1
  <1>3. futs[l][i].chain \in Seq(Fault)
    BY <1>2 DEF Write
  <1>4. Fault \subseteq Exceptions
    BY DEF Fault, Exceptions
  <1>5. QED
    BY <1>1, <1>3, <1>4

LEMMA FaultsApart ==
    ASSUME NEW e \in Seq(Fault)
    PROVE  e \notin Alien \union {<<"GraphInterrupt">>, <<"GraphDrained">>}
  <1>1. \A x : e = <<x>> => x \in Fault
    <2>1. SUFFICES ASSUME NEW x, e = <<x>> PROVE x \in Fault
      OBVIOUS
    <2>2. Len(e) = 1 /\ e[1] = x
      BY <2>1
    <2>3. QED
      BY <2>2
  <1>2. {"NodeBoom", "KeyboardInterrupt", "CancelledError", "GeneratorExit", "GraphInterrupt", "GraphDrained"} \cap Fault = {}
    BY DEF Fault
  <1>3. QED
    BY <1>1, <1>2 DEF Alien

\* What a step of one loop has to show.
LEMMA Combine ==
    ASSUME IInv, NEW l \in Loops, Effect(l), Grows(l), pc[l] # "done",
           pc'[l] \in {"run", "await", "leaving", "exit", "done"},
           step'[l] \in 1..Len(Graph(l)), running'[l] \subseteq Tasks(l)',
           exc'[l] \in Seq(Exceptions), kept'[l] # <<>> => case.durability = "exit",
           ranLate' \in BOOLEAN, case.durability = "sync" => ~ranLate',
           PlaceInv(l)', SyncInv(l)', SubgraphInv', CauseInv'
    PROVE  IInv'
  <1>1. Data /\ LoopInv(l) /\ case' = case
    BY DEF IInv, Effect
  <1>2. Data'
    BY <1>1, DataStays DEF Grows
  <1>3. WritesInv(l)'
    BY <1>1, GrowsKeeps DEF LoopInv
  <1>4. \A m \in Loops : LoopInv(m)'
    <2> TAKE m \in Loops
    <2>1. CASE m = l
      BY <1>3, <2>1 DEF LoopInv
    <2>2. CASE m # l
      BY <1>1, <2>2, EffectLeaves, AsideStays DEF IInv
    <2>3. QED
      BY <2>1, <2>2
  <1>5. QED
    BY <1>1, <1>2, <1>4 DEF IInv

\* The subgraph's loop moves while the task it is in waits for it.
LEMMA InnerMoves ==
    ASSUME IInv, Effect(Inner), pc[Inner] \notin {"idle", "done"}
    PROVE  SubgraphInv'
  <1>1. Aside(Outer)
    BY EffectLeaves DEF IInv, Loops, Outer, Inner
  <1>2. QED
    BY <1>1 DEF IInv, SubgraphInv, InnerFine, Aside

LEMMA InnerCause ==
    ASSUME IInv, Effect(Inner), pc[Inner] \notin {"idle", "done"}, Keeps(Inner) \/ Grows(Inner),
           exc'[Inner] = <<>> \/ Raised(Inner, exc[Inner])'
    PROVE  CauseInv'
  <1>1. Aside(Outer) /\ Inner \in Loops /\ Outer \in Loops
    BY EffectLeaves DEF IInv, Loops, Outer, Inner
  <1>2. case' = case /\ \A m \in Loops : Keeps(m)
    BY <1>1, BothKeep DEF Effect, IInv
  <1>3. PICK e : e = exc[Outer]
    OBVIOUS
  <1>4. (\E l \in Loops : Raised(l, e)) => \E l \in Loops : Raised(l, e)'
    BY <1>2, RaisedStays
  <1>5. pc[Outer] # "done"
    BY DEF IInv, SubgraphInv
  <1>6. \/ e \in {<<>>} \union Alien
        \/ e = <<"GraphInterrupt">> /\ pc'[Outer] = "leaving"
        \/ \E l \in Loops : Raised(l, e)'
    BY <1>1, <1>3, <1>4, <1>5 DEF IInv, CauseInv, Aside
  <1>7. exc[Outer]' = e
    BY <1>1, <1>3 DEF Aside
  <1>8. QED
    BY <1>6, <1>7 DEF CauseInv, Alien

LEMMA OuterCause ==
    ASSUME IInv, Effect(Outer), pc[Outer] # "done", Grows(Outer),
           \/ exc'[Outer] \in {<<>>} \union Alien
           \/ exc'[Outer] = <<"GraphInterrupt">> /\ pc'[Outer] = "leaving"
           \/ exc'[Outer] = <<"GraphDrained">> /\ pc'[Outer] = "done" /\ Failed(Outer)' = {} /\ InnerFine
           \/ \E l \in Loops : Raised(l, exc[Outer])'
    PROVE  CauseInv'
  <1>1. Aside(Inner) /\ Inner \in Loops /\ Outer \in Loops
    BY EffectLeaves DEF IInv, Loops, Outer, Inner
  <1>2. case' = case /\ \A m \in Loops : Keeps(m)
    BY <1>1, BothKeep DEF Effect, IInv
  <1>3. PICK d : d = exc[Inner]
    OBVIOUS
  <1>4. exc[Inner]' = d
    BY <1>1, <1>3 DEF Aside
  <1>5. d = <<>> \/ Raised(Inner, d)'
    BY <1>1, <1>2, <1>3, RaisedStays DEF IInv, CauseInv
  <1>6. InnerFine' <=> InnerFine
    BY <1>1 DEF InnerFine, Aside
  <1>7. exc[Inner]' = <<>> \/ Raised(Inner, exc[Inner])'
    BY <1>4, <1>5
  <1>8. QED
    BY <1>6, <1>7 DEF CauseInv, Alien

LEMMA NoLateRun ==
    ASSUME IInv, NEW l \in Loops, pc[l] = "run", NEW t \in running[l], NoteRun(l, t)
    PROVE  ranLate' \in BOOLEAN /\ (case.durability = "sync" => ~ranLate')
  <1>1. ranLate \in BOOLEAN /\ (case.durability = "sync" => ~ranLate)
    BY DEF IInv, Data, TypeOK
  <1>2. step[l] = 1 => t.name = "start"
    BY TasksAre DEF IInv
  <1>3. case.durability = "sync" /\ step[l] # 1 => \A i \in Puts(l) : ~futs[l][i].refused
    <2>1. case.durability = "sync" /\ step[l] # 1 => Accepted(l)
      BY DEF IInv, LoopInv, SyncInv
    <2>2. \A i \in Puts(l) : futs[l][i].chain = <<>> => ~futs[l][i].refused
      BY DEF IInv, LoopInv, WritesInv, Sound, Puts
    <2>3. QED
      BY <2>1, <2>2 DEF Accepted
  <1>4. QED
    BY <1>1, <1>2, <1>3 DEF NoteRun

-----------------------------------------------------------------------------
(* Tasks.                                                                   *)

LEMMA Typed ==
    ASSUME IInv, NEW l \in Loops
    PROVE  /\ Data /\ LoopInv(l) /\ WritesInv(l) /\ PlaceInv(l) /\ SyncInv(l)
           /\ step[l] \in 1..Len(Graph(l)) /\ running[l] \subseteq Tasks(l)
           /\ exc[l] \in Seq(Exceptions) /\ (kept[l] # <<>> => case.durability = "exit")
           /\ ranLate \in BOOLEAN /\ (case.durability = "sync" => ~ranLate)
           /\ Len(Graph(l)) \in Nat /\ Graph(l)[1] = START
           /\ pc \in [Loops -> {"idle", "run", "await", "leaving", "exit", "done"}]
           /\ exc \in [Loops -> Seq(Exceptions)]
  BY Graphs DEF IInv, LoopInv, Data, TypeOK

\* A task of a loop that goes on.
LEMMA TaskKeeps ==
    ASSUME IInv, NEW l \in Loops, pc[l] = "run", NEW t \in running[l], NEW n \in Names, NEW R,
           submit(l, PutWrites(n)), NoteRun(l, t), UNCHANGED <<case, pc, step, exc>>,
           running' = [running EXCEPT ![l] = R], R \subseteq Tasks(l),
           l = Outer => InnerFine \/ \E u \in R : u.does = "sub"
    PROVE  IInv'
  <1>1. /\ Data /\ WritesInv(l) /\ PlaceInv(l) /\ SyncInv(l) /\ step[l] \in 1..Len(Graph(l))
        /\ exc[l] \in Seq(Exceptions) /\ exc[l] = <<>>
    BY Typed DEF PlaceInv
  <1>2. /\ Grows(l) /\ NoPut(l)
        /\ futs' = [futs EXCEPT ![l] = futs'[l]] /\ kept' = [kept EXCEPT ![l] = kept'[l]]
        /\ case.durability = "exit" => futs' = futs
        /\ kept'[l] # <<>> => case.durability = "exit"
    BY <1>1, SubmitGrows
  <1>3. running'[l] = R /\ running' = [running EXCEPT ![l] = running'[l]]
    BY <1>1 DEF Data
  <1>4. Effect(l)
    BY <1>1, <1>2, <1>3 DEF Effect, Data
  <1>5. Tasks(l)' = Tasks(l)
    BY GraphStays DEF Tasks
  <1>6. PlaceInv(l)'
    BY <1>1, <1>2 DEF PlaceInv
  <1>7. SyncInv(l)'
    BY <1>1, <1>2, AcceptedStays DEF SyncInv
  <1>8. pc[Outer] # "done" /\ Inner \in Loops /\ Outer \in Loops /\ Inner # Outer /\ (l = Inner \/ l = Outer)
    BY DEF Loops, Outer, Inner, IInv, SubgraphInv
  <1>9. SubgraphInv'
    <2>1. CASE l = Inner
      BY <1>4, <2>1, InnerMoves
    <2>2. CASE l = Outer
      BY <1>3, <2>2 DEF SubgraphInv, InnerFine
    <2>3. QED
      BY <1>8, <2>1, <2>2
  <1>10. CauseInv'
    <2>1. CASE l = Inner
      BY <1>1, <1>2, <1>4, <2>1, InnerCause
    <2>2. CASE l = Outer
      BY <1>1, <1>2, <1>4, <2>2, OuterCause
    <2>3. QED
      BY <1>8, <2>1, <2>2
  <1>11. QED
    BY <1>1, <1>2, <1>3, <1>4, <1>5, <1>6, <1>7, <1>9, <1>10, NoLateRun, Combine

LEMMA CommitKeeps ==
    ASSUME IInv, NEW l \in Loops, NEW t \in running[l], Commit(l, t)
    PROVE  IInv'
  <1> DEFINE R == running[l] \ {t}
  <1>1. /\ pc[l] = "run" /\ submit(l, PutWrites(t.name)) /\ NoteRun(l, t)
        /\ running' = [running EXCEPT ![l] = R]
        /\ UNCHANGED <<case, pc, step, exc>>
        /\ t.does = "sub" => pc[Inner] = "done" /\ exc[Inner] = <<>>
    BY DEF Commit
  <1>2. R \subseteq Tasks(l) /\ t.name \in Names
    BY Typed, TasksAre
  <1>3. l = Outer => InnerFine \/ \E u \in R : u.does = "sub"
    BY <1>1 DEF IInv, SubgraphInv, InnerFine
  <1> HIDE DEF R
  <1>4. QED
    BY <1>1, <1>2, <1>3, TaskKeeps

LEMMA HandleErrorKeeps ==
    ASSUME IInv, NEW l \in Loops, NEW t \in running[l], HandleError(l, t)
    PROVE  IInv'
  <1> DEFINE R == (running[l] \ {t}) \union {Handler}
  <1>1. /\ pc[l] = "run" /\ submit(l, PutWrites("error")) /\ NoteRun(l, t)
        /\ running' = [running EXCEPT ![l] = R]
        /\ UNCHANGED <<case, pc, step, exc>>
        /\ t.does = "handled"
    BY DEF HandleError
  <1>2. Handler.does = "handler" /\ "error" \in Names
    BY WritesTyped DEF Handler, T
  <1>3. R \subseteq Tasks(l)
    <2>1. t \in Graph(l)[step[l]]
      BY <1>1, <1>2, Typed DEF Tasks
    <2>2. Handler \in Tasks(l)
      BY <1>1, <2>1 DEF Tasks
    <2>3. QED
      BY <2>2, Typed
  <1>4. l = Outer => InnerFine \/ \E u \in R : u.does = "sub"
    BY <1>1 DEF IInv, SubgraphInv, InnerFine
  <1> HIDE DEF R
  <1>5. QED
    BY <1>1, <1>2, <1>3, <1>4, TaskKeeps

-----------------------------------------------------------------------------
(* The ways out of a loop.                                                  *)

\* An exception leaves the loop: of a subgraph it is one of its futures', of the
\* run it is none that is swallowed while the subgraph is not through.
LEMMA LeaveKeeps ==
    ASSUME IInv, NEW l \in Loops, pc[l] \in {"run", "await"}, Effect(l), Grows(l), NoPut(l),
           pc'[l] = "leaving", step'[l] = step[l], running'[l] = running[l],
           exc'[l] \in Seq(Exceptions), kept'[l] # <<>> => case.durability = "exit",
           case.durability = "exit" => futs'[l] = futs[l],
           ranLate' \in BOOLEAN, case.durability = "sync" => ~ranLate',
           case.durability = "sync" /\ case.env = "none" => Accepted(l) \/ Carried(l)',
           l = Inner => Raised(l, exc[l])',
           l = Outer => InnerFine \/ exc'[l] \notin {<<>>, <<"GraphInterrupt">>},
           l = Outer => exc'[l] \in {<<>>, <<"GraphInterrupt">>} \union Alien \/ \E m \in Loops : Raised(m, exc[l])'
    PROVE  IInv'
  <1>1. /\ Data /\ PlaceInv(l) /\ SyncInv(l) /\ step[l] \in 1..Len(Graph(l)) /\ running[l] \subseteq Tasks(l)
        /\ case' = case
    BY Typed DEF Effect
  <1>2. Tasks(l)' = Tasks(l)
    BY <1>1, GraphStays DEF Tasks
  <1>3. PlaceInv(l)'
    BY <1>1 DEF PlaceInv
  <1>4. SyncInv(l)'
    BY <1>1, AcceptedStays DEF SyncInv
  <1>5. Inner \in Loops /\ Outer \in Loops /\ Inner # Outer /\ (l = Inner \/ l = Outer)
    BY DEF Loops, Outer, Inner
  <1>6. SubgraphInv'
    <2>1. CASE l = Inner
      BY <2>1, InnerMoves
    <2>2. CASE l = Outer
      <3>1. Aside(Inner)
        BY <1>1, <1>5, <2>2, EffectLeaves
      <3>2. InnerFine' <=> InnerFine
        BY <3>1 DEF InnerFine, Aside
      <3>3. QED
        BY <2>2, <3>2 DEF SubgraphInv
    <2>3. QED
      BY <1>5, <2>1, <2>2
  <1>7. CauseInv'
    <2>1. CASE l = Inner
      BY <2>1, InnerCause
    <2>2. CASE l = Outer
      BY <2>2, OuterCause
    <2>3. QED
      BY <1>5, <2>1, <2>2
  <1>8. QED
    BY <1>1, <1>2, <1>3, <1>4, <1>6, <1>7, Combine

LEMMA SameGrows ==
    ASSUME IInv, NEW l \in Loops, UNCHANGED <<case, step, running, futs, kept>>,
           pc' = [pc EXCEPT ![l] = pc'[l]], exc' = [exc EXCEPT ![l] = exc'[l]]
    PROVE  /\ Effect(l) /\ Grows(l) /\ NoPut(l)
           /\ kept'[l] # <<>> => case.durability = "exit"
           /\ futs'[l] = futs[l] /\ step'[l] = step[l] /\ running'[l] = running[l]
  <1>1. Data /\ WritesInv(l) /\ (kept[l] # <<>> => case.durability = "exit")
    BY Typed
  <1>2. Effect(l)
    BY <1>1 DEF Effect, Data
  <1>3. QED
    BY <1>1, <1>2, QuietGrows

LEMMA InnerIs == Inner \in Loops /\ Outer \in Loops /\ Inner # Outer /\ \A l \in Loops : l = Inner \/ l = Outer
  BY DEF Loops, Outer, Inner

\* What a task raises.
LEMMA RaisesIs ==
    ASSUME IInv, pc[Outer] = "run", NEW t \in running[Outer], Raises(Outer, t) # <<>>
    PROVE  /\ Raises(Outer, t) \in Seq(Exceptions)
           /\ InnerFine \/ Raises(Outer, t) # <<"GraphInterrupt">>
           /\ Raises(Outer, t) \in {<<"GraphInterrupt">>} \union Alien \/ \E m \in Loops : Raised(m, Raises(Outer, t))
  <1>1. /\ <<"NodeBoom">> \in Seq(Exceptions) /\ <<"KeyboardInterrupt">> \in Seq(Exceptions)
        /\ <<"GraphInterrupt">> \in Seq(Exceptions)
    BY DEF Exceptions
  <1>2. <<"NodeBoom">> # <<"GraphInterrupt">> /\ <<"KeyboardInterrupt">> # <<"GraphInterrupt">>
    OBVIOUS
  <1>3. CASE t.does = "boom"
    BY <1>1, <1>2, <1>3 DEF Raises, Alien
  <1>4. CASE t.does = "keyboard"
    BY <1>1, <1>2, <1>4 DEF Raises, Alien
  <1>5. CASE t.does = "interrupt"
    <2>1. running[Outer] = {t} /\ Raises(Outer, t) = <<"GraphInterrupt">>
      BY <1>5 DEF Raises
    <2>2. InnerFine
      BY <1>5, <2>1 DEF IInv, SubgraphInv
    <2>3. QED
      BY <1>1, <2>1, <2>2
  <1>6. CASE t.does = "sub"
    <2>1. Raises(Outer, t) = exc[Inner] /\ exc[Inner] # <<>>
      BY <1>6 DEF Raises
    <2>2. Raised(Inner, exc[Inner])
      BY <2>1 DEF IInv, CauseInv
    <2>3. exc[Inner] \in Seq(Fault) /\ exc[Inner] \in Seq(Exceptions)
      BY <2>2, InnerIs, Typed, FailedChains DEF Raised
    <2>4. exc[Inner] # <<"GraphInterrupt">>
      BY <2>3, FaultsApart
    <2>5. QED
      BY <2>1, <2>2, <2>3, <2>4, InnerIs
  <1>7. CASE t.does \notin {"boom", "keyboard", "interrupt", "sub"}
    BY <1>7 DEF Raises
  <1>8. QED
    BY <1>3, <1>4, <1>5, <1>6, <1>7

LEMMA FailKeeps ==
    ASSUME IInv, NEW l \in Loops, NEW t \in running[l], Fail(l, t)
    PROVE  IInv'
  <1>1. /\ pc[l] = "run" /\ Raises(l, t) # <<>> /\ submit(l, PutWrites("error")) /\ NoteRun(l, t)
        /\ exc' = [exc EXCEPT ![l] = Raises(l, t)] /\ pc' = [pc EXCEPT ![l] = "leaving"]
        /\ UNCHANGED <<case, step, running>>
    BY DEF Fail
  <1>2. t.does # "ok"
    BY <1>1 DEF Raises
  <1>3. l = Outer /\ step[l] # 1
    BY <1>2, TasksAre, InnerIs, Typed
  <1>4. /\ Grows(l) /\ NoPut(l)
        /\ futs' = [futs EXCEPT ![l] = futs'[l]] /\ kept' = [kept EXCEPT ![l] = kept'[l]]
        /\ case.durability = "exit" => futs' = futs
        /\ kept'[l] # <<>> => case.durability = "exit"
    BY <1>1, Typed, WritesTyped, SubmitGrows
  <1>5. PICK e : e = Raises(l, t)
    OBVIOUS
  <1>6. /\ e \in Seq(Exceptions) /\ e # <<>> /\ (InnerFine \/ e # <<"GraphInterrupt">>)
        /\ e \in {<<"GraphInterrupt">>} \union Alien \/ \E m \in Loops : Raised(m, e)
    BY <1>1, <1>3, <1>5, RaisesIs
  <1>7. exc'[l] = e /\ exc' = [exc EXCEPT ![l] = exc'[l]] /\ pc'[l] = "leaving" /\ pc' = [pc EXCEPT ![l] = pc'[l]]
    BY <1>1, <1>5, Typed
  <1>8. Effect(l)
    BY <1>1, <1>4, <1>7, Typed DEF Effect, Data
  <1>9. \A m \in Loops : Keeps(m)
    BY <1>1, <1>4, <1>8, Typed, BothKeep
  <1>10. (\E m \in Loops : Raised(m, e)) => \E m \in Loops : Raised(m, e)'
    BY <1>1, <1>9, RaisedStays
  <1>11. exc[l]' = e
    BY <1>7
  <1>12. case.durability = "sync" => Accepted(l)
    BY <1>1, <1>3, Typed DEF SyncInv
  <1>13. ranLate' \in BOOLEAN /\ (case.durability = "sync" => ~ranLate')
    BY <1>1, NoLateRun
  <1>14. l = Outer => exc'[l] \in {<<>>, <<"GraphInterrupt">>} \union Alien \/ \E m \in Loops : Raised(m, exc[l])'
    BY <1>6, <1>7, <1>10, <1>11
  <1>15. QED
    BY <1>1, <1>3, <1>4, <1>6, <1>7, <1>8, <1>12, <1>13, <1>14, InnerIs, LeaveKeeps

LEMMA HandlerWaitRaisesKeeps ==
    ASSUME IInv, NEW l \in Loops, NEW t \in running[l], HandlerWaitRaises(l, t)
    PROVE  IInv'
  <1>1. /\ pc[l] = "run" /\ t.does = "handler" /\ case.runtime = "async"
        /\ pc' = [pc EXCEPT ![l] = "leaving"]
        /\ UNCHANGED <<case, step, running, futs, kept, ranLate>>
    BY DEF HandlerWaitRaises
  <1>2. PICK i \in ErrorWrites(l) \cap Failed(l) : exc' = [exc EXCEPT ![l] = futs[l][i].chain]
    BY DEF HandlerWaitRaises
  <1>3. l = Outer /\ step[l] # 1
    BY <1>1, TasksAre, InnerIs, Typed
  <1>4. PICK e : e = futs[l][i].chain
    OBVIOUS
  <1>5. e \in Seq(Fault) /\ e # <<>> /\ e \in Seq(Exceptions) /\ Raised(l, e)
    BY <1>1, <1>2, <1>4, Typed, FailedChains DEF Raised
  <1>6. exc'[l] = e /\ exc' = [exc EXCEPT ![l] = exc'[l]] /\ pc'[l] = "leaving" /\ pc' = [pc EXCEPT ![l] = pc'[l]]
    BY <1>1, <1>2, <1>4, Typed
  <1>7. /\ Effect(l) /\ Grows(l) /\ NoPut(l) /\ (kept'[l] # <<>> => case.durability = "exit")
        /\ futs'[l] = futs[l] /\ step'[l] = step[l] /\ running'[l] = running[l]
    BY <1>1, <1>6, SameGrows
  <1>8. \A m \in Loops : Keeps(m)
    BY <1>1, <1>7, Typed, BothKeep
  <1>9. Raised(l, e)'
    BY <1>1, <1>5, <1>8, RaisedStays
  <1>10. exc[l]' = e
    BY <1>6
  <1>11. Raised(l, exc[l])'
    BY <1>9, <1>10
  <1>12. case.durability = "sync" => Accepted(l)
    BY <1>1, <1>3, Typed DEF SyncInv
  <1>13. e # <<"GraphInterrupt">>
    BY <1>5, FaultsApart
  <1>14. QED
    BY <1>1, <1>3, <1>5, <1>6, <1>7, <1>11, <1>12, <1>13, InnerIs, Typed, LeaveKeeps

LEMMA InterfereKeeps == ASSUME IInv, Interfere PROVE IInv'
  <1>1. /\ case.env # "none" /\ pc[Outer] \in {"run", "await"}
        /\ pc' = [pc EXCEPT ![Outer] = "leaving"]
        /\ UNCHANGED <<case, step, running, futs, kept, ranLate>>
    BY DEF Interfere
  <1>2. PICK e : /\ e \in {<<"KeyboardInterrupt">>, <<"CancelledError">>, <<"GeneratorExit">>}
                 /\ exc' = [exc EXCEPT ![Outer] = e]
    <2>1. case.env \in {"sigint", "cancel", "abandon"}
      BY <1>1, CasesAssumption DEF IInv, Data, TypeOK
    <2>2. QED
      BY <2>1 DEF Interfere
  <1>3. /\ exc'[Outer] = e /\ exc' = [exc EXCEPT ![Outer] = exc'[Outer]]
        /\ pc'[Outer] = "leaving" /\ pc' = [pc EXCEPT ![Outer] = pc'[Outer]]
    BY <1>1, <1>2, InnerIs, Typed
  <1>4. e \in Seq(Exceptions) /\ e \in Alien /\ e \notin {<<>>, <<"GraphInterrupt">>}
    <2>1. <<"KeyboardInterrupt">> \in Seq(Exceptions) /\ <<"CancelledError">> \in Seq(Exceptions) /\ <<"GeneratorExit">> \in Seq(Exceptions)
      BY DEF Exceptions
    <2>2. \A x : <<x>> # <<>>
      OBVIOUS
    <2>3. e # <<"GraphInterrupt">> /\ e # <<>>
      BY <1>2, <2>2
    <2>4. e \in Alien
      BY <1>2 DEF Alien
    <2>5. QED
      BY <1>2, <2>1, <2>3, <2>4
  <1>5. /\ Effect(Outer) /\ Grows(Outer) /\ NoPut(Outer) /\ (kept'[Outer] # <<>> => case.durability = "exit")
        /\ futs'[Outer] = futs[Outer] /\ step'[Outer] = step[Outer] /\ running'[Outer] = running[Outer]
    BY <1>1, <1>3, InnerIs, SameGrows
  <1>6. QED
    BY <1>1, <1>3, <1>4, <1>5, InnerIs, Typed, LeaveKeeps

-----------------------------------------------------------------------------
(* The end of a super-step.                                                 *)

LEMMA NoFaults ==
    ASSUME NEW s \in Seq(Fault), NEW S, Range(s) \subseteq S, S \cap Fault = {}
    PROVE  s = <<>>
  <1>1. SUFFICES ASSUME s # <<>> PROVE FALSE
    OBVIOUS
  <1>2. 1 \in DOMAIN s /\ s[1] \in Fault
    BY <1>1, EmptySeq, LenProperties
  <1>3. s[1] \in Range(s)
    BY <1>2 DEF Range
  <1>4. QED
    BY <1>2, <1>3

\* The last put has the failures of all of them.
LEMMA LastPut ==
    ASSUME IInv, NEW l \in Loops, Puts(l) # {}, futs[l][LastOf(Puts(l))].through
    PROVE  LET k == LastOf(Puts(l))
           IN  /\ k \in Puts(l) /\ futs[l][k].chain \in Seq(Fault)
               /\ \A j \in Puts(l) : /\ futs[l][j].through /\ futs[l][j].chain \in Seq(Fault)
                                     /\ Range(futs[l][j].chain) \subseteq Range(futs[l][k].chain)
  <1>1. /\ futs[l] \in Seq(Write) /\ DOMAIN futs[l] = 1..Len(futs[l]) /\ Len(futs[l]) \in Nat
        /\ Ordered(l)
    BY Typed, LenProperties DEF Data, WritesInv
  <1>2. Puts(l) \subseteq 1..Len(futs[l]) /\ \A j \in Puts(l) : futs[l][j].chain \in Seq(Fault)
    <2>1. Puts(l) \subseteq 1..Len(futs[l])
      BY <1>1 DEF Puts
    <2>2. \A j \in 1..Len(futs[l]) : futs[l][j] \in Write
      BY <1>1
    <2>3. QED
      BY <2>1, <2>2 DEF Write
  <1>3. PICK k \in Puts(l) : k = LastOf(Puts(l)) /\ \A j \in Puts(l) : j <= k
    BY <1>1, <1>2, LastIs
  <1>4. \A j \in Puts(l) : j = k \/ j < k
    BY <1>2, <1>3
  <1>5. \A j \in Puts(l) : futs[l][j].through /\ Range(futs[l][j].chain) \subseteq Range(futs[l][k].chain)
    BY <1>1, <1>3, <1>4 DEF Ordered
  <1>6. QED
    BY <1>2, <1>3, <1>5

\* A loop goes on, or ends without an exception.
LEMMA AdvanceKeeps ==
    ASSUME IInv, NEW l \in Loops, pc[l] \in {"run", "await"}, Effect(l), Grows(l),
           pc'[l] \in {"run", "await", "leaving"},
           step'[l] \in 1..Len(Graph(l)), running'[l] \subseteq Tasks(l)',
           exc'[l] = exc[l], kept'[l] # <<>> => case.durability = "exit", ranLate' = ranLate,
           case.durability = "exit" => futs'[l] = futs[l],
           pc'[l] = "await" => case.durability = "sync" /\ Puts(l)' # {},
           case.durability = "sync" => pc'[l] = "await" \/ Accepted(l)',
           l = Outer => InnerFine
    PROVE  IInv'
  <1>1. /\ Data /\ PlaceInv(l) /\ case' = case /\ exc[l] = <<>> /\ exc[l] \in Seq(Exceptions)
        /\ ranLate \in BOOLEAN /\ (case.durability = "sync" => ~ranLate)
    BY Typed DEF Effect, PlaceInv
  <1>2. PlaceInv(l)'
    BY <1>1 DEF PlaceInv
  <1>3. SyncInv(l)'
    BY <1>1 DEF SyncInv
  <1>4. SubgraphInv'
    <2>1. CASE l = Inner
      BY <2>1, InnerMoves
    <2>2. CASE l = Outer
      <3>1. Aside(Inner)
        BY <1>1, <2>2, InnerIs, EffectLeaves
      <3>2. QED
        BY <2>2, <3>1 DEF SubgraphInv, InnerFine, Aside
    <2>3. QED
      BY <2>1, <2>2, InnerIs
  <1>5. CauseInv'
    <2>1. CASE l = Inner
      BY <1>1, <2>1, InnerCause
    <2>2. CASE l = Outer
      BY <1>1, <2>2, OuterCause
    <2>3. QED
      BY <2>1, <2>2, InnerIs
  <1>6. QED
    BY <1>1, <1>2, <1>3, <1>4, <1>5, Combine

LEMMA NextStepIs ==
    ASSUME IInv, NEW l \in Loops, case' = case, running[l] = {} \/ pc[l] = "await", NextStep(l)
    PROVE  /\ pc' = [pc EXCEPT ![l] = pc'[l]] /\ step' = [step EXCEPT ![l] = step'[l]]
           /\ running' = [running EXCEPT ![l] = running'[l]]
           /\ pc'[l] \in {"run", "leaving"}
           /\ step'[l] \in 1..Len(Graph(l)) /\ running'[l] \subseteq Tasks(l)'
  <1>1. /\ Data /\ step[l] \in 1..Len(Graph(l)) /\ Len(Graph(l)) \in Nat /\ running[l] \subseteq Tasks(l)
        /\ Graph(l)' = Graph(l)
    BY Typed, GraphStays
  <1>2. CASE LastStep(l)
    <2>1. pc' = [pc EXCEPT ![l] = "leaving"] /\ UNCHANGED <<step, running>>
      BY <1>2 DEF NextStep
    <2>2. Tasks(l)' = Tasks(l)
      BY <1>1, <2>1 DEF Tasks
    <2>3. QED
      BY <1>1, <2>1, <2>2 DEF Data
  <1>3. CASE ~LastStep(l)
    <2>1. /\ pc' = [pc EXCEPT ![l] = "run"] /\ step' = [step EXCEPT ![l] = step[l] + 1]
          /\ running' = [running EXCEPT ![l] = Graph(l)[step[l] + 1]]
      BY <1>3 DEF NextStep
    <2>2. step[l] # Len(Graph(l))
      BY <1>3 DEF LastStep
    <2>3. /\ pc'[l] = "run" /\ step'[l] = step[l] + 1 /\ running'[l] = Graph(l)[step[l] + 1]
      BY <1>1, <2>1 DEF Data
    <2>4. running'[l] \subseteq Tasks(l)'
      BY <1>1, <2>3 DEF Tasks
    <2>5. QED
      BY <1>1, <2>1, <2>2, <2>3, <2>4 DEF Data
  <1>4. QED
    BY <1>2, <1>3

LEMMA AwaitPutKeeps ==
    ASSUME IInv, NEW l \in Loops, AwaitPut(l)
    PROVE  IInv'
  <1> DEFINE k == LastOf(Puts(l))
             w == futs[l][k]
  <1>1. /\ pc[l] = "await" /\ w.through /\ UNCHANGED <<case, futs, kept, ranLate>>
    BY DEF AwaitPut
  <1>2. /\ PlaceInv(l) /\ Data /\ case.durability = "sync" /\ Puts(l) # {} /\ exc[l] = <<>>
        /\ WritesInv(l) /\ (kept[l] # <<>> => case.durability = "exit")
    BY <1>1, Typed DEF PlaceInv
  <1>3. /\ k \in Puts(l) /\ w.chain \in Seq(Fault)
        /\ \A j \in Puts(l) : /\ futs[l][j].through /\ futs[l][j].chain \in Seq(Fault)
                              /\ Range(futs[l][j].chain) \subseteq Range(w.chain)
    BY <1>1, <1>2, LastPut
  <1>4. l = Outer => InnerFine
    BY <1>1 DEF IInv, SubgraphInv
  <1>5. CASE w.chain = <<>>
    <2>1. NextStep(l) /\ exc' = exc
      BY <1>5 DEF AwaitPut
    <2>2. Grows(l) /\ NoPut(l)
      BY <1>1, <1>2, QuietGrows
    <2>3. Accepted(l)
      <3>1. Range(w.chain) = {}
        BY <1>5 DEF Range
      <3>2. QED
        BY <1>3, <3>1, NoFaults DEF Accepted
    <2>4. Accepted(l)'
      BY <2>2, <2>3, AcceptedStays
    <2>5. /\ pc' = [pc EXCEPT ![l] = pc'[l]] /\ step' = [step EXCEPT ![l] = step'[l]]
          /\ running' = [running EXCEPT ![l] = running'[l]]
          /\ pc'[l] \in {"run", "leaving"}
          /\ step'[l] \in 1..Len(Graph(l)) /\ running'[l] \subseteq Tasks(l)'
      BY <1>1, <2>1, NextStepIs
    <2>6. Effect(l)
      BY <1>1, <1>2, <2>1, <2>5 DEF Effect, Data
    <2>7. QED
      BY <1>1, <1>2, <1>4, <2>1, <2>2, <2>4, <2>5, <2>6, AdvanceKeeps
  <1>6. CASE w.chain # <<>>
    <2>1. /\ exc' = [exc EXCEPT ![l] = w.chain] /\ pc' = [pc EXCEPT ![l] = "leaving"]
          /\ UNCHANGED <<step, running>>
      BY <1>6 DEF AwaitPut
    <2>2. PICK e : e = w.chain
      OBVIOUS
    <2>3. /\ exc'[l] = e /\ exc' = [exc EXCEPT ![l] = exc'[l]]
          /\ pc'[l] = "leaving" /\ pc' = [pc EXCEPT ![l] = pc'[l]]
      BY <2>1, <2>2, Typed
    <2>4. /\ Effect(l) /\ Grows(l) /\ NoPut(l) /\ (kept'[l] # <<>> => case.durability = "exit")
          /\ futs'[l] = futs[l] /\ step'[l] = step[l] /\ running'[l] = running[l]
      BY <1>1, <2>1, <2>3, SameGrows
    <2>5. k \in Failed(l) /\ Raised(l, e)
      <3>1. k \in Failed(l)
        BY <1>1, <1>3, <1>6 DEF Puts, Failed
      <3>2. QED
        BY <1>3, <2>2, <3>1 DEF Raised
    <2>6. e \in Seq(Fault) /\ e # <<>> /\ e \in Seq(Exceptions) /\ e # <<"GraphInterrupt">>
      BY <1>2, <2>2, <2>5, FailedChains, FaultsApart
    <2>7. \A m \in Loops : Keeps(m)
      BY <1>1, <1>2, <2>4, BothKeep
    <2>8. Raised(l, e)'
      BY <1>1, <2>5, <2>7, RaisedStays
    <2>9. exc[l]' = e
      BY <2>3
    <2>10. Raised(l, exc[l])'
      BY <2>8, <2>9
    <2>11. Carried(l)'
      <3>1. \A j \in Puts(l)' : j \in Puts(l) /\ futs'[l][j] = futs[l][j]
        BY <1>1, <2>4 DEF Puts
      <3>2. QED
        BY <1>3, <2>2, <2>9, <3>1 DEF Carried
    <2>12. QED
      BY <1>1, <1>2, <2>3, <2>4, <2>6, <2>10, <2>11, InnerIs, Typed, LeaveKeeps
  <1>7. QED
    BY <1>5, <1>6

LEMMA AfterTickKeeps ==
    ASSUME IInv, NEW l \in Loops, AfterTick(l)
    PROVE  IInv'
  <1>1. /\ pc[l] = "run" /\ running[l] = {} /\ UNCHANGED <<case, exc, ranLate>>
    BY DEF AfterTick
  <1>2. /\ Data /\ WritesInv(l) /\ PlaceInv(l) /\ step[l] \in 1..Len(Graph(l))
        /\ (kept[l] # <<>> => case.durability = "exit")
    BY Typed
  <1>3. PICK w \in Write : w = Put(step[l] - 1) /\ Fresh(w) /\ w.method = "put"
    BY <1>2, WritesTyped
  <1>4. /\ Grows(l) /\ futs' = [futs EXCEPT ![l] = futs'[l]] /\ kept' = [kept EXCEPT ![l] = kept'[l]]
        /\ case.durability = "exit" => futs'[l] = futs[l]
        /\ case.durability # "exit" => Puts(l)' # {}
        /\ kept'[l] # <<>> => case.durability = "exit"
    <2>1. CASE case.durability = "exit"
      <3>1. kept' = [kept EXCEPT ![l] = <<>>] /\ futs' = futs
        BY <2>1 DEF AfterTick
      <3>2. kept'[l] = <<>> /\ futs'[l] = futs[l] /\ futs' = [futs EXCEPT ![l] = futs'[l]] /\ kept' = [kept EXCEPT ![l] = kept'[l]]
        BY <1>2, <3>1 DEF Data
      <3>3. QED
        BY <1>2, <2>1, <3>2, QuietGrows
    <2>2. CASE case.durability # "exit"
      <3>1. futs' = [futs EXCEPT ![l] = Append(futs[l], w)] /\ kept' = kept
        BY <1>2, <1>3, <2>2 DEF AfterTick, Data
      <3>2. futs'[l] = Append(futs[l], w) /\ kept'[l] = kept[l] /\ futs' = [futs EXCEPT ![l] = futs'[l]] /\ kept' = [kept EXCEPT ![l] = kept'[l]]
        BY <1>2, <3>1 DEF Data
      <3>3. futs[l] \in Seq(Write) /\ kept[l] \in Seq(Write)
        BY <1>2 DEF Data
      <3>4. Grows(l)
        BY <1>2, <1>3, <3>2, <3>3, AppendGrows DEF Grows, WritesInv
      <3>5. Puts(l)' # {}
        <4>1. /\ Append(futs[l], w)[Len(futs[l]) + 1] = w /\ Len(futs[l]) + 1 \in DOMAIN Append(futs[l], w)
          BY <3>3, AppendProperties, AppendGrows
        <4>2. Len(futs[l]) + 1 \in Puts(l)'
          BY <1>3, <3>2, <4>1 DEF Puts
        <4>3. QED
          BY <4>2
      <3>6. QED
        BY <1>2, <2>2, <3>2, <3>4, <3>5
    <2>3. QED
      BY <2>1, <2>2
  <1>5. l = Outer => InnerFine
    BY <1>1 DEF IInv, SubgraphInv
  <1>6. CASE case.durability = "sync"
    <2>1. pc' = [pc EXCEPT ![l] = "await"] /\ UNCHANGED <<step, running>>
      BY <1>6 DEF AfterTick
    <2>2. pc'[l] = "await" /\ step'[l] = step[l] /\ running'[l] \subseteq Tasks(l)'
      BY <1>1, <1>2, <2>1 DEF Data
    <2>3. Effect(l)
      BY <1>1, <1>2, <1>4, <2>1, <2>2 DEF Effect, Data
    <2>4. case.durability # "exit"
      BY <1>6
    <2>5. exc'[l] = exc[l]
      BY <1>1
    <2>6. QED
      BY <1>1, <1>2, <1>4, <1>5, <1>6, <2>2, <2>3, <2>4, <2>5, AdvanceKeeps
  <1>7. CASE case.durability # "sync"
    <2>1. NextStep(l)
      BY <1>7 DEF AfterTick
    <2>2. /\ pc' = [pc EXCEPT ![l] = pc'[l]] /\ step' = [step EXCEPT ![l] = step'[l]]
          /\ running' = [running EXCEPT ![l] = running'[l]]
          /\ pc'[l] \in {"run", "leaving"}
          /\ step'[l] \in 1..Len(Graph(l)) /\ running'[l] \subseteq Tasks(l)'
      BY <1>1, <2>1, NextStepIs
    <2>3. Effect(l)
      BY <1>1, <1>2, <1>4, <2>2 DEF Effect, Data
    <2>4. exc'[l] = exc[l]
      BY <1>1
    <2>5. QED
      BY <1>1, <1>4, <1>5, <1>7, <2>2, <2>3, <2>4, AdvanceKeeps
  <1>8. QED
    BY <1>6, <1>7

-----------------------------------------------------------------------------
(* The subgraph's start, and the two exits.                                 *)

LEMMA EnterSubgraphKeeps == ASSUME IInv, EnterSubgraph PROVE IInv'
  <1>1. /\ pc[Outer] = "run" /\ pc[Inner] = "idle" /\ (\E t \in running[Outer] : t.does = "sub")
        /\ pc' = [pc EXCEPT ![Inner] = "run"]
        /\ futs' = [futs EXCEPT ![Inner] = IF case.durability = "exit" THEN <<>> ELSE <<Put(-1)>>]
        /\ UNCHANGED <<case, step, running, kept, exc, ranLate>>
    BY DEF EnterSubgraph
  <1>2. /\ Data /\ WritesInv(Inner) /\ PlaceInv(Inner) /\ step[Inner] \in 1..Len(Graph(Inner)) /\ running[Inner] \subseteq Tasks(Inner)
        /\ exc[Inner] = <<>> /\ exc[Inner] \in Seq(Exceptions) /\ step[Inner] = 1 /\ futs[Inner] = <<>>
        /\ exc[Outer] = <<>> /\ (kept[Inner] # <<>> => case.durability = "exit")
        /\ ranLate \in BOOLEAN /\ (case.durability = "sync" => ~ranLate)
    BY <1>1, InnerIs, Typed DEF PlaceInv
  <1>3. PICK w \in Write : w = Put(-1) /\ Fresh(w)
    BY WritesTyped
  <1>4. /\ pc'[Inner] = "run" /\ pc'[Outer] = "run"
        /\ futs'[Inner] = IF case.durability = "exit" THEN <<>> ELSE <<w>>
        /\ futs' = [futs EXCEPT ![Inner] = futs'[Inner]]
    BY <1>1, <1>2, <1>3, InnerIs DEF Data
  <1>5. Effect(Inner)
    BY <1>1, <1>2, <1>4 DEF Effect, Data
  <1>6. Grows(Inner)
    <2>1. /\ <<w>> \in Seq(Write) /\ DOMAIN <<w>> = 1..1 /\ <<w>>[1] = w
          /\ <<>> \in Seq(Write) /\ DOMAIN <<>> = {}
      OBVIOUS
    <2>2. futs'[Inner] \in Seq(Write) /\ \A i \in DOMAIN futs'[Inner] : Fresh(futs'[Inner][i])
      <3>1. CASE case.durability = "exit"
        <4>1. futs'[Inner] = <<>>
          BY <1>4, <3>1
        <4>2. QED
          BY <2>1, <4>1
      <3>2. CASE case.durability # "exit"
        <4>1. futs'[Inner] = <<w>>
          BY <1>4, <3>2
        <4>2. \A i \in 1..1 : i = 1
          OBVIOUS
        <4>3. QED
          BY <1>3, <2>1, <4>1, <4>2
      <3>3. QED
        BY <3>1, <3>2
    <2>3. DOMAIN futs[Inner] = {}
      BY <1>2, <2>1
    <2>4. kept'[Inner] = kept[Inner] /\ kept[Inner] \in Seq(Write)
      BY <1>1, <1>2, InnerIs DEF Data
    <2>5. QED
      BY <1>2, <2>2, <2>3, <2>4 DEF Grows, WritesInv
  <1>7. PlaceInv(Inner)'
    BY <1>1, <1>2, <1>4, InnerIs DEF PlaceInv
  <1>8. SyncInv(Inner)'
    BY <1>1, <1>2, <1>4 DEF SyncInv
  <1>9. SubgraphInv'
    BY <1>1, <1>4 DEF SubgraphInv
  <1>10. CauseInv'
    <2>1. exc'[Inner] = <<>> /\ exc'[Outer] = <<>>
      BY <1>1, <1>2
    <2>2. QED
      BY <2>1 DEF CauseInv
  <1>11. Tasks(Inner)' = Tasks(Inner)
    BY <1>1, InnerIs, GraphStays DEF Tasks
  <1>12. QED
    BY <1>1, <1>2, <1>4, <1>5, <1>6, <1>7, <1>8, <1>9, <1>10, <1>11, InnerIs, Combine

\* What a subgraph or a run does with an exception it is left by.
LEMMA SuppressKeeps ==
    ASSUME IInv, NEW l \in Loops, Suppress(l)
    PROVE  IInv'
  <1> DEFINE p == Put(step[l] - (IF exc[l] = <<>> THEN 1 ELSE 2))
  <1>1. /\ pc[l] = "leaving" /\ pc' = [pc EXCEPT ![l] = "exit"]
        /\ futs' = IF case.durability = "exit" /\ l = Outer THEN [futs EXCEPT ![l] = <<p>> \o kept[l]] ELSE futs
        /\ exc' = [exc EXCEPT ![l] = IF exc[l] = <<"GraphInterrupt">> /\ l = Outer THEN <<>> ELSE exc[l]]
        /\ UNCHANGED <<case, step, running, kept, ranLate>>
    BY DEF Suppress
  <1>2. /\ Data /\ WritesInv(l) /\ PlaceInv(l) /\ SyncInv(l) /\ step[l] \in 1..Len(Graph(l)) /\ running[l] \subseteq Tasks(l)
        /\ exc[l] \in Seq(Exceptions) /\ (kept[l] # <<>> => case.durability = "exit")
        /\ ranLate \in BOOLEAN /\ (case.durability = "sync" => ~ranLate)
    BY Typed
  <1>3. futs[l] \in Seq(Write) /\ kept[l] \in Seq(Write) /\ futs \in [Loops -> Seq(Write)]
    BY <1>2 DEF Data
  <1>4. p \in Write /\ Fresh(p)
    <2>1. step[l] - (IF exc[l] = <<>> THEN 1 ELSE 2) \in Int
      BY <1>2
    <2>2. QED
      BY <2>1, WritesTyped
  <1> HIDE DEF p
  <1>5. PICK q : q = IF exc[l] = <<"GraphInterrupt">> /\ l = Outer THEN <<>> ELSE exc[l]
    OBVIOUS
  <1>6. /\ exc'[l] = q /\ exc' = [exc EXCEPT ![l] = exc'[l]] /\ q \in Seq(Exceptions)
        /\ pc'[l] = "exit" /\ pc' = [pc EXCEPT ![l] = pc'[l]]
    <2>1. exc \in [Loops -> Seq(Exceptions)] /\ pc \in [Loops -> {"idle", "run", "await", "leaving", "exit", "done"}]
      BY Typed
    <2>2. <<>> \in Seq(Exceptions)
      OBVIOUS
    <2>3. q \in Seq(Exceptions)
      BY <1>2, <1>5, <2>2
    <2>4. exc' = [exc EXCEPT ![l] = q]
      BY <1>1, <1>5
    <2>5. exc'[l] = q /\ exc' = [exc EXCEPT ![l] = exc'[l]]
      BY <2>1, <2>4
    <2>6. pc'[l] = "exit" /\ pc' = [pc EXCEPT ![l] = pc'[l]]
      BY <1>1, <2>1
    <2>7. QED
      BY <2>3, <2>5, <2>6
  <1>7. /\ futs' = [futs EXCEPT ![l] = futs'[l]]
        /\ Grows(l) /\ (case.durability = "sync" => NoPut(l))
        /\ case.durability = "exit" /\ l = Inner => futs'[l] = futs[l]
    <2>1. CASE case.durability = "exit" /\ l = Outer
      <3>1. futs'[l] = <<p>> \o kept[l] /\ futs' = [futs EXCEPT ![l] = futs'[l]] /\ kept'[l] = kept[l]
        BY <1>1, <1>3, <2>1
      <3>2. futs[l] = <<>> /\ DOMAIN futs[l] = {}
        BY <1>1, <1>2, <2>1 DEF PlaceInv
      <3>3. /\ <<p>> \in Seq(Write) /\ Len(<<p>>) = 1 /\ <<p>>[1] = p
        BY <1>4
      <3>4. /\ <<p>> \o kept[l] \in Seq(Write) /\ Len(<<p>> \o kept[l]) = 1 + Len(kept[l])
            /\ (<<p>> \o kept[l])[1] = p /\ Len(kept[l]) \in Nat
            /\ \A i \in 1..Len(kept[l]) : (<<p>> \o kept[l])[1 + i] = kept[l][i]
        BY <1>3, <3>3, ConcatProperties, LenProperties
      <3>5. \A i \in DOMAIN (<<p>> \o kept[l]) : Fresh((<<p>> \o kept[l])[i])
        <4> TAKE i \in DOMAIN (<<p>> \o kept[l])
        <4>1. i \in 1..(1 + Len(kept[l]))
          BY <3>4, LenProperties
        <4>2. CASE i = 1
          BY <1>4, <3>4, <4>2
        <4>3. CASE i # 1
          <5>1. i - 1 \in 1..Len(kept[l]) /\ 1 + (i - 1) = i
            BY <3>4, <4>1, <4>3
          <5>2. (<<p>> \o kept[l])[i] = kept[l][i - 1] /\ i - 1 \in DOMAIN kept[l]
            BY <1>3, <3>4, <5>1, LenProperties
          <5>3. QED
            BY <1>2, <5>2 DEF WritesInv
        <4>4. QED
          BY <4>2, <4>3
      <3>6. Grows(l)
        BY <1>2, <1>3, <3>1, <3>2, <3>4, <3>5 DEF Grows, WritesInv
      <3>7. QED
        BY <2>1, <3>1, <3>6, InnerIs
    <2>2. CASE ~(case.durability = "exit" /\ l = Outer)
      <3>1. futs' = futs /\ kept' = kept
        BY <1>1, <2>2
      <3>2. QED
        BY <1>2, <1>3, <3>1, QuietGrows
    <2>3. QED
      BY <2>1, <2>2
  <1>8. Effect(l)
    BY <1>1, <1>2, <1>6, <1>7 DEF Effect, Data
  <1>9. PlaceInv(l)'
    BY <1>1, <1>2, <1>6, <1>7, InnerIs DEF PlaceInv
  <1>10. SyncInv(l)'
    <2>1. SUFFICES ASSUME case.durability = "sync", case.env = "none" PROVE Accepted(l)' \/ Carried(l)'
      BY <1>1, <1>6 DEF SyncInv
    <2>2. Accepted(l) \/ Carried(l)
      BY <1>1, <1>2, <2>1 DEF SyncInv
    <2>3. CASE exc'[l] = exc[l]
      BY <1>7, <2>1, <2>2, <2>3, AcceptedStays
    <2>4. CASE exc'[l] # exc[l]
      <3>1. exc[l] = <<"GraphInterrupt">>
        BY <1>5, <1>6, <2>4
      <3>2. Range(exc[l]) \cap Fault = {}
        <4>1. DOMAIN <<"GraphInterrupt">> = 1..1 /\ <<"GraphInterrupt">>[1] = "GraphInterrupt" /\ \A i \in 1..1 : i = 1
          OBVIOUS
        <4>2. \A x \in Range(<<"GraphInterrupt">>) : x = "GraphInterrupt"
          BY <4>1 DEF Range
        <4>3. QED
          BY <3>1, <4>2 DEF Fault
      <3>3. \A i \in Puts(l) : futs[l][i].chain \in Seq(Fault)
        <4>1. \A i \in DOMAIN futs[l] : futs[l][i] \in Write
          BY <1>3
        <4>2. QED
          BY <4>1 DEF Puts, Write
      <3>4. Carried(l) => Accepted(l)
        BY <3>2, <3>3, NoFaults DEF Carried, Accepted
      <3>5. QED
        BY <1>7, <2>1, <2>2, <3>4, AcceptedStays
    <2>5. QED
      BY <2>3, <2>4
  <1>11. SubgraphInv'
    <2>1. CASE l = Inner
      BY <1>1, <1>8, <2>1, InnerMoves
    <2>2. CASE l = Outer
      <3>1. Aside(Inner)
        BY <1>2, <1>8, <2>2, InnerIs, EffectLeaves
      <3>2. InnerFine' <=> InnerFine
        BY <3>1 DEF InnerFine, Aside
      <3>3. InnerFine \/ (exc[Outer] \notin {<<>>, <<"GraphInterrupt">>} /\ q = exc[Outer])
        BY <1>1, <1>5, <2>2 DEF IInv, SubgraphInv
      <3>4. QED
        BY <1>6, <2>2, <3>2, <3>3 DEF SubgraphInv
    <2>3. QED
      BY <2>1, <2>2, InnerIs
  <1>12. \A m \in Loops : Keeps(m)
    BY <1>1, <1>2, <1>7, <1>8, BothKeep
  <1>13. PICK e : e = exc[l]
    OBVIOUS
  <1>14. \A m \in Loops : Raised(m, e) => Raised(m, e)'
    BY <1>1, <1>12, RaisedStays
  <1>15. exc[l]' = q
    BY <1>6
  <1>16. CauseInv'
    <2>1. CASE l = Inner
      <3>1. q = e /\ (e = <<>> \/ Raised(Inner, e)')
        BY <1>5, <1>13, <1>14, <2>1, InnerIs DEF IInv, CauseInv
      <3>2. exc'[Inner] = <<>> \/ Raised(Inner, exc[Inner])'
        BY <1>15, <2>1, <3>1
      <3>3. QED
        BY <1>1, <1>7, <1>8, <2>1, <3>2, InnerCause
    <2>2. CASE l = Outer
      <3>1. q \in {<<>>} \union Alien \/ (q = e /\ \E m \in Loops : Raised(m, e)')
        BY <1>1, <1>5, <1>13, <1>14, <2>2 DEF IInv, CauseInv
      <3>2. \/ exc'[Outer] \in {<<>>} \union Alien
            \/ \E m \in Loops : Raised(m, exc[Outer])'
        BY <1>6, <1>15, <2>2, <3>1
      <3>3. QED
        BY <1>1, <1>7, <1>8, <2>2, <3>2, OuterCause
    <2>3. QED
      BY <2>1, <2>2, InnerIs
  <1>17. Tasks(l)' = Tasks(l)
    BY <1>1, GraphStays DEF Tasks
  <1>18. QED
    BY <1>1, <1>2, <1>6, <1>7, <1>8, <1>9, <1>10, <1>11, <1>16, <1>17, Combine

\* The executor's exit looks at everything, when nothing propagates.
LEMMA ExecutorExitKeeps ==
    ASSUME IInv, NEW l \in Loops, ExecutorExit(l)
    PROVE  IInv'
  <1>1. /\ pc[l] = "exit" /\ (\A i \in DOMAIN futs[l] : futs[l][i].through)
        /\ (l = Outer => pc[Inner] \in {"idle", "done"})
        /\ exc' = [exc EXCEPT ![l] = IF exc[l] # <<>> THEN exc[l]
                                     ELSE IF Failed(l) # {} THEN futs[l][FirstOf(Failed(l))].chain
                                     ELSE IF Drained(l) THEN <<"GraphDrained">> ELSE <<>>]
        /\ pc' = [pc EXCEPT ![l] = "done"]
        /\ UNCHANGED <<case, step, running, futs, kept, ranLate>>
    BY DEF ExecutorExit
  <1>2. /\ Data /\ WritesInv(l) /\ PlaceInv(l) /\ SyncInv(l) /\ step[l] \in 1..Len(Graph(l)) /\ running[l] \subseteq Tasks(l)
        /\ exc[l] \in Seq(Exceptions) /\ (kept[l] # <<>> => case.durability = "exit")
        /\ ranLate \in BOOLEAN /\ (case.durability = "sync" => ~ranLate)
    BY Typed
  <1>3. PICK q : q = IF exc[l] # <<>> THEN exc[l]
                     ELSE IF Failed(l) # {} THEN futs[l][FirstOf(Failed(l))].chain
                     ELSE IF Drained(l) THEN <<"GraphDrained">> ELSE <<>>
    OBVIOUS
  <1>4. Failed(l) \subseteq DOMAIN futs[l] /\ Failed(l) \subseteq Nat /\ Failed(l)' = Failed(l)
    <2>1. DOMAIN futs[l] = 1..Len(futs[l]) /\ Len(futs[l]) \in Nat
      BY <1>2, LenProperties DEF Data
    <2>2. QED
      BY <1>1, <2>1 DEF Failed
  <1>5. Failed(l) # {} => /\ FirstOf(Failed(l)) \in Failed(l)
                          /\ \A j \in Failed(l) : FirstOf(Failed(l)) <= j
                          /\ futs[l][FirstOf(Failed(l))].chain # <<>>
                          /\ futs[l][FirstOf(Failed(l))].chain \in Seq(Exceptions)
    BY <1>2, <1>4, FirstIs, FailedChains
  <1>6. q \in Seq(Exceptions) /\ (q = <<>> => Failed(l) = {} /\ ~Drained(l))
    <2>1. <<"GraphDrained">> \in Seq(Exceptions) /\ <<>> \in Seq(Exceptions)
      <3>1. "GraphDrained" \in Exceptions
        BY DEF Exceptions
      <3>2. QED
        BY <3>1
    <2>2. <<"GraphDrained">> # <<>>
      OBVIOUS
    <2>3. CASE exc[l] # <<>>
      BY <1>2, <1>3, <2>3
    <2>4. CASE exc[l] = <<>> /\ Failed(l) # {}
      BY <1>3, <1>5, <2>4
    <2>5. CASE exc[l] = <<>> /\ Failed(l) = {}
      BY <1>3, <2>1, <2>2, <2>5
    <2>6. QED
      BY <2>3, <2>4, <2>5
  <1>7. /\ exc'[l] = q /\ exc' = [exc EXCEPT ![l] = exc'[l]]
        /\ pc'[l] = "done" /\ pc' = [pc EXCEPT ![l] = pc'[l]]
    <2>1. exc \in [Loops -> Seq(Exceptions)] /\ pc \in [Loops -> {"idle", "run", "await", "leaving", "exit", "done"}]
      BY Typed
    <2>2. exc' = [exc EXCEPT ![l] = q]
      BY <1>1, <1>3
    <2>3. exc'[l] = q /\ exc' = [exc EXCEPT ![l] = exc'[l]]
      BY <2>1, <2>2
    <2>4. pc'[l] = "done" /\ pc' = [pc EXCEPT ![l] = pc'[l]]
      BY <1>1, <2>1
    <2>5. QED
      BY <2>3, <2>4
  <1>8. /\ Effect(l) /\ Grows(l) /\ NoPut(l)
        /\ (kept'[l] # <<>> => case.durability = "exit") /\ futs'[l] = futs[l] /\ step'[l] = step[l]
    BY <1>1, <1>7, SameGrows
  <1>9. exc[l]' = q
    BY <1>7
  <1>10. exc[l] # <<>> => q = exc[l]
    BY <1>3
  <1>11. Tasks(l)' = Tasks(l) /\ running'[l] = running[l]
    BY <1>1, GraphStays DEF Tasks
  <1>12. PlaceInv(l)'
    <2>1. case.durability = "exit" /\ l = Inner => futs[l] = <<>>
      BY <1>2 DEF PlaceInv
    <2>2. l = Inner \/ l = Outer
      BY InnerIs
    <2>3. l = Outer => l # Inner
      BY InnerIs
    <2>4. QED
      BY <1>1, <1>4, <1>6, <1>7, <1>8, <2>1, <2>2, <2>3 DEF PlaceInv
  <1>13. SyncInv(l)'
    <2>1. SUFFICES ASSUME case.durability = "sync", case.env = "none" PROVE Accepted(l)' \/ Carried(l)'
      BY <1>1, <1>7 DEF SyncInv
    <2>2. Accepted(l) \/ Carried(l)
      BY <1>1, <1>2, <2>1 DEF SyncInv
    <2>3. CASE exc[l] # <<>>
      BY <1>7, <1>8, <1>10, <2>2, <2>3, AcceptedStays
    <2>4. CASE exc[l] = <<>>
      <3>1. Range(exc[l]) = {}
        BY <2>4 DEF Range
      <3>2. \A i \in Puts(l) : futs[l][i].chain \in Seq(Fault)
        <4>1. \A i \in DOMAIN futs[l] : futs[l][i] \in Write
          BY <1>2 DEF Data
        <4>2. QED
          BY <4>1 DEF Puts, Write
      <3>3. Carried(l) => Accepted(l)
        BY <3>1, <3>2, NoFaults DEF Carried, Accepted
      <3>4. QED
        BY <1>8, <2>2, <3>3, AcceptedStays
    <2>5. QED
      BY <2>3, <2>4
  <1>14. l = Outer => /\ Aside(Inner) /\ (InnerFine' <=> InnerFine)
                      /\ InnerFine \/ (exc[Outer] \notin {<<>>, <<"GraphInterrupt">>} /\ q = exc[Outer])
    <2>1. l = Outer => Aside(Inner)
      BY <1>2, <1>8, InnerIs, EffectLeaves
    <2>2. l = Outer => (InnerFine' <=> InnerFine)
      BY <2>1 DEF InnerFine, Aside
    <2>3. l = Outer => InnerFine \/ exc[Outer] \notin {<<>>, <<"GraphInterrupt">>}
      BY <1>1 DEF IInv, SubgraphInv
    <2>4. QED
      BY <1>10, <2>1, <2>2, <2>3
  <1>15. SubgraphInv'
    <2>1. CASE l = Inner
      BY <1>1, <1>8, <2>1, InnerMoves
    <2>2. CASE l = Outer
      BY <1>1, <1>7, <1>14, <2>2 DEF SubgraphInv, Aside
    <2>3. QED
      BY <2>1, <2>2, InnerIs
  <1>16. \A m \in Loops : Keeps(m)
    BY <1>1, <1>2, <1>8, BothKeep
  <1>17. exc[l] = <<>> /\ Failed(l) # {} => Raised(l, q)'
    <2>1. SUFFICES ASSUME exc[l] = <<>>, Failed(l) # {} PROVE Raised(l, q)'
      OBVIOUS
    <2>2. PICK i \in Failed(l) : i = FirstOf(Failed(l)) /\ \A j \in Failed(l) : i <= j
      BY <1>5, <2>1
    <2>3. q = futs[l][i].chain
      BY <1>3, <2>1, <2>2
    <2>4. q = futs'[l][i].chain /\ i \in Failed(l)' /\ \A j \in Failed(l)' : i <= j
      BY <1>4, <1>8, <2>2, <2>3
    <2>5. QED
      BY <1>7, <2>4 DEF Raised
  <1>18. PICK e : e = exc[l]
    OBVIOUS
  <1>19. \A m \in Loops : Raised(m, e) => Raised(m, e)'
    BY <1>1, <1>16, RaisedStays
  <1>20. CauseInv'
    <2>1. CASE l = Inner
      <3>1. ~Drained(l)
        <4>1. \A t \in Graph(l)[step[l]] : t.does = "ok"
          BY <1>2, <2>1, Graphs DEF Data, TypeOK
        <4>2. QED
          BY <4>1 DEF Drained
      <3>2. q = <<>> \/ Raised(Inner, q)'
        <4>1. CASE exc[l] # <<>>
          BY <1>10, <1>18, <1>19, <2>1, <4>1, InnerIs DEF IInv, CauseInv
        <4>2. CASE exc[l] = <<>> /\ Failed(l) # {}
          BY <1>17, <2>1, <4>2
        <4>3. CASE exc[l] = <<>> /\ Failed(l) = {}
          BY <1>3, <3>1, <4>3
        <4>4. QED
          BY <4>1, <4>2, <4>3
      <3>3. exc'[Inner] = <<>> \/ Raised(Inner, exc[Inner])'
        BY <1>9, <2>1, <3>2
      <3>4. QED
        BY <1>1, <1>8, <2>1, <3>3, InnerCause
    <2>2. CASE l = Outer
      <3>1. \/ q \in {<<>>} \union Alien
            \/ q = <<"GraphDrained">> /\ Failed(Outer)' = {} /\ InnerFine
            \/ \E m \in Loops : Raised(m, q)'
        <4>1. CASE exc[l] # <<>>
          BY <1>1, <1>10, <1>18, <1>19, <2>2, <4>1 DEF IInv, CauseInv
        <4>2. CASE exc[l] = <<>> /\ Failed(l) # {}
          BY <1>17, <2>2, <4>2
        <4>3. CASE exc[l] = <<>> /\ Failed(l) = {}
          <5>1. InnerFine /\ Failed(Outer)' = {}
            BY <1>4, <1>14, <2>2, <4>3
          <5>2. q = <<"GraphDrained">> \/ q = <<>>
            BY <1>3, <4>3
          <5>3. QED
            BY <5>1, <5>2
        <4>4. QED
          BY <4>1, <4>2, <4>3
      <3>2. \/ exc'[Outer] \in {<<>>} \union Alien
            \/ exc'[Outer] = <<"GraphDrained">> /\ pc'[Outer] = "done" /\ Failed(Outer)' = {} /\ InnerFine
            \/ \E m \in Loops : Raised(m, exc[Outer])'
        BY <1>7, <1>9, <2>2, <3>1
      <3>3. QED
        BY <1>1, <1>8, <2>2, <3>2, OuterCause
    <2>3. QED
      BY <2>1, <2>2, InnerIs
  <1>21. QED
    BY <1>1, <1>2, <1>6, <1>7, <1>8, <1>11, <1>12, <1>13, <1>15, <1>20, Combine

-----------------------------------------------------------------------------
(* The invariant.                                                           *)

LEMMA InitInv == Init => IInv
  <1> SUFFICES ASSUME Init PROVE IInv
    OBVIOUS
  <1>1. /\ case \in Cases /\ ranLate = FALSE
        /\ pc = [l \in Loops |-> IF l = Outer THEN "run" ELSE "idle"]
        /\ step = [l \in Loops |-> 1] /\ running = [l \in Loops |-> START]
        /\ futs = [l \in Loops |-> IF l = Outer /\ case.durability # "exit" THEN <<Put(-1)>> ELSE <<>>]
        /\ kept = [l \in Loops |-> <<>>] /\ exc = [l \in Loops |-> <<>>]
    BY DEF Init
  <1>2. PICK w \in Write : w = Put(-1) /\ Fresh(w)
    BY WritesTyped
  <1>3. /\ <<w>> \in Seq(Write) /\ DOMAIN <<w>> = 1..1 /\ <<w>>[1] = w /\ (\A i \in 1..1 : i = 1)
        /\ <<>> \in Seq(Write) /\ DOMAIN <<>> = {} /\ <<>> \in Seq(Exceptions)
    OBVIOUS
  <1>4. ASSUME NEW l \in Loops
        PROVE  /\ pc[l] = (IF l = Outer THEN "run" ELSE "idle") /\ step[l] = 1 /\ running[l] = START
               /\ futs[l] = (IF l = Outer /\ case.durability # "exit" THEN <<w>> ELSE <<>>)
               /\ kept[l] = <<>> /\ exc[l] = <<>>
    BY <1>1, <1>2
  <1>5. ASSUME NEW l \in Loops
        PROVE  futs[l] \in Seq(Write) /\ \A i \in DOMAIN futs[l] : i = 1 /\ Fresh(futs[l][i])
    <2>1. CASE l = Outer /\ case.durability # "exit"
      BY <1>2, <1>3, <1>4, <2>1
    <2>2. CASE ~(l = Outer /\ case.durability # "exit")
      BY <1>3, <1>4, <2>2
    <2>3. QED
      BY <2>1, <2>2
  <1>6. Data
    <2>1. ASSUME NEW l \in Loops
          PROVE  step[l] \in 1..Len(Graph(l)) /\ running[l] \subseteq Tasks(l)
      <3>1. Len(Graph(l)) \in Nat \ {0} /\ Graph(l)[1] = START
        BY <1>1, Graphs
      <3>2. QED
        BY <1>4, <3>1 DEF Tasks
    <2>2. TypeOK
      <3>1. pc \in [Loops -> {"idle", "run", "await", "leaving", "exit", "done"}]
        BY <1>1
      <3>2. QED
        BY <1>1, <1>3, <1>4, <2>1, <3>1 DEF TypeOK
    <2>3. /\ pc \in [Loops -> {"idle", "run", "await", "leaving", "exit", "done"}]
          /\ step \in [Loops -> Nat] /\ exc \in [Loops -> Seq(Exceptions)]
          /\ kept \in [Loops -> Seq(Write)]
      BY <1>1, <1>3
    <2>4. running = [l \in Loops |-> running[l]]
      BY <1>1
    <2>5. futs \in [Loops -> Seq(Write)]
      <3>1. futs = [l \in Loops |-> futs[l]]
        BY <1>1
      <3>2. QED
        BY <1>5, <3>1
    <2>6. QED
      BY <2>2, <2>3, <2>4, <2>5 DEF Data
  <1>7. ASSUME NEW l \in Loops PROVE LoopInv(l)
    <2>1. Failed(l) = {} /\ \A i \in Puts(l) : i = 1 /\ ~futs[l][i].through
      BY <1>5 DEF Failed, Puts, Fresh
    <2>2. Ordered(l)
      BY <2>1 DEF Ordered
    <2>3. WritesInv(l)
      <3>1. \A i \in DOMAIN kept[l] : Fresh(kept[l][i])
        BY <1>3, <1>4
      <3>2. \A i \in DOMAIN futs[l] : Sound(l, futs[l][i])
        BY <1>5 DEF Sound, Fresh
      <3>3. QED
        BY <2>2, <3>1, <3>2 DEF WritesInv
    <2>4. PlaceInv(l)
      BY <1>4, <2>1, InnerIs DEF PlaceInv
    <2>5. SyncInv(l)
      BY <1>4 DEF SyncInv
    <2>6. QED
      BY <2>3, <2>4, <2>5 DEF LoopInv
  <1>8. SubgraphInv
    BY <1>4, InnerIs DEF SubgraphInv, InnerFine
  <1>9. CauseInv
    BY <1>4, InnerIs DEF CauseInv
  <1>10. QED
    BY <1>1, <1>6, <1>7, <1>8, <1>9 DEF IInv

LEMMA StutterKeeps == ASSUME IInv, UNCHANGED vars PROVE IInv'
  <1>1. UNCHANGED <<case, pc, step, running, futs, kept, exc, ranLate>>
    BY DEF vars
  <1>2. Data' = Data
    <2>1. \A l \in Loops : Tasks(l)' = Tasks(l) /\ Graph(l)' = Graph(l)
      BY <1>1, GraphStays DEF Tasks
    <2>2. TypeOK' = TypeOK
      BY <1>1, <2>1 DEF TypeOK
    <2>3. QED
      BY <1>1, <2>2 DEF Data, Write, Names
  <1>3. \A l \in Loops : Aside(l)
    BY <1>1 DEF Aside
  <1>4. \A l \in Loops : LoopInv(l)'
    BY <1>1, <1>3, AsideStays DEF IInv
  <1>5. SubgraphInv'
    BY <1>1 DEF IInv, SubgraphInv, InnerFine
  <1>6. CauseInv'
    <2>1. \A m \in Loops : Keeps(m)
      BY <1>1 DEF Keeps
    <2>2. InnerFine' = InnerFine
      BY <1>1 DEF InnerFine
    <2>3. QED
      BY <1>1, <2>1, <2>2, CauseStays
  <1>7. QED
    BY <1>1, <1>2, <1>4, <1>5, <1>6 DEF IInv

LEMMA NextKeeps == IInv /\ [Next]_vars => IInv'
  <1> SUFFICES ASSUME IInv, [Next]_vars PROVE IInv'
    OBVIOUS
  <1>1. CASE \E l \in Loops : \E i \in DOMAIN futs[l] : Resolve(l, i)
    BY <1>1, ResolveKeeps
  <1>2. CASE \E l \in Loops : LoopStep(l)
    BY <1>2, CommitKeeps, FailKeeps, HandleErrorKeeps, HandlerWaitRaisesKeeps, AfterTickKeeps,
       AwaitPutKeeps, SuppressKeeps, ExecutorExitKeeps DEF LoopStep
  <1>3. CASE EnterSubgraph
    BY <1>3, EnterSubgraphKeeps
  <1>4. CASE Interfere
    BY <1>4, InterfereKeeps
  <1>5. CASE Done
    BY <1>5, StutterKeeps DEF Done
  <1>6. CASE UNCHANGED vars
    BY <1>6, StutterKeeps
  <1>7. QED
    BY <1>1, <1>2, <1>3, <1>4, <1>5, <1>6 DEF Next

\* The inductive invariant holds of every run, of any set of cases.
THEOREM Invariance == Spec => []IInv
  BY InitInv, NextKeeps, PTL DEF Spec

-----------------------------------------------------------------------------
(* What it means.                                                           *)

\* Every refused write is a future that failed.
LEMMA RefusedFailed ==
    ASSUME IInv, NEW l \in Loops, NEW i \in DOMAIN futs[l], futs[l][i].refused
    PROVE  i \in Failed(l) /\ l \in case.trap.loops /\ futs[l][i].method = case.trap.method
  <1>1. Sound(l, futs[l][i])
    BY Typed DEF WritesInv
  <1>2. QED
    BY <1>1 DEF Sound, Fresh, Failed

LEMMA NothingRefused ==
    ASSUME IInv, Failed(Outer) = {}, InnerFine
    PROVE  Rejected = {}
  <1>1. Failed(Inner) = {}
    <2>1. PlaceInv(Inner)
      BY Typed, InnerIs
    <2>2. CASE pc[Inner] = "idle"
      <3>1. futs[Inner] = <<>> /\ DOMAIN <<>> = {}
        BY <2>1, <2>2 DEF PlaceInv
      <3>2. QED
        BY <3>1 DEF Failed
    <2>3. CASE pc[Inner] = "done" /\ exc[Inner] = <<>>
      BY <2>1, <2>3 DEF PlaceInv
    <2>4. QED
      BY <2>2, <2>3 DEF InnerFine
  <1>2. \A l \in Loops : Failed(l) = {}
    BY <1>1, InnerIs
  <1>3. \A l \in Loops : {i \in DOMAIN futs[l] : futs[l][i].refused} = {}
    BY <1>2, RefusedFailed
  <1>4. QED
    BY <1>3 DEF Rejected

LEMMA ReturnIsClean == IInv => ReturnMeansAccepted
  <1> SUFFICES ASSUME IInv, Over, exc[Outer] = <<>> PROVE Rejected = {}
    BY DEF ReturnMeansAccepted
  <1>1. Failed(Outer) = {}
    BY Typed, InnerIs DEF PlaceInv, Over
  <1>2. InnerFine
    BY DEF IInv, SubgraphInv, Over
  <1>3. QED
    BY <1>1, <1>2, NothingRefused

\* A run that returns to a caller who waited for it, whatever its graph, its
\* runtime and its durability, and at any level of nesting, had no write refused.
THEOREM ReturnsAreClean == Spec => []Inv
  <1>1. IInv => Inv
    BY ReturnIsClean DEF IInv, Data, Inv
  <1>2. QED
    BY <1>1, Invariance, PTL

\* The exception of a future that hides a refusal.
LEMMA HidingFailure ==
    ASSUME IInv, NEW l \in Loops, NEW e, Raised(l, e), ~has_stale(e)
    PROVE  \E i \in Failed(l) :
                /\ e = futs[l][i].chain
                /\ \/ ~\E j \in Failed(l) : j < i /\ has_stale(futs[l][j].chain)
                   \/ case.runtime = "async" /\ i \in ErrorWrites(l)
  <1>1. PICK i \in Failed(l) :
          /\ e = futs[l][i].chain
          /\ \/ i \in Puts(l)
             \/ case.runtime = "async" /\ i \in ErrorWrites(l)
             \/ pc[l] = "done" /\ \A j \in Failed(l) : i <= j
    BY DEF Raised
  <1>2. WritesInv(l) /\ Failed(l) \subseteq DOMAIN futs[l] /\ DOMAIN futs[l] \subseteq Nat
    <2>1. DOMAIN futs[l] = 1..Len(futs[l]) /\ Len(futs[l]) \in Nat
      BY Typed, LenProperties DEF Data
    <2>2. QED
      BY <2>1, Typed DEF Failed
  <1>3. CASE i \in Puts(l)
    <2>1. ASSUME NEW j \in Failed(l), j < i, has_stale(futs[l][j].chain) PROVE FALSE
      <3>1. /\ Sound(l, futs[l][i]) /\ Sound(l, futs[l][j])
            /\ futs[l][i].chain # <<>> /\ futs[l][j].chain # <<>> /\ futs[l][i].through
        BY <1>2 DEF WritesInv, Failed
      <3>2. futs[l][j].method = futs[l][i].method /\ futs[l][i].method = "put"
        BY <1>3, <3>1 DEF Sound, Puts
      <3>3. j \in Puts(l)
        BY <1>2, <3>2 DEF Puts
      <3>4. Range(futs[l][j].chain) \subseteq Range(futs[l][i].chain)
        BY <1>2, <1>3, <2>1, <3>1, <3>3 DEF WritesInv, Ordered
      <3>5. has_stale(e)
        BY <1>1, <2>1, <3>4 DEF has_stale
      <3>6. QED
        BY <3>5
    <2>2. QED
      BY <1>1, <2>1
  <1>4. CASE case.runtime = "async" /\ i \in ErrorWrites(l)
    BY <1>1, <1>4
  <1>5. CASE \A j \in Failed(l) : i <= j
    <2>1. ~\E j \in Failed(l) : j < i
      BY <1>2, <1>5
    <2>2. QED
      BY <1>1, <2>1
  <1>6. QED
    BY <1>1, <1>3, <1>4, <1>5

LEMMA DropsHaveCause == IInv => DropsExplained
  <1> SUFFICES ASSUME IInv, Over, Verdict = "DROPPED-SILENT"
               PROVE  \/ Head(exc[Outer]) \in {"NodeBoom", "KeyboardInterrupt", "CancelledError", "GeneratorExit"}
                      \/ \E l \in Loops : \E i \in Failed(l) :
                            /\ exc[Outer] = futs[l][i].chain
                            /\ \/ ~\E j \in Failed(l) : j < i /\ has_stale(futs[l][j].chain)
                               \/ case.runtime = "async" /\ i \in ErrorWrites(l)
    BY DEF DropsExplained
  <1>1. Rejected # {} /\ ~has_stale(Caller)
    BY DEF Verdict
  <1>2. exc[Outer] # <<>>
    BY <1>1, ReturnIsClean DEF ReturnMeansAccepted
  <1>3. CASE exc[Outer] \in Alien
    <2>1. \A x : Head(<<x>>) = x
      OBVIOUS
    <2>2. PICK x \in {"NodeBoom", "KeyboardInterrupt", "CancelledError", "GeneratorExit"} : exc[Outer] = <<x>>
      BY <1>3 DEF Alien
    <2>3. Head(exc[Outer]) = x
      BY <2>1, <2>2
    <2>4. QED
      BY <2>2, <2>3
  <1>4. CASE Failed(Outer) = {} /\ InnerFine
    BY <1>1, <1>4, NothingRefused
  <1>5. CASE exc[Outer] \notin Alien /\ \E l \in Loops : Raised(l, exc[Outer])
    <2>1. PICK l \in Loops : Raised(l, exc[Outer])
      BY <1>5
    <2>2. exc[Outer] # <<"GeneratorExit">>
      BY <1>5 DEF Alien
    <2>3. ~has_stale(exc[Outer])
      BY <1>1, <2>2 DEF Caller
    <2>4. QED
      BY <2>1, <2>3, HidingFailure
  <1>6. QED
    BY <1>2, <1>3, <1>4, <1>5 DEF IInv, CauseInv, Over

\* A refusal that the caller cannot tell was lost to another exception that was
\* leaving the run, to an earlier failure, or to the async error handler.
THEOREM DropsAreExplained == Spec => []DropsExplained
  BY Invariance, DropsHaveCause, PTL

LEMMA SyncStops == IInv => SyncPutStopsTheRun
  <1> SUFFICES ASSUME IInv, case.durability = "sync"
               PROVE  /\ ~ranLate
                      /\ Over /\ case.env = "none" /\ case.trap.method = "put" /\ case.trap.loops = AnyLoop
                            => Verdict # "DROPPED-SILENT"
    BY DEF SyncPutStopsTheRun
  <1>1. ~ranLate
    BY DEF IInv
  <1>2. ASSUME Over, case.env = "none", case.trap.method = "put", case.trap.loops = AnyLoop,
               Verdict = "DROPPED-SILENT"
        PROVE  FALSE
    <2>1. ~has_stale(Caller) /\ Stale # {}
      BY <1>2 DEF Verdict
    <2>2. PICK l \in Loops : \E i \in DOMAIN futs[l] :
             futs[l][i].refused /\ Head(futs[l][i].chain) = "StaleOwner"
      BY <2>1 DEF Stale, Rejected
    <2>3. PICK i \in DOMAIN futs[l] : futs[l][i].refused /\ Head(futs[l][i].chain) = "StaleOwner"
      BY <2>2
    <2>4. l = Outer /\ i \in Failed(Outer) /\ i \in Puts(Outer)
      <3>1. i \in Failed(l) /\ l \in case.trap.loops /\ futs[l][i].method = "put"
        BY <1>2, <2>3, RefusedFailed
      <3>2. l = Outer
        BY <1>2, <3>1 DEF AnyLoop
      <3>3. QED
        BY <3>1, <3>2 DEF Puts, Failed
    <2>5. PICK c : c = futs[Outer][i].chain
      OBVIOUS
    <2>6. c \in Seq(Fault) /\ c # <<>>
      BY <2>4, <2>5, InnerIs, Typed, FailedChains
    <2>7. "StaleOwner" \in Range(c)
      <3>1. Head(c) = c[1] /\ 1 \in DOMAIN c
        BY <2>6, EmptySeq, HeadTailProperties, LenProperties
      <3>2. Head(c) = "StaleOwner"
        BY <2>3, <2>4, <2>5
      <3>3. QED
        BY <3>1, <3>2 DEF Range
    <2>8. Range(c) \subseteq Range(exc[Outer])
      <3>1. Accepted(Outer) \/ Carried(Outer)
        BY <1>2, InnerIs, Typed DEF SyncInv, Over
      <3>2. QED
        BY <2>4, <2>5, <2>6, <3>1 DEF Accepted, Carried
    <2>9. has_stale(exc[Outer])
      BY <2>7, <2>8 DEF has_stale
    <2>10. exc[Outer] = <<"GeneratorExit">>
      BY <2>1, <2>9 DEF Caller
    <2>11. DOMAIN <<"GeneratorExit">> = 1..1 /\ <<"GeneratorExit">>[1] = "GeneratorExit" /\ \A k \in 1..1 : k = 1
      OBVIOUS
    <2>12. QED
      BY <2>9, <2>10, <2>11 DEF has_stale, Range
  <1>3. QED
    BY <1>1, <1>2

\* Under durability "sync" no node runs after a refused put of its loop, and the
\* refusal of one of the run's own puts reaches the caller.
THEOREM SyncStopsTheRun == Spec => []SyncPutStopsTheRun
  BY Invariance, SyncStops, PTL

\* Once the run has returned no saver write is made for it, and none ends.
THEOREM NothingAfterReturn == Spec => QuietAfterReturn
  <1>1. IInv /\ [Next]_vars => [Over => UNCHANGED futs]_vars
    <2> SUFFICES ASSUME IInv, Next, Over PROVE UNCHANGED futs
      BY DEF vars
    <2>1. \A l \in Loops : pc[l] \in {"idle", "done"}
      BY InnerIs DEF IInv, SubgraphInv, Over
    <2>2. \A l \in Loops : \A i \in DOMAIN futs[l] : futs[l][i].through
      <3>1. DOMAIN <<>> = {}
        OBVIOUS
      <3>2. QED
        BY <2>1, <3>1, Typed DEF PlaceInv
    <2>3. CASE \E l \in Loops : \E i \in DOMAIN futs[l] : Resolve(l, i)
      BY <2>2, <2>3 DEF Resolve
    <2>4. CASE \E l \in Loops : LoopStep(l)
      BY <2>1, <2>4 DEF LoopStep, Commit, Fail, HandleError, HandlerWaitRaises, AfterTick, AwaitPut,
                        Suppress, ExecutorExit
    <2>5. CASE EnterSubgraph
      BY <2>5 DEF EnterSubgraph, Over
    <2>6. CASE Interfere \/ Done
      BY <2>6 DEF Interfere, Done, vars
    <2>7. QED
      BY <2>3, <2>4, <2>5, <2>6 DEF Next
  <1>2. QED
    BY <1>1, Invariance, PTL DEF Spec, QuietAfterReturn
=============================================================================
