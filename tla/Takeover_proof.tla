---------------------------- MODULE Takeover_proof ----------------------------
(***************************************************************************)
(* Proofs about Takeover, for any number of workers and super-steps, fenced *)
(* or not, on both channels.                                               *)
(*                                                                         *)
(* The argument has three layers.  The store alone: ids are fresh, rows are *)
(* written once, a checkpoint's line holds the rows its transcript is read  *)
(* from, and each message fits the one before it unless that was dropped.   *)
(* The fence: a worker that is not superseded is the only one, so what it   *)
(* finds nobody writes under it.  The count: an id is drawn for a worker    *)
(* and a step, so there are enough ids.                                     *)
(***************************************************************************)
EXTENDS Takeover, FiniteSetTheorems, SequenceTheorems, WellFoundedInduction, TLAPS

-----------------------------------------------------------------------------
(* The inductive invariant.                                                 *)

Running(w) == phase[w] \in {"task", "writes", "put"}
Stored(i) == \E c \in chain : c.id = i
Even(k) == k % 2 = 0

\* The k-th message of a run.
Shaped(m, k) ==
    /\ m \in Message
    /\ m.kind = IF k = Steps THEN "answer" ELSE IF Even(k) THEN "result" ELSE "use"
    /\ m.id[2] = IF Even(k) THEN k - 1 ELSE k

\* The tool use a result answers.
UseOf(m) == [kind |-> "use", id |-> m.id]

\* The result m answers the last tool use of the list t, or that use is lost.
Fits(m, t) == Even(Len(t) + 1) => UseOf(m) = t[Len(t)]
FitsOrDropped(m, t) == Even(Len(t) + 1) => UseOf(m) = t[Len(t)] \/ UseOf(m) \in dropped

\* The fence values savers hold.
FenceInv ==
    /\ fenced => fence >= 1
    /\ \A w \in Worker : /\ held[w] <= fence
                         /\ saver[w] = "fenced" => fenced /\ held[w] >= 1
                         /\ phase[w] = "spawned" => saver[w] = "none"
                         /\ saver[w] = "none" => phase[w] \in {"spawned", "done"}
    /\ \A v, w \in Worker : saver[v] = "fenced" /\ saver[w] = "fenced" /\ held[v] = held[w] => v = w

\* Ids are unique and made before they are stored; a line leads from the root
\* to its checkpoint over rows that are stored.
ChainInv ==
    /\ \A c, d \in chain : c.id = d.id => c = d
    /\ \A c \in chain :
         /\ c.id <= clock
         /\ Len(c.line) >= 1 /\ StepOf(c) <= Steps
         /\ c.line[Len(c.line)] = c.id
         /\ Len(c.blob) = StepOf(c)
         /\ c # Root => c.id > c.parent /\ Stored(c.parent)
         /\ \A k \in 1..StepOf(c) : rows[c.line[k]] # NoRow
    /\ \A i \in Id : rows[i] # NoRow => Stored(i)

\* Where a worker is: its checkpoint is stored, the id it has drawn is fresh
\* until it is put, and what it holds or skips is, or is not, a stored row.
PlaceInv(w) ==
    /\ \E c \in chain : c.id = at[w] /\ StepOf(c) = Len(mem[w])
    /\ next[w] <= clock
    /\ phase[w] \in {"spawned", "claimed"} => next[w] = 0
    /\ phase[w] \in {"task", "writes"} => Stored(next[w])
    /\ phase[w] = "put" => /\ ~Stored(next[w]) /\ next[w] > at[w]
                           /\ rows[at[w]] # NoRow
    /\ Running(w) \/ ~Stored(next[w]) => Len(mem[w]) < Steps
    /\ block[w] # "closed" => phase[w] \in {"writes", "put"}
    /\ block[w] \in {"holding", "skipping"} => phase[w] = "writes"
    /\ block[w] = "holding" => rows[at[w]] = NoRow
    /\ block[w] = "skipping" => rows[at[w]] # NoRow

ApartInv(v, w) ==
    /\ next[v] = next[w] => next[v] = 0
    /\ block[v] = "holding" /\ block[w] = "holding" => at[v] # at[w]

\* What a worker has in memory is what is stored, or its message was dropped.
MemoryInv(w) ==
    /\ \A k \in 1..Len(mem[w]) : Shaped(mem[w][k], k)
    /\ \A c \in chain : c.id = at[w] =>
         /\ \A k \in 1..Len(mem[w]) : mem[w][k] = Transcript(c)[k] \/ mem[w][k] \in dropped
         /\ channel = "plain" => mem[w] = c.blob
    /\ phase[w] \in {"writes", "put"} => Shaped(msg[w], Len(mem[w]) + 1)
    /\ phase[w] = "writes" \/ (phase[w] = "put" /\ channel = "plain") => Fits(msg[w], mem[w])
    /\ phase[w] = "put" => msg[w] = rows[at[w]].msg \/ msg[w] \in dropped

\* A list in which every message fits the one before.
ListInv(t) ==
    \A k \in 1..Len(t) :
        /\ Shaped(t[k], k)
        /\ Even(k) => UseOf(t[k]) = t[k - 1] \/ UseOf(t[k]) \in dropped

\* The transcripts, and the rows that go on from them.
StoreInv ==
    \A c \in chain :
        /\ ListInv(Transcript(c))
        /\ rows[c.id] # NoRow => /\ StepOf(c) < Steps
                                 /\ Shaped(rows[c.id].msg, StepOf(c) + 1)
                                 /\ FitsOrDropped(rows[c.id].msg, Transcript(c))

\* Where nothing can be lost every message fits.
Exact == (Protected /\ LateRows = {}) \/ channel = "plain"
ExactInv ==
    Exact => \A c \in chain :
        /\ \A k \in 1..StepOf(c) : Even(k) => UseOf(Transcript(c)[k]) = Transcript(c)[k - 1]
        /\ rows[c.id] # NoRow => Fits(rows[c.id].msg, Transcript(c))

\* A worker that was superseded finishes the one block it was admitted to.
LateInv ==
    /\ \A i, j \in LateRows : rows[i].by = rows[j].by => i = j
    /\ \A c, d \in LateCheckpoints : c.by = d.by => c = d
    /\ \A i \in LateRows, c \in LateCheckpoints : rows[i].by # c.by
    /\ \A w \in Worker : ~Superseded(w) \/ block[w] # "closed" =>
         (\A i \in LateRows : rows[i].by # w) /\ (\A c \in LateCheckpoints : c.by # w)

\* Who works beside a checkpoint put in time is superseded; the owner sees what
\* is stored, and is at the tip.
OwnerInv ==
    Protected =>
      /\ \A c \in chain : c # Root /\ ~c.late =>
           \A w \in Worker : Running(w) /\ at[w] = c.parent => Superseded(w)
      /\ \A c, d \in chain : c # d /\ c # Root /\ d # Root /\ c.parent = d.parent => c.late \/ d.late
      /\ LateRows = {} => \A w \in Worker : Running(w) /\ ~Superseded(w) =>
           /\ \A c \in chain : c.id = at[w] => Transcript(c) = mem[w]
           /\ phase[w] # "put" => rows[at[w]] = NoRow
           /\ phase[w] = "put" => msg[w] = rows[at[w]].msg
      /\ LateCheckpoints = {} =>
           /\ \A w \in Worker : Running(w) /\ ~Superseded(w) =>
                /\ at[w] = Tip.id
                /\ phase[w] = "put" => next[w] > Tip.id
           /\ \A c \in chain : \E i \in 1..Len(Tip.line) : Tip.line[i] = c.id

\* Every id was drawn by a worker for one of its steps.
CountInv ==
    /\ \A i \in 1..clock : Stored(i) \/ \E w \in Worker : next[w] = i
    /\ \A c, d \in chain : c # Root /\ d # Root /\ c.by = d.by /\ StepOf(c) = StepOf(d) => c = d
    /\ \A c \in chain : c # Root =>
         /\ StepOf(c) >= 1 /\ StepOf(c) <= Len(mem[c.by])
         /\ phase[c.by] \notin {"spawned", "claimed"}

IInv ==
    /\ TypeOK
    /\ FenceInv /\ ChainInv
    /\ \A w \in Worker : PlaceInv(w) /\ MemoryInv(w)
    /\ \A v, w \in Worker : v # w => ApartInv(v, w)
    /\ StoreInv /\ ExactInv
    /\ LateInv
    /\ OwnerInv
    /\ CountInv

-----------------------------------------------------------------------------
(* What the store is made of.                                               *)

LEMMA Ids ==
    /\ Cardinality(Worker) \in Nat /\ Steps \in Nat \ {0} /\ Steps * Cardinality(Worker) \in Nat
    /\ Id \subseteq Nat /\ 0 \in Id
    /\ \A i \in Nat : i <= Steps * Cardinality(Worker) => i \in Id
    /\ \A i \in Nat, j \in Id : i <= j => i \in Id
  <1>1. Cardinality(Worker) \in Nat /\ Steps \in Nat \ {0}
    BY ScenarioAssumption, FS_CardinalityType
  <1>2. PICK n \in Nat : n = Steps * Cardinality(Worker)
    BY <1>1
  <1>3. Id = 0..n
    BY <1>2 DEF Id
  <1>4. QED
    BY <1>1, <1>2, <1>3

LEMMA Parity ==
    /\ ~Even(Steps)
    /\ \A k \in Nat : Even(k) <=> ~Even(k + 1)
    /\ \A k \in Nat : k % 2 = 1 <=> ~Even(k)
    /\ \A k \in Nat : Even(k + 1) => k >= 1
    /\ \A k \in Nat \ {0} : Even(k) => k - 1 \in Nat \ {0} /\ ~Even(k - 1)
  BY ScenarioAssumption DEF Even

LEMMA RootIs ==
    /\ Root \in Checkpoint /\ Root.id = 0 /\ StepOf(Root) = 0
    /\ Len(Root.line) = 1 /\ Root.line[1] = 0 /\ Root.blob = <<>>
  <1>1. <<0>> \in Seq(Id) /\ <<>> \in Seq(Message) /\ Len(<<0>>) = 1
    BY Ids
  <1>2. Root \in Checkpoint
    BY <1>1, Ids, ScenarioAssumption DEF Root, Checkpoint
  <1>3. QED
    BY <1>1, <1>2 DEF Root, StepOf

LEMMA CheckpointTyped ==
    ASSUME TypeOK, NEW c \in chain
    PROVE  /\ c.id \in Id /\ c.id \in Nat /\ c.parent \in Id /\ c.by \in Worker /\ c.late \in BOOLEAN
           /\ c.line \in Seq(Id) /\ c.blob \in Seq(Message) /\ Len(c.line) \in Nat
  <1>1. c \in Checkpoint
    BY DEF TypeOK
  <1>2. c.id \in Id /\ c.parent \in Id /\ c.by \in Worker /\ c.late \in BOOLEAN
        /\ c.line \in Seq(Id) /\ c.blob \in Seq(Message)
    BY <1>1 DEF Checkpoint
  <1>3. QED
    BY <1>2, Ids, LenProperties

LEMMA RowTyped ==
    ASSUME TypeOK, NEW i \in Id, rows[i] # NoRow
    PROVE  rows[i] \in Row /\ rows[i].msg \in Message /\ rows[i].by \in Worker /\ rows[i].late \in BOOLEAN
  <1>1. rows[i] \in Row
    BY DEF TypeOK
  <1>2. QED
    BY <1>1 DEF Row

LEMMA MessageTyped ==
    ASSUME NEW m \in Message
    PROVE  /\ m.kind \in {"use", "result", "answer"} /\ m.id \in Worker \X (1..Steps)
           /\ m = [kind |-> m.kind, id |-> m.id]
  BY DEF Message

LEMMA TipIs ==
    ASSUME TypeOK
    PROVE  Tip \in chain /\ \A d \in chain : d.id <= Tip.id
  <1>1. \A c \in chain : c.id \in Nat /\ c.id <= Steps * Cardinality(Worker)
    BY CheckpointTyped, Ids DEF Id
  <1> DEFINE n == Steps * Cardinality(Worker)
             T == {n - c.id : c \in chain}
  <1>2. n \in Nat
    BY Ids
  <1> HIDE DEF n
  <1>3. T \subseteq Nat
    BY <1>1, <1>2 DEF n
  <1>4. T # {}
    <2>1. Root \in chain
      BY DEF TypeOK
    <2>2. n - Root.id \in T
      BY <2>1
    <2>3. QED
      BY <2>2
  <1>5. PICK x \in T : \A y \in T : <<y, x>> \notin OpToRel(<, Nat)
    BY <1>3, <1>4, WFMin, NatLessThanWellFounded
  <1>6. PICK c \in chain : x = n - c.id
    BY <1>5
  <1>7. \A d \in chain : d.id <= c.id
    <2> TAKE d \in chain
    <2>1. n - d.id \in T /\ n - d.id \in Nat /\ x \in Nat
      BY <1>3, <1>5
    <2>2. <<n - d.id, x>> \notin OpToRel(<, Nat)
      BY <1>5, <2>1
    <2>3. ~(n - d.id < x)
      BY <2>1, <2>2 DEF OpToRel
    <2>4. QED
      BY <1>1, <1>2, <1>6, <2>3
  <1>8. QED
    BY <1>7 DEF Tip

\* The transcript of a checkpoint by its messages, and that it has that many.
LEMMA TranscriptIs ==
    ASSUME TypeOK, ChainInv, NEW c \in chain
    PROVE  /\ StepOf(c) \in Nat /\ Transcript(c) \in Seq(Message) /\ Len(Transcript(c)) = StepOf(c)
           /\ channel = "delta" => \A k \in 1..StepOf(c) : Transcript(c)[k] = rows[c.line[k]].msg
           /\ channel = "plain" => Transcript(c) = c.blob
           /\ \A k \in 1..Len(c.line) : c.line[k] \in Id
  <1>1. c.line \in Seq(Id) /\ c.blob \in Seq(Message) /\ Len(c.line) \in Nat
    BY CheckpointTyped
  <1>2. Len(c.line) >= 1 /\ Len(c.blob) = StepOf(c) /\ \A k \in 1..StepOf(c) : rows[c.line[k]] # NoRow
    BY DEF ChainInv
  <1>3. StepOf(c) \in Nat /\ StepOf(c) <= Len(c.line)
    BY <1>1, <1>2 DEF StepOf
  <1>4. \A k \in 1..Len(c.line) : c.line[k] \in Id
    BY <1>1, ElementOfSeq
  <1>5. \A k \in 1..StepOf(c) : rows[c.line[k]].msg \in Message
    BY <1>1, <1>2, <1>3, <1>4, RowTyped
  <1>6. CASE channel = "delta"
    <2>1. Transcript(c) = [k \in 1..StepOf(c) |-> rows[c.line[k]].msg]
      BY <1>6 DEF Transcript
    <2>2. Transcript(c) \in Seq(Message) /\ Len(Transcript(c)) = StepOf(c)
      BY <1>3, <1>5, <2>1
    <2>3. QED
      BY <1>3, <1>4, <1>6, <2>1, <2>2
  <1>7. CASE channel = "plain"
    <2>1. Transcript(c) = c.blob
      BY <1>7 DEF Transcript
    <2>2. QED
      BY <1>1, <1>2, <1>3, <1>4, <1>7, <2>1
  <1>8. channel \in {"delta", "plain"}
    BY ScenarioAssumption DEF TypeOK
  <1>9. QED
    BY <1>6, <1>7, <1>8

-----------------------------------------------------------------------------
(* The initial states.                                                      *)

LEMMA InitInv == Init => IInv
  <1> SUFFICES ASSUME Init PROVE IInv
    OBVIOUS
  <1>0. /\ fenced \in Fenced /\ channel \in Channel /\ expects \in [Worker \ {Starter} -> Expected]
        /\ chain = {Root} /\ rows = [i \in Id |-> NoRow] /\ clock = 0 /\ dropped = {}
        /\ fence = IF fenced THEN 1 ELSE 0
        /\ held = [w \in Worker |-> IF w = Starter THEN fence ELSE 0]
        /\ saver = [w \in Worker |-> IF w # Starter THEN "none" ELSE IF fenced THEN "fenced" ELSE "plain"]
        /\ phase = [w \in Worker |-> IF w = Starter THEN "task" ELSE "spawned"]
        /\ block = [w \in Worker |-> "closed"] /\ at = [w \in Worker |-> 0]
        /\ next = [w \in Worker |-> 0] /\ mem = [w \in Worker |-> <<>>]
        /\ msg = [w \in Worker |-> NoMessage] /\ result = [w \in Worker |-> "none"]
        /\ fenced \in BOOLEAN /\ Starter \in Worker
    BY ScenarioAssumption DEF Init
  <1>1. TypeOK
    <2>1. Root \in chain /\ chain \subseteq Checkpoint /\ 0 \in Id /\ <<>> \in Seq(Message)
      BY <1>0, RootIs, Ids
    <2>2. fence \in Nat /\ held \in [Worker -> Nat]
      BY <1>0
    <2>3. at \in [Worker -> Id] /\ next \in [Worker -> Id] /\ mem \in [Worker -> Seq(Message)]
      BY <1>0, <2>1
    <2>4. QED
      BY <1>0, <2>1, <2>2, <2>3 DEF TypeOK
  <1>2. FenceInv
    BY <1>0 DEF FenceInv
  <1>3. \A i \in Id : rows[i] = NoRow
    BY <1>0
  <1>4. /\ \A i : Stored(i) <=> i = 0
        /\ \A w \in Worker : at[w] = 0 /\ next[w] = 0 /\ mem[w] = <<>> /\ Len(mem[w]) = 0
                             /\ block[w] = "closed" /\ phase[w] \in {"task", "spawned"}
    BY <1>0, RootIs, EmptySeq DEF Stored
  <1>5. ChainInv
    BY <1>0, <1>3, <1>4, RootIs, EmptySeq, Ids DEF ChainInv
  <1>6. ASSUME NEW w \in Worker PROVE PlaceInv(w) /\ MemoryInv(w)
    <2>1. PlaceInv(w)
      BY <1>0, <1>4, RootIs, Ids DEF PlaceInv, Running
    <2>2. MemoryInv(w)
      BY <1>0, <1>4, RootIs DEF MemoryInv
    <2>3. QED
      BY <2>1, <2>2
  <1>7. \A v, w \in Worker : v # w => ApartInv(v, w)
    BY <1>4 DEF ApartInv
  <1>8. Len(Transcript(Root)) = 0 /\ StepOf(Root) = 0
    BY <1>0, <1>1, <1>5, TranscriptIs, RootIs
  <1>9. StoreInv /\ ExactInv
    <2>1. rows[Root.id] = NoRow
      BY <1>3, RootIs, Ids
    <2>2. QED
      BY <1>0, <1>8, <2>1 DEF StoreInv, ExactInv, ListInv
  <1>10. LateInv
    BY <1>0, <1>3 DEF LateInv, LateRows, LateCheckpoints, Root
  <1>11. OwnerInv
    <2>1. Tip = Root
      BY <1>0, <1>1, TipIs
    <2>2. Transcript(Root) = <<>>
      BY <1>0, <1>1, <1>5, <1>8, TranscriptIs, EmptySeq
    <2>3. rows[0] = NoRow
      BY <1>3, Ids
    <2>4. QED
      BY <1>0, <1>4, <2>1, <2>2, <2>3, RootIs DEF OwnerInv, Running
  <1>12. CountInv
    BY <1>0 DEF CountInv
  <1>13. QED
    BY <1>1, <1>2, <1>5, <1>6, <1>7, <1>9, <1>10, <1>11, <1>12 DEF IInv

-----------------------------------------------------------------------------
(* What steps leave alone.                                                  *)

Kept == UNCHANGED <<deployment, tables, dropped>> /\ clock' \in Id /\ clock' >= clock
        /\ \A v \in Worker : saver[v] = "plain" => saver'[v] = "plain"

LEMMA KeptStore ==
    ASSUME IInv, Kept
    PROVE  /\ ChainInv' /\ StoreInv' /\ ExactInv' /\ Tip' = Tip
           /\ \A c \in chain : Transcript(c)' = Transcript(c)
           /\ LateRows' = LateRows /\ LateCheckpoints' = LateCheckpoints
           /\ \A i : Stored(i)' <=> Stored(i)
           /\ Protected' => Protected
  <1>0. UNCHANGED <<fenced, channel, expects, chain, rows, dropped>>
    BY DEF Kept, deployment, tables
  <1>1. \A c \in chain : Transcript(c)' = Transcript(c)
    BY <1>0 DEF Transcript
  <1>2. LateRows' = LateRows /\ LateCheckpoints' = LateCheckpoints
    BY <1>0 DEF LateRows, LateCheckpoints
  <1>3. (\A i : Stored(i)' <=> Stored(i)) /\ Tip' = Tip
    BY <1>0 DEF Stored, Tip
  <1>4. Protected' => Protected
    BY <1>0 DEF Kept, Protected
  <1>5. ChainInv'
    <2>1. ASSUME NEW c \in chain PROVE c.id <= clock'
      <3>1. c.id <= clock /\ c.id \in Nat /\ clock \in Nat /\ clock' \in Nat
        BY CheckpointTyped, Ids DEF IInv, ChainInv, TypeOK, Kept
      <3>2. QED
        BY <3>1 DEF Kept
    <2>2. QED
      BY <1>0, <1>3, <2>1 DEF IInv, ChainInv
  <1>6. StoreInv'
    BY <1>0, <1>1 DEF IInv, StoreInv, ListInv, FitsOrDropped
  <1>7. ExactInv'
    BY <1>0, <1>1, <1>2, <1>4 DEF IInv, ExactInv, Exact, Fits
  <1>8. QED
    BY <1>1, <1>2, <1>3, <1>4, <1>5, <1>6, <1>7

LEMMA Bystander ==
    ASSUME IInv, Kept, NEW v \in Worker,
           phase'[v] = phase[v], block'[v] = block[v], at'[v] = at[v], next'[v] = next[v],
           mem'[v] = mem[v], msg'[v] = msg[v]
    PROVE  PlaceInv(v)' /\ MemoryInv(v)'
  <1>0. UNCHANGED <<channel, chain, rows, dropped>> /\ clock' >= clock /\ clock' \in Nat /\ clock \in Nat
        /\ next[v] \in Nat
    BY Ids DEF Kept, deployment, tables, IInv, TypeOK
  <1>1. /\ \A c \in chain : Transcript(c)' = Transcript(c)
        /\ \A i : Stored(i)' <=> Stored(i)
    BY KeptStore
  <1>2. PlaceInv(v) /\ MemoryInv(v)
    BY DEF IInv
  <1>3. PlaceInv(v)'
    BY <1>0, <1>1, <1>2 DEF PlaceInv, Running
  <1>4. MemoryInv(v)'
    BY <1>0, <1>1, <1>2 DEF MemoryInv
  <1>5. QED
    BY <1>3, <1>4

LEMMA KeptLate ==
    ASSUME IInv, Kept,
           \A w \in Worker : ~Superseded(w)' \/ block'[w] # "closed" => ~Superseded(w) \/ block[w] # "closed"
    PROVE  LateInv'
  <1>1. rows' = rows /\ LateRows' = LateRows /\ LateCheckpoints' = LateCheckpoints
    BY KeptStore DEF Kept, tables
  <1>2. QED
    BY <1>1 DEF IInv, LateInv

LEMMA KeptOwner ==
    ASSUME IInv, Kept,
           \A w \in Worker : Running(w)' =>
             /\ Running(w) /\ at'[w] = at[w] /\ mem'[w] = mem[w]
             /\ Superseded(w) => Superseded(w)'
             /\ phase'[w] = "put" <=> phase[w] = "put"
             /\ phase[w] = "put" => msg'[w] = msg[w] /\ next'[w] = next[w]
    PROVE  OwnerInv'
  <1>1. /\ UNCHANGED <<chain, rows>> /\ Tip' = Tip
        /\ \A c \in chain : Transcript(c)' = Transcript(c)
        /\ LateRows' = LateRows /\ LateCheckpoints' = LateCheckpoints
        /\ Protected' => Protected
    BY KeptStore DEF Kept, tables
  <1>2. SUFFICES ASSUME Protected', OwnerInv
                 PROVE  OwnerInv'
    BY DEF IInv, OwnerInv
  <1>3. Protected
    BY <1>1, <1>2
  <1>4. /\ \A c \in chain : c # Root /\ ~c.late =>
             \A w \in Worker : Running(w)' /\ at'[w] = c.parent => Superseded(w)'
        /\ \A c, d \in chain : c # d /\ c # Root /\ d # Root /\ c.parent = d.parent => c.late \/ d.late
    BY <1>2, <1>3 DEF OwnerInv
  <1>5. ASSUME LateRows = {}, NEW w \in Worker, Running(w)', ~Superseded(w)'
        PROVE  /\ \A c \in chain : c.id = at'[w] => Transcript(c) = mem'[w]
               /\ phase'[w] # "put" => rows[at'[w]] = NoRow
               /\ phase'[w] = "put" => msg'[w] = rows[at'[w]].msg
    BY <1>2, <1>3, <1>5 DEF OwnerInv
  <1>6. ASSUME LateCheckpoints = {}
        PROVE  /\ \A w \in Worker : Running(w)' /\ ~Superseded(w)' =>
                    /\ at'[w] = Tip.id
                    /\ phase'[w] = "put" => next'[w] > Tip.id
               /\ \A c \in chain : \E i \in 1..Len(Tip.line) : Tip.line[i] = c.id
    BY <1>2, <1>3, <1>6 DEF OwnerInv
  <1>7. QED
    BY <1>1, <1>4, <1>5, <1>6 DEF OwnerInv

LEMMA KeptCount ==
    ASSUME IInv, Kept, UNCHANGED <<clock, next, mem>>,
           \A w \in Worker : phase'[w] \in {"spawned", "claimed"} => phase[w] \in {"spawned", "claimed"}
    PROVE  CountInv'
  <1>1. chain' = chain /\ (\A i : Stored(i)' <=> Stored(i)) /\ \A c \in chain : c.by \in Worker
    BY KeptStore, CheckpointTyped DEF Kept, tables, IInv
  <1>2. QED
    BY <1>1 DEF IInv, CountInv, StepOf

\* A worker that is superseded stays so.
LEMMA SupersededStays ==
    ASSUME IInv, NEW w \in Worker, saver'[w] = saver[w], held'[w] = held[w],
           fence' \in Nat, fence' >= fence, Superseded(w)
    PROVE  Superseded(w)'
  BY DEF IInv, FenceInv, TypeOK, Superseded

LEMMA ApartStays ==
    ASSUME IInv, UNCHANGED <<next, at>>,
           \A w \in Worker : block'[w] = "holding" => block[w] = "holding"
    PROVE  \A v, w \in Worker : v # w => ApartInv(v, w)'
  BY DEF IInv, ApartInv

LEMMA ClaimKeeps ==
    ASSUME IInv, NEW w \in Worker, Claim(w)
    PROVE  IInv'
  <1> DEFINE won == fenced /\ fence = expects[w]
  <1>0. /\ phase[w] = "spawned" /\ phase' = [phase EXCEPT ![w] = "claimed"]
        /\ fence' = IF won THEN fence + 1 ELSE fence
        /\ held' = [held EXCEPT ![w] = IF won THEN fence' ELSE 0]
        /\ saver' = [saver EXCEPT ![w] = IF won THEN "fenced" ELSE "plain"]
        /\ UNCHANGED <<fenced, channel, expects, chain, rows, clock, block, at, next, mem, msg, result, dropped>>
        /\ TypeOK /\ FenceInv /\ fenced \in BOOLEAN
    BY ScenarioAssumption DEF Claim, Bumped, deployment, tables, IInv, TypeOK
  <1>1. fence' \in Nat /\ fence' >= fence /\ saver[w] = "none"
    BY <1>0 DEF TypeOK, FenceInv
  <1>2. /\ \A v \in Worker : v # w => saver'[v] = saver[v] /\ held'[v] = held[v] /\ phase'[v] = phase[v]
        /\ saver'[w] = IF won THEN "fenced" ELSE "plain"
        /\ held'[w] = IF won THEN fence' ELSE 0
        /\ phase'[w] = "claimed"
    BY <1>0 DEF TypeOK
  <1>3. TypeOK'
    BY <1>0, <1>1 DEF TypeOK
  <1>4. Kept
    BY <1>0, <1>1, <1>2, Ids DEF Kept, deployment, tables, TypeOK
  <1>5. FenceInv'
    <2>1. ASSUME NEW v \in Worker
          PROVE  /\ held'[v] <= fence'
                 /\ saver'[v] = "fenced" => fenced /\ held'[v] >= 1
                 /\ phase'[v] = "spawned" => saver'[v] = "none"
                 /\ saver'[v] = "none" => phase'[v] \in {"spawned", "done"}
      BY <1>0, <1>1, <1>2 DEF FenceInv, TypeOK
    <2>2. ASSUME NEW u \in Worker, NEW v \in Worker, saver'[u] = "fenced", saver'[v] = "fenced", held'[u] = held'[v]
          PROVE  u = v
      BY <1>0, <1>1, <1>2, <2>2 DEF FenceInv, TypeOK
    <2>3. QED
      BY <1>0, <1>1, <2>1, <2>2 DEF FenceInv, TypeOK
  <1>6. ASSUME NEW v \in Worker PROVE PlaceInv(v)' /\ MemoryInv(v)'
    <2>1. CASE v # w
      BY <1>0, <1>2, <1>4, <2>1, Bystander
    <2>2. CASE v = w
      <3>1. PlaceInv(w) /\ MemoryInv(w)
        BY DEF IInv
      <3>2. \A c \in chain : Transcript(c)' = Transcript(c)
        BY <1>4, KeptStore
      <3>3. QED
        BY <1>0, <1>2, <2>2, <3>1, <3>2 DEF PlaceInv, MemoryInv, Running, Stored
    <2>3. QED
      BY <2>1, <2>2
  <1>7. \A v \in Worker : phase'[v] # "claimed" \/ v # w => (Superseded(v) => Superseded(v)')
    BY <1>1, <1>2, SupersededStays
  <1>8. LateInv'
    <2>1. ~Superseded(w)
      BY <1>1 DEF Superseded
    <2>2. QED
      BY <1>0, <1>2, <1>4, <1>7, <2>1, KeptLate
  <1>9. OwnerInv'
    BY <1>0, <1>2, <1>4, <1>7, KeptOwner DEF Running
  <1>10. CountInv'
    BY <1>0, <1>2, <1>4, KeptCount
  <1>11. \A u, v \in Worker : u # v => ApartInv(u, v)'
    BY <1>0, ApartStays
  <1>12. QED
    BY <1>3, <1>4, <1>5, <1>6, <1>8, <1>9, <1>10, <1>11, KeptStore DEF IInv

\* The output of a task has the shape of its step and fits what is in memory.
LEMMA OutputIs ==
    ASSUME IInv, NEW w \in Worker, Running(w)
    PROVE  Shaped(Output(w), Len(mem[w]) + 1) /\ Fits(Output(w), mem[w])
  <1>1. mem[w] \in Seq(Message) /\ Len(mem[w]) \in Nat /\ Len(mem[w]) < Steps
    BY LenProperties DEF IInv, TypeOK, PlaceInv
  <1> DEFINE k == Len(mem[w]) + 1
  <1>10. Output(w) = IF k = Steps THEN [kind |-> "answer", id |-> <<w, k>>]
                    ELSE IF k % 2 = 1 THEN [kind |-> "use", id |-> <<w, k>>]
                    ELSE [kind |-> "result", id |-> mem[w][k - 1].id]
    BY DEF Output
  <1>2. k \in 1..Steps /\ k \in Nat \ {0} /\ Steps \in Nat /\ k = Len(mem[w]) + 1
    BY <1>1, Ids
  <1> HIDE DEF k
  <1>3. CASE k = Steps
    <2>1. Output(w) = [kind |-> "answer", id |-> <<w, k>>]
      BY <1>10, <1>3
    <2>2. ~Even(k)
      BY <1>3, Parity
    <2>4. Output(w) \in Message
      BY <1>2, <2>1 DEF Message
    <2>3. QED
      BY <1>2, <1>3, <2>1, <2>2, <2>4 DEF Shaped, Fits
  <1>4. CASE k # Steps /\ ~Even(k)
    <2>1. k % 2 = 1
      BY <1>2, <1>4, Parity
    <2>2. Output(w) = [kind |-> "use", id |-> <<w, k>>]
      BY <1>10, <1>4, <2>1
    <2>3. Output(w) \in Message
      BY <1>2, <2>2 DEF Message
    <2>4. QED
      BY <1>2, <1>4, <2>2, <2>3 DEF Shaped, Fits
  <1>5. CASE k # Steps /\ Even(k)
    <2>1. k % 2 # 1
      BY <1>2, <1>5, Parity
    <2>2. Output(w) = [kind |-> "result", id |-> mem[w][k - 1].id]
      BY <1>10, <1>5, <2>1
    <2>11. k - 1 \in Nat \ {0} /\ ~Even(k - 1)
      BY <1>2, <1>5, Parity
    <2>3. k - 1 \in 1..Len(mem[w]) /\ k - 1 \in Nat /\ ~Even(k - 1) /\ k - 1 = Len(mem[w])
      BY <1>1, <1>2, <2>11
    <2>4. Shaped(mem[w][k - 1], k - 1)
      BY <2>3 DEF IInv, MemoryInv
    <2>5. /\ mem[w][k - 1] \in Message /\ mem[w][k - 1].kind = "use" /\ mem[w][k - 1].id[2] = k - 1
      BY <1>1, <2>3, <2>4 DEF Shaped
    <2>6. mem[w][k - 1] = [kind |-> "use", id |-> mem[w][k - 1].id] /\ mem[w][k - 1].id \in Worker \X (1..Steps)
      BY <2>5, MessageTyped
    <2>7. Output(w) \in Message
      BY <2>2, <2>6 DEF Message
    <2>8. Shaped(Output(w), k)
      BY <1>5, <2>2, <2>5, <2>7 DEF Shaped
    <2>9. UseOf(Output(w)) = mem[w][Len(mem[w])]
      BY <2>2, <2>3, <2>6 DEF UseOf
    <2>10. QED
      BY <1>2, <2>8, <2>9 DEF Fits
  <1>6. QED
    BY <1>3, <1>4, <1>5

LEMMA RunTaskKeeps ==
    ASSUME IInv, NEW w \in Worker, RunTask(w)
    PROVE  IInv'
  <1>0. /\ phase[w] = "task" /\ phase' = [phase EXCEPT ![w] = "writes"]
        /\ msg' = [msg EXCEPT ![w] = Output(w)]
        /\ UNCHANGED <<fenced, channel, expects, chain, rows, clock, fence, held, saver, block, at, next, mem, result, dropped>>
        /\ TypeOK /\ FenceInv
    BY DEF RunTask, deployment, tables, ownership, IInv
  <1>1. /\ \A v \in Worker : v # w => phase'[v] = phase[v] /\ msg'[v] = msg[v]
        /\ phase'[w] = "writes" /\ msg'[w] = Output(w) /\ Running(w)
        /\ \A v \in Worker : Superseded(v)' = Superseded(v)
    BY <1>0 DEF TypeOK, Running, Superseded
  <1>2. Shaped(Output(w), Len(mem[w]) + 1) /\ Fits(Output(w), mem[w])
    BY <1>1, OutputIs
  <1>3. TypeOK'
    BY <1>0, <1>2 DEF TypeOK, Shaped
  <1>4. Kept
    BY <1>0, Ids DEF Kept, deployment, tables, TypeOK
  <1>5. FenceInv'
    BY <1>0, <1>1 DEF FenceInv
  <1>6. ASSUME NEW v \in Worker PROVE PlaceInv(v)' /\ MemoryInv(v)'
    <2>1. CASE v # w
      BY <1>0, <1>1, <1>4, <2>1, Bystander
    <2>2. CASE v = w
      <3>1. PlaceInv(w) /\ MemoryInv(w)
        BY DEF IInv
      <3>2. (\A c \in chain : Transcript(c)' = Transcript(c)) /\ \A i : Stored(i)' <=> Stored(i)
        BY <1>4, KeptStore
      <3>3. PlaceInv(w)'
        BY <1>0, <1>1, <3>1, <3>2 DEF PlaceInv, Running, StepOf
      <3>4. MemoryInv(w)'
        BY <1>0, <1>1, <1>2, <3>1, <3>2 DEF MemoryInv
      <3>5. QED
        BY <2>2, <3>3, <3>4
    <2>3. QED
      BY <2>1, <2>2
  <1>7. LateInv'
    BY <1>0, <1>1, <1>4, KeptLate
  <1>8. OwnerInv'
    BY <1>0, <1>1, <1>4, KeptOwner DEF Running
  <1>9. CountInv'
    BY <1>0, <1>1, <1>4, KeptCount
  <1>10. \A u, v \in Worker : u # v => ApartInv(u, v)'
    BY <1>0, ApartStays
  <1>11. QED
    BY <1>3, <1>4, <1>5, <1>6, <1>7, <1>8, <1>9, <1>10, KeptStore DEF IInv

\* A step that only opens a block: admission, and the wait of an insert.
LEMMA BlockKeeps ==
    ASSUME IInv, NEW w \in Worker, NEW b \in {"admitted", "holding", "skipping"},
           block' = [block EXCEPT ![w] = b],
           phase[w] \in {"writes", "put"}, ~Superseded(w) \/ block[w] # "closed",
           b # "admitted" => phase[w] = "writes",
           b = "holding" => rows[at[w]] = NoRow /\ ~Locked(w),
           b = "skipping" => rows[at[w]] # NoRow,
           UNCHANGED <<deployment, tables, clock, ownership, phase, at, next, mem, msg, result, dropped>>
    PROVE  IInv'
  <1>0. /\ UNCHANGED <<fenced, channel, expects, chain, rows, clock, fence, held, saver, phase, at, next, mem, msg, result, dropped>>
        /\ TypeOK /\ FenceInv
    BY DEF deployment, tables, ownership, IInv
  <1>1. /\ \A v \in Worker : v # w => block'[v] = block[v]
        /\ block'[w] = b
        /\ \A v \in Worker : Superseded(v)' = Superseded(v)
    BY <1>0 DEF TypeOK, Superseded
  <1>2. TypeOK'
    BY <1>0 DEF TypeOK
  <1>3. Kept
    BY <1>0, Ids DEF Kept, deployment, tables, TypeOK
  <1>4. FenceInv'
    BY <1>0, <1>1 DEF FenceInv
  <1>5. ASSUME NEW v \in Worker PROVE PlaceInv(v)' /\ MemoryInv(v)'
    <2>1. CASE v # w
      BY <1>0, <1>1, <1>3, <2>1, Bystander
    <2>2. CASE v = w
      <3>1. PlaceInv(w) /\ MemoryInv(w)
        BY DEF IInv
      <3>2. (\A c \in chain : Transcript(c)' = Transcript(c)) /\ \A i : Stored(i)' <=> Stored(i)
        BY <1>3, KeptStore
      <3>3. PlaceInv(w)'
        BY <1>0, <1>1, <3>1, <3>2 DEF PlaceInv, Running, StepOf
      <3>4. MemoryInv(w)'
        BY <1>0, <1>1, <3>1, <3>2 DEF MemoryInv
      <3>5. QED
        BY <2>2, <3>3, <3>4
    <2>3. QED
      BY <2>1, <2>2
  <1>6. LateInv'
    BY <1>0, <1>1, <1>3, KeptLate
  <1>7. OwnerInv'
    BY <1>0, <1>1, <1>3, KeptOwner DEF Running
  <1>8. CountInv'
    BY <1>0, <1>3, KeptCount
  <1>9. ASSUME NEW u \in Worker, NEW v \in Worker, u # v PROVE ApartInv(u, v)'
    BY <1>0, <1>1, <1>9 DEF IInv, ApartInv, Locked
  <1>10. QED
    BY <1>2, <1>3, <1>4, <1>5, <1>6, <1>7, <1>8, <1>9, KeptStore DEF IInv

LEMMA AdmitKeeps ==
    ASSUME IInv, NEW w \in Worker, Admit(w)
    PROVE  IInv'
  BY BlockKeeps DEF Admit, MayWrite

LEMMA InsertKeeps ==
    ASSUME IInv, NEW w \in Worker, Insert(w)
    PROVE  IInv'
  <1>1. CASE DoesNothing(w)
    BY <1>1, BlockKeeps DEF Insert, DoesNothing
  <1>2. CASE ~DoesNothing(w)
    BY <1>2, BlockKeeps DEF Insert, DoesNothing
  <1>3. QED
    BY <1>1, <1>2

\* A worker that stops, refused or killed, leaves the rest as it is.
LEMMA StopKeeps ==
    ASSUME IInv, NEW w \in Worker, NEW r \in {"refused", "killed"},
           phase[w] # "done", phase' = [phase EXCEPT ![w] = "done"],
           result' = [result EXCEPT ![w] = r], block' = [block EXCEPT ![w] = "closed"],
           UNCHANGED <<deployment, tables, clock, ownership, at, next, mem, msg, dropped>>
    PROVE  IInv'
  <1>0. /\ UNCHANGED <<fenced, channel, expects, chain, rows, clock, fence, held, saver, at, next, mem, msg, dropped>>
        /\ TypeOK /\ FenceInv
    BY DEF deployment, tables, ownership, IInv
  <1>1. /\ \A v \in Worker : v # w => block'[v] = block[v] /\ phase'[v] = phase[v]
        /\ block'[w] = "closed" /\ phase'[w] = "done"
        /\ \A v \in Worker : Superseded(v)' = Superseded(v)
    BY <1>0 DEF TypeOK, Superseded
  <1>2. TypeOK'
    BY <1>0 DEF TypeOK
  <1>3. Kept
    BY <1>0, Ids DEF Kept, deployment, tables, TypeOK
  <1>4. FenceInv'
    BY <1>0, <1>1 DEF FenceInv
  <1>5. ASSUME NEW v \in Worker PROVE PlaceInv(v)' /\ MemoryInv(v)'
    <2>1. CASE v # w
      BY <1>0, <1>1, <1>3, <2>1, Bystander
    <2>2. CASE v = w
      <3>1. PlaceInv(w) /\ MemoryInv(w)
        BY DEF IInv
      <3>2. (\A c \in chain : Transcript(c)' = Transcript(c)) /\ \A i : Stored(i)' <=> Stored(i)
        BY <1>3, KeptStore
      <3>3. PlaceInv(w)'
        BY <1>0, <1>1, <3>1, <3>2 DEF PlaceInv, Running, StepOf
      <3>4. MemoryInv(w)'
        BY <1>0, <1>1, <3>1, <3>2 DEF MemoryInv
      <3>5. QED
        BY <2>2, <3>3, <3>4
    <2>3. QED
      BY <2>1, <2>2
  <1>6. LateInv'
    BY <1>0, <1>1, <1>3, KeptLate
  <1>7. OwnerInv'
    BY <1>0, <1>1, <1>3, KeptOwner DEF Running
  <1>8. CountInv'
    BY <1>0, <1>1, <1>3, KeptCount
  <1>9. \A u, v \in Worker : u # v => ApartInv(u, v)'
    BY <1>0, <1>1, ApartStays
  <1>10. QED
    BY <1>2, <1>3, <1>4, <1>5, <1>6, <1>7, <1>8, <1>9, KeptStore DEF IInv

LEMMA RefuseKeeps ==
    ASSUME IInv, NEW w \in Worker, Refuse(w)
    PROVE  IInv'
  <1>1. block' = [block EXCEPT ![w] = "closed"]
    BY DEF Refuse, IInv, TypeOK
  <1>2. QED
    BY <1>1, StopKeeps DEF Refuse

LEMMA KillKeeps ==
    ASSUME IInv, NEW w \in Worker, Kill(w)
    PROVE  IInv'
  BY StopKeeps DEF Kill, ClosedByKill

\* Ids do not run out: each was drawn by a worker for one of its steps, and
\* the step n of w is one that none was drawn for.
LEMMA Room ==
    ASSUME IInv, NEW w \in Worker, NEW n \in 1..Steps, Stored(next[w]),
           \A c \in chain : c # Root /\ c.by = w => StepOf(c) # n
    PROVE  clock + 1 \in Id
  <1> DEFINE Draws(i, q) ==
               \/ \E c \in chain : c # Root /\ c.id = i /\ q = <<c.by, StepOf(c)>>
               \/ \E v \in Worker : ~Stored(i) /\ next[v] = i /\ q = <<v, Len(mem[v]) + 1>>
             All == Worker \X (1..Steps)
             T == All \ {<<w, n>>}
             f == [i \in 1..clock |-> CHOOSE q \in T : Draws(i, q)]
  <1>1. /\ clock \in Nat /\ Steps \in Nat \ {0}
        /\ \A v \in Worker : Len(mem[v]) \in Nat
        /\ \A c \in chain : StepOf(c) \in Nat /\ StepOf(c) <= Steps /\ c.by \in Worker
    BY Ids, LenProperties, TranscriptIs, CheckpointTyped DEF IInv, TypeOK, ChainInv
  <1>2. ASSUME NEW i \in 1..clock PROVE \E q \in T : Draws(i, q)
    <2>1. CASE Stored(i)
      <3>1. PICK c \in chain : c.id = i
        BY <2>1 DEF Stored
      <3>2. c # Root
        BY <3>1, RootIs
      <3>3. <<c.by, StepOf(c)>> \in T
        BY <1>1, <3>2 DEF IInv, CountInv
      <3>4. QED
        BY <3>1, <3>2, <3>3
    <2>2. CASE ~Stored(i)
      <3>1. PICK v \in Worker : next[v] = i
        BY <1>1, <2>2 DEF IInv, CountInv
      <3>2. v # w /\ Len(mem[v]) < Steps
        BY <2>2, <3>1 DEF IInv, PlaceInv
      <3>3. <<v, Len(mem[v]) + 1>> \in T
        BY <1>1, <3>2
      <3>4. QED
        BY <2>2, <3>1, <3>3
    <2>3. QED
      BY <2>1, <2>2
  <1>3. ASSUME NEW i \in 1..clock, NEW j \in 1..clock, NEW q \in T, Draws(i, q), Draws(j, q)
        PROVE  i = j
    <2>1. ASSUME NEW c \in chain, c # Root, c.id = i, q = <<c.by, StepOf(c)>>,
                 NEW d \in chain, d # Root, d.id = j, q = <<d.by, StepOf(d)>>
          PROVE  i = j
      BY <2>1 DEF IInv, CountInv
    <2>2. ASSUME NEW c \in chain, c # Root, q = <<c.by, StepOf(c)>>,
                 NEW v \in Worker, q = <<v, Len(mem[v]) + 1>>
          PROVE  FALSE
      <3>1. c.by = v /\ StepOf(c) = Len(mem[v]) + 1
        BY <2>2
      <3>2. StepOf(c) <= Len(mem[c.by])
        BY <2>2 DEF IInv, CountInv
      <3>3. QED
        BY <1>1, <3>1, <3>2
    <2>3. ASSUME NEW u \in Worker, next[u] = i, q = <<u, Len(mem[u]) + 1>>,
                 NEW v \in Worker, next[v] = j, q = <<v, Len(mem[v]) + 1>>
          PROVE  i = j
      BY <2>3
    <2>4. QED
      BY <1>3, <2>1, <2>2, <2>3
  <1>4. f \in [1..clock -> T] /\ \A i \in 1..clock : Draws(i, f[i])
    BY <1>2
  <1>5. \A i, j \in 1..clock : f[i] = f[j] => i = j
    <2> HIDE DEF Draws, f, T
    <2>1. \A i \in 1..clock : f[i] \in T /\ Draws(i, f[i])
      BY <1>4
    <2>2. QED
      BY <1>3, <2>1
  <1>6. /\ IsFiniteSet(1..Steps) /\ Cardinality(1..Steps) = Steps
        /\ IsFiniteSet(1..clock) /\ Cardinality(1..clock) = clock
    BY <1>1, FS_Interval
  <1>7. IsFiniteSet(All) /\ Cardinality(All) = Cardinality(Worker) * Steps
    BY <1>6, FS_Product, ScenarioAssumption
  <1>8. IsFiniteSet(T) /\ Cardinality(T) = Cardinality(All) - 1
    <2>1. <<w, n>> \in All
      OBVIOUS
    <2> HIDE DEF All
    <2>2. QED
      BY <1>7, <2>1, FS_RemoveElement
  <1>9. ~(Cardinality(T) < clock)
    <2>1. f \in [1..clock -> T]
      BY <1>4
    <2> HIDE DEF T, f
    <2>2. Cardinality(T) < clock => \E x, y \in 1..clock : x # y /\ f[x] = f[y]
      BY <1>6, <1>8, <2>1, FS_PigeonHole
    <2>3. QED
      BY <1>5, <2>2
  <1>10. PICK m \in Nat : m = Steps * Cardinality(Worker) /\ Cardinality(All) = m
    BY <1>1, <1>7, Ids
  <1>11. clock + 1 <= m
    BY <1>1, <1>8, <1>9, <1>10
  <1>12. QED
    BY <1>1, <1>10, <1>11 DEF Id

\* A worker that loads the thread stands at its tip with what is stored there.
LEMMA LoadKeeps ==
    ASSUME IInv, NEW w \in Worker, Load(w)
    PROVE  IInv'
  <1> DEFINE tip == Tip
  <1>0. /\ phase[w] = "claimed"
        /\ at' = [at EXCEPT ![w] = tip.id] /\ mem' = [mem EXCEPT ![w] = Transcript(tip)]
        /\ UNCHANGED <<fenced, channel, expects, chain, rows, fence, held, saver, block, dropped>>
        /\ TypeOK /\ FenceInv /\ ChainInv /\ PlaceInv(w)
    BY DEF Load, deployment, tables, ownership, IInv
  <1>1. \/ /\ phase' = [phase EXCEPT ![w] = "done"] /\ result' = [result EXCEPT ![w] = "ok"]
           /\ UNCHANGED <<msg, next, clock>>
        \/ /\ StepOf(tip) < Steps /\ rows[tip.id] # NoRow
           /\ msg' = [msg EXCEPT ![w] = rows[tip.id].msg]
           /\ clock' = clock + 1 /\ next' = [next EXCEPT ![w] = clock + 1]
           /\ phase' = [phase EXCEPT ![w] = "put"] /\ result' = result
        \/ /\ StepOf(tip) < Steps /\ rows[tip.id] = NoRow
           /\ phase' = [phase EXCEPT ![w] = "task"]
           /\ UNCHANGED <<msg, next, clock, result>>
    BY DEF Load, Pending
  <1>2. /\ tip \in chain /\ (\A d \in chain : d.id <= tip.id) /\ tip.id \in Id /\ tip.id \in Nat
        /\ Transcript(tip) \in Seq(Message) /\ Len(Transcript(tip)) = StepOf(tip) /\ StepOf(tip) \in Nat
        /\ tip.id <= clock /\ clock \in Nat
    BY <1>0, TipIs, CheckpointTyped, TranscriptIs, Ids DEF ChainInv, TypeOK
  <1>3. next[w] = 0 /\ Stored(0) /\ Stored(next[w]) /\ block[w] = "closed"
    BY <1>0, RootIs DEF PlaceInv, TypeOK, Stored
  <1>4. clock + 1 \in Id
    <2>1. 1 \in 1..Steps
      BY Ids
    <2>2. \A c \in chain : c # Root => c.by # w
      BY <1>0 DEF IInv, CountInv
    <2>3. QED
      BY <1>3, <2>1, <2>2, Room
  <1> HIDE DEF tip
  <1>5. /\ \A v \in Worker : v # w => /\ phase'[v] = phase[v] /\ at'[v] = at[v] /\ next'[v] = next[v]
                                      /\ mem'[v] = mem[v] /\ msg'[v] = msg[v]
        /\ at'[w] = tip.id /\ mem'[w] = Transcript(tip)
        /\ phase'[w] \in {"done", "task", "put"}
        /\ phase'[w] = "put" => /\ StepOf(tip) < Steps /\ rows[tip.id] # NoRow
                                /\ msg'[w] = rows[tip.id].msg
                                /\ clock' = clock + 1 /\ next'[w] = clock + 1
        /\ phase'[w] # "put" => clock' = clock /\ next'[w] = 0 /\ msg'[w] = msg[w]
        /\ phase'[w] = "task" => StepOf(tip) < Steps /\ rows[tip.id] = NoRow
        /\ clock' \in {clock, clock + 1}
        /\ \A v \in Worker : Superseded(v)' = Superseded(v)
    BY <1>0, <1>1, <1>3 DEF TypeOK, Superseded
  <1>6. TypeOK'
    <2>1. rows[tip.id] # NoRow => rows[tip.id].msg \in Message
      BY <1>0, <1>2, RowTyped
    <2>2. QED
      BY <1>0, <1>1, <1>2, <1>4, <2>1 DEF TypeOK
  <1>7. Kept
    BY <1>0, <1>2, <1>4, <1>5 DEF Kept, deployment, tables, TypeOK
  <1>8. (\A c \in chain : Transcript(c)' = Transcript(c)) /\ (\A i : Stored(i)' <=> Stored(i)) /\ Tip' = tip
    BY <1>7, KeptStore DEF tip
  <1>9. FenceInv'
    BY <1>0, <1>5 DEF FenceInv
  <1>10. \A c \in chain : c.id = tip.id => c = tip
    BY <1>0, <1>2 DEF ChainInv
  <1>11. ~Stored(clock + 1)
    BY <1>0, <1>2, CheckpointTyped DEF Stored, ChainInv
  <1>12. ASSUME NEW v \in Worker PROVE PlaceInv(v)' /\ MemoryInv(v)'
    <2>1. CASE v # w
      BY <1>0, <1>5, <1>7, <2>1, Bystander
    <2>2. CASE v = w
      <3>1. PlaceInv(w)'
        BY <1>0, <1>2, <1>3, <1>5, <1>8, <1>11 DEF PlaceInv, Running, StepOf
      <3>2. /\ ListInv(Transcript(tip))
            /\ rows[tip.id] # NoRow => Shaped(rows[tip.id].msg, StepOf(tip) + 1)
            /\ rows[tip.id] # NoRow /\ channel = "plain" => Fits(rows[tip.id].msg, Transcript(tip))
            /\ channel = "plain" => Transcript(tip) = tip.blob
        BY <1>0, <1>2, TranscriptIs DEF IInv, StoreInv, ExactInv, Exact
      <3>3. MemoryInv(w)'
        BY <1>0, <1>2, <1>5, <1>8, <1>10, <3>2 DEF MemoryInv, ListInv
      <3>4. QED
        BY <2>2, <3>1, <3>3
    <2>3. QED
      BY <2>1, <2>2
  <1>13. LateInv'
    BY <1>0, <1>5, <1>7, KeptLate
  <1>14. OwnerInv'
    <2>1. /\ LateRows' = LateRows /\ LateCheckpoints' = LateCheckpoints /\ (Protected' => Protected)
      BY <1>7, KeptStore
    <2>2. SUFFICES ASSUME Protected', OwnerInv PROVE OwnerInv'
      BY DEF IInv, OwnerInv
    <2>3. Protected
      BY <2>1, <2>2
    <2>4. ASSUME NEW c \in chain, c # Root, ~c.late, NEW v \in Worker, Running(v)', at'[v] = c.parent
          PROVE  Superseded(v)'
      <3>1. c.id \in Nat /\ c.parent \in Nat /\ c.id > c.parent /\ c.id <= tip.id
        BY <1>0, <1>2, <2>4, CheckpointTyped, Ids DEF ChainInv
      <3>2. v # w
        BY <1>2, <1>5, <2>4, <3>1
      <3>3. QED
        BY <1>5, <2>2, <2>3, <2>4, <3>2 DEF OwnerInv, Running
    <2>5. ASSUME LateRows = {}, NEW v \in Worker, Running(v)', ~Superseded(v)'
          PROVE  /\ \A c \in chain : c.id = at'[v] => Transcript(c) = mem'[v]
                 /\ phase'[v] # "put" => rows[at'[v]] = NoRow
                 /\ phase'[v] = "put" => msg'[v] = rows[at'[v]].msg
      <3>1. CASE v = w
        BY <1>5, <1>10, <2>5, <3>1 DEF Running
      <3>2. CASE v # w
        BY <1>5, <2>2, <2>3, <2>5, <3>2 DEF OwnerInv, Running
      <3>3. QED
        BY <3>1, <3>2
    <2>6. ASSUME LateCheckpoints = {}, NEW v \in Worker, Running(v)', ~Superseded(v)'
          PROVE  at'[v] = tip.id /\ (phase'[v] = "put" => next'[v] > tip.id)
      <3>1. CASE v = w
        BY <1>2, <1>5, <2>6, <3>1 DEF Running
      <3>2. CASE v # w
        BY <1>5, <2>2, <2>3, <2>6, <3>2 DEF OwnerInv, Running, tip
      <3>3. QED
        BY <3>1, <3>2
    <2>7. LateCheckpoints = {} => \A c \in chain : \E i \in 1..Len(tip.line) : tip.line[i] = c.id
      BY <2>2, <2>3 DEF OwnerInv, tip
    <2>8. \A c, d \in chain : c # d /\ c # Root /\ d # Root /\ c.parent = d.parent => c.late \/ d.late
      BY <2>2, <2>3 DEF OwnerInv
    <2>9. QED
      BY <1>0, <1>8, <2>1, <2>4, <2>5, <2>6, <2>7, <2>8 DEF OwnerInv
  <1>15. CountInv'
    <2>1. \A i \in 1..clock' : Stored(i) \/ \E v \in Worker : next'[v] = i
      <3> TAKE i \in 1..clock'
      <3>1. CASE i \in 1..clock
        <4>1. Stored(i) \/ \E v \in Worker : next[v] = i
          BY <3>1 DEF IInv, CountInv
        <4>2. QED
          BY <1>3, <1>5, <3>1, <4>1
      <3>2. CASE i \notin 1..clock
        BY <1>2, <1>5, <3>2
      <3>3. QED
        BY <3>1, <3>2
    <2>2. \A c \in chain : c # Root => c.by # w /\ c.by \in Worker
      BY <1>0, CheckpointTyped DEF IInv, CountInv
    <2>3. QED
      BY <1>0, <1>5, <1>8, <2>1, <2>2 DEF IInv, CountInv, StepOf
  <1>16. ASSUME NEW u \in Worker, NEW v \in Worker, u # v PROVE ApartInv(u, v)'
    <2>1. ApartInv(u, v) /\ next[u] <= clock /\ next[v] <= clock /\ next[u] \in Nat /\ next[v] \in Nat
      BY <1>0, <1>16, Ids DEF IInv, PlaceInv, TypeOK
    <2>2. QED
      BY <1>0, <1>2, <1>3, <1>5, <1>16, <2>1 DEF ApartInv
  <1>17. QED
    BY <1>6, <1>7, <1>9, <1>12, <1>13, <1>14, <1>15, <1>16, KeptStore DEF IInv

LEMMA RowIs == ASSUME NEW r \in Row PROVE r # NoRow
  <1>1. r.msg.kind \in {"use", "result", "answer"}
    BY DEF Row, Message
  <1>2. NoRow.msg.kind = "none"
    BY DEF NoRow, NoMessage
  <1>3. QED
    BY <1>1, <1>2

\* Under the fence at most one worker that runs is not superseded.
LEMMA OwnerIsAlone ==
    ASSUME IInv, Protected, NEW v \in Worker, NEW w \in Worker,
           Running(v), Running(w), ~Superseded(v), ~Superseded(w)
    PROVE  v = w
  <1>1. ASSUME NEW u \in Worker, Running(u) PROVE saver[u] = "fenced"
    BY <1>1 DEF IInv, TypeOK, FenceInv, Running, Protected
  <1>2. QED
    BY <1>1 DEF Superseded, IInv, FenceInv

\* What a commit of w's writes changes, for the steps below.
LEMMA WritesStored ==
    ASSUME IInv, NEW w \in Worker, CommitWrites(w)
    PROVE  /\ block[w] \in {"holding", "skipping"} /\ phase[w] = "writes" /\ Shaped(msg[w], Len(mem[w]) + 1)
           /\ \A i \in Id : rows[i] # NoRow \/ i # at[w] => rows'[i] = rows[i]
           /\ block[w] = "holding" => /\ rows[at[w]] = NoRow /\ dropped' = dropped
                                      /\ rows'[at[w]] = [msg |-> msg[w], by |-> w, late |-> Superseded(w)]
           /\ block[w] = "skipping" => rows' = rows /\ dropped' = dropped \cup {msg[w]}
           /\ rows'[at[w]] # NoRow /\ at[w] \in Id
           /\ clock + 1 \in Id
           /\ TypeOK'
  <1>0. /\ phase[w] = "writes" /\ block[w] \in {"holding", "skipping"}
        /\ block[w] = "holding" =>
             rows' = [rows EXCEPT ![at[w]] = [msg |-> msg[w], by |-> w, late |-> Superseded(w)]]
             /\ dropped' = dropped
        /\ block[w] = "skipping" => rows' = rows /\ dropped' = dropped \cup {msg[w]}
        /\ block' = [block EXCEPT ![w] = "closed"] /\ phase' = [phase EXCEPT ![w] = "put"]
        /\ clock' = clock + 1 /\ next' = [next EXCEPT ![w] = clock + 1]
        /\ UNCHANGED <<fenced, channel, expects, chain, fence, held, saver, at, mem, msg, result>>
        /\ TypeOK
    BY DEF CommitWrites, deployment, ownership, IInv
  <1>1. /\ Shaped(msg[w], Len(mem[w]) + 1) /\ msg[w] \in Message
        /\ block[w] = "holding" => rows[at[w]] = NoRow
        /\ block[w] = "skipping" => rows[at[w]] # NoRow
        /\ at[w] \in Id /\ Stored(next[w]) /\ Len(mem[w]) < Steps /\ Len(mem[w]) \in Nat /\ Steps \in Nat
    BY <1>0, LenProperties, Ids DEF IInv, MemoryInv, PlaceInv, Shaped, TypeOK, Running
  <1>2. [msg |-> msg[w], by |-> w, late |-> Superseded(w)] \in Row
    BY <1>1 DEF Row, Superseded
  <1>3. /\ \A i \in Id : rows[i] # NoRow \/ i # at[w] => rows'[i] = rows[i]
        /\ block[w] = "holding" => rows'[at[w]] = [msg |-> msg[w], by |-> w, late |-> Superseded(w)]
    BY <1>0, <1>1 DEF TypeOK
  <1>4. rows'[at[w]] # NoRow
    BY <1>0, <1>1, <1>2, <1>3, RowIs
  <1>5. clock + 1 \in Id
    <2>1. \A c \in chain : c # Root /\ c.by = w => StepOf(c) <= Len(mem[w]) /\ StepOf(c) \in Nat
      BY TranscriptIs DEF IInv, CountInv
    <2>2. QED
      BY <1>1, <2>1, Room
  <1>6. TypeOK'
    <2>1. rows' \in [Id -> Row \cup {NoRow}] /\ dropped' \subseteq Message
      BY <1>0, <1>1, <1>2 DEF TypeOK
    <2>2. QED
      BY <1>0, <1>5, <2>1 DEF TypeOK
  <1>7. QED
    BY <1>0, <1>1, <1>3, <1>4, <1>5, <1>6

\* put_writes commits: the row goes to a checkpoint that had none, or the
\* message is dropped.  An owner that is not superseded finds none.
LEMMA CommitWritesKeeps ==
    ASSUME IInv, NEW w \in Worker, CommitWrites(w)
    PROVE  IInv'
  <1>0. /\ UNCHANGED <<fenced, channel, expects, chain, fence, held, saver, at, mem, msg, result>>
        /\ block' = [block EXCEPT ![w] = "closed"] /\ phase' = [phase EXCEPT ![w] = "put"]
        /\ clock' = clock + 1 /\ next' = [next EXCEPT ![w] = clock + 1]
        /\ TypeOK /\ FenceInv /\ ChainInv /\ clock \in Nat
    BY Ids DEF CommitWrites, deployment, ownership, IInv, TypeOK
  <1>1. /\ block[w] \in {"holding", "skipping"} /\ phase[w] = "writes" /\ Shaped(msg[w], Len(mem[w]) + 1)
        /\ \A i \in Id : rows[i] # NoRow \/ i # at[w] => rows'[i] = rows[i]
        /\ block[w] = "holding" => /\ rows[at[w]] = NoRow /\ dropped' = dropped
                                   /\ rows'[at[w]] = [msg |-> msg[w], by |-> w, late |-> Superseded(w)]
        /\ block[w] = "skipping" => rows' = rows /\ dropped' = dropped \cup {msg[w]}
        /\ rows'[at[w]] # NoRow /\ at[w] \in Id
        /\ clock + 1 \in Id
        /\ TypeOK'
    BY WritesStored
  <1>2. /\ \A v \in Worker : v # w => phase'[v] = phase[v] /\ next'[v] = next[v] /\ block'[v] = block[v]
        /\ phase'[w] = "put" /\ next'[w] = clock + 1 /\ block'[w] = "closed"
        /\ \A v \in Worker : Superseded(v)' = Superseded(v)
        /\ \A v \in Worker : at[v] \in Id
        /\ dropped \subseteq dropped'
        /\ \A i \in Id : rows[i] # NoRow => rows'[i] # NoRow
    BY <1>0, <1>1 DEF TypeOK, Superseded
  <1>3. /\ \A c \in chain : Transcript(c)' = Transcript(c)
        /\ \A i : Stored(i)' <=> Stored(i)
        /\ Tip' = Tip /\ LateCheckpoints' = LateCheckpoints /\ Protected' = Protected
    <2>1. ASSUME NEW c \in chain PROVE Transcript(c)' = Transcript(c)
      <3>1. \A k \in 1..StepOf(c) : rows'[c.line[k]].msg = rows[c.line[k]].msg
        <4> TAKE k \in 1..StepOf(c)
        <4>1. k \in 1..Len(c.line)
          BY CheckpointTyped DEF StepOf, IInv
        <4>2. c.line[k] \in Id /\ rows[c.line[k]] # NoRow
          BY <4>1, TranscriptIs DEF IInv, ChainInv
        <4>3. QED
          BY <1>1, <4>2
      <3>2. QED
        BY <1>0, <3>1 DEF Transcript, StepOf
    <2>2. QED
      BY <1>0, <2>1 DEF Stored, Tip, LateCheckpoints, Protected
  <1>4. PICK p \in chain : p.id = at[w] /\ StepOf(p) = Len(mem[w])
    BY DEF IInv, PlaceInv
  <1>5. /\ \A c \in chain : c.id = at[w] => c = p
        /\ \A c \in chain : c.id \in Id /\ c.id <= clock /\ c.id \in Nat
        /\ Len(mem[w]) \in Nat /\ Len(mem[w]) < Steps /\ Stored(next[w])
        /\ Len(Transcript(p)) = Len(mem[w])
        /\ ~Stored(clock + 1)
    <2>1. \A c \in chain : c.id \in Id /\ c.id <= clock /\ c.id \in Nat
      BY <1>0, CheckpointTyped DEF ChainInv
    <2>2. QED
      BY <1>0, <1>1, <1>4, <2>1, TranscriptIs, LenProperties DEF IInv, ChainInv, PlaceInv, Running, TypeOK, Stored
  <1>6. /\ Fits(msg[w], mem[w])
        /\ \A k \in 1..Len(mem[w]) : mem[w][k] = Transcript(p)[k] \/ mem[w][k] \in dropped
        /\ channel = "plain" => mem[w] = Transcript(p)
    BY <1>0, <1>1, <1>4, TranscriptIs DEF IInv, MemoryInv
  <1>7. FenceInv'
    BY <1>0, <1>1, <1>2 DEF FenceInv
  <1>8. ChainInv'
    <2>1. \A c \in chain : \A k \in 1..StepOf(c) : c.line[k] \in Id /\ rows'[c.line[k]] # NoRow
      <3> TAKE c \in chain
      <3> TAKE k \in 1..StepOf(c)
      <3>1. k \in 1..Len(c.line)
        BY <1>0, CheckpointTyped DEF StepOf
      <3>2. c.line[k] \in Id /\ rows[c.line[k]] # NoRow
        BY <1>0, <3>1, TranscriptIs DEF ChainInv
      <3>3. QED
        BY <1>2, <3>2
    <2>2. \A c \in chain : c.id <= clock'
      BY <1>0, <1>5
    <2>3. \A i \in Id : rows'[i] # NoRow => Stored(i)
      BY <1>0, <1>1, <1>4 DEF ChainInv, Stored
    <2>4. QED
      BY <1>0, <1>3, <2>1, <2>2, <2>3 DEF ChainInv, StepOf
  <1>9. ASSUME NEW v \in Worker, v # w PROVE PlaceInv(v)' /\ MemoryInv(v)'
    <2>1. PlaceInv(v) /\ MemoryInv(v) /\ at[v] \in Id /\ next[v] \in Nat /\ next[v] <= clock
      BY <1>0, Ids DEF IInv, TypeOK, PlaceInv
    <2>2. block[v] = "holding" => rows'[at[v]] = NoRow
      BY <1>1, <1>9, <2>1 DEF IInv, PlaceInv, ApartInv
    <2>3. PlaceInv(v)'
      BY <1>0, <1>2, <1>3, <1>9, <2>1, <2>2 DEF PlaceInv, Running, StepOf
    <2>4. phase[v] = "put" => rows'[at[v]] = rows[at[v]]
      BY <1>1, <2>1 DEF PlaceInv
    <2>5. MemoryInv(v)'
      BY <1>0, <1>2, <1>3, <1>9, <2>1, <2>4 DEF MemoryInv
    <2>6. QED
      BY <2>3, <2>5
  <1>10. PlaceInv(w)'
    <2>1. PlaceInv(w) /\ at[w] \in Nat /\ at[w] <= clock
      BY <1>4, <1>5, Ids DEF IInv
    <2>2. QED
      BY <1>0, <1>1, <1>2, <1>3, <1>5, <2>1 DEF PlaceInv, Running, StepOf
  <1>11. MemoryInv(w)'
    <2>1. MemoryInv(w)
      BY DEF IInv
    <2>2. msg[w] = rows'[at[w]].msg \/ msg[w] \in dropped'
      BY <1>1
    <2>3. QED
      BY <1>0, <1>1, <1>2, <1>3, <1>6, <2>1, <2>2 DEF MemoryInv
  <1>12. FitsOrDropped(msg[w], Transcript(p))
    <2>1. Even(Len(mem[w]) + 1) => Len(mem[w]) \in 1..Len(mem[w])
      BY <1>5, Parity
    <2>2. QED
      BY <1>5, <1>6, <2>1 DEF Fits, FitsOrDropped
  <1>13. StoreInv'
    <2>1. ASSUME NEW c \in chain PROVE ListInv(Transcript(c))'
      BY <1>2, <1>3 DEF IInv, StoreInv, ListInv
    <2>2. ASSUME NEW c \in chain, rows'[c.id] # NoRow
          PROVE  /\ StepOf(c) < Steps /\ Shaped(rows'[c.id].msg, StepOf(c) + 1)
                 /\ FitsOrDropped(rows[c.id].msg, Transcript(c))'
      <3>1. CASE rows'[c.id] = rows[c.id]
        BY <1>2, <1>3, <2>2, <3>1 DEF IInv, StoreInv, FitsOrDropped
      <3>2. CASE rows'[c.id] # rows[c.id]
        <4>1. c = p /\ rows'[c.id].msg = msg[w]
          BY <1>1, <1>4, <1>5, <3>2
        <4>2. QED
          BY <1>1, <1>2, <1>3, <1>4, <1>5, <1>12, <4>1 DEF FitsOrDropped
      <3>3. QED
        BY <3>1, <3>2
    <2>3. QED
      BY <1>0, <2>1, <2>2 DEF StoreInv, StepOf, Shaped
  <1>14. /\ \A i \in LateRows : i \in LateRows' /\ rows'[i] = rows[i]
         /\ ~Superseded(w) => LateRows' = LateRows
         /\ \A i \in LateRows' : i \in LateRows \/ (i = at[w] /\ rows'[i].by = w /\ Superseded(w))
    <2>1. \A i \in LateRows : i \in Id /\ rows[i] # NoRow /\ rows[i].late
      BY DEF LateRows
    <2>2. \A i \in LateRows : i \in LateRows' /\ rows'[i] = rows[i]
      BY <1>1, <2>1 DEF LateRows
    <2>3. ASSUME NEW i \in LateRows' PROVE i \in LateRows \/ (i = at[w] /\ rows'[i].by = w /\ Superseded(w))
      <3>1. i \in Id /\ rows'[i] # NoRow /\ rows'[i].late
        BY <2>3 DEF LateRows
      <3>2. CASE rows'[i] = rows[i]
        BY <3>1, <3>2 DEF LateRows
      <3>3. CASE rows'[i] # rows[i]
        BY <1>1, <3>1, <3>3
      <3>4. QED
        BY <3>2, <3>3
    <2>4. QED
      BY <2>2, <2>3
  <1>15. ExactInv'
    <2>1. SUFFICES ASSUME Exact' PROVE ExactInv'
      BY DEF ExactInv
    <2>2. Exact
      BY <1>0, <1>3, <1>14, <2>1 DEF Exact
    <2>3. ASSUME NEW c \in chain, rows'[c.id] # NoRow PROVE Fits(rows'[c.id].msg, Transcript(c))
      <3>1. CASE rows'[c.id] = rows[c.id]
        BY <2>2, <2>3, <3>1 DEF IInv, ExactInv
      <3>2. CASE rows'[c.id] # rows[c.id]
        <4>1. c = p /\ rows'[c.id].msg = msg[w] /\ block[w] = "holding"
          BY <1>1, <1>4, <1>5, <3>2
        <4>2. mem[w] = Transcript(p)
          <5>1. CASE channel = "plain"
            BY <1>6, <5>1
          <5>2. CASE Protected /\ LateRows' = {}
            <6>1. rows'[at[w]].late = Superseded(w)
              BY <1>1, <4>1
            <6>2. ~Superseded(w) /\ LateRows = {}
              BY <1>1, <1>14, <5>2, <6>1 DEF LateRows
            <6>3. QED
              BY <1>1, <1>4, <5>2, <6>2 DEF IInv, OwnerInv, Running
          <5>3. QED
            BY <1>0, <1>3, <2>1, <5>1, <5>2 DEF Exact
        <4>3. QED
          BY <1>6, <4>1, <4>2
      <3>3. QED
        BY <3>1, <3>2
    <2>4. QED
      BY <1>0, <1>3, <2>2, <2>3 DEF IInv, ExactInv, StepOf, Fits
  <1>16. LateInv'
    <2>1. CASE ~Superseded(w)
      <3>1. LateRows' = LateRows /\ \A i \in LateRows : rows'[i] = rows[i]
        BY <1>14, <2>1
      <3>2. QED
        BY <1>1, <1>2, <1>3, <3>1 DEF IInv, LateInv
    <2>2. CASE Superseded(w)
      <3>1. (\A i \in LateRows : rows[i].by # w) /\ (\A c \in LateCheckpoints : c.by # w)
        BY <1>1 DEF IInv, LateInv
      <3>2. \A i, j \in LateRows' : rows'[i].by = rows'[j].by => i = j
        BY <1>14, <3>1 DEF IInv, LateInv
      <3>3. \A i \in LateRows', c \in LateCheckpoints : rows'[i].by # c.by
        BY <1>14, <3>1 DEF IInv, LateInv
      <3>4. ASSUME NEW v \in Worker, ~Superseded(v) \/ block'[v] # "closed"
            PROVE  (\A i \in LateRows' : rows'[i].by # v) /\ (\A c \in LateCheckpoints : c.by # v)
        <4>1. v # w
          BY <1>2, <2>2, <3>4
        <4>2. QED
          BY <1>2, <1>14, <3>4, <4>1 DEF IInv, LateInv
      <3>5. QED
        BY <1>2, <1>3, <3>2, <3>3, <3>4 DEF IInv, LateInv
    <2>3. QED
      BY <2>1, <2>2
  <1>17. OwnerInv'
    <2>1. SUFFICES ASSUME Protected, OwnerInv PROVE OwnerInv'
      BY <1>3 DEF IInv, OwnerInv
    <2>2. /\ \A c \in chain : c # Root /\ ~c.late =>
               \A v \in Worker : Running(v)' /\ at[v] = c.parent => Superseded(v)
          /\ \A c, d \in chain : c # d /\ c # Root /\ d # Root /\ c.parent = d.parent => c.late \/ d.late
      BY <1>1, <1>2, <2>1 DEF OwnerInv, Running
    <2>3. ASSUME LateRows' = {}, NEW v \in Worker, Running(v)', ~Superseded(v)
          PROVE  /\ \A c \in chain : c.id = at[v] => Transcript(c) = mem[v]
                 /\ phase'[v] # "put" => rows'[at[v]] = NoRow
                 /\ phase'[v] = "put" => msg[v] = rows'[at[v]].msg
      <3>1. LateRows = {} /\ Running(v) /\ Running(w)
        BY <1>1, <1>2, <1>14, <2>3 DEF Running
      <3>2. /\ \A c \in chain : c.id = at[v] => Transcript(c) = mem[v]
            /\ phase[v] # "put" => rows[at[v]] = NoRow
            /\ phase[v] = "put" => msg[v] = rows[at[v]].msg
        BY <2>1, <2>3, <3>1 DEF OwnerInv
      <3>3. CASE v = w
        BY <1>1, <1>2, <3>2, <3>3 DEF IInv, PlaceInv
      <3>4. CASE v # w
        <4>1. block[w] = "skipping"
          <5>1. Superseded(w)
            BY <2>1, <2>3, <3>1, <3>4, OwnerIsAlone
          <5>2. SUFFICES ASSUME block[w] = "holding" PROVE FALSE
            BY <1>1
          <5>3. rows'[at[w]].late
            BY <1>1, <5>1, <5>2
          <5>4. QED
            BY <1>1, <2>3, <5>3 DEF LateRows
        <4>2. QED
          BY <1>1, <1>2, <3>2, <3>4, <4>1
      <3>5. QED
        BY <3>3, <3>4
    <2>4. ASSUME LateCheckpoints = {}, NEW v \in Worker, Running(v)', ~Superseded(v)
          PROVE  at[v] = Tip.id /\ (phase'[v] = "put" => next'[v] > Tip.id)
      <3>1. at[v] = Tip.id /\ (phase[v] = "put" => next[v] > Tip.id)
        BY <1>1, <1>2, <2>1, <2>4 DEF OwnerInv, Running
      <3>2. Tip.id <= clock /\ Tip.id \in Nat
        BY <1>0, <1>5, TipIs, Ids
      <3>3. QED
        BY <1>0, <1>2, <3>1, <3>2
    <2>5. LateCheckpoints = {} => \A c \in chain : \E i \in 1..Len(Tip.line) : Tip.line[i] = c.id
      BY <2>1 DEF OwnerInv
    <2>6. QED
      BY <1>0, <1>2, <1>3, <2>2, <2>3, <2>4, <2>5 DEF OwnerInv
  <1>18. CountInv'
    <2>1. \A i \in 1..clock' : Stored(i) \/ \E v \in Worker : next'[v] = i
      <3> TAKE i \in 1..clock'
      <3>1. CASE i \in 1..clock
        <4>1. Stored(i) \/ \E v \in Worker : next[v] = i
          BY <3>1 DEF IInv, CountInv
        <4>2. QED
          BY <1>2, <1>5, <3>1, <4>1
      <3>2. CASE i \notin 1..clock
        BY <1>0, <1>2, <3>2
      <3>3. QED
        BY <3>1, <3>2
    <2>2. \A v \in Worker : phase'[v] \in {"spawned", "claimed"} => phase[v] \in {"spawned", "claimed"}
      BY <1>2
    <2>3. \A c \in chain : c.by \in Worker
      BY <1>0, CheckpointTyped
    <2>4. QED
      BY <1>0, <1>3, <2>1, <2>2, <2>3 DEF IInv, CountInv, StepOf
  <1>19. ASSUME NEW u \in Worker, NEW v \in Worker, u # v PROVE ApartInv(u, v)'
    <2>1. ApartInv(u, v) /\ next[u] <= clock /\ next[v] <= clock /\ next[u] \in Nat /\ next[v] \in Nat
      BY <1>0, <1>19, Ids DEF IInv, PlaceInv, TypeOK
    <2>2. QED
      BY <1>0, <1>2, <1>19, <2>1 DEF ApartInv
  <1>20. QED
    BY <1>1, <1>7, <1>8, <1>9, <1>10, <1>11, <1>13, <1>15, <1>16, <1>17, <1>18, <1>19 DEF IInv

LEMMA LargestIs ==
    ASSUME NEW S, NEW q \in S, \A d \in S : d.id \in Nat, \A d \in S : d # q => d.id < q.id
    PROVE  (CHOOSE c \in S : \A d \in S : d.id <= c.id) = q
  <1>1. \A d \in S : d.id <= q.id
    OBVIOUS
  <1> DEFINE x == CHOOSE c \in S : \A d \in S : d.id <= c.id
  <1>2. x \in S /\ \A d \in S : d.id <= x.id
    BY <1>1
  <1> HIDE DEF x
  <1>3. x = q
    BY <1>2
  <1>4. QED
    BY <1>3 DEF x

\* The checkpoint a worker puts: one step on from the one it stands at, by the
\* message that is stored there, or on a plain channel by its own.
LEMMA ChildIs ==
    ASSUME IInv, NEW w \in Worker, phase[w] = "put", NEW p \in chain, p.id = at[w],
           NEW q, q = Child(w)
    PROVE  /\ q \in Checkpoint /\ q.id = next[w] /\ q.parent = at[w] /\ q.by = w
           /\ q.late = Superseded(w) /\ ~Stored(q.id) /\ q.id > q.parent /\ q.id <= clock
           /\ StepOf(p) = Len(mem[w]) /\ StepOf(q) = Len(mem[w]) + 1 /\ Len(q.line) = StepOf(q) + 1
           /\ Len(mem[w]) < Steps /\ Len(mem[w]) \in Nat
           /\ q.blob = Append(mem[w], msg[w]) /\ msg[w] \in Message
           /\ \A k \in 1..Len(p.line) : q.line[k] = p.line[k]
           /\ q.line[Len(q.line)] = q.id
           /\ \A k \in 1..StepOf(q) : rows[q.line[k]] # NoRow
           /\ Transcript(q) \in Seq(Message) /\ Len(Transcript(q)) = StepOf(q)
           /\ \A k \in 1..StepOf(p) : Transcript(q)[k] = Transcript(p)[k]
           /\ channel = "delta" => Transcript(q)[StepOf(q)] = rows[at[w]].msg
           /\ channel = "plain" => Transcript(q)[StepOf(q)] = msg[w] /\ Transcript(q) = q.blob
  <1>1. /\ TypeOK /\ ChainInv /\ PlaceInv(w) /\ MemoryInv(w) /\ channel \in {"delta", "plain"}
        /\ at[w] \in Id /\ at[w] \in Nat /\ next[w] \in Id /\ next[w] \in Nat /\ mem[w] \in Seq(Message)
        /\ Len(mem[w]) \in Nat
    BY ScenarioAssumption, Ids, LenProperties DEF IInv, TypeOK
  <1>2. /\ ~Stored(next[w]) /\ next[w] > at[w] /\ next[w] <= clock /\ rows[at[w]] # NoRow
        /\ Len(mem[w]) < Steps /\ msg[w] \in Message
    BY <1>1 DEF PlaceInv, MemoryInv, Running, Shaped
  <1>3. (CHOOSE c \in chain : c.id = at[w]) = p
    BY <1>1 DEF ChainInv
  <1>4. StepOf(p) = Len(mem[w])
    BY <1>1 DEF PlaceInv, ChainInv
  <1>5. p.line \in Seq(Id) /\ Len(p.line) \in Nat /\ Len(p.line) = Len(mem[w]) + 1
        /\ p.line[Len(p.line)] = at[w]
    BY <1>1, <1>4, CheckpointTyped DEF ChainInv, StepOf
  <1>6. q = [id |-> next[w], parent |-> at[w], by |-> w, late |-> Superseded(w),
             line |-> Append(p.line, next[w]), blob |-> Append(mem[w], msg[w])]
    BY <1>3 DEF Child
  <1>7. /\ q.line \in Seq(Id) /\ q.line = Append(p.line, next[w]) /\ Len(q.line) = Len(p.line) + 1
        /\ \A k \in 1..Len(p.line) : q.line[k] = p.line[k]
        /\ q.line[Len(p.line) + 1] = next[w]
    BY <1>1, <1>5, <1>6, AppendProperties
  <1>8. /\ q.blob = Append(mem[w], msg[w]) /\ q.blob \in Seq(Message) /\ Len(q.blob) = Len(mem[w]) + 1
        /\ \A k \in 1..Len(mem[w]) : q.blob[k] = mem[w][k]
        /\ q.blob[Len(mem[w]) + 1] = msg[w]
    BY <1>1, <1>2, <1>6, AppendProperties
  <1>9. Superseded(w) \in BOOLEAN
    BY DEF Superseded
  <1>10. q \in Checkpoint
    BY <1>1, <1>6, <1>7, <1>8, <1>9 DEF Checkpoint
  <1>11. StepOf(q) = Len(mem[w]) + 1 /\ Len(q.line) = StepOf(q) + 1
    BY <1>5, <1>7, <1>1 DEF StepOf
  <1>12. ASSUME NEW k \in 1..StepOf(q) PROVE q.line[k] \in Id /\ rows[q.line[k]] # NoRow
    <2>1. q.line[k] = p.line[k] /\ p.line[k] \in Id
      BY <1>1, <1>5, <1>7, <1>11, ElementOfSeq
    <2>2. CASE k \in 1..StepOf(p)
      BY <1>1, <2>1, <2>2 DEF ChainInv
    <2>3. CASE k \notin 1..StepOf(p)
      <3>1. k = Len(p.line)
        BY <1>1, <1>4, <1>5, <1>11, <2>3
      <3>2. QED
        BY <1>2, <1>5, <2>1, <3>1
    <2>4. QED
      BY <2>2, <2>3
  <1>13. /\ q.id = next[w] /\ q.parent = at[w] /\ q.by = w /\ q.late = Superseded(w)
         /\ ~Stored(q.id) /\ q.id > q.parent /\ q.id <= clock
         /\ q.line[Len(q.line)] = q.id
    BY <1>1, <1>2, <1>5, <1>6, <1>7
  <1>14. /\ Transcript(q) \in Seq(Message) /\ Len(Transcript(q)) = StepOf(q)
         /\ \A k \in 1..StepOf(p) : Transcript(q)[k] = Transcript(p)[k]
         /\ channel = "delta" => Transcript(q)[StepOf(q)] = rows[at[w]].msg
         /\ channel = "plain" => Transcript(q)[StepOf(q)] = msg[w] /\ Transcript(q) = q.blob
    <2>1. CASE channel = "delta"
      <3>1. \A k \in 1..StepOf(q) : rows[q.line[k]].msg \in Message
        BY <1>1, <1>12, RowTyped
      <3>2. Transcript(q) = [k \in 1..StepOf(q) |-> rows[q.line[k]].msg]
        BY <2>1 DEF Transcript
      <3>3. Transcript(q) \in Seq(Message) /\ Len(Transcript(q)) = StepOf(q)
        BY <1>1, <1>11, <3>1, <3>2
      <3>4. \A k \in 1..StepOf(p) : Transcript(p)[k] = rows[p.line[k]].msg
        BY <1>1, <2>1, TranscriptIs
      <3>5. \A k \in 1..StepOf(p) : k \in 1..StepOf(q) /\ q.line[k] = p.line[k]
        BY <1>1, <1>4, <1>5, <1>7, <1>11
      <3>6. StepOf(q) \in 1..StepOf(q) /\ q.line[StepOf(q)] = at[w]
        BY <1>1, <1>5, <1>7, <1>11
      <3>7. \A k \in 1..StepOf(p) : Transcript(q)[k] = Transcript(p)[k]
        BY <3>2, <3>4, <3>5
      <3>8. Transcript(q)[StepOf(q)] = rows[at[w]].msg
        BY <3>2, <3>6
      <3>9. QED
        BY <2>1, <3>3, <3>7, <3>8
    <2>2. CASE channel = "plain"
      <3>1. Transcript(q) = q.blob /\ Transcript(p) = p.blob /\ mem[w] = p.blob
        BY <1>1, <2>2 DEF Transcript, MemoryInv
      <3>2. QED
        BY <1>4, <1>8, <1>11, <2>2, <3>1
    <2>3. QED
      BY <1>1, <2>1, <2>2
  <1>15. QED
    BY <1>1, <1>2, <1>4, <1>7, <1>8, <1>10, <1>11, <1>12, <1>13, <1>14

\* The transcript of a new checkpoint goes on from that of its parent.
LEMMA ChildFits ==
    ASSUME IInv, NEW w \in Worker, phase[w] = "put", NEW p \in chain, p.id = at[w],
           NEW q, q = Child(w)
    PROVE  /\ ListInv(Transcript(q))
           /\ \A k \in 1..StepOf(q) : mem[w] \in Seq(Message) /\
                (Append(mem[w], msg[w])[k] = Transcript(q)[k] \/ Append(mem[w], msg[w])[k] \in dropped)
           /\ Exact => \A k \in 1..StepOf(q) :
                         Even(k) => UseOf(Transcript(q)[k]) = Transcript(q)[k - 1]
           /\ Protected /\ LateRows = {} /\ ~Superseded(w) => Transcript(q) = Append(mem[w], msg[w])
  <1>1. /\ StepOf(p) = Len(mem[w]) /\ StepOf(q) = Len(mem[w]) + 1
        /\ Len(mem[w]) \in Nat /\ msg[w] \in Message
        /\ Transcript(q) \in Seq(Message) /\ Len(Transcript(q)) = StepOf(q)
        /\ \A k \in 1..StepOf(p) : Transcript(q)[k] = Transcript(p)[k]
        /\ channel = "delta" => Transcript(q)[StepOf(q)] = rows[at[w]].msg
        /\ channel = "plain" => Transcript(q)[StepOf(q)] = msg[w]
    BY ChildIs
  <1>2. /\ Len(Transcript(p)) = Len(mem[w]) /\ mem[w] \in Seq(Message) /\ channel \in {"delta", "plain"}
        /\ rows[at[w]] # NoRow
    BY <1>1, TranscriptIs, ScenarioAssumption DEF IInv, TypeOK, PlaceInv
  <1>3. channel = "plain" => mem[w] = Transcript(p)
    BY TranscriptIs DEF IInv, MemoryInv
  <1> DEFINE n == Len(mem[w])
             m == Transcript(q)[StepOf(q)]
             a == Append(mem[w], msg[w])
  <1>4. a \in Seq(Message) /\ Len(a) = n + 1 /\ (\A k \in 1..n : a[k] = mem[w][k]) /\ a[n + 1] = msg[w]
    BY <1>1, <1>2, AppendProperties
  <1>5. Shaped(m, n + 1)
    <2>1. Shaped(rows[at[w]].msg, n + 1) /\ Shaped(msg[w], n + 1)
      BY <1>1, <1>2 DEF IInv, StoreInv, MemoryInv
    <2>2. QED
      BY <1>1, <1>2, <2>1
  <1>6. FitsOrDropped(m, Transcript(p)) /\ (Exact => Fits(m, Transcript(p)))
    <2>1. CASE channel = "delta"
      BY <1>1, <1>2, <2>1 DEF IInv, StoreInv, ExactInv
    <2>2. CASE channel = "plain"
      BY <1>1, <1>3, <2>2 DEF IInv, MemoryInv, Fits, FitsOrDropped
    <2>3. QED
      BY <1>2, <2>1, <2>2
  <1> HIDE DEF n, m, a
  <1>7. /\ n \in Nat /\ StepOf(p) = n /\ StepOf(q) = n + 1 /\ Len(Transcript(p)) = n
        /\ Transcript(q)[n + 1] = m
    BY <1>1, <1>2 DEF n, m
  <1>8. ASSUME NEW k \in 1..StepOf(q), k \notin 1..n PROVE k = n + 1
    BY <1>7, <1>8
  <1>9. ASSUME NEW k \in 1..n, Even(k)
        PROVE  k - 1 \in 1..n /\ Transcript(q)[k] = Transcript(p)[k] /\ Transcript(q)[k - 1] = Transcript(p)[k - 1]
    <2>1. k \in Nat \ {0} /\ k - 1 \in Nat \ {0}
      BY <1>9, <1>7, Parity
    <2>2. k - 1 \in 1..n
      BY <1>7, <2>1
    <2>3. QED
      BY <1>1, <1>7, <2>2
  <1>10. Even(n + 1) => Transcript(q)[n] = Transcript(p)[n] /\ (n + 1) - 1 = n
    <2>1. Even(n + 1) => n >= 1
      BY <1>7, Parity
    <2>2. QED
      BY <1>1, <1>7, <2>1
  <1>11. ListInv(Transcript(q))
    <2>1. ASSUME NEW k \in 1..StepOf(q)
          PROVE  /\ Shaped(Transcript(q)[k], k)
                 /\ Even(k) => UseOf(Transcript(q)[k]) = Transcript(q)[k - 1] \/ UseOf(Transcript(q)[k]) \in dropped
      <3>1. CASE k \in 1..n
        <4>1. ListInv(Transcript(p))
          BY DEF IInv, StoreInv
        <4>2. QED
          BY <1>1, <1>7, <1>9, <3>1, <4>1 DEF ListInv
      <3>2. CASE k = n + 1
        BY <1>5, <1>6, <1>7, <1>10, <3>2 DEF FitsOrDropped
      <3>3. QED
        BY <1>8, <3>1, <3>2
    <2>2. QED
      BY <1>1, <2>1 DEF ListInv
  <1>12. Exact => \A k \in 1..StepOf(q) : Even(k) => UseOf(Transcript(q)[k]) = Transcript(q)[k - 1]
    <2>1. ASSUME Exact, NEW k \in 1..StepOf(q), Even(k)
          PROVE  UseOf(Transcript(q)[k]) = Transcript(q)[k - 1]
      <3>1. CASE k \in 1..n
        BY <1>7, <1>9, <2>1, <3>1 DEF IInv, ExactInv
      <3>2. CASE k = n + 1
        BY <1>6, <1>7, <1>10, <2>1, <3>2 DEF Fits
      <3>3. QED
        BY <1>8, <3>1, <3>2
    <2>2. QED
      BY <2>1
  <1>13. ASSUME NEW k \in 1..StepOf(q) PROVE a[k] = Transcript(q)[k] \/ a[k] \in dropped
    <2>1. CASE k \in 1..n
      BY <1>1, <1>4, <1>7, <2>1 DEF IInv, MemoryInv, n
    <2>2. CASE k = n + 1
      BY <1>1, <1>2, <1>4, <1>7, <2>2 DEF IInv, MemoryInv
    <2>3. QED
      BY <1>8, <2>1, <2>2
  <1>14. ASSUME Protected, LateRows = {}, ~Superseded(w) PROVE Transcript(q) = a
    <2>1. Transcript(p) = mem[w] /\ msg[w] = rows[at[w]].msg
      BY <1>14 DEF IInv, OwnerInv, Running
    <2>2. \A k \in 1..StepOf(q) : Transcript(q)[k] = a[k]
      <3> TAKE k \in 1..StepOf(q)
      <3>1. CASE k \in 1..n
        BY <1>1, <1>4, <1>7, <2>1, <3>1
      <3>2. CASE k = n + 1
        BY <1>1, <1>2, <1>4, <1>7, <2>1, <3>2
      <3>3. QED
        BY <1>8, <3>1, <3>2
    <2>3. QED
      BY <1>1, <1>4, <1>7, <2>2, SeqEqual
  <1>15. QED
    BY <1>2, <1>11, <1>12, <1>13, <1>14 DEF a

\* put commits: the chain gets a checkpoint, its only one with that parent
\* unless one of the two is late.
LEMMA CommitPutKeeps ==
    ASSUME IInv, NEW w \in Worker, CommitPut(w)
    PROVE  IInv'
  <1>1. PICK p \in chain : p.id = at[w]
    BY DEF IInv, PlaceInv
  <1>2. PICK q : q = Child(w)
    OBVIOUS
  <1>3. /\ phase[w] = "put" /\ block[w] = "admitted" /\ Running(w)
        /\ chain' = chain \cup {q} /\ at' = [at EXCEPT ![w] = next[w]]
        /\ mem' = [mem EXCEPT ![w] = Append(mem[w], msg[w])]
        /\ block' = [block EXCEPT ![w] = "closed"]
        /\ \/ /\ Len(mem'[w]) = Steps /\ phase' = [phase EXCEPT ![w] = "done"]
              /\ result' = [result EXCEPT ![w] = "ok"]
           \/ /\ Len(mem'[w]) # Steps /\ phase' = [phase EXCEPT ![w] = "task"] /\ result' = result
        /\ UNCHANGED <<fenced, channel, expects, rows, clock, fence, held, saver, next, msg, dropped>>
        /\ TypeOK /\ FenceInv /\ ChainInv
    BY <1>2 DEF CommitPut, deployment, ownership, IInv, Ended, Running
  <1>4. /\ q \in Checkpoint /\ q.id = next[w] /\ q.parent = at[w] /\ q.by = w
        /\ q.late = Superseded(w) /\ ~Stored(q.id) /\ q.id > q.parent /\ q.id <= clock
        /\ StepOf(p) = Len(mem[w]) /\ StepOf(q) = Len(mem[w]) + 1 /\ Len(q.line) = StepOf(q) + 1
        /\ Len(mem[w]) < Steps /\ Len(mem[w]) \in Nat
        /\ q.blob = Append(mem[w], msg[w]) /\ msg[w] \in Message
        /\ \A k \in 1..Len(p.line) : q.line[k] = p.line[k]
        /\ q.line[Len(q.line)] = q.id
        /\ \A k \in 1..StepOf(q) : rows[q.line[k]] # NoRow
        /\ Len(Transcript(q)) = StepOf(q)
        /\ channel = "plain" => Transcript(q) = q.blob
    BY <1>1, <1>2, <1>3, ChildIs
  <1>5. /\ ListInv(Transcript(q))
        /\ \A k \in 1..StepOf(q) :
             Append(mem[w], msg[w])[k] = Transcript(q)[k] \/ Append(mem[w], msg[w])[k] \in dropped
        /\ Exact => \A k \in 1..StepOf(q) : Even(k) => UseOf(Transcript(q)[k]) = Transcript(q)[k - 1]
        /\ Protected /\ LateRows = {} /\ ~Superseded(w) => Transcript(q) = Append(mem[w], msg[w])
    BY <1>1, <1>2, <1>3, ChildFits
  <1>6. /\ mem[w] \in Seq(Message) /\ Append(mem[w], msg[w]) \in Seq(Message)
        /\ Len(Append(mem[w], msg[w])) = Len(mem[w]) + 1
        /\ \A k \in 1..Len(mem[w]) : Append(mem[w], msg[w])[k] = mem[w][k]
        /\ Append(mem[w], msg[w])[Len(mem[w]) + 1] = msg[w]
    BY <1>3, <1>4, AppendProperties DEF TypeOK
  <1>7. /\ \A v \in Worker : v # w => /\ phase'[v] = phase[v] /\ at'[v] = at[v]
                                      /\ mem'[v] = mem[v] /\ block'[v] = block[v]
        /\ at'[w] = q.id /\ mem'[w] = Append(mem[w], msg[w]) /\ block'[w] = "closed"
        /\ Len(mem'[w]) = StepOf(q) /\ phase'[w] \in {"task", "done"}
        /\ phase'[w] = "task" => Len(mem'[w]) < Steps
        /\ \A v \in Worker : Superseded(v)' = Superseded(v)
        /\ \A v \in Worker : at[v] \in Id /\ next[v] \in Id /\ next[v] \in Nat /\ at[v] \in Nat
        /\ q.id \in Id /\ q.id \in Nat /\ q.id > 0 /\ Steps \in Nat /\ clock \in Nat
    <2>1. /\ \A v \in Worker : v # w => /\ phase'[v] = phase[v] /\ at'[v] = at[v]
                                        /\ mem'[v] = mem[v] /\ block'[v] = block[v]
          /\ at'[w] = q.id /\ mem'[w] = Append(mem[w], msg[w]) /\ block'[w] = "closed"
          /\ \A v \in Worker : Superseded(v)' = Superseded(v)
      BY <1>3, <1>4 DEF TypeOK, Superseded
    <2>2. /\ \A v \in Worker : at[v] \in Id /\ next[v] \in Id /\ next[v] \in Nat /\ at[v] \in Nat
          /\ q.id \in Id /\ q.id \in Nat /\ q.id > 0 /\ Steps \in Nat /\ clock \in Nat
      BY <1>3, <1>4, Ids DEF TypeOK
    <2>3. /\ Len(mem'[w]) = StepOf(q) /\ phase'[w] \in {"task", "done"}
          /\ phase'[w] = "task" => Len(mem'[w]) # Steps
      BY <1>3, <1>4, <1>6, <2>1 DEF TypeOK
    <2>4. QED
      BY <1>4, <2>1, <2>2, <2>3
  <1>8. /\ \A c : Transcript(c)' = Transcript(c)
        /\ \A i : Stored(i)' <=> Stored(i) \/ i = q.id
        /\ LateRows' = LateRows /\ Protected' = Protected
        /\ \A v \in Worker : Stored(at[v]) /\ at[v] # q.id
        /\ \A c \in chain : c.id # q.id /\ c.id \in Nat /\ c.by \in Worker /\ c.parent \in Id
        /\ rows[q.id] = NoRow /\ q # Root /\ q \notin chain
    <2>1. (\A c : Transcript(c)' = Transcript(c)) /\ LateRows' = LateRows /\ Protected' = Protected
      BY <1>3 DEF Transcript, StepOf, LateRows, Protected
    <2>2. \A i : Stored(i)' <=> Stored(i) \/ i = q.id
      BY <1>3 DEF Stored
    <2>3. \A v \in Worker : Stored(at[v])
      BY DEF IInv, PlaceInv, Stored
    <2>4. \A c \in chain : c.id # q.id /\ c.id \in Nat /\ c.by \in Worker /\ c.parent \in Id
      BY <1>3, <1>4, CheckpointTyped DEF Stored
    <2>5. rows[q.id] = NoRow
      BY <1>3, <1>4, <1>7 DEF ChainInv
    <2>6. Root \in chain
      BY <1>3 DEF TypeOK
    <2>7. QED
      BY <1>4, <2>1, <2>2, <2>3, <2>4, <2>5, <2>6
  <1>9. TypeOK'
    <2>1. chain' \subseteq Checkpoint /\ Root \in chain'
      BY <1>3, <1>4 DEF TypeOK
    <2>2. mem' \in [Worker -> Seq(Message)] /\ at' \in [Worker -> Id]
      BY <1>3, <1>6, <1>7 DEF TypeOK
    <2>3. QED
      BY <1>3, <2>1, <2>2 DEF TypeOK
  <1>10. FenceInv'
    BY <1>3, <1>7 DEF FenceInv
  <1>11. ChainInv'
    <2>1. \A c, d \in chain' : c.id = d.id => c = d
      BY <1>3, <1>8 DEF ChainInv
    <2>2. ASSUME NEW c \in chain'
          PROVE  /\ c.id <= clock
                 /\ Len(c.line) >= 1 /\ StepOf(c) <= Steps
                 /\ c.line[Len(c.line)] = c.id
                 /\ Len(c.blob) = StepOf(c)
                 /\ c # Root => c.id > c.parent /\ Stored(c.parent)'
                 /\ \A k \in 1..StepOf(c) : rows[c.line[k]] # NoRow
      <3>1. CASE c = q
        <4>1. q.id <= clock /\ Len(q.line) >= 1 /\ StepOf(q) <= Steps /\ Len(q.blob) = StepOf(q)
          BY <1>4, <1>6, <1>7
        <4>2. Stored(q.parent)'
          BY <1>3, <1>1, <1>4 DEF Stored
        <4>3. QED
          BY <1>4, <3>1, <4>1, <4>2
      <3>2. CASE c \in chain
        BY <1>3, <1>8, <3>2 DEF ChainInv
      <3>3. QED
        BY <1>3, <3>1, <3>2
    <2>3. \A i \in Id : rows[i] # NoRow => Stored(i)'
      BY <1>3, <1>8 DEF ChainInv
    <2>4. QED
      BY <1>3, <2>1, <2>2, <2>3 DEF ChainInv, StepOf
  <1>12. ASSUME NEW v \in Worker, v # w PROVE PlaceInv(v)' /\ MemoryInv(v)'
    <2>1. PlaceInv(v) /\ MemoryInv(v)
      BY DEF IInv
    <2>2. next[v] # q.id
      BY <1>4, <1>7, <1>12 DEF IInv, ApartInv
    <2>3. PlaceInv(v)'
      BY <1>3, <1>7, <1>8, <1>12, <2>1, <2>2 DEF PlaceInv, Running, StepOf
    <2>4. MemoryInv(v)'
      BY <1>3, <1>7, <1>8, <1>12, <2>1 DEF MemoryInv
    <2>5. QED
      BY <2>3, <2>4
  <1>13. PlaceInv(w)'
    <2>1. q \in chain' /\ q.id = at'[w] /\ StepOf(q) = Len(mem'[w])
      BY <1>3, <1>7
    <2>2. next[w] <= clock /\ Stored(next[w])'
      BY <1>3, <1>4, <1>8
    <2>3. QED
      BY <1>3, <1>7, <2>1, <2>2 DEF PlaceInv, Running, StepOf
  <1>14. MemoryInv(w)'
    <2>1. ASSUME NEW k \in 1..Len(mem'[w]) PROVE Shaped(mem'[w][k], k)
      <3>1. CASE k \in 1..Len(mem[w])
        BY <1>6, <1>7, <3>1 DEF IInv, MemoryInv
      <3>2. CASE k \notin 1..Len(mem[w])
        <4>1. k = Len(mem[w]) + 1
          BY <1>4, <1>7, <2>1, <3>2
        <4>2. QED
          BY <1>3, <1>6, <1>7, <4>1 DEF IInv, MemoryInv
      <3>3. QED
        BY <3>1, <3>2
    <2>2. \A c \in chain' : c.id = at'[w] => c = q
      BY <1>3, <1>7, <1>8
    <2>3. \A k \in 1..Len(mem'[w]) : mem'[w][k] = Transcript(q)[k] \/ mem'[w][k] \in dropped
      BY <1>5, <1>7
    <2>4. channel = "plain" => mem'[w] = q.blob
      BY <1>4, <1>7
    <2>5. ASSUME NEW c \in chain', c.id = at'[w]
          PROVE  /\ \A k \in 1..Len(mem'[w]) : mem'[w][k] = Transcript(c)'[k] \/ mem'[w][k] \in dropped
                 /\ channel = "plain" => mem'[w] = c.blob
      BY <1>8, <2>2, <2>3, <2>4, <2>5
    <2>6. phase'[w] \notin {"writes", "put"}
      BY <1>7
    <2>7. QED
      BY <1>3, <2>1, <2>5, <2>6 DEF MemoryInv
  <1>15. StoreInv'
    <2>1. ASSUME NEW c \in chain' PROVE ListInv(Transcript(c))'
      BY <1>3, <1>5, <1>8 DEF IInv, StoreInv, ListInv
    <2>2. ASSUME NEW c \in chain', rows[c.id] # NoRow
          PROVE  /\ StepOf(c) < Steps /\ Shaped(rows[c.id].msg, StepOf(c) + 1)
                 /\ FitsOrDropped(rows[c.id].msg, Transcript(c))'
      <3>1. c \in chain
        BY <1>3, <1>8, <2>2
      <3>2. QED
        BY <1>3, <1>8, <2>2, <3>1 DEF IInv, StoreInv, FitsOrDropped
    <2>3. QED
      BY <1>3, <2>1, <2>2 DEF StoreInv, StepOf, Shaped, FitsOrDropped
  <1>16. ExactInv'
    <2>1. Exact' => Exact
      BY <1>3, <1>8 DEF Exact
    <2>2. ASSUME Exact, NEW c \in chain'
          PROVE  /\ \A k \in 1..StepOf(c) : Even(k) => UseOf(Transcript(c)[k]) = Transcript(c)[k - 1]
                 /\ rows[c.id] # NoRow => Fits(rows[c.id].msg, Transcript(c))
      BY <1>3, <1>5, <1>8, <2>2 DEF IInv, ExactInv
    <2>3. QED
      BY <1>3, <1>8, <2>1, <2>2 DEF ExactInv, StepOf, Fits
  <1>17. LateCheckpoints' = IF Superseded(w) THEN LateCheckpoints \cup {q} ELSE LateCheckpoints
    BY <1>3, <1>4 DEF LateCheckpoints
  <1>18. LateInv'
    <2>1. CASE ~Superseded(w)
      BY <1>3, <1>7, <1>8, <1>17, <2>1 DEF IInv, LateInv
    <2>2. CASE Superseded(w)
      <3>1. (\A i \in LateRows : rows[i].by # w) /\ (\A c \in LateCheckpoints : c.by # w)
        BY <1>3 DEF IInv, LateInv
      <3>2. \A c, d \in LateCheckpoints' : c.by = d.by => c = d
        BY <1>4, <1>17, <2>2, <3>1 DEF IInv, LateInv
      <3>3. \A i \in LateRows, c \in LateCheckpoints' : rows[i].by # c.by
        BY <1>4, <1>17, <2>2, <3>1 DEF IInv, LateInv
      <3>4. ASSUME NEW v \in Worker, ~Superseded(v) \/ block'[v] # "closed"
            PROVE  (\A i \in LateRows : rows[i].by # v) /\ (\A c \in LateCheckpoints' : c.by # v)
        <4>1. v # w
          BY <1>7, <2>2, <3>4
        <4>2. QED
          BY <1>4, <1>7, <1>17, <2>2, <3>4, <4>1 DEF IInv, LateInv
      <3>5. \A i, j \in LateRows : rows[i].by = rows[j].by => i = j
        BY DEF IInv, LateInv
      <3>6. QED
        BY <1>3, <1>7, <1>8, <3>2, <3>3, <3>4, <3>5 DEF LateInv
    <2>3. QED
      BY <2>1, <2>2
  <1>19. OwnerInv'
    <2>1. SUFFICES ASSUME Protected, OwnerInv PROVE OwnerInv'
      BY <1>8 DEF IInv, OwnerInv
    <2>2. ASSUME NEW c \in chain', c # Root, ~c.late, NEW v \in Worker, Running(v)', at'[v] = c.parent
          PROVE  Superseded(v)
      <3>1. CASE c \in chain
        <4>1. Stored(c.parent) /\ c.parent # q.id
          BY <1>3, <1>4, <2>2, <3>1 DEF ChainInv
        <4>2. v # w
          BY <1>7, <2>2, <4>1
        <4>3. QED
          BY <1>7, <2>1, <2>2, <3>1, <4>2 DEF OwnerInv, Running
      <3>2. CASE c = q
        <4>1. v # w
          BY <1>4, <1>7, <2>2, <3>2
        <4>2. QED
          BY <1>3, <1>4, <1>7, <2>1, <2>2, <3>2, <4>1, OwnerIsAlone DEF Running
      <3>3. QED
        BY <1>3, <2>2, <3>1, <3>2
    <2>3. ASSUME NEW c \in chain', NEW d \in chain', c # d, c # Root, d # Root, c.parent = d.parent
          PROVE  c.late \/ d.late
      <3>1. ASSUME NEW e \in chain, e # Root, e.parent = q.parent PROVE e.late \/ q.late
        BY <1>3, <1>4, <2>1, <3>1 DEF OwnerInv
      <3>2. QED
        BY <1>3, <2>1, <2>3, <3>1 DEF OwnerInv
    <2>4. ASSUME LateRows = {}, NEW v \in Worker, Running(v)', ~Superseded(v)
          PROVE  /\ \A c \in chain' : c.id = at'[v] => Transcript(c) = mem'[v]
                 /\ phase'[v] # "put" => rows[at'[v]] = NoRow
                 /\ phase'[v] = "put" => msg[v] = rows[at'[v]].msg
      <3>1. CASE v = w
        <4>1. \A c \in chain' : c.id = at'[w] => c = q
          BY <1>3, <1>7, <1>8
        <4>2. QED
          BY <1>5, <1>7, <1>8, <2>1, <2>4, <3>1, <4>1
      <3>2. CASE v # w
        <4>1. \A c \in chain' : c.id = at[v] => c \in chain
          BY <1>3, <1>8
        <4>2. QED
          BY <1>7, <2>1, <2>4, <3>2, <4>1 DEF OwnerInv, Running
      <3>3. QED
        BY <3>1, <3>2
    <2>5. ASSUME LateCheckpoints' = {}
          PROVE  /\ LateCheckpoints = {} /\ ~Superseded(w) /\ Tip' = q /\ Tip = p
      <3>1. LateCheckpoints = {} /\ ~Superseded(w)
        BY <1>17, <2>5
      <3>2. at[w] = Tip.id /\ next[w] > Tip.id
        BY <1>3, <2>1, <3>1 DEF OwnerInv
      <3>3. Tip = p
        BY <1>1, <1>3, <3>2, TipIs DEF ChainInv
      <3>4. Tip \in chain /\ \A d \in chain : d.id <= Tip.id
        BY <1>3, TipIs
      <3>5. \A d \in chain' : d.id \in Nat /\ (d # q => d.id < q.id)
        BY <1>3, <1>4, <1>7, <1>8, <3>2, <3>4
      <3>6. Tip' = (CHOOSE c \in chain' : \A d \in chain' : d.id <= c.id)
        BY DEF Tip
      <3>7. QED
        BY <1>3, <3>1, <3>3, <3>5, <3>6, LargestIs
    <2>6. ASSUME LateCheckpoints' = {}, NEW v \in Worker, Running(v)', ~Superseded(v)
          PROVE  at'[v] = q.id /\ phase'[v] # "put"
      <3>1. v = w
        BY <1>3, <1>7, <2>1, <2>5, <2>6, OwnerIsAlone DEF Running
      <3>2. QED
        BY <1>7, <3>1
    <2>7. ASSUME LateCheckpoints' = {}, NEW c \in chain' PROVE \E i \in 1..Len(q.line) : q.line[i] = c.id
      <3>1. CASE c = q
        BY <1>4, <3>1
      <3>2. CASE c \in chain
        <4>1. PICK i \in 1..Len(p.line) : p.line[i] = c.id
          BY <2>1, <2>5, <2>7, <3>2 DEF OwnerInv
        <4>2. Len(p.line) = Len(mem[w]) + 1
          BY <1>3, <1>4, CheckpointTyped DEF StepOf
        <4>3. i \in 1..Len(q.line) /\ q.line[i] = c.id
          BY <1>4, <4>1, <4>2
        <4>4. QED
          BY <4>3
      <3>3. QED
        BY <1>3, <2>7, <3>1, <3>2
    <2>8. QED
      BY <1>3, <1>7, <1>8, <2>2, <2>3, <2>4, <2>5, <2>6, <2>7 DEF OwnerInv
  <1>20. CountInv'
    <2>1. \A i \in 1..clock : Stored(i)' \/ \E v \in Worker : next[v] = i
      BY <1>8 DEF IInv, CountInv
    <2>2. ASSUME NEW c \in chain, c # Root
          PROVE  /\ StepOf(c) >= 1 /\ StepOf(c) <= Len(mem[c.by]) /\ phase[c.by] \notin {"spawned", "claimed"}
                 /\ StepOf(c) \in Nat /\ c.by \in Worker
      BY <1>3, <1>8, <2>2, TranscriptIs DEF IInv, CountInv
    <2>3. ASSUME NEW c \in chain', NEW d \in chain', c # Root, d # Root, c.by = d.by, StepOf(c) = StepOf(d)
          PROVE  c = d
      <3>1. ASSUME NEW e \in chain, e # Root, e.by = w PROVE StepOf(e) # StepOf(q)
        BY <1>4, <2>2, <3>1
      <3>2. QED
        BY <1>3, <1>4, <2>3, <3>1 DEF IInv, CountInv
    <2>4. ASSUME NEW c \in chain', c # Root
          PROVE  /\ StepOf(c) >= 1 /\ StepOf(c) <= Len(mem'[c.by])
                 /\ phase'[c.by] \notin {"spawned", "claimed"}
      <3>1. CASE c = q
        BY <1>4, <1>7, <3>1
      <3>2. CASE c \in chain
        BY <1>4, <1>7, <2>2, <2>4, <3>2
      <3>3. QED
        BY <1>3, <2>4, <3>1, <3>2
    <2>5. QED
      BY <1>3, <2>1, <2>3, <2>4 DEF CountInv, StepOf
  <1>21. ASSUME NEW u \in Worker, NEW v \in Worker, u # v PROVE ApartInv(u, v)'
    BY <1>3, <1>7, <1>21 DEF IInv, ApartInv
  <1>22. QED
    BY <1>9, <1>10, <1>11, <1>12, <1>13, <1>14, <1>15, <1>16, <1>18, <1>19, <1>20, <1>21 DEF IInv

-----------------------------------------------------------------------------
(* The invariant, and what it says.                                         *)

LEMMA NextKeeps == IInv /\ [Next]_vars => IInv'
  <1> SUFFICES ASSUME IInv, [Next]_vars PROVE IInv'
    OBVIOUS
  <1>1. ASSUME NEW w \in Worker, BlockStep(w) PROVE IInv'
    BY <1>1, AdmitKeeps, RefuseKeeps, InsertKeeps, CommitWritesKeeps, CommitPutKeeps DEF BlockStep
  <1>2. CASE UNCHANGED vars
    <2>1. /\ UNCHANGED <<fenced, channel, expects, chain, rows, clock, fence, held, saver, phase, block,
                         at, next, mem, msg, result, dropped>>
      BY <1>2 DEF vars
    <2>2. Kept /\ TypeOK' /\ \A v \in Worker : Superseded(v)' = Superseded(v)
      BY <2>1, Ids DEF Kept, deployment, tables, IInv, TypeOK, Superseded
    <2>3. \A v \in Worker : PlaceInv(v)' /\ MemoryInv(v)'
      BY <2>1, <2>2, Bystander
    <2>4. LateInv' /\ OwnerInv' /\ CountInv'
      BY <2>1, <2>2, KeptLate, KeptOwner, KeptCount DEF Running
    <2>5. FenceInv' /\ \A u, v \in Worker : u # v => ApartInv(u, v)'
      BY <2>1, ApartStays DEF IInv, FenceInv
    <2>6. QED
      BY <2>2, <2>3, <2>4, <2>5, KeptStore DEF IInv
  <1>3. QED
    BY <1>1, <1>2, ClaimKeeps, LoadKeeps, RunTaskKeeps, KillKeeps DEF Next, Done

\* The three layers hold together in every reachable state of every deployment.
THEOREM Invariance == Spec => []IInv
  <1>1. QED
    BY InitInv, NextKeeps, PTL DEF Spec

\* A result in a transcript goes with the use before it, or that is lost.
LEMMA ResultHasItsUse ==
    ASSUME TypeOK, ChainInv, NEW c \in chain, ListInv(Transcript(c)), NEW j \in OrphanResults(Transcript(c))
    PROVE  /\ j \in 1..StepOf(c) /\ Even(j)
           /\ UseOf(Transcript(c)[j]) # Transcript(c)[j - 1]
           /\ UseOf(Transcript(c)[j]) \in dropped
  <1>1. Transcript(c) \in Seq(Message) /\ Len(Transcript(c)) = StepOf(c) /\ StepOf(c) \in Nat
    BY TranscriptIs
  <1> DEFINE t == Transcript(c)
  <1> HIDE DEF t
  <1>2. /\ j \in 1..StepOf(c) /\ t[j].kind = "result"
        /\ \A i \in 1..(j - 1) : ~(t[i].kind = "use" /\ t[i].id = t[j].id)
    BY <1>1 DEF OrphanResults, t
  <1>3. Shaped(t[j], j) /\ (Even(j) => UseOf(t[j]) = t[j - 1] \/ UseOf(t[j]) \in dropped)
    BY <1>1, <1>2 DEF ListInv, t
  <1>4. Even(j)
    BY <1>2, <1>3 DEF Shaped
  <1>5. j - 1 \in 1..(j - 1)
    <2>1. j \in Nat \ {0}
      BY <1>1, <1>2
    <2>2. j - 1 \in Nat \ {0}
      BY <1>4, <2>1, Parity
    <2>3. QED
      BY <2>1, <2>2
  <1>6. UseOf(t[j]) # t[j - 1]
    BY <1>2, <1>5 DEF UseOf
  <1>7. QED
    BY <1>2, <1>3, <1>4, <1>6 DEF t

LEMMA OrphansInv == IInv => OrphansExplained
  <1> SUFFICES ASSUME IInv, NEW c \in chain, NEW j \in OrphanResults(Transcript(c))
               PROVE  [kind |-> "use", id |-> Transcript(c)[j].id] \in dropped
    BY DEF OrphansExplained
  <1>1. ListInv(Transcript(c)) /\ TypeOK /\ ChainInv
    BY DEF IInv, StoreInv
  <1>2. QED
    BY <1>1, ResultHasItsUse DEF UseOf

LEMMA FinishedInv == IInv => FinishedIsWellFormed
  <1> SUFFICES ASSUME IInv, Exact, NEW c \in chain, StepOf(c) = Steps
               PROVE  OrphanResults(Transcript(c)) = {} /\ UnansweredUses(Transcript(c)) = {}
    BY DEF FinishedIsWellFormed, Exact
  <1>1. /\ ListInv(Transcript(c)) /\ TypeOK /\ ChainInv
        /\ \A k \in 1..StepOf(c) : Even(k) => UseOf(Transcript(c)[k]) = Transcript(c)[k - 1]
    BY DEF IInv, StoreInv, ExactInv
  <1>2. OrphanResults(Transcript(c)) = {}
    BY <1>1, ResultHasItsUse
  <1>3. Len(Transcript(c)) = Steps /\ Transcript(c) \in Seq(Message) /\ Steps \in Nat
    BY <1>1, TranscriptIs, Ids
  <1> DEFINE t == Transcript(c)
  <1> HIDE DEF t
  <1>4. ASSUME NEW i \in UnansweredUses(t) PROVE FALSE
    <2>1. /\ i \in 1..Steps /\ t[i].kind = "use"
          /\ \A j \in 1..Steps : ~(t[j].kind = "result" /\ t[j].id = t[i].id)
      BY <1>3, <1>4 DEF UnansweredUses, t
    <2>2. Shaped(t[i], i)
      BY <1>1, <1>3, <2>1 DEF ListInv, t
    <2>3. ~Even(i) /\ i # Steps /\ i \in Nat
      BY <1>3, <2>1, <2>2 DEF Shaped
    <2>4. Even(i + 1)
      BY <2>3, Parity
    <2>5. i + 1 \in 1..Steps /\ (i + 1) - 1 = i
      BY <1>3, <2>1, <2>3
    <2>6. i + 1 # Steps
      BY <2>4, Parity
    <2>7. Shaped(t[i + 1], i + 1) /\ UseOf(t[i + 1]) = t[i]
      BY <1>1, <1>3, <2>4, <2>5 DEF ListInv, t
    <2>8. t[i + 1].kind = "result" /\ t[i + 1].id = t[i].id
      BY <2>4, <2>6, <2>7 DEF Shaped, UseOf
    <2>9. QED
      BY <2>1, <2>5, <2>8
  <1>5. QED
    BY <1>2, <1>4 DEF t

LEMMA AtMostOne ==
    ASSUME NEW S, \A x, y \in S : x = y
    PROVE  (S = {} /\ Cardinality(S) = 0) \/ (S # {} /\ Cardinality(S) = 1)
  <1>1. CASE S = {}
    BY <1>1, FS_EmptySet
  <1>2. CASE S # {}
    <2>1. PICK x \in S : TRUE
      BY <1>2
    <2>2. S = {x}
      BY <2>1
    <2>3. QED
      BY <1>2, <2>2, FS_Singleton
  <1>3. QED
    BY <1>1, <1>2

LEMMA ForkInv == IInv => OnlyLateBlocksFork
  <1> SUFFICES ASSUME IInv, Protected PROVE OnlyLateBlocksFork
    BY DEF OnlyLateBlocksFork
  <1>1. \A c \in chain : \A d \in Siblings(c) : c.late \/ d.late
    BY RootIs DEF IInv, OwnerInv, Siblings
  <1>2. ASSUME NEW w \in Worker
        PROVE  Cardinality({i \in LateRows : rows[i].by = w})
                 + Cardinality({c \in LateCheckpoints : c.by = w}) <= 1
    <2> DEFINE R == {i \in LateRows : rows[i].by = w}
               C == {c \in LateCheckpoints : c.by = w}
    <2>1. (\A i, j \in R : i = j) /\ (\A c, d \in C : c = d) /\ (R = {} \/ C = {})
      BY DEF IInv, LateInv
    <2> HIDE DEF R, C
    <2>2. /\ (R = {} /\ Cardinality(R) = 0) \/ (R # {} /\ Cardinality(R) = 1)
          /\ (C = {} /\ Cardinality(C) = 0) \/ (C # {} /\ Cardinality(C) = 1)
      BY <2>1, AtMostOne
    <2>3. Cardinality(R) + Cardinality(C) <= 1
      BY <2>1, <2>2
    <2>4. QED
      BY <2>3 DEF R, C
  <1>3. QED
    BY <1>1, <1>2 DEF OnlyLateBlocksFork

\* With the fence the chain forks only by the one block a superseded worker
\* was admitted to write before it was taken over from (proof.py:444).
THEOREM OnlyOneBlockLate == Spec => []OnlyLateBlocksFork
  BY Invariance, ForkInv, PTL

\* Types, and: an owner whose writes all go through the fence, no late row
\* among them, has in memory what is stored (Inv: TypeOK, OwnerSeesItsStore).
THEOREM OwnerIsUpToDate == Spec => []Inv
  <1>1. IInv => Inv
    BY DEF IInv, OwnerInv, Inv, OwnerSeesItsStore, Running
  <1>2. QED
    BY <1>1, Invariance, PTL

\* With the fence and no late block, what a worker reported as a success is on
\* the chain of the tip (the loss proof.py:358 measures without the fence).
THEOREM SuccessIsKept == Spec => []SuccessIsReachable
  <1>1. IInv => SuccessIsReachable
    BY DEF IInv, OwnerInv, SuccessIsReachable, PlaceInv
  <1>2. QED
    BY <1>1, Invariance, PTL

\* Fenced or not, on both channels: an orphaned tool result is read back only
\* if ON CONFLICT DO NOTHING dropped the put_writes of its use (proof.py:389).
THEOREM OrphansAreDrops == Spec => []OrphansExplained
  BY Invariance, OrphansInv, PTL

\* A thread that finished under the fence, no late row, and any finished branch
\* of a plain channel, answers each tool use and asked for each result
\* (proof.py:403, 456).
THEOREM FinishedIsComplete == Spec => []FinishedIsWellFormed
  BY Invariance, FinishedInv, PTL

-----------------------------------------------------------------------------
(* The thread's writes are those of GuardedWrites.                          *)

\* Only a fenced saver holds anything.
HeldInv == \A w \in Worker : saver[w] # "fenced" => held[w] = 0

LEMMA HeldAtTheStart == Init => HeldInv
  BY ScenarioAssumption DEF Init, HeldInv

LEMMA HeldStays == IInv /\ HeldInv /\ [Next]_vars => HeldInv'
  <1>1. ASSUME IInv, HeldInv, NEW w \in Worker, Claim(w) PROVE HeldInv'
    BY <1>1 DEF Claim, HeldInv, IInv, TypeOK
  <1>2. ASSUME HeldInv, UNCHANGED ownership PROVE HeldInv'
    BY <1>2 DEF HeldInv, ownership
  <1>3. ASSUME NEW w \in Worker, Load(w) \/ RunTask(w) \/ BlockStep(w) \/ Kill(w) PROVE UNCHANGED ownership
    BY <1>3 DEF Load, RunTask, BlockStep, Admit, Refuse, Insert, CommitWrites, CommitPut, Kill, ownership
  <1>4. UNCHANGED vars => UNCHANGED ownership
    BY DEF vars, ownership
  <1>5. QED
    BY <1>1, <1>2, <1>3, <1>4 DEF Next, Done

Open == [w \in Worker |-> block[w] # "closed"]

\* The contract sees nothing of a step that neither writes nor opens a block.
LEMMA Unseen ==
    ASSUME UNCHANGED <<fence, held, tables>>, \A v \in Worker : block'[v] # "closed" <=> block[v] # "closed"
    PROVE  UNCHANGED Contract!vars
  <1>1. [v \in Worker |-> block[v] # "closed"]' = [v \in Worker |-> block[v] # "closed"]
    OBVIOUS
  <1>2. Landed' = Landed
    BY DEF tables, Landed
  <1>3. QED
    BY <1>1, <1>2 DEF Contract!vars

LEMMA BlockEnds ==
    ASSUME TypeOK, NEW w \in Worker, block' = [block EXCEPT ![w] = "closed"]
    PROVE  Open' = [Open EXCEPT ![w] = FALSE]
  <1>1. \A v \in Worker : (block'[v] # "closed") = IF v = w THEN FALSE ELSE block[v] # "closed"
    BY DEF TypeOK
  <1>2. QED
    BY <1>1 DEF Open

\* Whoever writes runs with a fenced saver, and is the owner unless superseded.
LEMMA WriterIsFenced ==
    ASSUME IInv, Protected, NEW w \in Worker, phase[w] \in {"writes", "put"}
    PROVE  saver[w] = "fenced" /\ held[w] # 0 /\ (~Superseded(w) => held[w] = fence)
  <1>1. /\ saver[w] \in {"none", "plain", "fenced"} /\ saver[w] # "plain"
        /\ saver[w] = "none" => phase[w] \in {"spawned", "done"}
    BY DEF IInv, FenceInv, TypeOK, Protected
  <1>2. saver[w] = "fenced"
    BY <1>1
  <1>3. held[w] >= 1 /\ held[w] \in Nat
    BY <1>2 DEF IInv, FenceInv, TypeOK
  <1>4. QED
    BY <1>2, <1>3 DEF Superseded

LEMMA ClaimIsTakeOver ==
    ASSUME IInv, HeldInv, NEW w \in Worker, Claim(w), Protected'
    PROVE  Contract!TakeOver(w)
  <1>1. held[w] = 0
    BY DEF Claim, HeldInv, IInv, FenceInv
  <1>2. saver'[w] = "fenced"
    BY DEF Claim, Protected, IInv, TypeOK
  <1>3. fence' = fence + 1 /\ held' = [held EXCEPT ![w] = fence']
    BY <1>2 DEF Claim, IInv, TypeOK, Bumped
  <1>4. UNCHANGED <<block, rows, chain>>
    BY DEF Claim, tables
  <1>5. Landed' = Landed
    BY <1>4 DEF Landed
  <1>6. QED
    BY <1>1, <1>3, <1>4, <1>5 DEF Contract!TakeOver

LEMMA AdmitIsAdmit ==
    ASSUME IInv, Protected, NEW w \in Worker, Admit(w)
    PROVE  Contract!Admit(w)
  <1>1. held[w] = fence /\ fence # 0
    BY WriterIsFenced DEF Admit, MayWrite
  <1>2. /\ block[w] = "closed" /\ block' = [block EXCEPT ![w] = "admitted"]
        /\ UNCHANGED <<fence, held, rows, chain>>
    BY DEF Admit, ownership, tables
  <1>3. Open' = [Open EXCEPT ![w] = TRUE]
    <2>1. \A v \in Worker : (block'[v] # "closed") = IF v = w THEN TRUE ELSE block[v] # "closed"
      BY <1>2 DEF IInv, TypeOK
    <2>2. QED
      BY <2>1 DEF Open
  <1>4. Landed' = Landed
    BY <1>2 DEF Landed
  <1>5. ~Open[w]
    BY <1>2 DEF Open
  <1>6. QED
    BY <1>1, <1>2, <1>3, <1>4, <1>5 DEF Contract!Admit, Open

\* A block that ends and stores nothing.
LEMMA NothingLands ==
    ASSUME IInv, NEW w \in Worker, block[w] # "closed", block' = [block EXCEPT ![w] = "closed"],
           UNCHANGED <<fence, held, rows, chain>>
    PROVE  Contract!Drop(w)
  <1>1. Open' = [Open EXCEPT ![w] = FALSE]
    BY BlockEnds DEF IInv
  <1>2. Landed' = Landed
    BY DEF Landed
  <1>3. Open[w]
    BY DEF Open
  <1>4. QED
    BY <1>1, <1>2, <1>3 DEF Contract!Drop, Open

\* A block that ends and stores one thing that was not there.
LEMMA OneLands ==
    ASSUME IInv, NEW w \in Worker, block[w] # "closed", block' = [block EXCEPT ![w] = "closed"],
           UNCHANGED <<fence, held>>,
           NEW n \in 1..(2 * (Steps * Cardinality(Worker)) + 1),
           <<w, n>> \notin Landed, Landed' = Landed \cup {<<w, n>>}
    PROVE  Contract!Land(w)
  <1>1. Open' = [Open EXCEPT ![w] = FALSE]
    BY BlockEnds DEF IInv
  <1>2. Open[w]
    BY DEF Open
  <1>3. QED
    BY <1>1, <1>2 DEF Contract!Land, Open

LEMMA CommitWritesIsLand ==
    ASSUME IInv, NEW w \in Worker, CommitWrites(w)
    PROVE  Contract!Land(w) \/ Contract!Drop(w)
  <1>1. /\ block' = [block EXCEPT ![w] = "closed"] /\ block[w] # "closed"
        /\ UNCHANGED <<fence, held, chain>> /\ at[w] \in Id
    BY DEF CommitWrites, ownership, IInv, TypeOK
  <1>2. CASE block[w] = "skipping"
    <2>1. rows' = rows
      BY <1>2 DEF CommitWrites
    <2>2. QED
      BY <1>1, <2>1, NothingLands
  <1>3. CASE block[w] = "holding"
    <2> DEFINE r == [msg |-> msg[w], by |-> w, late |-> Superseded(w)]
               n == 2 * at[w] + 1
    <2>1. rows' = [rows EXCEPT ![at[w]] = r] /\ rows[at[w]] = NoRow
      BY <1>3 DEF CommitWrites, IInv, PlaceInv
    <2>2. r # NoRow /\ r.by = w
      BY DEF NoRow
    <2> HIDE DEF r
    <2>3. /\ rows'[at[w]] = r /\ \A i \in Id \ {at[w]} : rows'[i] = rows[i]
      BY <1>1, <2>1 DEF IInv, TypeOK
    <2>4. at[w] \in Nat /\ (\A i \in Id : i \in Nat) /\ (\A c \in chain : c.id \in Nat)
      BY <1>1, Ids, CheckpointTyped DEF IInv
    <2>5. \A i, j \in Nat : (2 * i + 1 = 2 * j + 1 => i = j) /\ 2 * i # 2 * j + 1
      OBVIOUS
    <2>6. \A i \in Id : 2 * i + 1 = n => i = at[w]
      BY <2>4, <2>5
    <2>7. \A c \in chain : 2 * c.id # n
      BY <2>4, <2>5
    <2>8. n \in 1..(2 * (Steps * Cardinality(Worker)) + 1)
      BY <1>1, Ids DEF Id
    <2>9. <<w, n>> \notin Landed
      BY <2>1, <2>6, <2>7 DEF Landed
    <2>10. Landed' = Landed \cup {<<w, n>>}
      BY <1>1, <2>1, <2>2, <2>3 DEF Landed
    <2>11. QED
      BY <1>1, <2>8, <2>9, <2>10, OneLands
  <1>4. QED
    BY <1>2, <1>3 DEF CommitWrites

LEMMA CommitPutIsLand ==
    ASSUME IInv, NEW w \in Worker, CommitPut(w)
    PROVE  Contract!Land(w)
  <1> DEFINE n == 2 * next[w]
  <1>1. /\ block' = [block EXCEPT ![w] = "closed"] /\ block[w] # "closed"
        /\ UNCHANGED <<fence, held, rows>> /\ next[w] \in Id /\ at[w] \in Id
        /\ chain' = chain \cup {Child(w)}
    BY DEF CommitPut, ownership, IInv, TypeOK
  <1>2. ~Stored(next[w]) /\ next[w] > at[w]
    BY DEF CommitPut, IInv, PlaceInv
  <1>3. Child(w).id = next[w] /\ Child(w).by = w
    BY DEF Child
  <1>4. next[w] \in Nat \ {0}
    <2>1. next[w] \in Nat /\ at[w] \in Nat
      BY <1>1, Ids
    <2>2. QED
      BY <1>2, <2>1
  <1>5. Child(w) # Root
    BY <1>3, <1>4 DEF Root
  <1>6. n \in 1..(2 * (Steps * Cardinality(Worker)) + 1)
    BY <1>1, <1>4, Ids DEF Id
  <1>7. \A c \in chain : 2 * c.id # n
    <2>1. \A c \in chain : c.id # next[w] /\ c.id \in Nat
      BY <1>2, Ids, CheckpointTyped DEF Stored, IInv
    <2>2. QED
      BY <1>4, <2>1
  <1>8. \A i \in Id : 2 * i + 1 # n
    BY <1>4, Ids
  <1>9. <<w, n>> \notin Landed
    BY <1>7, <1>8 DEF Landed
  <1>10. Landed' = Landed \cup {<<w, n>>}
    BY <1>1, <1>3, <1>5 DEF Landed
  <1>11. QED
    BY <1>1, <1>6, <1>9, <1>10, OneLands

LEMMA ContractStep ==
    ASSUME IInv, HeldInv, [Next]_vars, Protected'
    PROVE  Contract!Next \/ UNCHANGED Contract!vars
  <1>1. ASSUME NEW w \in Worker, Claim(w) PROVE Contract!Next
    BY <1>1, ClaimIsTakeOver DEF Contract!Next
  <1>2. ASSUME NEW w \in Worker, Admit(w) PROVE Contract!Next
    <2>1. Protected
      BY <1>2 DEF Admit, deployment, ownership, Protected
    <2>2. QED
      BY <1>2, <2>1, AdmitIsAdmit DEF Contract!Next
  <1>3. ASSUME NEW w \in Worker, Load(w) \/ RunTask(w) \/ Refuse(w) \/ Insert(w)
        PROVE  UNCHANGED Contract!vars
    <2>1. /\ UNCHANGED <<fence, held, tables>>
          /\ block' = block \/ (\E b \in {"skipping", "holding"} :
                                  block[w] = "admitted" /\ block' = [block EXCEPT ![w] = b])
      BY <1>3 DEF Load, RunTask, Refuse, Insert, ownership
    <2>2. \A v \in Worker : block'[v] # "closed" <=> block[v] # "closed"
      BY <2>1 DEF IInv, TypeOK
    <2>3. QED
      BY <2>1, <2>2, Unseen
  <1>4. ASSUME NEW w \in Worker, CommitWrites(w) \/ CommitPut(w) PROVE Contract!Next
    BY <1>4, CommitWritesIsLand, CommitPutIsLand DEF Contract!Next
  <1>5. ASSUME NEW w \in Worker, Kill(w) PROVE Contract!Next \/ UNCHANGED Contract!vars
    <2>1. /\ UNCHANGED <<fence, held, rows, chain, tables>>
          /\ block' = [block EXCEPT ![w] = "closed"]
      BY <1>5 DEF Kill, ownership, tables, ClosedByKill
    <2>2. CASE block[w] # "closed"
      BY <2>1, <2>2, NothingLands DEF Contract!Next
    <2>3. CASE block[w] = "closed"
      <3>1. \A v \in Worker : block'[v] # "closed" <=> block[v] # "closed"
        BY <2>1, <2>3 DEF IInv, TypeOK
      <3>2. QED
        BY <2>1, <3>1, Unseen
    <2>4. QED
      BY <2>2, <2>3
  <1>6. ASSUME UNCHANGED vars PROVE UNCHANGED Contract!vars
    BY <1>6, Unseen DEF vars, tables
  <1>7. QED
    BY <1>1, <1>2, <1>3, <1>4, <1>5, <1>6 DEF Next, BlockStep, Done

\* Of any number of workers, fenced and none of them around the fence: what the
\* run does to the thread's tables is what GuardedWrites lets it do, which is
\* what FencedSaver was shown to do block by block.
THEOREM TakeoverKeepsTheContract == Spec => WritesAreGuarded
  <1>1. IInv /\ HeldInv /\ [Next]_vars => (Protected' => [Contract!Next]_(Contract!vars))
    BY ContractStep
  <1>2. QED
    BY <1>1, HeldAtTheStart, HeldStays, Invariance, PTL DEF Spec, WritesAreGuarded
=============================================================================
