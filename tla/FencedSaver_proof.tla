------------------------- MODULE FencedSaver_proof -------------------------
(***************************************************************************)
(* Proofs about FencedSaver, for every set of workers, every mix of         *)
(* branches and every value of the bounds.                                  *)
(***************************************************************************)
EXTENDS FencedSaver, TLAPS

Index == 1..MaxBlocks

\* A thread is in a write block only after opening it, and the server never
\* finishes a block that was not opened.
Opened == \A w \in Worker : /\ pc[w] # "idle" => begun[w] # 0
                            /\ served[w] <= begun[w]

-----------------------------------------------------------------------------
(* Updating one block.                                                      *)

LEMMA BlockUpdate ==
    ASSUME NEW f \in [Worker -> [Index -> Block]], NEW w \in Worker,
           NEW n \in Index, NEW b \in Block, NEW g,
           g = [f EXCEPT ![w][n] = b]
    PROVE  /\ g \in [Worker -> [Index -> Block]]
           /\ g[w][n] = b
           /\ \A v \in Worker, m \in Index :
                 v # w \/ m # n => g[v][m] = f[v][m]
  OBVIOUS

LEMMA LastUpdate ==
    ASSUME TypeOK, Opened, NEW w \in Worker, pc[w] # "idle",
           NEW b \in Block, SetLast(w, b)
    PROVE  /\ begun[w] \in Index
           /\ block' \in [Worker -> [Index -> Block]]
           /\ block'[w][begun[w]] = b
           /\ \A v \in Worker, m \in Index :
                 v # w \/ m # begun[w] => block'[v][m] = block[v][m]
  <1>1. begun[w] \in Index /\ block \in [Worker -> [Index -> Block]]
    BY BoundsAssumption DEF TypeOK, Opened, Index
  <1>2. QED
    BY <1>1, BlockUpdate DEF SetLast

LEMMA FirstUpdate ==
    ASSUME TypeOK, NEW w \in Worker, Working(w),
           NEW b \in Block, SetFirst(w, b)
    PROVE  /\ served[w] + 1 \in Index
           /\ block' \in [Worker -> [Index -> Block]]
           /\ block'[w][served[w] + 1] = b
           /\ \A v \in Worker, m \in Index :
                 v # w \/ m # served[w] + 1 => block'[v][m] = block[v][m]
  <1>1. /\ served[w] + 1 \in Index
        /\ block \in [Worker -> [Index -> Block]]
    BY BoundsAssumption DEF TypeOK, Working, Index
  <1>2. QED
    BY <1>1, BlockUpdate DEF SetFirst

LEMMA GuardedBlock ==
    ASSUME NEW b \in Block, NEW g \in {"none", "passed", "failed"}
    PROVE  [b EXCEPT !.ran = 1, !.guard = g] \in Block
  <1> DEFINE c == [b EXCEPT !.ran = 1]
  <1>1. c \in Block
    BY BoundsAssumption DEF Block
  <1>2. [c EXCEPT !.guard = g] \in Block
    <2> HIDE DEF c
    <2> QED  BY <1>1 DEF Block
  <1>3. QED
    BY <1>2

LEMMA LastInBlock ==
    ASSUME TypeOK, Opened, NEW w \in Worker, pc[w] # "idle"
    PROVE  Last(w) \in Block
  BY BoundsAssumption DEF TypeOK, Opened, Last

LEMMA FirstInBlock ==
    ASSUME TypeOK, NEW w \in Worker, Working(w)
    PROVE  First(w) \in Block
  BY BoundsAssumption DEF TypeOK, Working, First

-----------------------------------------------------------------------------
(* Type correctness.                                                        *)

LEMMA TypeInit == Init => TypeOK /\ Opened
  BY BoundsAssumption DEF Init, TypeOK, Opened, Block, NewBlock

LEMMA TypeStep ==
    ASSUME TypeOK, Opened, [Next]_vars
    PROVE  TypeOK' /\ Opened'
  <1> USE BoundsAssumption DEF Opened, static, table, client, server
  <1>1. ASSUME NEW w \in Worker, InstallFence(w) PROVE TypeOK' /\ Opened'
    BY <1>1 DEF InstallFence, TypeOK
  <1>2. ASSUME NEW w \in Worker, Claim(w) PROVE TypeOK' /\ Opened'
    BY <1>2 DEF Claim, MayClaim, Bumped, TypeOK
  <1>3. ASSUME NEW w \in Worker, Begin(w) PROVE TypeOK' /\ Opened'
    BY <1>3 DEF Begin, TypeOK
  <1>4. ASSUME NEW w \in Worker, SendGuard(w) PROVE TypeOK' /\ Opened'
    <2>1. [Last(w) EXCEPT !.sent = 1] \in Block
      BY <1>4, LastInBlock DEF SendGuard, Block
    <2>2. block' \in [Worker -> [Index -> Block]]
      BY <1>4, <2>1, LastUpdate DEF SendGuard
    <2>3. QED
      BY <1>4, <2>2 DEF SendGuard, TypeOK, Index
  <1>5. ASSUME NEW w \in Worker, GuardAnswered(w) PROVE TypeOK' /\ Opened'
    BY <1>5 DEF GuardAnswered, TypeOK
  <1>6. ASSUME NEW w \in Worker, Unwind(w) PROVE TypeOK' /\ Opened'
    <2>1. [Last(w) EXCEPT !.end = "rollback"] \in Block
      BY <1>6, LastInBlock DEF Unwind, Block
    <2>2. block' \in [Worker -> [Index -> Block]]
      BY <1>6, <2>1, LastUpdate DEF Unwind
    <2>3. QED
      BY <1>6, <2>2 DEF Unwind, TypeOK, Index
  <1>7. ASSUME NEW w \in Worker, SendStmt(w) PROVE TypeOK' /\ Opened'
    <2>1. [Last(w) EXCEPT !.sent = @ + 1] \in Block
      BY <1>7, LastInBlock DEF SendStmt, Block
    <2>2. block' \in [Worker -> [Index -> Block]]
      BY <1>7, <2>1, LastUpdate DEF SendStmt
    <2>3. QED
      BY <1>7, <2>2 DEF SendStmt, TypeOK, Index
  <1>8. ASSUME NEW w \in Worker, Leave(w) PROVE TypeOK' /\ Opened'
    <2>1. [Last(w) EXCEPT !.end = "commit"] \in Block
      BY <1>8, LastInBlock DEF Leave, Block
    <2>2. block' \in [Worker -> [Index -> Block]]
      BY <1>8, <2>1, LastUpdate DEF Leave
    <2>3. QED
      BY <1>8, <2>2 DEF Leave, TypeOK, Index
  <1>9. ASSUME NEW w \in Worker, BodyRaises(w) PROVE TypeOK' /\ Opened'
    <2>1. [Last(w) EXCEPT !.end = EndOnRaise(w), !.raised = TRUE] \in Block
      BY <1>9, LastInBlock DEF BodyRaises, EndOnRaise, Block
    <2>2. block' \in [Worker -> [Index -> Block]]
      BY <1>9, <2>1, LastUpdate DEF BodyRaises
    <2>3. QED
      BY <1>9, <2>2 DEF BodyRaises, TypeOK, Index
  <1>10. ASSUME NEW w \in Worker, Finish(w) PROVE TypeOK' /\ Opened'
    <2>1. PICK k \in ResultsRead(w) :
            /\ fetched' = [fetched EXCEPT ![w] = k]
            /\ told' = [told EXCEPT ![w] = @ \/ Surfaces(w, k)]
            /\ acked' = IF Surfaces(w, k) \/ Last(w).raised THEN acked
                        ELSE [acked EXCEPT ![w] = @ \cup {begun[w]}]
      BY <1>10 DEF Finish
    <2>2. k \in 0..MaxBlocks
      BY DEF ResultsRead, TypeOK
    <2>3. begun[w] \in 1..MaxBlocks
      BY <1>10 DEF Finish, TypeOK
    <2>4. fetched' \in [Worker -> 0..MaxBlocks]
      BY <2>1, <2>2 DEF TypeOK
    <2>5. told' \in [Worker -> BOOLEAN]
      BY <2>1, Zenon DEF TypeOK
    <2>6. acked' \in [Worker -> SUBSET (1..MaxBlocks)]
      BY <2>1, <2>3 DEF TypeOK
    <2>7. QED
      BY <1>10, <2>4, <2>5, <2>6 DEF Finish, TypeOK
  <1>11. ASSUME NEW w \in Worker, Close(w) PROVE TypeOK' /\ Opened'
    <2>1. told' = [told EXCEPT ![w] = @ \/ Surfaces(w, begun[w])]
      BY <1>11 DEF Close
    <2>2. told' \in [Worker -> BOOLEAN]
      BY <2>1, Zenon DEF TypeOK
    <2>3. QED
      BY <1>11, <2>2 DEF Close, TypeOK
  <1>12. ASSUME NEW w \in Worker, Kill(w) PROVE TypeOK' /\ Opened'
    BY <1>12 DEF Kill, TypeOK
  <1>13. ASSUME NEW w \in Worker, RunGuard(w) PROVE TypeOK' /\ Opened'
    <2>1. [First(w) EXCEPT !.ran = 1,
                           !.guard = IF GuardPasses(w) THEN "passed"
                                     ELSE "failed"] \in Block
      BY <1>13, FirstInBlock, GuardedBlock DEF RunGuard
    <2>2. block' \in [Worker -> [Index -> Block]]
      BY <1>13, <2>1, FirstUpdate DEF RunGuard
    <2>3. QED
      BY <1>13, <2>2 DEF RunGuard, TypeOK, Index
  <1>14. ASSUME NEW w \in Worker, RunStmt(w) PROVE TypeOK' /\ Opened'
    <2>1. [First(w) EXCEPT !.ran = @ + 1] \in Block
      BY <1>14, FirstInBlock DEF RunStmt, Block
    <2>2. block' \in [Worker -> [Index -> Block]]
      BY <1>14, <2>1, FirstUpdate DEF RunStmt
    <2>3. QED
      BY <1>14, <2>2 DEF RunStmt, TypeOK, Index
  <1>15. ASSUME NEW w \in Worker, EndBlock(w) PROVE TypeOK' /\ Opened'
    <2>1. [First(w) EXCEPT !.fate = Fate(First(w))] \in Block
      BY <1>15, FirstInBlock DEF EndBlock, Fate, Block
    <2>2. block' \in [Worker -> [Index -> Block]]
      BY <1>15, <2>1, FirstUpdate, Zenon DEF EndBlock
    <2>3. served[w] + 1 \in 0..MaxBlocks /\ served[w] + 1 <= begun[w]
      BY <1>15 DEF EndBlock, Working, TypeOK
    <2>4. late' \in [Worker -> Nat]
      BY <1>15 DEF EndBlock, TypeOK
    <2>5. QED
      BY <1>15, <2>2, <2>3, <2>4 DEF EndBlock, TypeOK, Index
  <1>16. ASSUME NEW w \in Worker, Disconnect(w) PROVE TypeOK' /\ Opened'
    <2>1. ASSUME NEW n \in 1..MaxBlocks
          PROVE  [block[w][n] EXCEPT !.fate = "aborted"] \in Block
      <3>1. block[w][n] \in Block
        BY DEF TypeOK
      <3>2. QED
        BY <3>1 DEF Block
    <2>2. block' \in [Worker -> [1..MaxBlocks -> Block]]
      BY <1>16, <2>1 DEF Disconnect, TypeOK
    <2>3. QED
      BY <1>16, <2>2 DEF Disconnect, TypeOK
  <1>17. CASE UNCHANGED vars
    BY <1>17 DEF vars, TypeOK
  <1>18. QED
    BY <1>1, <1>2, <1>3, <1>4, <1>5, <1>6, <1>7, <1>8, <1>9, <1>10, <1>11,
       <1>12, <1>13, <1>14, <1>15, <1>16, <1>17
    DEF Next, ClientStep, ServerStep, Done

-----------------------------------------------------------------------------
(* The inductive invariant.                                                 *)

\* Fence values are handed out by the row and by nobody else.
Grants ==
    /\ \A v, w \in Worker : cfg[v] = 1 /\ cfg[w] = 1 => v = w
    /\ \A w \in Worker : held[w] <= fence
    /\ OneHolderPerFence

\* The life of a block: fresh until it is opened, executed in order, decided
\* once; a refusal means its worker no longer holds the fence.
BlockInv(w, n) ==
    /\ n > begun[w] => block[w][n] = NewBlock
    /\ n > served[w] => block[w][n].fate = "pending"
    /\ n > served[w] + 1 => block[w][n].guard = "none"
    /\ block[w][n].ran = 0 <=> block[w][n].guard = "none"
    /\ block[w][n].end # "open" => block[w][n].sent # 0
    /\ Refused(w, n) => fence # held[w]
    /\ Durable(w, n) => /\ block[w][n].guard = "passed"
                        /\ block[w][n].end = "commit"
                        /\ block[w][n].ran = block[w][n].sent
    /\ block[w][n].end = "commit" =>
          \/ block[w][n].sent = Stmts + 1
          \/ block[w][n].raised /\ branch[w] # "transaction"

InBlock == {"entered", "guarding", "body", "unwinding"}

\* Only a saver that was granted a fence writes, the client sends to an open
\* block only, and once the worker is refused, or late, it is never admitted
\* again.
WorkerInv(w) ==
    /\ begun[w] # 0 => held[w] # 0
    /\ pc[w] \in InBlock => Last(w).end = "open"
    /\ pc[w] \in InBlock \ {"entered"} => Last(w).sent # 0
    /\ late[w] <= 1
    /\ late[w] # 0 =>
          /\ begun[w] # 0 /\ fence # held[w]
          /\ \A n \in Index : n > served[w] => block[w][n].guard # "passed"
    /\ \A m, n \in Index :
          m < n /\ Refused(w, m) => block[w][n].guard # "passed"

IInv == /\ TypeOK
        /\ Opened
        /\ Grants
        /\ \A w \in Worker : WorkerInv(w) /\ \A n \in Index : BlockInv(w, n)

\* What the invariants of worker v are about is as before the step.
Untouched(v) ==
    /\ branch'[v] = branch[v]  /\ fence' = fence      /\ held'[v] = held[v]
    /\ pc'[v] = pc[v]          /\ begun'[v] = begun[v]
    /\ served'[v] = served[v]  /\ late'[v] = late[v]  /\ block'[v] = block[v]

LEMMA UntouchedInv ==
    ASSUME NEW v \in Worker, Untouched(v),
           WorkerInv(v), \A n \in Index : BlockInv(v, n)
    PROVE  WorkerInv(v)' /\ \A n \in Index : BlockInv(v, n)'
  BY DEF Untouched, WorkerInv, BlockInv, Refused, Durable, Last

LEMMA GrantsInit == Init => IInv
  <1>0. SUFFICES ASSUME Init PROVE IInv
    OBVIOUS
  <1>1. Grants
    BY <1>0 DEF Init, Grants, OneHolderPerFence
  <1>2. ASSUME NEW w \in Worker
        PROVE  WorkerInv(w) /\ \A n \in Index : BlockInv(w, n)
    <2>1. /\ begun[w] = 0 /\ late[w] = 0 /\ pc[w] = "idle"
          /\ served[w] = 0
      BY <1>0 DEF Init
    <2>2. \A m \in Index : /\ block[w][m] = NewBlock
                           /\ block[w][m].guard = "none"
                           /\ block[w][m].ran = 0
                           /\ block[w][m].end = "open"
                           /\ block[w][m].fate = "pending"
      BY <1>0 DEF Init, Index, NewBlock
    <2>3. WorkerInv(w)
      BY <2>1, <2>2 DEF WorkerInv, Refused, InBlock
    <2>4. \A n \in Index : BlockInv(w, n)
      BY <2>1, <2>2 DEF BlockInv, Refused, Durable
    <2>5. QED
      BY <2>3, <2>4
  <1>3. QED
    BY <1>0, <1>1, <1>2, TypeInit DEF IInv

LEMMA FreshGrant ==
    ASSUME NEW f \in Nat, NEW h \in [Worker -> Nat], NEW w \in Worker,
           \A v \in Worker : h[v] <= f,
           \A v, u \in Worker : h[v] # 0 /\ h[v] = h[u] => v = u,
           NEW g, g = [h EXCEPT ![w] = f + 1]
    PROVE  /\ \A v \in Worker : g[v] <= f + 1
           /\ \A v, u \in Worker : g[v] # 0 /\ g[v] = g[u] => v = u
  <1>1. \A v \in Worker : g[v] = IF v = w THEN f + 1 ELSE h[v]
    OBVIOUS
  <1>2. ASSUME NEW v \in Worker PROVE h[v] # f + 1
    <2>1. h[v] \in Nat /\ h[v] <= f
      OBVIOUS
    <2>2. QED
      BY <2>1
  <1>3. QED
    BY <1>1, <1>2

\* A takeover, or the installation of the row: the grants stay unique, and
\* whoever was refused before does not get the fence back.
LEMMA GrantStep ==
    ASSUME IInv, NEW w \in Worker, held[w] = 0, fence' = fence + 1,
           held' = [held EXCEPT ![w] = fence'], fence' = cfg[w],
           UNCHANGED <<static, proc, client, server, block>>
    PROVE  /\ Grants'
           /\ \A v \in Worker : WorkerInv(v)' /\ \A n \in Index : BlockInv(v, n)'
  <1> USE DEF IInv, TypeOK, static, client, server
  <1>1. Grants'
    <2>1. /\ \A v \in Worker : held'[v] <= fence'
          /\ \A v, u \in Worker : held'[v] # 0 /\ held'[v] = held'[u] => v = u
      <3>1. fence \in Nat /\ held \in [Worker -> Nat]
        BY BoundsAssumption
      <3>2. /\ \A v \in Worker : held[v] <= fence
            /\ \A v, u \in Worker : held[v] # 0 /\ held[v] = held[u] => v = u
        BY DEF Grants, OneHolderPerFence
      <3>3. held' = [held EXCEPT ![w] = fence + 1]
        OBVIOUS
      <3> HIDE DEF IInv, TypeOK
      <3>4. QED
        BY <3>1, <3>2, <3>3, FreshGrant
    <2>2. \A v \in Worker : held'[v] \in {0, cfg'[v]}
      BY DEF Grants, OneHolderPerFence
    <2>3. QED
      BY <2>1, <2>2 DEF Grants, OneHolderPerFence
  <1>2. ASSUME NEW v \in Worker, v # w
        PROVE  WorkerInv(v)' /\ \A n \in Index : BlockInv(v, n)'
    <2>1. held'[v] = held[v] /\ fence # 0 => fence' # held'[v]
      BY <1>2 DEF Grants
    <2>2. fence' # held'[v]
      BY <1>2 DEF Grants
    <2>3. QED
      BY <1>2, <2>1, <2>2
      DEF WorkerInv, BlockInv, Refused, Durable, Last
  <1>3. WorkerInv(w)' /\ \A n \in Index : BlockInv(w, n)'
    <2>1. begun[w] = 0
      BY DEF WorkerInv
    <2>2. \A n \in Index : block[w][n] = NewBlock
      BY <2>1 DEF BlockInv, Index
    <2>3. held'[w] # 0 /\ late[w] = 0
      BY <2>2 DEF WorkerInv, Grants
    <2>4. QED
      BY <2>1, <2>2, <2>3
      DEF WorkerInv, BlockInv, Refused, Durable, NewBlock, Last, Opened
  <1>4. QED
    BY <1>2, <1>3, <1>1

\* A step that moves worker w alone, the fence standing still.
LEMMA OneWorkerStep ==
    ASSUME IInv, NEW w \in Worker, UNCHANGED <<cfg, table>>,
           \A v \in Worker : v # w => Untouched(v),
           WorkerInv(w)', \A n \in Index : BlockInv(w, n)'
    PROVE  /\ Grants'
           /\ \A v \in Worker : WorkerInv(v)' /\ \A n \in Index : BlockInv(v, n)'
  <1>1. Grants'
    BY DEF IInv, Grants, OneHolderPerFence, table
  <1>2. ASSUME NEW v \in Worker, v # w
        PROVE  WorkerInv(v)' /\ \A n \in Index : BlockInv(v, n)'
    BY <1>2, UntouchedInv DEF IInv
  <1>3. QED
    BY <1>1, <1>2

\* The client changes an open block; what the server has made of it stays.
LEMMA ClientChange ==
    ASSUME IInv, NEW w \in Worker, pc[w] \in InBlock, NEW b \in Block,
           SetLast(w, b),
           b.sent # 0, b.ran = Last(w).ran, b.guard = Last(w).guard, b.fate = Last(w).fate,
           b.end = "commit" =>
              b.sent = Stmts + 1 \/ (b.raised /\ branch[w] # "transaction"),
           pc'[w] \in InBlock => b.end = "open",
           UNCHANGED <<static, table, proc, server, begun>>,
           pc' = [pc EXCEPT ![w] = pc'[w]]
    PROVE  /\ Grants'
           /\ \A v \in Worker : WorkerInv(v)' /\ \A n \in Index : BlockInv(v, n)'
  <1>1. /\ begun[w] \in Index
        /\ block' \in [Worker -> [Index -> Block]]
        /\ block'[w][begun[w]] = b
        /\ \A v \in Worker, m \in Index :
              v # w \/ m # begun[w] => block'[v][m] = block[v][m]
    BY LastUpdate DEF IInv, InBlock
  <1>2. \A v \in Worker : v # w => Untouched(v)
    BY DEF IInv, TypeOK, SetLast, Untouched, static, table, server
  <1>3. Last(w).end = "open"
    BY DEF IInv, WorkerInv
  <1>4. ASSUME NEW n \in Index PROVE BlockInv(w, n)'
    <2>1. BlockInv(w, n)
      BY DEF IInv
    <2>2. CASE n # begun[w]
      BY <1>1, <2>1, <2>2
      DEF BlockInv, Refused, Durable, static, table, server
    <2>3. CASE n = begun[w]
      BY <1>1, <1>3, <2>1, <2>3
      DEF BlockInv, Refused, Durable, Last, Index, IInv, TypeOK,
          static, table, server
    <2>4. QED
      BY <2>2, <2>3
  <1>5. WorkerInv(w)'
    <2>1. WorkerInv(w)
      BY DEF IInv
    <2>2. \A n \in Index : block'[w][n].guard = block[w][n].guard
      BY <1>1 DEF Last
    <2>3. /\ pc'[w] \in InBlock => Last(w)'.end = "open"
          /\ Last(w)'.sent # 0
      BY <1>1 DEF Last
    <2>4. QED
      BY <2>1, <2>2, <2>3 DEF WorkerInv, Refused, static, table, server
  <1>6. QED
    BY <1>2, <1>4, <1>5, OneWorkerStep DEF static

\* The server changes the block it is working on.
LEMMA ServerChange ==
    ASSUME IInv, NEW w \in Worker, Working(w), NEW b \in Block,
           SetFirst(w, b),
           b.sent = First(w).sent, b.end = First(w).end,
           b.raised = First(w).raised, b.ran # 0,
           First(w).guard = "none" => b.guard =
               IF GuardPasses(w) THEN "passed" ELSE "failed",
           First(w).guard # "none" => b.guard = First(w).guard,
           UNCHANGED <<static, table, client>>,
           \/ /\ UNCHANGED server
              /\ b.fate = "pending"
           \/ /\ served' = [served EXCEPT ![w] = @ + 1]
              /\ b.fate = Fate(b) /\ b.ran = b.sent /\ First(w).guard # "none"
              /\ late' = IF Superseded(w) /\ b.fate = "committed"
                         THEN [late EXCEPT ![w] = @ + 1] ELSE late
    PROVE  /\ Grants'
           /\ \A v \in Worker : WorkerInv(v)' /\ \A n \in Index : BlockInv(v, n)'
  <1>1. /\ served[w] + 1 \in Index
        /\ block' \in [Worker -> [Index -> Block]]
        /\ block'[w][served[w] + 1] = b
        /\ \A v \in Worker, m \in Index :
              v # w \/ m # served[w] + 1 => block'[v][m] = block[v][m]
    BY FirstUpdate DEF IInv
  <1>2. \A v \in Worker : v # w => Untouched(v)
    BY DEF IInv, TypeOK, SetFirst, Untouched, static, table, client, server
  <1>3. /\ WorkerInv(w)
        /\ \A n \in Index : BlockInv(w, n)
        /\ \A n \in Index : block[w][n] \in Block
        /\ held[w] # 0
        /\ First(w) = block[w][served[w] + 1]
        /\ served[w] \in Nat /\ begun[w] \in Nat /\ late[w] \in Nat
        /\ served[w] < begun[w] /\ begun[w] \in Index
    <2>1. served[w] \in Nat /\ begun[w] \in Nat /\ late[w] \in Nat
      BY BoundsAssumption DEF IInv, TypeOK
    <2>2. served[w] < begun[w] /\ begun[w] \in Index
      BY <2>1, BoundsAssumption DEF Working, Index, IInv, TypeOK
    <2>3. \A n \in Index : block[w][n] \in Block
      <3>1. block \in [Worker -> [Index -> Block]]
        BY DEF IInv, TypeOK, Index
      <3>2. QED
        BY <3>1
    <2>4. WorkerInv(w) /\ \A n \in Index : BlockInv(w, n)
      BY DEF IInv
    <2>5. held[w] # 0
      BY <2>1, <2>2, <2>4 DEF WorkerInv
    <2>6. QED
      BY <2>1, <2>2, <2>3, <2>4, <2>5 DEF First
  <1>4. ASSUME NEW n \in Index PROVE BlockInv(w, n)'
    <2>1. CASE n # served[w] + 1
      BY <1>1, <1>3, <2>1
      DEF BlockInv, Refused, Durable, Index, static, table, client, server,
          IInv, TypeOK
    <2>2. CASE n = served[w] + 1
      BY <1>1, <1>3, <2>2
      DEF BlockInv, Refused, Durable, Index, static, table, client, server,
          IInv, TypeOK, GuardPasses, Fate
    <2>3. QED
      BY <2>1, <2>2
  <1>5. WorkerInv(w)'
    <2>1. \A n \in Index : n > served[w] + 1 => block'[w][n].guard = "none"
      BY <1>1, <1>3 DEF BlockInv, Index
    <2>2. (\E m \in Index : m < served[w] + 1 /\ Refused(w, m))
             => b.guard # "passed"
      BY <1>1, <1>3 DEF WorkerInv, BlockInv, GuardPasses, Index
    <2>3. \A m, n \in Index :
             m < n /\ Refused(w, m)' => block'[w][n].guard # "passed"
      BY <1>1, <1>3, <2>1, <2>2 DEF WorkerInv, Refused, Index
    <2>4. /\ pc'[w] \in InBlock => Last(w)'.end = "open"
          /\ pc'[w] \in InBlock \ {"entered"} => Last(w)'.sent # 0
      <3>1. pc'[w] = pc[w] /\ Last(w)' = block'[w][begun[w]]
        BY DEF client, Last
      <3>2. /\ block'[w][begun[w]].end = Last(w).end
            /\ block'[w][begun[w]].sent = Last(w).sent
        BY <1>1, <1>3 DEF Last
      <3>3. QED
        BY <1>3, <3>1, <3>2 DEF WorkerInv
    <2>5. late'[w] <= 1
      BY <1>1, <1>3
      DEF WorkerInv, BlockInv, Fate, server, IInv, TypeOK
    <2>6. late'[w] # 0 =>
             /\ begun'[w] # 0 /\ fence' # held'[w]
             /\ \A n \in Index :
                   n > served'[w] => block'[w][n].guard # "passed"
      BY <1>1, <1>3, <2>1
      DEF WorkerInv, BlockInv, Fate, GuardPasses, Superseded, client, table,
          server, IInv, TypeOK, Index
    <2>7. QED
      BY <1>3, <2>3, <2>4, <2>5, <2>6 DEF WorkerInv, client, table
  <1>6. QED
    BY <1>2, <1>4, <1>5, OneWorkerStep DEF static

\* A step of the client that leaves the blocks alone.
LEMMA QuietStep ==
    ASSUME IInv, NEW w \in Worker,
           UNCHANGED <<static, table, server, block, begun>>,
           pc' = [pc EXCEPT ![w] = pc'[w]],
           \/ pc'[w] \notin InBlock
           \/ pc[w] \in InBlock \ {"entered"}
    PROVE  /\ Grants'
           /\ \A v \in Worker : WorkerInv(v)' /\ \A n \in Index : BlockInv(v, n)'
  <1>1. \A v \in Worker : v # w => Untouched(v)
    BY DEF IInv, TypeOK, Untouched, static, table, server
  <1>2. WorkerInv(w) /\ \A n \in Index : BlockInv(w, n)
    BY DEF IInv
  <1>3. \A n \in Index : BlockInv(w, n)'
    BY <1>2 DEF BlockInv, Refused, Durable, static, table, server
  <1>4. WorkerInv(w)'
    BY <1>2 DEF WorkerInv, Refused, Last, table, server
  <1>5. QED
    BY <1>1, <1>3, <1>4, OneWorkerStep DEF static

LEMMA BeginStep ==
    ASSUME IInv, NEW w \in Worker, Begin(w)
    PROVE  /\ Grants'
           /\ \A v \in Worker : WorkerInv(v)' /\ \A n \in Index : BlockInv(v, n)'
  <1>1. \A v \in Worker : v # w => Untouched(v)
    BY DEF IInv, TypeOK, Begin, Untouched, static, table, server
  <1>2. WorkerInv(w) /\ \A n \in Index : BlockInv(w, n)
    BY DEF IInv
  <1>3. /\ begun'[w] = begun[w] + 1 /\ pc'[w] = "entered"
        /\ begun[w] \in Nat /\ served[w] \in Nat /\ served[w] <= begun[w]
        /\ begun[w] + 1 \in Index
    BY BoundsAssumption DEF Begin, IInv, TypeOK, Opened, Index
  <1>4. /\ held[w] # 0
        /\ UNCHANGED <<static, table, server, block>>
    BY DEF Begin
  <1>5. \A n \in Index : BlockInv(w, n)'
    BY <1>2, <1>3, <1>4 DEF BlockInv, Refused, Durable, Index, static, table, server
  <1>6. WorkerInv(w)'
    <2>1. Last(w)' = NewBlock
      BY <1>2, <1>3, <1>4 DEF Last, BlockInv, Index
    <2>2. QED
      BY <1>2, <1>3, <1>4, <2>1 DEF WorkerInv, Refused, NewBlock, table, server
  <1>7. QED
    BY <1>1, <1>4, <1>5, <1>6, OneWorkerStep DEF static

LEMMA DisconnectStep ==
    ASSUME IInv, NEW w \in Worker, Disconnect(w)
    PROVE  /\ Grants'
           /\ \A v \in Worker : WorkerInv(v)' /\ \A n \in Index : BlockInv(v, n)'
  <1>1. \A v \in Worker : v # w => Untouched(v)
    BY DEF IInv, TypeOK, Disconnect, Untouched, static, table, client
  <1>2. WorkerInv(w) /\ \A n \in Index : BlockInv(w, n)
    BY DEF IInv
  <1>3. /\ served'[w] = begun[w]
        /\ begun[w] \in Nat /\ served[w] \in Nat /\ served[w] <= begun[w]
        /\ UNCHANGED <<static, table, client, late>>
    BY BoundsAssumption DEF Disconnect, IInv, TypeOK, Opened
  <1>4. ASSUME NEW n \in Index
        PROVE  /\ block'[w][n].sent = block[w][n].sent
               /\ block'[w][n].ran = block[w][n].ran
               /\ block'[w][n].guard = block[w][n].guard
               /\ block'[w][n].end = block[w][n].end
               /\ block'[w][n].raised = block[w][n].raised
               /\ \/ block'[w][n].fate = block[w][n].fate
                  \/ /\ n \in (served[w] + 1)..begun[w]
                     /\ block'[w][n].fate = "aborted"
               /\ n > begun[w] => block'[w][n] = block[w][n]
    <2>1. block[w][n] \in Block
      <3>1. block \in [Worker -> [Index -> Block]]
        BY DEF IInv, TypeOK, Index
      <3>2. QED
        BY <3>1
    <2>2. block'[w][n] = IF n \in (served[w] + 1)..begun[w]
                         THEN [block[w][n] EXCEPT !.fate = "aborted"]
                         ELSE block[w][n]
      BY DEF Disconnect, IInv, TypeOK, Index
    <2>3. CASE n \in (served[w] + 1)..begun[w]
      <3>1. block'[w][n] = [block[w][n] EXCEPT !.fate = "aborted"]
        BY <2>2, <2>3
      <3>2. ~(n > begun[w])
        BY <1>3, <2>3
      <3>3. QED
        BY <2>1, <2>3, <3>1, <3>2 DEF Block
    <2>4. CASE n \notin (served[w] + 1)..begun[w]
      <3>1. block'[w][n] = block[w][n]
        BY <2>2, <2>4
      <3>2. QED
        BY <3>1
    <2>5. QED
      BY <2>3, <2>4
  <1>5. ASSUME NEW n \in Index PROVE BlockInv(w, n)'
    BY <1>2, <1>3, <1>4
    DEF BlockInv, Refused, Durable, Index, static, table, client
  <1>6. WorkerInv(w)'
    <2>1. pc'[w] \in InBlock => begun[w] \in Index
      BY <1>3 DEF InBlock, IInv, Opened, TypeOK, Index, client
    <2>2. pc'[w] \in InBlock => /\ Last(w)'.end = Last(w).end
                               /\ Last(w)'.sent = Last(w).sent
      BY <1>3, <1>4, <2>1 DEF Last, client
    <2>3. QED
      BY <1>2, <1>3, <1>4, <2>2 DEF WorkerInv, Refused, Index, table, client
  <1>7. QED
    BY <1>1, <1>3, <1>5, <1>6, OneWorkerStep DEF static

\* The actions, one by one, in the terms of the lemmas above.
LEMMA IInvStep ==
    ASSUME IInv, [Next]_vars
    PROVE  IInv'
  <1> DEFINE Rest == /\ Grants'
                     /\ \A v \in Worker : /\ WorkerInv(v)'
                                          /\ \A n \in Index : BlockInv(v, n)'
  <1>0. TypeOK' /\ Opened'
    BY TypeStep DEF IInv
  <1>t. TypeOK /\ Opened /\ Grants
    BY DEF IInv
  <1>w. \A w \in Worker : WorkerInv(w) /\ \A n \in Index : BlockInv(w, n)
    BY DEF IInv
  <1>1. ASSUME NEW w \in Worker, InstallFence(w) PROVE Rest
    <2>1. held[w] = 0 /\ fence' = fence + 1 /\ fence' = cfg[w]
      BY <1>1, <1>t DEF InstallFence, Grants, TypeOK
    <2>2. QED
      BY <1>1, <2>1, GrantStep DEF InstallFence
  <1>2. ASSUME NEW w \in Worker, Claim(w) PROVE Rest
    <2>1. held[w] = 0 /\ fence' = fence + 1 /\ fence' = cfg[w]
      BY <1>2, <1>t DEF Claim, MayClaim, Bumped, TypeOK
    <2>2. QED
      BY <1>2, <2>1, GrantStep DEF Claim
  <1>3. ASSUME NEW w \in Worker, Begin(w) PROVE Rest
    BY <1>3, BeginStep
  <1>4. ASSUME NEW w \in Worker, SendGuard(w) PROVE Rest
    <2> DEFINE b == [Last(w) EXCEPT !.sent = 1]
    <2>1. Last(w) \in Block /\ Last(w).end = "open" /\ pc[w] \in InBlock
      BY <1>4, <1>t, <1>w, LastInBlock DEF SendGuard, WorkerInv, InBlock
    <2>2. /\ b \in Block /\ b.sent # 0 /\ b.ran = Last(w).ran
          /\ b.guard = Last(w).guard /\ b.fate = Last(w).fate
          /\ b.end = "open"
      BY <2>1, BoundsAssumption DEF Block
    <2>3. /\ SetLast(w, b) /\ pc' = [pc EXCEPT ![w] = pc'[w]]
          /\ UNCHANGED <<static, table, proc, server, begun>>
      BY <1>4, <1>t DEF SendGuard, TypeOK
    <2> HIDE DEF b
    <2>4. QED
      BY <2>1, <2>2, <2>3, ClientChange
  <1>5. ASSUME NEW w \in Worker, GuardAnswered(w) PROVE Rest
    <2>1. pc[w] \in InBlock \ {"entered"} /\ pc' = [pc EXCEPT ![w] = pc'[w]]
      BY <1>5, <1>t DEF GuardAnswered, InBlock, TypeOK
    <2>2. QED
      BY <1>5, <2>1, QuietStep DEF GuardAnswered
  <1>6. ASSUME NEW w \in Worker, Unwind(w) PROVE Rest
    <2> DEFINE b == [Last(w) EXCEPT !.end = "rollback"]
    <2>1. /\ Last(w) \in Block /\ Last(w).sent # 0 /\ pc[w] \in InBlock
          /\ pc'[w] \notin InBlock
      BY <1>6, <1>t, <1>w, LastInBlock DEF Unwind, WorkerInv, InBlock, TypeOK
    <2>2. /\ b \in Block /\ b.sent # 0 /\ b.ran = Last(w).ran
          /\ b.guard = Last(w).guard /\ b.fate = Last(w).fate
          /\ b.end = "rollback"
      BY <2>1 DEF Block
    <2>3. /\ SetLast(w, b) /\ pc' = [pc EXCEPT ![w] = pc'[w]]
          /\ UNCHANGED <<static, table, proc, server, begun>>
      BY <1>6, <1>t DEF Unwind, TypeOK
    <2> HIDE DEF b
    <2>4. QED
      BY <2>1, <2>2, <2>3, ClientChange
  <1>7. ASSUME NEW w \in Worker, SendStmt(w) PROVE Rest
    <2> DEFINE b == [Last(w) EXCEPT !.sent = @ + 1]
    <2>1. Last(w) \in Block /\ Last(w).end = "open" /\ pc[w] \in InBlock
      BY <1>7, <1>t, <1>w, LastInBlock DEF SendStmt, WorkerInv, InBlock
    <2>2. b \in Block
      BY <1>7, <2>1, BoundsAssumption DEF SendStmt, Block
    <2>3. /\ b.sent # 0 /\ b.ran = Last(w).ran
          /\ b.guard = Last(w).guard /\ b.fate = Last(w).fate
          /\ b.end = "open"
      BY <2>1, BoundsAssumption DEF Block
    <2>4. /\ SetLast(w, b) /\ pc' = [pc EXCEPT ![w] = pc'[w]]
          /\ UNCHANGED <<static, table, proc, server, begun>>
      BY <1>7, <1>t DEF SendStmt, TypeOK, client
    <2> HIDE DEF b
    <2>5. QED
      BY <2>1, <2>2, <2>3, <2>4, ClientChange
  <1>8. ASSUME NEW w \in Worker, Leave(w) PROVE Rest
    <2> DEFINE b == [Last(w) EXCEPT !.end = "commit"]
    <2>1. /\ Last(w) \in Block /\ Last(w).sent = Stmts + 1 /\ pc[w] \in InBlock
          /\ pc'[w] \notin InBlock
      BY <1>8, <1>t, LastInBlock DEF Leave, InBlock, TypeOK
    <2>2. /\ b \in Block /\ b.sent # 0 /\ b.ran = Last(w).ran
          /\ b.guard = Last(w).guard /\ b.fate = Last(w).fate
          /\ b.sent = Stmts + 1 /\ b.end = "commit"
      BY <2>1, BoundsAssumption DEF Block
    <2>3. /\ SetLast(w, b) /\ pc' = [pc EXCEPT ![w] = pc'[w]]
          /\ UNCHANGED <<static, table, proc, server, begun>>
      BY <1>8, <1>t DEF Leave, TypeOK
    <2> HIDE DEF b
    <2>4. QED
      BY <2>1, <2>2, <2>3, ClientChange
  <1>9. ASSUME NEW w \in Worker, BodyRaises(w) PROVE Rest
    <2> DEFINE b == [Last(w) EXCEPT !.end = EndOnRaise(w), !.raised = TRUE]
    <2>1. /\ Last(w) \in Block /\ Last(w).sent # 0 /\ pc[w] \in InBlock
          /\ pc'[w] \notin InBlock
      BY <1>9, <1>t, <1>w, LastInBlock DEF BodyRaises, WorkerInv, InBlock, TypeOK
    <2>2. /\ b \in Block /\ b.sent # 0 /\ b.ran = Last(w).ran
          /\ b.guard = Last(w).guard /\ b.fate = Last(w).fate
          /\ b.raised /\ b.end = EndOnRaise(w)
      BY <2>1 DEF Block, EndOnRaise
    <2>3. b.end = "commit" => branch[w] # "transaction"
      BY <2>2 DEF EndOnRaise
    <2>4. /\ SetLast(w, b) /\ pc' = [pc EXCEPT ![w] = pc'[w]]
          /\ UNCHANGED <<static, table, proc, server, begun>>
      BY <1>9, <1>t DEF BodyRaises, TypeOK
    <2> HIDE DEF b
    <2>5. QED
      BY <2>1, <2>2, <2>3, <2>4, ClientChange
  <1>10. ASSUME NEW w \in Worker, Finish(w) \/ Kill(w) PROVE Rest
    <2>1. pc'[w] \notin InBlock /\ pc' = [pc EXCEPT ![w] = pc'[w]]
      BY <1>10, <1>t DEF Finish, Kill, InBlock, TypeOK
    <2>2. QED
      BY <1>10, <2>1, QuietStep DEF Finish, Kill, client
  <1>11. ASSUME NEW w \in Worker, Close(w) PROVE Rest
    <2>1. pc'[w] \notin InBlock /\ pc' = [pc EXCEPT ![w] = pc'[w]]
      BY <1>11, <1>t DEF Close, InBlock, TypeOK
    <2>2. QED
      BY <1>11, <2>1, QuietStep DEF Close
  <1>s. ASSUME NEW w \in Worker, Working(w)
        PROVE  /\ First(w) \in Block /\ First(w).fate = "pending"
               /\ First(w).ran = 0 <=> First(w).guard = "none"
               /\ First(w).end # "open" => First(w).sent # 0
    <2>1. served[w] + 1 \in Index /\ served[w] \in Nat
      BY <1>s, <1>t, BoundsAssumption DEF Working, TypeOK, Index
    <2>2. BlockInv(w, served[w] + 1)
      BY <1>w, <2>1
    <2>3. QED
      BY <1>s, <1>t, <2>1, <2>2, FirstInBlock DEF BlockInv, First
  <1>12. ASSUME NEW w \in Worker, RunGuard(w) PROVE Rest
    <2> DEFINE g == IF GuardPasses(w) THEN "passed" ELSE "failed"
               b == [First(w) EXCEPT !.ran = 1, !.guard = g]
    <2>1. Working(w) /\ First(w).guard = "none"
      BY <1>12, <1>s DEF RunGuard
    <2>2. b \in Block
      BY <2>1, <1>s, GuardedBlock
    <2>3. /\ b.ran = 1 /\ b.guard = g /\ b.fate = "pending"
          /\ b.sent = First(w).sent /\ b.end = First(w).end
          /\ b.raised = First(w).raised
      <3> HIDE DEF g
      <3>1. QED
        BY <2>1, <1>s DEF Block
    <2>4. SetFirst(w, b) /\ UNCHANGED <<static, table, client, server>>
      BY <1>12 DEF RunGuard
    <2> HIDE DEF b
    <2>5. QED
      BY <2>1, <2>2, <2>3, <2>4, ServerChange
  <1>13. ASSUME NEW w \in Worker, RunStmt(w) PROVE Rest
    <2> DEFINE b == [First(w) EXCEPT !.ran = @ + 1]
    <2>1. Working(w) /\ First(w).ran \in Nat /\ First(w).guard # "none"
      BY <1>13, <1>s DEF RunStmt, Block
    <2>2. b \in Block
      BY <1>13, <1>s, BoundsAssumption DEF RunStmt, Block
    <2>3. /\ b.ran # 0 /\ b.guard = First(w).guard /\ b.fate = "pending"
          /\ b.sent = First(w).sent /\ b.end = First(w).end
          /\ b.raised = First(w).raised
      BY <2>1, <1>s DEF Block
    <2>4. SetFirst(w, b) /\ UNCHANGED <<static, table, client, server>>
      BY <1>13 DEF RunStmt
    <2> HIDE DEF b
    <2>5. QED
      BY <2>1, <2>2, <2>3, <2>4, ServerChange
  <1>14. ASSUME NEW w \in Worker, EndBlock(w) PROVE Rest
    <2> DEFINE b == [First(w) EXCEPT !.fate = Fate(First(w))]
    <2>1. Working(w) /\ First(w).ran = First(w).sent /\ First(w).ran # 0
      BY <1>14, <1>s DEF EndBlock
    <2>2. b \in Block
      BY <2>1, <1>s DEF Block, Fate
    <2>3. /\ b.ran = First(w).ran /\ b.guard = First(w).guard
          /\ b.fate = Fate(First(w))
          /\ b.sent = First(w).sent /\ b.end = First(w).end
          /\ b.raised = First(w).raised
      BY <2>1, <1>s DEF Block
    <2>4. b.fate = Fate(b)
      BY <2>3 DEF Fate
    <2>5. /\ SetFirst(w, b) /\ UNCHANGED <<static, table, client>>
          /\ served' = [served EXCEPT ![w] = @ + 1]
          /\ late' = IF Superseded(w) /\ b.fate = "committed"
                     THEN [late EXCEPT ![w] = @ + 1] ELSE late
      BY <1>14, <2>3 DEF EndBlock
    <2>6. First(w).guard # "none"
      BY <2>1, <1>s
    <2> HIDE DEF b
    <2>7. QED
      BY <2>1, <2>2, <2>3, <2>4, <2>5, <2>6, ServerChange
  <1>15. ASSUME NEW w \in Worker, Disconnect(w) PROVE Rest
    BY <1>15, DisconnectStep
  <1>16. ASSUME UNCHANGED vars PROVE Rest
    <2>1. \A v \in Worker : Untouched(v)
      BY <1>16 DEF vars, Untouched
    <2>2. Grants'
      BY <1>16, <1>t DEF vars, Grants, OneHolderPerFence
    <2>3. QED
      BY <2>1, <2>2, <1>w, UntouchedInv
  <1>17. Rest
    BY <1>1, <1>2, <1>3, <1>4, <1>5, <1>6, <1>7, <1>8, <1>9, <1>10, <1>11,
       <1>12, <1>13, <1>14, <1>15, <1>16
    DEF Next, ClientStep, ServerStep, Done
  <1>18. QED
    BY <1>0, <1>17 DEF IInv

-----------------------------------------------------------------------------
(* The theorems.                                                            *)

\* Every reachable state is well typed and satisfies the inductive invariant.
THEOREM Invariance == Spec => []IInv
  <1>1. Init => IInv
    BY GrantsInit
  <1>2. IInv /\ [Next]_vars => IInv'
    BY IInvStep
  <1>3. QED
    BY <1>1, <1>2, PTL DEF Spec

\* Type correctness for every value of the constants.
THEOREM TypeCorrect == Spec => []TypeOK
  <1>1. IInv => TypeOK
    BY DEF IInv
  <1>2. QED
    BY <1>1, Invariance, PTL

\* CLAIM_SQL hands every fence value to one worker at most, however many
\* rivals claim and from whatever values they were told to supersede.
THEOREM ClaimsAreUnique == Spec => []OneHolderPerFence
  <1>1. IInv => OneHolderPerFence
    BY DEF IInv, Grants
  <1>2. QED
    BY <1>1, Invariance, PTL

\* A superseded worker lands at most the block it was admitted to before the
\* takeover, for every number of blocks and workers.
THEOREM ZombieLandsAtMostOne == Spec => []AtMostOneLateBlock
  <1>1. IInv => AtMostOneLateBlock
    BY DEF IInv, WorkerInv, AtMostOneLateBlock
  <1>2. QED
    BY <1>1, Invariance, PTL

\* Once one block of a worker was refused, nothing it writes afterwards is
\* durable.
THEOREM RefusalSticks == Spec => []RefusalIsFinal
  <1>1. ASSUME IInv, NEW w \in Worker, NEW m \in Index, NEW n \in Index,
               m <= n, Refused(w, m)
        PROVE  ~Durable(w, n)
    <2>1. WorkerInv(w) /\ BlockInv(w, n)
      BY <1>1 DEF IInv
    <2>2. block[w][n].guard # "passed"
      <3>1. CASE m = n
        BY <1>1, <3>1 DEF Refused
      <3>2. CASE m < n
        BY <1>1, <2>1, <3>2 DEF WorkerInv
      <3>3. QED
        BY <1>1, <3>1, <3>2 DEF Index
    <2>3. QED
      BY <2>1, <2>2 DEF BlockInv
  <1>2. IInv => RefusalIsFinal
    BY <1>1 DEF RefusalIsFinal, Index
  <1>3. QED
    BY <1>2, Invariance, PTL

\* A durable block is the whole body, whatever was killed or lost, except
\* where the client left a pipeline block by an exception.
THEOREM PartialBlocksExplained == Spec => []PartialOnlyByPipelineRaise
  <1>1. ASSUME IInv, NEW w \in Worker, NEW n \in Index,
               Durable(w, n), block[w][n].ran < Stmts + 1
        PROVE  block[w][n].raised /\ branch[w] # "transaction"
    <2>1. BlockInv(w, n)
      BY <1>1 DEF IInv
    <2>2. block[w][n].end = "commit" /\ block[w][n].ran = block[w][n].sent
      BY <1>1, <2>1 DEF BlockInv
    <2>3. block[w][n].sent # Stmts + 1
      BY <1>1, <2>2, BoundsAssumption
    <2>4. QED
      BY <2>1, <2>2, <2>3 DEF BlockInv
  <1>2. IInv => PartialOnlyByPipelineRaise
    BY <1>1 DEF PartialOnlyByPipelineRaise, Index
  <1>3. QED
    BY <1>2, Invariance, PTL

\* A guard's verdict is the server's: no step but RunGuard changes one.
LEMMA VerdictsStand ==
    ASSUME IInv, NEW w \in Worker, NEW n \in Index, Next,
           \A u \in Worker : ~RunGuard(u)
    PROVE  block'[w][n].guard = block[w][n].guard
  <1>t. TypeOK /\ Opened
    BY DEF IInv
  <1>1. ASSUME NEW u \in Worker,
               \/ InstallFence(u) \/ Claim(u) \/ Begin(u) \/ GuardAnswered(u)
               \/ Finish(u) \/ Close(u) \/ Kill(u)
        PROVE  block'[w][n].guard = block[w][n].guard
    BY <1>1 DEF InstallFence, Claim, Begin, GuardAnswered, Finish, Close, Kill
  <1>2. ASSUME NEW u \in Worker, SendGuard(u)
         PROVE  block'[w][n].guard = block[w][n].guard
    <2> DEFINE b == [Last(u) EXCEPT !.sent = 1]
    <2>1. Last(u) \in Block /\ pc[u] # "idle"
      BY <1>2, <1>t, LastInBlock DEF SendGuard
    <2>2. b \in Block /\ b.guard = Last(u).guard
      BY <1>2, <2>1, BoundsAssumption DEF SendGuard, Block
    <2>3. SetLast(u, b)
      BY <1>2 DEF SendGuard
    <2> HIDE DEF b
    <2>4. QED
      BY <2>1, <2>2, <2>3, <1>t, LastUpdate DEF Last
  <1>3. ASSUME NEW u \in Worker, Unwind(u)
         PROVE  block'[w][n].guard = block[w][n].guard
    <2> DEFINE b == [Last(u) EXCEPT !.end = "rollback"]
    <2>1. Last(u) \in Block /\ pc[u] # "idle"
      BY <1>3, <1>t, LastInBlock DEF Unwind
    <2>2. b \in Block /\ b.guard = Last(u).guard
      BY <1>3, <2>1, BoundsAssumption DEF Unwind, Block
    <2>3. SetLast(u, b)
      BY <1>3 DEF Unwind
    <2> HIDE DEF b
    <2>4. QED
      BY <2>1, <2>2, <2>3, <1>t, LastUpdate DEF Last
  <1>4. ASSUME NEW u \in Worker, SendStmt(u)
         PROVE  block'[w][n].guard = block[w][n].guard
    <2> DEFINE b == [Last(u) EXCEPT !.sent = @ + 1]
    <2>1. Last(u) \in Block /\ pc[u] # "idle"
      BY <1>4, <1>t, LastInBlock DEF SendStmt
    <2>2. b \in Block /\ b.guard = Last(u).guard
      BY <1>4, <2>1, BoundsAssumption DEF SendStmt, Block
    <2>3. SetLast(u, b)
      BY <1>4 DEF SendStmt
    <2> HIDE DEF b
    <2>4. QED
      BY <2>1, <2>2, <2>3, <1>t, LastUpdate DEF Last
  <1>5. ASSUME NEW u \in Worker, Leave(u)
         PROVE  block'[w][n].guard = block[w][n].guard
    <2> DEFINE b == [Last(u) EXCEPT !.end = "commit"]
    <2>1. Last(u) \in Block /\ pc[u] # "idle"
      BY <1>5, <1>t, LastInBlock DEF Leave
    <2>2. b \in Block /\ b.guard = Last(u).guard
      BY <1>5, <2>1, BoundsAssumption DEF Leave, Block
    <2>3. SetLast(u, b)
      BY <1>5 DEF Leave
    <2> HIDE DEF b
    <2>4. QED
      BY <2>1, <2>2, <2>3, <1>t, LastUpdate DEF Last
  <1>6. ASSUME NEW u \in Worker, BodyRaises(u)
         PROVE  block'[w][n].guard = block[w][n].guard
    <2> DEFINE b == [Last(u) EXCEPT !.end = EndOnRaise(u), !.raised = TRUE]
    <2>1. Last(u) \in Block /\ pc[u] # "idle"
      BY <1>6, <1>t, LastInBlock DEF BodyRaises
    <2>2. b \in Block /\ b.guard = Last(u).guard
      BY <1>6, <2>1, BoundsAssumption DEF BodyRaises, Block, EndOnRaise
    <2>3. SetLast(u, b)
      BY <1>6 DEF BodyRaises
    <2> HIDE DEF b
    <2>4. QED
      BY <2>1, <2>2, <2>3, <1>t, LastUpdate DEF Last
  <1>7. ASSUME NEW u \in Worker, RunStmt(u)
         PROVE  block'[w][n].guard = block[w][n].guard
    <2> DEFINE b == [First(u) EXCEPT !.ran = @ + 1]
    <2>1. First(u) \in Block /\ Working(u)
      BY <1>7, <1>t, FirstInBlock DEF RunStmt
    <2>2. b \in Block /\ b.guard = First(u).guard
      BY <1>7, <2>1, BoundsAssumption DEF RunStmt, Block
    <2>3. SetFirst(u, b)
      BY <1>7 DEF RunStmt
    <2> HIDE DEF b
    <2>4. QED
      BY <2>1, <2>2, <2>3, <1>t, FirstUpdate DEF First
  <1>8. ASSUME NEW u \in Worker, EndBlock(u)
         PROVE  block'[w][n].guard = block[w][n].guard
    <2> DEFINE b == [First(u) EXCEPT !.fate = Fate(First(u))]
    <2>1. First(u) \in Block /\ Working(u)
      BY <1>8, <1>t, FirstInBlock DEF EndBlock
    <2>2. b \in Block /\ b.guard = First(u).guard
      BY <1>8, <2>1, BoundsAssumption DEF EndBlock, Block, Fate
    <2>3. SetFirst(u, b)
      BY <1>8 DEF EndBlock
    <2> HIDE DEF b
    <2>4. QED
      BY <2>1, <2>2, <2>3, <1>t, FirstUpdate DEF First
  <1>9. ASSUME NEW u \in Worker, Disconnect(u)
        PROVE  block'[w][n].guard = block[w][n].guard
    <2>1. block \in [Worker -> [Index -> Block]]
      BY <1>t DEF TypeOK, Index
    <2>2. CASE w # u
      BY <1>9, <2>1, <2>2 DEF Disconnect
    <2>3. CASE w = u
      <3>1. block[w][n] \in Block
        BY <2>1
      <3>2. block'[w][n] = IF n \in (served[w] + 1)..begun[w]
                           THEN [block[w][n] EXCEPT !.fate = "aborted"]
                           ELSE block[w][n]
        BY <1>9, <2>1, <2>3 DEF Disconnect, Index
      <3>3. QED
        BY <3>1, <3>2 DEF Block
    <2>4. QED
      BY <2>2, <2>3
  <1>10. CASE Done
    BY <1>10 DEF Done, vars
  <1>11. QED
    BY <1>1, <1>2, <1>3, <1>4, <1>5, <1>6, <1>7, <1>8, <1>9, <1>10
    DEF Next, ClientStep, ServerStep

\* A block is admitted only while no worker holds a later fence value than its
\* writer, also when the guard was queued before a takeover.
THEOREM AdmissionFollowsTakeovers == Spec => AdmittedOnlyToLatest
  <1> DEFINE Admits == \A w \in Worker, n \in 1..MaxBlocks :
          block[w][n].guard # "passed" /\ block'[w][n].guard = "passed"
             => \A v \in Worker : held[v] <= held[w]
  <1>1. ASSUME IInv, Next PROVE Admits
    <2> SUFFICES ASSUME NEW w \in Worker, NEW n \in Index,
                        block[w][n].guard # "passed",
                        block'[w][n].guard = "passed"
                 PROVE  fence = held[w]
      BY <1>1 DEF IInv, Grants, Index
    <2>1. PICK u \in Worker : RunGuard(u)
      BY <1>1, VerdictsStand
    <2> DEFINE g == IF GuardPasses(u) THEN "passed" ELSE "failed"
               b == [First(u) EXCEPT !.ran = 1, !.guard = g]
    <2>2. Working(u) /\ First(u) \in Block
      BY <1>1, <2>1, FirstInBlock DEF RunGuard, IInv
    <2>3. b \in Block
      BY <2>2, GuardedBlock
    <2>4. b.guard = g
      <3> HIDE DEF g
      <3>1. QED
        BY <2>2 DEF Block
    <2>5. SetFirst(u, b)
      BY <2>1 DEF RunGuard
    <2>6. w = u /\ block'[w][n] = b
      <3> HIDE DEF b
      <3>1. QED
        BY <1>1, <2>2, <2>3, <2>5, FirstUpdate DEF IInv
    <2>7. g = "passed"
      BY <2>4, <2>6
    <2>8. QED
      BY <2>6, <2>7 DEF GuardPasses
  <1>2. IInv /\ [Next]_vars => [Admits]_vars
    BY <1>1
  <1>3. QED
    BY <1>2, Invariance, PTL DEF Spec, AdmittedOnlyToLatest

-----------------------------------------------------------------------------
(* What the write blocks come to for those outside: a write that returned   *)
(* normally is stored, and the fence implements GuardedWrites.  Both rest   *)
(* on what a step does to the blocks, which is stated first.                *)

\* Block n of worker v is as before the step.
Same(v, n) == block'[v][n] = block[v][n]

LEMMA BlockTyped ==
    ASSUME TypeOK, NEW w \in Worker, NEW n \in Index
    PROVE  block[w][n] \in Block
  <1>1. block \in [Worker -> [Index -> Block]]
    BY DEF TypeOK, Index
  <1>2. QED
    BY <1>1

-----------------------------------------------------------------------------
(* What a step does to the blocks.                                          *)

\* A client's step on its open block: it sends, or closes, and leaves what the
\* server has made of the block alone.
ClientWrites(w) ==
    LET n == begun[w]
    IN  /\ n \in Index /\ pc[w] \in InBlock /\ block[w][n].end = "open"
        /\ \A v \in Worker, m \in Index : v # w \/ m # n => Same(v, m)
        /\ block'[w][n].guard = block[w][n].guard
        /\ block'[w][n].fate = block[w][n].fate
        /\ block'[w][n].end = "rollback" => block'[w][n].raised \/ pc[w] = "unwinding"
        /\ UNCHANGED <<static, table, proc, server, lock, begun, fetched, acked, told>>
        /\ pc' = [pc EXCEPT ![w] = pc'[w]] /\ pc'[w] # "unwinding"

\* The server's step on the block it is at.
ServerWrites(w) ==
    LET n == served[w] + 1
    IN  /\ n \in Index /\ n <= begun[w] /\ proc[w] # "gone" /\ held[w] # 0
        /\ \A v \in Worker, m \in Index : v # w \/ m # n => Same(v, m)
        /\ block'[w][n].end = block[w][n].end
        /\ block'[w][n].raised = block[w][n].raised
        /\ block[w][n].fate = "pending"
        /\ UNCHANGED <<static, table, proc, client>>

LEMMA SendGuardWrites ==
    ASSUME IInv, NEW w \in Worker, SendGuard(w)
    PROVE  ClientWrites(w)
  <1> DEFINE b == [Last(w) EXCEPT !.sent = 1]
  <1>0. TypeOK /\ Opened /\ WorkerInv(w) /\ pc[w] \in InBlock /\ pc[w] # "idle"
    BY DEF IInv, SendGuard, InBlock
  <1>1. Last(w) \in Block /\ Last(w).end = "open" /\ begun[w] \in Index
    BY <1>0, LastInBlock, BoundsAssumption DEF WorkerInv, TypeOK, Opened, Index
  <1>2. b \in Block /\ b.guard = Last(w).guard /\ b.fate = Last(w).fate /\ b.end = "open"
    BY <1>1, BoundsAssumption DEF Block
  <1>3. SetLast(w, b) /\ pc' = [pc EXCEPT ![w] = pc'[w]] /\ pc'[w] # "unwinding"
    BY <1>0 DEF SendGuard, TypeOK
  <1>4. UNCHANGED <<static, table, proc, server, lock, begun, fetched, acked, told>>
    BY DEF SendGuard
  <1> HIDE DEF b
  <1>5. QED
    BY <1>0, <1>1, <1>2, <1>3, <1>4, LastUpdate DEF ClientWrites, Same, Last

LEMMA SendStmtWrites ==
    ASSUME IInv, NEW w \in Worker, SendStmt(w)
    PROVE  ClientWrites(w)
  <1> DEFINE b == [Last(w) EXCEPT !.sent = @ + 1]
  <1>0. TypeOK /\ Opened /\ WorkerInv(w) /\ pc[w] \in InBlock /\ pc[w] # "idle"
    BY DEF IInv, SendStmt, InBlock
  <1>1. Last(w) \in Block /\ Last(w).end = "open" /\ begun[w] \in Index
    BY <1>0, LastInBlock, BoundsAssumption DEF WorkerInv, TypeOK, Opened, Index
  <1>2. b \in Block
    BY <1>1, BoundsAssumption DEF SendStmt, Block
  <1>3. b.guard = Last(w).guard /\ b.fate = Last(w).fate /\ b.end = "open"
    BY <1>1, BoundsAssumption DEF Block
  <1>4. SetLast(w, b) /\ pc' = [pc EXCEPT ![w] = pc'[w]] /\ pc'[w] # "unwinding"
    BY <1>0 DEF SendStmt, TypeOK, client
  <1>5. UNCHANGED <<static, table, proc, server, lock, begun, fetched, acked, told>>
    BY DEF SendStmt, client
  <1> HIDE DEF b
  <1>6. QED
    BY <1>0, <1>1, <1>2, <1>3, <1>4, <1>5, LastUpdate DEF ClientWrites, Same, Last

LEMMA UnwindWrites ==
    ASSUME IInv, NEW w \in Worker, Unwind(w)
    PROVE  ClientWrites(w)
  <1> DEFINE b == [Last(w) EXCEPT !.end = "rollback"]
  <1>0. TypeOK /\ Opened /\ WorkerInv(w) /\ pc[w] \in InBlock /\ pc[w] # "idle" /\ pc[w] = "unwinding"
    BY DEF IInv, Unwind, InBlock
  <1>1. Last(w) \in Block /\ Last(w).end = "open" /\ begun[w] \in Index
    BY <1>0, LastInBlock, BoundsAssumption DEF WorkerInv, TypeOK, Opened, Index
  <1>2. b \in Block /\ b.guard = Last(w).guard /\ b.fate = Last(w).fate
    BY <1>1 DEF Block
  <1>3. SetLast(w, b) /\ pc' = [pc EXCEPT ![w] = pc'[w]] /\ pc'[w] # "unwinding"
    BY <1>0 DEF Unwind, TypeOK
  <1>4. UNCHANGED <<static, table, proc, server, lock, begun, fetched, acked, told>>
    BY DEF Unwind
  <1> HIDE DEF b
  <1>5. QED
    BY <1>0, <1>1, <1>2, <1>3, <1>4, LastUpdate DEF ClientWrites, Same, Last

LEMMA LeaveWrites ==
    ASSUME IInv, NEW w \in Worker, Leave(w)
    PROVE  ClientWrites(w)
  <1> DEFINE b == [Last(w) EXCEPT !.end = "commit"]
  <1>0. TypeOK /\ Opened /\ WorkerInv(w) /\ pc[w] \in InBlock /\ pc[w] # "idle"
    BY DEF IInv, Leave, InBlock
  <1>1. Last(w) \in Block /\ Last(w).end = "open" /\ begun[w] \in Index
    BY <1>0, LastInBlock, BoundsAssumption DEF WorkerInv, TypeOK, Opened, Index
  <1>2. b \in Block /\ b.guard = Last(w).guard /\ b.fate = Last(w).fate /\ b.end = "commit"
    BY <1>1 DEF Block
  <1>3. SetLast(w, b) /\ pc' = [pc EXCEPT ![w] = pc'[w]] /\ pc'[w] # "unwinding"
    BY <1>0 DEF Leave, TypeOK
  <1>4. UNCHANGED <<static, table, proc, server, lock, begun, fetched, acked, told>>
    BY DEF Leave
  <1> HIDE DEF b
  <1>5. QED
    BY <1>0, <1>1, <1>2, <1>3, <1>4, LastUpdate DEF ClientWrites, Same, Last

LEMMA BodyRaisesWrites ==
    ASSUME IInv, NEW w \in Worker, BodyRaises(w)
    PROVE  ClientWrites(w)
  <1> DEFINE b == [Last(w) EXCEPT !.end = EndOnRaise(w), !.raised = TRUE]
  <1>0. TypeOK /\ Opened /\ WorkerInv(w) /\ pc[w] \in InBlock /\ pc[w] # "idle"
    BY DEF IInv, BodyRaises, InBlock
  <1>1. Last(w) \in Block /\ Last(w).end = "open" /\ begun[w] \in Index
    BY <1>0, LastInBlock, BoundsAssumption DEF WorkerInv, TypeOK, Opened, Index
  <1>2. b \in Block /\ b.guard = Last(w).guard /\ b.fate = Last(w).fate /\ b.raised
    BY <1>1 DEF Block, EndOnRaise
  <1>3. SetLast(w, b) /\ pc' = [pc EXCEPT ![w] = pc'[w]] /\ pc'[w] # "unwinding"
    BY <1>0 DEF BodyRaises, TypeOK
  <1>4. UNCHANGED <<static, table, proc, server, lock, begun, fetched, acked, told>>
    BY DEF BodyRaises
  <1> HIDE DEF b
  <1>5. QED
    BY <1>0, <1>1, <1>2, <1>3, <1>4, LastUpdate DEF ClientWrites, Same, Last

-----------------------------------------------------------------------------
\* Where the server is, before a step of it.
LEMMA ServerAt ==
    ASSUME IInv, NEW w \in Worker, Working(w)
    PROVE  /\ served[w] \in Nat /\ served[w] + 1 \in Index /\ served[w] + 1 <= begun[w]
           /\ proc[w] # "gone" /\ held[w] # 0
           /\ First(w) = block[w][served[w] + 1] /\ First(w) \in Block
           /\ First(w).fate = "pending"
           /\ First(w).ran = 0 <=> First(w).guard = "none"
           /\ First(w).end # "open" => First(w).sent # 0
  <1>1. TypeOK /\ served[w] \in Nat /\ begun[w] \in 0..MaxBlocks /\ served[w] < begun[w]
    BY BoundsAssumption DEF IInv, TypeOK, Working
  <1>2. served[w] + 1 \in Index /\ served[w] + 1 <= begun[w] /\ begun[w] # 0
    BY <1>1, BoundsAssumption DEF Index
  <1>3. BlockInv(w, served[w] + 1) /\ WorkerInv(w)
    BY <1>2 DEF IInv
  <1>4. QED
    BY <1>1, <1>2, <1>3, FirstInBlock DEF BlockInv, WorkerInv, First, Working

LEMMA RunGuardWrites ==
    ASSUME IInv, NEW w \in Worker, RunGuard(w)
    PROVE  /\ ServerWrites(w) /\ UNCHANGED server
           /\ block[w][served[w] + 1].guard = "none"
           /\ block'[w][served[w] + 1].guard = IF GuardPasses(w) THEN "passed" ELSE "failed"
           /\ block'[w][served[w] + 1].fate = "pending"
  <1> DEFINE g == IF GuardPasses(w) THEN "passed" ELSE "failed"
             b == [First(w) EXCEPT !.ran = 1, !.guard = g]
  <1>0. TypeOK /\ Working(w) /\ First(w).ran = 0
    BY DEF IInv, RunGuard
  <1>1. b \in Block
    BY <1>0, ServerAt, GuardedBlock
  <1>2. b.guard = g /\ b.fate = "pending" /\ b.end = First(w).end /\ b.raised = First(w).raised
    <2> HIDE DEF g
    <2>1. QED
      BY <1>0, ServerAt DEF Block
  <1>3. SetFirst(w, b) /\ UNCHANGED <<static, table, proc, client, server>>
    BY DEF RunGuard
  <1> HIDE DEF b
  <1>4. QED
    BY <1>0, <1>1, <1>2, <1>3, ServerAt, FirstUpdate DEF ServerWrites, Same

LEMMA RunStmtWrites ==
    ASSUME IInv, NEW w \in Worker, RunStmt(w)
    PROVE  /\ ServerWrites(w) /\ UNCHANGED server
           /\ block'[w][served[w] + 1].guard = block[w][served[w] + 1].guard
           /\ block'[w][served[w] + 1].fate = "pending"
  <1> DEFINE b == [First(w) EXCEPT !.ran = @ + 1]
  <1>0. TypeOK /\ Working(w) /\ First(w).ran < First(w).sent
    BY DEF IInv, RunStmt
  <1>1. b \in Block
    BY <1>0, ServerAt, BoundsAssumption DEF Block
  <1>2. /\ b.guard = First(w).guard /\ b.fate = "pending"
        /\ b.end = First(w).end /\ b.raised = First(w).raised
    BY <1>0, ServerAt DEF Block
  <1>3. SetFirst(w, b) /\ UNCHANGED <<static, table, proc, client, server>>
    BY DEF RunStmt
  <1> HIDE DEF b
  <1>4. QED
    BY <1>0, <1>1, <1>2, <1>3, ServerAt, FirstUpdate DEF ServerWrites, Same

\* The server decides a block whose guard it has run.
LEMMA EndBlockWrites ==
    ASSUME IInv, NEW w \in Worker, EndBlock(w)
    PROVE  /\ ServerWrites(w) /\ served' = [served EXCEPT ![w] = @ + 1]
           /\ block[w][served[w] + 1].guard # "none"
           /\ block[w][served[w] + 1].end # "open"
           /\ block'[w][served[w] + 1].guard = block[w][served[w] + 1].guard
           /\ block'[w][served[w] + 1].fate = Fate(block[w][served[w] + 1])
  <1> DEFINE b == [First(w) EXCEPT !.fate = Fate(First(w))]
  <1>0. TypeOK /\ Working(w) /\ First(w).ran = First(w).sent /\ First(w).end # "open"
    BY DEF IInv, EndBlock
  <1>1. b \in Block
    BY <1>0, ServerAt DEF Block, Fate
  <1>2. /\ b.guard = First(w).guard /\ b.fate = Fate(First(w))
        /\ b.end = First(w).end /\ b.raised = First(w).raised
    BY <1>0, ServerAt DEF Block
  <1>3. /\ SetFirst(w, b) /\ UNCHANGED <<static, table, proc, client>>
        /\ served' = [served EXCEPT ![w] = @ + 1]
    BY DEF EndBlock
  <1> HIDE DEF b
  <1>4. QED
    BY <1>0, <1>1, <1>2, <1>3, ServerAt, FirstUpdate DEF ServerWrites, Same

\* A lost connection aborts what was not decided and nothing else.
LEMMA DisconnectWrites ==
    ASSUME IInv, NEW w \in Worker, Disconnect(w)
    PROVE  /\ served' = [served EXCEPT ![w] = begun[w]] /\ served[w] <= begun[w]
           /\ proc' = [proc EXCEPT ![w] = "gone"] /\ proc[w] = "killed"
           /\ UNCHANGED <<static, table, client>>
           /\ \A v \in Worker, n \in Index :
                 /\ Same(v, n) \/ (v = w /\ n > served[w] /\ n <= begun[w])
                 /\ block'[v][n].guard = block[v][n].guard
                 /\ block'[v][n].end = block[v][n].end
                 /\ block'[v][n].raised = block[v][n].raised
                 /\ Durable(v, n)' <=> Durable(v, n)
  <1>0. /\ TypeOK /\ served[w] \in 0..MaxBlocks /\ begun[w] \in 0..MaxBlocks
        /\ served[w] <= begun[w] /\ MaxBlocks \in Nat
    BY BoundsAssumption DEF IInv, Opened, TypeOK
  <1>1. ASSUME NEW v \in Worker, NEW n \in Index
        PROVE  /\ Same(v, n) \/ (v = w /\ n > served[w] /\ n <= begun[w])
               /\ block'[v][n].guard = block[v][n].guard
               /\ block'[v][n].end = block[v][n].end
               /\ block'[v][n].raised = block[v][n].raised
               /\ Durable(v, n)' <=> Durable(v, n)
    <2>1. block[v][n] \in Block
      BY <1>0, BlockTyped
    <2>2. block \in [Worker -> [Index -> Block]]
      BY <1>0 DEF TypeOK, Index
    <2>3. CASE v = w /\ n \in (served[w] + 1)..begun[w]
      <3>1. block'[v][n] = [block[v][n] EXCEPT !.fate = "aborted"]
        BY <2>2, <2>3 DEF Disconnect, Index
      <3>2. BlockInv(w, n)
        BY <2>3 DEF IInv
      <3>3. block[w][n].fate = "pending"
        BY <1>0, <2>3, <3>2 DEF BlockInv
      <3>4. n > served[w] /\ n <= begun[w]
        BY <1>0, <2>3
      <3>5. QED
        BY <2>1, <2>3, <3>1, <3>3, <3>4 DEF Block, Durable
    <2>4. CASE ~(v = w /\ n \in (served[w] + 1)..begun[w])
      <3>1. Same(v, n)
        BY <2>2, <2>4 DEF Disconnect, Index, Same
      <3>2. QED
        BY <3>1 DEF Same, Durable
    <2>5. QED
      BY <2>3, <2>4
  <1>2. QED
    BY <1>0, <1>1 DEF Disconnect

-----------------------------------------------------------------------------
(* A write that returned normally is durable.                               *)

\* What the server has finished with, on a connection that is not lost, was
\* closed by the client and decided by its guard; a block that was rolled back
\* was refused, or its body raised; the client has read no further than the
\* server has worked, and of the block it is in it has read nothing.
Settled(w, n) ==
    /\ proc[w] # "gone" /\ n <= served[w] =>
          /\ block[w][n].end # "open" /\ block[w][n].guard # "none"
          /\ block[w][n].fate = Fate(block[w][n])
    /\ block[w][n].end = "rollback" => Refused(w, n) \/ block[w][n].raised

ReadInv(w) ==
    /\ pc[w] # "idle" => proc[w] = "up"
    /\ fetched[w] <= served[w]
    /\ pc[w] # "idle" /\ branch[w] # "pipe" => fetched[w] < begun[w]
    /\ pc[w] = "unwinding" => Refused(w, begun[w])
    /\ \A n \in Index : Settled(w, n)
    /\ branch[w] # "pipe" => \A n \in acked[w] : Durable(w, n)

ReturnInv == \A w \in Worker : ReadInv(w)

\* A step of another worker, for all that ReadInv is about.
Apart(v) ==
    /\ branch'[v] = branch[v] /\ proc'[v] = proc[v] /\ pc'[v] = pc[v]
    /\ begun'[v] = begun[v] /\ served'[v] = served[v] /\ fetched'[v] = fetched[v]
    /\ acked'[v] = acked[v] /\ \A n \in Index : Same(v, n)

LEMMA ApartInv ==
    ASSUME TypeOK, Opened, NEW v \in Worker, Apart(v), ReadInv(v)
    PROVE  ReadInv(v)'
  <1>1. pc[v] = "unwinding" => begun[v] \in Index
    BY BoundsAssumption DEF TypeOK, Opened, Index
  <1>2. \A n \in acked[v] : n \in Index
    BY DEF TypeOK, Index
  <1>3. \A n \in Index : Settled(v, n)'
    BY DEF ReadInv, Settled, Refused, Fate, Apart, Same
  <1>4. QED
    BY <1>1, <1>2, <1>3 DEF ReadInv, Refused, Durable, Apart, Same

LEMMA ReturnInit == Init => ReturnInv
  <1> SUFFICES ASSUME Init, NEW w \in Worker PROVE ReadInv(w)
    BY DEF ReturnInv
  <1>1. \A n \in Index : block[w][n] = NewBlock
    BY DEF Init, Index
  <1>2. QED
    BY <1>1 DEF Init, ReadInv, Settled, Refused, NewBlock, Index

LEMMA ClientReturns ==
    ASSUME IInv, ReturnInv, NEW w \in Worker, ClientWrites(w)
    PROVE  ReturnInv'
  <1>0. TypeOK /\ Opened /\ ReadInv(w)
    BY DEF IInv, ReturnInv
  <1>1. ASSUME NEW v \in Worker, v # w PROVE ReadInv(v)'
    <2>1. Apart(v)
      BY <1>0, <1>1 DEF ClientWrites, Apart, TypeOK, static, server
    <2>2. QED
      BY <1>0, <2>1, ApartInv DEF ReturnInv
  <1>2. begun[w] \in Nat /\ served[w] \in Nat /\ served[w] < begun[w]
    <2>1. served[w] <= begun[w] /\ served[w] \in Nat /\ begun[w] \in Index
      BY <1>0, BoundsAssumption DEF Opened, TypeOK, ClientWrites
    <2>2. served[w] # begun[w]
      <3>1. Settled(w, begun[w]) /\ proc[w] = "up" /\ block[w][begun[w]].end = "open"
        BY <1>0, <2>1 DEF ReadInv, ClientWrites, InBlock
      <3>2. QED
        BY <2>1, <3>1 DEF Settled
    <2>3. QED
      BY <2>1, <2>2 DEF Index
  <1>3. ASSUME NEW n \in Index PROVE Settled(w, n)'
    <2>1. CASE n # begun[w]
      BY <1>0, <2>1 DEF ReadInv, ClientWrites, Same, Settled, Refused, Fate, server
    <2>2. CASE n = begun[w]
      BY <1>0, <1>2, <2>2 DEF ReadInv, ClientWrites, Settled, Refused, server
    <2>3. QED
      BY <2>1, <2>2
  <1>4. ASSUME NEW n \in acked[w], branch[w] # "pipe" PROVE Durable(w, n)'
    <2>1. n \in Index /\ Durable(w, n)
      BY <1>0, <1>4 DEF ReadInv, TypeOK, Index
    <2>2. block'[w][n].fate = block[w][n].fate
      BY <2>1 DEF ClientWrites, Same
    <2>3. QED
      BY <2>1, <2>2 DEF Durable
  <1>5. ReadInv(w)'
    BY <1>0, <1>2, <1>3, <1>4 DEF ReadInv, ClientWrites, InBlock, TypeOK, static, server
  <1>6. QED
    BY <1>1, <1>5 DEF ReturnInv

\* Working(w) and no more, for a server's step: the blocks before the one it is
\* at are untouched, and that one is not settled before.
LEMMA ServerReturns ==
    ASSUME IInv, ReturnInv, NEW w \in Worker, ServerWrites(w),
           LET n == served[w] + 1
           IN  \/ /\ UNCHANGED server
                  /\ block[w][n].guard \in {"none", block'[w][n].guard}
               \/ /\ served' = [served EXCEPT ![w] = @ + 1]
                  /\ block[w][n].guard # "none" /\ block[w][n].end # "open"
                  /\ block'[w][n].guard = block[w][n].guard
                  /\ block'[w][n].fate = Fate(block[w][n])
    PROVE  ReturnInv'
  <1> DEFINE k == served[w] + 1
  <1>0. /\ TypeOK /\ Opened /\ ReadInv(w) /\ k \in Index /\ served[w] \in Nat
        /\ served'[w] \in Nat /\ served[w] <= served'[w] /\ served'[w] <= k
        /\ fetched[w] \in Nat
    BY BoundsAssumption DEF IInv, ReturnInv, ServerWrites, TypeOK, server
  <1>1. ASSUME NEW v \in Worker, v # w PROVE ReadInv(v)'
    <2>1. Apart(v)
      BY <1>0, <1>1 DEF ServerWrites, Apart, TypeOK, static, client, server
    <2>2. QED
      BY <1>0, <2>1, ApartInv DEF ReturnInv
  <1>2. ASSUME NEW n \in Index PROVE Settled(w, n)'
    <2>0. Settled(w, n) /\ n \in Nat
      BY <1>0 DEF ReadInv, Index
    <2>1. CASE n # k
      <3>1. n <= served'[w] => n <= served[w]
        BY <1>0, <2>0, <2>1
      <3>2. QED
        BY <2>0, <2>1, <3>1 DEF ServerWrites, Same, Settled, Refused, Fate
    <2>2. CASE n = k
      BY <1>0, <2>0, <2>2 DEF ServerWrites, Settled, Refused, Fate, server
    <2>3. QED
      BY <2>1, <2>2
  <1>3. ASSUME NEW n \in acked[w], branch[w] # "pipe" PROVE Durable(w, n)'
    <2>1. n \in Index /\ Durable(w, n)
      BY <1>0, <1>3 DEF ReadInv, TypeOK, Index
    <2>2. n # k
      BY <2>1 DEF ServerWrites, Durable
    <2>3. QED
      BY <2>1, <2>2 DEF ServerWrites, Same, Durable
  <1>4. pc[w] = "unwinding" => begun[w] \in Index /\ Refused(w, begun[w])'
    <2> SUFFICES ASSUME pc[w] = "unwinding" PROVE begun[w] \in Index /\ Refused(w, begun[w])'
      OBVIOUS
    <2>1. begun[w] \in Index /\ begun'[w] = begun[w] /\ Refused(w, begun[w])
      BY <1>0, BoundsAssumption DEF ReadInv, ServerWrites, client, TypeOK, Opened, Index
    <2>2. QED
      BY <2>1 DEF Refused, ServerWrites, Same
  <1>5. ReadInv(w)'
    BY <1>0, <1>2, <1>3, <1>4 DEF ReadInv, ServerWrites, TypeOK, static, client
  <1>6. QED
    BY <1>1, <1>5 DEF ReturnInv

LEMMA DisconnectReturns ==
    ASSUME IInv, ReturnInv, NEW w \in Worker, Disconnect(w)
    PROVE  ReturnInv'
  <1>0. TypeOK /\ Opened /\ ReadInv(w)
    BY DEF IInv, ReturnInv
  <1>1. /\ served' = [served EXCEPT ![w] = begun[w]] /\ served[w] <= begun[w]
        /\ proc' = [proc EXCEPT ![w] = "gone"] /\ proc[w] = "killed"
        /\ UNCHANGED <<static, table, client>>
    BY DisconnectWrites
  <1>2. \A v \in Worker, n \in Index :
           /\ Same(v, n) \/ v = w
           /\ block'[v][n].guard = block[v][n].guard
           /\ block'[v][n].end = block[v][n].end
           /\ block'[v][n].raised = block[v][n].raised
           /\ Durable(v, n)' <=> Durable(v, n)
    BY DisconnectWrites
  <1>3. ASSUME NEW v \in Worker, v # w PROVE ReadInv(v)'
    <2>1. Apart(v)
      BY <1>0, <1>1, <1>2, <1>3 DEF Apart, TypeOK, static, client
    <2>2. QED
      BY <1>0, <2>1, ApartInv DEF ReturnInv
  <1>4. pc[w] = "idle" /\ proc'[w] = "gone" /\ fetched[w] <= begun[w]
    BY <1>0, <1>1, BoundsAssumption DEF ReadInv, TypeOK
  <1>5. \A n \in Index : Settled(w, n)'
    BY <1>0, <1>2, <1>4 DEF ReadInv, Settled, Refused
  <1>6. ASSUME NEW n \in acked[w], branch[w] # "pipe" PROVE Durable(w, n)'
    BY <1>0, <1>2, <1>6 DEF ReadInv, TypeOK, Index
  <1>7. ReadInv(w)'
    BY <1>0, <1>1, <1>4, <1>5, <1>6 DEF ReadInv, TypeOK, static, client
  <1>8. QED
    BY <1>3, <1>7 DEF ReturnInv

\* A step that leaves the blocks and the server alone.
LEMMA QuietReturns ==
    ASSUME IInv, ReturnInv, NEW w \in Worker,
           UNCHANGED <<branch, server, block, begun>>,
           pc' = [pc EXCEPT ![w] = pc'[w]], proc' = [proc EXCEPT ![w] = proc'[w]],
           proc[w] # "gone", pc'[w] # "idle" => proc'[w] = "up",
           fetched' = [fetched EXCEPT ![w] = fetched'[w]], fetched'[w] <= served[w],
           pc'[w] # "idle" /\ branch[w] # "pipe" => fetched'[w] < begun[w],
           pc'[w] = "unwinding" => Refused(w, begun[w]),
           acked' = [acked EXCEPT ![w] = acked'[w]],
           branch[w] # "pipe" => \A n \in acked'[w] : Durable(w, n)
    PROVE  ReturnInv'
  <1>0. TypeOK /\ Opened /\ ReadInv(w)
    BY DEF IInv, ReturnInv
  <1>1. ASSUME NEW v \in Worker, v # w PROVE ReadInv(v)'
    <2>1. Apart(v)
      BY <1>0, <1>1 DEF Apart, Same, TypeOK, server
    <2>2. QED
      BY <1>0, <2>1, ApartInv DEF ReturnInv
  <1>2. \A n \in Index : Settled(w, n)'
    BY <1>0 DEF ReadInv, Settled, Refused, Fate, server
  <1>3. branch[w] # "pipe" => \A n \in acked'[w] : Durable(w, n)'
    BY DEF Durable
  <1>4. pc'[w] = "unwinding" => Refused(w, begun[w])'
    BY DEF Refused
  <1>5. ReadInv(w)'
    BY <1>0, <1>2, <1>3, <1>4 DEF ReadInv, server
  <1>6. QED
    BY <1>1, <1>5 DEF ReturnInv

\* Finish acknowledges the block it closes only if the block is durable.
LEMMA FinishReturns ==
    ASSUME IInv, ReturnInv, NEW w \in Worker, Finish(w)
    PROVE  ReturnInv'
  <1>0. TypeOK /\ Opened /\ ReadInv(w) /\ pc[w] = "finishing" /\ proc[w] = "up"
    BY DEF IInv, ReturnInv, ReadInv, Finish
  <1>1. PICK k \in ResultsRead(w) :
          /\ fetched' = [fetched EXCEPT ![w] = k]
          /\ acked' = IF Surfaces(w, k) \/ Last(w).raised THEN acked
                      ELSE [acked EXCEPT ![w] = @ \cup {begun[w]}]
    BY DEF Finish
  <1>2. /\ begun[w] \in Index /\ begun[w] \in Nat /\ served[w] \in Nat /\ fetched[w] \in Nat
        /\ pc' = [pc EXCEPT ![w] = "idle"] /\ UNCHANGED <<static, table, proc, server, begun, block>>
    BY <1>0, BoundsAssumption DEF Finish, Opened, TypeOK, Index
  <1>3. fetched'[w] = k /\ k <= served[w]
    BY <1>0, <1>1, <1>2 DEF ResultsRead, TypeOK
  <1>4. ASSUME branch[w] # "pipe", ~Surfaces(w, k), ~Last(w).raised PROVE Durable(w, begun[w])
    <2>1. k = begun[w] /\ served[w] = begun[w] /\ fetched[w] < begun[w]
      BY <1>0, <1>1, <1>4 DEF ResultsRead, ReadInv
    <2>2. ~Refused(w, begun[w])
      BY <1>2, <1>4, <2>1 DEF Surfaces
    <2>3. Settled(w, begun[w]) /\ block[w][begun[w]] \in Block
      BY <1>0, <1>2, BlockTyped DEF ReadInv
    <2>4. block[w][begun[w]].end = "commit" /\ block[w][begun[w]].guard = "passed"
      BY <1>0, <1>2, <1>4, <2>1, <2>2, <2>3 DEF Settled, Refused, Last, Block
    <2>5. QED
      BY <1>0, <1>2, <2>1, <2>3, <2>4 DEF Settled, Fate, Durable
  <1>5. branch[w] # "pipe" => \A n \in acked'[w] : Durable(w, n)
    <2> SUFFICES ASSUME branch[w] # "pipe", NEW n \in acked'[w] PROVE Durable(w, n)
      OBVIOUS
    <2>1. CASE n \in acked[w]
      BY <1>0, <2>1 DEF ReadInv
    <2>2. CASE n \notin acked[w]
      <3>1. n = begun[w] /\ ~Surfaces(w, k) /\ ~Last(w).raised
        BY <1>0, <1>1, <2>2 DEF TypeOK
      <3>2. QED
        BY <1>4, <3>1
    <2>3. QED
      BY <2>1, <2>2
  <1>6. /\ fetched' = [fetched EXCEPT ![w] = fetched'[w]] /\ acked' = [acked EXCEPT ![w] = acked'[w]]
        /\ pc' = [pc EXCEPT ![w] = pc'[w]] /\ proc' = [proc EXCEPT ![w] = proc'[w]]
        /\ pc'[w] = "idle" /\ branch' = branch
    BY <1>0, <1>1, <1>2 DEF TypeOK, static
  <1>7. QED
    BY <1>0, <1>2, <1>3, <1>5, <1>6, QuietReturns

LEMMA ReturnStep ==
    ASSUME IInv, ReturnInv, [Next]_vars
    PROVE  ReturnInv'
  <1>0. TypeOK /\ Opened /\ (\A w \in Worker : ReadInv(w))
    BY DEF IInv, ReturnInv
  <1>1. ASSUME UNCHANGED vars \/ \E w \in Worker : InstallFence(w) \/ Claim(w) PROVE ReturnInv'
    <2>1. \A v \in Worker : Apart(v)
      BY <1>1 DEF InstallFence, Claim, Apart, Same, vars, static, client, server
    <2>2. QED
      BY <1>0, <2>1, ApartInv DEF ReturnInv
  <1>2. ASSUME NEW w \in Worker, Begin(w) PROVE ReturnInv'
    <2>1. ASSUME NEW v \in Worker, v # w PROVE Apart(v)
      BY <1>0, <1>2, <2>1 DEF Begin, Apart, Same, TypeOK, static, table, server
    <2>2. /\ begun'[w] = begun[w] + 1 /\ pc'[w] = "entered" /\ proc[w] = "up"
          /\ UNCHANGED <<static, proc, server, fetched, block, acked>>
      BY <1>0, <1>2 DEF Begin, TypeOK
    <2>3. fetched[w] <= begun[w] /\ begun[w] \in Nat /\ fetched[w] \in Nat
      BY <1>0, BoundsAssumption DEF TypeOK, Opened, ReadInv
    <2>4. ReadInv(w)'
      BY <1>0, <2>2, <2>3 DEF ReadInv, Settled, Refused, Durable, Fate, static, server
    <2>5. QED
      BY <1>0, <2>1, <2>4, ApartInv DEF ReturnInv
  <1>3. ASSUME NEW w \in Worker,
               SendGuard(w) \/ Unwind(w) \/ SendStmt(w) \/ Leave(w) \/ BodyRaises(w)
        PROVE  ReturnInv'
    BY <1>3, SendGuardWrites, UnwindWrites, SendStmtWrites, LeaveWrites, BodyRaisesWrites, ClientReturns
  <1>4. ASSUME NEW w \in Worker, GuardAnswered(w) PROVE ReturnInv'
    <2>1. /\ pc[w] = "guarding" /\ proc[w] = "up" /\ fetched[w] <= served[w]
          /\ branch[w] # "pipe" => fetched[w] < begun[w]
          /\ branch[w] # "pipe" => \A n \in acked[w] : Durable(w, n)
      BY <1>0, <1>4 DEF GuardAnswered, ReadInv
    <2>2. pc'[w] = "unwinding" => Refused(w, begun[w])
      <3>1. begun[w] \in Index
        BY <1>0, <2>1, BoundsAssumption DEF TypeOK, Opened, Index
      <3>2. BlockInv(w, begun[w]) /\ block[w][begun[w]] \in Block
        BY <1>0, <3>1, BlockTyped DEF IInv
      <3>3. QED
        BY <1>0, <1>4, <3>2 DEF GuardAnswered, BlockInv, Block, Last, Refused, TypeOK
    <2>3. /\ pc' = [pc EXCEPT ![w] = pc'[w]] /\ proc' = [proc EXCEPT ![w] = proc'[w]]
          /\ fetched' = [fetched EXCEPT ![w] = fetched'[w]] /\ acked' = [acked EXCEPT ![w] = acked'[w]]
          /\ UNCHANGED <<branch, server, block, begun, proc, fetched, acked>>
      BY <1>0, <1>4 DEF GuardAnswered, TypeOK, static
    <2>4. QED
      BY <2>1, <2>2, <2>3, QuietReturns
  <1>5. ASSUME NEW w \in Worker, Finish(w) PROVE ReturnInv'
    BY <1>5, FinishReturns
  <1>6. ASSUME NEW w \in Worker, Close(w) \/ Kill(w) PROVE ReturnInv'
    <2>1. /\ proc[w] = "up" /\ pc'[w] = "idle" /\ fetched'[w] <= served[w]
          /\ branch[w] # "pipe" => \A n \in acked[w] : Durable(w, n)
      BY <1>0, <1>6 DEF Close, Kill, ReadInv, TypeOK
    <2>2. /\ pc' = [pc EXCEPT ![w] = pc'[w]] /\ proc' = [proc EXCEPT ![w] = proc'[w]]
          /\ fetched' = [fetched EXCEPT ![w] = fetched'[w]] /\ acked' = [acked EXCEPT ![w] = acked'[w]]
          /\ UNCHANGED <<branch, server, block, begun, acked>>
      BY <1>0, <1>6 DEF Close, Kill, TypeOK, static
    <2>3. QED
      BY <2>1, <2>2, QuietReturns
  <1>7. ASSUME NEW w \in Worker, RunGuard(w) PROVE ReturnInv'
    BY <1>7, RunGuardWrites, ServerReturns
  <1>8. ASSUME NEW w \in Worker, RunStmt(w) PROVE ReturnInv'
    BY <1>8, RunStmtWrites, ServerReturns
  <1>9. ASSUME NEW w \in Worker, EndBlock(w) PROVE ReturnInv'
    BY <1>9, EndBlockWrites, ServerReturns
  <1>10. ASSUME NEW w \in Worker, Disconnect(w) PROVE ReturnInv'
    BY <1>10, DisconnectReturns
  <1>11. QED
    BY <1>1, <1>2, <1>3, <1>4, <1>5, <1>6, <1>7, <1>8, <1>9, <1>10
    DEF Next, ClientStep, ServerStep, Done

\* put and put_writes return normally only of durable blocks, on the branches
\* that wait for the server, whatever was killed or refused before.
THEOREM ReturnsAreDurable == Spec => []NormalReturnMeansDurable
  <1>1. Init => ReturnInv
    BY ReturnInit
  <1>2. IInv /\ ReturnInv /\ [Next]_vars => ReturnInv'
    BY ReturnStep
  <1>3. ReturnInv => NormalReturnMeansDurable
    BY DEF ReturnInv, ReadInv, NormalReturnMeansDurable
  <1>4. QED
    BY <1>1, <1>2, <1>3, Invariance, PTL DEF Spec

-----------------------------------------------------------------------------
(* The fence implements GuardedWrites.                                      *)

\* The refinement mapping of Contract, by worker.
Admitted(w) == Working(w) /\ First(w).guard = "passed"
DurableBlocks == {b \in Worker \X (1..MaxBlocks) : Durable(b[1], b[2])}

\* What the contract sees of a worker and of a block is as before the step.
Unseen(v) == /\ Admitted(v)' <=> Admitted(v)
             /\ \A n \in Index : Durable(v, n)' <=> Durable(v, n)

\* Nothing but guards that are run, blocks that end and takeovers is seen.
LEMMA Stutter ==
    ASSUME UNCHANGED table, \A v \in Worker : Unseen(v)
    PROVE  UNCHANGED Contract!vars
  <1>1. DurableBlocks' = DurableBlocks
    BY DEF DurableBlocks, Unseen, Index
  <1>2. [w \in Worker |-> Admitted(w)]' = [w \in Worker |-> Admitted(w)]
    BY DEF Unseen, Admitted
  <1>3. QED
    BY <1>1, <1>2 DEF Contract!vars, DurableBlocks, Admitted, table

\* A worker none of whose blocks changes, and which stays connected.
LEMMA ApartUnseen ==
    ASSUME IInv, NEW v \in Worker,
           \A n \in Index : Same(v, n),
           begun'[v] = begun[v], served'[v] = served[v], proc'[v] = "gone" <=> proc[v] = "gone"
    PROVE  Unseen(v)
  <1>1. Working(v) => served[v] + 1 \in Index
    BY BoundsAssumption DEF IInv, TypeOK, Working, Index
  <1>2. QED
    BY <1>1 DEF Unseen, Admitted, Working, First, Durable, Same

LEMMA ClientUnseen ==
    ASSUME IInv, NEW w \in Worker, ClientWrites(w), NEW v \in Worker
    PROVE  Unseen(v)
  <1>1. /\ \A n \in Index : block'[v][n].guard = block[v][n].guard /\ block'[v][n].fate = block[v][n].fate
        /\ begun'[v] = begun[v] /\ served'[v] = served[v] /\ proc'[v] = proc[v]
    BY DEF ClientWrites, Same, server
  <1>2. Working(v) => served[v] + 1 \in Index
    BY BoundsAssumption DEF IInv, TypeOK, Working, Index
  <1>3. QED
    BY <1>1, <1>2 DEF Unseen, Admitted, Working, First, Durable

LEMMA TakeOverStep ==
    ASSUME IInv, NEW w \in Worker, InstallFence(w) \/ Claim(w)
    PROVE  Contract!Next
  <1>1. held[w] = 0 /\ fence' = fence + 1 /\ held' = [held EXCEPT ![w] = fence']
    BY DEF InstallFence, Claim, MayClaim, Bumped, IInv, Grants, TypeOK
  <1>2. \A v \in Worker : Unseen(v)
    <2> TAKE v \in Worker
    <2>1. /\ \A n \in Index : Same(v, n)
          /\ begun'[v] = begun[v] /\ served'[v] = served[v] /\ proc'[v] = proc[v]
      BY DEF InstallFence, Claim, Same, client, server
    <2>2. QED
      BY <2>1, ApartUnseen
  <1>3. DurableBlocks' = DurableBlocks
    BY <1>2 DEF DurableBlocks, Unseen, Index
  <1>4. [v \in Worker |-> Admitted(v)]' = [v \in Worker |-> Admitted(v)]
    BY <1>2 DEF Unseen, Admitted
  <1>5. Contract!TakeOver(w)
    BY <1>1, <1>3, <1>4 DEF Contract!TakeOver, DurableBlocks, Admitted
  <1>6. QED
    BY <1>5 DEF Contract!Next

\* Of the workers, a server's step shows in the one whose block it is at.
LEMMA ServerUnseen ==
    ASSUME IInv, NEW w \in Worker, ServerWrites(w),
           UNCHANGED served \/ served' = [served EXCEPT ![w] = @ + 1],
           NEW v \in Worker, v # w
    PROVE  Unseen(v)
  <1>1. /\ \A n \in Index : Same(v, n)
        /\ begun'[v] = begun[v] /\ served'[v] = served[v] /\ proc'[v] = proc[v]
    BY DEF ServerWrites, client, IInv, TypeOK
  <1>2. QED
    BY <1>1, ApartUnseen

LEMMA BeginUnseen ==
    ASSUME IInv, NEW w \in Worker, Begin(w), NEW v \in Worker
    PROVE  Unseen(v)
  <1>1. /\ block' = block /\ served' = served /\ proc' = proc
        /\ begun' = [begun EXCEPT ![w] = @ + 1] /\ begun[w] + 1 \in Index
    BY BoundsAssumption DEF Begin, server, IInv, TypeOK, Index
  <1>2. CASE v # w
    <2>1. begun'[v] = begun[v] /\ \A n \in Index : Same(v, n)
      BY <1>1, <1>2 DEF Same, IInv, TypeOK
    <2>2. QED
      BY <1>1, <2>1, ApartUnseen
  <1>3. CASE v = w
    <2>1. /\ served[w] \in Nat /\ begun[w] \in Nat /\ begun'[w] = begun[w] + 1
          /\ served[w] <= begun[w] /\ served[w] + 1 \in Index
      BY <1>1, BoundsAssumption DEF IInv, Opened, TypeOK, Index
    <2>2. Working(w) \/ block[w][served[w] + 1].guard # "passed"
      <3>1. SUFFICES ASSUME ~Working(w), proc[w] # "gone" PROVE block[w][served[w] + 1].guard # "passed"
        BY <2>1, <1>1 DEF Begin
      <3>2. served[w] + 1 > begun[w] /\ BlockInv(w, served[w] + 1)
        BY <2>1, <3>1 DEF Working, IInv
      <3>3. QED
        BY <3>2 DEF BlockInv, NewBlock
    <2>3. QED
      BY <1>1, <1>3, <2>1, <2>2 DEF Unseen, Admitted, Working, First, Durable
  <1>4. QED
    BY <1>2, <1>3

\* A guard that is passed admits the block of the owner, who had none admitted.
LEMMA RunGuardStep ==
    ASSUME IInv, NEW w \in Worker, RunGuard(w)
    PROVE  Contract!Next \/ UNCHANGED Contract!vars
  <1> DEFINE k == served[w] + 1
  <1>1. /\ ServerWrites(w) /\ UNCHANGED <<table, server>>
        /\ block[w][k].guard = "none" /\ block[w][k].fate = "pending" /\ block'[w][k].fate = "pending"
        /\ block'[w][k].guard = IF GuardPasses(w) THEN "passed" ELSE "failed"
        /\ k \in Index /\ held[w] # 0
    BY RunGuardWrites DEF ServerWrites
  <1>2. \A v \in Worker : v # w => Unseen(v)
    BY <1>1, ServerUnseen DEF server
  <1>3. \A n \in Index : Durable(w, n)' <=> Durable(w, n)
    BY <1>1 DEF ServerWrites, Same, Durable
  <1>4. ~Admitted(w) /\ (Admitted(w)' <=> GuardPasses(w))
    BY <1>1 DEF Admitted, Working, First, ServerWrites, client, server, RunGuard
  <1>5. CASE ~GuardPasses(w)
    <2>1. \A v \in Worker : Unseen(v)
      BY <1>2, <1>3, <1>4, <1>5 DEF Unseen
    <2>2. QED
      BY <1>1, <2>1, Stutter
  <1>6. CASE GuardPasses(w)
    <2>1. held[w] = fence /\ fence # 0 /\ fence' = fence /\ held' = held
      BY <1>1, <1>6 DEF GuardPasses, table
    <2>2. DurableBlocks' = DurableBlocks
      BY <1>2, <1>3 DEF DurableBlocks, Unseen, Index
    <2>3. [v \in Worker |-> Admitted(v)]' = [[v \in Worker |-> Admitted(v)] EXCEPT ![w] = TRUE]
      <3>1. \A v \in Worker : Admitted(v)' = IF v = w THEN TRUE ELSE Admitted(v)
        BY <1>2, <1>4, <1>6 DEF Unseen, Admitted
      <3>2. QED
        BY <3>1
    <2>4. Contract!Admit(w)
      BY <1>4, <2>1, <2>2, <2>3 DEF Contract!Admit, DurableBlocks, Admitted
    <2>5. QED
      BY <2>4 DEF Contract!Next
  <1>7. QED
    BY <1>5, <1>6

\* The end of an admitted block lands it or drops it, and nothing else lands.
LEMMA EndBlockStep ==
    ASSUME IInv, NEW w \in Worker, EndBlock(w)
    PROVE  Contract!Next \/ UNCHANGED Contract!vars
  <1>k. served[w] \in Nat /\ served[w] + 1 \in Index
    BY ServerAt DEF EndBlock, IInv, TypeOK
  <1> PICK k \in Index : k = served[w] + 1
    BY <1>k
  <1>1. /\ ServerWrites(w) /\ UNCHANGED table
        /\ served' = [served EXCEPT ![w] = @ + 1]
        /\ block[w][k].fate = "pending" /\ block'[w][k].fate = Fate(block[w][k])
        /\ k \in Index /\ Working(w) /\ served[w] \in Nat
    BY EndBlockWrites, ServerAt DEF ServerWrites, EndBlock
  <1>2. \A v \in Worker : v # w => Unseen(v)
    BY <1>1, ServerUnseen
  <1>3. \A n \in Index : n # k => (Durable(w, n)' <=> Durable(w, n))
    BY <1>1 DEF ServerWrites, Same, Durable
  <1>4. /\ Admitted(w) <=> block[w][k].guard = "passed"
        /\ ~Durable(w, k)
        /\ Durable(w, k)' <=> Fate(block[w][k]) = "committed"
    <2>1. Admitted(w) <=> block[w][k].guard = "passed"
      BY <1>1 DEF Admitted, First
    <2>2. ~Durable(w, k)
      BY <1>1 DEF Durable
    <2>3. Durable(w, k)' <=> Fate(block[w][k]) = "committed"
      BY <1>1 DEF Durable
    <2>4. QED
      BY <2>1, <2>2, <2>3
  <1>5. ~Admitted(w)'
    <2>1. SUFFICES ASSUME Working(w)' PROVE block'[w][k + 1].guard # "passed"
      BY <1>1 DEF Admitted, First, IInv, TypeOK
    <2>2. k + 1 \in Index
      <3>1. served'[w] = k /\ begun'[w] = begun[w] /\ begun[w] \in 0..MaxBlocks /\ k < begun[w]
        BY <1>1, <2>1 DEF Working, ServerWrites, client, IInv, TypeOK
      <3>2. QED
        BY <1>1, <3>1, BoundsAssumption DEF Index
    <2>3. BlockInv(w, k + 1) /\ Same(w, k + 1)
      BY <1>1, <2>2 DEF IInv, ServerWrites
    <2>4. QED
      BY <1>1, <2>2, <2>3 DEF BlockInv, Same
  <1>6. CASE ~Admitted(w)
    <2>1. ~Durable(w, k)'
      BY <1>4, <1>6 DEF Fate
    <2>2. \A v \in Worker : Unseen(v)
      BY <1>2, <1>3, <1>4, <1>5, <1>6, <2>1 DEF Unseen
    <2>3. QED
      BY <1>1, <2>2, Stutter
  <1>7. CASE Admitted(w)
    <2>1. [v \in Worker |-> Admitted(v)]' = [[v \in Worker |-> Admitted(v)] EXCEPT ![w] = FALSE]
      <3>1. \A v \in Worker : Admitted(v)' = IF v = w THEN FALSE ELSE Admitted(v)
        BY <1>2, <1>5 DEF Unseen, Admitted
      <3>2. QED
        BY <3>1
    <2>2. fence' = fence /\ held' = held
      BY <1>1 DEF table
    <2>3. CASE Durable(w, k)'
      <3>1. <<w, k>> \notin DurableBlocks
        BY <1>4 DEF DurableBlocks
      <3>2. DurableBlocks' = DurableBlocks \cup {<<w, k>>}
        <4>1. ASSUME NEW v \in Worker, NEW n \in Index
              PROVE  Durable(v, n)' <=> Durable(v, n) \/ (v = w /\ n = k)
          BY <1>2, <1>3, <2>3 DEF Unseen
        <4>2. QED
          BY <1>1, <4>1 DEF DurableBlocks, Index
      <3>3. Contract!Land(w)
        BY <1>1, <1>7, <2>1, <2>2, <3>1, <3>2 DEF Contract!Land, DurableBlocks, Admitted, Index
      <3>4. QED
        BY <3>3 DEF Contract!Next
    <2>4. CASE ~Durable(w, k)'
      <3>1. DurableBlocks' = DurableBlocks
        BY <1>2, <1>3, <1>4, <2>4 DEF DurableBlocks, Unseen, Index
      <3>2. Contract!Drop(w)
        BY <1>7, <2>1, <2>2, <3>1 DEF Contract!Drop, DurableBlocks, Admitted
      <3>3. QED
        BY <3>2 DEF Contract!Next
    <2>5. QED
      BY <2>3, <2>4
  <1>8. QED
    BY <1>6, <1>7

\* A dead connection drops the block it had admitted, if any.
LEMMA DisconnectIsDrop ==
    ASSUME IInv, NEW w \in Worker, Disconnect(w)
    PROVE  Contract!Next \/ UNCHANGED Contract!vars
  <1>1. /\ proc' = [proc EXCEPT ![w] = "gone"] /\ UNCHANGED <<table, client>>
        /\ served' = [served EXCEPT ![w] = begun[w]] /\ TypeOK
    BY DisconnectWrites DEF IInv
  <1>2. \A v \in Worker, n \in Index : (Same(v, n) \/ v = w) /\ (Durable(v, n)' <=> Durable(v, n))
    BY DisconnectWrites
  <1>3. ASSUME NEW v \in Worker, v # w PROVE Unseen(v)
    <2>1. /\ \A n \in Index : Same(v, n)
          /\ begun'[v] = begun[v] /\ served'[v] = served[v] /\ proc'[v] = proc[v]
      BY <1>1, <1>2, <1>3 DEF client, TypeOK
    <2>2. QED
      BY <2>1, ApartUnseen
  <1>4. ~Admitted(w)'
    BY <1>1 DEF Admitted, Working, TypeOK
  <1>5. CASE ~Admitted(w)
    <2>1. \A v \in Worker : Unseen(v)
      BY <1>2, <1>3, <1>4, <1>5 DEF Unseen
    <2>2. QED
      BY <1>1, <2>1, Stutter
  <1>6. CASE Admitted(w)
    <2>1. [v \in Worker |-> Admitted(v)]' = [[v \in Worker |-> Admitted(v)] EXCEPT ![w] = FALSE]
      <3>1. \A v \in Worker : Admitted(v)' = IF v = w THEN FALSE ELSE Admitted(v)
        BY <1>3, <1>4 DEF Unseen, Admitted
      <3>2. QED
        BY <3>1
    <2>2. DurableBlocks' = DurableBlocks
      BY <1>2 DEF DurableBlocks, Index
    <2>3. fence' = fence /\ held' = held
      BY <1>1 DEF table
    <2>4. Contract!Drop(w)
      BY <1>6, <2>1, <2>2, <2>3 DEF Contract!Drop, DurableBlocks, Admitted
    <2>5. QED
      BY <2>4 DEF Contract!Next
  <1>7. QED
    BY <1>5, <1>6

LEMMA ContractStep ==
    ASSUME IInv, [Next]_vars
    PROVE  Contract!Next \/ UNCHANGED Contract!vars
  <1>1. ASSUME NEW w \in Worker, InstallFence(w) \/ Claim(w)
        PROVE  Contract!Next
    BY <1>1, TakeOverStep
  <1>2. ASSUME NEW w \in Worker, Begin(w)
        PROVE  UNCHANGED Contract!vars
    <2>1. UNCHANGED table
      BY <1>2 DEF Begin
    <2>2. QED
      BY <1>2, <2>1, BeginUnseen, Stutter
  <1>3. ASSUME NEW w \in Worker,
               SendGuard(w) \/ Unwind(w) \/ SendStmt(w) \/ Leave(w) \/ BodyRaises(w)
        PROVE  UNCHANGED Contract!vars
    <2>1. ClientWrites(w)
      BY <1>3, SendGuardWrites, UnwindWrites, SendStmtWrites, LeaveWrites, BodyRaisesWrites
    <2>2. UNCHANGED table
      BY <2>1 DEF ClientWrites
    <2>3. QED
      BY <2>1, <2>2, ClientUnseen, Stutter
  <1>4. ASSUME NEW w \in Worker, GuardAnswered(w) \/ Finish(w) \/ Close(w) \/ Kill(w)
        PROVE  UNCHANGED Contract!vars
    <2>1. /\ UNCHANGED <<table, server, block, begun>>
          /\ \A v \in Worker : proc'[v] = "gone" <=> proc[v] = "gone"
      BY <1>4 DEF GuardAnswered, Finish, Close, Kill, client, IInv, TypeOK
    <2>2. \A v \in Worker : Unseen(v)
      BY <2>1, ApartUnseen DEF Same, server
    <2>3. QED
      BY <2>1, <2>2, Stutter
  <1>5. ASSUME NEW w \in Worker, RunStmt(w)
        PROVE  UNCHANGED Contract!vars
    <2>1. /\ ServerWrites(w) /\ UNCHANGED <<server, table>>
          /\ block'[w][served[w] + 1].guard = block[w][served[w] + 1].guard
          /\ block'[w][served[w] + 1].fate = block[w][served[w] + 1].fate
      BY <1>5, RunStmtWrites DEF ServerWrites
    <2>2. \A v \in Worker : v # w => Unseen(v)
      BY <2>1, ServerUnseen DEF server
    <2>3. Unseen(w)
      BY <2>1 DEF ServerWrites, Unseen, Admitted, Working, First, Durable, Same, client, server
    <2>4. QED
      BY <2>1, <2>2, <2>3, Stutter
  <1>6. ASSUME NEW w \in Worker, RunGuard(w)
        PROVE  Contract!Next \/ UNCHANGED Contract!vars
    BY <1>6, RunGuardStep
  <1>7. ASSUME NEW w \in Worker, EndBlock(w)
        PROVE  Contract!Next \/ UNCHANGED Contract!vars
    BY <1>7, EndBlockStep
  <1>8. ASSUME NEW w \in Worker, Disconnect(w)
        PROVE  Contract!Next \/ UNCHANGED Contract!vars
    BY <1>8, DisconnectIsDrop
  <1>9. ASSUME UNCHANGED vars PROVE UNCHANGED Contract!vars
    <2>1. \A v \in Worker : Unseen(v)
      BY <1>9 DEF vars, Unseen, Admitted, Working, First, Durable
    <2>2. QED
      BY <1>9, <2>1, Stutter DEF vars, table
  <1>10. QED
    BY <1>1, <1>2, <1>3, <1>4, <1>5, <1>6, <1>7, <1>8, <1>9
    DEF Next, ClientStep, ServerStep, Done

LEMMA ContractInit == Init => Contract!Init
  <1> SUFFICES ASSUME Init PROVE Contract!Init
    OBVIOUS
  <1>1. \A w \in Worker : ~Working(w) /\ \A n \in Index : ~Durable(w, n)
    <2> TAKE w \in Worker
    <2>1. ~Working(w)
      BY DEF Init, Working
    <2>2. ASSUME NEW n \in Index PROVE block[w][n] = NewBlock
      BY DEF Init, Index
    <2>3. NewBlock.fate # "committed"
      BY DEF NewBlock
    <2>4. QED
      BY <2>1, <2>2, <2>3 DEF Durable
  <1>2. QED
    BY <1>1 DEF Init, Contract!Init, Index

\* The fence implements the contract: every step of a saver, of the server and
\* of a dying worker is a takeover, an admission, a landing, a drop or nothing,
\* for every number of workers and blocks and on every branch.
THEOREM FenceImplementsContract == Spec => ImplementsGuardedWrites
  <1>1. Init => Contract!Init
    BY ContractInit
  <1>2. IInv /\ [Next]_vars => [Contract!Next]_(Contract!vars)
    BY ContractStep
  <1>3. QED
    BY <1>1, <1>2, Invariance, PTL DEF Spec, Contract!Spec, ImplementsGuardedWrites
=============================================================================
