------------------------ MODULE OwnershipSuite_proof ------------------------
(***************************************************************************)
(* Proofs about OwnershipSuite, for every set of savers of the family and   *)
(* every choice of those whose run may be interrupted.                      *)
(*                                                                         *)
(* Where the runner is fixes who holds which thread (claims never fail) and *)
(* what the owners have stored.  The invariant adds what a stale write may  *)
(* leave behind, what a clause has found out about the saver when it comes  *)
(* to its last operation, and what the clauses that passed say of it.       *)
(***************************************************************************)
EXTENDS OwnershipSuite, TLAPS, SequenceTheorems

-----------------------------------------------------------------------------
(* The clauses, place by place.                                             *)

A1 == Claim("a", "t1")
A2 == Put("a", "c1")
StaleWrite == Stale(Write("a", "c1", "ch", "stale"))
Ops == {A1, A2, Claim("b", "t1"), Claim("b", "t2"), Put("b", "c2"), StaleWrite,
        Stale(Put("a", "c2")), Stale(Put("a", "c3")), Stale(Write("a", "c1", "__resume__", "stale")),
        Write("a", "c1", "ch", "owned"), Write("b", "c1", "ch", "current"), Write("b", "c1", "__resume__", "current"),
        Write("b", "c2", "ch", "recovered"), Write("a", "c1", "ch", "v"),
        TipIs("c1"), TipIs("c2"), IdsAre({"c1"}), IdsAre({"c1", "c2"}), Barrier("a"),
        WritesAre("c1", {"owned"}), WritesAre("c1", {}), WritesAre("c1", {"current"}), WritesAre("c2", {"recovered"})}

\* Short tuples are sequences.
LEMMA Tuples ==
    ASSUME NEW S, NEW u \in S, NEW v \in S, NEW w \in S, NEW x \in S, NEW y \in S
    PROVE  /\ <<u>> \in Seq(S) /\ <<u, v>> \in Seq(S) /\ <<u, v, w>> \in Seq(S)
           /\ <<u, v, w, x>> \in Seq(S) /\ <<u, v, w, x, y>> \in Seq(S)
OBVIOUS

\* What Append adds, and what it leaves.
LEMMA OneMore ==
    ASSUME NEW S, NEW s \in Seq(S), NEW x \in S
    PROVE  /\ Append(s, x) \in Seq(S) /\ Len(Append(s, x)) = Len(s) + 1
           /\ Len(s) >= 2 => Append(s, x)[1] = s[1] /\ Append(s, x)[2] = s[2]
           /\ Len(s) >= 3 => Append(s, x)[3] = s[3]
           /\ Len(s) >= 4 => Append(s, x)[4] = s[4]
           /\ Len(s) = 2 => Append(s, x)[3] = x
           /\ Len(s) = 3 => Append(s, x)[4] = x
           /\ Len(s) = 4 => Append(s, x)[5] = x
<1>1. PICK n \in Nat : n = Len(s)
    BY LenProperties
<1>2. /\ Append(s, x) \in Seq(S) /\ Len(Append(s, x)) = n + 1
      /\ \A i \in 1..n : Append(s, x)[i] = s[i]
      /\ Append(s, x)[n + 1] = x
    BY <1>1, AppendProperties
<1>3. PICK t : t = Append(s, x)
    OBVIOUS
<1>4. \A i \in 1..n : t[i] = s[i]
    BY <1>2, <1>3
<1>5. t[n + 1] = x
    BY <1>2, <1>3
<1>6. /\ n >= 2 => 1 \in 1..n /\ 2 \in 1..n
      /\ n >= 3 => 3 \in 1..n
      /\ n >= 4 => 4 \in 1..n
    OBVIOUS
<1>7. /\ n = 2 => n + 1 = 3
      /\ n = 3 => n + 1 = 4
      /\ n = 4 => n + 1 = 5
    OBVIOUS
<1>8. /\ n >= 2 => t[1] = s[1] /\ t[2] = s[2]
      /\ n >= 3 => t[3] = s[3]
      /\ n >= 4 => t[4] = s[4]
    BY <1>4, <1>6
<1>9. /\ n = 2 => t[3] = x
      /\ n = 3 => t[4] = x
      /\ n = 4 => t[5] = x
    BY <1>5, <1>7
<1> QED
    BY <1>1, <1>2, <1>3, <1>8, <1>9

\* The two beginnings of most clauses.
LEMMA Beginnings ==
    /\ Owned \in Seq(Ops) /\ Len(Owned) = 2 /\ Owned[1] = A1 /\ Owned[2] = A2
    /\ Superseded \in Seq(Ops) /\ Len(Superseded) = 3
    /\ Superseded[1] = A1 /\ Superseded[2] = A2 /\ Superseded[3] = Claim("b", "t1")
<1>1. A1 \in Ops /\ A2 \in Ops /\ Claim("b", "t1") \in Ops
    BY DEF Ops
<1>2. Owned = <<A1, A2>>
    BY DEF Owned, A1, A2
<1>3. <<A1, A2>> \in Seq(Ops) /\ Len(<<A1, A2>>) = 2 /\ <<A1, A2>>[1] = A1 /\ <<A1, A2>>[2] = A2
    BY <1>1
<1>4. Owned \in Seq(Ops) /\ Len(Owned) = 2 /\ Owned[1] = A1 /\ Owned[2] = A2
    BY <1>2, <1>3
<1>5. PICK s \in Seq(Ops) : s = Owned
    BY <1>4
<1>6. PICK u : u = Claim("b", "t1")
    OBVIOUS
<1>7. u \in Ops /\ Len(s) = 2
    BY <1>1, <1>4, <1>5, <1>6
<1>8. PICK p : p = Append(s, u)
    OBVIOUS
<1>9. p \in Seq(Ops) /\ Len(p) = Len(s) + 1 /\ p[1] = s[1] /\ p[2] = s[2] /\ p[3] = u
    BY <1>7, <1>8, OneMore
<1>10. p \in Seq(Ops) /\ Len(p) = 3 /\ p[1] = A1 /\ p[2] = A2 /\ p[3] = u
    BY <1>4, <1>5, <1>7, <1>9
<1> QED
    BY <1>4, <1>5, <1>6, <1>8, <1>10 DEF Superseded

\* u goes on with t behind its m first operations.
Continues(u, m, t) ==
    /\ Len(u) = m + Len(t) /\ u[1] = A1 /\ u[2] = A2 /\ (m = 3 => u[3] = Claim("b", "t1"))
    /\ \A i \in 1..Len(t) : u[m + i] = t[i]

\* A clause of an owner is its beginning and then t.
LEMMA OwnedThen ==
    ASSUME NEW t \in Seq(Ops)
    PROVE  Continues(Owned \o t, 2, t)
<1>1. PICK s \in Seq(Ops) : s = Owned
    BY Beginnings
<1>2. Len(s) = 2 /\ s[1] = A1 /\ s[2] = A2
    BY <1>1, Beginnings
<1>3. PICK n \in Nat : n = Len(t)
    BY LenProperties
<1>4. PICK u : u = s \o t
    OBVIOUS
<1>5. Len(u) = Len(s) + Len(t) /\ u \in Seq(Ops)
    BY <1>4, ConcatProperties
<1>6. \A i \in 1..(Len(s) + Len(t)) : u[i] = IF i <= Len(s) THEN s[i] ELSE t[i - Len(s)]
    BY <1>4, ConcatProperties
<1>7. /\ Len(u) = 2 + n
      /\ \A i \in 1..(2 + n) : u[i] = IF i <= 2 THEN s[i] ELSE t[i - 2]
    BY <1>2, <1>3, <1>5, <1>6
<1>8. u[1] = s[1] /\ u[2] = s[2]
    BY <1>7
<1>9. \A i \in 1..n : u[2 + i] = t[i]
    BY <1>7
<1> QED
    BY <1>1, <1>2, <1>3, <1>4, <1>7, <1>8, <1>9 DEF Continues

\* A clause of a stale owner is its beginning and then t.
LEMMA SupersededThen ==
    ASSUME NEW t \in Seq(Ops)
    PROVE  Continues(Superseded \o t, 3, t)
<1>1. PICK s \in Seq(Ops) : s = Superseded
    BY Beginnings
<1>2. Len(s) = 3 /\ s[1] = A1 /\ s[2] = A2 /\ s[3] = Claim("b", "t1")
    BY <1>1, Beginnings
<1>3. PICK n \in Nat : n = Len(t)
    BY LenProperties
<1>4. PICK u : u = s \o t
    OBVIOUS
<1>5. Len(u) = Len(s) + Len(t) /\ u \in Seq(Ops)
    BY <1>4, ConcatProperties
<1>6. \A i \in 1..(Len(s) + Len(t)) : u[i] = IF i <= Len(s) THEN s[i] ELSE t[i - Len(s)]
    BY <1>4, ConcatProperties
<1>7. /\ Len(u) = 3 + n
      /\ \A i \in 1..(3 + n) : u[i] = IF i <= 3 THEN s[i] ELSE t[i - 3]
    BY <1>2, <1>3, <1>5, <1>6
<1>8. u[1] = s[1] /\ u[2] = s[2] /\ u[3] = s[3]
    BY <1>7
<1>9. \A i \in 1..n : u[3 + i] = t[i]
    BY <1>7
<1> QED
    BY <1>1, <1>2, <1>3, <1>4, <1>7, <1>8, <1>9 DEF Continues

\* The clauses written with Append.
LEMMA SupersededAnd ==
    ASSUME NEW o \in Ops, NEW p \in Ops
    PROVE  LET four == Append(Superseded, o)  five == Append(four, p)
           IN  /\ Len(four) = 4 /\ four[4] = o
               /\ four[1] = A1 /\ four[2] = A2 /\ four[3] = Claim("b", "t1")
               /\ Len(five) = 5 /\ five[4] = o /\ five[5] = p
               /\ five[1] = A1 /\ five[2] = A2 /\ five[3] = Claim("b", "t1")
<1>1. PICK s \in Seq(Ops) : s = Superseded
    BY Beginnings
<1>2. Len(s) = 3 /\ s[1] = A1 /\ s[2] = A2 /\ s[3] = Claim("b", "t1")
    BY <1>1, Beginnings
<1>3. PICK f \in Seq(Ops) : f = Append(s, o)
    BY OneMore
<1>4. Len(f) = 4 /\ f[1] = s[1] /\ f[2] = s[2] /\ f[3] = s[3] /\ f[4] = o
    BY <1>2, <1>3, OneMore
<1>5. /\ Len(Append(f, p)) = 5 /\ Append(f, p)[1] = f[1] /\ Append(f, p)[2] = f[2] /\ Append(f, p)[3] = f[3]
      /\ Append(f, p)[4] = f[4] /\ Append(f, p)[5] = p
    BY <1>4, OneMore
<1> QED
    BY <1>1, <1>2, <1>3, <1>4, <1>5

Starts(k, n) ==
    /\ ALL_WRITE_OWNERSHIP_TESTS[k][1] = A1 /\ ALL_WRITE_OWNERSHIP_TESTS[k][2] = A2
    /\ n = 3 => ALL_WRITE_OWNERSHIP_TESTS[k][3] = Claim("b", "t1")

\* Every clause, operation by operation: the facts the whole proof computes with.
LEMMA Clauses ==
    /\ Len(ALL_WRITE_OWNERSHIP_TESTS) = 15
    /\ Len(ALL_WRITE_OWNERSHIP_TESTS[1]) = 1 /\ ALL_WRITE_OWNERSHIP_TESTS[1][1] = A1
    /\ Len(ALL_WRITE_OWNERSHIP_TESTS[2]) = 3 /\ Starts(2, 2) /\ ALL_WRITE_OWNERSHIP_TESTS[2][3] = TipIs("c1")
    /\ Len(ALL_WRITE_OWNERSHIP_TESTS[3]) = 4 /\ Starts(3, 2)
    /\ ALL_WRITE_OWNERSHIP_TESTS[3][3] = Write("a", "c1", "ch", "owned")
    /\ ALL_WRITE_OWNERSHIP_TESTS[3][4] = WritesAre("c1", {"owned"})
    /\ Len(ALL_WRITE_OWNERSHIP_TESTS[4]) = 4 /\ Starts(4, 3)
    /\ ALL_WRITE_OWNERSHIP_TESTS[4][4] = Stale(Put("a", "c2"))
    /\ Len(ALL_WRITE_OWNERSHIP_TESTS[5]) = 5 /\ Starts(5, 3)
    /\ ALL_WRITE_OWNERSHIP_TESTS[5][4] = Stale(Put("a", "c2"))
    /\ ALL_WRITE_OWNERSHIP_TESTS[5][5] = IdsAre({"c1"})
    /\ Len(ALL_WRITE_OWNERSHIP_TESTS[6]) = 8 /\ Starts(6, 3)
    /\ ALL_WRITE_OWNERSHIP_TESTS[6][4] = Put("b", "c2") /\ ALL_WRITE_OWNERSHIP_TESTS[6][5] = TipIs("c2")
    /\ ALL_WRITE_OWNERSHIP_TESTS[6][6] = Stale(Put("a", "c3"))
    /\ ALL_WRITE_OWNERSHIP_TESTS[6][7] = TipIs("c2")
    /\ ALL_WRITE_OWNERSHIP_TESTS[6][8] = IdsAre({"c1", "c2"})
    /\ Len(ALL_WRITE_OWNERSHIP_TESTS[7]) = 4 /\ Starts(7, 3) /\ ALL_WRITE_OWNERSHIP_TESTS[7][4] = StaleWrite
    /\ Len(ALL_WRITE_OWNERSHIP_TESTS[8]) = 5 /\ Starts(8, 3) /\ ALL_WRITE_OWNERSHIP_TESTS[8][4] = StaleWrite
    /\ ALL_WRITE_OWNERSHIP_TESTS[8][5] = WritesAre("c1", {})
    /\ Len(ALL_WRITE_OWNERSHIP_TESTS[9]) = 6 /\ Starts(9, 3)
    /\ ALL_WRITE_OWNERSHIP_TESTS[9][4] = Write("b", "c1", "ch", "current")
    /\ ALL_WRITE_OWNERSHIP_TESTS[9][5] = StaleWrite
    /\ ALL_WRITE_OWNERSHIP_TESTS[9][6] = WritesAre("c1", {"current"})
    /\ Len(ALL_WRITE_OWNERSHIP_TESTS[10]) = 6 /\ Starts(10, 3)
    /\ ALL_WRITE_OWNERSHIP_TESTS[10][4] = Write("b", "c1", "__resume__", "current")
    /\ ALL_WRITE_OWNERSHIP_TESTS[10][5] = Stale(Write("a", "c1", "__resume__", "stale"))
    /\ ALL_WRITE_OWNERSHIP_TESTS[10][6] = WritesAre("c1", {"current"})
    /\ Len(ALL_WRITE_OWNERSHIP_TESTS[11]) = 6 /\ Starts(11, 3)
    /\ ALL_WRITE_OWNERSHIP_TESTS[11][4] = Stale(Put("a", "c2"))
    /\ ALL_WRITE_OWNERSHIP_TESTS[11][5] = Stale(Put("a", "c3"))
    /\ ALL_WRITE_OWNERSHIP_TESTS[11][6] = IdsAre({"c1"})
    /\ Len(ALL_WRITE_OWNERSHIP_TESTS[12]) = 4 /\ ALL_WRITE_OWNERSHIP_TESTS[12][1] = A1
    /\ ALL_WRITE_OWNERSHIP_TESTS[12][2] = Claim("b", "t2") /\ ALL_WRITE_OWNERSHIP_TESTS[12][3] = A2
    /\ ALL_WRITE_OWNERSHIP_TESTS[12][4] = TipIs("c1")
    /\ Len(ALL_WRITE_OWNERSHIP_TESTS[13]) = 7 /\ Starts(13, 3)
    /\ ALL_WRITE_OWNERSHIP_TESTS[13][4] = Put("b", "c2")
    /\ ALL_WRITE_OWNERSHIP_TESTS[13][5] = Write("b", "c2", "ch", "recovered")
    /\ ALL_WRITE_OWNERSHIP_TESTS[13][6] = TipIs("c2")
    /\ ALL_WRITE_OWNERSHIP_TESTS[13][7] = WritesAre("c2", {"recovered"})
    /\ Len(ALL_WRITE_OWNERSHIP_TESTS[14]) = 5 /\ Starts(14, 2)
    /\ ALL_WRITE_OWNERSHIP_TESTS[14][3] = Write("a", "c1", "ch", "v")
    /\ ALL_WRITE_OWNERSHIP_TESTS[14][4] = Write("a", "c1", "ch", "v")
    /\ ALL_WRITE_OWNERSHIP_TESTS[14][5] = Barrier("a")
    /\ Len(ALL_WRITE_OWNERSHIP_TESTS[15]) = 4 /\ Starts(15, 2)
    /\ ALL_WRITE_OWNERSHIP_TESTS[15][3] = TipIs("c1") /\ ALL_WRITE_OWNERSHIP_TESTS[15][4] = IdsAre({"c1"})
<1>0. /\ Len(ALL_WRITE_OWNERSHIP_TESTS) = 15
      /\ ALL_WRITE_OWNERSHIP_TESTS[1] = claim_returns_a_writer
      /\ ALL_WRITE_OWNERSHIP_TESTS[2] = current_owner_can_put
      /\ ALL_WRITE_OWNERSHIP_TESTS[3] = current_owner_can_put_writes
      /\ ALL_WRITE_OWNERSHIP_TESTS[4] = put_is_rejected
      /\ ALL_WRITE_OWNERSHIP_TESTS[5] = put_is_not_durable
      /\ ALL_WRITE_OWNERSHIP_TESTS[6] = cannot_fork_the_chain
      /\ ALL_WRITE_OWNERSHIP_TESTS[7] = put_writes_is_rejected
      /\ ALL_WRITE_OWNERSHIP_TESTS[8] = put_writes_is_not_durable
      /\ ALL_WRITE_OWNERSHIP_TESTS[9] = cannot_displace_the_current_owners_write
      /\ ALL_WRITE_OWNERSHIP_TESTS[10] = cannot_displace_a_special_channel_write
      /\ ALL_WRITE_OWNERSHIP_TESTS[11] = stays_superseded
      /\ ALL_WRITE_OWNERSHIP_TESTS[12] = ownership_is_per_thread
      /\ ALL_WRITE_OWNERSHIP_TESTS[13] = new_owner_can_write_after_superseding
      /\ ALL_WRITE_OWNERSHIP_TESTS[14] = duplicate_put_writes_is_not_a_rejection
      /\ ALL_WRITE_OWNERSHIP_TESTS[15] = reads_do_not_require_ownership
    BY DEF ALL_WRITE_OWNERSHIP_TESTS
<1>1. /\ Len(ALL_WRITE_OWNERSHIP_TESTS[1]) = 1 /\ ALL_WRITE_OWNERSHIP_TESTS[1][1] = A1
    BY <1>0 DEF claim_returns_a_writer, A1, A2
<1>2. /\ Len(ALL_WRITE_OWNERSHIP_TESTS[2]) = 3 /\ Starts(2, 2) /\ ALL_WRITE_OWNERSHIP_TESTS[2][3] = TipIs("c1")
    <2>1. TipIs("c1") \in Ops
        BY DEF Ops
    <2>2. PICK t \in Seq(Ops) : t = <<TipIs("c1")>>
        BY <2>1, Tuples
    <2>3. Len(t) = 1 /\ t[1] = TipIs("c1")
        BY <2>2
    <2>4. ALL_WRITE_OWNERSHIP_TESTS[2] = Owned \o t
        BY <2>2, <1>0 DEF current_owner_can_put
    <2>5. PICK u : u = ALL_WRITE_OWNERSHIP_TESTS[2]
        OBVIOUS
    <2>6. Continues(u, 2, t)
        BY <2>4, <2>5, OwnedThen
    <2>7. /\ Len(u) = 3 /\ u[1] = A1 /\ u[2] = A2
          /\ u[3] = t[1]
        BY <2>3, <2>6 DEF Continues
    <2> QED BY <2>3, <2>5, <2>7 DEF Starts
<1>3. /\ Len(ALL_WRITE_OWNERSHIP_TESTS[3]) = 4 /\ Starts(3, 2)
      /\ ALL_WRITE_OWNERSHIP_TESTS[3][3] = Write("a", "c1", "ch", "owned")
      /\ ALL_WRITE_OWNERSHIP_TESTS[3][4] = WritesAre("c1", {"owned"})
    <2>1. Write("a", "c1", "ch", "owned") \in Ops /\ WritesAre("c1", {"owned"}) \in Ops
        BY DEF Ops
    <2>2. PICK t \in Seq(Ops) : t = <<Write("a", "c1", "ch", "owned"), WritesAre("c1", {"owned"})>>
        BY <2>1, Tuples
    <2>3. Len(t) = 2 /\ t[1] = Write("a", "c1", "ch", "owned") /\ t[2] = WritesAre("c1", {"owned"})
        BY <2>2
    <2>4. ALL_WRITE_OWNERSHIP_TESTS[3] = Owned \o t
        BY <2>2, <1>0 DEF current_owner_can_put_writes
    <2>5. PICK u : u = ALL_WRITE_OWNERSHIP_TESTS[3]
        OBVIOUS
    <2>6. Continues(u, 2, t)
        BY <2>4, <2>5, OwnedThen
    <2>7. /\ Len(u) = 4 /\ u[1] = A1 /\ u[2] = A2
          /\ u[3] = t[1] /\ u[4] = t[2]
        BY <2>3, <2>6 DEF Continues
    <2> QED BY <2>3, <2>5, <2>7 DEF Starts
<1>4. /\ Len(ALL_WRITE_OWNERSHIP_TESTS[4]) = 4 /\ Starts(4, 3)
      /\ ALL_WRITE_OWNERSHIP_TESTS[4][4] = Stale(Put("a", "c2"))
    <2>1. Stale(Put("a", "c2")) \in Ops
        BY DEF Ops
    <2>2. ALL_WRITE_OWNERSHIP_TESTS[4] = Append(Superseded, Stale(Put("a", "c2")))
        BY <1>0 DEF put_is_rejected
    <2> QED BY <2>1, <2>2, SupersededAnd, Beginnings DEF Starts
<1>5. /\ Len(ALL_WRITE_OWNERSHIP_TESTS[5]) = 5 /\ Starts(5, 3)
      /\ ALL_WRITE_OWNERSHIP_TESTS[5][4] = Stale(Put("a", "c2"))
      /\ ALL_WRITE_OWNERSHIP_TESTS[5][5] = IdsAre({"c1"})
    <2>1. Stale(Put("a", "c2")) \in Ops /\ IdsAre({"c1"}) \in Ops
        BY DEF Ops
    <2>2. ALL_WRITE_OWNERSHIP_TESTS[5] = Append(Append(Superseded, Stale(Put("a", "c2"))), IdsAre({"c1"}))
        BY <1>0 DEF put_is_rejected, put_is_not_durable
    <2> QED BY <2>1, <2>2, SupersededAnd, Beginnings DEF Starts
<1>6. /\ Len(ALL_WRITE_OWNERSHIP_TESTS[6]) = 8 /\ Starts(6, 3)
      /\ ALL_WRITE_OWNERSHIP_TESTS[6][4] = Put("b", "c2") /\ ALL_WRITE_OWNERSHIP_TESTS[6][5] = TipIs("c2")
      /\ ALL_WRITE_OWNERSHIP_TESTS[6][6] = Stale(Put("a", "c3"))
      /\ ALL_WRITE_OWNERSHIP_TESTS[6][7] = TipIs("c2")
      /\ ALL_WRITE_OWNERSHIP_TESTS[6][8] = IdsAre({"c1", "c2"})
    <2>1. Put("b", "c2") \in Ops /\ TipIs("c2") \in Ops /\ Stale(Put("a", "c3")) \in Ops /\ IdsAre({"c1", "c2"}) \in Ops
        BY DEF Ops
    <2>2. PICK t \in Seq(Ops) :
            t = <<Put("b", "c2"), TipIs("c2"), Stale(Put("a", "c3")), TipIs("c2"), IdsAre({"c1", "c2"})>>
        BY <2>1, Tuples
    <2>3. /\ Len(t) = 5 /\ t[1] = Put("b", "c2") /\ t[2] = TipIs("c2") /\ t[3] = Stale(Put("a", "c3"))
           /\ t[4] = TipIs("c2") /\ t[5] = IdsAre({"c1", "c2"})
        BY <2>2
    <2>4. ALL_WRITE_OWNERSHIP_TESTS[6] = Superseded \o t
        BY <2>2, <1>0 DEF cannot_fork_the_chain
    <2>5. PICK u : u = ALL_WRITE_OWNERSHIP_TESTS[6]
        OBVIOUS
    <2>6. Continues(u, 3, t)
        BY <2>4, <2>5, SupersededThen
    <2>7. /\ Len(u) = 8 /\ u[1] = A1 /\ u[2] = A2 /\ u[3] = Claim("b", "t1")
          /\ u[4] = t[1] /\ u[5] = t[2] /\ u[6] = t[3] /\ u[7] = t[4] /\ u[8] = t[5]
        BY <2>3, <2>6 DEF Continues
    <2> QED BY <2>3, <2>5, <2>7 DEF Starts
<1>7. /\ Len(ALL_WRITE_OWNERSHIP_TESTS[7]) = 4 /\ Starts(7, 3) /\ ALL_WRITE_OWNERSHIP_TESTS[7][4] = StaleWrite
    <2>1. StaleWrite \in Ops
        BY DEF Ops
    <2>2. ALL_WRITE_OWNERSHIP_TESTS[7] = Append(Superseded, StaleWrite)
        BY <1>0 DEF put_writes_is_rejected, StaleWrite
    <2> QED BY <2>1, <2>2, SupersededAnd, Beginnings DEF Starts
<1>8. /\ Len(ALL_WRITE_OWNERSHIP_TESTS[8]) = 5 /\ Starts(8, 3) /\ ALL_WRITE_OWNERSHIP_TESTS[8][4] = StaleWrite
      /\ ALL_WRITE_OWNERSHIP_TESTS[8][5] = WritesAre("c1", {})
    <2>1. StaleWrite \in Ops /\ WritesAre("c1", {}) \in Ops
        BY DEF Ops
    <2>2. ALL_WRITE_OWNERSHIP_TESTS[8] = Append(Append(Superseded, StaleWrite), WritesAre("c1", {}))
        BY <1>0 DEF put_writes_is_rejected, put_writes_is_not_durable, StaleWrite
    <2> QED BY <2>1, <2>2, SupersededAnd, Beginnings DEF Starts
<1>9. /\ Len(ALL_WRITE_OWNERSHIP_TESTS[9]) = 6 /\ Starts(9, 3)
      /\ ALL_WRITE_OWNERSHIP_TESTS[9][4] = Write("b", "c1", "ch", "current")
      /\ ALL_WRITE_OWNERSHIP_TESTS[9][5] = StaleWrite
      /\ ALL_WRITE_OWNERSHIP_TESTS[9][6] = WritesAre("c1", {"current"})
    <2>1. Write("b", "c1", "ch", "current") \in Ops /\ StaleWrite \in Ops /\ WritesAre("c1", {"current"}) \in Ops
        BY DEF Ops
    <2>2. PICK t \in Seq(Ops) : t = <<Write("b", "c1", "ch", "current"), StaleWrite, WritesAre("c1", {"current"})>>
        BY <2>1, Tuples
    <2>3. /\ Len(t) = 3 /\ t[1] = Write("b", "c1", "ch", "current") /\ t[2] = StaleWrite
           /\ t[3] = WritesAre("c1", {"current"})
        BY <2>2
    <2>4. ALL_WRITE_OWNERSHIP_TESTS[9] = Superseded \o t
        BY <2>2, <1>0 DEF cannot_displace_the_current_owners_write, StaleWrite
    <2>5. PICK u : u = ALL_WRITE_OWNERSHIP_TESTS[9]
        OBVIOUS
    <2>6. Continues(u, 3, t)
        BY <2>4, <2>5, SupersededThen
    <2>7. /\ Len(u) = 6 /\ u[1] = A1 /\ u[2] = A2 /\ u[3] = Claim("b", "t1")
          /\ u[4] = t[1] /\ u[5] = t[2] /\ u[6] = t[3]
        BY <2>3, <2>6 DEF Continues
    <2> QED BY <2>3, <2>5, <2>7 DEF Starts
<1>10. /\ Len(ALL_WRITE_OWNERSHIP_TESTS[10]) = 6 /\ Starts(10, 3)
       /\ ALL_WRITE_OWNERSHIP_TESTS[10][4] = Write("b", "c1", "__resume__", "current")
       /\ ALL_WRITE_OWNERSHIP_TESTS[10][5] = Stale(Write("a", "c1", "__resume__", "stale"))
       /\ ALL_WRITE_OWNERSHIP_TESTS[10][6] = WritesAre("c1", {"current"})
    <2>1. /\ Write("b", "c1", "__resume__", "current") \in Ops
           /\ Stale(Write("a", "c1", "__resume__", "stale")) \in Ops /\ WritesAre("c1", {"current"}) \in Ops
        BY DEF Ops
    <2>2. PICK t \in Seq(Ops) :
            t = <<Write("b", "c1", "__resume__", "current"), Stale(Write("a", "c1", "__resume__", "stale")),
                  WritesAre("c1", {"current"})>>
        BY <2>1, Tuples
    <2>3. /\ Len(t) = 3 /\ t[1] = Write("b", "c1", "__resume__", "current")
           /\ t[2] = Stale(Write("a", "c1", "__resume__", "stale")) /\ t[3] = WritesAre("c1", {"current"})
        BY <2>2
    <2>4. ALL_WRITE_OWNERSHIP_TESTS[10] = Superseded \o t
        BY <2>2, <1>0 DEF cannot_displace_a_special_channel_write
    <2>5. PICK u : u = ALL_WRITE_OWNERSHIP_TESTS[10]
        OBVIOUS
    <2>6. Continues(u, 3, t)
        BY <2>4, <2>5, SupersededThen
    <2>7. /\ Len(u) = 6 /\ u[1] = A1 /\ u[2] = A2 /\ u[3] = Claim("b", "t1")
          /\ u[4] = t[1] /\ u[5] = t[2] /\ u[6] = t[3]
        BY <2>3, <2>6 DEF Continues
    <2> QED BY <2>3, <2>5, <2>7 DEF Starts
<1>11. /\ Len(ALL_WRITE_OWNERSHIP_TESTS[11]) = 6 /\ Starts(11, 3)
       /\ ALL_WRITE_OWNERSHIP_TESTS[11][4] = Stale(Put("a", "c2"))
       /\ ALL_WRITE_OWNERSHIP_TESTS[11][5] = Stale(Put("a", "c3"))
       /\ ALL_WRITE_OWNERSHIP_TESTS[11][6] = IdsAre({"c1"})
    <2>1. Stale(Put("a", "c2")) \in Ops /\ Stale(Put("a", "c3")) \in Ops /\ IdsAre({"c1"}) \in Ops
        BY DEF Ops
    <2>2. PICK t \in Seq(Ops) : t = <<Stale(Put("a", "c2")), Stale(Put("a", "c3")), IdsAre({"c1"})>>
        BY <2>1, Tuples
    <2>3. Len(t) = 3 /\ t[1] = Stale(Put("a", "c2")) /\ t[2] = Stale(Put("a", "c3")) /\ t[3] = IdsAre({"c1"})
        BY <2>2
    <2>4. ALL_WRITE_OWNERSHIP_TESTS[11] = Superseded \o t
        BY <2>2, <1>0 DEF stays_superseded
    <2>5. PICK u : u = ALL_WRITE_OWNERSHIP_TESTS[11]
        OBVIOUS
    <2>6. Continues(u, 3, t)
        BY <2>4, <2>5, SupersededThen
    <2>7. /\ Len(u) = 6 /\ u[1] = A1 /\ u[2] = A2 /\ u[3] = Claim("b", "t1")
          /\ u[4] = t[1] /\ u[5] = t[2] /\ u[6] = t[3]
        BY <2>3, <2>6 DEF Continues
    <2> QED BY <2>3, <2>5, <2>7 DEF Starts
<1>12. /\ Len(ALL_WRITE_OWNERSHIP_TESTS[12]) = 4 /\ ALL_WRITE_OWNERSHIP_TESTS[12][1] = A1
       /\ ALL_WRITE_OWNERSHIP_TESTS[12][2] = Claim("b", "t2") /\ ALL_WRITE_OWNERSHIP_TESTS[12][3] = A2
       /\ ALL_WRITE_OWNERSHIP_TESTS[12][4] = TipIs("c1")
    BY <1>0 DEF ownership_is_per_thread, A1, A2
<1>13. /\ Len(ALL_WRITE_OWNERSHIP_TESTS[13]) = 7 /\ Starts(13, 3)
       /\ ALL_WRITE_OWNERSHIP_TESTS[13][4] = Put("b", "c2")
       /\ ALL_WRITE_OWNERSHIP_TESTS[13][5] = Write("b", "c2", "ch", "recovered")
       /\ ALL_WRITE_OWNERSHIP_TESTS[13][6] = TipIs("c2")
       /\ ALL_WRITE_OWNERSHIP_TESTS[13][7] = WritesAre("c2", {"recovered"})
    <2>1. /\ Put("b", "c2") \in Ops /\ Write("b", "c2", "ch", "recovered") \in Ops
           /\ TipIs("c2") \in Ops /\ WritesAre("c2", {"recovered"}) \in Ops
        BY DEF Ops
    <2>2. PICK t \in Seq(Ops) :
            t = <<Put("b", "c2"), Write("b", "c2", "ch", "recovered"), TipIs("c2"), WritesAre("c2", {"recovered"})>>
        BY <2>1, Tuples
    <2>3. /\ Len(t) = 4 /\ t[1] = Put("b", "c2") /\ t[2] = Write("b", "c2", "ch", "recovered")
           /\ t[3] = TipIs("c2") /\ t[4] = WritesAre("c2", {"recovered"})
        BY <2>2
    <2>4. ALL_WRITE_OWNERSHIP_TESTS[13] = Superseded \o t
        BY <2>2, <1>0 DEF new_owner_can_write_after_superseding
    <2>5. PICK u : u = ALL_WRITE_OWNERSHIP_TESTS[13]
        OBVIOUS
    <2>6. Continues(u, 3, t)
        BY <2>4, <2>5, SupersededThen
    <2>7. /\ Len(u) = 7 /\ u[1] = A1 /\ u[2] = A2 /\ u[3] = Claim("b", "t1")
          /\ u[4] = t[1] /\ u[5] = t[2] /\ u[6] = t[3] /\ u[7] = t[4]
        BY <2>3, <2>6 DEF Continues
    <2> QED BY <2>3, <2>5, <2>7 DEF Starts
<1>14. /\ Len(ALL_WRITE_OWNERSHIP_TESTS[14]) = 5 /\ Starts(14, 2)
       /\ ALL_WRITE_OWNERSHIP_TESTS[14][3] = Write("a", "c1", "ch", "v")
       /\ ALL_WRITE_OWNERSHIP_TESTS[14][4] = Write("a", "c1", "ch", "v")
       /\ ALL_WRITE_OWNERSHIP_TESTS[14][5] = Barrier("a")
    <2>1. Write("a", "c1", "ch", "v") \in Ops /\ Barrier("a") \in Ops
        BY DEF Ops
    <2>2. PICK t \in Seq(Ops) : t = <<Write("a", "c1", "ch", "v"), Write("a", "c1", "ch", "v"), Barrier("a")>>
        BY <2>1, Tuples
    <2>3. Len(t) = 3 /\ t[1] = Write("a", "c1", "ch", "v") /\ t[2] = Write("a", "c1", "ch", "v") /\ t[3] = Barrier("a")
        BY <2>2
    <2>4. ALL_WRITE_OWNERSHIP_TESTS[14] = Owned \o t
        BY <2>2, <1>0 DEF duplicate_put_writes_is_not_a_rejection
    <2>5. PICK u : u = ALL_WRITE_OWNERSHIP_TESTS[14]
        OBVIOUS
    <2>6. Continues(u, 2, t)
        BY <2>4, <2>5, OwnedThen
    <2>7. /\ Len(u) = 5 /\ u[1] = A1 /\ u[2] = A2
          /\ u[3] = t[1] /\ u[4] = t[2] /\ u[5] = t[3]
        BY <2>3, <2>6 DEF Continues
    <2> QED BY <2>3, <2>5, <2>7 DEF Starts
<1>15. /\ Len(ALL_WRITE_OWNERSHIP_TESTS[15]) = 4 /\ Starts(15, 2)
       /\ ALL_WRITE_OWNERSHIP_TESTS[15][3] = TipIs("c1") /\ ALL_WRITE_OWNERSHIP_TESTS[15][4] = IdsAre({"c1"})
    <2>1. TipIs("c1") \in Ops /\ IdsAre({"c1"}) \in Ops
        BY DEF Ops
    <2>2. PICK t \in Seq(Ops) : t = <<TipIs("c1"), IdsAre({"c1"})>>
        BY <2>1, Tuples
    <2>3. Len(t) = 2 /\ t[1] = TipIs("c1") /\ t[2] = IdsAre({"c1"})
        BY <2>2
    <2>4. ALL_WRITE_OWNERSHIP_TESTS[15] = Owned \o t
        BY <2>2, <1>0 DEF reads_do_not_require_ownership
    <2>5. PICK u : u = ALL_WRITE_OWNERSHIP_TESTS[15]
        OBVIOUS
    <2>6. Continues(u, 2, t)
        BY <2>4, <2>5, OwnedThen
    <2>7. /\ Len(u) = 4 /\ u[1] = A1 /\ u[2] = A2
          /\ u[3] = t[1] /\ u[4] = t[2]
        BY <2>3, <2>6 DEF Continues
    <2> QED BY <2>3, <2>5, <2>7 DEF Starts
<1> QED
    BY <1>0, <1>1, <1>2, <1>3, <1>4, <1>5, <1>6, <1>7, <1>8, <1>9, <1>10, <1>11, <1>12, <1>13, <1>14, <1>15
-----------------------------------------------------------------------------
(* The inductive invariant.                                                 *)

\* Where b claims the thread a holds, and where a stale write is tried first.
Contended == (4..11) \union {13}
StaleAt(k) == IF k \in {4, 5, 7, 8, 11} THEN 4 ELSE IF k \in {9, 10} THEN 5 ELSE IF k = 6 THEN 6 ELSE 9

\* A claim is never refused: who holds what is a matter of the place alone.
HandleA == IF pos = 1 THEN NoHandle ELSE [t |-> "t1", token |-> 1]
HandleB == IF cl = 12 /\ pos >= 3 THEN [t |-> "t2", token |-> 1]
           ELSE IF cl \in Contended /\ pos >= 4 THEN [t |-> "t1", token |-> 2] ELSE NoHandle
ClaimsInv ==
    /\ cl \in 1..16 /\ pos \in 1..8
    /\ IF cl = 16 THEN pos = 1 ELSE pos <= Len(ALL_WRITE_OWNERSHIP_TESTS[cl])
    /\ handle = [h \in {"a", "b"} |-> IF h = "a" THEN HandleA ELSE HandleB]
    /\ token = [t \in {"t1", "t2"} |->
                  IF t = "t1" THEN IF pos = 1 THEN 0 ELSE IF cl \in Contended /\ pos >= 4 THEN 2 ELSE 1
                  ELSE IF cl = 12 /\ pos >= 3 THEN 1 ELSE 0]

\* What may be stored, and what is: an owner's put that was accepted.
StoreInv ==
    /\ ids \in Seq({"c1", "c2", "c3"}) /\ IsInjective(ids)
    /\ spent \subseteq {"a", "b"}
    /\ "a" \in spent \/ "c1" \in Range(ids) => pos > 2 /\ (cl = 12 => pos > 3)
    /\ "c2" \in Range(ids) => pos > 4
    /\ "c3" \in Range(ids) => (cl = 6 /\ pos > 6) \/ (cl = 11 /\ pos > 5)
    /\ cl # 12 /\ pos > 2 => "c1" \in Range(ids)
    /\ cl = 13 /\ pos > 4 => "c2" \in Range(ids)
    /\ \A r \in rows : r[1] \in Range(ids)

\* What the owners of a clause store.
OwnIds ==
    IF cl \in {6, 13} /\ pos >= 5 THEN <<"c1", "c2">>
    ELSE IF pos >= 4 \/ (pos = 3 /\ cl # 12) THEN <<"c1">> ELSE <<>>
OwnRows ==
    IF cl = 3 /\ pos >= 4 THEN {<<"c1", "ch", "owned">>}
    ELSE IF cl = 9 /\ pos >= 5 THEN {<<"c1", "ch", "current">>}
    ELSE IF cl = 10 /\ pos >= 5 THEN {<<"c1", "__resume__", "current">>}
    ELSE IF cl = 13 /\ pos >= 6 THEN {<<"c2", "ch", "recovered">>}
    ELSE IF cl = 14 /\ pos >= 4 THEN {<<"c1", "ch", "v">>} ELSE {}

\* Savers that let an owner write, and so refuse nothing until a stale write is tried.
Regular == saver.supersedes \in {"next", "never", "toggle"}
OwnersWrite == Regular /\ pos <= StaleAt(cl) => spent = {} /\ ids = OwnIds /\ rows = OwnRows

\* A stale write leaves nothing behind, or leaves what it would, or is not told.
StaleWrites ==
    /\ SupportsWriteOwnership(saver) => ids = OwnIds /\ rows = OwnRows
    /\ saver = FenceRemoved /\ pos > StaleAt(cl) =>
         /\ ~(cl = 6 /\ pos = 8)
         /\ ids = IF cl = 6 \/ (cl = 11 /\ pos = 6) THEN <<"c1", "c2", "c3">>
                  ELSE IF cl \in {5, 11} THEN <<"c1", "c2">> ELSE <<"c1">>
         /\ rows = IF cl = 8 THEN {<<"c1", "ch", "stale">>}
                   ELSE IF cl = 9 THEN {<<"c1", "ch", "current">>}
                   ELSE IF cl = 10 THEN {<<"c1", "__resume__", "stale">>} ELSE {}
    /\ Silent(saver) => pos <= StaleAt(cl)

\* What a clause has found out about the saver when it comes to its last operation.
Found ==
    /\ cl = 5 /\ pos = 5 => \/ "c2" \in Range(ids)
                            \/ saver.enforce.put = "drop" /\ saver.supersedes \in {"next", "saver", "always", "toggle"}
    /\ cl = 8 /\ pos = 5 => (\E r \in rows : r[1] = "c1") \/ saver.enforce.writes = "drop"
    /\ cl = 11 /\ saver.supersedes \in {"next", "toggle"} /\ saver.enforce.put = "drop" =>
         /\ pos >= 5 => "a" \in spent
         /\ pos = 6 => ~saver.once \/ "c3" \in Range(ids)
    /\ cl = 12 /\ pos = 4 /\ saver.enforce.put = "drop" => saver.supersedes \notin {"saver", "always"}

\* What the clauses that passed say of the saver, and which of them fail.
Judged(k) == cl > k /\ k \notin failures
Verdicts ==
    /\ failures \subseteq 1..(cl - 1)
    /\ Judged(4) /\ saver.supersedes \in {"next", "toggle"} /\ saver.enforce.put = "drop" =>
         saver.tells = "raise" \/ (saver.tells = "quiet" /\ saver.barrier \in {"current", "always"})
    /\ Judged(5) => saver.enforce.put = "drop" /\ saver.supersedes \in {"next", "saver", "always", "toggle"}
    /\ Judged(8) => saver.enforce.writes = "drop"
    /\ Judged(11) /\ saver.supersedes \in {"next", "toggle"} /\ saver.enforce.put = "drop" => ~saver.once
    /\ Judged(12) /\ saver.enforce.put = "drop" => saver.supersedes \notin {"saver", "always"}
    /\ Judged(14) => saver.barrier # "always"
    /\ ~interrupted => /\ SupportsWriteOwnership(saver) => failures = {}
                       /\ Silent(saver) => failures = (1..(cl - 1)) \intersect EXPECTED_HOSTILE_FAILURES
                       /\ saver = FenceRemoved => failures = (1..(cl - 1)) \intersect DURABILITY_CLAUSES

\* An interrupt leaves the runner in the middle of a clause, or fails one.
Interrupts == interrupted => (aborted /\ cl <= 15) \/ failures # {}

IInv ==
    /\ saver \in Savers /\ aborted \in BOOLEAN /\ interrupted \in BOOLEAN
    /\ ClaimsInv /\ StoreInv /\ OwnersWrite /\ StaleWrites /\ Found /\ Verdicts /\ Interrupts

-----------------------------------------------------------------------------
(* Which operation is where.                                                *)

Length == <<1, 3, 4, 4, 5, 8, 4, 5, 6, 6, 6, 4, 7, 5, 4>>

OwnerWrites(k, i, o) ==
    \/ o = A2 /\ IF k = 12 THEN i = 3 ELSE i = 2
    \/ o = Put("b", "c2") /\ k \in {6, 13} /\ i = 4
    \/ o = Write("a", "c1", "ch", "owned") /\ k = 3 /\ i = 3
    \/ o = Write("b", "c1", "ch", "current") /\ k = 9 /\ i = 4
    \/ o = Write("b", "c1", "__resume__", "current") /\ k = 10 /\ i = 4
    \/ o = Write("b", "c2", "ch", "recovered") /\ k = 13 /\ i = 5
    \/ o = Write("a", "c1", "ch", "v") /\ k = 14 /\ i \in {3, 4}

Claims(k, i, o) ==
    \/ o = A1 /\ i = 1
    \/ o = Claim("b", "t1") /\ k \in Contended /\ i = 3
    \/ o = Claim("b", "t2") /\ k = 12 /\ i = 2

StalePuts(k, i, o) ==
    \/ o = Stale(Put("a", "c2")) /\ k \in {4, 5, 11} /\ i = 4
    \/ o = Stale(Put("a", "c3")) /\ ((k = 6 /\ i = 6) \/ (k = 11 /\ i = 5))

StalePutWrites(k, i, o) ==
    \/ o = StaleWrite /\ ((k \in {7, 8} /\ i = 4) \/ (k = 9 /\ i = 5))
    \/ o = Stale(Write("a", "c1", "__resume__", "stale")) /\ k = 10 /\ i = 5

Reads(k, i, o) ==
    \/ o = TipIs("c1") /\ ((k \in {2, 15} /\ i = 3) \/ (k = 12 /\ i = 4))
    \/ o = TipIs("c2") /\ ((k = 6 /\ i \in {5, 7}) \/ (k = 13 /\ i = 6))
    \/ o = IdsAre({"c1"}) /\ ((k = 5 /\ i = 5) \/ (k = 11 /\ i = 6) \/ (k = 15 /\ i = 4))
    \/ o = IdsAre({"c1", "c2"}) /\ k = 6 /\ i = 8
    \/ o = WritesAre("c1", {"owned"}) /\ k = 3 /\ i = 4
    \/ o = WritesAre("c1", {}) /\ k = 8 /\ i = 5
    \/ o = WritesAre("c1", {"current"}) /\ k \in {9, 10} /\ i = 6
    \/ o = WritesAre("c2", {"recovered"}) /\ k = 13 /\ i = 7

\* What the operation at a place can be.
LEMMA Places ==
    ASSUME NEW k \in 1..15, NEW i \in 1..8, i <= Len(ALL_WRITE_OWNERSHIP_TESTS[k]),
           NEW o, o = ALL_WRITE_OWNERSHIP_TESTS[k][i]
    PROVE  /\ Len(ALL_WRITE_OWNERSHIP_TESTS[k]) = Length[k]
           /\ \/ Claims(k, i, o) \/ OwnerWrites(k, i, o) \/ StalePuts(k, i, o) \/ StalePutWrites(k, i, o)
              \/ Reads(k, i, o) \/ (o = Barrier("a") /\ k = 14 /\ i = 5)
<1>0. /\ Length[1] = 1 /\ Length[2] = 3 /\ Length[3] = 4 /\ Length[4] = 4 /\ Length[5] = 5 /\ Length[6] = 8 /\ Length[7] = 4
      /\ Length[8] = 5 /\ Length[9] = 6 /\ Length[10] = 6 /\ Length[11] = 6 /\ Length[12] = 4
       /\ Length[13] = 7 /\ Length[14] = 5 /\ Length[15] = 4
    BY DEF Length
<1>1. CASE k = 1
    <2>1. i \in 1..1 /\ Len(ALL_WRITE_OWNERSHIP_TESTS[1]) = 1
        BY <1>1, Clauses
    <2> QED BY <1>0, <1>1, <2>1, Clauses DEF Starts, Contended, Claims, OwnerWrites, StalePuts, StalePutWrites, Reads
<1>2. CASE k = 2
    <2>1. i \in 1..3 /\ Len(ALL_WRITE_OWNERSHIP_TESTS[2]) = 3
        BY <1>2, Clauses
    <2> QED BY <1>0, <1>2, <2>1, Clauses DEF Starts, Contended, Claims, OwnerWrites, StalePuts, StalePutWrites, Reads
<1>3. CASE k = 3
    <2>1. i \in 1..4 /\ Len(ALL_WRITE_OWNERSHIP_TESTS[3]) = 4
        BY <1>3, Clauses
    <2> QED BY <1>0, <1>3, <2>1, Clauses DEF Starts, Contended, Claims, OwnerWrites, StalePuts, StalePutWrites, Reads
<1>4. CASE k = 4
    <2>1. i \in 1..4 /\ Len(ALL_WRITE_OWNERSHIP_TESTS[4]) = 4
        BY <1>4, Clauses
    <2> QED BY <1>0, <1>4, <2>1, Clauses DEF Starts, Contended, Claims, OwnerWrites, StalePuts, StalePutWrites, Reads
<1>5. CASE k = 5
    <2>1. i \in 1..5 /\ Len(ALL_WRITE_OWNERSHIP_TESTS[5]) = 5
        BY <1>5, Clauses
    <2> QED BY <1>0, <1>5, <2>1, Clauses DEF Starts, Contended, Claims, OwnerWrites, StalePuts, StalePutWrites, Reads
<1>6. CASE k = 6
    <2>1. i \in 1..8 /\ Len(ALL_WRITE_OWNERSHIP_TESTS[6]) = 8
        BY <1>6, Clauses
    <2> QED BY <1>0, <1>6, <2>1, Clauses DEF Starts, Contended, Claims, OwnerWrites, StalePuts, StalePutWrites, Reads
<1>7. CASE k = 7
    <2>1. i \in 1..4 /\ Len(ALL_WRITE_OWNERSHIP_TESTS[7]) = 4
        BY <1>7, Clauses
    <2> QED BY <1>0, <1>7, <2>1, Clauses DEF Starts, Contended, Claims, OwnerWrites, StalePuts, StalePutWrites, Reads
<1>8. CASE k = 8
    <2>1. i \in 1..5 /\ Len(ALL_WRITE_OWNERSHIP_TESTS[8]) = 5
        BY <1>8, Clauses
    <2> QED BY <1>0, <1>8, <2>1, Clauses DEF Starts, Contended, Claims, OwnerWrites, StalePuts, StalePutWrites, Reads
<1>9. CASE k = 9
    <2>1. i \in 1..6 /\ Len(ALL_WRITE_OWNERSHIP_TESTS[9]) = 6
        BY <1>9, Clauses
    <2> QED BY <1>0, <1>9, <2>1, Clauses DEF Starts, Contended, Claims, OwnerWrites, StalePuts, StalePutWrites, Reads
<1>10. CASE k = 10
    <2>1. i \in 1..6 /\ Len(ALL_WRITE_OWNERSHIP_TESTS[10]) = 6
        BY <1>10, Clauses
    <2> QED BY <1>0, <1>10, <2>1, Clauses DEF Starts, Contended, Claims, OwnerWrites, StalePuts, StalePutWrites, Reads
<1>11. CASE k = 11
    <2>1. i \in 1..6 /\ Len(ALL_WRITE_OWNERSHIP_TESTS[11]) = 6
        BY <1>11, Clauses
    <2> QED BY <1>0, <1>11, <2>1, Clauses DEF Starts, Contended, Claims, OwnerWrites, StalePuts, StalePutWrites, Reads
<1>12. CASE k = 12
    <2>1. i \in 1..4 /\ Len(ALL_WRITE_OWNERSHIP_TESTS[12]) = 4
        BY <1>12, Clauses
    <2> QED BY <1>0, <1>12, <2>1, Clauses DEF Starts, Contended, Claims, OwnerWrites, StalePuts, StalePutWrites, Reads
<1>13. CASE k = 13
    <2>1. i \in 1..7 /\ Len(ALL_WRITE_OWNERSHIP_TESTS[13]) = 7
        BY <1>13, Clauses
    <2> QED BY <1>0, <1>13, <2>1, Clauses DEF Starts, Contended, Claims, OwnerWrites, StalePuts, StalePutWrites, Reads
<1>14. CASE k = 14
    <2>1. i \in 1..5 /\ Len(ALL_WRITE_OWNERSHIP_TESTS[14]) = 5
        BY <1>14, Clauses
    <2> QED BY <1>0, <1>14, <2>1, Clauses DEF Starts, Contended, Claims, OwnerWrites, StalePuts, StalePutWrites, Reads
<1>15. CASE k = 15
    <2>1. i \in 1..4 /\ Len(ALL_WRITE_OWNERSHIP_TESTS[15]) = 4
        BY <1>15, Clauses
    <2> QED BY <1>0, <1>15, <2>1, Clauses DEF Starts, Contended, Claims, OwnerWrites, StalePuts, StalePutWrites, Reads
<1> QED
    BY <1>1, <1>2, <1>3, <1>4, <1>5, <1>6, <1>7, <1>8, <1>9, <1>10, <1>11, <1>12, <1>13, <1>14, <1>15

-----------------------------------------------------------------------------
(* Savers, and who is stale.                                                *)

LEMMA SaverFields ==
    ASSUME NEW s \in Family
    PROVE  /\ s.supersedes \in {"next", "never", "saver", "first", "always", "toggle"}
           /\ s.enforce.put \in Enforcement /\ s.enforce.writes \in Enforcement
           /\ s.enforce["put"] = s.enforce.put /\ s.enforce["writes"] = s.enforce.writes
           /\ s.tells \in {"raise", "quiet", "unmarked"}
           /\ s.barrier \in {"none", "fine", "current", "unmarked", "always"}
           /\ s.once \in BOOLEAN
           /\ s.enforce = [put |-> s.enforce.put, writes |-> s.enforce.writes]
           /\ s = Saver(s.supersedes, s.enforce.put, s.enforce.writes, s.tells, s.barrier, s.once)
<1>1. PICK x \in {"next", "never", "saver", "first", "always", "toggle"}, p \in Enforcement, w \in Enforcement,
           t \in {"raise", "quiet", "unmarked"}, b \in {"none", "fine", "current", "unmarked", "always"},
           o \in BOOLEAN : s = Saver(x, p, w, t, b, o)
    BY DEF Family
<1>2. /\ s.supersedes = x /\ s.tells = t /\ s.barrier = b /\ s.once = o
      /\ s.enforce = [put |-> p, writes |-> w]
    BY <1>1 DEF Saver
<1>3. s.enforce.put = p /\ s.enforce.writes = w
    BY <1>2
<1> QED
    BY <1>1, <1>2, <1>3

\* The kinds of saver the verdicts name.
LEMMA Kinds ==
    ASSUME NEW s \in Family
    PROVE  /\ SupportsWriteOwnership(s) => /\ s.supersedes = "next" /\ s.enforce.put = "drop" /\ s.enforce.writes = "drop"
                                           /\ s.once = FALSE /\ s.tells \in {"raise", "quiet"} /\ s.barrier # "always"
                                           /\ (s.tells = "quiet" => s.barrier = "current")
           /\ s = FenceRemoved => /\ s.supersedes = "next" /\ s.enforce.put = "skip" /\ s.enforce.writes = "skip"
                                  /\ s.tells = "quiet" /\ s.barrier = "current" /\ s.once = FALSE
           /\ Silent(s) => /\ s.supersedes \in {"next", "never"} /\ s.tells = "quiet"
                           /\ s.barrier \in {"none", "fine"}
<1>1. ASSUME SupportsWriteOwnership(s)
      PROVE  /\ s.supersedes = "next" /\ s.enforce.put = "drop" /\ s.enforce.writes = "drop"
             /\ s.once = FALSE /\ s.tells \in {"raise", "quiet"} /\ s.barrier # "always"
             /\ (s.tells = "quiet" => s.barrier = "current")
    <2>1. s.enforce = [put |-> "drop", writes |-> "drop"]
        BY <1>1 DEF SupportsWriteOwnership
    <2>2. s.enforce.put = "drop" /\ s.enforce.writes = "drop"
        BY <2>1
    <2>3. s.once = FALSE
        BY <1>1, SaverFields DEF SupportsWriteOwnership
    <2> QED BY <1>1, <2>2, <2>3 DEF SupportsWriteOwnership
<1>2. ASSUME s = FenceRemoved
      PROVE  /\ s.supersedes = "next" /\ s.enforce.put = "skip" /\ s.enforce.writes = "skip"
             /\ s.tells = "quiet" /\ s.barrier = "current" /\ s.once = FALSE
    BY <1>2 DEF FenceRemoved, Saver
<1> QED
    BY <1>1, <1>2 DEF Silent

\* A member of the family has the fields of one.
LEMMA SaverInFamily ==
    ASSUME IInv
    PROVE  saver \in Family
BY SaversAssumption DEF IInv

\* Where a and b stand.
LEMMA Hands ==
    ASSUME ClaimsInv
    PROVE  /\ pos # 1 => handle["a"].t = "t1" /\ handle["a"].token = 1
           /\ cl \in Contended /\ pos >= 4 =>
                /\ handle["b"].t = "t1" /\ handle["b"].token = 2 /\ handle["b"] # NoHandle
                /\ token["t1"] = 2
           /\ pos # 1 /\ ~(cl \in Contended /\ pos >= 4) => token["t1"] = 1
           /\ cl = 12 /\ pos >= 3 => handle["b"] # NoHandle
<1>1. handle["a"] = HandleA /\ handle["b"] = HandleB /\ pos \in 1..8
    BY DEF ClaimsInv
<1>2. token["t1"] = IF pos = 1 THEN 0 ELSE IF cl \in Contended /\ pos >= 4 THEN 2 ELSE 1
    BY DEF ClaimsInv
<1>3. pos # 1 => handle["a"].t = "t1" /\ handle["a"].token = 1
    BY <1>1 DEF HandleA
<1>4. cl \in Contended /\ pos >= 4 => handle["b"].t = "t1" /\ handle["b"].token = 2
    BY <1>1 DEF HandleB, Contended
<1>5. cl = 12 /\ pos >= 3 => handle["b"].t = "t2"
    BY <1>1 DEF HandleB
<1>6. NoHandle.t = "none"
    BY DEF NoHandle
<1>7. cl \in Contended /\ pos >= 4 => pos # 1
    BY <1>1
<1> QED
    BY <1>2, <1>3, <1>4, <1>5, <1>6, <1>7

\* b owns the thread it claimed, a until b claims it.
Owns(h) == \/ h = "a" /\ pos # 1 /\ ~(cl \in Contended /\ pos >= 4)
           \/ h = "b" /\ cl \in Contended /\ pos >= 4

\* A regular saver takes no owner for superseded.
LEMMA OwnerIsNotStale ==
    ASSUME ClaimsInv, Regular, NEW h \in {"a", "b"}, Owns(h)
    PROVE  ~IsStale(h)
<1>1. PICK n, m : n = handle[h].token /\ m = token[handle[h].t]
    OBVIOUS
<1>2. n = m /\ n \in Nat
    BY <1>1, Hands DEF Owns
<1> QED
    BY <1>1, <1>2 DEF IsStale, Regular

\* Which savers take a for superseded once b has claimed.
LEMMA StaleOwner ==
    ASSUME ClaimsInv, cl \in Contended, pos >= 4, saver \in Family
    PROVE  IsStale("a") <=> saver.supersedes \in {"next", "saver", "always", "toggle"}
<1>1. handle["a"].token = 1 /\ token[handle["a"].t] = 2 /\ handle["b"] # NoHandle
    BY Hands DEF ClaimsInv
<1>2. 1 % 2 = 1 /\ 2 % 2 = 0
    OBVIOUS
<1>3. CASE saver.supersedes = "next"
    BY <1>1, <1>3 DEF IsStale
<1>4. CASE saver.supersedes = "never"
    BY <1>4 DEF IsStale
<1>5. CASE saver.supersedes = "saver"
    BY <1>1, <1>5 DEF IsStale
<1>6. CASE saver.supersedes = "first"
    BY <1>1, <1>6 DEF IsStale
<1>7. CASE saver.supersedes = "always"
    BY <1>7 DEF IsStale
<1>8. CASE saver.supersedes = "toggle"
    BY <1>1, <1>2, <1>8 DEF IsStale
<1> QED
    BY <1>3, <1>4, <1>5, <1>6, <1>7, <1>8, SaverFields

-----------------------------------------------------------------------------
(* What an operation demands and does.                                      *)

LEMMA Demands ==
    /\ \A h, t : Accepts(Claim(h, t))
    /\ \A h, c : Accepts(Put(h, c)) <=>
         WriteEnds(Put(h, c)) = "returns" /\ ~(Checked(Put(h, c)) /\ saver.enforce.put = "drop")
    /\ \A h, c, ch, v : Accepts(Write(h, c, ch, v)) <=> WriteEnds(Write(h, c, ch, v)) = "returns"
    /\ \A o : Accepts(Stale(o)) <=> observe_rejection(o)
    /\ \A c : Accepts(TipIs(c)) <=> ids # <<>> /\ Last(ids) = c
    /\ \A cs : Accepts(IdsAre(cs)) <=> Range(ids) = cs
    /\ \A c, vs : Accepts(WritesAre(c, vs)) <=> {r[3] : r \in {s \in rows : s[1] = c}} = vs
    /\ \A h : Accepts(Barrier(h)) <=> BarrierEnds(h) = "returns"
<1>1. \A h, t : Accepts(Claim(h, t))
    BY DEF Accepts, Claim
<1>2. \A h, c : Accepts(Put(h, c)) <=>
         WriteEnds(Put(h, c)) = "returns" /\ ~(Checked(Put(h, c)) /\ saver.enforce.put = "drop")
    <2>1. \A h, c : Put(h, c).op = "put"
        BY DEF Put
    <2> QED BY <2>1 DEF Accepts
<1>3. \A h, c, ch, v : Accepts(Write(h, c, ch, v)) <=> WriteEnds(Write(h, c, ch, v)) = "returns"
    <2> TAKE h, c, ch, v
    <2>2. PICK o : o = Write(h, c, ch, v)
        OBVIOUS
    <2>3. o.op = "writes"
        BY <2>2 DEF Write
    <2> QED BY <2>2, <2>3 DEF Accepts
<1>4. \A o : Accepts(Stale(o)) <=> observe_rejection(o)
    <2>1. \A o : Stale(o).op = "stale" /\ Stale(o).of = o
        BY DEF Stale
    <2> QED BY <2>1 DEF Accepts
<1>5. \A c : Accepts(TipIs(c)) <=> ids # <<>> /\ Last(ids) = c
    <2>1. \A c : TipIs(c).op = "tip" /\ TipIs(c).c = c
        BY DEF TipIs
    <2> QED BY <2>1 DEF Accepts
<1>6. \A cs : Accepts(IdsAre(cs)) <=> Range(ids) = cs
    <2>1. \A cs : IdsAre(cs).op = "ids" /\ IdsAre(cs).cs = cs
        BY DEF IdsAre
    <2> QED BY <2>1 DEF Accepts
<1>7. \A c, vs : Accepts(WritesAre(c, vs)) <=> {r[3] : r \in {s \in rows : s[1] = c}} = vs
    <2> TAKE c, vs
    <2>2. PICK o : o = WritesAre(c, vs)
        OBVIOUS
    <2>3. o.op = "rows" /\ o.c = c /\ o.vs = vs
        BY <2>2 DEF WritesAre
    <2>4. Accepts(o) <=> {r[3] : r \in {s \in rows : s[1] = o.c}} = o.vs
        BY <2>3 DEF Accepts
    <2> QED BY <2>2, <2>3, <2>4
<1>8. \A h : Accepts(Barrier(h)) <=> BarrierEnds(h) = "returns"
    <2>1. \A h : Barrier(h).op = "barrier" /\ Barrier(h).h = h
        BY DEF Barrier
    <2> QED BY <2>1 DEF Accepts
<1> QED
    BY <1>1, <1>2, <1>3, <1>4, <1>5, <1>6, <1>7, <1>8

-----------------------------------------------------------------------------
(* The next clause.                                                         *)

LEMMA Lengths == \A k \in 1..15 : Len(ALL_WRITE_OWNERSHIP_TESTS[k]) = Length[k] /\ Length[k] \in 1..8
<1>1. SUFFICES ASSUME NEW k \in 1..15
               PROVE  Len(ALL_WRITE_OWNERSHIP_TESTS[k]) = Length[k] /\ Length[k] \in 1..8
    OBVIOUS
<1>2. Length[k] \in 1..8
    BY DEF Length
<1>3. 1 <= Len(ALL_WRITE_OWNERSHIP_TESTS[k])
    BY Clauses
<1>4. PICK o : o = ALL_WRITE_OWNERSHIP_TESTS[k][1]
    OBVIOUS
<1>5. 1 \in 1..8
    OBVIOUS
<1> QED
    BY <1>2, <1>3, <1>4, <1>5, Places

\* What is known of the saver in the middle of a clause.
PlaceInv == ClaimsInv /\ StoreInv /\ OwnersWrite /\ StaleWrites /\ Found

\* A new clause begins on an empty thread.
LEMMA NextClauseKeeps ==
    ASSUME cl \in 1..15, NextClause, saver' = saver
    PROVE  PlaceInv'
<1>1. /\ cl' \in 2..16 /\ pos' = 1 /\ token' = NoClaims /\ handle' = NoHandles
      /\ spent' = {} /\ ids' = <<>> /\ rows' = {}
    BY DEF NextClause
<1>2. ClaimsInv'
    <2>1. ASSUME cl' # 16
          PROVE  pos' <= Len(ALL_WRITE_OWNERSHIP_TESTS[cl'])
        <3>1. PICK k \in 1..15 : k = cl'
            BY <1>1, <2>1
        <3>2. PICK n \in 1..8 : n = Len(ALL_WRITE_OWNERSHIP_TESTS[k])
            BY Lengths
        <3>3. 1 <= n
            OBVIOUS
        <3> QED BY <1>1, <3>1, <3>2, <3>3, Zenon
    <2>2. HandleA' = NoHandle /\ HandleB' = NoHandle
        BY <1>1 DEF HandleA, HandleB
    <2>3. handle' = [h \in {"a", "b"} |-> IF h = "a" THEN HandleA' ELSE HandleB']
        BY <1>1, <2>2 DEF NoHandles
    <2>4. token' = [t \in {"t1", "t2"} |->
                      IF t = "t1" THEN IF pos' = 1 THEN 0 ELSE IF cl' \in Contended /\ pos' >= 4 THEN 2 ELSE 1
                      ELSE IF cl' = 12 /\ pos' >= 3 THEN 1 ELSE 0]
        BY <1>1 DEF NoClaims
    <2> QED BY <1>1, <2>1, <2>3, <2>4 DEF ClaimsInv
<1>3. StoreInv'
    <2>1. Range(<<>>) = {} /\ <<>> \in Seq({"c1", "c2", "c3"}) /\ IsInjective(<<>>)
        BY DEF Range, IsInjective
    <2> QED BY <1>1, <2>1 DEF StoreInv
<1>4. OwnIds' = <<>> /\ OwnRows' = {}
    BY <1>1 DEF OwnIds, OwnRows
<1>5. StaleAt(cl') \in 4..9
    BY DEF StaleAt
<1>6. OwnersWrite' /\ Found'
    BY <1>1, <1>4 DEF OwnersWrite, Found
<1>7. StaleWrites'
    BY <1>1, <1>4, <1>5 DEF StaleWrites
<1> QED
    BY <1>2, <1>3, <1>6, <1>7 DEF PlaceInv

\* What passing the clause shows of the saver.
Earned ==
    /\ cl = 4 /\ saver.supersedes \in {"next", "toggle"} /\ saver.enforce.put = "drop" =>
         saver.tells = "raise" \/ (saver.tells = "quiet" /\ saver.barrier \in {"current", "always"})
    /\ cl = 5 => saver.enforce.put = "drop" /\ saver.supersedes \in {"next", "saver", "always", "toggle"}
    /\ cl = 8 => saver.enforce.writes = "drop"
    /\ cl = 11 /\ saver.supersedes \in {"next", "toggle"} /\ saver.enforce.put = "drop" => ~saver.once
    /\ cl = 12 /\ saver.enforce.put = "drop" => saver.supersedes \notin {"saver", "always"}
    /\ cl = 14 => saver.barrier # "always"

\* The verdicts after a clause, if passing it shows what it should.
LEMMA ClauseJudged ==
    ASSUME Verdicts, cl \in 1..15, cl' = cl + 1, saver' = saver,
           (failures' = failures /\ Earned) \/ failures' = failures \union {cl},
           ~interrupted' => /\ ~interrupted
                            /\ SupportsWriteOwnership(saver) => failures' = failures
                            /\ Silent(saver) => (failures' = failures <=> cl \notin EXPECTED_HOSTILE_FAILURES)
                            /\ saver = FenceRemoved => (failures' = failures <=> cl \notin DURABILITY_CLAUSES)
    PROVE  Verdicts'
<1>1. failures \subseteq 1..(cl - 1) /\ cl \notin failures
    BY DEF Verdicts
<1>2. failures' \subseteq 1..(cl' - 1) /\ failures \subseteq failures'
    <2>1. \A k \in 1..(cl - 1) : k \in 1..(cl' - 1)
        OBVIOUS
    <2>2. cl \in 1..(cl' - 1)
        OBVIOUS
    <2> QED BY <1>1, <2>1, <2>2
<1>3. failures' # failures => failures' = failures \union {cl}
    OBVIOUS
<1>4. ASSUME NEW k \in 1..15, Judged(k)'
      PROVE  Judged(k) \/ (k = cl /\ Earned)
    BY <1>2, <1>4 DEF Judged
<1>5. /\ Judged(4)' /\ saver.supersedes \in {"next", "toggle"} /\ saver.enforce.put = "drop" =>
           saver.tells = "raise" \/ (saver.tells = "quiet" /\ saver.barrier \in {"current", "always"})
      /\ Judged(5)' => saver.enforce.put = "drop" /\ saver.supersedes \in {"next", "saver", "always", "toggle"}
      /\ Judged(8)' => saver.enforce.writes = "drop"
      /\ Judged(11)' /\ saver.supersedes \in {"next", "toggle"} /\ saver.enforce.put = "drop" => ~saver.once
      /\ Judged(12)' /\ saver.enforce.put = "drop" => saver.supersedes \notin {"saver", "always"}
      /\ Judged(14)' => saver.barrier # "always"
    BY <1>4 DEF Verdicts, Earned
<1>6. ASSUME ~interrupted', Silent(saver)
      PROVE  failures' = (1..(cl' - 1)) \intersect EXPECTED_HOSTILE_FAILURES
    <2>1. failures = (1..(cl - 1)) \intersect EXPECTED_HOSTILE_FAILURES
        BY <1>6 DEF Verdicts
    <2>2. \A k : k \in 1..(cl' - 1) <=> k \in 1..(cl - 1) \/ k = cl
        OBVIOUS
    <2>3. CASE cl \in EXPECTED_HOSTILE_FAILURES
        BY <1>3, <1>6, <2>1, <2>2, <2>3
    <2>4. CASE cl \notin EXPECTED_HOSTILE_FAILURES
        BY <1>6, <2>1, <2>2, <2>4
    <2> QED BY <2>3, <2>4
<1>7. ASSUME ~interrupted', saver = FenceRemoved
      PROVE  failures' = (1..(cl' - 1)) \intersect DURABILITY_CLAUSES
    <2>1. failures = (1..(cl - 1)) \intersect DURABILITY_CLAUSES
        BY <1>7 DEF Verdicts
    <2>2. \A k : k \in 1..(cl' - 1) <=> k \in 1..(cl - 1) \/ k = cl
        OBVIOUS
    <2>3. CASE cl \in DURABILITY_CLAUSES
        BY <1>3, <1>7, <2>1, <2>2, <2>3
    <2>4. CASE cl \notin DURABILITY_CLAUSES
        BY <1>7, <2>1, <2>2, <2>4
    <2> QED BY <2>3, <2>4
<1>8. ~interrupted' /\ SupportsWriteOwnership(saver) => failures' = {}
    BY DEF Verdicts
<1> QED
    BY <1>2, <1>5, <1>6, <1>7, <1>8 DEF Verdicts

-----------------------------------------------------------------------------
(* The place of the next operation.                                         *)

LEMMA Here ==
    ASSUME ClaimsInv, Running
    PROVE  /\ cl \in 1..15 /\ pos \in 1..Length[cl] /\ pos \in 1..8 /\ Length[cl] \in 1..8
           /\ Len(ALL_WRITE_OWNERSHIP_TESTS[cl]) = Length[cl] /\ ~aborted
           /\ \/ Claims(cl, pos, Op) \/ OwnerWrites(cl, pos, Op) \/ StalePuts(cl, pos, Op)
              \/ StalePutWrites(cl, pos, Op) \/ Reads(cl, pos, Op) \/ (Op = Barrier("a") /\ cl = 14 /\ pos = 5)
<1>1. cl \in 1..15 /\ pos \in 1..8 /\ ~aborted
    BY Clauses DEF ClaimsInv, Running
<1>2. pos <= Len(ALL_WRITE_OWNERSHIP_TESTS[cl])
    BY <1>1 DEF ClaimsInv
<1>3. Len(ALL_WRITE_OWNERSHIP_TESTS[cl]) = Length[cl] /\ Length[cl] \in 1..8
    BY <1>1, Lengths
<1>4. pos \in 1..Length[cl]
    BY <1>1, <1>2, <1>3
<1> QED
    BY <1>1, <1>2, <1>3, <1>4, Places DEF Op

\* The operation was accepted and another follows.
Advance ==
    /\ pos < Length[cl] /\ pos' = pos + 1 /\ cl' = cl /\ saver' = saver

\* What is no claim leaves the holders as they are.
LEMMA ClaimsKept ==
    ASSUME ClaimsInv, cl \in 1..15, Advance, UNCHANGED <<token, handle>>,
           pos # 1, ~(cl \in Contended /\ pos = 3), ~(cl = 12 /\ pos = 2)
    PROVE  ClaimsInv'
<1>1. pos \in 1..8 /\ pos' \in 1..8 /\ pos' <= Len(ALL_WRITE_OWNERSHIP_TESTS[cl]) /\ pos' # 1
    <2>1. PICK n \in 1..8 : n = Length[cl] /\ n = Len(ALL_WRITE_OWNERSHIP_TESTS[cl])
        BY Lengths
    <2>2. pos \in 1..8 /\ pos < n /\ pos' = pos + 1 /\ cl' = cl
        BY <2>1 DEF ClaimsInv, Advance
    <2>3. pos' \in 1..8 /\ pos' <= n /\ pos' # 1
        BY <2>2
    <2> QED BY <2>1, <2>2, <2>3, Zenon
<1>2. /\ cl \in Contended => (pos' >= 4 <=> pos >= 4)
      /\ cl = 12 => (pos' >= 3 <=> pos >= 3)
    BY <1>1 DEF Advance
<1>3. HandleA' = HandleA /\ HandleB' = HandleB
    BY <1>1, <1>2 DEF HandleA, HandleB, Advance
<1> QED
    BY <1>1, <1>2, <1>3 DEF ClaimsInv, Advance

\* A claim makes its caller the holder.
LEMMA ClaimSteps ==
    ASSUME ClaimsInv, cl \in 1..15, Advance, Claims(cl, pos, Op), aclaim_write_ownership(Op)
    PROVE  ClaimsInv'
<1>1. pos \in 1..8 /\ pos' \in 1..8 /\ pos' <= Len(ALL_WRITE_OWNERSHIP_TESTS[cl]) /\ cl' = cl /\ pos' = pos + 1
    <2>1. PICK n \in 1..8 : n = Length[cl] /\ n = Len(ALL_WRITE_OWNERSHIP_TESTS[cl])
        BY Lengths
    <2>2. pos \in 1..8 /\ pos < n /\ pos' = pos + 1 /\ cl' = cl
        BY <2>1 DEF ClaimsInv, Advance
    <2>3. pos' \in 1..8 /\ pos' <= n /\ pos' # 1
        BY <2>2
    <2> QED BY <2>1, <2>2, <2>3, Zenon
<1>2. /\ handle = [h \in {"a", "b"} |-> IF h = "a" THEN HandleA ELSE HandleB]
      /\ token = [t \in {"t1", "t2"} |->
                  IF t = "t1" THEN IF pos = 1 THEN 0 ELSE IF cl \in Contended /\ pos >= 4 THEN 2 ELSE 1
                  ELSE IF cl = 12 /\ pos >= 3 THEN 1 ELSE 0]
    BY DEF ClaimsInv
<1>3. /\ token' = [token EXCEPT ![Op.t] = @ + 1]
      /\ handle' = [handle EXCEPT ![Op.h] = [t |-> Op.t, token |-> token'[Op.t]]]
    BY DEF aclaim_write_ownership
<1>4. CASE pos = 1 /\ Op.h = "a" /\ Op.t = "t1"
    <2>1. token' = [t \in {"t1", "t2"} |-> IF t = "t1" THEN 1 ELSE 0]
        <3>1. token = [t \in {"t1", "t2"} |-> 0]
            BY <1>2, <1>4 DEF Contended
        <3>2. token' = [token EXCEPT !["t1"] = token["t1"] + 1]
            BY <1>3, <1>4
        <3>3. token["t1"] + 1 = 1
            BY <3>1
        <3>4. token' = [token EXCEPT !["t1"] = 1]
            BY <3>2, <3>3
        <3> QED BY <3>1, <3>4
    <2>2. handle' = [h \in {"a", "b"} |-> IF h = "a" THEN [t |-> "t1", token |-> 1] ELSE HandleB]
        BY <1>2, <1>3, <1>4, <2>1
    <2>3. HandleA' = [t |-> "t1", token |-> 1] /\ HandleB' = HandleB
        BY <1>1, <1>4 DEF HandleA, HandleB
    <2> QED BY <1>1, <1>4, <2>1, <2>2, <2>3 DEF ClaimsInv
<1>5. CASE cl \in Contended /\ pos = 3 /\ Op.h = "b" /\ Op.t = "t1"
    <2>1. token' = [t \in {"t1", "t2"} |-> IF t = "t1" THEN 2 ELSE 0]
        <3>1. token = [t \in {"t1", "t2"} |-> IF t = "t1" THEN 1 ELSE 0]
            BY <1>2, <1>5 DEF Contended
        <3>2. token' = [token EXCEPT !["t1"] = token["t1"] + 1]
            BY <1>3, <1>5
        <3>3. token["t1"] + 1 = 2
            BY <3>1
        <3>4. token' = [token EXCEPT !["t1"] = 2]
            BY <3>2, <3>3
        <3> QED BY <3>1, <3>4
    <2>2. handle' = [h \in {"a", "b"} |-> IF h = "b" THEN [t |-> "t1", token |-> 2] ELSE HandleA]
        BY <1>2, <1>3, <1>5, <2>1
    <2>3. HandleB' = [t |-> "t1", token |-> 2] /\ HandleA' = HandleA
        BY <1>1, <1>5 DEF HandleA, HandleB, Contended
    <2> QED BY <1>1, <1>5, <2>1, <2>2, <2>3 DEF ClaimsInv, Contended
<1>6. CASE cl = 12 /\ pos = 2 /\ Op.h = "b" /\ Op.t = "t2"
    <2>1. token' = [t \in {"t1", "t2"} |-> 1]
        <3>1. token = [t \in {"t1", "t2"} |-> IF t = "t1" THEN 1 ELSE 0]
            BY <1>2, <1>6
        <3>2. token' = [token EXCEPT !["t2"] = token["t2"] + 1]
            BY <1>3, <1>6
        <3>3. token["t2"] + 1 = 1
            BY <3>1
        <3>4. token' = [token EXCEPT !["t2"] = 1]
            BY <3>2, <3>3
        <3> QED BY <3>1, <3>4
    <2>2. handle' = [h \in {"a", "b"} |-> IF h = "b" THEN [t |-> "t2", token |-> 1] ELSE HandleA]
        BY <1>2, <1>3, <1>6, <2>1
    <2>3. HandleB' = [t |-> "t2", token |-> 1] /\ HandleA' = HandleA
        BY <1>1, <1>6 DEF HandleA, HandleB
    <2> QED BY <1>1, <1>6, <2>1, <2>2, <2>3 DEF ClaimsInv, Contended
<1> QED
    BY <1>4, <1>5, <1>6 DEF Claims, A1, Claim

-----------------------------------------------------------------------------
(* What is stored.                                                          *)

LEMMA OneMoreId ==
    ASSUME NEW S, NEW s \in Seq(S), NEW x \in S, IsInjective(s), x \notin Range(s)
    PROVE  Append(s, x) \in Seq(S) /\ IsInjective(Append(s, x)) /\ Range(Append(s, x)) = Range(s) \union {x}
<1>1. PICK n \in Nat : n = Len(s) /\ DOMAIN s = 1..n
    BY LenProperties
<1>2. PICK p : p = Append(s, x)
    OBVIOUS
<1>3. /\ p \in Seq(S) /\ Len(p) = n + 1
      /\ \A i \in 1..n : p[i] = s[i]
      /\ p[n + 1] = x
    BY <1>1, <1>2, AppendProperties
<1>4. DOMAIN p = 1..(n + 1)
    BY <1>3, LenProperties
<1>5. /\ \A i \in 1..(n + 1) : i \in 1..n \/ i = n + 1
      /\ \A i \in 1..n : i \in 1..(n + 1)
      /\ n + 1 \in 1..(n + 1)
    OBVIOUS
<1>6. \A i \in 1..n : s[i] # x
    BY <1>1 DEF Range
<1>7. \A i, j \in 1..n : s[i] = s[j] => i = j
    BY <1>1 DEF IsInjective
<1>8. ASSUME NEW i \in 1..(n + 1), NEW j \in 1..(n + 1), p[i] = p[j]
      PROVE  i = j
    <2>1. CASE i \in 1..n /\ j \in 1..n
        BY <1>3, <1>7, <1>8, <2>1
    <2>2. CASE i \in 1..n /\ j = n + 1
        BY <1>3, <1>6, <1>8, <2>2
    <2>3. CASE i = n + 1 /\ j \in 1..n
        BY <1>3, <1>6, <1>8, <2>3
    <2> QED BY <1>5, <2>1, <2>2, <2>3
<1>9. IsInjective(p)
    BY <1>4, <1>8 DEF IsInjective
<1>10. Range(p) = Range(s) \union {x}
    BY <1>1, <1>3, <1>4, <1>5 DEF Range
<1> QED
    BY <1>2, <1>3, <1>9, <1>10

\* Appending to a tuple makes the longer tuple.
LEMMA Pair == ASSUME NEW k, NEW l PROVE Append(<<k>>, l) = <<k, l>>
<1>1. PICK S : S = {k, l}
    OBVIOUS
<1>2. PICK u : u = <<k>>
    OBVIOUS
<1>3. l \in S /\ u \in Seq(S) /\ Len(u) = 1 /\ u[1] = k
    BY <1>1, <1>2
<1>4. PICK s : s = Append(u, l)
    OBVIOUS
<1>5. /\ s \in Seq(S) /\ Len(s) = Len(u) + 1
      /\ \A i \in 1..Len(u) : s[i] = u[i]
      /\ s[Len(u) + 1] = l
    BY <1>3, <1>4, AppendProperties
<1>6. Len(s) = 2 /\ s[1] = k /\ s[2] = l
    BY <1>3, <1>5
<1>7. PICK t : t = <<k, l>>
    OBVIOUS
<1>8. t \in Seq(S) /\ Len(t) = 2 /\ t[1] = k /\ t[2] = l
    BY <1>1, <1>7
<1>9. \A i \in 1..2 : i = 1 \/ i = 2
    OBVIOUS
<1>10. s = t
    BY <1>5, <1>6, <1>8, <1>9, SeqEqual
<1> QED
    BY <1>2, <1>4, <1>7, <1>10

\* Appending to a pair.
LEMMA Triple == ASSUME NEW k, NEW l, NEW m PROVE Append(<<k, l>>, m) = <<k, l, m>>
<1>1. PICK S : S = {k, l, m}
    OBVIOUS
<1>2. PICK u : u = <<k, l>>
    OBVIOUS
<1>3. Len(u) = 2 /\ u[1] = k /\ u[2] = l
    BY <1>2
<1>4. m \in S /\ u \in Seq(S)
    BY <1>1, <1>2
<1>5. PICK s : s = Append(u, m)
    OBVIOUS
<1>6. /\ s \in Seq(S) /\ Len(s) = Len(u) + 1
      /\ \A i \in 1..Len(u) : s[i] = u[i]
      /\ s[Len(u) + 1] = m
    BY <1>4, <1>5, AppendProperties
<1>7. Len(s) = 3 /\ s[1] = k /\ s[2] = l /\ s[3] = m
    BY <1>3, <1>6
<1>8. PICK t : t = <<k, l, m>>
    OBVIOUS
<1>9. t \in Seq(S) /\ Len(t) = 3 /\ t[1] = k /\ t[2] = l /\ t[3] = m
    BY <1>1, <1>8
<1>10. \A i \in 1..3 : i = 1 \/ i = 2 \/ i = 3
    OBVIOUS
<1>11. s = t
    BY <1>6, <1>7, <1>9, <1>10, SeqEqual
<1> QED
    BY <1>2, <1>5, <1>8, <1>11

\* What a put does to the store.
LEMMA PutEffect ==
    ASSUME saver \in Family, NEW h, NEW c
    PROVE  /\ Checked(Put(h, c)) <=> saver.enforce.put # "skip" /\ IsStale(h) /\ ~(saver.once /\ h \in spent)
           /\ Effect(Put(h, c)) =>
                /\ IF Checked(Put(h, c)) /\ saver.enforce.put = "drop" THEN ids' = ids ELSE ids' = Append(ids, c)
                /\ rows' = rows
                /\ spent' = IF Checked(Put(h, c)) THEN spent \union {h} ELSE spent
<1>1. PICK o : o = Put(h, c)
    OBVIOUS
<1>2. o.op = "put" /\ o.h = h /\ o.c = c
    BY <1>1 DEF Put
<1>3. saver.enforce["put"] = saver.enforce.put
    BY SaverFields
<1>4. Checked(o) <=> saver.enforce.put # "skip" /\ IsStale(h) /\ ~(saver.once /\ h \in spent)
    BY <1>2, <1>3 DEF Checked
<1>5. ASSUME Effect(o)
      PROVE  /\ IF Checked(o) /\ saver.enforce.put = "drop" THEN ids' = ids ELSE ids' = Append(ids, c)
             /\ rows' = rows
             /\ spent' = IF Checked(o) THEN spent \union {h} ELSE spent
    BY <1>2, <1>3, <1>5 DEF Effect
<1> QED
    BY <1>1, <1>4, <1>5

\* What put_writes does to the store.
LEMMA WriteEffect ==
    ASSUME saver \in Family, NEW h, NEW c, NEW ch, NEW v
    PROVE  LET o == Write(h, c, ch, v)
               same == {r \in rows : r[1] = c /\ r[2] = ch}
           IN  /\ Checked(o) <=> saver.enforce.writes # "skip" /\ IsStale(h) /\ ~(saver.once /\ h \in spent)
               /\ Effect(o) =>
                    /\ ids' = ids
                    /\ rows' = IF Checked(o) /\ saver.enforce.writes = "drop" THEN rows
                               ELSE IF same = {} \/ ch = "__resume__" THEN (rows \ same) \union {<<c, ch, v>>}
                               ELSE rows
                    /\ spent' = IF Checked(o) THEN spent \union {h} ELSE spent
<1>1. PICK o : o = Write(h, c, ch, v)
    OBVIOUS
<1>2. o.op = "writes" /\ o.h = h /\ o.c = c /\ o.ch = ch /\ o.v = v
    BY <1>1 DEF Write
<1>3. saver.enforce["writes"] = saver.enforce.writes
    BY SaverFields
<1>4. Checked(o) <=> saver.enforce.writes # "skip" /\ IsStale(h) /\ ~(saver.once /\ h \in spent)
    BY <1>2, <1>3 DEF Checked
<1> DEFINE same == {r \in rows : r[1] = c /\ r[2] = ch}
<1>5. Stored(o) = IF same = {} \/ ch = "__resume__" THEN (rows \ same) \union {<<c, ch, v>>} ELSE rows
    BY <1>2 DEF Stored
<1>6. ASSUME Effect(o)
      PROVE  /\ ids' = ids
             /\ rows' = IF Checked(o) /\ saver.enforce.writes = "drop" THEN rows ELSE Stored(o)
             /\ spent' = IF Checked(o) THEN spent \union {h} ELSE spent
    BY <1>2, <1>3, <1>6 DEF Effect
<1> QED
    BY <1>1, <1>4, <1>5, <1>6

\* Until a stale write is tried, the verdicts' savers store what the owners write.
LEMMA Early ==
    ASSUME OwnersWrite', (pos <= StaleAt(cl))', saver' \in Family, ClaimsInv'
    PROVE  StaleWrites'
<1>1. SupportsWriteOwnership(saver') => Regular'
    BY Kinds DEF Regular
<1>2. pos' \in 1..8 /\ StaleAt(cl)' \in 4..9
    BY DEF ClaimsInv, StaleAt
<1>3. ~(pos > StaleAt(cl))'
    BY <1>2
<1> QED
    BY <1>1, <1>3 DEF OwnersWrite, StaleWrites

\* The places of the owners' writes.
PutPlace(h, c) ==
    \/ h = "a" /\ c = "c1" /\ IF cl = 12 THEN pos = 3 ELSE pos = 2
    \/ h = "b" /\ c = "c2" /\ cl \in {6, 13} /\ pos = 4
WritePlace(h, c, ch, v) ==
    \/ h = "a" /\ c = "c1" /\ ch = "ch" /\ v = "owned" /\ cl = 3 /\ pos = 3
    \/ h = "b" /\ c = "c1" /\ ch = "ch" /\ v = "current" /\ cl = 9 /\ pos = 4
    \/ h = "b" /\ c = "c1" /\ ch = "__resume__" /\ v = "current" /\ cl = 10 /\ pos = 4
    \/ h = "b" /\ c = "c2" /\ ch = "ch" /\ v = "recovered" /\ cl = 13 /\ pos = 5
    \/ h = "a" /\ c = "c1" /\ ch = "ch" /\ v = "v" /\ cl = 14 /\ pos \in {3, 4}

\* An owner puts a checkpoint.
LEMMA OwnerPutSteps ==
    ASSUME PlaceInv, saver \in Family, cl \in 1..15, Advance, UNCHANGED <<token, handle>>,
           NEW h \in {"a", "b"}, NEW c \in {"c1", "c2"}, Accepts(Put(h, c)), Effect(Put(h, c)),
           PutPlace(h, c)
    PROVE  PlaceInv'
<1> USE DEF PutPlace
<1>1. /\ ClaimsInv /\ StoreInv /\ OwnersWrite /\ StaleWrites /\ Found
      /\ pos \in 1..8 /\ cl' = cl /\ pos' = pos + 1 /\ saver' = saver
    BY DEF PlaceInv, ClaimsInv, Advance
<1>2. ClaimsInv'
    BY <1>1, ClaimsKept DEF Contended
<1>3. /\ ids' = Append(ids, c) /\ rows' = rows /\ spent' \subseteq spent \union {h}
      /\ (~IsStale(h) => spent' = spent)
    BY Demands, PutEffect
<1>4. c \notin Range(ids)
    BY <1>1 DEF StoreInv
<1>5. /\ ids' \in Seq({"c1", "c2", "c3"}) /\ IsInjective(ids') /\ Range(ids') = Range(ids) \union {c}
    BY <1>1, <1>3, <1>4, OneMoreId DEF StoreInv
<1>6. StoreInv'
    BY <1>1, <1>3, <1>5 DEF StoreInv
<1>7. pos' <= StaleAt(cl') /\ pos <= StaleAt(cl)
    BY <1>1 DEF StaleAt
<1>8. Owns(h)
    BY <1>1 DEF Owns, Contended
<1>9. OwnersWrite'
    <2>1. SUFFICES ASSUME Regular
                   PROVE  spent' = {} /\ ids' = OwnIds' /\ rows' = OwnRows'
        BY <1>1 DEF OwnersWrite, Regular
    <2>2. spent = {} /\ ids = OwnIds /\ rows = OwnRows
        BY <1>1, <1>7, <2>1 DEF OwnersWrite
    <2>3. spent' = {}
        BY <1>1, <1>3, <1>8, <2>1, <2>2, OwnerIsNotStale
    <2>4. OwnRows' = OwnRows
        BY <1>1 DEF OwnRows
    <2>5. CASE c = "c1"
        <3>1. OwnIds = <<>> /\ OwnIds' = <<"c1">>
            BY <1>1, <2>5 DEF OwnIds
        <3>2. Append(<<>>, "c1") = <<"c1">>
            OBVIOUS
        <3> QED BY <1>3, <2>2, <2>3, <2>4, <2>5, <3>1, <3>2
    <2>6. CASE c = "c2"
        <3>1. OwnIds = <<"c1">> /\ OwnIds' = <<"c1", "c2">>
            BY <1>1, <2>6 DEF OwnIds
        <3>2. Append(<<"c1">>, "c2") = <<"c1", "c2">>
            BY Pair
        <3> QED BY <1>3, <2>2, <2>3, <2>4, <2>6, <3>1, <3>2
    <2> QED BY <2>5, <2>6
<1>10. StaleWrites'
    BY <1>1, <1>2, <1>7, <1>9, Early
<1>11. Found'
    <2>1. ASSUME cl = 12, pos = 3, saver.enforce.put = "drop"
          PROVE  saver.supersedes \notin {"saver", "always"}
        <3>1. h = "a" /\ "a" \notin spent
            BY <1>1, <2>1 DEF StoreInv
        <3>2. ~IsStale("a")
            BY <2>1, <3>1, Demands, PutEffect
        <3>3. handle["b"] # NoHandle
            BY <1>1, <2>1, Hands
        <3> QED BY <3>2, <3>3 DEF IsStale
    <2> QED BY <1>1, <2>1 DEF Found
<1> QED
    BY <1>2, <1>6, <1>9, <1>10, <1>11 DEF PlaceInv

\* An owner writes.
LEMMA OwnerPutWritesSteps ==
    ASSUME PlaceInv, saver \in Family, cl \in 1..15, Advance, UNCHANGED <<token, handle>>,
           NEW h \in {"a", "b"}, NEW c \in {"c1", "c2"}, NEW ch, NEW v, Effect(Write(h, c, ch, v)),
           WritePlace(h, c, ch, v)
    PROVE  PlaceInv'
<1> USE DEF WritePlace
<1>1. /\ ClaimsInv /\ StoreInv /\ OwnersWrite /\ StaleWrites /\ Found
      /\ pos \in 1..8 /\ cl' = cl /\ pos' = pos + 1 /\ saver' = saver
    BY DEF PlaceInv, ClaimsInv, Advance
<1>2. ClaimsInv'
    BY <1>1, ClaimsKept DEF Contended
<1> DEFINE w == <<c, ch, v>>
           same == {r \in rows : r[1] = c /\ r[2] = ch}
<1>3. /\ ids' = ids /\ spent' \subseteq spent \union {h}
      /\ rows' \subseteq rows \union {w}
      /\ ~IsStale(h) => /\ spent' = spent
                        /\ rows' = IF same = {} \/ ch = "__resume__" THEN (rows \ same) \union {w} ELSE rows
    BY WriteEffect
<1>4. w[1] = c /\ c \in Range(ids)
    BY <1>1 DEF StoreInv
<1>5. StoreInv'
    BY <1>1, <1>3, <1>4 DEF StoreInv
<1>6. pos' <= StaleAt(cl') /\ pos <= StaleAt(cl)
    BY <1>1 DEF StaleAt
<1>7. Owns(h)
    BY <1>1 DEF Owns, Contended
<1>8. OwnersWrite'
    <2>1. SUFFICES ASSUME Regular
                   PROVE  spent' = {} /\ ids' = OwnIds' /\ rows' = OwnRows'
        BY <1>1 DEF OwnersWrite, Regular
    <2>2. spent = {} /\ ids = OwnIds /\ rows = OwnRows
        BY <1>1, <1>6, <2>1 DEF OwnersWrite
    <2>3. ~IsStale(h)
        BY <1>1, <1>7, <2>1, OwnerIsNotStale
    <2>4. OwnIds' = OwnIds
        BY <1>1 DEF OwnIds
    <2>5. CASE cl = 14 /\ pos = 4
        <3>1. OwnRows = {<<"c1", "ch", "v">>} /\ OwnRows' = {<<"c1", "ch", "v">>}
            BY <1>1, <2>5 DEF OwnRows
        <3>2. <<"c1", "ch", "v">> \in same /\ ch # "__resume__"
            BY <2>2, <2>5, <3>1
        <3> QED BY <1>3, <2>2, <2>3, <2>4, <3>1, <3>2
    <2>6. CASE ~(cl = 14 /\ pos = 4)
        <3>1. OwnRows = {} /\ OwnRows' = {w}
            BY <1>1, <2>6 DEF OwnRows
        <3> QED BY <1>3, <2>2, <2>3, <2>4, <3>1
    <2> QED BY <2>5, <2>6
<1>9. StaleWrites'
    BY <1>1, <1>2, <1>6, <1>8, Early
<1>10. Found'
    BY <1>1 DEF Found
<1> QED
    BY <1>2, <1>5, <1>8, <1>9, <1>10 DEF PlaceInv

\* Without a word from the saver no refusal is seen.
LEMMA Unheard ==
    ASSUME saver \in Family, Silent(saver), NEW o
    PROVE  ~observe_rejection(o)
<1>1. saver.tells = "quiet" /\ saver.barrier \in {"none", "fine"}
    BY DEF Silent
<1>2. WriteEnds(o) = "returns"
    BY <1>1 DEF WriteEnds
<1>3. BarrierEnds(o.h) = "returns"
    BY <1>1 DEF BarrierEnds
<1> QED
    BY <1>2, <1>3 DEF observe_rejection, is_stale_write_owner_rejection

\* A stale owner puts, is refused as far as anyone can see, and the clause goes on.
LEMMA StalePutSteps ==
    ASSUME PlaceInv, saver \in Family, cl \in 1..15, Advance, UNCHANGED <<token, handle>>,
           NEW c \in {"c2", "c3"}, observe_rejection(Put("a", c)), Effect(Put("a", c)),
           \/ c = "c2" /\ cl \in {5, 11} /\ pos = 4
           \/ c = "c3" /\ ((cl = 6 /\ pos = 6) \/ (cl = 11 /\ pos = 5))
    PROVE  PlaceInv'
<1>1. /\ ClaimsInv /\ StoreInv /\ OwnersWrite /\ StaleWrites /\ Found
      /\ pos \in 1..8 /\ cl' = cl /\ pos' = pos + 1 /\ saver' = saver
    BY DEF PlaceInv, ClaimsInv, Advance
<1>2. ClaimsInv'
    BY <1>1, ClaimsKept DEF Contended
<1> DEFINE checked == saver.enforce.put # "skip" /\ IsStale("a") /\ ~(saver.once /\ "a" \in spent)
<1>3. /\ IF checked /\ saver.enforce.put = "drop" THEN ids' = ids ELSE ids' = Append(ids, c)
      /\ rows' = rows
      /\ spent' = IF checked THEN spent \union {"a"} ELSE spent
    BY PutEffect
<1>4. IsStale("a") <=> saver.supersedes \in {"next", "saver", "always", "toggle"}
    BY <1>1, StaleOwner DEF Contended
<1> HIDE DEF checked
<1>5. c \notin Range(ids)
    BY <1>1 DEF StoreInv
<1>6. /\ Append(ids, c) \in Seq({"c1", "c2", "c3"}) /\ IsInjective(Append(ids, c))
      /\ Range(Append(ids, c)) = Range(ids) \union {c}
    BY <1>1, <1>5, OneMoreId DEF StoreInv
<1>7. /\ ids' \in Seq({"c1", "c2", "c3"}) /\ IsInjective(ids')
      /\ Range(ids) \subseteq Range(ids') /\ Range(ids') \subseteq Range(ids) \union {c}
    BY <1>1, <1>3, <1>6 DEF StoreInv
<1>8. StoreInv'
    BY <1>1, <1>3, <1>7 DEF StoreInv
<1>9. StaleAt(cl) = IF cl = 6 THEN 6 ELSE 4
    BY DEF StaleAt
<1>10. OwnersWrite'
    BY <1>1, <1>9 DEF OwnersWrite
<1>11. SupportsWriteOwnership(saver) => ids' = OwnIds' /\ rows' = OwnRows'
    <2>1. SUFFICES ASSUME SupportsWriteOwnership(saver)
                   PROVE  ids' = OwnIds' /\ rows' = OwnRows'
        OBVIOUS
    <2>2. ids' = ids
        BY <1>3, <1>4, <2>1, Kinds DEF checked
    <2>3. OwnIds' = OwnIds /\ OwnRows' = OwnRows
        BY <1>1 DEF OwnIds, OwnRows
    <2> QED BY <1>1, <1>3, <2>1, <2>2, <2>3 DEF StaleWrites
<1>12. saver = FenceRemoved =>
         /\ ids' = IF cl = 6 \/ (cl = 11 /\ pos' = 6) THEN <<"c1", "c2", "c3">> ELSE <<"c1", "c2">>
         /\ rows' = {}
    <2>1. SUFFICES ASSUME saver = FenceRemoved
                   PROVE  /\ ids' = IF cl = 6 \/ (cl = 11 /\ pos' = 6) THEN <<"c1", "c2", "c3">> ELSE <<"c1", "c2">>
                          /\ rows' = {}
        OBVIOUS
    <2>2. saver.enforce.put = "skip" /\ Regular
        BY <2>1, Kinds DEF Regular
    <2>3. ids' = Append(ids, c)
        BY <1>3, <2>2 DEF checked
    <2>4. CASE cl = 11 /\ pos = 5
        <3>1. ids = <<"c1", "c2">> /\ rows = {} /\ c = "c3"
            BY <1>1, <1>9, <2>1, <2>4 DEF StaleWrites
        <3>2. ids' = <<"c1", "c2", "c3">>
            BY <2>3, <3>1, Triple
        <3> QED BY <1>1, <1>3, <2>4, <3>1, <3>2
    <2>5. CASE ~(cl = 11 /\ pos = 5)
        <3>1. ids = OwnIds /\ rows = OwnRows
            BY <1>1, <1>9, <2>2, <2>5 DEF OwnersWrite
        <3>2. OwnIds = (IF cl = 6 THEN <<"c1", "c2">> ELSE <<"c1">>) /\ OwnRows = {}
            BY <1>1, <2>5 DEF OwnIds, OwnRows
        <3>3. ids' = IF cl = 6 THEN <<"c1", "c2", "c3">> ELSE <<"c1", "c2">>
            BY <2>3, <2>5, <3>1, <3>2, Pair, Triple
        <3> QED BY <1>1, <1>3, <2>5, <3>1, <3>2, <3>3
    <2> QED BY <2>4, <2>5
<1>13. StaleWrites'
    BY <1>1, <1>11, <1>12, Unheard DEF StaleWrites
<1>14. Found'
    <2>1. cl = 5 => \/ "c2" \in Range(ids')
                    \/ saver.enforce.put = "drop" /\ saver.supersedes \in {"next", "saver", "always", "toggle"}
        <3>1. CASE checked /\ saver.enforce.put = "drop"
            BY <1>4, <3>1 DEF checked
        <3>2. CASE ids' = Append(ids, c)
            BY <1>6, <3>2
        <3> QED BY <1>3, <3>1, <3>2
    <2>2. ASSUME cl = 11, saver.supersedes \in {"next", "toggle"}, saver.enforce.put = "drop"
          PROVE  "a" \in spent' /\ (pos' = 6 => ~saver.once \/ "c3" \in Range(ids'))
        <3>1. checked <=> ~(saver.once /\ "a" \in spent)
            BY <1>4, <2>2 DEF checked
        <3>2. pos' = 6 => "a" \in spent /\ c = "c3"
            BY <1>1, <2>2 DEF Found
        <3> QED BY <1>3, <1>6, <3>1, <3>2
    <2> QED BY <1>1, <2>1, <2>2 DEF Found
<1> QED
    BY <1>2, <1>8, <1>10, <1>13, <1>14 DEF PlaceInv

\* The same for a stale owner that writes.
LEMMA StalePutWritesSteps ==
    ASSUME PlaceInv, saver \in Family, cl \in 1..15, Advance, UNCHANGED <<token, handle>>,
           NEW ch, observe_rejection(Write("a", "c1", ch, "stale")), Effect(Write("a", "c1", ch, "stale")),
           \/ ch = "ch" /\ ((cl = 8 /\ pos = 4) \/ (cl = 9 /\ pos = 5))
           \/ ch = "__resume__" /\ cl = 10 /\ pos = 5
    PROVE  PlaceInv'
<1>1. /\ ClaimsInv /\ StoreInv /\ OwnersWrite /\ StaleWrites /\ Found
      /\ pos \in 1..8 /\ cl' = cl /\ pos' = pos + 1 /\ saver' = saver
    BY DEF PlaceInv, ClaimsInv, Advance
<1>2. ClaimsInv'
    BY <1>1, ClaimsKept DEF Contended
<1> DEFINE w == <<"c1", ch, "stale">>
           same == {r \in rows : r[1] = "c1" /\ r[2] = ch}
           checked == saver.enforce.writes # "skip" /\ IsStale("a") /\ ~(saver.once /\ "a" \in spent)
<1>3. /\ ids' = ids
      /\ rows' = IF checked /\ saver.enforce.writes = "drop" THEN rows
                 ELSE IF same = {} \/ ch = "__resume__" THEN (rows \ same) \union {w} ELSE rows
      /\ spent' = IF checked THEN spent \union {"a"} ELSE spent
    BY WriteEffect
<1>4. IsStale("a") <=> saver.supersedes \in {"next", "saver", "always", "toggle"}
    BY <1>1, StaleOwner DEF Contended
<1> HIDE DEF checked
<1>5. w[1] = "c1" /\ "c1" \in Range(ids)
    BY <1>1 DEF StoreInv
<1>6. StoreInv'
    BY <1>1, <1>3, <1>5 DEF StoreInv
<1>7. StaleAt(cl) = IF cl = 8 THEN 4 ELSE 5
    BY DEF StaleAt
<1>8. OwnersWrite'
    BY <1>1, <1>7 DEF OwnersWrite
<1>9. SupportsWriteOwnership(saver) => ids' = OwnIds' /\ rows' = OwnRows'
    <2>1. SUFFICES ASSUME SupportsWriteOwnership(saver)
                   PROVE  ids' = OwnIds' /\ rows' = OwnRows'
        OBVIOUS
    <2>2. rows' = rows
        BY <1>3, <1>4, <2>1, Kinds DEF checked
    <2>3. OwnIds' = OwnIds /\ OwnRows' = OwnRows
        BY <1>1 DEF OwnIds, OwnRows
    <2> QED BY <1>1, <1>3, <2>1, <2>2, <2>3 DEF StaleWrites
<1>10. saver = FenceRemoved =>
         /\ ids' = <<"c1">>
         /\ rows' = IF cl = 9 THEN {<<"c1", "ch", "current">>} ELSE {w}
    <2>1. SUFFICES ASSUME saver = FenceRemoved
                   PROVE  ids' = <<"c1">> /\ rows' = IF cl = 9 THEN {<<"c1", "ch", "current">>} ELSE {w}
        OBVIOUS
    <2>2. saver.enforce.writes = "skip" /\ Regular
        BY <2>1, Kinds DEF Regular
    <2>3. rows' = IF same = {} \/ ch = "__resume__" THEN (rows \ same) \union {w} ELSE rows
        BY <1>3, <2>2 DEF checked
    <2>4. ids = OwnIds /\ rows = OwnRows
        BY <1>1, <1>7, <2>2 DEF OwnersWrite
    <2>5. OwnIds = <<"c1">>
        BY <1>1 DEF OwnIds
    <2>6. CASE cl = 8
        <3>1. rows = {}
            BY <1>1, <2>4, <2>6 DEF OwnRows
        <3> QED BY <1>3, <2>3, <2>4, <2>5, <2>6, <3>1
    <2>7. CASE cl = 9
        <3>1. rows = {<<"c1", "ch", "current">>}
            BY <1>1, <2>4, <2>7 DEF OwnRows
        <3>2. <<"c1", "ch", "current">> \in same /\ ch = "ch"
            BY <2>7, <3>1
        <3> QED BY <1>3, <2>3, <2>4, <2>5, <2>7, <3>1, <3>2
    <2>8. CASE cl = 10
        <3>1. rows = {<<"c1", "__resume__", "current">>} /\ ch = "__resume__"
            BY <1>1, <2>4, <2>8 DEF OwnRows
        <3>2. rows = same
            BY <3>1
        <3> QED BY <1>3, <2>3, <2>4, <2>5, <2>8, <3>1, <3>2
    <2> QED BY <2>6, <2>7, <2>8
<1>11. StaleWrites'
    BY <1>1, <1>9, <1>10, Unheard DEF StaleWrites
<1>12. Found'
    <2>1. (\E r \in rows' : r[1] = "c1") \/ saver.enforce.writes = "drop"
        <3>1. CASE w \in rows'
            BY <1>5, <3>1
        <3>2. CASE rows' = rows /\ same # {}
            BY <3>2
        <3> QED BY <1>3, <3>1, <3>2
    <2> QED BY <1>1, <2>1 DEF Found
<1> QED
    BY <1>2, <1>6, <1>8, <1>11, <1>12 DEF PlaceInv

\* Claims and reads leave the store as it is.
LEMMA IdleSteps ==
    ASSUME PlaceInv, saver \in Family, cl \in 1..15, Advance, ClaimsInv', UNCHANGED <<spent, ids, rows>>, Accepts(Op),
           Claims(cl, pos, Op) \/ Reads(cl, pos, Op)
    PROVE  PlaceInv'
<1>1. /\ ClaimsInv /\ StoreInv /\ OwnersWrite /\ StaleWrites /\ Found
      /\ pos \in 1..8 /\ cl' = cl /\ pos' = pos + 1 /\ pos < Length[cl] /\ saver' = saver
    BY DEF PlaceInv, ClaimsInv, Advance
<1>2. \/ pos = 1
      \/ cl \in Contended /\ pos = 3
      \/ cl = 12 /\ pos = 2
      \/ Op = TipIs("c2") /\ cl = 6 /\ pos \in {5, 7}
      \/ cl = 13 /\ pos = 6
      \/ cl = 15 /\ pos = 3
    BY <1>1 DEF Claims, Reads, Length
<1>3. StoreInv'
    BY <1>1, <1>2 DEF StoreInv, Contended
<1>4. OwnIds' = OwnIds /\ OwnRows' = OwnRows
    BY <1>1, <1>2 DEF OwnIds, OwnRows, Contended
<1>5. StaleAt(cl) \in 4..9 /\ StaleAt(cl') = StaleAt(cl)
    BY <1>1 DEF StaleAt
<1>6. OwnersWrite'
    BY <1>1, <1>4, <1>5 DEF OwnersWrite, Regular
<1>7. StaleWrites'
    <2>1. CASE cl = 6 /\ pos = 7
        <3>1. ids # <<"c1", "c2", "c3">>
            <4>1. Last(<<"c1", "c2", "c3">>) = "c3"
                BY DEF Last
            <4> QED BY <1>2, <2>1, <4>1, Demands DEF Contended
        <3> QED BY <1>1, <1>4, <2>1, <3>1 DEF StaleWrites, StaleAt
    <2>2. CASE ~(cl = 6 /\ pos = 7)
        <3>1. pos' <= StaleAt(cl')
            BY <1>1, <1>2, <2>2 DEF StaleAt, Contended
        <3> QED BY <1>1, <1>6, <3>1, Early
    <2> QED BY <2>1, <2>2
<1>8. Found'
    BY <1>1, <1>2 DEF Found, Contended
<1> QED
    BY <1>3, <1>6, <1>7, <1>8 DEF PlaceInv

\* Whatever the operation, the places are kept.
LEMMA OperateKeeps ==
    ASSUME PlaceInv, saver \in Family, Operate
    PROVE  PlaceInv'
<1>1. ClaimsInv /\ Running /\ saver' = saver
    BY DEF PlaceInv, Operate
<1>2. /\ cl \in 1..15 /\ Len(ALL_WRITE_OWNERSHIP_TESTS[cl]) = Length[cl]
      /\ pos \in 1..Length[cl] /\ Length[cl] \in 1..8 /\ pos \in 1..8
    BY <1>1, Here
<1>3. CASE Accepts(Op) /\ pos < Length[cl]
    <2>1. Advance
        BY <1>1, <1>2, <1>3 DEF Operate, Advance
    <2>2. /\ IF Op.op = "claim" THEN aclaim_write_ownership(Op) ELSE UNCHANGED <<token, handle>>
          /\ IF Op.op \in {"put", "writes"} THEN Effect(Op)
             ELSE IF Op.op = "stale" THEN Effect(Op.of) ELSE UNCHANGED <<spent, ids, rows>>
        BY <1>2, <1>3 DEF Operate
    <2>3. CASE Claims(cl, pos, Op)
        <3>1. Op.op = "claim"
            BY <2>3 DEF Claims, A1, Claim
        <3>2. ClaimsInv'
            BY <1>1, <1>2, <2>1, <2>2, <2>3, <3>1, ClaimSteps
        <3> QED BY <1>2, <1>3, <2>1, <2>2, <2>3, <3>1, <3>2, IdleSteps
    <2>4. CASE OwnerWrites(cl, pos, Op)
        <3>1. CASE \E h \in {"a", "b"}, c \in {"c1", "c2"} : Op = Put(h, c) /\ PutPlace(h, c)
            <4>1. PICK h \in {"a", "b"}, c \in {"c1", "c2"} : Op = Put(h, c) /\ PutPlace(h, c)
                BY <3>1
            <4>2. Op.op = "put"
                BY <4>1 DEF Put
            <4>3. UNCHANGED <<token, handle>> /\ Effect(Put(h, c)) /\ Accepts(Put(h, c))
                BY <1>3, <2>2, <4>1, <4>2
            <4> QED BY <1>2, <2>1, <4>1, <4>3, OwnerPutSteps DEF PutPlace
        <3>2. CASE \E h \in {"a", "b"}, c \in {"c1", "c2"}, ch \in {"ch", "__resume__"},
                     v \in {"owned", "current", "recovered", "v"} :
                     Op = Write(h, c, ch, v) /\ WritePlace(h, c, ch, v)
            <4>1. PICK h \in {"a", "b"}, c \in {"c1", "c2"}, ch \in {"ch", "__resume__"},
                      v \in {"owned", "current", "recovered", "v"} :
                     Op = Write(h, c, ch, v) /\ WritePlace(h, c, ch, v)
                BY <3>2
            <4>2. Op.op = "writes"
                BY <4>1 DEF Write
            <4>3. UNCHANGED <<token, handle>> /\ Effect(Write(h, c, ch, v))
                BY <1>3, <2>2, <4>1, <4>2
            <4> QED BY <1>2, <2>1, <4>1, <4>3, OwnerPutWritesSteps DEF WritePlace
        <3> QED BY <2>4, <3>1, <3>2 DEF OwnerWrites, A2, PutPlace, WritePlace
    <2>5. CASE StalePuts(cl, pos, Op)
        <3>1. PICK c \in {"c2", "c3"} :
                  /\ Op = Stale(Put("a", c))
                  /\ \/ c = "c2" /\ cl \in {5, 11} /\ pos = 4
                     \/ c = "c3" /\ ((cl = 6 /\ pos = 6) \/ (cl = 11 /\ pos = 5))
            BY <1>3, <2>5 DEF StalePuts, Length
        <3>2. Op.op = "stale" /\ Op.of = Put("a", c)
            BY <3>1 DEF Stale
        <3>3. UNCHANGED <<token, handle>> /\ Effect(Put("a", c))
            BY <2>2, <3>2
        <3>4. observe_rejection(Put("a", c))
            BY <1>3, <3>1, Demands
        <3> QED BY <1>2, <2>1, <3>1, <3>3, <3>4, StalePutSteps
    <2>6. CASE StalePutWrites(cl, pos, Op)
        <3>1. PICK ch \in {"ch", "__resume__"} :
                  /\ Op = Stale(Write("a", "c1", ch, "stale"))
                  /\ \/ ch = "ch" /\ ((cl = 8 /\ pos = 4) \/ (cl = 9 /\ pos = 5))
                     \/ ch = "__resume__" /\ cl = 10 /\ pos = 5
            BY <1>3, <2>6 DEF StalePutWrites, StaleWrite, Length
        <3>2. Op.op = "stale" /\ Op.of = Write("a", "c1", ch, "stale")
            BY <3>1 DEF Stale
        <3>3. UNCHANGED <<token, handle>> /\ Effect(Write("a", "c1", ch, "stale"))
            BY <2>2, <3>2
        <3>4. observe_rejection(Write("a", "c1", ch, "stale"))
            BY <1>3, <3>1, Demands
        <3> QED BY <1>2, <2>1, <3>1, <3>3, <3>4, StalePutWritesSteps
    <2>7. CASE Reads(cl, pos, Op)
        <3>1. Op.op \in {"tip", "ids", "rows"}
            BY <2>7 DEF Reads, TipIs, IdsAre, WritesAre
        <3>2. UNCHANGED <<token, handle, spent, ids, rows>>
            BY <2>2, <3>1
        <3>3. pos # 1 /\ ~(cl \in Contended /\ pos = 3) /\ ~(cl = 12 /\ pos = 2)
            BY <2>7 DEF Reads, Contended
        <3>4. ClaimsInv'
            BY <1>1, <1>2, <2>1, <3>2, <3>3, ClaimsKept
        <3> QED BY <1>2, <1>3, <2>1, <2>7, <3>2, <3>4, IdleSteps
    <2>8. ~(cl = 14 /\ pos = 5)
        BY <1>3 DEF Length
    <2> QED BY <1>1, <2>3, <2>4, <2>5, <2>6, <2>7, <2>8, Here
<1>4. CASE ~(Accepts(Op) /\ pos < Length[cl])
    <2>1. NextClause
        BY <1>2, <1>4 DEF Operate, Fails
    <2> QED BY <1>1, <1>2, <2>1, NextClauseKeeps
<1> QED
    BY <1>3, <1>4

-----------------------------------------------------------------------------
(* What is accepted of whom.                                                *)

LEMMA IdsOfTuples ==
    /\ Range(<<"c1">>) = {"c1"} /\ Last(<<"c1">>) = "c1" /\ <<"c1">> # <<>>
    /\ Range(<<"c1", "c2">>) = {"c1", "c2"} /\ Last(<<"c1", "c2">>) = "c2" /\ <<"c1", "c2">> # <<>>
    /\ Range(<<"c1", "c2", "c3">>) = {"c1", "c2", "c3"}
<1>1. \A i : i \in 1..2 <=> i = 1 \/ i = 2
    OBVIOUS
<1>2. \A i : i \in 1..3 <=> i = 1 \/ i = 2 \/ i = 3
    OBVIOUS
<1>3. Range(<<"c1">>) = {"c1"} /\ Last(<<"c1">>) = "c1" /\ <<"c1">> # <<>>
    BY DEF Range, Last
<1>4. Last(<<"c1", "c2">>) = "c2" /\ <<"c1", "c2">> # <<>>
    BY DEF Last
<1>5. Range(<<"c1", "c2">>) = {"c1", "c2"}
    <2>1. PICK t : t = <<"c1", "c2">>
        OBVIOUS
    <2>2. DOMAIN t = 1..2 /\ t[1] = "c1" /\ t[2] = "c2"
        BY <2>1
    <2>3. Range(t) = {"c1", "c2"}
        BY <1>1, <2>2 DEF Range
    <2> QED BY <2>1, <2>3
<1>6. Range(<<"c1", "c2", "c3">>) = {"c1", "c2", "c3"}
    <2>1. PICK t : t = <<"c1", "c2", "c3">>
        OBVIOUS
    <2>2. DOMAIN t = 1..3 /\ t[1] = "c1" /\ t[2] = "c2" /\ t[3] = "c3"
        BY <2>1
    <2>3. Range(t) = {"c1", "c2", "c3"}
        BY <1>2, <2>2 DEF Range
    <2> QED BY <2>1, <2>3
<1> QED
    BY <1>3, <1>4, <1>5, <1>6

\* What the owners stored is what the reads ask for.
LEMMA OwnReads ==
    ASSUME ids = OwnIds, rows = OwnRows, pos \in 1..8, Reads(cl, pos, Op)
    PROVE  Accepts(Op)
<1>1. CASE Op = TipIs("c1") /\ ((cl \in {2, 15} /\ pos = 3) \/ (cl = 12 /\ pos = 4))
    <2>1. ids = <<"c1">>
        BY <1>1 DEF OwnIds
    <2> QED BY <1>1, <2>1, IdsOfTuples, Demands
<1>2. CASE Op = TipIs("c2") /\ ((cl = 6 /\ pos \in {5, 7}) \/ (cl = 13 /\ pos = 6))
    <2>1. ids = <<"c1", "c2">>
        BY <1>2 DEF OwnIds
    <2> QED BY <1>2, <2>1, IdsOfTuples, Demands
<1>3. CASE Op = IdsAre({"c1"}) /\ ((cl = 5 /\ pos = 5) \/ (cl = 11 /\ pos = 6) \/ (cl = 15 /\ pos = 4))
    <2>1. ids = <<"c1">>
        BY <1>3 DEF OwnIds
    <2> QED BY <1>3, <2>1, IdsOfTuples, Demands
<1>4. CASE Op = IdsAre({"c1", "c2"}) /\ cl = 6 /\ pos = 8
    <2>1. ids = <<"c1", "c2">>
        BY <1>4 DEF OwnIds
    <2> QED BY <1>4, <2>1, IdsOfTuples, Demands
<1>5. CASE Op = WritesAre("c1", {"owned"}) /\ cl = 3 /\ pos = 4
    <2>1. rows = {<<"c1", "ch", "owned">>}
        BY <1>5 DEF OwnRows
    <2>2. PICK w : rows = {w} /\ w = <<"c1", "ch", "owned">>
        BY <2>1
    <2>3. w[1] = "c1" /\ w[3] = "owned"
        BY <2>2
    <2>4. {s \in rows : s[1] = "c1"} = {w}
        BY <2>2, <2>3
    <2>5. {r[3] : r \in {s \in rows : s[1] = "c1"}} = {"owned"}
        BY <2>3, <2>4
    <2> QED BY <1>5, <2>5, Demands
<1>6. CASE Op = WritesAre("c1", {}) /\ cl = 8 /\ pos = 5
    <2>1. rows = {}
        BY <1>6 DEF OwnRows
    <2>2. {r[3] : r \in {s \in rows : s[1] = "c1"}} = {}
        BY <2>1
    <2> QED BY <1>6, <2>2, Demands
<1>7. CASE Op = WritesAre("c1", {"current"}) /\ cl \in {9, 10} /\ pos = 6
    <2>1. rows = {<<"c1", "ch", "current">>} \/ rows = {<<"c1", "__resume__", "current">>}
        BY <1>7 DEF OwnRows
    <2>2. PICK w : rows = {w} /\ (w = <<"c1", "ch", "current">> \/ w = <<"c1", "__resume__", "current">>)
        BY <2>1
    <2>3. w[1] = "c1" /\ w[3] = "current"
        BY <2>2
    <2>4. {s \in rows : s[1] = "c1"} = {w}
        BY <2>2, <2>3
    <2>5. {r[3] : r \in {s \in rows : s[1] = "c1"}} = {"current"}
        BY <2>4, <2>3
    <2> QED BY <1>7, <2>5, Demands
<1>8. CASE Op = WritesAre("c2", {"recovered"}) /\ cl = 13 /\ pos = 7
    <2>1. rows = {<<"c2", "ch", "recovered">>}
        BY <1>8 DEF OwnRows
    <2>2. PICK w : rows = {w} /\ w = <<"c2", "ch", "recovered">>
        BY <2>1
    <2>3. w[1] = "c2" /\ w[3] = "recovered"
        BY <2>2
    <2>4. {s \in rows : s[1] = "c2"} = {w}
        BY <2>2, <2>3
    <2>5. {r[3] : r \in {s \in rows : s[1] = "c2"}} = {"recovered"}
        BY <2>4, <2>3
    <2> QED BY <1>8, <2>5, Demands
<1> QED
    BY <1>1, <1>2, <1>3, <1>4, <1>5, <1>6, <1>7, <1>8 DEF Reads

\* A write that is not checked returns.
LEMMA UncheckedReturns == ASSUME NEW o, ~Checked(o) PROVE WriteEnds(o) = "returns"
BY DEF WriteEnds

\* An owner is let write, and hears of nothing at the barrier.
LEMMA OwnersAccepted ==
    ASSUME ClaimsInv, saver \in Family, Regular, cl \in 1..15
    PROVE  /\ OwnerWrites(cl, pos, Op) => Accepts(Op)
           /\ Op = Barrier("a") /\ cl = 14 /\ pos = 5 => (Accepts(Op) <=> saver.barrier # "always")
<1>1. ASSUME OwnerWrites(cl, pos, Op)
      PROVE  Accepts(Op)
    <2>1. CASE \E h \in {"a", "b"}, c \in {"c1", "c2"} : Op = Put(h, c) /\ PutPlace(h, c)
        <3>1. PICK h \in {"a", "b"}, c \in {"c1", "c2"} : Op = Put(h, c) /\ PutPlace(h, c)
            BY <2>1
        <3>2. Owns(h)
            BY <3>1 DEF Owns, PutPlace, Contended
        <3>3. ~Checked(Put(h, c))
            BY <3>2, OwnerIsNotStale, PutEffect
        <3>4. WriteEnds(Put(h, c)) = "returns"
            BY <3>3, UncheckedReturns
        <3> QED BY <3>1, <3>3, <3>4, Demands
    <2>2. CASE \E h \in {"a", "b"}, c \in {"c1", "c2"}, ch \in {"ch", "__resume__"},
                     v \in {"owned", "current", "recovered", "v"} :
                     Op = Write(h, c, ch, v) /\ WritePlace(h, c, ch, v)
        <3>1. PICK h \in {"a", "b"}, c \in {"c1", "c2"}, ch \in {"ch", "__resume__"},
                      v \in {"owned", "current", "recovered", "v"} :
                     Op = Write(h, c, ch, v) /\ WritePlace(h, c, ch, v)
            BY <2>2
        <3>2. Owns(h)
            BY <3>1 DEF Owns, WritePlace, Contended
        <3>3. ~Checked(Write(h, c, ch, v))
            BY <3>2, OwnerIsNotStale, WriteEffect
        <3>4. WriteEnds(Write(h, c, ch, v)) = "returns"
            BY <3>3, UncheckedReturns
        <3> QED BY <3>1, <3>4, Demands
    <2> QED BY <1>1, <2>1, <2>2 DEF OwnerWrites, A2, PutPlace, WritePlace
<1>2. ASSUME cl = 14, pos = 5
      PROVE  BarrierEnds("a") = "returns" <=> saver.barrier # "always"
    <2>1. ~IsStale("a")
        BY <1>2, OwnerIsNotStale DEF Owns, Contended
    <2> QED BY <2>1, SaverFields DEF BarrierEnds
<1> QED
    BY <1>1, <1>2, Demands

\* A claim is accepted of anyone.
LEMMA ClaimsAccepted ==
    ASSUME Claims(cl, pos, Op)
    PROVE  Accepts(Op)
BY Demands DEF Claims, A1

\* What a stale write shows of a saver that checks it, or does not.
LEMMA StaleHeard ==
    ASSUME PlaceInv, saver \in Family, cl \in 1..15, pos \in 1..8,
           StalePuts(cl, pos, Op) \/ StalePutWrites(cl, pos, Op)
    PROVE  /\ SupportsWriteOwnership(saver) \/ saver = FenceRemoved => Accepts(Op)
           /\ Silent(saver) => ~Accepts(Op)
<1>1. cl \in Contended /\ pos >= 4 /\ ClaimsInv
    BY DEF StalePuts, StalePutWrites, Contended, PlaceInv
<1>2. PICK o : Op = Stale(o) /\ (\/ \E c \in {"c2", "c3"} : o = Put("a", c)
                                 \/ \E ch \in {"ch", "__resume__"} : o = Write("a", "c1", ch, "stale"))
    BY DEF StalePuts, StalePutWrites, StaleWrite
<1>3. o.h = "a"
    BY <1>2 DEF Put, Write
<1>4. IsStale("a") <=> saver.supersedes \in {"next", "saver", "always", "toggle"}
    BY <1>1, StaleOwner
<1>5. ASSUME SupportsWriteOwnership(saver)
      PROVE  observe_rejection(o)
    <2>1. /\ IsStale("a") /\ saver.enforce.put = "drop" /\ saver.enforce.writes = "drop" /\ saver.once = FALSE
          /\ saver.tells \in {"raise", "quiet"} /\ (saver.tells = "quiet" => saver.barrier = "current")
        BY <1>4, <1>5, Kinds
    <2>2. Checked(o)
        BY <1>2, <2>1, PutEffect, WriteEffect
    <2>3. CASE saver.tells = "raise"
        BY <2>2, <2>3 DEF WriteEnds, observe_rejection, is_stale_write_owner_rejection
    <2>4. CASE saver.tells = "quiet"
        <3>1. WriteEnds(o) = "returns" /\ BarrierEnds(o.h) = "marked"
            BY <1>3, <2>1, <2>2, <2>4 DEF WriteEnds, BarrierEnds
        <3> QED BY <3>1 DEF observe_rejection, is_stale_write_owner_rejection
    <2> QED BY <2>1, <2>3, <2>4
<1>6. ASSUME saver = FenceRemoved
      PROVE  observe_rejection(o)
    <2>1. IsStale("a") /\ saver.tells = "quiet" /\ saver.barrier = "current"
        BY <1>4, <1>6, Kinds
    <2>2. WriteEnds(o) = "returns" /\ BarrierEnds(o.h) = "marked"
        BY <1>3, <2>1 DEF WriteEnds, BarrierEnds
    <2> QED BY <2>2 DEF observe_rejection, is_stale_write_owner_rejection
<1> QED
    BY <1>2, <1>5, <1>6, Unheard, Demands

-----------------------------------------------------------------------------
(* Who passes a clause, and who fails it.                                   *)

LEMMA ContractAccepted ==
    ASSUME PlaceInv, saver \in Family, Running, SupportsWriteOwnership(saver)
    PROVE  Accepts(Op)
<1>1. ClaimsInv /\ ids = OwnIds /\ rows = OwnRows
    BY DEF PlaceInv, StaleWrites
<1>2. Regular /\ saver.barrier # "always"
    BY Kinds DEF Regular
<1> QED
    BY <1>1, <1>2, Here, ClaimsAccepted, OwnersAccepted, StaleHeard, OwnReads

\* A silent saver goes through the clauses without a stale write, and comes to the end of no other.
LEMMA SilentVerdicts ==
    ASSUME PlaceInv, saver \in Family, Running, Silent(saver)
    PROVE  /\ cl \notin EXPECTED_HOSTILE_FAILURES => Accepts(Op)
           /\ cl \in EXPECTED_HOSTILE_FAILURES => ~(Accepts(Op) /\ pos = Length[cl])
<1>1. ClaimsInv /\ pos <= StaleAt(cl) /\ cl \in 1..15 /\ pos \in 1..8
    BY Here DEF PlaceInv, StaleWrites
<1>2. Regular /\ saver.barrier # "always"
    BY Kinds DEF Regular
<1>3. ids = OwnIds /\ rows = OwnRows
    BY <1>1, <1>2 DEF PlaceInv, OwnersWrite
<1>4. cl \notin EXPECTED_HOSTILE_FAILURES => ~StalePuts(cl, pos, Op) /\ ~StalePutWrites(cl, pos, Op)
    BY DEF EXPECTED_HOSTILE_FAILURES, StalePuts, StalePutWrites
<1>5. cl \notin EXPECTED_HOSTILE_FAILURES => Accepts(Op)
    BY <1>1, <1>2, <1>3, <1>4, Here, ClaimsAccepted, OwnersAccepted, OwnReads
<1>6. ASSUME cl \in EXPECTED_HOSTILE_FAILURES, pos = Length[cl]
      PROVE  ~Accepts(Op)
    <2>1. cl \in {4, 7} /\ pos = 4
        BY <1>1, <1>6 DEF EXPECTED_HOSTILE_FAILURES, Length, StaleAt
    <2>2. StalePuts(cl, pos, Op) \/ StalePutWrites(cl, pos, Op)
        BY <1>1, <2>1, Here DEF Claims, OwnerWrites, Reads, Contended
    <2> QED BY <1>1, <2>2, StaleHeard
<1> QED
    BY <1>5, <1>6

\* Without the fence the bookkeeping comes to the end of all but the durability clauses.
LEMMA FenceRemovedVerdicts ==
    ASSUME PlaceInv, saver \in Family, Running, saver = FenceRemoved
    PROVE  /\ cl \notin DURABILITY_CLAUSES => Accepts(Op)
           /\ cl \in DURABILITY_CLAUSES => ~(Accepts(Op) /\ pos = Length[cl])
<1>1. ClaimsInv /\ StaleWrites /\ cl \in 1..15 /\ pos \in 1..8 /\ pos \in 1..Length[cl]
    BY Here DEF PlaceInv
<1>2. Regular /\ saver.barrier # "always"
    BY Kinds DEF Regular
<1>3. pos <= StaleAt(cl) => ids = OwnIds /\ rows = OwnRows
    BY <1>2 DEF PlaceInv, OwnersWrite
<1>4. StaleAt(cl) \in 4..9
    BY DEF StaleAt
<1>5. ASSUME cl \notin DURABILITY_CLAUSES, Reads(cl, pos, Op)
      PROVE  Accepts(Op)
    <2>1. CASE pos <= StaleAt(cl)
        BY <1>1, <1>3, <1>5, <2>1, OwnReads
    <2>2. CASE pos > StaleAt(cl)
        <3>1. cl = 9 /\ pos = 6
            BY <1>5, <2>2 DEF DURABILITY_CLAUSES, Reads, StaleAt
        <3>2. ids = OwnIds /\ rows = OwnRows
            BY <1>1, <2>2, <3>1 DEF StaleWrites, OwnIds, OwnRows
        <3> QED BY <1>1, <1>5, <3>2, OwnReads
    <2> QED BY <1>1, <1>4, <2>1, <2>2
<1>6. cl \notin DURABILITY_CLAUSES => Accepts(Op)
    BY <1>1, <1>2, <1>5, Here, ClaimsAccepted, OwnersAccepted, StaleHeard
<1>7. ASSUME cl \in DURABILITY_CLAUSES, pos = Length[cl]
      PROVE  ~Accepts(Op)
    <2>1. pos > StaleAt(cl) /\ ~(cl = 6)
        BY <1>1, <1>7 DEF DURABILITY_CLAUSES, Length, StaleAt, StaleWrites
    <2>2. CASE cl = 5
        <3>1. Op = IdsAre({"c1"})
            BY <1>7, <2>2, Clauses DEF Op, Length
        <3>2. ids = <<"c1", "c2">>
            BY <1>1, <2>1, <2>2 DEF StaleWrites
        <3>3. "c2" \in Range(ids)
            BY <3>2, IdsOfTuples
        <3> QED BY <3>1, <3>3, Demands
    <2>3. CASE cl = 11
        <3>1. Op = IdsAre({"c1"}) /\ pos = 6
            BY <1>7, <2>3, Clauses DEF Op, Length
        <3>2. ids = <<"c1", "c2", "c3">>
            BY <1>1, <2>1, <2>3, <3>1 DEF StaleWrites
        <3>3. "c2" \in Range(ids)
            BY <3>2, IdsOfTuples
        <3> QED BY <3>1, <3>3, Demands
    <2>4. CASE cl = 8
        <3>1. Op = WritesAre("c1", {})
            BY <1>7, <2>4, Clauses DEF Op, Length
        <3>2. PICK w : w = <<"c1", "ch", "stale">>
            OBVIOUS
        <3>3. w \in rows /\ w[1] = "c1" /\ w[3] = "stale"
            BY <1>1, <2>1, <2>4, <3>2 DEF StaleWrites
        <3>4. "stale" \in {r[3] : r \in {s \in rows : s[1] = "c1"}}
            BY <3>3
        <3>5. {r[3] : r \in {s \in rows : s[1] = "c1"}} \notin {{}, {"current"}}
            BY <3>4
        <3> QED BY <3>1, <3>5, Demands
    <2>5. CASE cl = 10
        <3>1. Op = WritesAre("c1", {"current"})
            BY <1>7, <2>5, Clauses DEF Op, Length
        <3>2. PICK w : w = <<"c1", "__resume__", "stale">>
            OBVIOUS
        <3>3. w \in rows /\ w[1] = "c1" /\ w[3] = "stale"
            BY <1>1, <2>1, <2>5, <3>2 DEF StaleWrites
        <3>4. "stale" \in {r[3] : r \in {s \in rows : s[1] = "c1"}}
            BY <3>3
        <3>5. {r[3] : r \in {s \in rows : s[1] = "c1"}} \notin {{}, {"current"}}
            BY <3>4
        <3> QED BY <3>1, <3>5, Demands
    <2> QED BY <1>7, <2>1, <2>2, <2>3, <2>4, <2>5 DEF DURABILITY_CLAUSES
<1> QED
    BY <1>6, <1>7

\* The last operation of a clause passes only on savers of which it shows what it should.
LEMMA PassEarns ==
    ASSUME PlaceInv, saver \in Family, Running, Accepts(Op), pos = Length[cl]
    PROVE  Earned
<1>1. ClaimsInv /\ OwnersWrite /\ Found /\ cl \in 1..15 /\ pos \in 1..8
    BY Here DEF PlaceInv
<1>2. ASSUME cl = 4, saver.supersedes \in {"next", "toggle"}, saver.enforce.put = "drop"
      PROVE  saver.tells = "raise" \/ (saver.tells = "quiet" /\ saver.barrier \in {"current", "always"})
    <2>1. pos = 4 /\ Op = Stale(Put("a", "c2"))
        BY <1>2, Clauses DEF Op, Length
    <2>2. PICK o : o = Put("a", "c2")
        OBVIOUS
    <2>3. o.h = "a"
        BY <2>2 DEF Put
    <2>4. observe_rejection(o)
        BY <2>1, <2>2, Demands
    <2>5. spent = {} /\ IsStale("a")
        BY <1>1, <1>2, <2>1, StaleOwner DEF OwnersWrite, Regular, StaleAt, Contended
    <2>6. Checked(o)
        BY <1>2, <2>2, <2>5, PutEffect
    <2>7. CASE saver.tells = "unmarked"
        <3>1. WriteEnds(o) = "unmarked"
            BY <2>6, <2>7 DEF WriteEnds
        <3> QED BY <2>4, <3>1 DEF observe_rejection, is_stale_write_owner_rejection
    <2>8. CASE saver.tells = "quiet"
        <3>1. WriteEnds(o) = "returns"
            BY <2>6, <2>8 DEF WriteEnds
        <3>2. BarrierEnds("a") = "marked"
            BY <2>4, <2>3, <3>1 DEF observe_rejection, is_stale_write_owner_rejection
        <3>3. saver.barrier \notin {"none", "fine", "unmarked"}
            BY <2>5, <3>2 DEF BarrierEnds
        <3> QED BY <2>8, <3>3, SaverFields
    <2> QED BY <2>7, <2>8, SaverFields
<1>3. ASSUME cl = 5
      PROVE  saver.enforce.put = "drop" /\ saver.supersedes \in {"next", "saver", "always", "toggle"}
    <2>1. pos = 5 /\ Op = IdsAre({"c1"})
        BY <1>3, Clauses DEF Op, Length
    <2>2. "c2" \notin Range(ids)
        BY <2>1, Demands
    <2> QED BY <1>1, <1>3, <2>1, <2>2 DEF Found
<1>4. ASSUME cl = 8
      PROVE  saver.enforce.writes = "drop"
    <2>1. pos = 5 /\ Op = WritesAre("c1", {})
        BY <1>4, Clauses DEF Op, Length
    <2>2. {r[3] : r \in {s \in rows : s[1] = "c1"}} = {}
        BY <2>1, Demands
    <2>3. ~ \E r \in rows : r[1] = "c1"
        BY <2>2
    <2> QED BY <1>1, <1>4, <2>1, <2>3 DEF Found
<1>5. ASSUME cl = 11, saver.supersedes \in {"next", "toggle"}, saver.enforce.put = "drop"
      PROVE  ~saver.once
    <2>1. pos = 6 /\ Op = IdsAre({"c1"})
        BY <1>5, Clauses DEF Op, Length
    <2>2. "c3" \notin Range(ids)
        BY <2>1, Demands
    <2> QED BY <1>1, <1>5, <2>1, <2>2 DEF Found
<1>6. cl = 12 /\ saver.enforce.put = "drop" => saver.supersedes \notin {"saver", "always"}
    BY <1>1 DEF Found, Length
<1>7. ASSUME cl = 14
      PROVE  saver.barrier # "always"
    <2>1. Op = Barrier("a")
        BY <1>7, Clauses DEF Op, Length
    <2>2. BarrierEnds("a") = "returns"
        BY <2>1, Demands
    <2> QED BY <2>2 DEF BarrierEnds
<1> QED
    BY <1>2, <1>3, <1>4, <1>5, <1>6, <1>7 DEF Earned

-----------------------------------------------------------------------------
(* The invariant is inductive.                                              *)

LEMMA InitHolds == Init => IInv
<1> SUFFICES ASSUME Init
             PROVE  IInv
    OBVIOUS
<1>1. /\ saver \in Savers /\ cl = 1 /\ pos = 1 /\ token = NoClaims /\ handle = NoHandles
      /\ spent = {} /\ ids = <<>> /\ rows = {} /\ failures = {} /\ aborted = FALSE /\ interrupted = FALSE
    BY DEF Init
<1>2. ClaimsInv
    <2>1. pos <= Len(ALL_WRITE_OWNERSHIP_TESTS[cl])
        BY <1>1, Clauses
    <2>2. HandleA = NoHandle /\ HandleB = NoHandle
        BY <1>1 DEF HandleA, HandleB, Contended
    <2>3. handle = [h \in {"a", "b"} |-> IF h = "a" THEN HandleA ELSE HandleB]
        BY <1>1, <2>2 DEF NoHandles
    <2>4. token = [t \in {"t1", "t2"} |->
                      IF t = "t1" THEN IF pos = 1 THEN 0 ELSE IF cl \in Contended /\ pos >= 4 THEN 2 ELSE 1
                      ELSE IF cl = 12 /\ pos >= 3 THEN 1 ELSE 0]
        BY <1>1 DEF NoClaims
    <2> QED BY <1>1, <2>1, <2>3, <2>4 DEF ClaimsInv
<1>3. StoreInv
    <2>1. Range(<<>>) = {} /\ <<>> \in Seq({"c1", "c2", "c3"}) /\ IsInjective(<<>>)
        BY DEF Range, IsInjective
    <2> QED BY <1>1, <2>1 DEF StoreInv
<1>4. OwnIds = <<>> /\ OwnRows = {} /\ StaleAt(cl) = 9
    BY <1>1 DEF OwnIds, OwnRows, StaleAt
<1>5. OwnersWrite /\ StaleWrites /\ Found
    BY <1>1, <1>4 DEF OwnersWrite, StaleWrites, Found
<1>6. Verdicts
    BY <1>1 DEF Verdicts, Judged
<1>7. Interrupts
    BY <1>1 DEF Interrupts
<1> QED
    BY <1>1, <1>2, <1>3, <1>5, <1>6, <1>7 DEF IInv

\* Every operation keeps the invariant.
LEMMA OperateStep ==
    ASSUME IInv, Operate
    PROVE  IInv'
<1>1. /\ saver \in Family /\ PlaceInv /\ Running /\ Verdicts /\ Interrupts /\ ClaimsInv
      /\ saver' = saver /\ aborted' = aborted /\ interrupted' = interrupted
    BY SaverInFamily DEF IInv, PlaceInv, Operate
<1>2. /\ cl \in 1..15 /\ Len(ALL_WRITE_OWNERSHIP_TESTS[cl]) = Length[cl] /\ ~aborted
      /\ pos \in 1..Length[cl] /\ Length[cl] \in 1..8
    BY <1>1, Here
<1>3. PlaceInv'
    BY <1>1, OperateKeeps
<1>4. Verdicts' /\ failures \subseteq failures'
    <2>1. CASE Accepts(Op) /\ pos < Length[cl]
        <3>1. cl' = cl /\ failures' = failures
            BY <1>2, <2>1 DEF Operate
        <3> QED BY <1>1, <3>1 DEF Verdicts, Judged
    <2>2. CASE Accepts(Op) /\ ~(pos < Length[cl])
        <3>1. cl' = cl + 1 /\ failures' = failures /\ pos = Length[cl]
            BY <1>2, <2>2 DEF Operate, NextClause
        <3>2. Earned
            BY <1>1, <2>2, <3>1, PassEarns
        <3>3. /\ Silent(saver) => cl \notin EXPECTED_HOSTILE_FAILURES
              /\ saver = FenceRemoved => cl \notin DURABILITY_CLAUSES
            BY <1>1, <2>2, <3>1, SilentVerdicts, FenceRemovedVerdicts
        <3> QED BY <1>1, <1>2, <3>1, <3>2, <3>3, ClauseJudged
    <2>3. CASE ~Accepts(Op)
        <3>1. cl' = cl + 1 /\ failures' = failures \union {cl}
            BY <1>2, <2>3 DEF Operate, Fails, NextClause
        <3>2. cl \notin failures
            BY <1>1, <1>2 DEF Verdicts
        <3>3. /\ ~SupportsWriteOwnership(saver)
              /\ Silent(saver) => cl \in EXPECTED_HOSTILE_FAILURES
              /\ saver = FenceRemoved => cl \in DURABILITY_CLAUSES
            BY <1>1, <2>3, ContractAccepted, SilentVerdicts, FenceRemovedVerdicts
        <3>4. failures' # failures
            BY <3>1, <3>2
        <3> QED BY <1>1, <1>2, <3>1, <3>3, <3>4, ClauseJudged
    <2> QED BY <2>1, <2>2, <2>3
<1>5. Interrupts'
    BY <1>1, <1>2, <1>4 DEF Interrupts
<1> QED
    BY <1>1, <1>3, <1>4, <1>5 DEF IInv, PlaceInv

\* So does an interrupt.
LEMMA InterruptStep ==
    ASSUME IInv, Interrupt
    PROVE  IInv'
<1>1. /\ saver \in Savers /\ PlaceInv /\ Running /\ Verdicts /\ ClaimsInv
      /\ saver' = saver /\ interrupted' = TRUE /\ aborted \in BOOLEAN
    BY DEF IInv, PlaceInv, Interrupt
<1>2. cl \in 1..15
    BY <1>1, Here
<1>3. CASE Op.op = "stale"
    <2>1. Fails /\ aborted' = aborted
        BY <1>3 DEF Interrupt, is_stale_write_owner_rejection
    <2>2. NextClause /\ cl' = cl + 1 /\ failures' = failures \union {cl}
        BY <2>1 DEF Fails, NextClause
    <2>3. PlaceInv'
        BY <1>1, <1>2, <2>2, NextClauseKeeps
    <2>4. Verdicts'
        BY <1>1, <1>2, <2>2, ClauseJudged
    <2>5. Interrupts'
        BY <2>2 DEF Interrupts
    <2> QED BY <1>1, <2>1, <2>3, <2>4, <2>5 DEF IInv, PlaceInv
<1>4. CASE Op.op # "stale"
    <2>1. aborted' = TRUE /\ UNCHANGED <<cl, pos, token, handle, spent, ids, rows, failures>>
        BY <1>4 DEF Interrupt
    <2>2. ClaimsInv'
        BY <1>1, <2>1 DEF ClaimsInv, HandleA, HandleB
    <2>3. StoreInv' /\ Found'
        BY <1>1, <2>1 DEF PlaceInv, StoreInv, Found
    <2>4. OwnersWrite' /\ StaleWrites'
        BY <1>1, <2>1 DEF PlaceInv, OwnersWrite, StaleWrites, OwnIds, OwnRows, Regular
    <2>5. Verdicts'
        BY <1>1, <2>1 DEF Verdicts, Judged
    <2>6. Interrupts'
        BY <1>1, <1>2, <2>1 DEF Interrupts
    <2> QED BY <1>1, <2>1, <2>2, <2>3, <2>4, <2>5, <2>6 DEF IInv
<1> QED
    BY <1>3, <1>4

\* The invariant is inductive.
LEMMA StepHolds == IInv /\ [Next]_vars => IInv'
<1> SUFFICES ASSUME IInv, [Next]_vars
             PROVE  IInv'
    OBVIOUS
<1>1. CASE Operate
    BY <1>1, OperateStep
<1>2. CASE Interrupt
    BY <1>2, InterruptStep
<1>3. CASE UNCHANGED vars
    <2>1. /\ saver' = saver /\ aborted' = aborted /\ interrupted' = interrupted /\ failures' = failures
          /\ UNCHANGED <<cl, pos, token, handle, spent, ids, rows>>
        BY <1>3 DEF vars
    <2>2. ClaimsInv'
        BY <2>1 DEF IInv, ClaimsInv, HandleA, HandleB
    <2>3. StoreInv' /\ Found'
        BY <2>1 DEF IInv, StoreInv, Found
    <2>4. OwnersWrite' /\ StaleWrites'
        BY <2>1 DEF IInv, OwnersWrite, StaleWrites, OwnIds, OwnRows, Regular
    <2>5. Verdicts' /\ Interrupts'
        BY <2>1 DEF IInv, Verdicts, Judged, Interrupts
    <2> QED BY <2>1, <2>2, <2>3, <2>4, <2>5 DEF IInv
<1> QED
    BY <1>1, <1>2, <1>3 DEF Next, Done

\* The places, what is stored there and the verdicts so far, in every state.
THEOREM Invariance == Spec => []IInv
<1> QED BY InitHolds, StepHolds, PTL DEF Spec

-----------------------------------------------------------------------------
(* The properties.                                                          *)

LEMMA IInvImpliesInv == IInv => Inv
<1> SUFFICES ASSUME IInv
             PROVE  Inv
    OBVIOUS
<1>1. Len(ALL_WRITE_OWNERSHIP_TESTS) = 15
    BY Clauses
<1>2. cl \in 1..16 /\ pos \in 1..9 /\ spent \subseteq {"a", "b"}
    BY DEF IInv, ClaimsInv, StoreInv
<1>3. token \in [{"t1", "t2"} -> 0..2]
    <2>1. PICK x \in 0..2, y \in 0..2 : token = [t \in {"t1", "t2"} |-> IF t = "t1" THEN x ELSE y]
        BY DEF IInv, ClaimsInv
    <2> QED BY <2>1
<1>4. \A h \in {"a", "b"} : handle[h].token \in 0..2
    <2>1. handle["a"] = HandleA /\ handle["b"] = HandleB
        BY DEF IInv, ClaimsInv
    <2>2. NoHandle.token = 0
        BY DEF NoHandle
    <2>3. HandleA.token \in 0..2
        BY <2>2 DEF HandleA
    <2>4. HandleB.token \in 0..2
        BY <2>2 DEF HandleB
    <2> QED BY <2>1, <2>3, <2>4
<1>5. /\ ids \in Seq({"c1", "c2", "c3"}) /\ IsInjective(ids)
      /\ \A r \in rows : r[1] \in Range(ids)
    BY DEF IInv, StoreInv
<1>6. failures \subseteq 1..15
    <2>1. \A k \in 1..(cl - 1) : k \in 1..15
        BY <1>2
    <2> QED BY <2>1 DEF IInv, Verdicts
<1>7. TypeOK
    BY <1>1, <1>2, <1>3, <1>4, <1>5, <1>6 DEF TypeOK, IInv
<1>8. InterruptNeverPasses
    BY <1>1, <1>2 DEF InterruptNeverPasses, Passes, Over, IInv, Interrupts
<1> QED
    BY <1>7, <1>8 DEF Inv

\* The state stays within its types, and a run that was cancelled or interrupted
\* (the runner's loop catches no BaseException, observe_rejection does) never ends in a
\* verdict of conformance, whatever the saver.
THEOREM InterruptsNeverPass == Spec => []Inv
<1> QED BY Invariance, IInvImpliesInv, PTL

\* Every saver of the family that keeps the contract passes every clause.
THEOREM TheContractPasses == Spec => []ContractPasses
<1>1. IInv => ContractPasses
    BY DEF IInv, Verdicts, ContractPasses
<1> QED BY <1>1, Invariance, PTL

\* Every saver that passes every clause keeps the contract, up to the one thing
\* no clause asks: three claims of one thread.
THEOREM PassingMeansTheContract == Spec => []PassMeansContract
<1>1. IInv => PassMeansContract
    <2> SUFFICES ASSUME IInv, Passes
                 PROVE  SupportsWriteOwnership([saver EXCEPT !.supersedes = IF @ = "toggle" THEN "next" ELSE @])
        BY DEF PassMeansContract
    <2>1. cl = 16 /\ failures = {} /\ saver \in Family
        BY Clauses, SaverInFamily DEF Passes, Over, IInv, ClaimsInv
    <2>2. \A k \in 1..15 : Judged(k)
        BY <2>1 DEF Judged
    <2>3. /\ saver.enforce.put = "drop" /\ saver.enforce.writes = "drop"
          /\ saver.supersedes \in {"next", "toggle"}
        BY <2>2 DEF IInv, Verdicts
    <2>4. /\ saver.tells = "raise" \/ (saver.tells = "quiet" /\ saver.barrier \in {"current", "always"})
          /\ ~saver.once /\ saver.barrier # "always"
        BY <2>2, <2>3 DEF IInv, Verdicts
    <2>5. PICK s : s = [saver EXCEPT !.supersedes = IF @ = "toggle" THEN "next" ELSE @]
        OBVIOUS
    <2>6. saver = [supersedes |-> saver.supersedes, enforce |-> saver.enforce, tells |-> saver.tells,
                   barrier |-> saver.barrier, once |-> saver.once]
        BY <2>1, SaverFields DEF Saver
    <2>7. /\ s.supersedes = "next" /\ s.enforce = saver.enforce /\ s.tells = saver.tells
          /\ s.barrier = saver.barrier /\ s.once = saver.once
        BY <2>3, <2>5, <2>6
    <2>8. s.enforce = [put |-> "drop", writes |-> "drop"]
        BY <2>1, <2>3, <2>7, SaverFields
    <2> QED BY <2>4, <2>5, <2>7, <2>8 DEF SupportsWriteOwnership
<1> QED BY <1>1, Invariance, PTL

\* A saver that never tells the loser fails the eight clauses one without any
\* enforcement fails, whatever it stores; the deferred bookkeeping without the
\* fence fails the five durability clauses.
THEOREM SilenceFails == Spec => []SilenceIsNoEnforcement
<1>1. IInv => SilenceIsNoEnforcement
    <2> SUFFICES ASSUME IInv, Over, ~interrupted
                 PROVE  /\ Silent(saver) => failures = EXPECTED_HOSTILE_FAILURES
                        /\ saver = FenceRemoved => failures = DURABILITY_CLAUSES
        BY DEF SilenceIsNoEnforcement
    <2>1. cl = 16
        BY Clauses DEF Over, IInv, ClaimsInv
    <2>2. \A k : k \in 1..(cl - 1) <=> k \in 1..15
        BY <2>1
    <2>3. EXPECTED_HOSTILE_FAILURES \subseteq 1..15 /\ DURABILITY_CLAUSES \subseteq 1..15
        BY DEF EXPECTED_HOSTILE_FAILURES, DURABILITY_CLAUSES
    <2>4. /\ Silent(saver) => failures = (1..(cl - 1)) \intersect EXPECTED_HOSTILE_FAILURES
          /\ saver = FenceRemoved => failures = (1..(cl - 1)) \intersect DURABILITY_CLAUSES
        BY DEF IInv, Verdicts
    <2>5. /\ (1..(cl - 1)) \intersect EXPECTED_HOSTILE_FAILURES = EXPECTED_HOSTILE_FAILURES
          /\ (1..(cl - 1)) \intersect DURABILITY_CLAUSES = DURABILITY_CLAUSES
        BY <2>2, <2>3
    <2> QED BY <2>4, <2>5
<1> QED BY <1>1, Invariance, PTL
=============================================================================
