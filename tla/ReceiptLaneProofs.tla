-------------------------- MODULE ReceiptLaneProofs --------------------------
(***************************************************************************)
(* Theorems about ReceiptLane, for any number of blocks, transactions and  *)
(* processes and any size of the table and of its pages.                   *)
(***************************************************************************)
EXTENDS ReceiptLane, FiniteSetTheorems, WellFoundedInduction, TLAPS

Chain_ == [first : Block, through : Block \cup {0}, halted : BOOLEAN]
Block_ == [got : Nat, bulk : BOOLEAN, receipts : BOOLEAN, all_logs : BOOLEAN,
           transfer_logs : BOOLEAN, conflict : BOOLEAN]
Lane_ == [processed : Block \cup {0}, through : Block \cup {0},
          status : {"starting", "indexing", "caught_up", "retrying", "persistent_partial"}]
Pc_ == {"idle", "mark", "bulk", "missing", "conflict", "span", "plan", "persist", "release", "flush"}
Proc_ == [draining : BOOLEAN, cursor : 1 .. N + 1, step : {"idle", "page", "defer", "recent"},
          todo : SUBSET Block, mark : 0 .. N + 1, follow : BOOLEAN, pc : Pc_,
          held : SUBSET (Job \X Token), proven : SUBSET Block, todoLogs : SUBSET Block,
          ceiling : Block \cup {0}]

(***************************************************************************)
(* The inductive invariant.                                                *)
(***************************************************************************)
\* What is stored of a block: receipts are never more than its transactions,
\* and both the receipt flag and a certificate mean that all of them are there.
EvidenceOK ==
  \A b \in Block :
    /\ block[b].got <= TxCount[b]
    /\ block[b].receipts \/ cert[b] # {} => block[b].got = TxCount[b]

\* The lane's row is covered by blocks that are sealed now.
SealedBelow == \A b \in Block : b <= lane.through => b \in Sealed

\* A lease that runs has an owner.
LeaseOK == \A j \in Job : work[j].live => work[j].state = "leased" /\ work[j].owner \in Proc

\* A process has one token of a job at a time; the one that is about to claim a
\* span has one lease; a cursor that was read is one, and the recent list ends at a block.
Memory(b) ==
  /\ \A j \in Job, t, u \in Token : <<j, t>> \in b.held /\ <<j, u>> \in b.held => t = u
  /\ b.pc = "span" => \E h \in Job \X Token : b.held = {h}
  /\ b.step = "defer" => b.mark \in 1 .. N + 1
  /\ b.step = "recent" => b.mark \in Block \cup {0}
MemoryOK == \A p \in Proc : Memory(proc[p])

IInv == /\ TypeOK /\ EvidenceOK /\ SealedBelow /\ LeaseOK /\ MemoryOK
        /\ CertifiedIsDone /\ WithinCapacity

-----------------------------------------------------------------------------
(***************************************************************************)
(* Numbers and sets.                                                       *)
(***************************************************************************)
\* A set of naturals has a least member: of the intervals from 0 to its members
\* one strictly contains no other.
LEMMA MinIn ==
  ASSUME NEW S \in SUBSET Nat, S # {}
  PROVE  Min(S) \in S /\ \A y \in S : Min(S) <= y
<1> DEFINE R == StrictSubsetOrdering(Nat)
           F == FiniteSubsetsOf(Nat)
           U == {0 .. x : x \in S}
<1>1. \A x \in S : 0 .. x \in F
  BY FS_Interval DEF FiniteSubsetsOf
<1>2. U \subseteq F /\ U # {}
  BY <1>1
<1>3. IsWellFoundedOn(R, F)
  BY FS_StrictSubsetOrderingWellFounded
<1>4. PICK A \in U : \A B \in U : <<B, A>> \notin R
  <2> HIDE DEF R, F, U
  <2> QED BY <1>2, <1>3, WFMin
<1>5. PICK x \in S : A = 0 .. x
  OBVIOUS
<1>6. ASSUME NEW y \in S, y < x  PROVE FALSE
  <2>1. 0 .. y \subseteq 0 .. x /\ 0 .. y # 0 .. x /\ 0 .. y \in U
    BY <1>6
  <2>2. <<0 .. y, A>> \in R
    BY <2>1, <1>5 DEF StrictSubsetOrdering
  <2> QED BY <1>4, <2>1, <2>2
<1>7. \A y \in S : x <= y
  BY <1>6
<1> QED BY <1>7 DEF Min

\* The greatest number up to a bound is the least distance from it.
LEMMA MaxIn ==
  ASSUME NEW n \in Nat, NEW S \in SUBSET (0 .. n), S # {}
  PROVE  Max(S) \in S /\ \A y \in S : y <= Max(S)
<1> DEFINE D == {n - x : x \in S}
<1>1. D \in SUBSET Nat /\ D # {}
  OBVIOUS
<1>2. Min(D) \in D /\ \A y \in D : Min(D) <= y
  <2> HIDE DEF D
  <2> QED BY <1>1, MinIn
<1>3. PICK x \in S : Min(D) = n - x
  BY <1>2
<1>4. \A y \in S : y <= x
  BY <1>2, <1>3
<1> QED BY <1>4 DEF Max

\* The larger and the smaller of two, the largest of three.
LEMMA MaxOfTwo ==
  ASSUME NEW i \in Nat, NEW j \in Nat
  PROVE  Max({i, j}) \in {i, j} /\ i <= Max({i, j}) /\ j <= Max({i, j})
BY DEF Max

LEMMA MinOfTwo ==
  ASSUME NEW i \in Nat, NEW j \in Nat
  PROVE  Min({i, j}) \in {i, j} /\ Min({i, j}) <= i /\ Min({i, j}) <= j
BY DEF Min

LEMMA MaxOfThree ==
  ASSUME NEW i \in Nat, NEW j \in Nat, NEW k \in Nat
  PROVE  Max({i, j, k}) \in {i, j, k} /\ \A x \in {i, j, k} : x <= Max({i, j, k})
<1>1. \E x \in {i, j, k} : \A y \in {i, j, k} : x >= y
  <2>1. CASE i >= j /\ i >= k
    BY <2>1
  <2>2. CASE j >= i /\ j >= k
    BY <2>2
  <2>3. CASE k >= i /\ k >= j
    BY <2>3
  <2> QED BY <2>1, <2>2, <2>3
<1> QED BY <1>1 DEF Max

LEMMA Numbers ==
  /\ N \in Nat \ {0} /\ TxCount \in [Block -> Nat] /\ IsFiniteSet(Proc) /\ NoProc \notin Proc
  /\ MaxWork \in Nat
  /\ Block = 1 .. N /\ IsFiniteSet(Job)
  /\ Cardinality(Proc) \in Nat
<1>1. N \in Nat \ {0} /\ TxCount \in [Block -> Nat] /\ IsFiniteSet(Proc) /\ NoProc \notin Proc /\ MaxWork \in Nat
  BY LaneConstants
<1>2. IsFiniteSet(Block) /\ Block = 1 .. N
  BY <1>1, FS_Interval DEF Block
<1>3. IsFiniteSet(Logs) /\ IsFiniteSet({"receipts"})
  <2>1. IsFiniteSet({"all_logs"}) /\ IsFiniteSet({"receipts"})
    BY FS_Singleton
  <2>2. IsFiniteSet({"all_logs"} \cup {"transfer_logs"})
    BY <2>1, FS_AddElement
  <2>3. {"all_logs"} \cup {"transfer_logs"} = Logs
    BY DEF Logs
  <2> QED BY <2>1, <2>2, <2>3
<1>4. IsFiniteSet(Comp)
  BY <1>3, FS_Union DEF Comp
<1>5. IsFiniteSet(Job)
  BY <1>2, <1>4, FS_Product DEF Job
<1> QED BY <1>1, <1>2, <1>5, FS_CardinalityType

-----------------------------------------------------------------------------
(***************************************************************************)
(* What is done to the job table.                                          *)
(***************************************************************************)
LEMMA Rows ==
  /\ NoRow \in Row /\ Pending \in Row
  /\ NoRow.state = "none" /\ NoRow.live = FALSE
  /\ Pending.state = "pending" /\ Pending.live = FALSE
<1>1. 0 \in Token
  BY Numbers DEF Token
<1> QED BY <1>1 DEF NoRow, Pending, Row

\* Pruning drops complete rows and nothing else.
LEMMA PrunedOK ==
  ASSUME NEW w \in [Job -> Row], NEW v \in Pruned(w)
  PROVE  /\ v \in [Job -> Row]
         /\ \A j \in Job : v[j] = w[j] \/ (w[j].state = "complete" /\ v[j] = NoRow)
<1> DEFINE done == {j \in Job : w[j].state = "complete"}
<1>1. PICK k \in SUBSET done : v = [j \in Job |-> IF j \in done \ k THEN NoRow ELSE w[j]]
  BY DEF Pruned
<1> QED BY <1>1, Rows

LEMMA SettledOK ==
  ASSUME NEW w \in [Job -> Row], NEW c \in BOOLEAN, NEW v \in Settled(w, c)
  PROVE  /\ v \in [Job -> Row]
         /\ \A j \in Job : v[j] = w[j] \/ (w[j].state = "complete" /\ v[j] = NoRow)
BY PrunedOK DEF Settled

LEMMA EnqueuedOK ==
  ASSUME NEW w \in [Job -> Row], NEW js
  PROVE  /\ Enqueued(w, js) \in [Job -> Row]
         /\ \A j \in Job :
              \/ Enqueued(w, js)[j] = w[j]
              \/ j \in js /\ w[j].state = "none" /\ Enqueued(w, js)[j] = Pending
BY Rows DEF Enqueued, Missing

LEMMA FinishedOK ==
  ASSUME NEW w \in [Job -> Row], NEW j \in Job, NEW c \in BOOLEAN
  PROVE  /\ Finished(w, j, c) \in [Job -> Row]
         /\ Finished(w, j, c)[j].live = FALSE
         /\ \A k \in Job \ {j} : Finished(w, j, c)[k] = w[k]
<1> DEFINE new == [NoRow EXCEPT !.state = IF c THEN "complete" ELSE "retrying", !.again = ~c]
<1>1. new \in Row /\ new.live = FALSE
  BY Rows DEF Row, NoRow
<1>2. Finished(w, j, c) = [w EXCEPT ![j] = new]
  BY DEF Finished
<1> HIDE DEF new
<1> QED BY <1>1, <1>2

\* Each process has at most one token of a job, and there is one more token
\* than there are processes.
LEMMA FreshOK ==
  ASSUME MemoryOK, NEW j \in Job
  PROVE  Fresh(j) \in Token
<1> DEFINE Free(t) == \A p \in Proc : <<j, t>> \notin proc[p].held
<1>1. IsFiniteSet(Token) /\ Cardinality(Proc) < Cardinality(Token)
  BY Numbers, FS_Interval DEF Token
<1>2. ASSUME \A t \in Token : ~Free(t)  PROVE FALSE
  <2> DEFINE f == [t \in Token |-> CHOOSE p \in Proc : <<j, t>> \in proc[p].held]
  <2>1. \A t \in Token : f[t] \in Proc /\ <<j, t>> \in proc[f[t]].held
    BY <1>2
  <2>2. f \in [Token -> Proc]
    BY <2>1
  <2> HIDE DEF f
  <2>3. PICK t, u \in Token : t # u /\ f[t] = f[u]
    BY <1>1, <2>2, Numbers, FS_PigeonHole
  <2> QED BY <2>1, <2>3 DEF MemoryOK, Memory
<1> QED BY <1>2 DEF Fresh

\* The row of a claimed job.
LeasedBy(p, j) ==
  [state |-> "leased", owner |-> p, token |-> Fresh(j), live |-> TRUE, again |-> work[j].again]

LEMMA ClaimedOK ==
  ASSUME work \in [Job -> Row], MemoryOK, NEW p \in Proc, NEW js \in SUBSET Job
  PROVE  /\ Claimed(p, js) \in [Job -> Row]
         /\ Leases(js) \subseteq Job \X Token
         /\ \A j \in Job : Claimed(p, js)[j] = IF j \in js THEN LeasedBy(p, j) ELSE work[j]
<1>1. \A j \in js : Fresh(j) \in Token
  BY FreshOK
<1>2. \A j \in js : LeasedBy(p, j) \in Row
  BY <1>1 DEF LeasedBy, Row
<1>3. Claimed(p, js) = [j \in Job |-> IF j \in js THEN LeasedBy(p, j) ELSE work[j]]
  BY DEF Claimed, LeasedBy
<1>4. Leases(js) \subseteq Job \X Token
  BY <1>1 DEF Leases
<1> QED BY <1>2, <1>3, <1>4

-----------------------------------------------------------------------------
(***************************************************************************)
(* The rules about the table.                                              *)
(***************************************************************************)
\* Nothing but a new row makes a job open.
NoneOpens(v, w) == \A j \in Job : v[j].state \notin {"none", "complete"} => w[j].state \notin {"none", "complete"}

LEMMA Smaller ==
  ASSUME NEW w \in [Job -> Row], NEW v \in [Job -> Row], NoneOpens(v, w), Outstanding(w) <= MaxWork
  PROVE  Outstanding(v) <= MaxWork
<1>1. Open(v) \in SUBSET Open(w) /\ Open(w) \in SUBSET Job
  BY DEF NoneOpens, Open
<1>2. IsFiniteSet(Open(w))
  BY <1>1, Numbers, FS_Subset
<1>3. Cardinality(Open(v)) \in Nat /\ Cardinality(Open(v)) <= Cardinality(Open(w)) /\ Cardinality(Open(w)) \in Nat
  BY <1>1, <1>2, FS_Subset, FS_CardinalityType
<1> QED BY <1>3, Numbers DEF Outstanding

\* There was room for the new rows.
LEMMA Larger ==
  ASSUME NEW w \in [Job -> Row], NEW js, IsFiniteSet(js), HasRoom(w, js), Outstanding(w) <= MaxWork
  PROVE  Outstanding(Enqueued(w, js)) <= MaxWork
<1> DEFINE v == Enqueued(w, js)
           M == Missing(w, js)
<1>1. Open(v) \in SUBSET (Open(w) \cup M) /\ Open(w) \in SUBSET Job /\ M \in SUBSET js
  BY EnqueuedOK DEF Open, Missing
<1>2. IsFiniteSet(Open(w)) /\ IsFiniteSet(M)
  BY <1>1, Numbers, FS_Subset
<1>3. /\ IsFiniteSet(Open(w) \cup M)
      /\ Cardinality(Open(w) \cup M) = Cardinality(Open(w)) + Cardinality(M) - Cardinality(Open(w) \cap M)
  BY <1>2, FS_Union
<1>4. Cardinality(Open(v)) <= Cardinality(Open(w) \cup M) /\ IsFiniteSet(Open(v))
  BY <1>1, <1>3, FS_Subset
<1>5. IsFiniteSet(Open(w) \cap M)
  BY <1>2, FS_Intersection
<1>6. /\ Cardinality(Open(w)) \in Nat /\ Cardinality(M) \in Nat /\ Cardinality(Open(v)) \in Nat
      /\ Cardinality(Open(w) \cap M) \in Nat /\ Cardinality(Open(w) \cup M) \in Nat
  BY <1>2, <1>3, <1>4, <1>5, FS_CardinalityType
<1>7. CASE M = {}
  <2>1. Cardinality(M) = 0
    BY <1>7, FS_EmptySet
  <2> QED BY <1>3, <1>4, <1>6, <2>1, Numbers DEF Outstanding
<1>8. CASE Outstanding(w) + Cardinality(M) <= MaxWork
  BY <1>3, <1>4, <1>6, <1>8, Numbers DEF Outstanding
<1> QED BY <1>7, <1>8 DEF HasRoom

-----------------------------------------------------------------------------
(***************************************************************************)
(* Steps of a process that leave the tables alone.                         *)
(***************************************************************************)
LEMMA Types ==
  TypeOK <=> /\ chain \in Chain_ /\ block \in [Block -> Block_] /\ covered \in [Block -> SUBSET Comp]
             /\ cert \in [Block -> SUBSET Logs] /\ work \in [Job -> Row] /\ lane \in Lane_
             /\ proc \in [Proc -> Proc_] /\ passed \in Block \cup {0} /\ outrun \in BOOLEAN
             /\ faults \in 0 .. MaxFaults
BY DEF TypeOK, Chain_, Block_, Lane_, Proc_, Pc_

\* The memory of one process changes.
PStep(p) == \E new \in Proc_ : Memory(new) /\ proc' = [proc EXCEPT ![p] = new]

LEMMA PStepOK ==
  ASSUME proc \in [Proc -> Proc_], MemoryOK, NEW p \in Proc, PStep(p)
  PROVE  proc' \in [Proc -> Proc_] /\ MemoryOK'
<1>1. PICK new \in Proc_ : Memory(new) /\ proc' = [proc EXCEPT ![p] = new]
  BY DEF PStep
<1>2. proc' \in [Proc -> Proc_] /\ proc'[p] = new /\ \A q \in Proc \ {p} : proc'[q] = proc[q]
  BY <1>1
<1>3. \A q \in Proc : Memory(proc'[q])
  BY <1>1, <1>2 DEF MemoryOK
<1> QED BY <1>2, <1>3 DEF MemoryOK, Memory

LEMMA FaultsOK ==
  ASSUME faults \in 0 .. MaxFaults, Fault \/ NoFault
  PROVE  faults' \in 0 .. MaxFaults
<1>1. MaxFaults \in Nat
  BY LaneConstants
<1> QED BY <1>1 DEF Fault, NoFault

\* More blocks are persisted, or none.
Extends == chain' \in Chain_ /\ Persisted \subseteq Persisted'

\* New blocks come after all others.
Appends ==
  /\ chain \in Chain_ /\ chain' \in Chain_ /\ chain.through <= chain'.through
  /\ \A b \in Persisted' : b <= chain.through => b \in Persisted

\* No step but the recording of a conflict withdraws a seal or lowers the frontier.
Up == Sealed \subseteq Sealed' /\ lane.through <= lane'.through

LEMMA UpSame ==
  ASSUME IInv, UNCHANGED lane.through, Sealed \subseteq Sealed'
  PROVE  Up
<1>1. lane.through \in Nat
  BY Types, Numbers DEF IInv, Lane_
<1> QED BY <1>1 DEF Up

LEMMA RestsInv ==
  ASSUME IInv, NEW p \in Proc, PStep(p), UNCHANGED db, Extends, Fault \/ NoFault,
         passed' \in Block \cup {0}, outrun' \in BOOLEAN
  PROVE  IInv' /\ Up
<1> USE DEF IInv
<1>1. proc' \in [Proc -> Proc_] /\ MemoryOK'
  BY PStepOK, Types
<1>2. faults' \in 0 .. MaxFaults
  BY FaultsOK, Types
<1>3. TypeOK'
  <2>1. /\ chain' \in Chain_ /\ block' \in [Block -> Block_] /\ covered' \in [Block -> SUBSET Comp]
        /\ cert' \in [Block -> SUBSET Logs] /\ work' \in [Job -> Row] /\ lane' \in Lane_
    BY Types DEF Extends, db
  <2> QED BY <1>1, <1>2, <2>1 DEF TypeOK, Chain_, Block_, Lane_, Proc_, Pc_
<1>4. EvidenceOK' /\ LeaseOK' /\ CertifiedIsDone' /\ WithinCapacity'
  BY DEF db, EvidenceOK, LeaseOK, CertifiedIsDone, WithinCapacity, Outstanding, Open
<1>5. SealedBelow'
  BY DEF db, SealedBelow, Sealed, Extends
<1>6. Sealed \subseteq Sealed'
  BY DEF db, Sealed, Extends
<1>7. Up
  BY <1>6, UpSame DEF db
<1> QED BY <1>1, <1>3, <1>4, <1>5, <1>7

LEMMA Nothing ==
  ASSUME TypeOK, UNCHANGED <<chain, history>>
  PROVE  Extends /\ passed' \in Block \cup {0} /\ outrun' \in BOOLEAN
BY Types DEF Extends, Persisted, history

\* A changed memory that keeps its leases, what it is about to claim with and
\* what its recent list is.
Near(new, b) ==
  /\ new \in Proc_
  /\ new.held \subseteq b.held
  /\ new.pc = "span" => b.pc = "span" /\ new.held = b.held
  /\ new.step \in {"defer", "recent"} => b.step = new.step /\ new.mark = b.mark

LEMMA NearOK ==
  ASSUME proc \in [Proc -> Proc_], MemoryOK, NEW p \in Proc, NEW new, Near(new, proc[p]),
         proc' = [proc EXCEPT ![p] = new]
  PROVE  PStep(p)
<1>1. Memory(proc[p])
  BY DEF MemoryOK
<1>2. Memory(new)
  BY <1>1 DEF Memory, Near
<1> QED BY <1>2 DEF PStep, Near

LEMMA PressureOK ==
  ASSUME NEW d \in BOOLEAN, NEW m \in BOOLEAN
  PROVE  Pressure(d, m) \in BOOLEAN
BY DEF Pressure

\* Blocks are persisted one after the other, from the first of them on.
LEMMA Grows ==
  ASSUME IInv, NEW p \in Proc, ChainTick(p)
  PROVE  Extends /\ Appends
<1> USE Numbers
<1>0. chain \in Chain_
  BY Types DEF IInv
<1>1. CASE UNCHANGED chain
  BY <1>0, <1>1 DEF Extends, Appends, Persisted, Chain_
<1>2. CASE ~UNCHANGED chain
  <2> DEFINE next(target) == IF chain.through = 0 THEN Max({1, target - ChainBatch + 1}) ELSE chain.through + 1
             last(target) == Min({next(target) + ChainBatch - 1, target})
  <2>1. PICK target \in Block :
          /\ next(target) <= target
          /\ chain' = [chain EXCEPT !.first = IF chain.through = 0 THEN next(target) ELSE @,
                                    !.through = last(target)]
    BY <1>2 DEF ChainTick
  <2>2. ChainBatch \in Nat \ {0} /\ target \in Nat /\ target <= N
    BY LaneConstants
  <2>3. next(target) \in Nat /\ 1 <= next(target)
    <3>1. CASE chain.through = 0
      <4>1. CASE target - ChainBatch + 1 >= 0
        BY <3>1, <4>1, <2>2, MaxOfTwo
      <4>2. CASE target - ChainBatch + 1 < 0
        <5>1. Max({1, target - ChainBatch + 1}) = 1
          BY <4>2, <2>2 DEF Max
        <5> QED BY <3>1, <5>1
      <4> QED BY <4>1, <4>2, <2>2
    <3>2. CASE chain.through # 0
      BY <3>2, <1>0 DEF Chain_
    <3> QED BY <3>1, <3>2
  <2> HIDE DEF next
  <2>4. last(target) \in Nat /\ next(target) <= last(target) /\ last(target) <= target
    <3> DEFINE n == next(target)
               m == n + ChainBatch - 1
    <3>1. n \in Nat /\ 1 <= n /\ n <= target
      BY <2>1, <2>3
    <3> HIDE DEF n
    <3>2. m \in Nat /\ n <= m
      BY <2>2, <3>1
    <3>3. last(target) = Min({m, target})
      BY DEF n
    <3> HIDE DEF m
    <3>4. Min({m, target}) \in {m, target} /\ Min({m, target}) <= target
      BY <2>2, <3>2, MinOfTwo
    <3> QED BY <2>2, <3>1, <3>2, <3>3, <3>4 DEF n
  <2> HIDE DEF last
  <2>5. chain'.first \in Block /\ chain'.through \in Block \cup {0} /\ chain'.halted \in BOOLEAN
    <3>1. next(target) \in Block /\ last(target) \in Block
      BY <2>1, <2>2, <2>3, <2>4
    <3>2. chain' \in [first : Block, through : Block \cup {0}, halted : BOOLEAN]
      BY <1>0, <2>1, <3>1 DEF Chain_
    <3> QED BY <3>2
  <2>6. chain' \in Chain_
    BY <1>0, <2>1, <2>5 DEF Chain_
  <2>7. CASE chain.through = 0
    <3>1. Persisted = {}
      BY <1>0, <2>7 DEF Persisted, Chain_
    <3>2. /\ chain.through <= chain'.through
          /\ \A b \in Persisted' : b > chain.through
      BY <2>5, <2>7 DEF Persisted
    <3> QED BY <1>0, <2>6, <3>1, <3>2, <2>7 DEF Extends, Appends, Persisted
  <2>8. CASE chain.through # 0
    <3>1. next(target) = chain.through + 1
      BY <2>8 DEF next
    <3>2. chain'.first = chain.first /\ chain.through <= chain'.through
      BY <1>0, <2>1, <2>4, <2>8, <3>1 DEF Chain_
    <3> QED BY <1>0, <2>6, <3>2 DEF Extends, Appends, Persisted, Chain_
  <2> QED BY <2>7, <2>8
<1> QED BY <1>1, <1>2

LEMMA ChainTickInv ==
  ASSUME IInv, NEW p \in Proc, ChainTick(p)
  PROVE  IInv' /\ Up
<1> DEFINE drain == Pressure(proc[p].draining, TRUE)
           new == [proc[p] EXCEPT !.draining = drain, !.step = IF drain THEN "idle" ELSE "page"]
<1>0. proc \in [Proc -> Proc_] /\ MemoryOK /\ TypeOK
  BY Types DEF IInv
<1>1. proc[p] \in Proc_ /\ drain \in BOOLEAN
  BY <1>0, PressureOK DEF Proc_
<1> HIDE DEF drain
<1>2. Near(new, proc[p])
  BY <1>1 DEF Near, Proc_
<1>3. proc' = [proc EXCEPT ![p] = new]
  BY DEF ChainTick, drain
<1> HIDE DEF new
<1>4. PStep(p)
  BY <1>0, <1>2, <1>3, NearOK
<1>5. Extends
  BY Grows
<1>6. UNCHANGED db /\ NoFault /\ passed' \in Block \cup {0} /\ outrun' \in BOOLEAN
  BY <1>0, Types DEF ChainTick, NoFault, history
<1> QED BY <1>4, <1>5, <1>6, RestsInv

LEMMA NearStep ==
  ASSUME IInv, NEW p \in Proc, NEW new, Near(new, proc[p]), proc' = [proc EXCEPT ![p] = new],
         UNCHANGED db, Extends, Fault \/ NoFault, passed' \in Block \cup {0}, outrun' \in BOOLEAN
  PROVE  IInv' /\ Up
BY NearOK, RestsInv, Types DEF IInv

LEMMA Mem ==
  ASSUME IInv, NEW p \in Proc
  PROVE  TypeOK /\ proc \in [Proc -> Proc_] /\ proc[p] \in Proc_ /\ Memory(proc[p])
BY Types DEF IInv, MemoryOK

LEMMA ChainHaltsInv ==
  ASSUME IInv, NEW p \in Proc, ChainHalts(p)
  PROVE  IInv' /\ Up
<1> DEFINE new == [proc[p] EXCEPT !.draining = FALSE, !.step = "page"]
<1>1. Near(new, proc[p])
  BY Mem, ZenonT(40) DEF Near, Proc_
<1>2. proc' = [proc EXCEPT ![p] = new]
  BY DEF ChainHalts
<1> HIDE DEF new
<1>3. chain \in Chain_ /\ chain' = [chain EXCEPT !.halted = TRUE]
  BY Mem, Types DEF ChainHalts
<1>4. Extends
  <2> DEFINE yes == TRUE
  <2>1. chain' = [chain EXCEPT !.halted = yes] /\ yes \in BOOLEAN
    BY <1>3
  <2> HIDE DEF yes
  <2>2. chain' \in Chain_ /\ chain'.first = chain.first /\ chain'.through = chain.through
    BY <1>3, <2>1 DEF Chain_
  <2> QED BY <2>2 DEF Extends, Persisted
<1>5. UNCHANGED db /\ Fault /\ passed' \in Block \cup {0} /\ outrun' \in BOOLEAN
  BY Mem, Types DEF ChainHalts, history
<1> QED BY <1>1, <1>2, <1>4, <1>5, NearStep

LEMMA CursorOK ==
  ASSUME NEW from \in 1 .. N + 1
  PROVE  NextCursor(from) \in 1 .. N + 1
<1>1. CASE PageRows(from) = {}
  <2>1. Cardinality(PageRows(from)) = 0
    BY <1>1, FS_EmptySet
  <2>2. Page # 0
    BY LaneConstants
  <2> QED BY <2>1, <2>2, Numbers DEF NextCursor
<1>2. CASE PageRows(from) # {}
  <2>1. PageRows(from) \in SUBSET (0 .. N) /\ PageRows(from) \subseteq Block
    BY Numbers DEF PageRows, Persisted
  <2>2. Max(PageRows(from)) \in Block
    BY <1>2, <2>1, Numbers, MaxIn
  <2> QED BY <2>2, Numbers DEF NextCursor
<1> QED BY <1>1, <1>2

LEMMA ReadDeferredInv ==
  ASSUME IInv, NEW p \in Proc, ReadDeferred(p)
  PROVE  IInv' /\ Up
<1> DEFINE due == {b \in PageRows(proc[p].cursor) : NeedsFollowups(b)}
           next == NextCursor(proc[p].cursor)
           stop == [proc[p] EXCEPT !.step = "idle"]
           page == [proc[p] EXCEPT !.step = "defer", !.mark = next, !.todo = due]
<1>1. proc[p] \in Proc_ /\ Memory(proc[p])
  BY Mem
<1>2. due \subseteq Block /\ next \in 1 .. N + 1
  <2>1. proc[p].cursor \in 1 .. N + 1
    BY <1>1 DEF Proc_
  <2> QED BY <2>1, CursorOK DEF PageRows, Persisted
<1>3. proc' = [proc EXCEPT ![p] = IF proc[p].draining THEN stop ELSE page]
  BY DEF ReadDeferred
<1> HIDE DEF due, next
<1>4. stop \in Proc_ /\ Memory(stop)
  BY <1>1 DEF Memory, Proc_
<1>5. page \in Proc_ /\ Memory(page)
  <2>1. next \in 0 .. N + 1
    BY <1>2, Numbers
  <2>2. page \in Proc_
    BY <1>1, <1>2, <2>1 DEF Proc_
  <2>3. page.held = proc[p].held /\ page.pc = proc[p].pc /\ page.step = "defer" /\ page.mark = next
    BY <1>1 DEF Proc_
  <2> HIDE DEF page
  <2> QED BY <1>1, <1>2, <2>2, <2>3 DEF Memory
<1> HIDE DEF stop, page
<1>6. PStep(p)
  BY <1>3, <1>4, <1>5 DEF PStep
<1>7. UNCHANGED db /\ NoFault /\ UNCHANGED <<chain, history>>
  BY DEF ReadDeferred, NoFault
<1> QED BY <1>6, <1>7, RestsInv, Nothing, Mem

\* A pass that ends early, as the table is full.
LEMMA StopOK ==
  ASSUME IInv, NEW p \in Proc, NEW todo \in SUBSET Block, NEW drain \in BOOLEAN
  PROVE  Near([proc[p] EXCEPT !.draining = drain, !.step = "idle", !.todo = todo, !.mark = 0], proc[p])
<1>1. proc[p] \in Proc_ /\ 0 \in 0 .. N + 1
  BY Mem, Numbers
<1> QED BY <1>1 DEF Near, Proc_

LEMMA ReadRecentInv ==
  ASSUME IInv, NEW p \in Proc, ReadRecent(p)
  PROVE  IInv' /\ Up
<1> DEFINE drain == Pressure(proc[p].draining, FALSE)
           stop == [proc[p] EXCEPT !.draining = drain, !.step = "idle", !.todo = proc[p].todo, !.mark = 0]
           m == chain.through
           c == proc[p].mark
           go == [proc[p] EXCEPT !.draining = drain, !.step = "recent", !.cursor = c,
                                 !.mark = m, !.todo = RecentIncomplete]
<1>1. /\ proc[p] \in Proc_ /\ Memory(proc[p]) /\ chain \in Chain_ /\ outrun \in BOOLEAN
      /\ passed \in Block \cup {0} /\ proc \in [Proc -> Proc_]
  BY Mem, Types
<1>2. UNCHANGED db /\ NoFault /\ UNCHANGED <<chain, passed>>
  BY DEF ReadRecent, NoFault
<1>3. Extends
  BY <1>1, <1>2 DEF Extends, Persisted
<1>4. outrun' \in BOOLEAN
  BY <1>1 DEF ReadRecent
<1>5. drain \in BOOLEAN /\ proc[p].todo \in SUBSET Block
  BY <1>1, PressureOK DEF Proc_
<1>6. /\ drain => proc' = [proc EXCEPT ![p] = stop]
      /\ ~drain => proc' = [proc EXCEPT ![p] = go]
  <2>1. proc[p] = [proc[p] EXCEPT !.todo = proc[p].todo]
    BY <1>1 DEF Proc_
  <2>2. drain => stop = [proc[p] EXCEPT !.draining = TRUE, !.step = "idle", !.mark = 0]
    BY <1>1, <1>5 DEF Proc_
  <2>3. ~drain => go = [proc[p] EXCEPT !.draining = FALSE, !.step = "recent", !.cursor = proc[p].mark,
                                       !.mark = chain.through, !.todo = RecentIncomplete]
    BY <1>1, <1>5 DEF Proc_
  <2> HIDE DEF stop, go
  <2> QED BY <2>2, <2>3 DEF ReadRecent
<1>7. m \in Block \cup {0} /\ RecentIncomplete \subseteq Block /\ c \in 1 .. N + 1
  BY <1>1 DEF RecentIncomplete, Persisted, Chain_, Memory, ReadRecent
<1> HIDE DEF drain, m, c
<1>8. Near(stop, proc[p])
  BY <1>5, StopOK
<1>9. go \in Proc_ /\ Memory(go)
  <2>1. m \in 0 .. N + 1
    BY <1>7, Numbers
  <2>2. go \in Proc_
    BY <1>1, <1>5, <1>7, <2>1 DEF Proc_
  <2>3. go.held = proc[p].held /\ go.pc = proc[p].pc /\ go.step = "recent" /\ go.mark = m
    BY <1>1 DEF Proc_
  <2> HIDE DEF go
  <2> QED BY <1>1, <1>7, <2>2, <2>3 DEF Memory
<1> HIDE DEF stop, go
<1>10. PStep(p)
  BY <1>1, <1>6, <1>8, <1>9, NearOK DEF PStep, IInv
<1> QED BY <1>1, <1>2, <1>3, <1>4, <1>10, RestsInv

LEMMA EndPassInv ==
  ASSUME IInv, NEW p \in Proc, EndPass(p)
  PROVE  IInv' /\ Up
<1> DEFINE stop == [proc[p] EXCEPT !.step = "idle", !.mark = 0]
<1>1. proc[p] \in Proc_ /\ Memory(proc[p]) /\ outrun \in BOOLEAN /\ passed \in Block \cup {0} /\ 0 \in 0 .. N + 1
  BY Mem, Types, Numbers
<1>2. Near(stop, proc[p])
  BY <1>1 DEF Near, Proc_
<1>3. proc' = [proc EXCEPT ![p] = stop]
  BY DEF EndPass
<1> HIDE DEF stop
<1>4. passed' \in Block \cup {0}
  <2> DEFINE m == Max({passed, proc[p].mark})
  <2>1. proc[p].mark \in Block \cup {0}
    BY <1>1 DEF EndPass, Memory
  <2>2. passed \in Nat /\ proc[p].mark \in Nat
    BY <1>1, <2>1, Numbers
  <2>3. m \in {passed, proc[p].mark}
    BY <2>2, MaxOfTwo
  <2>4. passed' = m
    BY DEF EndPass
  <2> HIDE DEF m
  <2> QED BY <1>1, <2>1, <2>3, <2>4
<1>5. UNCHANGED <<db, chain, outrun>> /\ NoFault
  BY DEF EndPass, NoFault
<1>6. Extends
  BY <1>5, Mem, Types DEF Extends, Persisted
<1> QED BY <1>1, <1>2, <1>3, <1>4, <1>5, <1>6, NearStep

\* A worker that goes on, that releases what it has, and that is done.
At(p, pc) == [proc[p] EXCEPT !.pc = pc]
Done(p) == [proc[p] EXCEPT !.pc = "idle", !.held = {}, !.follow = TRUE]

LEMMA AtOK ==
  ASSUME IInv, NEW p \in Proc, NEW pc \in Pc_ \ {"span"}
  PROVE  Near(At(p, pc), proc[p])
BY Mem DEF Near, Proc_, At

LEMMA DoneOK ==
  ASSUME IInv, NEW p \in Proc
  PROVE  Near(Done(p), proc[p]) /\ Gone(p) = [proc EXCEPT ![p] = Done(p)] /\ Done(p).held = {}
<1> DEFINE yes == TRUE
           new == [proc[p] EXCEPT !.pc = "idle", !.held = {}, !.follow = yes]
<1>1. yes \in BOOLEAN /\ proc[p] \in Proc_
  BY Mem
<1>2. Done(p) = new /\ Gone(p) = [proc EXCEPT ![p] = new]
  BY DEF Done, Gone
<1> HIDE DEF yes
<1>3. Near(new, proc[p]) /\ new.held = {}
  BY <1>1 DEF Near, Proc_, Pc_
<1> HIDE DEF new
<1> QED BY <1>2, <1>3

\* The worker gives up its call: its lease is released next.
LEMMA ReleasesOK ==
  ASSUME IInv, NEW p \in Proc, NEW drain \in BOOLEAN
  PROVE  Near([proc[p] EXCEPT !.pc = "release", !.follow = TRUE, !.draining = drain], proc[p])
<1> DEFINE yes == TRUE
<1>1. yes \in BOOLEAN /\ proc[p] \in Proc_
  BY Mem
<1> HIDE DEF yes
<1>2. Near([proc[p] EXCEPT !.pc = "release", !.follow = yes, !.draining = drain], proc[p])
  BY <1>1 DEF Near, Proc_, Pc_
<1> QED BY <1>2 DEF yes

LEMMA MeetConflictInv ==
  ASSUME IInv, NEW p \in Proc, MeetConflict(p)
  PROVE  IInv' /\ Up
<1>1. Near(At(p, "conflict"), proc[p])
  BY AtOK DEF Pc_
<1>2. proc' = [proc EXCEPT ![p] = At(p, "conflict")] /\ UNCHANGED <<chain, db, history>> /\ Fault
  BY DEF MeetConflict, To, At
<1> QED BY <1>1, <1>2, NearStep, Nothing, Mem

LEMMA CallFailsInv ==
  ASSUME IInv, NEW p \in Proc, CallFails(p)
  PROVE  IInv' /\ Up
<1> DEFINE drain == proc[p].draining
           new == [proc[p] EXCEPT !.pc = "release", !.follow = TRUE, !.draining = drain]
<1>1. proc[p] \in Proc_ /\ drain \in BOOLEAN
  BY Mem DEF Proc_
<1>2. new = [proc[p] EXCEPT !.pc = "release", !.follow = TRUE]
  BY <1>1 DEF Proc_
<1>3. proc' = [proc EXCEPT ![p] = new] /\ UNCHANGED <<chain, db, history>> /\ Fault
  BY <1>2 DEF CallFails
<1> HIDE DEF drain
<1>4. Near(new, proc[p])
  BY <1>1, ReleasesOK
<1> HIDE DEF new
<1> QED BY <1>3, <1>4, NearStep, Nothing, Mem

LEMMA SaveRefusedInv ==
  ASSUME IInv, NEW p \in Proc, SaveRefused(p)
  PROVE  IInv' /\ Up
<1> DEFINE yes == TRUE
           new == [proc[p] EXCEPT !.pc = "release", !.follow = TRUE, !.draining = yes]
<1>1. \/ proc' = [proc EXCEPT ![p] = Done(p)]
      \/ proc' = [proc EXCEPT ![p] = At(p, "conflict")]
      \/ proc' = [proc EXCEPT ![p] = new]
  BY DoneOK DEF SaveRefused, To, At
<1>2. UNCHANGED <<chain, db, history>> /\ NoFault /\ yes \in BOOLEAN
  BY DEF SaveRefused, NoFault
<1> HIDE DEF yes
<1>3. Near(Done(p), proc[p]) /\ Near(At(p, "conflict"), proc[p]) /\ Near(new, proc[p])
  BY <1>2, DoneOK, AtOK, ReleasesOK DEF Pc_
<1> HIDE DEF new
<1> QED BY <1>1, <1>2, <1>3, NearStep, Nothing, Mem

LEMMA PlanInv ==
  ASSUME IInv, NEW p \in Proc, Plan(p)
  PROVE  IInv' /\ Up
<1> DEFINE blocks == {j[1] : j \in Held(p)}
           due == {b \in blocks : ReceiptSetComplete(b)}
           certified == {b \in blocks : "all_logs" \in cert[b]}
<1>1. proc[p] \in Proc_
  BY Mem
<1>2. blocks \subseteq Block
  BY <1>1 DEF Held, Proc_, Job
<1>3. PICK proven \in {certified, {}} :
        proc' = [proc EXCEPT ![p].pc = "persist", ![p].proven = proven, ![p].todoLogs = due]
  BY DEF Plan
<1>4. proven \subseteq Block /\ due \subseteq Block
  BY <1>2, <1>3
<1> HIDE DEF due, certified, blocks
<1> DEFINE new == [proc[p] EXCEPT !.pc = "persist", !.proven = proven, !.todoLogs = due]
<1>5. Near(new, proc[p])
  BY <1>1, <1>4 DEF Near, Proc_, Pc_
<1>6. proc' = [proc EXCEPT ![p] = new]
  BY <1>3
<1> HIDE DEF new
<1>7. UNCHANGED <<chain, db, history>> /\ NoFault
  BY DEF Plan, NoFault
<1> QED BY <1>5, <1>6, <1>7, NearStep, Nothing, Mem

LEMMA SkipLogsInv ==
  ASSUME IInv, NEW p \in Proc, SkipLogs(p)
  PROVE  IInv' /\ Up
<1> DEFINE rest == proc[p].todoLogs \ {Min(proc[p].todoLogs)}
           new == [proc[p] EXCEPT !.todoLogs = rest]
<1>1. proc[p] \in Proc_ /\ rest \subseteq Block
  BY Mem DEF Proc_
<1>2. proc' = [proc EXCEPT ![p] = new]
  BY DEF SkipLogs
<1> HIDE DEF rest
<1>3. Near(new, proc[p])
  BY <1>1 DEF Near, Proc_
<1> HIDE DEF new
<1>4. UNCHANGED <<chain, db, history>> /\ (Fault \/ NoFault)
  BY DEF SkipLogs
<1> QED BY <1>2, <1>3, <1>4, NearStep, Nothing, Mem

LEMMA EndBatchInv ==
  ASSUME IInv, NEW p \in Proc, EndBatch(p)
  PROVE  IInv' /\ Up
<1> DEFINE pc == IF proc[p].held = {} THEN "idle" ELSE "release"
           new == [proc[p] EXCEPT !.pc = pc, !.proven = {}]
<1>1. proc[p] \in Proc_ /\ pc \in Pc_ \ {"span"}
  BY Mem DEF Pc_
<1>2. proc' = [proc EXCEPT ![p] = new]
  BY DEF EndBatch
<1> HIDE DEF pc
<1>3. Near(new, proc[p])
  BY <1>1 DEF Near, Proc_
<1> HIDE DEF new
<1>4. UNCHANGED <<chain, db, history>> /\ NoFault
  BY DEF EndBatch, NoFault
<1> QED BY <1>2, <1>3, <1>4, NearStep, Nothing, Mem

LEMMA IdleOK == Idle \in Proc_ /\ Idle.held = {} /\ Idle.pc = "idle" /\ Idle.step = "idle" /\ Memory(Idle)
<1>1. 1 \in 1 .. N + 1 /\ 0 \in 0 .. N + 1
  BY Numbers
<1>2. Idle \in Proc_
  BY <1>1 DEF Idle, Proc_, Pc_
<1>3. Idle.held = {} /\ Idle.pc = "idle" /\ Idle.step = "idle"
  BY DEF Idle
<1> QED BY <1>2, <1>3 DEF Memory

LEMMA CrashInv ==
  ASSUME IInv, NEW p \in Proc, Crash(p)
  PROVE  IInv' /\ Up
<1>1. PStep(p)
  BY IdleOK DEF PStep, Crash
<1>2. UNCHANGED <<chain, db, history>> /\ Fault
  BY DEF Crash
<1> QED BY <1>1, <1>2, RestsInv, Nothing, Mem

-----------------------------------------------------------------------------
(***************************************************************************)
(* Steps that change the tables. The rules about the job table, which hold *)
(* for a table w and the certificates c, are kept by all that is done to   *)
(* it.                                                                     *)
(***************************************************************************)
TableOK(w, c) ==
  /\ w \in [Job -> Row]
  /\ \A j \in Job : w[j].live => w[j].state = "leased" /\ w[j].owner \in Proc
  /\ \A b \in Block : \A k \in c[b] : w[<<b, k>>].state \in {"none", "complete"}
  /\ Outstanding(w) <= MaxWork

LEMMA TableIs ==
  /\ TableOK(work, cert) <=> work \in [Job -> Row] /\ LeaseOK /\ CertifiedIsDone /\ WithinCapacity
  /\ TableOK(work', cert') <=> work' \in [Job -> Row] /\ LeaseOK' /\ CertifiedIsDone' /\ WithinCapacity'
BY DEF TableOK, LeaseOK, CertifiedIsDone, WithinCapacity

\* A certificate is of a job of the table.
LEMMA Certified ==
  ASSUME NEW c \in [Block -> SUBSET Logs], NEW b \in Block, NEW k \in c[b]
  PROVE  <<b, k>> \in Job
BY DEF Job, Comp

\* Rows are only dropped when they are complete.
LEMMA TableSettled ==
  ASSUME NEW w, NEW c \in [Block -> SUBSET Logs], TableOK(w, c), NEW x \in BOOLEAN, NEW v \in Settled(w, x)
  PROVE  TableOK(v, c)
<1>1. v \in [Job -> Row] /\ \A j \in Job : v[j] = w[j] \/ (w[j].state = "complete" /\ v[j] = NoRow)
  BY SettledOK DEF TableOK
<1>2. NoneOpens(v, w)
  BY <1>1, Rows DEF NoneOpens
<1>3. Outstanding(v) <= MaxWork
  BY <1>1, <1>2, Smaller DEF TableOK
<1>4. \A j \in Job : v[j].live => v[j].state = "leased" /\ v[j].owner \in Proc
  BY <1>1, Rows DEF TableOK
<1>5. \A b \in Block : \A k \in c[b] : v[<<b, k>>].state \in {"none", "complete"}
  BY <1>1, Rows, Certified DEF TableOK
<1> QED BY <1>1, <1>3, <1>4, <1>5 DEF TableOK

LEMMA TablePruned ==
  ASSUME NEW w, NEW c \in [Block -> SUBSET Logs], TableOK(w, c), NEW v \in Pruned(w)
  PROVE  TableOK(v, c)
<1>1. v \in Settled(w, TRUE)
  BY DEF Settled
<1> QED BY <1>1, TableSettled

\* Only log jobs without a certificate are added, and receipts.
LEMMA TableEnqueued ==
  ASSUME NEW w, NEW c \in [Block -> SUBSET Logs], TableOK(w, c), NEW js, IsFiniteSet(js), HasRoom(w, js),
         \A b \in Block : \A k \in c[b] : <<b, k>> \notin js
  PROVE  TableOK(Enqueued(w, js), c)
<1> DEFINE v == Enqueued(w, js)
<1>1. v \in [Job -> Row] /\ \A j \in Job : v[j] = w[j] \/ (j \in js /\ v[j] = Pending)
  BY EnqueuedOK DEF TableOK
<1>2. Outstanding(v) <= MaxWork
  BY Larger DEF TableOK
<1> HIDE DEF v
<1>3. \A j \in Job : v[j].live => v[j].state = "leased" /\ v[j].owner \in Proc
  BY <1>1, Rows DEF TableOK
<1>4. \A b \in Block : \A k \in c[b] : v[<<b, k>>].state \in {"none", "complete"}
  BY <1>1, Certified DEF TableOK
<1> QED BY <1>1, <1>2, <1>3, <1>4 DEF TableOK, v

\* One open job gets another row, which is not a lease.
LEMMA TableRow ==
  ASSUME NEW w, NEW c \in [Block -> SUBSET Logs], TableOK(w, c), NEW j \in Job,
         w[j].state \notin {"none", "complete"},
         NEW v \in [Job -> Row], ~v[j].live, \A k \in Job \ {j} : v[k] = w[k]
  PROVE  TableOK(v, c)
<1>1. NoneOpens(v, w)
  BY DEF NoneOpens
<1>2. Outstanding(v) <= MaxWork
  BY <1>1, Smaller DEF TableOK
<1>3. \A i \in Job : v[i].live => v[i].state = "leased" /\ v[i].owner \in Proc
  BY DEF TableOK
<1>4. \A b \in Block : \A k \in c[b] : v[<<b, k>>].state \in {"none", "complete"}
  BY Certified DEF TableOK
<1> QED BY <1>2, <1>3, <1>4 DEF TableOK

LEMMA TableFinished ==
  ASSUME NEW w, NEW c \in [Block -> SUBSET Logs], TableOK(w, c), NEW j \in Job,
         w[j].state \notin {"none", "complete"}, NEW x \in BOOLEAN
  PROVE  TableOK(Finished(w, j, x), c)
<1>1. /\ Finished(w, j, x) \in [Job -> Row] /\ Finished(w, j, x)[j].live = FALSE
      /\ \A k \in Job \ {j} : Finished(w, j, x)[k] = w[k]
  <2>1. w \in [Job -> Row]
    BY DEF TableOK
  <2>2. Finished(w, j, x) \in [Job -> Row]
    BY <2>1, FinishedOK
  <2>3. Finished(w, j, x)[j].live = FALSE
    BY <2>1, FinishedOK
  <2>4. \A k \in Job \ {j} : Finished(w, j, x)[k] = w[k]
    BY <2>1, FinishedOK
  <2> QED BY <2>2, <2>3, <2>4
<1> DEFINE v == Finished(w, j, x)
<1>2. v \in [Job -> Row] /\ ~v[j].live /\ \A k \in Job \ {j} : v[k] = w[k]
  BY <1>1
<1> HIDE DEF v
<1>3. TableOK(v, c)
  BY <1>2, TableRow
<1> QED BY <1>3 DEF v

\* What is claimed is open, hence without a certificate.
LEMMA TableClaimed ==
  ASSUME IInv, NEW p \in Proc, NEW js \in SUBSET {j \in Job : Ready(j)}
  PROVE  TableOK(Claimed(p, js), cert) /\ Leases(js) \subseteq Job \X Token
<1> DEFINE v == Claimed(p, js)
<1>0. TableOK(work, cert) /\ cert \in [Block -> SUBSET Logs] /\ MemoryOK /\ work \in [Job -> Row]
  BY TableIs, Types DEF IInv
<1>1. /\ v \in [Job -> Row] /\ Leases(js) \subseteq Job \X Token
      /\ \A j \in Job : v[j] = IF j \in js THEN LeasedBy(p, j) ELSE work[j]
  BY <1>0, ClaimedOK
<1>2. \A j \in js : work[j].state \notin {"none", "complete"}
  BY DEF Ready
<1> HIDE DEF v
<1>3. NoneOpens(v, work)
  BY <1>1, <1>2 DEF NoneOpens
<1>4. Outstanding(v) <= MaxWork
  BY <1>0, <1>1, <1>3, Smaller DEF TableOK
<1>5. \A i \in Job : v[i].live => v[i].state = "leased" /\ v[i].owner \in Proc
  BY <1>0, <1>1 DEF TableOK, LeasedBy
<1>6. \A b \in Block : \A k \in cert[b] : v[<<b, k>>].state \in {"none", "complete"}
  BY <1>0, <1>1, <1>2, Certified DEF TableOK
<1> QED BY <1>1, <1>4, <1>5, <1>6 DEF TableOK, v

\* The frontier goes up, over sealed blocks only.
LEMMA ProgressOK ==
  ASSUME NEW l \in Lane_, NEW sealed, NEW w, NEW number \in Block \cup {0}, NEW ceiling, NEW new \in Progressed(l, sealed, w, number, ceiling),
         \A b \in Block : b <= l.through => b \in sealed
  PROVE  /\ new \in Lane_ /\ l.through <= new.through
         /\ \A b \in Block : b <= new.through => b \in sealed
<1>1. PICK t \in Reach(sealed, l.through, ceiling) :
        new = LET p == Max({l.processed, number, t})
              IN  [processed |-> p, through |-> t, status |-> LaneStatus(w, t, p)]
  BY DEF Progressed
<1> DEFINE p == Max({l.processed, number, t})
<1>2. l.processed \in Block \cup {0} /\ l.through \in Block \cup {0}
  BY DEF Lane_
<1>3. t \in l.through .. N /\ \A b \in Block : l.through < b /\ b <= t => b \in sealed
  BY DEF Reach
<1>4. t \in Block \cup {0} /\ l.through <= t
  BY <1>2, <1>3, Numbers
<1>5. p \in Block \cup {0}
  <2>1. l.processed \in Nat /\ number \in Nat /\ t \in Nat
    BY <1>2, <1>4, Numbers
  <2>2. p \in {l.processed, number, t}
    BY <2>1, MaxOfThree
  <2> HIDE DEF p
  <2> QED BY <1>2, <1>4, <2>2
<1>6. new = [processed |-> p, through |-> t, status |-> LaneStatus(w, t, p)]
  BY <1>1
<1> HIDE DEF p
<1>7. LaneStatus(w, t, p) \in {"starting", "indexing", "caught_up", "retrying", "persistent_partial"}
  BY DEF LaneStatus
<1>8. new \in Lane_ /\ new.through = t
  BY <1>4, <1>5, <1>6, <1>7 DEF Lane_
<1>9. \A b \in Block : b <= t => b \in sealed
  BY <1>2, <1>3, <1>4, Numbers
<1> QED BY <1>4, <1>8, <1>9

\* A transaction on the tables that leaves them in order.
LEMMA StepInv ==
  ASSUME IInv, UNCHANGED <<chain, history>>, Fault \/ NoFault,
         block' \in [Block -> Block_], covered' \in [Block -> SUBSET Comp], cert' \in [Block -> SUBSET Logs],
         TableOK(work', cert'), EvidenceOK', lane' \in Lane_, SealedBelow',
         proc' \in [Proc -> Proc_], MemoryOK'
  PROVE  IInv'
<1>1. faults' \in 0 .. MaxFaults
  BY FaultsOK, Types DEF IInv
<1>2. chain' \in Chain_ /\ passed' \in Block \cup {0} /\ outrun' \in BOOLEAN
  BY Types DEF IInv, history
<1>3. work' \in [Job -> Row] /\ LeaseOK' /\ CertifiedIsDone' /\ WithinCapacity'
  BY TableIs
<1>4. TypeOK'
  BY <1>1, <1>2, <1>3 DEF TypeOK, Chain_, Block_, Lane_, Proc_, Pc_
<1> QED BY <1>3, <1>4 DEF IInv

\* A transaction on the job table alone.
LEMMA WorkInv ==
  ASSUME IInv, NEW p \in Proc, PStep(p), UNCHANGED <<chain, history, block, covered, cert, lane>>,
         Fault \/ NoFault, TableOK(work', cert)
  PROVE  IInv' /\ Up
<1>1. proc' \in [Proc -> Proc_] /\ MemoryOK'
  BY PStepOK, Types DEF IInv
<1>2. EvidenceOK'
  BY DEF IInv, EvidenceOK
<1>3. SealedBelow'
  BY DEF IInv, SealedBelow, Sealed, Persisted
<1>4. /\ block' \in [Block -> Block_] /\ covered' \in [Block -> SUBSET Comp] /\ cert' \in [Block -> SUBSET Logs]
      /\ lane' \in Lane_
  BY Types DEF IInv
<1>5. TableOK(work', cert')
  OBVIOUS
<1>6. Up
  BY UpSame DEF Sealed, Persisted
<1> QED BY <1>1, <1>2, <1>3, <1>4, <1>5, <1>6, StepInv

\* The jobs that are added: finitely many, none with a certificate.
Addable(js) == IsFiniteSet(js) /\ \A b \in Block : \A k \in cert[b] : <<b, k>> \notin js

LEMMA JobsOK ==
  ASSUME IInv, NEW b
  PROVE  Addable(LogJobs(b)) /\ Addable({<<b, "receipts">>}) /\ Addable({})
<1>1. cert \in [Block -> SUBSET Logs]
  BY Types DEF IInv
<1>2. IsFiniteSet(Logs)
  <2>1. IsFiniteSet({"all_logs"})
    BY FS_Singleton
  <2>2. IsFiniteSet({"all_logs"} \cup {"transfer_logs"})
    BY <2>1, FS_AddElement
  <2>3. {"all_logs"} \cup {"transfer_logs"} = Logs
    BY DEF Logs
  <2> QED BY <2>2, <2>3
<1>3. IsFiniteSet({b} \X (Logs \ cert[b]))
  <2>1. IsFiniteSet({b}) /\ IsFiniteSet(Logs \ cert[b])
    BY <1>2, FS_Singleton, FS_Subset
  <2> QED BY <2>1, FS_Product
<1>4. Addable(LogJobs(b))
  BY <1>3 DEF Addable, LogJobs
<1>5. IsFiniteSet({<<b, "receipts">>}) /\ IsFiniteSet({})
  BY FS_Singleton, FS_EmptySet
<1>6. \A c \in Block : \A k \in cert[c] : k # "receipts"
  BY <1>1 DEF Logs
<1> QED BY <1>4, <1>5, <1>6 DEF Addable

LEMMA OfferOK ==
  ASSUME IInv, NEW p \in Proc, NEW js, Addable(js), Offer(p, js)
  PROVE  PStep(p) /\ TableOK(work', cert)
<1> DEFINE yes == TRUE
           no == FALSE
           none == {}
           rest == proc[p].todo \ {Min(proc[p].todo)}
           stop == [proc[p] EXCEPT !.draining = yes, !.step = "idle", !.todo = none, !.mark = 0]
           on == [proc[p] EXCEPT !.draining = no, !.todo = rest]
<1>1. proc[p] \in Proc_ /\ yes \in BOOLEAN /\ no \in BOOLEAN /\ none \subseteq Block
  BY Mem
<1>2. rest \subseteq Block
  BY <1>1 DEF Proc_
<1>3. TableOK(work, cert) /\ cert \in [Block -> SUBSET Logs] /\ proc \in [Proc -> Proc_] /\ MemoryOK
  BY TableIs, Types DEF IInv
<1>4. CASE proc' = [proc EXCEPT ![p] = stop] /\ UNCHANGED work
  <2> HIDE DEF yes, none
  <2>1. Near(stop, proc[p])
    BY <1>1, StopOK
  <2> HIDE DEF stop
  <2>2. PStep(p)
    BY <1>3, <1>4, <2>1, NearOK
  <2> QED BY <1>3, <1>4, <2>2
<1>5. ASSUME NEW w \in IF js = {} THEN {work} ELSE Pruned(work), HasRoom(w, js),
             work' = Enqueued(w, js), proc' = [proc EXCEPT ![p] = on]
      PROVE  PStep(p) /\ TableOK(work', cert)
  <2> HIDE DEF no, rest
  <2>1. Near(on, proc[p])
    BY <1>1, <1>2 DEF Near, Proc_
  <2> HIDE DEF on
  <2>2. PStep(p)
    BY <1>3, <1>5, <2>1, NearOK
  <2>3. TableOK(w, cert)
    BY <1>3, TablePruned
  <2>4. TableOK(Enqueued(w, js), cert)
    BY <1>3, <1>5, <2>3, TableEnqueued DEF Addable
  <2> QED BY <1>5, <2>2, <2>4
<1>6. \/ proc' = [proc EXCEPT ![p] = stop] /\ UNCHANGED work
      \/ \E w \in IF js = {} THEN {work} ELSE Pruned(work) :
           HasRoom(w, js) /\ work' = Enqueued(w, js) /\ proc' = [proc EXCEPT ![p] = on]
  BY DEF Offer
<1> HIDE DEF stop, on
<1> QED BY <1>4, <1>5, <1>6

LEMMA OfferDeferredInv ==
  ASSUME IInv, NEW p \in Proc, OfferDeferred(p)
  PROVE  IInv' /\ Up
<1> DEFINE b == Min(proc[p].todo)
           js == IF block[b].receipts /\ ReceiptSetComplete(b) THEN LogJobs(b) ELSE {}
<1>1. Addable(js)
  BY JobsOK
<1>2. Offer(p, js)
  BY DEF OfferDeferred
<1> HIDE DEF js
<1>3. PStep(p) /\ TableOK(work', cert)
  BY <1>1, <1>2, OfferOK
<1>4. UNCHANGED <<chain, history, block, covered, cert, lane>> /\ NoFault
  BY DEF OfferDeferred, NoFault
<1> QED BY <1>3, <1>4, WorkInv

LEMMA OfferRecentInv ==
  ASSUME IInv, NEW p \in Proc, OfferRecent(p)
  PROVE  IInv' /\ Up
<1> DEFINE b == Min(proc[p].todo)
           js == IF block[b].receipts /\ ReceiptSetComplete(b) THEN LogJobs(b) ELSE {<<b, "receipts">>}
           d == proc[p].draining
           none == {}
           stop == [proc[p] EXCEPT !.draining = d, !.step = "idle", !.todo = none, !.mark = 0]
<1>1. Addable(js)
  BY JobsOK
<1>2. UNCHANGED <<chain, history, block, covered, cert, lane>> /\ NoFault
  BY DEF OfferRecent, NoFault
<1>3. CASE Offer(p, js)
  <2> HIDE DEF js
  <2>1. PStep(p) /\ TableOK(work', cert)
    BY <1>1, <1>3, OfferOK
  <2> QED BY <1>2, <2>1, WorkInv
<1>4. CASE proc' = [proc EXCEPT ![p].step = "idle", ![p].todo = {}, ![p].mark = 0] /\ UNCHANGED work
  <2>1. proc[p] \in Proc_ /\ d \in BOOLEAN /\ none \subseteq Block
    BY Mem DEF Proc_
  <2>2. stop = [proc[p] EXCEPT !.step = "idle", !.todo = {}, !.mark = 0]
    BY <2>1 DEF Proc_
  <2>3. proc' = [proc EXCEPT ![p] = stop]
    BY <1>4, <2>2
  <2> HIDE DEF d, none
  <2>4. Near(stop, proc[p])
    BY <2>1, StopOK
  <2> HIDE DEF stop
  <2>5. UNCHANGED db
    BY <1>2, <1>4 DEF db
  <2> QED BY <1>2, <2>3, <2>4, <2>5, NearStep, Nothing, Mem
<1> QED BY <1>3, <1>4 DEF OfferRecent

LEMMA ClaimInv ==
  ASSUME IInv, NEW p \in Proc, Claim(p)
  PROVE  IInv' /\ Up
<1>1. PICK j \in {k \in Job : Ready(k)}, mayResume \in BOOLEAN :
        LET drain == Pressure(proc[p].draining, mayResume)
        IN  /\ work' = Claimed(p, {j})
            /\ proc' = [proc EXCEPT ![p].draining = drain, ![p].follow = ~(drain /\ j[2] = "receipts"),
                                    ![p].held = Leases({j}),
                                    ![p].pc = IF j[2] = "receipts" THEN "mark" ELSE "span"]
  BY DEF Claim
<1> DEFINE drain == Pressure(proc[p].draining, mayResume)
           follow == ~(drain /\ j[2] = "receipts")
           held == Leases({j})
           pc == IF j[2] = "receipts" THEN "mark" ELSE "span"
           new == [proc[p] EXCEPT !.draining = drain, !.follow = follow, !.held = held, !.pc = pc]
<1>2. proc[p] \in Proc_ /\ Memory(proc[p]) /\ proc[p].draining \in BOOLEAN
  BY Mem DEF Proc_
<1>3. drain \in BOOLEAN /\ follow \in BOOLEAN /\ pc \in Pc_
  BY <1>2, PressureOK DEF Pc_
<1>4. TableOK(work', cert) /\ held \subseteq Job \X Token
  BY <1>1, TableClaimed
<1>5. held = {<<j, Fresh(j)>>}
  BY DEF Leases
<1>6. proc' = [proc EXCEPT ![p] = new]
  BY <1>1
<1> HIDE DEF drain, follow, held, pc
<1>7. new \in Proc_ /\ new.held = held /\ new.step = proc[p].step /\ new.mark = proc[p].mark
  BY <1>2, <1>3, <1>4 DEF Proc_
<1> HIDE DEF new
<1>8. Memory(new)
  BY <1>2, <1>4, <1>5, <1>7 DEF Memory
<1>9. PStep(p)
  BY <1>6, <1>7, <1>8 DEF PStep
<1>10. UNCHANGED <<chain, history, block, covered, cert, lane>> /\ NoFault
  BY DEF Claim, NoFault
<1> QED BY <1>4, <1>9, <1>10, WorkInv

\* A lease that is held is of a job, and its row is open.
LEMMA HoldsJob ==
  ASSUME IInv, NEW p \in Proc, NEW j, HoldsLease(p, j)
  PROVE  j \in Job /\ j[1] \in Block /\ j[2] \in Comp /\ work[j].state = "leased" /\ work[j] \in Row
<1>1. proc[p].held \subseteq Job \X Token
  BY Mem DEF Proc_
<1>2. j \in Job
  BY <1>1 DEF HoldsLease
<1>3. work \in [Job -> Row]
  BY Types DEF IInv
<1> QED BY <1>2, <1>3 DEF HoldsLease, Job

LEMMA ClaimSpanInv ==
  ASSUME IInv, NEW p \in Proc, ClaimSpan(p)
  PROVE  IInv' /\ Up
<1> DEFINE j == First(p)
<1>1. UNCHANGED <<chain, history, block, covered, cert, lane>> /\ NoFault /\ proc[p].pc = "span"
  BY DEF ClaimSpan, NoFault
<1>2. CASE proc' = Gone(p) /\ UNCHANGED work
  <2>1. proc' = [proc EXCEPT ![p] = Done(p)] /\ Near(Done(p), proc[p]) /\ UNCHANGED db
    BY <1>1, <1>2, DoneOK DEF db
  <2> QED BY <1>1, <2>1, NearStep, Nothing, Mem
<1>3. ASSUME NEW ks \in SUBSET {k \in Job : Ready(k)}, j \notin ks,
             work' = Claimed(p, ks),
             proc' = [proc EXCEPT ![p].held = @ \cup Leases(ks), ![p].pc = "plan"]
      PROVE  IInv' /\ Up
  <2>1. proc[p] \in Proc_ /\ Memory(proc[p])
    BY Mem
  <2>2. TableOK(work', cert) /\ Leases(ks) \subseteq Job \X Token
    BY <1>3, TableClaimed
  <2>3. PICK h \in Job \X Token : proc[p].held = {h}
    BY <1>1, <2>1 DEF Memory
  <2>4. h[1] = j
    BY <2>3 DEF First
  <2> DEFINE held == {h} \cup Leases(ks)
             new == [proc[p] EXCEPT !.held = held, !.pc = "plan"]
  <2>5. held \subseteq Job \X Token
    BY <2>2
  <2>6. \A k \in Job, t, u \in Token : <<k, t>> \in held /\ <<k, u>> \in held => t = u
    BY <1>3, <2>3, <2>4 DEF Leases
  <2>7. proc' = [proc EXCEPT ![p] = new]
    BY <1>3, <2>3
  <2> HIDE DEF held
  <2>8. /\ new \in Proc_ /\ new.held = held /\ new.step = proc[p].step /\ new.mark = proc[p].mark
        /\ new.pc = "plan"
    BY <2>1, <2>5 DEF Proc_, Pc_
  <2> HIDE DEF new
  <2>9. Memory(new)
    BY <2>1, <2>6, <2>8 DEF Memory
  <2>10. PStep(p)
    BY <2>7, <2>8, <2>9 DEF PStep
  <2> QED BY <1>1, <2>2, <2>10, WorkInv
<1>4. CASE HoldsLease(p, j)
  <2> DEFINE near == {k \in Job : Ready(k) /\ k[2] = j[2] /\ j[1] < k[1] /\ k[1] < j[1] + Span}
             pair(js) == {k \in Job : Ready(k) /\ k[2] \in Logs \ {j[2]} /\ k[1] \in {i[1] : i \in js}}
  <2>1. j \in Job /\ j[1] \in Nat
    BY <1>4, HoldsJob, Numbers
  <2>2. PICK js \in SUBSET near : \E others \in SUBSET pair(js \cup {j}) :
            /\ work' = Claimed(p, js \cup others)
            /\ proc' = [proc EXCEPT ![p].held = @ \cup Leases(js \cup others), ![p].pc = "plan"]
    BY <1>4 DEF ClaimSpan
  <2>3. PICK others \in SUBSET pair(js \cup {j}) :
            /\ work' = Claimed(p, js \cup others)
            /\ proc' = [proc EXCEPT ![p].held = @ \cup Leases(js \cup others), ![p].pc = "plan"]
    BY <2>2
  <2>4. js \cup others \in SUBSET {k \in Job : Ready(k)}
    BY <2>2, <2>3
  <2>5. j \notin js /\ j \notin others
    BY <2>1
  <2> HIDE DEF near, pair, j
  <2> QED BY <1>3, <2>3, <2>4, <2>5
<1> QED BY <1>2, <1>4 DEF ClaimSpan

LEMMA LeaseExpiresInv ==
  ASSUME IInv, NEW j \in Job, LeaseExpires(j)
  PROVE  IInv' /\ Up
<1> DEFINE no == FALSE
           new == [work[j] EXCEPT !.live = no]
<1>1. /\ work \in [Job -> Row] /\ cert \in [Block -> SUBSET Logs] /\ lane \in Lane_ /\ proc \in [Proc -> Proc_]
      /\ block \in [Block -> Block_] /\ covered \in [Block -> SUBSET Comp] /\ TableOK(work, cert)
  BY TableIs, Types DEF IInv
<1>2. /\ UNCHANGED <<chain, block, covered, cert, lane, proc, history>> /\ (Fault \/ NoFault)
      /\ work[j].state = "leased" /\ work' = [work EXCEPT ![j] = new]
  BY DEF LeaseExpires
<1>3. no \in BOOLEAN /\ ~no
  OBVIOUS
<1> HIDE DEF no
<1>4. new \in Row /\ ~new.live
  BY <1>1, <1>3 DEF Row
<1> HIDE DEF new
<1>5. work' \in [Job -> Row] /\ ~work'[j].live /\ \A k \in Job \ {j} : work'[k] = work[k]
  BY <1>1, <1>2, <1>4
<1>6. TableOK(work', cert)
  BY <1>1, <1>2, <1>5, TableRow
<1>7. EvidenceOK' /\ SealedBelow' /\ MemoryOK'
  BY <1>2 DEF IInv, EvidenceOK, SealedBelow, Sealed, Persisted, MemoryOK, Memory
<1>8. TableOK(work', cert')
  BY <1>2, <1>6
<1>9. Up
  BY <1>2, UpSame DEF Sealed, Persisted
<1> QED BY <1>1, <1>2, <1>7, <1>8, <1>9, StepInv

LEMMA FlushInv ==
  ASSUME IInv, NEW p \in Proc, Flush(p)
  PROVE  IInv' /\ Up
<1>1. /\ work \in [Job -> Row] /\ cert \in [Block -> SUBSET Logs] /\ lane \in Lane_ /\ proc \in [Proc -> Proc_]
      /\ block \in [Block -> Block_] /\ covered \in [Block -> SUBSET Comp] /\ TableOK(work, cert)
      /\ proc[p] \in Proc_ /\ MemoryOK
  BY Mem, TableIs, Types DEF IInv
<1>2. UNCHANGED <<chain, block, covered, cert, work, history>> /\ NoFault /\ proc[p].pc \in {"idle", "flush"}
  BY DEF Flush, NoFault
<1> DEFINE ceiling == IF proc[p].pc = "idle" THEN lane.processed ELSE proc[p].ceiling
           more == lane'.through = lane.through + Window /\ lane'.through < ceiling
           pc == IF more THEN "flush" ELSE "idle"
           upto == IF more THEN ceiling ELSE 0
           new == [proc[p] EXCEPT !.pc = pc, !.ceiling = upto]
<1>3. lane.processed \in Block \cup {0} /\ upto \in Block \cup {0} /\ pc \in Pc_ \ {"span"}
  BY <1>1 DEF Lane_, Proc_, Pc_
<1>4. lane' \in Progressed(lane, Sealed, work, lane.processed, ceiling) /\ proc' = [proc EXCEPT ![p] = new]
  BY DEF Flush
<1> HIDE DEF pc, upto
<1>5. Near(new, proc[p])
  BY <1>1, <1>3 DEF Near, Proc_
<1> HIDE DEF new, ceiling
<1>6. proc' \in [Proc -> Proc_] /\ MemoryOK'
  <2>1. PStep(p)
    BY <1>1, <1>4, <1>5, NearOK
  <2> QED BY <1>1, <2>1, PStepOK
<1>7. /\ lane' \in Lane_ /\ lane.through <= lane'.through
      /\ \A b \in Block : b <= lane'.through => b \in Sealed
  <2>1. \A b \in Block : b <= lane.through => b \in Sealed
    BY DEF IInv, SealedBelow
  <2> QED BY <1>1, <1>3, <1>4, <2>1, ProgressOK
<1>8. SealedBelow' /\ EvidenceOK' /\ TableOK(work', cert')
  BY <1>1, <1>2, <1>7 DEF IInv, EvidenceOK, SealedBelow, Sealed, Persisted
<1>9. Up
  BY <1>2, <1>7 DEF Up, Sealed, Persisted
<1> QED BY <1>1, <1>2, <1>6, <1>7, <1>8, <1>9, StepInv

LEMMA MarkBulkInv ==
  ASSUME IInv, NEW p \in Proc, MarkBulk(p)
  PROVE  IInv' /\ Up
<1> DEFINE j == First(p)
           b == j[1]
           fresh == block[b].got = 0 /\ ~block[b].bulk
           pc == IF block[b].conflict THEN "conflict" ELSE IF fresh THEN "bulk" ELSE "missing"
<1>1. /\ work \in [Job -> Row] /\ cert \in [Block -> SUBSET Logs] /\ lane \in Lane_ /\ proc \in [Proc -> Proc_]
      /\ block \in [Block -> Block_] /\ covered \in [Block -> SUBSET Comp] /\ TableOK(work, cert)
      /\ proc[p] \in Proc_ /\ MemoryOK
  BY Mem, TableIs, Types DEF IInv
<1>2. UNCHANGED <<chain, covered, cert, work, lane, history>> /\ NoFault
  BY DEF MarkBulk, NoFault
<1>3. pc \in Pc_ \ {"span"}
  BY DEF Pc_
<1>4. proc' = [proc EXCEPT ![p] = Done(p)] \/ proc' = [proc EXCEPT ![p] = At(p, pc)]
  BY DoneOK DEF MarkBulk, To, At
<1>5. proc' \in [Proc -> Proc_] /\ MemoryOK'
  <2> HIDE DEF pc
  <2>1. Near(Done(p), proc[p]) /\ Near(At(p, pc), proc[p])
    BY <1>3, DoneOK, AtOK
  <2>2. PStep(p)
    BY <1>1, <1>4, <2>1, NearOK
  <2> QED BY <1>1, <2>2, PStepOK
<1>6. CASE UNCHANGED block
  <2>1. EvidenceOK' /\ SealedBelow' /\ TableOK(work', cert')
    BY <1>1, <1>2, <1>6 DEF IInv, EvidenceOK, SealedBelow, Sealed, Persisted
  <2>2. Up
    BY <1>2, <1>6, UpSame DEF Sealed, Persisted
  <2> QED BY <1>1, <1>2, <1>5, <1>6, <2>1, <2>2, StepInv
<1>7. CASE ~Refused(p, j) /\ block' = [block EXCEPT ![b].bulk = TRUE]
  <2> DEFINE yes == TRUE
             new == [block[b] EXCEPT !.bulk = yes]
  <2>1. b \in Block
    BY <1>7, HoldsJob DEF Refused
  <2> HIDE DEF j
  <2>2. block' = [block EXCEPT ![b] = new] /\ yes \in BOOLEAN
    BY <1>7
  <2> HIDE DEF yes
  <2>3. /\ new \in Block_ /\ new.got = block[b].got /\ new.receipts = block[b].receipts
        /\ new.all_logs = block[b].all_logs /\ new.transfer_logs = block[b].transfer_logs
        /\ new.conflict = block[b].conflict
    BY <1>1, <2>1, <2>2 DEF Block_
  <2> HIDE DEF new
  <2>4. /\ block' \in [Block -> Block_]
        /\ \A c \in Block : /\ block'[c].got = block[c].got /\ block'[c].receipts = block[c].receipts
                            /\ block'[c].all_logs = block[c].all_logs
                            /\ block'[c].transfer_logs = block[c].transfer_logs
                            /\ block'[c].conflict = block[c].conflict
    BY <1>1, <2>1, <2>2, <2>3
  <2>5. EvidenceOK'
    BY <1>2, <2>4 DEF IInv, EvidenceOK
  <2>6. SealedBelow'
    BY <1>2, <2>4 DEF IInv, SealedBelow, Sealed, Persisted
  <2>7. TableOK(work', cert')
    BY <1>1, <1>2
  <2>8. Up
    BY <1>2, <2>4, UpSame DEF Sealed, Persisted
  <2> QED BY <1>1, <1>2, <1>5, <2>4, <2>5, <2>6, <2>7, <2>8, StepInv
<1> QED BY <1>6, <1>7 DEF MarkBulk

\* Seals stay when evidence is only added.
Adds ==
  \A c \in Block :
    /\ block[c].receipts => block'[c].receipts
    /\ block[c].all_logs => block'[c].all_logs
    /\ block[c].transfer_logs => block'[c].transfer_logs
    /\ block'[c].conflict = block[c].conflict
    /\ covered[c] \subseteq covered'[c]
    /\ cert[c] \subseteq cert'[c]

LEMMA AddsOK ==
  ASSUME Adds, UNCHANGED chain, covered' \in [Block -> SUBSET Comp], cert' \in [Block -> SUBSET Logs]
  PROVE  Sealed \subseteq Sealed'
BY DEF Adds, Sealed, Persisted

\* The frontier moves on in the transaction that wrote the evidence.
LEMMA ProgressStep ==
  ASSUME IInv, NEW b \in Block, Sealed \subseteq Sealed', Progress(lane, b)
  PROVE  lane' \in Lane_ /\ SealedBelow' /\ lane.through <= lane'.through
<1>1. lane \in Lane_ /\ \A c \in Block : c <= lane.through => c \in Sealed'
  BY Types DEF IInv, SealedBelow
<1>2. lane' \in Progressed(lane, Sealed', work', b, Max({b, lane.processed}))
  BY DEF Progress
<1>3. lane' \in Lane_ /\ lane.through <= lane'.through /\ \A c \in Block : c <= lane'.through => c \in Sealed'
  BY <1>1, <1>2, ProgressOK
<1> QED BY <1>3 DEF SealedBelow

LEMMA SaveReceiptsOK ==
  ASSUME IInv, NEW p \in Proc, NEW j, NEW n \in 0 .. (TxCount[j[1]] - block[j[1]].got), NEW final \in BOOLEAN,
         SaveReceipts(p, j, n, final), UNCHANGED chain
  PROVE  /\ block' \in [Block -> Block_] /\ covered' \in [Block -> SUBSET Comp] /\ cert' \in [Block -> SUBSET Logs]
         /\ TableOK(work', cert') /\ EvidenceOK' /\ lane' \in Lane_ /\ SealedBelow' /\ Up
<1> DEFINE b == j[1]
           complete == block[b].got + n = TxCount[b]
           followups == IF complete /\ proc[p].follow THEN LogJobs(b) ELSE {}
           got == block[b].got + n
           r == block[b].receipts \/ complete
           new == [block[b] EXCEPT !.got = got, !.receipts = r]
<1>1. /\ work \in [Job -> Row] /\ cert \in [Block -> SUBSET Logs] /\ lane \in Lane_
      /\ block \in [Block -> Block_] /\ covered \in [Block -> SUBSET Comp] /\ TableOK(work, cert)
      /\ EvidenceOK
  BY TableIs, Types DEF IInv
<1>2. j \in Job /\ b \in Block /\ work[j].state = "leased"
  BY HoldsJob DEF SaveReceipts, Refused
<1>3. /\ block' = [block EXCEPT ![b] = new]
      /\ covered' = [covered EXCEPT ![b] = IF complete THEN @ \cup {"receipts"} ELSE @]
      /\ UNCHANGED cert
      /\ \E w \in IF followups = {} THEN {work} ELSE Pruned(work) :
           /\ HasRoom(w, followups)
           /\ IF final THEN work' \in Settled(Finished(Enqueued(w, followups), j, complete), complete)
              ELSE work' = Enqueued(w, followups)
      /\ Progress(lane, b)
  BY DEF SaveReceipts
<1>4. block[b].got \in Nat /\ TxCount[b] \in Nat /\ block[b].got <= TxCount[b] /\ n \in Nat
      /\ got \in Nat /\ got <= TxCount[b]
  BY <1>1, <1>2, Numbers DEF Block_, EvidenceOK
<1>5. Addable(followups)
  BY JobsOK
<1>6. r \in BOOLEAN
  OBVIOUS
<1>7. block[b].receipts \/ cert[b] # {} => got = TxCount[b]
  BY <1>1, <1>2, <1>4 DEF EvidenceOK
<1>8. r \/ cert[b] # {} => got = TxCount[b]
  BY <1>4, <1>7
<1>9. block[b].receipts => r
  OBVIOUS
<1> DEFINE cov == IF complete THEN covered[b] \cup {"receipts"} ELSE covered[b]
<1>10. covered' = [covered EXCEPT ![b] = cov] /\ cov \subseteq Comp /\ covered[b] \subseteq cov
  BY <1>1, <1>2, <1>3 DEF Comp
<1>11. complete \in BOOLEAN
  OBVIOUS
<1> HIDE DEF got, r, cov, b, complete
<1>12. /\ new \in Block_ /\ new.got = got /\ new.receipts = r /\ new.all_logs = block[b].all_logs
       /\ new.transfer_logs = block[b].transfer_logs /\ new.conflict = block[b].conflict
  BY <1>1, <1>2, <1>4, <1>6 DEF Block_
<1> HIDE DEF new
<1>13. block' \in [Block -> Block_] /\ block'[b] = new /\ \A c \in Block \ {b} : block'[c] = block[c]
  BY <1>1, <1>2, <1>3, <1>12
<1>14. /\ covered' \in [Block -> SUBSET Comp] /\ covered'[b] = cov
       /\ \A c \in Block \ {b} : covered'[c] = covered[c]
  BY <1>1, <1>2, <1>10
<1>15. EvidenceOK'
  <2>1. \A c \in Block : /\ block'[c].got <= TxCount[c]
                         /\ block'[c].receipts \/ cert[c] # {} => block'[c].got = TxCount[c]
    BY <1>1, <1>4, <1>8, <1>12, <1>13 DEF EvidenceOK
  <2> QED BY <1>3, <2>1 DEF EvidenceOK
<1>16. Sealed \subseteq Sealed'
  <2>1. Adds
    BY <1>3, <1>9, <1>10, <1>12, <1>13, <1>14 DEF Adds
  <2> QED BY <1>1, <1>3, <1>14, <2>1, AddsOK
<1>17. lane' \in Lane_ /\ SealedBelow' /\ Up
  BY <1>2, <1>3, <1>16, ProgressStep DEF Up
<1>18. TableOK(work', cert')
  <2>1. PICK w \in IF followups = {} THEN {work} ELSE Pruned(work) :
           /\ HasRoom(w, followups)
           /\ IF final THEN work' \in Settled(Finished(Enqueued(w, followups), j, complete), complete)
              ELSE work' = Enqueued(w, followups)
    BY <1>3
  <2> HIDE DEF followups
  <2>2. TableOK(w, cert) /\ w[j] = work[j]
    BY <1>1, <1>2, TablePruned, PrunedOK
  <2> DEFINE v == Enqueued(w, followups)
  <2>3. TableOK(v, cert)
    BY <1>1, <1>5, <2>1, <2>2, TableEnqueued DEF Addable
  <2>4. v[j] = work[j]
    BY <1>2, <2>2, EnqueuedOK DEF TableOK
  <2> HIDE DEF v
  <2>5. TableOK(Finished(v, j, complete), cert)
    BY <1>1, <1>2, <1>11, <2>3, <2>4, TableFinished
  <2>6. CASE final
    <3>1. work' \in Settled(Finished(v, j, complete), complete)
      BY <2>1, <2>6 DEF v
    <3> QED BY <1>1, <1>3, <1>11, <2>5, <3>1, TableSettled
  <2>7. CASE ~final
    BY <1>3, <2>1, <2>3, <2>7 DEF v
  <2> QED BY <2>6, <2>7
<1> QED BY <1>1, <1>3, <1>13, <1>14, <1>15, <1>17, <1>18

LEMMA ReadBulkInv ==
  ASSUME IInv, NEW p \in Proc, ReadBulk(p)
  PROVE  IInv' /\ Up
<1> DEFINE j == First(p)
           missing == TxCount[j[1]] - block[j[1]].got
<1>1. UNCHANGED <<chain, history>> /\ proc \in [Proc -> Proc_] /\ MemoryOK
  BY Mem DEF ReadBulk, IInv
<1>2. Near(Done(p), proc[p]) /\ Near(At(p, "missing"), proc[p])
  BY DoneOK, AtOK DEF Pc_
<1>3. CASE SaveReceipts(p, j, missing, TRUE) /\ proc' = Gone(p) /\ NoFault
  <2>1. proc' = [proc EXCEPT ![p] = Done(p)]
    BY <1>3, DoneOK
  <2>2. PStep(p)
    BY <1>1, <1>2, <2>1, NearOK
  <2>3. missing \in 0 .. missing
    <3>1. j[1] \in Block
      BY <1>3, HoldsJob DEF SaveReceipts, Refused
    <3>2. block[j[1]].got \in Nat /\ TxCount[j[1]] \in Nat /\ block[j[1]].got <= TxCount[j[1]]
      BY <3>1, Types, Numbers DEF IInv, Block_, EvidenceOK
    <3> HIDE DEF j
    <3> QED BY <3>2
  <2> HIDE DEF j
  <2>4. /\ block' \in [Block -> Block_] /\ covered' \in [Block -> SUBSET Comp] /\ cert' \in [Block -> SUBSET Logs]
        /\ TableOK(work', cert') /\ EvidenceOK' /\ lane' \in Lane_ /\ SealedBelow' /\ Up
    BY <1>1, <1>3, <2>3, SaveReceiptsOK
  <2> QED BY <1>1, <1>3, <2>2, <2>4, PStepOK, StepInv
<1>4. ASSUME NEW n \in 1 .. missing, SaveReceipts(p, j, n, FALSE), Fault, proc' = To(p, "missing")
      PROVE  IInv' /\ Up
  <2>1. proc' = [proc EXCEPT ![p] = At(p, "missing")]
    BY <1>4 DEF To, At
  <2>2. PStep(p)
    BY <1>1, <1>2, <2>1, NearOK
  <2>3. n \in 0 .. missing
    OBVIOUS
  <2> HIDE DEF j
  <2>4. /\ block' \in [Block -> Block_] /\ covered' \in [Block -> SUBSET Comp] /\ cert' \in [Block -> SUBSET Logs]
        /\ TableOK(work', cert') /\ EvidenceOK' /\ lane' \in Lane_ /\ SealedBelow' /\ Up
    BY <1>1, <1>4, <2>3, SaveReceiptsOK
  <2> QED BY <1>1, <1>4, <2>2, <2>4, PStepOK, StepInv
<1>5. CASE Fault /\ proc' = To(p, "missing") /\ UNCHANGED db
  <2>1. proc' = [proc EXCEPT ![p] = At(p, "missing")]
    BY <1>5 DEF To, At
  <2> QED BY <1>1, <1>2, <1>5, <2>1, NearStep, Nothing, Mem
<1> QED BY <1>3, <1>4, <1>5 DEF ReadBulk

LEMMA ReadMissingInv ==
  ASSUME IInv, NEW p \in Proc, ReadMissing(p)
  PROVE  IInv' /\ Up
<1> DEFINE j == First(p)
           missing == TxCount[j[1]] - block[j[1]].got
<1>1. UNCHANGED <<chain, history>> /\ proc \in [Proc -> Proc_] /\ MemoryOK
  BY Mem DEF ReadMissing, IInv
<1>2. PICK n \in 0 .. missing : SaveReceipts(p, j, n, TRUE) /\ (Fault \/ NoFault)
  BY DEF ReadMissing
<1>3. proc' = [proc EXCEPT ![p] = Done(p)] /\ Near(Done(p), proc[p])
  BY DoneOK DEF ReadMissing
<1>4. PStep(p)
  BY <1>1, <1>3, NearOK
<1> HIDE DEF j
<1>5. /\ block' \in [Block -> Block_] /\ covered' \in [Block -> SUBSET Comp] /\ cert' \in [Block -> SUBSET Logs]
      /\ TableOK(work', cert') /\ EvidenceOK' /\ lane' \in Lane_ /\ SealedBelow' /\ Up
  BY <1>1, <1>2, SaveReceiptsOK
<1> QED BY <1>1, <1>2, <1>4, <1>5, PStepOK, StepInv

\* A conflict withdraws one seal, and the frontier falls to just below it.
Withdraws(b) ==
  /\ Sealed' = Sealed \ {b}
  /\ IF b <= lane.through THEN lane'.through = b - 1 ELSE lane.through <= lane'.through

LEMMA RecordConflictInv ==
  ASSUME IInv, NEW p \in Proc, RecordConflict(p)
  PROVE  IInv' /\ (Up \/ \E b \in Block : Withdraws(b))
<1> DEFINE j == First(p)
           b == j[1]
           th == IF lane.through >= b THEN b - 1 ELSE lane.through
           lowered == [lane EXCEPT !.through = th]
           yes == TRUE
           no == FALSE
           none == {}
           new == [block[b] EXCEPT !.conflict = yes, !.receipts = no, !.all_logs = no, !.transfer_logs = no]
           row == [NoRow EXCEPT !.state = "persistent_partial"]
<1>1. /\ work \in [Job -> Row] /\ cert \in [Block -> SUBSET Logs] /\ lane \in Lane_ /\ proc \in [Proc -> Proc_]
      /\ block \in [Block -> Block_] /\ covered \in [Block -> SUBSET Comp] /\ TableOK(work, cert)
      /\ MemoryOK /\ EvidenceOK /\ SealedBelow
  BY TableIs, Types DEF IInv
<1>2. /\ UNCHANGED <<chain, history>> /\ NoFault
      /\ proc' = [proc EXCEPT ![p] = Done(p)] /\ Near(Done(p), proc[p])
  BY DoneOK DEF RecordConflict, NoFault
<1>3. CASE UNCHANGED db
  BY <1>2, <1>3, NearStep, Nothing, Mem
<1>4. CASE /\ HoldsLease(p, j)
           /\ block' = [block EXCEPT ![b].conflict = TRUE, ![b].receipts = FALSE,
                                     ![b].all_logs = FALSE, ![b].transfer_logs = FALSE]
           /\ covered' = [covered EXCEPT ![b] = {}]
           /\ work' = [work EXCEPT ![j] = [NoRow EXCEPT !.state = "persistent_partial"]]
           /\ UNCHANGED cert
           /\ Progress([lane EXCEPT !.through = IF @ >= b THEN b - 1 ELSE @], b)
  <2>1. j \in Job /\ b \in Block /\ work[j].state = "leased"
    BY <1>4, HoldsJob
  <2>2. block' = [block EXCEPT ![b] = new] /\ covered' = [covered EXCEPT ![b] = none]
    BY <1>4
  <2>3. yes \in BOOLEAN /\ no \in BOOLEAN /\ none \subseteq Comp /\ ~no /\ yes
    OBVIOUS
  <2>4. /\ th \in Block \cup {0} /\ th <= lane.through /\ th < b
        /\ b <= lane.through => th = b - 1
        /\ ~(b <= lane.through) => th = lane.through
    BY <1>1, <2>1, Numbers DEF Lane_
  <2>5. Progress(lowered, b)
    BY <1>4
  <2>6. row \in Row /\ ~row.live
    BY Rows DEF Row, NoRow
  <2>7. work' = [work EXCEPT ![j] = row]
    BY <1>4
  <2>20. UNCHANGED cert
    BY <1>4
  <2> HIDE DEF row, yes, no, none, th, b, j
  <2>8. new \in Block_ /\ new.got = block[b].got /\ ~new.receipts /\ new.conflict
    BY <1>1, <2>1, <2>3 DEF Block_
  <2> HIDE DEF new
  <2>9. block' \in [Block -> Block_] /\ block'[b] = new /\ \A c \in Block \ {b} : block'[c] = block[c]
    BY <1>1, <2>1, <2>2, <2>8
  <2>10. covered' \in [Block -> SUBSET Comp] /\ \A c \in Block \ {b} : covered'[c] = covered[c]
    BY <1>1, <2>1, <2>2, <2>3
  <2>11. lowered \in Lane_ /\ lowered.through = th /\ lowered.processed = lane.processed
    BY <1>1, <2>4 DEF Lane_
  <2> HIDE DEF lowered
  <2>12. EvidenceOK'
    <3>1. \A c \in Block : /\ block'[c].got <= TxCount[c]
                           /\ block'[c].receipts \/ cert[c] # {} => block'[c].got = TxCount[c]
      BY <1>1, <2>8, <2>9 DEF EvidenceOK
    <3> QED BY <2>20, <3>1 DEF EvidenceOK
  <2>13. \A c \in Block : c <= th => c \in Sealed'
    <3>1. ASSUME NEW c \in Block, c <= th  PROVE c \in Sealed'
      <4>1. c # b /\ c <= lane.through
        BY <1>1, <2>1, <2>4, <3>1, Numbers DEF Lane_
      <4>2. c \in Sealed
        BY <1>1, <4>1 DEF SealedBelow
      <4> QED BY <1>2, <2>9, <2>10, <2>20, <4>1, <4>2 DEF Sealed, Persisted
    <3> QED BY <3>1
  <2>14. lane' \in Lane_ /\ SealedBelow' /\ th <= lane'.through
    <3>1. lane' \in Progressed(lowered, Sealed', work', b, Max({b, lowered.processed}))
      BY <2>5 DEF Progress
    <3>2. lane' \in Lane_ /\ th <= lane'.through /\ \A c \in Block : c <= lane'.through => c \in Sealed'
      BY <2>1, <2>11, <2>13, <3>1, ProgressOK
    <3> QED BY <3>2 DEF SealedBelow
  <2>15. TableOK(work', cert')
    <3>1. work' \in [Job -> Row] /\ ~work'[j].live /\ \A k \in Job \ {j} : work'[k] = work[k]
      BY <1>1, <2>1, <2>6, <2>7
    <3>2. TableOK(work', cert)
      BY <1>1, <2>1, <3>1, TableRow
    <3> QED BY <2>20, <3>2
  <2>16. PStep(p)
    BY <1>1, <1>2, NearOK
  <2>17. IInv'
    BY <1>1, <1>2, <2>9, <2>10, <2>12, <2>14, <2>15, <2>16, <2>20, PStepOK, StepInv
  <2>18. Sealed' = Sealed \ {b}
    <3>1. b \notin Sealed'
      BY <2>1, <2>8, <2>9 DEF Sealed
    <3>2. \A c \in Block \ {b} : c \in Sealed <=> c \in Sealed'
      BY <1>2, <2>9, <2>10, <2>20 DEF Sealed, Persisted
    <3>3. Sealed \subseteq Block /\ Sealed' \subseteq Block
      BY DEF Sealed, Persisted
    <3> QED BY <3>1, <3>2, <3>3
  <2>19. Withdraws(b)
    <3>1. lane'.through \in Nat /\ lane.through \in Nat /\ b \in Nat
      BY <1>1, <2>1, <2>14, Numbers DEF Lane_
    <3>2. ~(b <= lane'.through)
      BY <2>1, <2>14, <2>18 DEF SealedBelow
    <3> QED BY <2>4, <2>14, <2>18, <3>1, <3>2 DEF Withdraws
  <2> QED BY <2>1, <2>17, <2>19
<1> QED BY <1>3, <1>4 DEF RecordConflict

LEMMA ReleaseInv ==
  ASSUME IInv, NEW p \in Proc, Release(p)
  PROVE  IInv' /\ Up
<1>1. /\ work \in [Job -> Row] /\ cert \in [Block -> SUBSET Logs] /\ lane \in Lane_ /\ proc \in [Proc -> Proc_]
      /\ block \in [Block -> Block_] /\ covered \in [Block -> SUBSET Comp] /\ TableOK(work, cert)
      /\ MemoryOK /\ EvidenceOK /\ SealedBelow /\ proc[p] \in Proc_
  BY Mem, TableIs, Types DEF IInv
<1>2. UNCHANGED <<chain, history, block, covered, cert>> /\ NoFault
  BY DEF Release, NoFault
<1>3. PICK h \in proc[p].held :
       /\ LET j == h[1]
          IN  IF Refused(p, j) THEN UNCHANGED <<work, lane>>
              ELSE work' = Finished(work, j, FALSE) /\ Progress(lane, j[1])
       /\ proc' = IF proc[p].held = {h} THEN Gone(p) ELSE [proc EXCEPT ![p].held = @ \ {h}]
  BY DEF Release
<1> DEFINE j == h[1]
           rest == proc[p].held \ {h}
           fewer == [proc[p] EXCEPT !.held = rest]
<1>4. PStep(p)
  <2>1. CASE proc' = Gone(p)
    BY <1>1, <2>1, DoneOK, NearOK
  <2>2. CASE proc' = [proc EXCEPT ![p] = fewer]
    <3>1. proc[p].pc = "release" /\ rest \subseteq proc[p].held /\ rest \subseteq Job \X Token
      BY <1>1 DEF Release, Proc_
    <3> HIDE DEF rest
    <3>2. Near(fewer, proc[p])
      BY <1>1, <3>1 DEF Near, Proc_
    <3> HIDE DEF fewer
    <3> QED BY <1>1, <2>2, <3>2, NearOK
  <2> QED BY <1>3, <2>1, <2>2
<1>5. CASE UNCHANGED <<work, lane>>
  <2>1. TableOK(work', cert)
    BY <1>1, <1>5
  <2> QED BY <1>2, <1>4, <1>5, <2>1, WorkInv
<1>6. CASE ~Refused(p, j) /\ work' = Finished(work, j, FALSE) /\ Progress(lane, j[1])
  <2>1. j \in Job /\ j[1] \in Block /\ work[j].state = "leased"
    BY <1>6, HoldsJob DEF Refused
  <2> HIDE DEF j
  <2>2. TableOK(work', cert')
    <3>1. TableOK(Finished(work, j, FALSE), cert)
      BY <1>1, <2>1, TableFinished
    <3> QED BY <1>2, <1>6, <3>1
  <2>3. Sealed \subseteq Sealed'
    BY <1>2 DEF Sealed, Persisted
  <2>4. lane' \in Lane_ /\ SealedBelow' /\ Up
    BY <1>6, <2>1, <2>3, ProgressStep DEF Up
  <2>5. EvidenceOK'
    BY <1>1, <1>2 DEF EvidenceOK
  <2> QED BY <1>1, <1>2, <1>4, <2>2, <2>4, <2>5, PStepOK, StepInv
<1> QED BY <1>3, <1>5, <1>6

\* A block's log jobs are settled together: the ones in "saved" are held, and
\* get their certificate if they are in "done".
Written(saved, done) ==
  [j \in Job |-> IF j \in saved THEN Finished(work, j, j \in done)[j] ELSE work[j]]

LEMMA LogRows ==
  ASSUME TableOK(work, cert), cert \in [Block -> SUBSET Logs],
         NEW b \in Block, NEW saved \in SUBSET Job, NEW done \in SUBSET saved,
         \A j \in saved : work[j].state = "leased" /\ j[1] = b,
         cert' \in [Block -> SUBSET Logs],
         \A k \in cert'[b] : k \in cert[b] \/ \E j \in done : k = j[2],
         \A e \in Block \ {b} : cert'[e] = cert[e]
  PROVE  TableOK(Written(saved, done), cert')
<1> DEFINE v == Written(saved, done)
<1>0. work \in [Job -> Row]
  BY DEF TableOK
<1>1. ASSUME NEW j \in saved
      PROVE  /\ Finished(work, j, j \in done)[j] \in Row
             /\ Finished(work, j, j \in done)[j].live = FALSE
             /\ j \in done => Finished(work, j, j \in done)[j].state = "complete"
             /\ j \notin done => Finished(work, j, j \in done)[j].state = "retrying"
  <2> DEFINE x == j \in done
  <2>1. x \in BOOLEAN /\ j \in Job
    OBVIOUS
  <2> HIDE DEF x
  <2>2. Finished(work, j, x) \in [Job -> Row]
    BY <1>0, <2>1, FinishedOK
  <2>3. /\ Finished(work, j, x)[j].live = FALSE
        /\ x => Finished(work, j, x)[j].state = "complete"
        /\ ~x => Finished(work, j, x)[j].state = "retrying"
    <3> DEFINE s == IF x THEN "complete" ELSE "retrying"
               again == ~x
               new == [NoRow EXCEPT !.state = s, !.again = again]
    <3>1. Finished(work, j, x) = [work EXCEPT ![j] = new]
      BY DEF Finished
    <3>2. (x => s = "complete") /\ (~x => s = "retrying")
      OBVIOUS
    <3> HIDE DEF s, again
    <3>3. new.state = s /\ new.live = FALSE
      BY Rows DEF NoRow
    <3> HIDE DEF new
    <3>4. Finished(work, j, x)[j] = new
      BY <1>0, <2>1, <3>1
    <3> QED BY <3>2, <3>3, <3>4
  <2>4. Finished(work, j, x)[j] \in Row
    BY <2>1, <2>2
  <2> QED BY <2>3, <2>4 DEF x
<1>2. \A j \in Job : v[j] = IF j \in saved THEN Finished(work, j, j \in done)[j] ELSE work[j]
  BY DEF Written
<1>3. v \in [Job -> Row]
  BY <1>0, <1>1 DEF Written
<1>4. \A j \in saved : /\ v[j].live = FALSE
                       /\ j \in done => v[j].state = "complete"
                       /\ j \notin done => v[j].state = "retrying"
  <2> HIDE DEF v
  <2>1. ASSUME NEW j \in saved
        PROVE  /\ v[j].live = FALSE
               /\ j \in done => v[j].state = "complete"
               /\ j \notin done => v[j].state = "retrying"
    <3> DEFINE row == Finished(work, j, j \in done)[j]
    <3>1. v[j] = row
      BY <1>2
    <3>2. row.live = FALSE /\ (j \in done => row.state = "complete") /\ (j \notin done => row.state = "retrying")
      BY <1>1
    <3> HIDE DEF row
    <3> QED BY <3>1, <3>2
  <2> QED BY <2>1
<1>5. \A j \in Job \ saved : v[j] = work[j]
  BY <1>2
<1> HIDE DEF v
<1>6. NoneOpens(v, work)
  <2>1. \A j \in saved : work[j].state \notin {"none", "complete"}
    OBVIOUS
  <2> QED BY <1>5, <2>1 DEF NoneOpens
<1>7. Outstanding(v) <= MaxWork
  BY <1>0, <1>3, <1>6, Smaller DEF TableOK
<1>8. \A j \in Job : v[j].live => v[j].state = "leased" /\ v[j].owner \in Proc
  BY <1>4, <1>5 DEF TableOK
<1>9. ASSUME NEW e \in Block, NEW k \in cert[e]  PROVE v[<<e, k>>].state \in {"none", "complete"}
  <2>1. <<e, k>> \in Job /\ work[<<e, k>>].state \in {"none", "complete"}
    BY Certified DEF TableOK
  <2>2. <<e, k>> \notin saved
    BY <2>1
  <2> QED BY <1>5, <2>1, <2>2
<1>10. ASSUME NEW j \in done  PROVE v[<<b, j[2]>>].state = "complete"
  <2>1. j = <<b, j[2]>> /\ j \in saved
    BY DEF Job
  <2> QED BY <1>4, <2>1
<1>11. ASSUME NEW e \in Block, NEW k \in cert'[e]  PROVE v[<<e, k>>].state \in {"none", "complete"}
  <2>1. CASE k \in cert[e]
    BY <1>9, <2>1
  <2>2. CASE k \notin cert[e]
    <3>1. e = b
      BY <2>2
    <3>2. PICK j \in done : k = j[2]
      BY <2>2, <3>1
    <3> QED BY <1>10, <3>1, <3>2
  <2> QED BY <2>1, <2>2
<1>12. TableOK(v, cert')
  BY <1>3, <1>7, <1>8, <1>11 DEF TableOK
<1> QED BY <1>12 DEF v

\* persistLogPair, seen from the tables: of the log jobs in hand the ones in
\* "saved" are settled, the ones in "done" with a certificate.
Persisting(p, b, saved, done, held) ==
  LET all == <<b, "all_logs">>
      transfer == <<b, "transfer_logs">>
  IN
  /\ done \subseteq saved
  /\ all \in saved => all \in Held(p)
  /\ transfer \in saved => HoldsLease(p, transfer)
  /\ ~Refused(p, Lead(p, b)) /\ ReceiptSetComplete(b)
  /\ Fault \/ NoFault
  /\ cert' = [cert EXCEPT ![b] = @ \cup {j[2] : j \in done}]
  /\ block' = [block EXCEPT ![b].all_logs = @ \/ all \in done,
                            ![b].transfer_logs = @ \/ transfer \in done]
  /\ covered' = [covered EXCEPT ![b] = @ \cup {j[2] : j \in done}]
  /\ work' \in Settled(Written(saved, done), done # {})
  /\ \E status \in {"starting", "indexing", "caught_up", "retrying", "persistent_partial"} :
       lane' = [lane EXCEPT !.processed = Max({lane.processed, b}), !.status = status]
  /\ proc' = [proc EXCEPT ![p].todoLogs = proc[p].todoLogs \ {b}, ![p].held = held]

LEMMA PersistIs ==
  ASSUME NEW p \in Proc, PersistLogs(p)
  PROVE  LET b == Min(proc[p].todoLogs)
         IN  \E saved, done \in SUBSET {<<b, "all_logs">>, <<b, "transfer_logs">>} :
             \E held \in SUBSET proc[p].held : Persisting(p, b, saved, done, held)
<1> DEFINE b == Min(proc[p].todoLogs)
           all == <<b, "all_logs">>
           transfer == <<b, "transfer_logs">>
           hasAll == all \in Held(p)
           processed == Max({lane.processed, b})
           rest == proc[p].todoLogs \ {b}
<1>1. PICK answer \in {"exact", "capped", "inexact"} :
      LET allDone == hasAll /\ answer # "inexact"
          source == IF transfer \notin Held(p) THEN "none"
                    ELSE IF b \in proc[p].proven THEN "certificate"
                    ELSE IF ~hasAll THEN "query"
                    ELSE IF answer = "exact" THEN "response" ELSE "none"
          proof == "all_logs" \in cert[b] \/ (source = "response" /\ allDone)
          ours == source # "none" /\ HoldsLease(p, transfer)
          transferDone == ours /\ (IF source \in {"certificate", "response"} THEN proof ELSE answer # "inexact")
          saved == {j \in {all, transfer} : (j = all /\ hasAll) \/ (j = transfer /\ ours)}
          done == {j \in saved : (j = all /\ allDone) \/ (j = transfer /\ transferDone)}
          clean == (hasAll => allDone) /\ (source # "none" => transferDone)
      IN  /\ ~Refused(p, Lead(p, b)) /\ ReceiptSetComplete(b)
          /\ IF answer = "exact" THEN NoFault ELSE Fault
          /\ cert' = [cert EXCEPT ![b] = @ \cup {j[2] : j \in done}]
          /\ block' = [block EXCEPT ![b].all_logs = @ \/ all \in done,
                                    ![b].transfer_logs = @ \/ transfer \in done]
          /\ covered' = [covered EXCEPT ![b] = @ \cup {j[2] : j \in done}]
          /\ work' \in Settled([j \in Job |-> IF j \in saved THEN Finished(work, j, j \in done)[j] ELSE work[j]],
                               done # {})
          /\ lane' = [lane EXCEPT !.processed = processed,
                        !.status = IF @ = "persistent_partial" THEN @
                                   ELSE IF ~clean \/ @ = "retrying" THEN "retrying"
                                   ELSE IF lane.through = processed THEN "caught_up" ELSE "indexing"]
          /\ proc' = [proc EXCEPT ![p].todoLogs = @ \ {b},
                                  ![p].held = {h \in @ : h[1] \notin saved /\ ~(h[1] = transfer /\ source # "none")}]
  BY DEF PersistLogs
<1> DEFINE allDone == hasAll /\ answer # "inexact"
           source == IF transfer \notin Held(p) THEN "none"
                     ELSE IF b \in proc[p].proven THEN "certificate"
                     ELSE IF ~hasAll THEN "query"
                     ELSE IF answer = "exact" THEN "response" ELSE "none"
           proof == "all_logs" \in cert[b] \/ (source = "response" /\ allDone)
           ours == source # "none" /\ HoldsLease(p, transfer)
           transferDone == ours /\ (IF source \in {"certificate", "response"} THEN proof ELSE answer # "inexact")
           saved == {j \in {all, transfer} : (j = all /\ hasAll) \/ (j = transfer /\ ours)}
           done == {j \in saved : (j = all /\ allDone) \/ (j = transfer /\ transferDone)}
           clean == (hasAll => allDone) /\ (source # "none" => transferDone)
           held == {h \in proc[p].held : h[1] \notin saved /\ ~(h[1] = transfer /\ source # "none")}
           status == IF lane.status = "persistent_partial" THEN lane.status
                     ELSE IF ~clean \/ lane.status = "retrying" THEN "retrying"
                     ELSE IF lane.through = processed THEN "caught_up" ELSE "indexing"
<1>2. /\ ~Refused(p, Lead(p, b)) /\ ReceiptSetComplete(b)
      /\ Fault \/ NoFault
      /\ cert' = [cert EXCEPT ![b] = @ \cup {j[2] : j \in done}]
      /\ block' = [block EXCEPT ![b].all_logs = @ \/ all \in done,
                                ![b].transfer_logs = @ \/ transfer \in done]
      /\ covered' = [covered EXCEPT ![b] = @ \cup {j[2] : j \in done}]
      /\ work' \in Settled([j \in Job |-> IF j \in saved THEN Finished(work, j, j \in done)[j] ELSE work[j]],
                           done # {})
      /\ lane' = [lane EXCEPT !.processed = processed, !.status = status]
      /\ proc' = [proc EXCEPT ![p].todoLogs = rest, ![p].held = held]
  BY <1>1
<1>3. all # transfer
  OBVIOUS
<1>4. saved \subseteq {all, transfer} /\ done \subseteq saved /\ (all \in saved => hasAll)
      /\ (transfer \in saved => HoldsLease(p, transfer)) /\ held \subseteq proc[p].held
  BY <1>3
<1>5. status \in {"starting", "indexing", "caught_up", "retrying", "persistent_partial"}
  OBVIOUS
<1> HIDE DEF saved, done, held, status, b
<1>6. \E s \in {"starting", "indexing", "caught_up", "retrying", "persistent_partial"} :
        lane' = [lane EXCEPT !.processed = processed, !.status = s]
  BY <1>2, <1>5
<1>7. work' \in Settled(Written(saved, done), done # {})
  BY <1>2 DEF Written
<1>8. Persisting(p, b, saved, done, held)
  BY <1>2, <1>4, <1>6, <1>7 DEF Persisting
<1>9. saved \in SUBSET {all, transfer} /\ done \in SUBSET {all, transfer} /\ held \in SUBSET proc[p].held
  BY <1>4
<1>10. \E s, d \in SUBSET {all, transfer} : \E h \in SUBSET proc[p].held : Persisting(p, b, s, d, h)
  BY <1>8, <1>9
<1> QED BY <1>10 DEF b

LEMMA PersistLogsInv ==
  ASSUME IInv, NEW p \in Proc, PersistLogs(p)
  PROVE  IInv' /\ Up
<1>1. /\ work \in [Job -> Row] /\ cert \in [Block -> SUBSET Logs] /\ lane \in Lane_ /\ proc \in [Proc -> Proc_]
      /\ block \in [Block -> Block_] /\ covered \in [Block -> SUBSET Comp] /\ TableOK(work, cert)
      /\ MemoryOK /\ EvidenceOK /\ SealedBelow /\ proc[p] \in Proc_
  BY Mem, TableIs, Types DEF IInv
<1>2. UNCHANGED <<chain, history>> /\ proc[p].pc = "persist"
  BY DEF PersistLogs
<1> DEFINE b == Min(proc[p].todoLogs)
           all == <<b, "all_logs">>
           transfer == <<b, "transfer_logs">>
           hasAll == all \in Held(p)
           processed == Max({lane.processed, b})
           rest == proc[p].todoLogs \ {b}
<1>3. PICK saved \in SUBSET {all, transfer}, done \in SUBSET {all, transfer}, held \in SUBSET proc[p].held :
        Persisting(p, b, saved, done, held)
  BY PersistIs
<1>4. /\ done \subseteq saved
      /\ all \in saved => hasAll
      /\ transfer \in saved => HoldsLease(p, transfer)
      /\ ~Refused(p, Lead(p, b)) /\ ReceiptSetComplete(b)
      /\ Fault \/ NoFault
      /\ cert' = [cert EXCEPT ![b] = @ \cup {j[2] : j \in done}]
      /\ block' = [block EXCEPT ![b].all_logs = @ \/ all \in done,
                                ![b].transfer_logs = @ \/ transfer \in done]
      /\ covered' = [covered EXCEPT ![b] = @ \cup {j[2] : j \in done}]
      /\ work' \in Settled(Written(saved, done), done # {})
      /\ \E status \in {"starting", "indexing", "caught_up", "retrying", "persistent_partial"} :
           lane' = [lane EXCEPT !.processed = processed, !.status = status]
      /\ proc' = [proc EXCEPT ![p].todoLogs = rest, ![p].held = held]
  BY <1>3 DEF Persisting
<1>5. b \in Block /\ \A j \in saved : HoldsLease(p, j)
  <2>1. HoldsLease(p, Lead(p, b))
    BY <1>4 DEF Refused
  <2>2. Lead(p, b)[1] = b /\ (hasAll => Lead(p, b) = all)
    BY DEF Lead
  <2>3. b \in Block
    BY <2>1, <2>2, HoldsJob
  <2> HIDE DEF b
  <2> QED BY <1>4, <2>1, <2>2, <2>3
<1>6. saved \in SUBSET Job /\ \A j \in saved : work[j].state = "leased" /\ j[1] = b
  BY <1>4, <1>5, HoldsJob
<1> DEFINE certs == cert[b] \cup {j[2] : j \in done}
           covs == covered[b] \cup {j[2] : j \in done}
           al == block[b].all_logs \/ all \in done
           tl == block[b].transfer_logs \/ transfer \in done
           new == [block[b] EXCEPT !.all_logs = al, !.transfer_logs = tl]
<1>7. certs \subseteq Logs /\ covs \subseteq Comp /\ cert[b] \subseteq certs /\ covered[b] \subseteq covs
  <2>1. \A j \in done : j[2] \in Logs
    BY <1>4 DEF Logs
  <2> QED BY <1>1, <1>5, <2>1 DEF Comp
<1>8. al \in BOOLEAN /\ tl \in BOOLEAN /\ (block[b].all_logs => al) /\ (block[b].transfer_logs => tl)
  OBVIOUS
<1>9. processed \in Block \cup {0}
  <2>1. lane.processed \in Block \cup {0}
    BY <1>1 DEF Lane_
  <2> HIDE DEF b
  <2>0. lane.processed \in Nat /\ b \in Nat
    BY <1>5, <2>1, Numbers
  <2>2. processed \in {lane.processed, b}
    BY <2>0, MaxOfTwo
  <2> HIDE DEF processed
  <2> QED BY <1>5, <2>1, <2>2
<1>10. /\ cert' = [cert EXCEPT ![b] = certs] /\ covered' = [covered EXCEPT ![b] = covs]
       /\ block' = [block EXCEPT ![b] = new]
  BY <1>4
<1>11. rest \subseteq Block
  BY <1>1 DEF Proc_
<1> DEFINE mem == [proc[p] EXCEPT !.todoLogs = rest, !.held = held]
           rows == Written(saved, done)
<1>12. /\ proc' = [proc EXCEPT ![p] = mem] /\ work' \in Settled(rows, done # {})
       /\ \E status \in {"starting", "indexing", "caught_up", "retrying", "persistent_partial"} :
             lane' = [lane EXCEPT !.processed = processed, !.status = status]
       /\ ReceiptSetComplete(b) /\ (Fault \/ NoFault) /\ done \subseteq saved
  BY <1>4
<1> HIDE DEF certs, covs, al, tl, rest, processed, all, transfer, hasAll, b
<1>13. cert' \in [Block -> SUBSET Logs] /\ cert'[b] = certs /\ \A c \in Block \ {b} : cert'[c] = cert[c]
  BY <1>1, <1>5, <1>7, <1>10
<1>14. covered' \in [Block -> SUBSET Comp] /\ covered'[b] = covs /\ \A c \in Block \ {b} : covered'[c] = covered[c]
  BY <1>1, <1>5, <1>7, <1>10
<1>15. /\ new \in Block_ /\ new.got = block[b].got /\ new.receipts = block[b].receipts
       /\ new.conflict = block[b].conflict /\ new.all_logs = al /\ new.transfer_logs = tl
  BY <1>1, <1>5, <1>8 DEF Block_
<1> HIDE DEF new
<1>16. block' \in [Block -> Block_] /\ block'[b] = new /\ \A c \in Block \ {b} : block'[c] = block[c]
  BY <1>1, <1>5, <1>10, <1>15
<1>17. EvidenceOK'
  <2>1. block[b].got = TxCount[b]
    BY <1>12 DEF ReceiptSetComplete
  <2>2. block[b].got <= TxCount[b]
    BY <1>1, <1>5 DEF EvidenceOK
  <2>3. \A c \in Block : /\ block'[c].got <= TxCount[c]
                         /\ block'[c].receipts \/ cert'[c] # {} => block'[c].got = TxCount[c]
    BY <1>1, <1>13, <1>15, <1>16, <2>1, <2>2 DEF EvidenceOK
  <2> QED BY <2>3 DEF EvidenceOK
<1>18. SealedBelow' /\ lane' \in Lane_ /\ Up
  <2>1. Adds
    BY <1>7, <1>8, <1>13, <1>14, <1>15, <1>16 DEF Adds
  <2>2. Sealed \subseteq Sealed'
    BY <1>2, <1>13, <1>14, <2>1, AddsOK
  <2>3. lane' \in Lane_ /\ lane'.through = lane.through
    BY <1>1, <1>9, <1>12 DEF Lane_
  <2> QED BY <1>1, <2>2, <2>3, UpSame DEF SealedBelow
<1>19. TableOK(work', cert')
  <2>1. cert'[b] = cert[b] \cup {j[2] : j \in done}
    BY <1>13 DEF certs
  <2>2. TableOK(rows, cert')
    <3>1. done \in SUBSET saved
      BY <1>12
    <3>2. \A k \in cert'[b] : k \in cert[b] \/ \E i \in done : k = i[2]
      BY <2>1
    <3> QED BY <1>1, <1>5, <1>6, <1>13, <3>1, <3>2, LogRows
  <2> DEFINE x == done # {}
  <2>3. x \in BOOLEAN /\ work' \in Settled(rows, x)
    BY <1>12
  <2> HIDE DEF rows, x
  <2> QED BY <1>13, <2>2, <2>3, TableSettled
<1>20. PStep(p)
  <2>1. held \subseteq Job \X Token
    BY <1>1 DEF Proc_
  <2>2. Near(mem, proc[p])
    BY <1>1, <1>2, <1>11, <2>1 DEF Near, Proc_
  <2> HIDE DEF mem
  <2> QED BY <1>1, <1>12, <2>2, NearOK
<1> QED BY <1>1, <1>2, <1>12, <1>13, <1>14, <1>16, <1>17, <1>18, <1>19, <1>20, PStepOK, StepInv

-----------------------------------------------------------------------------
LEMMA InitInv == Init => IInv
<1> SUFFICES ASSUME Init  PROVE IInv
  OBVIOUS
<1>1. 1 \in Block /\ 0 \in 0 .. MaxFaults
  BY Numbers, LaneConstants
<1>2. chain \in Chain_ /\ lane \in Lane_ /\ passed \in Block \cup {0} /\ outrun \in BOOLEAN /\ faults \in 0 .. MaxFaults
  BY <1>1 DEF Init, Chain_, Lane_
<1>3. block \in [Block -> Block_] /\ covered \in [Block -> SUBSET Comp] /\ cert \in [Block -> SUBSET Logs]
  BY DEF Init, Block_
<1>4. work \in [Job -> Row] /\ \A j \in Job : work[j] = NoRow
  BY Rows DEF Init
<1>5. proc \in [Proc -> Proc_] /\ MemoryOK
  BY IdleOK DEF Init, MemoryOK, Memory
<1>6. EvidenceOK
  <2>1. \A b \in Block : TxCount[b] \in Nat
    BY Numbers
  <2> QED BY <2>1 DEF Init, EvidenceOK
<1>7. SealedBelow
  BY Numbers DEF Init, SealedBelow
<1>8. LeaseOK /\ CertifiedIsDone
  BY <1>4, Rows DEF Init, LeaseOK, CertifiedIsDone
<1>9. WithinCapacity
  <2>1. Open(work) = {}
    BY <1>4, Rows DEF Open
  <2>2. Cardinality(Open(work)) = 0
    BY <2>1, FS_EmptySet
  <2> QED BY <2>2, Numbers DEF WithinCapacity, Outstanding
<1> QED BY <1>2, <1>3, <1>4, <1>5, <1>6, <1>7, <1>8, <1>9, Types DEF IInv

\* Every step keeps the invariant; what it does to seals and frontier.
LEMMA NextInv ==
  ASSUME IInv, [Next]_vars
  PROVE  IInv' /\ (Up \/ \E b \in Block : Withdraws(b))
<1>1. ASSUME NEW p \in Proc, ChainLoop(p)  PROVE IInv' /\ Up
  BY <1>1, ChainTickInv, ReadDeferredInv, OfferDeferredInv, ReadRecentInv, OfferRecentInv, EndPassInv DEF ChainLoop
<1>2. ASSUME NEW p \in Proc, WorkLoop(p)  PROVE IInv' /\ (Up \/ \E b \in Block : Withdraws(b))
  BY <1>2, ClaimInv, MarkBulkInv, ReadBulkInv, ReadMissingInv, SaveRefusedInv, RecordConflictInv, ClaimSpanInv,
     PlanInv, PersistLogsInv, SkipLogsInv, EndBatchInv, ReleaseInv DEF WorkLoop
<1>3. ASSUME NEW p \in Proc, Flush(p)  PROVE IInv' /\ Up
  BY <1>3, FlushInv
<1>4. ASSUME NEW p \in Proc, Trouble(p)  PROVE IInv' /\ Up
  BY <1>4, ChainHaltsInv, MeetConflictInv, CallFailsInv, CrashInv DEF Trouble
<1>5. ASSUME NEW j \in Job, LeaseExpires(j)  PROVE IInv' /\ Up
  BY <1>5, LeaseExpiresInv
<1>6. CASE UNCHANGED vars
  <2>1. /\ UNCHANGED <<chain, db, proc, history, faults>>
        /\ UNCHANGED <<block, covered, cert, work, lane>> /\ UNCHANGED <<passed, outrun>>
    BY <1>6 DEF vars, db, history
  <2>2. TypeOK'
    BY <2>1 DEF IInv, TypeOK
  <2>3. EvidenceOK' /\ SealedBelow' /\ LeaseOK' /\ MemoryOK' /\ CertifiedIsDone' /\ WithinCapacity'
    BY <2>1 DEF IInv, EvidenceOK, SealedBelow, Sealed, Persisted, LeaseOK, MemoryOK, Memory, CertifiedIsDone,
                WithinCapacity, Outstanding, Open
  <2>4. Up
    BY <2>1, UpSame DEF Sealed, Persisted
  <2> QED BY <2>2, <2>3, <2>4 DEF IInv
<1> QED BY <1>1, <1>2, <1>3, <1>4, <1>5, <1>6 DEF Next

\* The inductive invariant holds of the receipt lane.
THEOREM LaneInvariant == Spec => []IInv
<1>1. Init => IInv
  BY InitInv
<1>2. IInv /\ [Next]_vars => IInv'
  BY NextInv
<1> QED BY <1>1, <1>2, PTL DEF Spec

\* Every variable keeps its type: the counts and cursors of the tables, and
\* what a process keeps between two transactions.
THEOREM LaneTypes == Spec => []TypeOK
<1>1. IInv => TypeOK
  BY DEF IInv
<1> QED BY <1>1, LaneInvariant, PTL

\* Up to the frontier all evidence is there, however many processes move it
\* (progress, advanceFrontier), whatever is lost and whichever conflicts are found.
THEOREM LaneFrontierIsProven == Spec => []FrontierIsProven
<1>1. IInv => FrontierIsProven
  <2> SUFFICES ASSUME IInv, NEW b \in Block, b <= lane.through
               PROVE  b \in Persisted /\ block[b].got = TxCount[b] /\ cert[b] = Logs /\ ~block[b].conflict
    BY DEF FrontierIsProven
  <2>1. b \in Sealed
    BY DEF IInv, SealedBelow
  <2>2. block[b].receipts => block[b].got = TxCount[b]
    BY DEF IInv, EvidenceOK
  <2> QED BY <2>1, <2>2 DEF Sealed
<1> QED BY <1>1, LaneInvariant, PTL

\* A certified component has no job that could still fail: followups are added
\* without it, and its own job is completed by the transaction that certifies it.
THEOREM LaneCertifiedIsDone == Spec => []CertifiedIsDone
<1>1. IInv => CertifiedIsDone
  BY DEF IInv
<1> QED BY <1>1, LaneInvariant, PTL

\* The table keeps its capacity: every insertion counts first, in its own
\* transaction, and a block's two log jobs are added together or not at all.
THEOREM LaneWithinCapacity == Spec => []WithinCapacity
<1>1. IInv => WithinCapacity
  BY DEF IInv
<1> QED BY <1>1, LaneInvariant, PTL

\* The lane's row implements the checkpoint of ContiguousFrontier.
THEOREM LaneIsAFrontier == Spec => IsAFrontier
<1>1. Init => Frontier!Init
  BY DEF Init, Frontier!Init, Sealed, Persisted
<1>2. IInv /\ IInv' /\ [Next]_vars => [Frontier!Next]_<<Sealed, lane.through>>
  <2> SUFFICES ASSUME IInv, IInv', [Next]_vars  PROVE Frontier!Next
    OBVIOUS
  <2>1. /\ lane.through \in Nat /\ lane'.through \in Block \cup {0} /\ Sealed' \subseteq Block
        /\ \A b \in Block : b <= lane'.through => b \in Sealed'
    <3>1. lane \in Lane_ /\ lane' \in Lane_
      BY Types DEF IInv, TypeOK, Lane_
    <3>2. SealedBelow'
      BY DEF IInv
    <3> QED BY <3>1, <3>2, Numbers DEF Lane_, Sealed, Persisted, SealedBelow
  <2>2. Frontier!Covers(Sealed', lane'.through)
    BY <2>1 DEF Frontier!Covers
  <2>3. CASE Up
    <3>1. Frontier!Grow
      BY <2>1, <2>2, <2>3 DEF Up, Frontier!Grow
    <3> QED BY <3>1 DEF Frontier!Next
  <2>4. ASSUME NEW b \in Block, Withdraws(b)  PROVE Frontier!Next
    <3>1. Frontier!Withdraw(b)
      BY <2>1, <2>2, <2>4 DEF Withdraws, Frontier!Withdraw
    <3> QED BY <3>1 DEF Frontier!Next
  <2> QED BY <2>3, <2>4, NextInv
<1> QED BY <1>1, <1>2, LaneInvariant, PTL DEF Spec, IsAFrontier, Frontier!Spec

-----------------------------------------------------------------------------
(***************************************************************************)
(* Fencing: who changes a row whose lease runs.                            *)
(***************************************************************************)
\* Rows with a running lease are kept, but for those p owns while its own memory moves on.
Spares(p) ==
  \A j \in Job : work[j].live =>
    work'[j] = work[j] \/ (work[j].owner = p /\ proc'[p] # proc[p])

\* Nothing that is done to the table at large touches a lease.
LEMMA LeasesStay ==
  ASSUME NEW w \in [Job -> Row], NEW j \in Job, w[j].state = "leased"
  PROVE  /\ \A v \in Pruned(w) : v[j] = w[j]
         /\ \A x \in BOOLEAN : \A v \in Settled(w, x) : v[j] = w[j]
         /\ \A js : Enqueued(w, js)[j] = w[j]
BY PrunedOK, SettledOK, EnqueuedOK

LEMMA Running ==
  ASSUME IInv, NEW j \in Job, work[j].live
  PROVE  work \in [Job -> Row] /\ work[j].state = "leased" /\ work[j].owner \in Proc
BY Types DEF IInv, LeaseOK

LEMMA OfferSpares ==
  ASSUME IInv, NEW p \in Proc, NEW js, Offer(p, js)
  PROVE  Spares(p)
<1> SUFFICES ASSUME NEW j \in Job, work[j].live  PROVE work'[j] = work[j]
  BY DEF Spares
<1>1. work \in [Job -> Row] /\ work[j].state = "leased"
  BY Running
<1>2. CASE UNCHANGED work
  BY <1>2
<1>3. ASSUME NEW w \in IF js = {} THEN {work} ELSE Pruned(work), work' = Enqueued(w, js)
      PROVE  work'[j] = work[j]
  <2>1. w \in [Job -> Row] /\ w[j] = work[j]
    BY <1>1, PrunedOK, LeasesStay
  <2>2. Enqueued(w, js)[j] = w[j]
    BY <1>1, <2>1, LeasesStay
  <2> QED BY <1>3, <2>1, <2>2
<1>4. UNCHANGED work \/ \E w \in IF js = {} THEN {work} ELSE Pruned(work) : work' = Enqueued(w, js)
  BY DEF Offer
<1> QED BY <1>2, <1>3, <1>4

LEMMA ClaimedSpares ==
  ASSUME IInv, NEW p \in Proc, NEW q \in Proc, NEW js \in SUBSET {j \in Job : Ready(j)}, work' = Claimed(p, js)
  PROVE  Spares(q)
<1> SUFFICES ASSUME NEW j \in Job, work[j].live  PROVE work'[j] = work[j]
  BY DEF Spares
<1>1. work \in [Job -> Row] /\ work[j].state = "leased" /\ MemoryOK
  BY Running DEF IInv
<1>2. j \notin js
  BY <1>1 DEF Ready
<1>3. Claimed(p, js)[j] = IF j \in js THEN LeasedBy(p, j) ELSE work[j]
  BY <1>1, ClaimedOK
<1> QED BY <1>2, <1>3

\* saveReceipts changes the row of its own job, and no other that is leased.
LEMMA SaveSpares ==
  ASSUME IInv, NEW p \in Proc, NEW i, NEW n, NEW final \in BOOLEAN, SaveReceipts(p, i, n, final),
         final => proc'[p] # proc[p]
  PROVE  Spares(p)
<1> SUFFICES ASSUME NEW j \in Job, work[j].live
             PROVE  work'[j] = work[j] \/ (work[j].owner = p /\ proc'[p] # proc[p])
  BY DEF Spares
<1> DEFINE complete == block[i[1]].got + n = TxCount[i[1]]
           followups == IF complete /\ proc[p].follow THEN LogJobs(i[1]) ELSE {}
<1>1. work \in [Job -> Row] /\ work[j].state = "leased"
  BY Running
<1>2. i \in Job /\ work[i].owner = p
  <2>1. HoldsLease(p, i)
    BY DEF SaveReceipts, Refused
  <2> QED BY <2>1, HoldsJob DEF HoldsLease
<1>3. PICK w \in IF followups = {} THEN {work} ELSE Pruned(work) :
           IF final THEN work' \in Settled(Finished(Enqueued(w, followups), i, complete), complete)
           ELSE work' = Enqueued(w, followups)
  BY DEF SaveReceipts
<1>4. complete \in BOOLEAN
  OBVIOUS
<1> HIDE DEF followups, complete
<1>5. w \in [Job -> Row] /\ w[j] = work[j]
  BY <1>1, PrunedOK, LeasesStay
<1> DEFINE v == Enqueued(w, followups)
<1>6. v \in [Job -> Row] /\ v[j] = work[j]
  BY <1>1, <1>5, EnqueuedOK, LeasesStay
<1>7. CASE ~final
  BY <1>3, <1>6, <1>7
<1>8. CASE final /\ j = i
  BY <1>2, <1>8
<1>9. CASE final /\ j # i
  <2> HIDE DEF v
  <2> DEFINE u == Finished(v, i, complete)
  <2>1. u \in [Job -> Row]
    BY <1>2, <1>4, <1>6, FinishedOK
  <2>5. u[j] = work[j]
    <3> DEFINE row == [NoRow EXCEPT !.state = IF complete THEN "complete" ELSE "retrying", !.again = ~complete]
    <3>1. u = [v EXCEPT ![i] = row]
      BY DEF Finished
    <3> HIDE DEF row, u
    <3> QED BY <1>2, <1>6, <1>9, <3>1
  <2>2. work' \in Settled(u, complete)
    BY <1>3, <1>9 DEF v
  <2> HIDE DEF u
  <2>3. work'[j] = u[j]
    BY <1>1, <1>4, <2>1, <2>5, <2>2, LeasesStay
  <2> QED BY <2>5, <2>3
<1> QED BY <1>7, <1>8, <1>9

\* Leaving a state is a change of memory.
LEMMA Leaves ==
  ASSUME IInv, NEW p \in Proc, proc' = Gone(p), proc[p].pc # "idle"
  PROVE  proc'[p] # proc[p]
<1>1. proc' = [proc EXCEPT ![p] = Done(p)] /\ proc[p] \in Proc_ /\ proc \in [Proc -> Proc_]
  BY DoneOK, Mem
<1>2. Done(p).pc = "idle"
  BY <1>1 DEF Done, Proc_
<1> QED BY <1>1, <1>2

LEMMA ConflictSpares ==
  ASSUME IInv, NEW p \in Proc, RecordConflict(p)
  PROVE  Spares(p)
<1> DEFINE i == First(p)
           row == [NoRow EXCEPT !.state = "persistent_partial"]
<1>1. proc'[p] # proc[p]
  BY Leaves DEF RecordConflict
<1>2. CASE HoldsLease(p, i) /\ work' = [work EXCEPT ![i] = row]
  <2>1. i \in Job /\ work[i].owner = p /\ work \in [Job -> Row]
    BY <1>2, HoldsJob, Types DEF HoldsLease, IInv
  <2> HIDE DEF i, row
  <2> QED BY <1>1, <1>2, <2>1 DEF Spares
<1>3. CASE UNCHANGED work
  BY <1>3 DEF Spares
<1> QED BY <1>2, <1>3 DEF RecordConflict, db

LEMMA ReleaseSpares ==
  ASSUME IInv, NEW p \in Proc, Release(p)
  PROVE  Spares(p)
<1>1. PICK h \in proc[p].held :
       /\ UNCHANGED work \/ (~Refused(p, h[1]) /\ work' = Finished(work, h[1], FALSE))
       /\ proc' = IF proc[p].held = {h} THEN Gone(p) ELSE [proc EXCEPT ![p].held = @ \ {h}]
  BY DEF Release
<1>2. proc'[p] # proc[p]
  <2>1. CASE proc' = Gone(p)
    BY <2>1, Leaves DEF Release
  <2>2. CASE proc' = [proc EXCEPT ![p].held = @ \ {h}]
    <3> DEFINE rest == proc[p].held \ {h}
               fewer == [proc[p] EXCEPT !.held = rest]
    <3>1. proc[p] \in Proc_ /\ proc \in [Proc -> Proc_] /\ h \notin rest
      BY Mem
    <3>2. proc' = [proc EXCEPT ![p] = fewer]
      BY <2>2
    <3> HIDE DEF rest
    <3>3. fewer.held = rest
      BY <3>1 DEF Proc_
    <3> HIDE DEF fewer
    <3> QED BY <3>1, <3>2, <3>3
  <2> QED BY <1>1, <2>1, <2>2
<1> DEFINE i == h[1]
<1>3. CASE ~Refused(p, i) /\ work' = Finished(work, i, FALSE)
  <2>1. i \in Job /\ work[i].owner = p /\ work \in [Job -> Row]
    BY <1>3, HoldsJob, Types DEF HoldsLease, IInv, Refused
  <2> HIDE DEF i
  <2>2. \A j \in Job \ {i} : work'[j] = work[j]
    BY <1>3, <2>1, FinishedOK
  <2> QED BY <1>2, <2>1, <2>2 DEF Spares
<1>4. CASE UNCHANGED work
  BY <1>4 DEF Spares
<1> QED BY <1>1, <1>3, <1>4

\* Of the jobs that persistLogPair settles all are held, and it writes no other row.
LEMMA PersistWrites ==
  ASSUME IInv, NEW p \in Proc, NEW b, NEW held,
         NEW saved \in SUBSET {<<b, "all_logs">>, <<b, "transfer_logs">>},
         NEW done \in SUBSET {<<b, "all_logs">>, <<b, "transfer_logs">>},
         Persisting(p, b, saved, done, held)
  PROVE  /\ \A j \in saved : j \in Job /\ work[j].owner = p
         /\ Written(saved, done) \in [Job -> Row]
         /\ \A j \in Job \ saved : Written(saved, done)[j] = work[j]
<1> DEFINE all == <<b, "all_logs">>
           transfer == <<b, "transfer_logs">>
<1>1. work \in [Job -> Row]
  BY Types DEF IInv
<1>2. /\ all \in saved => all \in Held(p)
      /\ transfer \in saved => HoldsLease(p, transfer)
      /\ ~Refused(p, Lead(p, b))
  BY DEF Persisting
<1>3. \A j \in saved : HoldsLease(p, j)
  <2>1. all \in Held(p) => Lead(p, b) = all
    BY DEF Lead
  <2> QED BY <1>2, <2>1 DEF Refused
<1>4. \A j \in saved : j \in Job /\ work[j].owner = p
  BY <1>3, HoldsJob DEF HoldsLease
<1>5. ASSUME NEW j \in saved  PROVE Finished(work, j, j \in done)[j] \in Row
  <2> DEFINE x == j \in done
  <2>1. x \in BOOLEAN /\ j \in Job
    BY <1>4
  <2> HIDE DEF x
  <2>2. Finished(work, j, x) \in [Job -> Row]
    BY <1>1, <2>1, FinishedOK
  <2>3. Finished(work, j, x)[j] \in Row
    BY <2>1, <2>2
  <2> QED BY <2>3 DEF x
<1> QED BY <1>1, <1>4, <1>5 DEF Written

LEMMA PersistSpares ==
  ASSUME IInv, NEW p \in Proc, PersistLogs(p)
  PROVE  Spares(p)
<1> DEFINE b == Min(proc[p].todoLogs)
           all == <<b, "all_logs">>
           transfer == <<b, "transfer_logs">>
           rest == proc[p].todoLogs \ {b}
<1>1. /\ proc[p] \in Proc_ /\ proc \in [Proc -> Proc_] /\ work \in [Job -> Row]
  BY Mem, Types DEF IInv
<1>2. PICK saved \in SUBSET {all, transfer}, done \in SUBSET {all, transfer}, held \in SUBSET proc[p].held :
        Persisting(p, b, saved, done, held)
  BY PersistIs
<1>3. /\ all \in saved => all \in Held(p)
      /\ transfer \in saved => HoldsLease(p, transfer)
      /\ ~Refused(p, Lead(p, b))
      /\ work' \in Settled(Written(saved, done), done # {})
      /\ proc' = [proc EXCEPT ![p].todoLogs = rest, ![p].held = held]
  BY <1>2 DEF Persisting
<1>4. b \in proc[p].todoLogs
  <2>1. proc[p].todoLogs \subseteq Block
    BY <1>1 DEF Proc_
  <2>2. proc[p].todoLogs # {}
    BY DEF PersistLogs
  <2>3. Block \subseteq Nat
    BY Numbers
  <2>4. proc[p].todoLogs \in SUBSET Nat
    BY <2>1, <2>3
  <2> QED BY <2>2, <2>4, MinIn
<1>5. proc'[p] # proc[p]
  <2> DEFINE mem == [proc[p] EXCEPT !.todoLogs = rest, !.held = held]
  <2>1. proc' = [proc EXCEPT ![p] = mem]
    BY <1>3
  <2>2. b \notin rest
    OBVIOUS
  <2> HIDE DEF rest, b
  <2>3. mem.todoLogs = rest
    BY <1>1 DEF Proc_
  <2> HIDE DEF mem
  <2> QED BY <1>1, <1>4, <2>1, <2>2, <2>3
<1>6. /\ \A j \in saved : j \in Job /\ work[j].owner = p
      /\ Written(saved, done) \in [Job -> Row]
      /\ \A j \in Job \ saved : Written(saved, done)[j] = work[j]
  <2> HIDE DEF b
  <2> QED BY <1>2, PersistWrites
<1> SUFFICES ASSUME NEW j \in Job, work[j].live, j \notin saved  PROVE work'[j] = work[j]
  BY <1>5, <1>6 DEF Spares
<1>7. work[j].state = "leased"
  BY Running
<1> DEFINE w == Written(saved, done)
           x == done # {}
<1>8. w \in [Job -> Row] /\ w[j] = work[j] /\ work' \in Settled(w, x) /\ x \in BOOLEAN
  BY <1>3, <1>6
<1> HIDE DEF w, x
<1> QED BY <1>7, <1>8, LeasesStay

\* Every step spares the leases that run.
LEMMA StepSpares ==
  ASSUME IInv, NEW p \in Proc, ChainLoop(p) \/ WorkLoop(p) \/ Flush(p) \/ Trouble(p)
  PROVE  Spares(p)
<1>1. CASE UNCHANGED work
  BY <1>1 DEF Spares
<1>2. ASSUME Claim(p)  PROVE Spares(p)
  <2>1. PICK j \in {k \in Job : Ready(k)} : work' = Claimed(p, {j})
    BY <1>2 DEF Claim
  <2>2. {j} \in SUBSET {k \in Job : Ready(k)}
    OBVIOUS
  <2> QED BY <2>1, <2>2, ClaimedSpares
<1>3. ASSUME ClaimSpan(p)  PROVE Spares(p)
  <2>1. UNCHANGED work \/ \E js \in SUBSET {k \in Job : Ready(k)} : work' = Claimed(p, js)
    <3> DEFINE j == First(p)
               near == {k \in Job : Ready(k) /\ k[2] = j[2] /\ j[1] < k[1] /\ k[1] < j[1] + Span}
               pair(js) == {k \in Job : Ready(k) /\ k[2] \in Logs \ {j[2]} /\ k[1] \in {i[1] : i \in js}}
    <3>1. CASE \E js \in SUBSET near : \E others \in SUBSET pair(js \cup {j}) : work' = Claimed(p, js \cup others)
      <4>0. PICK js \in SUBSET near : \E others \in SUBSET pair(js \cup {j}) : work' = Claimed(p, js \cup others)
        BY <3>1
      <4>1. PICK others \in SUBSET pair(js \cup {j}) : work' = Claimed(p, js \cup others)
        BY <4>0
      <4>2. js \cup others \in SUBSET {k \in Job : Ready(k)}
        BY <4>1
      <4> QED BY <4>1, <4>2
    <3> QED BY <1>3, <3>1 DEF ClaimSpan
  <2> QED BY <1>1, <2>1, ClaimedSpares
<1>4. ASSUME OfferDeferred(p) \/ OfferRecent(p)  PROVE Spares(p)
  <2>1. UNCHANGED work \/ \E js : Offer(p, js)
    BY <1>4 DEF OfferDeferred, OfferRecent
  <2> QED BY <1>1, <2>1, OfferSpares
<1>5. ASSUME ReadBulk(p)  PROVE Spares(p)
  <2> DEFINE i == First(p)
             missing == TxCount[i[1]] - block[i[1]].got
  <2>1. CASE SaveReceipts(p, i, missing, TRUE) /\ proc' = Gone(p)
    BY <1>5, <2>1, Leaves, SaveSpares DEF ReadBulk
  <2>2. CASE \E n \in 1 .. missing : SaveReceipts(p, i, n, FALSE)
    BY <2>2, SaveSpares
  <2>3. CASE UNCHANGED db
    BY <1>1, <2>3 DEF db
  <2> QED BY <1>5, <2>1, <2>2, <2>3 DEF ReadBulk
<1>6. ASSUME ReadMissing(p)  PROVE Spares(p)
  <2>1. \E n \in 0 .. TxCount[First(p)[1]] - block[First(p)[1]].got : SaveReceipts(p, First(p), n, TRUE)
    BY <1>6, Zenon DEF ReadMissing
  <2>2. proc'[p] # proc[p]
    BY <1>6, Leaves DEF ReadMissing
  <2>3. PICK n : SaveReceipts(p, First(p), n, TRUE)
    BY <2>1
  <2> QED BY <2>2, <2>3, SaveSpares
<1>7. ASSUME ChainLoop(p)  PROVE Spares(p)
  BY <1>1, <1>4, <1>7 DEF ChainLoop, ChainTick, ReadDeferred, ReadRecent, EndPass, db
<1>8. ASSUME WorkLoop(p)  PROVE Spares(p)
  BY <1>1, <1>2, <1>3, <1>5, <1>6, <1>8, ConflictSpares, PersistSpares, ReleaseSpares
     DEF WorkLoop, MarkBulk, SaveRefused, Plan, SkipLogs, EndBatch, db
<1>9. ASSUME Flush(p) \/ Trouble(p)  PROVE Spares(p)
  BY <1>1, <1>9 DEF Flush, Trouble, ChainHalts, MeetConflict, CallFails, Crash, db
<1> QED BY <1>7, <1>8, <1>9

\* Whatever a process still believes to hold: a row with a running lease is
\* changed by a transaction of its owner, or it expires.
THEOREM LaneLeaseIsExclusive == Spec => LeaseIsExclusive
<1> DEFINE A == \A j \in Job : work[j].live /\ proc'[work[j].owner] = proc[work[j].owner]
                  => work'[j] \in {work[j], [work[j] EXCEPT !.live = FALSE]}
<1>1. IInv /\ [Next]_vars => [A]_vars
  <2> SUFFICES ASSUME IInv, Next  PROVE A
    OBVIOUS
  <2>1. ASSUME NEW p \in Proc, ChainLoop(p) \/ WorkLoop(p) \/ Flush(p) \/ Trouble(p)  PROVE A
    BY <2>1, StepSpares DEF Spares
  <2>2. ASSUME NEW j \in Job, LeaseExpires(j)  PROVE A
    <3>1. work \in [Job -> Row]
      BY Types DEF IInv
    <3> QED BY <2>2, <3>1 DEF LeaseExpires
  <2> QED BY <2>1, <2>2 DEF Next
<1> QED BY <1>1, LaneInvariant, PTL DEF Spec, LeaseIsExclusive

-----------------------------------------------------------------------------
(***************************************************************************)
(* No block is forgotten: what a full pass has offered keeps a job for its *)
(* receipts.                                                               *)
(***************************************************************************)
ReceiptJob(b) == <<b, "receipts">>

\* The receipts of b are stored or in conflict, or there is a job that will see to them.
InHand(b) ==
  block[b].receipts \/ block[b].conflict \/ work[ReceiptJob(b)].state \in {"pending", "leased", "retrying"}

\* A receipt job that is over has left its trace, a pass goes over persisted blocks
\* only, and what its list does not hold any more is in hand.
PassOK ==
  /\ \A b \in Block : work[ReceiptJob(b)].state \in {"complete", "persistent_partial"} => InHand(b)
  /\ passed <= chain.through
  /\ ~outrun => \A b \in Persisted : b <= passed => InHand(b)
  /\ \A p \in Proc : proc[p].step = "recent" =>
       /\ proc[p].mark <= chain.through
       /\ ~outrun => \A b \in Persisted \ proc[p].todo : b <= proc[p].mark => InHand(b)

\* What a step may do with the receipts of a block.
Turns(j) ==
  \/ work'[j].state \in {work[j].state, "pending", "leased", "retrying"}
  \/ work[j].state \in {"none", "complete"} /\ work'[j].state = "none"

Tends ==
  \A b \in Block :
    /\ block[b].receipts \/ block[b].conflict => block'[b].receipts \/ block'[b].conflict
    /\ \/ Turns(ReceiptJob(b))
       \/ block'[b].receipts \/ block'[b].conflict

LEMMA RowStates ==
  ASSUME IInv, NEW b \in Block
  PROVE  /\ ReceiptJob(b) \in Job
         /\ work[ReceiptJob(b)].state
              \in {"none", "pending", "leased", "retrying", "complete", "persistent_partial"}
<1>1. ReceiptJob(b) \in Job
  BY DEF Job, Comp, ReceiptJob
<1> QED BY <1>1, Types DEF IInv, Row

LEMMA TendsKeeps ==
  ASSUME IInv, PassOK, Tends
  PROVE  \A b \in Block :
           /\ InHand(b) => InHand(b)'
           /\ work'[ReceiptJob(b)].state \in {"complete", "persistent_partial"} => InHand(b)'
<1>1. ASSUME NEW b \in Block
      PROVE  /\ InHand(b) => InHand(b)'
             /\ work'[ReceiptJob(b)].state \in {"complete", "persistent_partial"} => InHand(b)'
  <2> DEFINE j == ReceiptJob(b)
  <2>1. work[j].state \in {"none", "pending", "leased", "retrying", "complete", "persistent_partial"}
    BY RowStates
  <2>2. /\ block[b].receipts \/ block[b].conflict => block'[b].receipts \/ block'[b].conflict
        /\ Turns(j) \/ block'[b].receipts \/ block'[b].conflict
    BY DEF Tends
  <2>3. work[j].state \in {"complete", "persistent_partial"} => block[b].receipts \/ block[b].conflict
    BY DEF PassOK, InHand
  <2> QED BY <2>1, <2>2, <2>3 DEF InHand, Turns
<1> QED BY <1>1

\* The lists of the passes are what they were, or are given up.
Lists ==
  \A p \in Proc : proc'[p].step = "recent" =>
    proc[p].step = "recent" /\ proc'[p].mark = proc[p].mark /\ proc'[p].todo = proc[p].todo

LEMMA Whole ==
  ASSUME IInv
  PROVE  /\ chain.through \in Nat /\ passed \in Nat /\ Block \subseteq Nat /\ chain \in Chain_
         /\ Persisted \subseteq Block
         /\ \A p \in Proc : proc[p].step = "recent" => proc[p].mark \in Nat
         /\ \A p \in Proc : proc[p] \in Proc_
BY Types, Numbers, Mem DEF IInv, Chain_, MemoryOK, Memory, Persisted

LEMMA PassStays ==
  ASSUME IInv, PassOK, Tends, Appends, UNCHANGED history, Lists
  PROVE  PassOK'
<1>1. \A b \in Block : work'[ReceiptJob(b)].state \in {"complete", "persistent_partial"} => InHand(b)'
  BY TendsKeeps
<1>2. chain.through \in Nat /\ chain'.through \in Nat /\ chain.through <= chain'.through /\ passed \in Nat
  BY Whole, Numbers DEF Appends, Chain_
<1>3. UNCHANGED <<passed, outrun>> /\ passed' <= chain'.through
  BY <1>2 DEF history, PassOK
<1>4. ASSUME ~outrun, NEW b \in Persisted', b <= passed
      PROVE  InHand(b)'
  <2>1. b \in Persisted /\ b \in Block
    <3>1. b \in Block
      BY DEF Persisted
    <3>2. b <= chain.through
      BY <1>2, <1>4, <3>1, Whole DEF PassOK
    <3> QED BY <3>1, <3>2 DEF Appends
  <2> QED BY <1>4, <2>1, TendsKeeps DEF PassOK
<1>5. ASSUME NEW p \in Proc, proc'[p].step = "recent"
      PROVE  /\ proc'[p].mark <= chain'.through
             /\ ~outrun => \A b \in Persisted' \ proc'[p].todo : b <= proc'[p].mark => InHand(b)'
  <2>1. /\ proc[p].step = "recent" /\ proc'[p].mark = proc[p].mark /\ proc'[p].todo = proc[p].todo
        /\ proc[p].mark \in Nat /\ proc[p].mark <= chain.through
    BY <1>5, Whole DEF Lists, PassOK
  <2>2. ASSUME ~outrun, NEW b \in Persisted' \ proc[p].todo, b <= proc[p].mark
        PROVE  InHand(b)'
    <3>1. b \in Persisted /\ b \in Block
      <4>1. b \in Block
        BY DEF Persisted
      <4>2. b <= chain.through
        BY <1>2, <2>1, <2>2, <4>1, Whole
      <4> QED BY <4>1, <4>2 DEF Appends
    <3> QED BY <2>1, <2>2, <3>1, TendsKeeps DEF PassOK
  <2> QED BY <1>2, <2>1, <2>2
<1> QED BY <1>1, <1>3, <1>4, <1>5 DEF PassOK

LEMMA SameAppends ==
  ASSUME IInv, UNCHANGED chain
  PROVE  Appends
BY Whole DEF Appends, Persisted

LEMMA SameTends ==
  ASSUME UNCHANGED <<block, work>>
  PROVE  Tends
BY DEF Tends, Turns

\* One process changes its memory, and not the list of its pass.
LEMMA SameLists ==
  ASSUME IInv, NEW p \in Proc, NEW new, proc' = [proc EXCEPT ![p] = new],
         new.step = "recent" => /\ proc[p].step = "recent" /\ new.mark = proc[p].mark
                                /\ new.todo = proc[p].todo
  PROVE  Lists
<1>1. proc'[p] = new /\ \A q \in Proc \ {p} : proc'[q] = proc[q]
  BY Mem
<1> QED BY <1>1 DEF Lists

-----------------------------------------------------------------------------
(* What the transactions do to the receipt jobs. *)

LEMMA RowsTend ==
  ASSUME UNCHANGED block,
         \A j \in Job : Turns(j)
  PROVE  Tends
<1>1. \A b \in Block : ReceiptJob(b) \in Job
  BY DEF Job, Comp, ReceiptJob
<1> QED BY <1>1 DEF Tends

LEMMA OfferTends ==
  ASSUME IInv, NEW p \in Proc, NEW js, Offer(p, js), UNCHANGED block
  PROVE  Tends
<1>1. CASE UNCHANGED work
  BY <1>1, SameTends
<1>2. ASSUME NEW w \in IF js = {} THEN {work} ELSE Pruned(work), work' = Enqueued(w, js)
      PROVE  Tends
  <2>1. /\ work \in [Job -> Row] /\ w \in [Job -> Row]
        /\ \A j \in Job : w[j] = work[j] \/ (work[j].state = "complete" /\ w[j] = NoRow)
    BY <1>2, PrunedOK, Types DEF IInv
  <2>2. \A j \in Job : \/ work'[j] = w[j]
                       \/ w[j].state = "none" /\ work'[j] = Pending
    BY <1>2, <2>1, EnqueuedOK
  <2>3. ASSUME NEW j \in Job
        PROVE  Turns(j)
    BY <2>1, <2>2, Rows DEF Turns
  <2> QED BY <2>3, RowsTend
<1>3. UNCHANGED work \/ \E w \in IF js = {} THEN {work} ELSE Pruned(work) : work' = Enqueued(w, js)
  BY DEF Offer
<1> QED BY <1>1, <1>2, <1>3

LEMMA ClaimedTends ==
  ASSUME IInv, NEW p \in Proc, NEW js \in SUBSET Job, work' = Claimed(p, js), UNCHANGED block
  PROVE  Tends
<1>1. work \in [Job -> Row] /\ MemoryOK
  BY Types DEF IInv
<1>2. \A j \in Job : work'[j] = IF j \in js THEN LeasedBy(p, j) ELSE work[j]
  BY <1>1, ClaimedOK
<1>3. \A j \in Job : LeasedBy(p, j).state = "leased"
  BY DEF LeasedBy
<1>4. ASSUME NEW j \in Job
      PROVE  Turns(j)
  BY <1>2, <1>3 DEF Turns
<1> QED BY <1>4, RowsTend

LEMMA SaveTends ==
  ASSUME IInv, NEW p \in Proc, NEW i, NEW n, NEW final \in BOOLEAN, SaveReceipts(p, i, n, final)
  PROVE  Tends
<1> DEFINE complete == block[i[1]].got + n = TxCount[i[1]]
           followups == IF complete /\ proc[p].follow THEN LogJobs(i[1]) ELSE {}
<1>1. work \in [Job -> Row] /\ block \in [Block -> Block_]
  BY Types DEF IInv
<1>2. i \in Job /\ i[1] \in Block /\ i = <<i[1], i[2]>>
  <2>1. HoldsLease(p, i)
    BY DEF SaveReceipts, Refused
  <2> QED BY <2>1, HoldsJob DEF Job
<1>3. PICK w \in IF followups = {} THEN {work} ELSE Pruned(work) :
           IF final THEN work' \in Settled(Finished(Enqueued(w, followups), i, complete), complete)
           ELSE work' = Enqueued(w, followups)
  BY DEF SaveReceipts
<1>4. complete \in BOOLEAN
  OBVIOUS
<1>5. \A b \in Block : /\ block[b].conflict => block'[b].conflict
                       /\ block[b].receipts \/ (b = i[1] /\ complete) => block'[b].receipts
  <2> DEFINE got == block[i[1]].got + n
             have == block[i[1]].receipts \/ complete
             new == [block[i[1]] EXCEPT !.got = got, !.receipts = have]
  <2>1. block' = [block EXCEPT ![i[1]] = new]
    BY DEF SaveReceipts
  <2>2. block[i[1]] \in Block_
    BY <1>1, <1>2
  <2> HIDE DEF got, have
  <2>3. new.conflict = block[i[1]].conflict /\ new.receipts = have
    BY <2>2 DEF Block_
  <2>4. have <=> block[i[1]].receipts \/ complete
    BY DEF have
  <2> HIDE DEF new, complete
  <2>5. /\ block'[i[1]].conflict = block[i[1]].conflict
        /\ block'[i[1]].receipts = have
        /\ \A b \in Block \ {i[1]} : block'[b] = block[b]
    BY <1>1, <1>2, <2>1, <2>3
  <2> QED BY <1>2, <2>4, <2>5
<1> HIDE DEF followups, complete
<1>6. w \in [Job -> Row] /\ \A j \in Job : w[j] = work[j] \/ (work[j].state = "complete" /\ w[j] = NoRow)
  BY <1>1, <1>3, PrunedOK
<1> DEFINE v == Enqueued(w, followups)
<1>7. v \in [Job -> Row] /\ \A j \in Job : v[j] = w[j] \/ (w[j].state = "none" /\ v[j] = Pending)
  BY <1>6, EnqueuedOK
<1>8. ASSUME NEW j \in Job
      PROVE  \/ v[j].state \in {work[j].state, "pending"}
             \/ work[j].state = "complete" /\ v[j].state = "none"
  BY <1>6, <1>7, Rows
<1>9. \A b \in Block : block[b].receipts \/ block[b].conflict => block'[b].receipts \/ block'[b].conflict
  BY <1>5
<1>10. CASE ~final
  <2>1. work' = v
    BY <1>3, <1>10
  <2>2. \A b \in Block : Turns(ReceiptJob(b))
    BY <1>8, <2>1, RowStates DEF Turns
  <2> QED BY <1>9, <2>2 DEF Tends
<1>11. CASE final
  <2> HIDE DEF v
  <2> DEFINE u == Finished(v, i, complete)
             row == [NoRow EXCEPT !.state = IF complete THEN "complete" ELSE "retrying", !.again = ~complete]
  <2>1. u \in [Job -> Row]
    BY <1>2, <1>4, <1>7, FinishedOK
  <2>2. u = [v EXCEPT ![i] = row] /\ row.state = IF complete THEN "complete" ELSE "retrying"
    BY DEF Finished, NoRow
  <2>3. work' \in Settled(u, complete)
    BY <1>3, <1>11 DEF v
  <2> HIDE DEF u, row
  <2>4. \A j \in Job : work'[j] = u[j] \/ (u[j].state = "complete" /\ work'[j] = NoRow)
    BY <1>4, <2>1, <2>3, SettledOK
  <2>5. ASSUME NEW b \in Block
        PROVE  Turns(ReceiptJob(b)) \/ block'[b].receipts
    <3>1. CASE i = ReceiptJob(b)
      <4>1. i[1] = b
        BY <3>1 DEF ReceiptJob
      <4>2. complete => block'[b].receipts
        BY <1>5, <4>1
      <4>3. ~complete => work'[i].state = "retrying"
        BY <1>2, <1>7, <2>2, <2>4
      <4> QED BY <3>1, <4>2, <4>3 DEF Turns
    <3>2. CASE i # ReceiptJob(b)
      <4>1. ReceiptJob(b) \in Job
        BY RowStates
      <4>2. u[ReceiptJob(b)] = v[ReceiptJob(b)]
        BY <1>7, <2>2, <3>2, <4>1
      <4> QED BY <1>8, <2>4, <4>1, <4>2, Rows DEF Turns
    <3> QED BY <3>1, <3>2
  <2> QED BY <1>9, <2>5 DEF Tends
<1> QED BY <1>10, <1>11

LEMMA ConflictTends ==
  ASSUME IInv, NEW p \in Proc, RecordConflict(p)
  PROVE  Tends
<1> DEFINE i == First(p)
           row == [NoRow EXCEPT !.state = "persistent_partial"]
           bad == [block[i[1]] EXCEPT !.conflict = TRUE, !.receipts = FALSE,
                                      !.all_logs = FALSE, !.transfer_logs = FALSE]
<1>1. CASE UNCHANGED db
  BY <1>1, SameTends DEF db
<1>2. CASE HoldsLease(p, i) /\ work' = [work EXCEPT ![i] = row] /\ block' = [block EXCEPT ![i[1]] = bad]
  <2>1. work \in [Job -> Row] /\ block \in [Block -> Block_] /\ i[1] \in Block
    BY <1>2, HoldsJob, Types DEF IInv
  <2>2. block[i[1]] \in Block_
    BY <2>1
  <2> HIDE DEF i
  <2>3. bad.conflict
    BY <2>2 DEF Block_
  <2> HIDE DEF bad, row
  <2>4. /\ block'[i[1]].conflict
        /\ \A b \in Block \ {i[1]} : block'[b] = block[b]
        /\ \A j \in Job \ {i} : work'[j] = work[j]
    BY <1>2, <2>1, <2>3
  <2>5. ASSUME NEW b \in Block \ {i[1]}
        PROVE  Turns(ReceiptJob(b))
    <3>1. i # ReceiptJob(b)
      BY DEF ReceiptJob
    <3>2. work'[ReceiptJob(b)] = work[ReceiptJob(b)]
      BY <2>4, <3>1, RowStates
    <3> QED BY <3>2 DEF Turns
  <2> QED BY <2>4, <2>5 DEF Tends
<1> QED BY <1>1, <1>2 DEF RecordConflict

LEMMA ReleaseTends ==
  ASSUME IInv, NEW p \in Proc, Release(p)
  PROVE  Tends
<1>1. PICK h \in proc[p].held : UNCHANGED work \/ (~Refused(p, h[1]) /\ work' = Finished(work, h[1], FALSE))
  BY DEF Release
<1>2. UNCHANGED block
  BY DEF Release
<1> DEFINE i == h[1]
           row == [NoRow EXCEPT !.state = "retrying", !.again = TRUE]
<1>3. CASE ~Refused(p, i) /\ work' = Finished(work, i, FALSE)
  <2>1. i \in Job /\ work \in [Job -> Row]
    BY <1>3, HoldsJob, Types DEF HoldsLease, IInv, Refused
  <2>2. work' = [work EXCEPT ![i] = row] /\ row.state = "retrying"
    BY <1>3 DEF Finished, NoRow
  <2> HIDE DEF i, row
  <2>3. ASSUME NEW j \in Job
        PROVE  Turns(j)
    BY <2>1, <2>2 DEF Turns
  <2> QED BY <1>2, <2>3, RowsTend
<1>4. CASE UNCHANGED work
  BY <1>2, <1>4, SameTends
<1> QED BY <1>1, <1>3, <1>4

LEMMA PersistTends ==
  ASSUME IInv, NEW p \in Proc, PersistLogs(p)
  PROVE  Tends
<1> DEFINE b == Min(proc[p].todoLogs)
           all == <<b, "all_logs">>
           transfer == <<b, "transfer_logs">>
<1>1. PICK saved \in SUBSET {all, transfer}, done \in SUBSET {all, transfer}, held \in SUBSET proc[p].held :
        Persisting(p, b, saved, done, held)
  BY PersistIs
<1> HIDE DEF b
<1>2. Written(saved, done) \in [Job -> Row] /\ \A j \in Job \ saved : Written(saved, done)[j] = work[j]
  BY <1>1, PersistWrites
<1> DEFINE w == Written(saved, done)
           x == done # {}
           allLogs == block[b].all_logs \/ all \in done
           transferLogs == block[b].transfer_logs \/ transfer \in done
           new == [block[b] EXCEPT !.all_logs = allLogs, !.transfer_logs = transferLogs]
<1>3. work' \in Settled(w, x) /\ x \in BOOLEAN /\ block' = [block EXCEPT ![b] = new]
  BY <1>1 DEF Persisting
<1>4. block \in [Block -> Block_]
  BY Types DEF IInv
<1> HIDE DEF w, x, allLogs, transferLogs
<1>5. \A c \in Block : block'[c].receipts = block[c].receipts /\ block'[c].conflict = block[c].conflict
  <2>1. b \in Block => new.receipts = block[b].receipts /\ new.conflict = block[b].conflict
    BY <1>4 DEF Block_
  <2> HIDE DEF new
  <2> QED BY <1>3, <1>4, <2>1
<1>6. \A j \in Job : work'[j] = w[j] \/ (w[j].state = "complete" /\ work'[j] = NoRow)
  BY <1>2, <1>3, SettledOK DEF w
<1>7. ASSUME NEW c \in Block
      PROVE  Turns(ReceiptJob(c))
  <2>1. ReceiptJob(c) \notin saved
    BY DEF ReceiptJob
  <2>2. w[ReceiptJob(c)] = work[ReceiptJob(c)]
    BY <1>2, <2>1, RowStates DEF w
  <2> QED BY <1>6, <2>2, RowStates, Rows DEF Turns
<1> QED BY <1>5, <1>7 DEF Tends

LEMMA MarkTends ==
  ASSUME IInv, NEW p \in Proc, MarkBulk(p)
  PROVE  Tends
<1> DEFINE b == First(p)[1]
           new == [block[b] EXCEPT !.bulk = TRUE]
<1>1. UNCHANGED work /\ (UNCHANGED block \/ block' = [block EXCEPT ![b] = new])
  BY DEF MarkBulk
<1>2. block \in [Block -> Block_]
  BY Types DEF IInv
<1> HIDE DEF b
<1>3. \A c \in Block : block'[c].receipts = block[c].receipts /\ block'[c].conflict = block[c].conflict
  <2>1. b \in Block => new.receipts = block[b].receipts /\ new.conflict = block[b].conflict
    BY <1>2 DEF Block_
  <2> HIDE DEF new
  <2> QED BY <1>1, <1>2, <2>1
<1> QED BY <1>1, <1>3 DEF Tends, Turns

LEMMA ExpiresTends ==
  ASSUME IInv, NEW i \in Job, LeaseExpires(i)
  PROVE  Tends
<1> DEFINE row == [work[i] EXCEPT !.live = FALSE]
<1>1. work \in [Job -> Row] /\ work' = [work EXCEPT ![i] = row] /\ UNCHANGED block
  BY Types DEF IInv, LeaseExpires
<1>2. row.state = work[i].state
  BY <1>1 DEF Row
<1> HIDE DEF row
<1>3. ASSUME NEW j \in Job
      PROVE  Turns(j)
  BY <1>1, <1>2 DEF Turns
<1> QED BY <1>1, <1>3, RowsTend

LEMMA WorkTends ==
  ASSUME IInv, NEW p \in Proc, WorkLoop(p) \/ Flush(p) \/ Trouble(p)
  PROVE  Tends
<1>1. CASE Claim(p)
  <2>1. PICK j \in Job : work' = Claimed(p, {j})
    BY <1>1 DEF Claim
  <2>2. {j} \in SUBSET Job /\ UNCHANGED block
    BY <1>1 DEF Claim
  <2> QED BY <2>1, <2>2, ClaimedTends
<1>2. CASE ClaimSpan(p)
  <2> DEFINE j == First(p)
             near == {k \in Job : Ready(k) /\ k[2] = j[2] /\ j[1] < k[1] /\ k[1] < j[1] + Span}
             pair(js) == {k \in Job : Ready(k) /\ k[2] \in Logs \ {j[2]} /\ k[1] \in {i[1] : i \in js}}
  <2>1. UNCHANGED block
    BY <1>2 DEF ClaimSpan
  <2>2. CASE UNCHANGED work
    BY <2>1, <2>2, SameTends
  <2>3. CASE \E js \in SUBSET near : \E others \in SUBSET pair(js \cup {j}) : work' = Claimed(p, js \cup others)
    <3>1. PICK js \in SUBSET near : \E others \in SUBSET pair(js \cup {j}) : work' = Claimed(p, js \cup others)
      BY <2>3
    <3>2. PICK others \in SUBSET pair(js \cup {j}) : work' = Claimed(p, js \cup others)
      BY <3>1
    <3>3. js \cup others \in SUBSET Job
      BY <3>2
    <3> QED BY <2>1, <3>2, <3>3, ClaimedTends
  <2> QED BY <1>2, <2>2, <2>3 DEF ClaimSpan
<1>3. CASE ReadBulk(p)
  <2> DEFINE missing == TxCount[First(p)[1]] - block[First(p)[1]].got
  <2>1. CASE SaveReceipts(p, First(p), missing, TRUE)
    BY <2>1, SaveTends
  <2>2. CASE \E n \in 1 .. missing : SaveReceipts(p, First(p), n, FALSE)
    BY <2>2, SaveTends
  <2>3. CASE UNCHANGED db
    BY <2>3, SameTends DEF db
  <2> QED BY <1>3, <2>1, <2>2, <2>3 DEF ReadBulk
<1>4. CASE ReadMissing(p)
  <2>1. \E n \in 0 .. TxCount[First(p)[1]] - block[First(p)[1]].got : SaveReceipts(p, First(p), n, TRUE)
    BY <1>4, Zenon DEF ReadMissing
  <2>2. PICK n : SaveReceipts(p, First(p), n, TRUE)
    BY <2>1
  <2> QED BY <2>2, SaveTends
<1>5. CASE SaveRefused(p) \/ Plan(p) \/ SkipLogs(p) \/ EndBatch(p)
  <2>1. UNCHANGED db
    BY <1>5, Zenon DEF SaveRefused, Plan, SkipLogs, EndBatch
  <2> QED BY <2>1, SameTends DEF db
<1>6. CASE Flush(p) \/ Trouble(p)
  BY <1>6, SameTends DEF Flush, Trouble, ChainHalts, MeetConflict, CallFails, Crash, db
<1> QED BY <1>1, <1>2, <1>3, <1>4, <1>5, <1>6, MarkTends, ConflictTends, PersistTends, ReleaseTends
     DEF WorkLoop

-----------------------------------------------------------------------------
(* What the loops do with the list of a pass. *)

\* The worker of a process does not touch the list of its pass.
LEMMA GoesLists ==
  ASSUME IInv, NEW p \in Proc, proc' = Gone(p) \/ \E pc : proc' = To(p, pc)
  PROVE  Lists
<1>1. proc[p] \in Proc_
  BY Mem
<1>2. CASE proc' = Gone(p)
  <2>1. Done(p).step = proc[p].step /\ Done(p).mark = proc[p].mark /\ Done(p).todo = proc[p].todo
    BY <1>1 DEF Proc_, Done
  <2> QED BY <1>2, <2>1, DoneOK, SameLists
<1>3. ASSUME NEW pc, proc' = To(p, pc)
      PROVE  Lists
  <2> DEFINE new == At(p, pc)
  <2>1. new.step = proc[p].step /\ new.mark = proc[p].mark /\ new.todo = proc[p].todo
    BY <1>1 DEF Proc_, At
  <2>2. proc' = [proc EXCEPT ![p] = new]
    BY <1>3 DEF To, At
  <2> HIDE DEF new
  <2> QED BY <2>1, <2>2, SameLists
<1> QED BY <1>2, <1>3

LEMMA ClaimLists ==
  ASSUME IInv, NEW p \in Proc, Claim(p)
  PROVE  Lists
<1>1. PICK j \in {k \in Job : Ready(k)}, mayResume \in BOOLEAN :
        LET drain == Pressure(proc[p].draining, mayResume)
        IN  /\ work' = Claimed(p, {j})
            /\ proc' = [proc EXCEPT ![p].draining = drain, ![p].follow = ~(drain /\ j[2] = "receipts"),
                                    ![p].held = Leases({j}),
                                    ![p].pc = IF j[2] = "receipts" THEN "mark" ELSE "span"]
  BY DEF Claim
<1> DEFINE drain == Pressure(proc[p].draining, mayResume)
           follow == ~(drain /\ j[2] = "receipts")
           held == Leases({j})
           pc == IF j[2] = "receipts" THEN "mark" ELSE "span"
           new == [proc[p] EXCEPT !.draining = drain, !.follow = follow, !.held = held, !.pc = pc]
<1>2. proc' = [proc EXCEPT ![p] = new]
  BY <1>1
<1> HIDE DEF drain, follow, held, pc
<1>3. new.step = proc[p].step /\ new.mark = proc[p].mark /\ new.todo = proc[p].todo
  BY Mem DEF Proc_
<1> HIDE DEF new
<1> QED BY <1>2, <1>3, SameLists

LEMMA WorkLists ==
  ASSUME IInv, NEW p \in Proc, WorkLoop(p) \/ Flush(p) \/ MeetConflict(p) \/ CallFails(p)
  PROVE  Lists
<1>1. proc \in [Proc -> Proc_] /\ proc[p] \in Proc_
  BY Mem
<1>2. CASE Claim(p)
  BY <1>2, ClaimLists
<1>3. CASE SaveRefused(p)
  <2> DEFINE yes == TRUE
             new == [proc[p] EXCEPT !.pc = "release", !.follow = yes, !.draining = yes]
  <2>1. proc' = Gone(p) \/ proc' = To(p, "conflict") \/ proc' = [proc EXCEPT ![p] = new]
    BY <1>3 DEF SaveRefused
  <2> HIDE DEF yes
  <2>2. new.step = proc[p].step /\ new.mark = proc[p].mark /\ new.todo = proc[p].todo
    BY <1>1 DEF Proc_
  <2> HIDE DEF new
  <2> QED BY <2>1, <2>2, SameLists, GoesLists
<1>4. CASE ClaimSpan(p)
  <2> DEFINE new(js) == [proc[p] EXCEPT !.held = @ \cup Leases(js), !.pc = "plan"]
  <2>1. proc' = Gone(p) \/ \E js : proc' = [proc EXCEPT ![p] = new(js)]
    BY <1>4, Zenon DEF ClaimSpan
  <2>2. ASSUME NEW js
        PROVE  new(js).step = proc[p].step /\ new(js).mark = proc[p].mark /\ new(js).todo = proc[p].todo
    BY <1>1 DEF Proc_
  <2> HIDE DEF new
  <2> QED BY <2>1, <2>2, SameLists, GoesLists
<1>5. CASE Plan(p)
  <2> DEFINE new(proven, todo) == [proc[p] EXCEPT !.pc = "persist", !.proven = proven, !.todoLogs = todo]
  <2>1. \E proven, todo : proc' = [proc EXCEPT ![p] = new(proven, todo)]
    <3> DEFINE blocks == {j[1] : j \in Held(p)}
               todo == {b \in blocks : ReceiptSetComplete(b)}
    <3>1. \E proven : proc' = [proc EXCEPT ![p] = new(proven, todo)]
      BY <1>5, Zenon DEF Plan
    <3> QED BY <3>1, Zenon
  <2>2. ASSUME NEW proven, NEW todo
        PROVE  /\ new(proven, todo).step = proc[p].step /\ new(proven, todo).mark = proc[p].mark
               /\ new(proven, todo).todo = proc[p].todo
    BY <1>1 DEF Proc_
  <2> HIDE DEF new
  <2> QED BY <2>1, <2>2, SameLists
<1>6. CASE PersistLogs(p) \/ SkipLogs(p)
  <2> DEFINE rest == proc[p].todoLogs \ {Min(proc[p].todoLogs)}
             new(held) == [proc[p] EXCEPT !.todoLogs = rest, !.held = held]
  <2>1. CASE PersistLogs(p)
    <3>1. \E held : proc' = [proc EXCEPT ![p] = new(held)]
      <4>1. PICK saved, done, held : Persisting(p, Min(proc[p].todoLogs), saved, done, held)
        BY <2>1, PersistIs, Zenon
      <4>2. proc' = [proc EXCEPT ![p].todoLogs = rest, ![p].held = held]
        BY <4>1 DEF Persisting
      <4> HIDE DEF rest
      <4>3. proc' = [proc EXCEPT ![p] = new(held)]
        BY <4>2
      <4> QED BY <4>3, Zenon
    <3> HIDE DEF rest
    <3>2. ASSUME NEW held
          PROVE  new(held).step = proc[p].step /\ new(held).mark = proc[p].mark /\ new(held).todo = proc[p].todo
      BY <1>1 DEF Proc_
    <3> HIDE DEF new
    <3> QED BY <3>1, <3>2, SameLists
  <2>2. CASE SkipLogs(p)
    <3> DEFINE fewer == [proc[p] EXCEPT !.todoLogs = rest]
    <3>1. proc' = [proc EXCEPT ![p] = fewer]
      BY <2>2 DEF SkipLogs
    <3> HIDE DEF rest
    <3>2. fewer.step = proc[p].step /\ fewer.mark = proc[p].mark /\ fewer.todo = proc[p].todo
      BY <1>1 DEF Proc_
    <3> HIDE DEF fewer
    <3> QED BY <3>1, <3>2, SameLists
  <2> QED BY <1>6, <2>1, <2>2
<1>7. CASE EndBatch(p)
  <2> DEFINE pc == IF proc[p].held = {} THEN "idle" ELSE "release"
             none == {}
             new == [proc[p] EXCEPT !.pc = pc, !.proven = none]
  <2>1. proc' = [proc EXCEPT ![p] = new]
    BY <1>7 DEF EndBatch
  <2> HIDE DEF pc, none
  <2>2. new.step = proc[p].step /\ new.mark = proc[p].mark /\ new.todo = proc[p].todo
    BY <1>1 DEF Proc_
  <2> HIDE DEF new
  <2> QED BY <2>1, <2>2, SameLists
<1>8. CASE Release(p)
  <2> DEFINE new(h) == [proc[p] EXCEPT !.held = @ \ {h}]
  <2>1. proc' = Gone(p) \/ \E h : proc' = [proc EXCEPT ![p] = new(h)]
    BY <1>8, Zenon DEF Release
  <2>2. ASSUME NEW h
        PROVE  new(h).step = proc[p].step /\ new(h).mark = proc[p].mark /\ new(h).todo = proc[p].todo
    BY <1>1 DEF Proc_
  <2> HIDE DEF new
  <2> QED BY <2>1, <2>2, SameLists, GoesLists
<1>9. CASE Flush(p)
  <2>1. PICK more, ceiling :
          proc' = [proc EXCEPT ![p].pc = IF more THEN "flush" ELSE "idle",
                               ![p].ceiling = IF more THEN ceiling ELSE 0]
    <3> DEFINE ceiling == IF proc[p].pc = "idle" THEN lane.processed ELSE proc[p].ceiling
               more == lane'.through = lane.through + Window /\ lane'.through < ceiling
    <3>1. proc' = [proc EXCEPT ![p].pc = IF more THEN "flush" ELSE "idle",
                               ![p].ceiling = IF more THEN ceiling ELSE 0]
      BY <1>9 DEF Flush
    <3> HIDE DEF more, ceiling
    <3> QED BY <3>1
  <2> DEFINE pc == IF more THEN "flush" ELSE "idle"
             top == IF more THEN ceiling ELSE 0
             new == [proc[p] EXCEPT !.pc = pc, !.ceiling = top]
  <2>2. proc' = [proc EXCEPT ![p] = new]
    BY <2>1
  <2> HIDE DEF pc, top
  <2>3. new.step = proc[p].step /\ new.mark = proc[p].mark /\ new.todo = proc[p].todo
    BY <1>1 DEF Proc_
  <2> HIDE DEF new
  <2> QED BY <2>2, <2>3, SameLists
<1>10. CASE CallFails(p)
  <2> DEFINE yes == TRUE
             new == [proc[p] EXCEPT !.pc = "release", !.follow = yes]
  <2>1. proc' = [proc EXCEPT ![p] = new]
    BY <1>10 DEF CallFails
  <2> HIDE DEF yes
  <2>2. new.step = proc[p].step /\ new.mark = proc[p].mark /\ new.todo = proc[p].todo
    BY <1>1 DEF Proc_
  <2> HIDE DEF new
  <2> QED BY <2>1, <2>2, SameLists
<1>11. CASE MarkBulk(p) \/ ReadBulk(p) \/ ReadMissing(p) \/ RecordConflict(p) \/ MeetConflict(p)
  <2>1. proc' = Gone(p) \/ \E pc : proc' = To(p, pc)
    BY <1>11, Zenon DEF MarkBulk, ReadBulk, ReadMissing, RecordConflict, MeetConflict
  <2> QED BY <2>1, GoesLists
<1> QED BY <1>2, <1>3, <1>4, <1>5, <1>6, <1>7, <1>8, <1>9, <1>10, <1>11 DEF WorkLoop

\* Only these steps set the mark of a pass, or take it for granted.
LEMMA ChainTickPass ==
  ASSUME IInv, PassOK, NEW p \in Proc, ChainTick(p)
  PROVE  PassOK'
<1> DEFINE drain == Pressure(proc[p].draining, TRUE)
           new == [proc[p] EXCEPT !.draining = drain, !.step = IF drain THEN "idle" ELSE "page"]
<1> HIDE DEF drain
<1>1. new.step # "recent"
  BY Mem DEF Proc_
<1>2. proc' = [proc EXCEPT ![p] = new]
  BY DEF ChainTick, drain
<1> HIDE DEF new
<1>3. Lists
  BY <1>1, <1>2, SameLists
<1>4. Appends
  BY Grows
<1>5. UNCHANGED db /\ UNCHANGED history
  BY Zenon DEF ChainTick
<1>6. Tends
  BY <1>5, SameTends DEF db
<1> QED BY <1>3, <1>4, <1>5, <1>6, PassStays

\* A pass that is given up, or not begun.
LEMMA StopsPass ==
  ASSUME IInv, PassOK, NEW p \in Proc, NEW new, new.step # "recent", proc' = [proc EXCEPT ![p] = new],
         UNCHANGED <<chain, history>>, Tends
  PROVE  PassOK'
BY SameLists, SameAppends, PassStays

LEMMA ReadDeferredPass ==
  ASSUME IInv, PassOK, NEW p \in Proc, ReadDeferred(p) \/ ChainHalts(p) \/ Crash(p)
  PROVE  PassOK'
<1>1. proc[p] \in Proc_
  BY Mem
<1>2. UNCHANGED history /\ Tends
  BY SameTends DEF ReadDeferred, ChainHalts, Crash, db
<1>3. CASE ReadDeferred(p)
  <2> DEFINE mark == NextCursor(proc[p].cursor)
             todo == {b \in PageRows(proc[p].cursor) : NeedsFollowups(b)}
             idle == [proc[p] EXCEPT !.step = "idle"]
             page == [proc[p] EXCEPT !.step = "defer", !.mark = mark, !.todo = todo]
  <2>1. (proc' = [proc EXCEPT ![p] = idle] \/ proc' = [proc EXCEPT ![p] = page]) /\ UNCHANGED chain
    BY <1>3 DEF ReadDeferred
  <2> HIDE DEF mark, todo
  <2>2. idle.step # "recent" /\ page.step # "recent"
    BY <1>1 DEF Proc_
  <2> HIDE DEF idle, page
  <2> QED BY <1>2, <2>1, <2>2, StopsPass
<1>4. CASE ChainHalts(p)
  <2> DEFINE no == FALSE
             new == [proc[p] EXCEPT !.draining = no, !.step = "page"]
             halted == [chain EXCEPT !.halted = TRUE]
  <2>1. proc' = [proc EXCEPT ![p] = new] /\ chain' = halted
    BY <1>4 DEF ChainHalts
  <2> HIDE DEF no
  <2>2. new.step # "recent"
    BY <1>1 DEF Proc_
  <2> HIDE DEF new
  <2>3. Lists
    BY <2>1, <2>2, SameLists
  <2>4. Appends
    <3>1. chain \in Chain_ /\ chain.through \in Nat
      BY Whole
    <3>2. chain' \in Chain_ /\ chain'.through = chain.through /\ chain'.first = chain.first
      BY <2>1, <3>1 DEF Chain_
    <3> QED BY <3>1, <3>2 DEF Appends, Persisted
  <2> QED BY <1>2, <2>3, <2>4, PassStays
<1>5. CASE Crash(p)
  <2>1. proc' = [proc EXCEPT ![p] = Idle] /\ UNCHANGED chain
    BY <1>5 DEF Crash
  <2> QED BY <1>2, <2>1, IdleOK, StopsPass
<1> QED BY <1>3, <1>4, <1>5

LEMMA OfferDeferredPass ==
  ASSUME IInv, PassOK, NEW p \in Proc, OfferDeferred(p)
  PROVE  PassOK'
<1> DEFINE b == Min(proc[p].todo)
           yes == TRUE
           no == FALSE
           none == {}
           rest == proc[p].todo \ {b}
           stop == [proc[p] EXCEPT !.draining = yes, !.step = "idle", !.todo = none, !.mark = 0]
           next == [proc[p] EXCEPT !.draining = no, !.todo = rest]
<1>1. PICK js : Offer(p, js)
  BY DEF OfferDeferred
<1>2. proc' = [proc EXCEPT ![p] = stop] \/ proc' = [proc EXCEPT ![p] = next]
  BY <1>1 DEF Offer
<1>3. proc[p] \in Proc_ /\ proc[p].step = "defer"
  BY Mem DEF OfferDeferred
<1> HIDE DEF b, yes, no, none, rest
<1>4. stop.step # "recent" /\ next.step # "recent"
  BY <1>3 DEF Proc_
<1> HIDE DEF stop, next
<1>5. UNCHANGED <<chain, history, block>> /\ Tends
  BY <1>1, OfferTends DEF OfferDeferred
<1> QED BY <1>2, <1>4, <1>5, StopsPass

\* The list of a pass is the tail that has no job; below the tail, and unless the
\* pass is outrun, an earlier pass has offered every block.
LEMMA ListIsRest ==
  ASSUME IInv, PassOK, ~outrun, chain.through - Tail <= Max({passed, chain.first - 1}),
         NEW b \in Persisted \ RecentIncomplete
  PROVE  InHand(b)
<1>1. chain.first \in 1 .. N /\ N \in Nat /\ chain.through \in Nat /\ passed \in Nat /\ Tail \in Nat /\ b \in Nat
  BY Whole, Numbers, LaneConstants DEF Chain_, Persisted
<1>2. b \in Block /\ chain.first <= b
  BY DEF Persisted
<1>3. CASE b <= passed
  BY <1>3 DEF PassOK
<1>4. CASE b > passed
  <2> DEFINE f == chain.first - 1
             m == Max({passed, f})
  <2>1. f \in Nat /\ f < b
    BY <1>1, <1>2
  <2>2. chain.through - Tail <= m
    OBVIOUS
  <2> HIDE DEF f
  <2>3. m \in {passed, f}
    BY <1>1, <2>1, MaxOfTwo
  <2> HIDE DEF m
  <2>4. b > chain.through - Tail
    BY <1>1, <1>4, <2>1, <2>2, <2>3
  <2>5. block[b].receipts \/ block[b].conflict \/ work[ReceiptJob(b)].state # "none"
    BY <2>4 DEF RecentIncomplete, ReceiptJob
  <2> QED BY <1>2, <2>5, RowStates DEF PassOK, InHand
<1> QED BY <1>1, <1>3, <1>4

LEMMA ReadRecentPass ==
  ASSUME IInv, PassOK, NEW p \in Proc, ReadRecent(p)
  PROVE  PassOK'
<1> DEFINE drain == Pressure(proc[p].draining, FALSE)
           yes == TRUE
           no == FALSE
           c == proc[p].mark
           m == chain.through
           todo == RecentIncomplete
           stop == [proc[p] EXCEPT !.draining = yes, !.step = "idle", !.mark = 0]
           go == [proc[p] EXCEPT !.draining = no, !.step = "recent", !.cursor = c, !.mark = m, !.todo = todo]
<1>1. UNCHANGED db /\ UNCHANGED <<chain, passed>>
  BY Zenon DEF ReadRecent
<1>2. UNCHANGED <<block, work, chain, passed>>
  BY <1>1 DEF db
<1>3. \/ proc' = [proc EXCEPT ![p] = stop] /\ UNCHANGED outrun
      \/ proc' = [proc EXCEPT ![p] = go] /\ outrun' = (outrun \/ Max({passed, chain.first - 1}) < chain.through - Tail)
  BY DEF ReadRecent
<1>4. proc[p] \in Proc_ /\ proc \in [Proc -> Proc_]
  BY Mem
<1> HIDE DEF drain, yes, no, c
<1>5. stop.step # "recent"
  BY <1>4 DEF Proc_
<1>6. go.mark = chain.through /\ go.todo = RecentIncomplete
  <2> HIDE DEF m, todo
  <2>1. go.mark = m /\ go.todo = todo
    BY <1>4 DEF Proc_
  <2> QED BY <2>1 DEF m, todo
<1> HIDE DEF stop, go
<1>7. CASE proc' = [proc EXCEPT ![p] = stop] /\ UNCHANGED outrun
  <2>1. UNCHANGED <<chain, history>> /\ Tends
    BY <1>2, <1>7, SameTends DEF history
  <2> QED BY <1>5, <1>7, <2>1, StopsPass
<1>8. CASE proc' = [proc EXCEPT ![p] = go] /\ outrun' = (outrun \/ Max({passed, chain.first - 1}) < chain.through - Tail)
  <2>1. /\ \A b \in Block : InHand(b)' <=> InHand(b)
        /\ \A b \in Block : work'[ReceiptJob(b)] = work[ReceiptJob(b)]
        /\ Persisted' = Persisted /\ chain' = chain /\ passed' = passed
    BY <1>2 DEF InHand, Persisted
  <2>2. ~outrun' => ~outrun /\ chain.through - Tail <= Max({passed, chain.first - 1})
    <3> DEFINE f == chain.first - 1
               late == Max({passed, f}) < chain.through - Tail
    <3>1. passed \in Nat /\ f \in Nat /\ chain.through - Tail \in Int
      <4>1. chain.first \in 1 .. N /\ N \in Nat /\ chain.through \in Nat /\ passed \in Nat /\ Tail \in Nat
        BY Whole, Numbers, LaneConstants DEF Chain_
      <4> QED BY <4>1
    <3>2. ~outrun' => ~outrun /\ ~late
      BY <1>8
    <3> HIDE DEF f
    <3>3. Max({passed, f}) \in Int
      BY <3>1, MaxOfTwo
    <3>4. ~late => chain.through - Tail <= Max({passed, f})
      BY <3>1, <3>3
    <3> QED BY <3>2, <3>4 DEF f
  <2>3. \A b \in Persisted : b \in Block /\ b <= chain.through
    BY DEF Persisted
  <2>4. proc'[p] = go /\ \A q \in Proc \ {p} : proc'[q] = proc[q]
    BY <1>4, <1>8
  <2>5. chain.through \in Nat
    BY Whole
  <2>6. ASSUME NEW q \in Proc, proc'[q].step = "recent"
        PROVE  /\ proc'[q].mark <= chain.through
               /\ ~outrun' => \A b \in Persisted \ proc'[q].todo : b <= proc'[q].mark => InHand(b)
    <3>1. CASE q = p
      <4>1. ASSUME ~outrun', NEW b \in Persisted \ RecentIncomplete
            PROVE  InHand(b)
        BY <2>2, <4>1, ListIsRest
      <4> QED BY <1>6, <2>4, <2>5, <3>1, <4>1
    <3>2. CASE q # p
      BY <2>2, <2>4, <2>6, <3>2 DEF PassOK
    <3> QED BY <3>1, <3>2
  <2> QED BY <2>1, <2>2, <2>3, <2>6 DEF PassOK
<1> QED BY <1>3, <1>7, <1>8

\* A pass goes on to the next block of its list when this one is in hand.
LEMMA PassGoes ==
  ASSUME IInv, PassOK, Tends, UNCHANGED <<chain, history>>, NEW p \in Proc, NEW new,
         proc' = [proc EXCEPT ![p] = new], proc[p].step = "recent", new.mark = proc[p].mark,
         \A b \in proc[p].todo \ new.todo : InHand(b)'
  PROVE  PassOK'
<1>1. /\ \A b \in Block : InHand(b) => InHand(b)'
      /\ \A b \in Block : work'[ReceiptJob(b)].state \in {"complete", "persistent_partial"} => InHand(b)'
  BY TendsKeeps
<1>2. Persisted' = Persisted /\ chain' = chain /\ passed' = passed /\ outrun' = outrun /\ Persisted \subseteq Block
  BY DEF Persisted, history
<1>3. proc'[p] = new /\ \A q \in Proc \ {p} : proc'[q] = proc[q]
  BY Mem
<1>4. ASSUME NEW q \in Proc, proc'[q].step = "recent"
      PROVE  /\ proc'[q].mark <= chain.through
             /\ ~outrun => \A b \in Persisted \ proc'[q].todo : b <= proc'[q].mark => InHand(b)'
  <2>1. CASE q = p
    <3>1. proc[p].mark <= chain.through
      BY DEF PassOK
    <3>2. ASSUME ~outrun, NEW b \in Persisted \ new.todo, b <= proc[p].mark
          PROVE  InHand(b)'
      <4>1. CASE b \in proc[p].todo
        BY <4>1
      <4>2. CASE b \notin proc[p].todo
        BY <1>1, <1>2, <3>2, <4>2 DEF PassOK
      <4> QED BY <4>1, <4>2
    <3> QED BY <1>3, <2>1, <3>1, <3>2
  <2>2. CASE q # p
    <3>1. proc'[q] = proc[q]
      BY <1>3, <2>2
    <3>2. proc[q].step = "recent"
      BY <1>4, <3>1
    <3>3. /\ proc[q].mark <= chain.through
          /\ ~outrun => \A b \in Persisted \ proc[q].todo : b <= proc[q].mark => InHand(b)
      BY <3>2 DEF PassOK
    <3> QED BY <1>1, <1>2, <3>1, <3>3
  <2> QED BY <2>1, <2>2
<1>5. passed <= chain.through /\ (~outrun => \A b \in Persisted : b <= passed => InHand(b)')
  BY <1>1, <1>2 DEF PassOK
<1> QED BY <1>1, <1>2, <1>4, <1>5 DEF PassOK

LEMMA OfferRecentPass ==
  ASSUME IInv, PassOK, NEW p \in Proc, OfferRecent(p)
  PROVE  PassOK'
<1>0. PICK b : b = Min(proc[p].todo)
  OBVIOUS
<1> DEFINE js == IF block[b].receipts /\ ReceiptSetComplete(b) THEN LogJobs(b) ELSE {<<b, "receipts">>}
           yes == TRUE
           no == FALSE
           none == {}
           rest == proc[p].todo \ {b}
           leave == [proc[p] EXCEPT !.step = "idle", !.todo = none, !.mark = 0]
           stop == [proc[p] EXCEPT !.draining = yes, !.step = "idle", !.todo = none, !.mark = 0]
           next == [proc[p] EXCEPT !.draining = no, !.todo = rest]
<1>1. proc[p] \in Proc_ /\ proc[p].step = "recent" /\ proc[p].todo # {}
  BY Mem DEF OfferRecent
<1>2. UNCHANGED <<chain, history, block>>
  BY DEF OfferRecent
<1>3. b \in proc[p].todo /\ b \in Block
  <2>1. proc[p].todo \subseteq Block
    BY <1>1 DEF Proc_
  <2>2. proc[p].todo \in SUBSET Nat
    BY <2>1, Whole
  <2> QED BY <1>0, <1>1, <2>1, <2>2, MinIn
<1>4. \/ block[b].conflict /\ proc' = [proc EXCEPT ![p] = leave] /\ UNCHANGED work
      \/ ~block[b].conflict /\ Offer(p, js)
  BY <1>0 DEF OfferRecent
<1>5. Offer(p, js) => \/ proc' = [proc EXCEPT ![p] = stop]
                      \/ /\ proc' = [proc EXCEPT ![p] = next]
                         /\ \E w \in IF js = {} THEN {work} ELSE Pruned(work) : work' = Enqueued(w, js)
  BY <1>0 DEF Offer
<1> HIDE DEF yes, no, none, rest
<1>6. leave.step # "recent" /\ stop.step # "recent" /\ next.mark = proc[p].mark /\ next.todo = rest
  BY <1>1 DEF Proc_
<1> HIDE DEF leave, stop, next
<1>7. ASSUME UNCHANGED work, proc' = [proc EXCEPT ![p] = leave]
      PROVE  PassOK'
  BY <1>2, <1>6, <1>7, SameTends, StopsPass
<1>8. ASSUME Offer(p, js), ~block[b].conflict
      PROVE  PassOK'
  <2> HIDE DEF js
  <2>1. Tends
    BY <1>2, <1>8, OfferTends
  <2>2. CASE proc' = [proc EXCEPT ![p] = stop]
    BY <1>2, <1>6, <2>1, <2>2, StopsPass
  <2>3. ASSUME proc' = [proc EXCEPT ![p] = next], NEW w \in IF js = {} THEN {work} ELSE Pruned(work),
               work' = Enqueued(w, js)
        PROVE  PassOK'
    <3>1. InHand(b)'
      <4>1. CASE block[b].receipts
        BY <1>2, <4>1 DEF InHand
      <4>2. CASE ~block[b].receipts
        <5>1. js = {ReceiptJob(b)}
          BY <4>2 DEF js, ReceiptJob
        <5>2. w \in [Job -> Row]
          BY <2>3, PrunedOK, Types DEF IInv
        <5>3. ReceiptJob(b) \in Job
          BY <1>3, RowStates
        <5>4. work' \in [Job -> Row] /\ work'[ReceiptJob(b)].state # "none"
          <6>1. work' \in [Job -> Row]
            BY <2>3, <5>2, EnqueuedOK
          <6>2. work'[ReceiptJob(b)] = Pending \/ (w[ReceiptJob(b)].state # "none" /\ work'[ReceiptJob(b)] = w[ReceiptJob(b)])
            BY <2>3, <5>1, <5>3 DEF Enqueued, Missing
          <6> QED BY <6>1, <6>2, Rows
        <5>5. work'[ReceiptJob(b)].state \in {"complete", "persistent_partial"} => InHand(b)'
          BY <1>3, <2>1, TendsKeeps
        <5>6. work'[ReceiptJob(b)].state
                \in {"none", "pending", "leased", "retrying", "complete", "persistent_partial"}
          BY <5>3, <5>4 DEF Row
        <5> QED BY <5>4, <5>5, <5>6 DEF InHand
      <4> QED BY <4>1, <4>2
    <3>2. \A x \in proc[p].todo \ next.todo : InHand(x)'
      <4>1. \A x \in proc[p].todo \ next.todo : x = b
        BY <1>6 DEF rest
      <4> QED BY <3>1, <4>1
    <3> QED BY <1>1, <1>2, <1>6, <2>1, <2>3, <3>2, PassGoes
  <2> QED BY <1>5, <1>8, <2>2, <2>3
<1> QED BY <1>4, <1>7, <1>8

LEMMA EndPassPass ==
  ASSUME IInv, PassOK, NEW p \in Proc, EndPass(p)
  PROVE  PassOK'
<1> DEFINE new == [proc[p] EXCEPT !.step = "idle", !.mark = 0]
<1>1. UNCHANGED db /\ UNCHANGED <<chain, outrun>>
  BY Zenon DEF EndPass
<1>2. /\ \A b \in Block : InHand(b)' <=> InHand(b)
      /\ \A b \in Block : work'[ReceiptJob(b)] = work[ReceiptJob(b)]
      /\ Persisted' = Persisted /\ Persisted \subseteq Block /\ chain' = chain /\ outrun' = outrun
  BY <1>1 DEF db, InHand, Persisted
<1>3. /\ passed \in Nat /\ proc[p].mark \in Nat /\ passed <= chain.through /\ proc[p].mark <= chain.through
      /\ proc[p].step = "recent" /\ proc[p].todo = {} /\ Block \subseteq Nat
  BY Whole DEF PassOK, EndPass
<1>4. passed' \in {passed, proc[p].mark}
  <2> DEFINE m == Max({passed, proc[p].mark})
  <2>1. m \in {passed, proc[p].mark}
    BY <1>3, MaxOfTwo
  <2>2. passed' = m
    BY DEF EndPass
  <2> HIDE DEF m
  <2> QED BY <2>1, <2>2
<1>5. ~outrun => \A b \in Persisted : b <= passed' => InHand(b)
  BY <1>3, <1>4 DEF PassOK
<1>6. proc' = [proc EXCEPT ![p] = new] /\ proc \in [Proc -> Proc_] /\ proc[p] \in Proc_
  BY Mem DEF EndPass
<1>7. new.step # "recent"
  BY <1>6 DEF Proc_
<1> HIDE DEF new
<1>8. \A q \in Proc : proc'[q].step = "recent" => proc'[q] = proc[q]
  BY <1>6, <1>7
<1>9. ASSUME NEW q \in Proc, proc'[q].step = "recent"
      PROVE  /\ proc'[q].mark <= chain.through
             /\ ~outrun => \A b \in Persisted \ proc'[q].todo : b <= proc'[q].mark => InHand(b)
  BY <1>8, <1>9 DEF PassOK
<1> QED BY <1>2, <1>3, <1>4, <1>5, <1>9 DEF PassOK

LEMMA InitPass == Init => PassOK
<1> SUFFICES ASSUME Init  PROVE PassOK
  OBVIOUS
<1>1. \A b \in Block : ReceiptJob(b) \in Job /\ b >= 1
  BY Numbers DEF Job, Comp, ReceiptJob
<1>2. \A b \in Block : work[ReceiptJob(b)].state = "none"
  BY <1>1, Rows DEF Init
<1>3. passed = 0 /\ chain.through = 0 /\ Persisted = {}
  BY <1>1, Numbers DEF Init, Persisted
<1>4. \A p \in Proc : proc[p].step = "idle"
  BY DEF Init, Idle
<1> QED BY <1>2, <1>3, <1>4 DEF PassOK

LEMMA NextPass ==
  ASSUME IInv, PassOK, [Next]_vars
  PROVE  PassOK'
<1>1. ASSUME NEW p \in Proc, WorkLoop(p) \/ Flush(p) \/ MeetConflict(p) \/ CallFails(p)
      PROVE  PassOK'
  <2>1. UNCHANGED chain /\ UNCHANGED history
    BY <1>1, Zenon DEF WorkLoop, Claim, MarkBulk, ReadBulk, ReadMissing, SaveRefused, RecordConflict, ClaimSpan,
       Plan, PersistLogs, SkipLogs, EndBatch, Release, Flush, MeetConflict, CallFails
  <2>2. Tends /\ Lists
    BY <1>1, WorkTends, WorkLists DEF Trouble
  <2> QED BY <2>1, <2>2, SameAppends, PassStays
<1>2. ASSUME NEW j \in Job, LeaseExpires(j)
      PROVE  PassOK'
  <2>1. UNCHANGED chain /\ UNCHANGED proc /\ UNCHANGED history
    BY <1>2, Zenon DEF LeaseExpires
  <2>2. Lists
    BY <2>1 DEF Lists
  <2> QED BY <1>2, <2>1, <2>2, ExpiresTends, SameAppends, PassStays
<1>3. CASE UNCHANGED vars
  <2>1. UNCHANGED <<chain, block, work, proc, passed, outrun>>
    BY <1>3 DEF vars, db, history
  <2>2. Lists
    BY <2>1 DEF Lists
  <2> QED BY <2>1, <2>2, SameTends, SameAppends, PassStays DEF history
<1>4. ASSUME NEW p \in Proc, ChainLoop(p) \/ WorkLoop(p) \/ Flush(p) \/ Trouble(p)
      PROVE  PassOK'
  BY <1>1, <1>4, ChainTickPass, ReadDeferredPass, OfferDeferredPass, ReadRecentPass, OfferRecentPass, EndPassPass
     DEF ChainLoop, Trouble
<1> QED BY <1>2, <1>3, <1>4 DEF Next

\* While no pass is outrun, a block that a full pass has been over keeps a job for
\* its receipts until they are stored.
THEOREM LaneNothingForgotten == Spec => []NothingForgotten
<1>1. IInv /\ PassOK => NothingForgotten
  <2> SUFFICES ASSUME IInv, PassOK, ~outrun, NEW b \in Persisted, b <= passed, ~block[b].conflict, ~block[b].receipts
               PROVE  work[<<b, "receipts">>].state \in {"pending", "leased", "retrying"}
    BY DEF NothingForgotten
  <2> QED BY DEF PassOK, InHand, ReceiptJob
<1>2. Init => PassOK
  BY InitPass
<1>3. IInv /\ PassOK /\ [Next]_vars => PassOK'
  BY NextPass
<1> QED BY <1>1, <1>2, <1>3, LaneInvariant, PTL DEF Spec

=============================================================================
