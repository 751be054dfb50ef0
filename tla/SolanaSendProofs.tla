--------------------------- MODULE SolanaSendProofs ---------------------------
(***************************************************************************)
(* Theorems about SolanaSend, for any number of attempts, pages, checks,   *)
(* wallets and pairs of them.                                              *)
(***************************************************************************)
EXTENDS SolanaSend, FiniteSetTheorems, TLAPS

(***************************************************************************)
(* The inductive invariant.                                                *)
(***************************************************************************)
Failed == {"failed", "rejected"}

Unsent == {"prompt", "limbo", "signed", "pending"}

OnChain == {a \in Attempts : burn[a].status \in {"processed", "landed"}}

\* A burn that was asked for and cannot land any more.
Dead(a) == \/ burn[a].status \in Failed
           \/ burn[a].status \in Unsent /\ burn[a].expired

\* One that was asked for and cannot be made any more.
Gone(a) == burn[a].status # "none" /\ ~Live(a)

\* What is known of an attempt.
AttemptOK(a) ==
  LET d == journal[a]
      status == burn[a].status
  IN  /\ Known(a) => d.pair \in Pairs /\ d.side \in Sides
      /\ status = "none" => d.phase \in {"none", "prepared", "released"}
      /\ status # "none" => d.phase \notin {"none", "prepared"}
      /\ d.hash \in {None, a} \cup OnChain
      /\ d.phase = "burned" => d.hash \in OnChain
      /\ Live(a) => isBlocking(a) \/ d.manuallyReleased \/ d.phase = "burned"

Holds(u, pair) == locks[pair[1]] = u /\ locks[pair[2]] = u

Working == {"kit", "prompt", "submit", "after", "final"}

\* What a transfer or a review has, and may rely on under its locks.
RunOK(u) ==
  LET pc == run[u].pc
      a == run[u].rec
  IN  /\ pc \in Working \cup {"open", "ready"} =>
           run[u].pair \in Pairs /\ Holds(u, run[u].pair)
      /\ pc \in Working \cup {"review"} =>
           a \in Attempts /\ Known(a) /\ Holds(u, journal[a].pair)
      /\ pc \in Working => journal[a].pair = run[u].pair
      /\ pc \in {"prompt", "submit", "after", "final", "review"} => burn[a].status # "none"
      /\ pc = "kit" => burn[a].status = "none"
      /\ pc = "submit" => burn[a].status = "signed"
      /\ pc \in {"final", "review"} => look[u].rec = a

\* What a settling has read, and that what it decided stays true.
LookOK(s) ==
  LET k == look[s]
      a == k.rec
  IN  /\ k.pc # "idle" => a \in Attempts /\ Known(a) /\ burn[a].status # "none"
      /\ k.pc \notin {"idle", "done"} =>
           k.snap.side = journal[a].side /\ k.snap.hash \in {None, a} \cup OnChain
      /\ k.pc \in {"expiry", "again"} => k.snap.side # "arc"
      /\ k.pc = "again" => burn[a].expired
      /\ k.pc = "done" =>
           /\ k.verdict = "not-sent" =>
                Gone(a) /\ (journal[a].side = "arc" \/ k.snap.signature => Dead(a))
           /\ k.verdict = "burned" => k.tx \in OnChain

IInv == /\ TypeOK /\ IsFiniteSet(Landed)
        /\ \A a \in Attempts : AttemptOK(a)
        /\ \A u \in Runs : RunOK(u)
        /\ \A s \in Settlers : LookOK(s)

\* Which open attempt a transfer may share a wallet with.
Own(u) == IF run[u].pc = "open" THEN {look[u].rec}
          ELSE IF run[u].pc \in {"ready", "kit"} THEN {} ELSE {run[u].rec}

Alone(u) ==
  run[u].pc \in Working \cup {"open", "ready"} =>
    \A b \in Attempts : isBlocking(b) /\ Shares(journal[b].pair, run[u].pair) => b \in Own(u)

\* Two open attempts have no wallet in common.
OneOpen ==
  \A a, b \in Attempts :
    isBlocking(a) /\ isBlocking(b) /\ Shares(journal[a].pair, journal[b].pair) => a = b

\* The pair of a transfer shares a wallet with two attempts that share none.
Bridged(u) ==
  \E a, b \in Attempts :
    /\ Known(a) /\ Known(b)
    /\ Shares(journal[a].pair, run[u].pair) /\ Shares(run[u].pair, journal[b].pair)
    /\ ~Shares(journal[a].pair, journal[b].pair)

Fit(u) == Bridged(u) \/ Alone(u)

XInv == OneOpen /\ \A u \in Runs : Fit(u)

-----------------------------------------------------------------------------
(***************************************************************************)
(* Lemmas about types and writes.                                          *)
(***************************************************************************)
LEMMA Put ==
  ASSUME NEW S, NEW T, NEW f \in [S -> T], NEW i \in S, NEW e \in T, NEW g,
         g = [f EXCEPT ![i] = e]
  PROVE  g \in [S -> T] /\ g[i] = e /\ \A j \in S \ {i} : g[j] = f[j]
  OBVIOUS

LEMMA Types ==
  ASSUME IInv
  PROVE  /\ TypeOK /\ IsFiniteSet(Landed)
         /\ journal \in [Attempts -> Attempt] /\ burn \in [Attempts -> Burn]
         /\ run \in [Runs -> Run] /\ look \in [Settlers -> Look]
         /\ locks \in [Wallets -> Runs \cup {None}]
  BY DEF IInv, TypeOK

LEMMA Idles ==
  /\ NoAttempt \in Attempt /\ NoAttempt.phase = "none" /\ NoAttempt.hash = None
  /\ NoAttempt.from = 0 /\ ~NoAttempt.manuallyReleased
  /\ IdleRun \in Run /\ IdleRun.pc = "idle"
  /\ IdleLook \in Look /\ IdleLook.pc = "idle" /\ IdleLook.rec = None
  BY DEF NoAttempt, Attempt, IdleRun, Run, IdleLook, Look

LEMMA LandedSize ==
  ASSUME IsFiniteSet(Landed)
  PROVE  \A side : Cardinality(Here(side)) \in Nat /\ Horizon(side) \subseteq Nat
<1> SUFFICES ASSUME NEW side
             PROVE  Cardinality(Here(side)) \in Nat /\ Horizon(side) \subseteq Nat
  OBVIOUS
<1>1. Cardinality(Here(side)) \in Nat
  BY FS_Subset, FS_CardinalityType DEF Here
<1> QED BY <1>1 DEF Horizon

\* Of the journal, or of the burns, only what concerns a is written.
JournalOnly(a) ==
  /\ journal' \in [Attempts -> Attempt]
  /\ \A b \in Attempts \ {a} : journal'[b] = journal[b]

BurnOnly(a) ==
  /\ burn' \in [Attempts -> Burn]
  /\ \A b \in Attempts \ {a} : burn'[b] = burn[b]

LEMMA JournalPut ==
  ASSUME IInv, NEW a \in Attempts, NEW d \in Attempt, journal' = [journal EXCEPT ![a] = d]
  PROVE  JournalOnly(a) /\ journal'[a] = d
  BY Types, Put DEF JournalOnly

\* The phase changes and nothing else does.
LEMMA PhasePut ==
  ASSUME IInv, NEW a \in Attempts,
         NEW phase \in BLOCKING \cup {"none", "prepared", "released", "burned"},
         journal' = Patched(a, phase)
  PROVE  /\ JournalOnly(a) /\ journal'[a].phase = phase
         /\ journal'[a].pair = journal[a].pair /\ journal'[a].side = journal[a].side
         /\ journal'[a].hash = journal[a].hash
         /\ journal'[a].manuallyReleased = journal[a].manuallyReleased
<1> DEFINE d == [journal[a] EXCEPT !.phase = phase]
<1>1. journal[a] \in Attempt
  BY Types
<1>2. /\ d \in Attempt /\ d.phase = phase /\ d.pair = journal[a].pair
      /\ d.side = journal[a].side /\ d.hash = journal[a].hash
      /\ d.manuallyReleased = journal[a].manuallyReleased
  BY <1>1 DEF Attempt
<1>3. journal' = [journal EXCEPT ![a] = d]
  BY DEF Patched
<1> HIDE DEF d
<1>4. JournalOnly(a) /\ journal'[a] = d
  BY <1>2, <1>3, JournalPut
<1> QED BY <1>2, <1>4

LEMMA BurnPut ==
  ASSUME IInv, NEW a \in Attempts,
         NEW status \in Unsent \cup Failed \cup {"processed"}, Became(a, status)
  PROVE  /\ BurnOnly(a) /\ burn'[a].status = status
         /\ burn'[a].expired = burn[a].expired /\ burn'[a].at = burn[a].at
<1> DEFINE e == [burn[a] EXCEPT !.status = status]
<1>1. burn[a] \in Burn /\ burn \in [Attempts -> Burn]
  BY Types
<1>2. /\ e \in Burn /\ e.status = status /\ e.expired = burn[a].expired
      /\ e.at = burn[a].at
  BY <1>1 DEF Burn, Unsent, Failed
<1>3. burn' = [burn EXCEPT ![a] = e]
  BY DEF Became
<1> HIDE DEF e
<1>4. BurnOnly(a) /\ burn'[a] = e
  BY <1>1, <1>2, <1>3, Put DEF BurnOnly
<1> QED BY <1>2, <1>4

(***************************************************************************)
(* What no step takes back of an attempt and of its burn.                  *)
(***************************************************************************)
Advances(a) ==
  /\ Known(a) => /\ Known(a)' /\ journal'[a].pair = journal[a].pair
                 /\ journal'[a].side = journal[a].side
  /\ burn[a].status # "none" => burn'[a].status # "none"
  /\ burn[a].expired => burn'[a].expired
  /\ Dead(a) => Dead(a)'
  /\ Gone(a) => Gone(a)'
  /\ a \in OnChain => a \in OnChain'

Kept ==
  /\ journal' \in [Attempts -> Attempt] /\ burn' \in [Attempts -> Burn]
  /\ IsFiniteSet(Landed)'
  /\ \A a \in Attempts : AttemptOK(a)' /\ Advances(a)

LEMMA AttemptStays ==
  ASSUME IInv, NEW a \in Attempts, journal'[a] = journal[a], burn'[a] = burn[a],
         OnChain \subseteq OnChain'
  PROVE  AttemptOK(a)' /\ Advances(a)
<1>1. AttemptOK(a) /\ journal[a] \in Attempt
  BY Types DEF IInv
<1>2. a \in OnChain' <=> a \in OnChain
  BY DEF OnChain
<1>3. AttemptOK(a)'
  BY <1>1 DEF AttemptOK, Known, Live, isBlocking
<1>4. Advances(a)
  BY <1>2 DEF Advances, Known, Dead, Gone, Live
<1> QED BY <1>3, <1>4

\* A write of one attempt and of what its request came to, short of landing.
LEMMA AttemptMoves ==
  ASSUME IInv, NEW a \in Attempts, JournalOnly(a), BurnOnly(a),
         journal'[a].phase # "none",
         journal'[a].pair \in Pairs, journal'[a].side \in Sides,
         Known(a) => /\ journal'[a].pair = journal[a].pair
                     /\ journal'[a].side = journal[a].side,
         burn'[a].expired = burn[a].expired, burn'[a].at = burn[a].at,
         \/ burn'[a].status = burn[a].status
         \/ /\ burn[a].status \in {"none", "prompt", "signed"}
            /\ burn'[a].status \in Unsent \cup Failed,
         IF burn'[a].status = "none" THEN journal'[a].phase \in {"prepared", "released"}
                                     ELSE journal'[a].phase # "prepared",
         journal'[a].hash \in {None, a} \cup OnChain,
         journal'[a].phase = "burned" => journal'[a].hash \in OnChain,
         \/ journal'[a].phase \in BLOCKING \cup {"burned"}
         \/ journal'[a].manuallyReleased
         \/ burn'[a].status = "none" \/ Gone(a)'
  PROVE  Kept
<1>1. AttemptOK(a)
  BY DEF IInv
<1>2. (a \in Landed' <=> a \in Landed) /\ (a \in OnChain' <=> a \in OnChain)
  BY DEF Landed, OnChain, Unsent, Failed
<1>3. Landed' = Landed /\ OnChain' = OnChain
  BY <1>2 DEF Landed, OnChain, BurnOnly
<1>4. IsFiniteSet(Landed')
  BY <1>3, Types
<1>5. \A b \in Attempts \ {a} : AttemptOK(b)' /\ Advances(b)
  BY <1>3, AttemptStays DEF JournalOnly, BurnOnly
<1>6. burn[a].status # "none" => burn'[a].status # "none"
  BY DEF Unsent, Failed
<1>7. burn'[a].status = "none" \/ Gone(a)' => ~Live(a)'
  BY DEF Gone, Live
<1>8. AttemptOK(a)'
  BY <1>1, <1>3, <1>7 DEF AttemptOK, Known, isBlocking, BLOCKING
<1>9. Dead(a) => Dead(a)'
  BY DEF Dead, Failed, Unsent
<1>10. Gone(a) => Gone(a)'
  BY <1>6 DEF Gone, Live, Unsent, Failed
<1>11. Advances(a)
  BY <1>2, <1>6, <1>9, <1>10 DEF Advances, Known
<1> QED BY <1>4, <1>5, <1>8, <1>11 DEF Kept, JournalOnly, BurnOnly

(***************************************************************************)
(* Transfers and settlings that do not move.                               *)
(***************************************************************************)
LEMMA LookStays ==
  ASSUME IInv, Kept, NEW s \in Settlers, look'[s] = look[s]
  PROVE  LookOK(s)'
<1>1. LookOK(s)
  BY DEF IInv
<1>2. OnChain \subseteq OnChain'
  BY DEF Kept, Advances, OnChain
<1>3. look[s].pc # "idle" => look[s].rec \in Attempts /\ Advances(look[s].rec)
  BY <1>1 DEF LookOK, Kept
<1> DEFINE a == look[s].rec
<1>4. CASE look[s].pc = "idle"
  BY <1>4 DEF LookOK
<1>5. CASE look[s].pc # "idle"
  <2>1. /\ a \in Attempts /\ journal'[a].phase # "none" /\ burn'[a].status # "none"
        /\ journal'[a].side = journal[a].side
        /\ burn[a].expired => burn'[a].expired
    BY <1>1, <1>3, <1>5 DEF LookOK, Advances, Known
  <2>2. (Dead(a) => Dead(look[s].rec)') /\ (Gone(a) => Gone(look[s].rec)')
    BY <1>3, <1>5 DEF Advances, Dead, Gone, Live
  <2> QED BY <1>1, <1>2, <1>5, <2>1, <2>2 DEF LookOK, Known, Dead, Gone, Live
<1> QED BY <1>4, <1>5

LEMMA RunStays ==
  ASSUME IInv, Kept, NEW u \in Runs, run'[u] = run[u], look'[u].rec = look[u].rec,
         \A w \in Wallets : locks[w] = u => locks'[w] = u,
         run[u].pc \in {"kit", "submit"} =>
           burn'[run[u].rec].status = burn[run[u].rec].status
  PROVE  RunOK(u)'
<1>1. RunOK(u)
  BY DEF IInv
<1>2. \A pair \in Pairs : pair[1] \in Wallets /\ pair[2] \in Wallets
  BY DEF Wallets
<1>3. \A pair \in Pairs : Holds(u, pair) => locks'[pair[1]] = u /\ locks'[pair[2]] = u
  BY <1>2 DEF Holds
<1> DEFINE a == run[u].rec
<1>4. CASE run[u].pc \in Working \cup {"review"}
  <2>1. /\ a \in Attempts /\ Known(a) /\ Holds(u, journal[a].pair) /\ Advances(a)
        /\ AttemptOK(a)
    BY <1>1, <1>4 DEF RunOK, Kept, IInv
  <2>2. /\ journal'[a].phase # "none" /\ journal'[a].pair = journal[a].pair
        /\ journal'[a].side = journal[a].side /\ journal[a].pair \in Pairs
        /\ burn[a].status # "none" => burn'[a].status # "none"
    BY <2>1 DEF Advances, Known, AttemptOK
  <2>3. locks'[journal[a].pair[1]] = u /\ locks'[journal[a].pair[2]] = u
    BY <1>3, <2>1, <2>2
  <2> QED BY <1>1, <1>4, <2>1, <2>2, <2>3 DEF RunOK, Known, Holds, Working
<1>5. CASE run[u].pc \notin Working \cup {"review"}
  BY <1>1, <1>3, <1>5 DEF RunOK, Holds, Working
<1> QED BY <1>4, <1>5

\* Two transfers or reviews at work have different attempts: each has the locks
\* of the wallets of its own.
LEMMA Distinct ==
  ASSUME IInv, NEW u \in Runs, NEW v \in Runs \ {u},
         run[u].pc \in Working \cup {"review"}, run[v].pc \in Working \cup {"review"}
  PROVE  run[u].rec # run[v].rec
  BY DEF IInv, RunOK, Holds

\* A step of the page u: everybody else is where he was.
LEMMA PageStep ==
  ASSUME IInv, Kept, NEW u \in Runs,
         run' \in [Runs -> Run], look' \in [Settlers -> Look],
         locks' \in [Wallets -> Runs \cup {None}],
         \A v \in Runs \ {u} : run'[v] = run[v],
         \A s \in Settlers \ {u} : look'[s] = look[s],
         \A v \in Runs \ {u}, w \in Wallets : locks[w] = v => locks'[w] = v,
         \A v \in Runs \ {u} : run[v].pc \in {"kit", "submit"} =>
           burn'[run[v].rec].status = burn[run[v].rec].status,
         RunOK(u)', LookOK(u)'
  PROVE  IInv'
<1>1. TypeOK'
  BY DEF Kept, TypeOK
<1>2. ASSUME NEW v \in Runs
      PROVE  RunOK(v)'
  <2>1. CASE v = u
    BY <2>1
  <2>2. CASE v # u
    <3>1. look'[v].rec = look[v].rec /\ run'[v] = run[v]
      BY <2>2 DEF Settlers
    <3> QED BY <2>2, <3>1, RunStays
  <2> QED BY <2>1, <2>2
<1>3. \A s \in Settlers : LookOK(s)'
  BY LookStays
<1> QED BY <1>1, <1>2, <1>3 DEF IInv, Kept

\* Whoever moves, the transfers at work keep what they have.
LEMMA OthersKeep ==
  ASSUME IInv, NEW u \in Runs, run[u].pc \in Working \cup {"review"},
         BurnOnly(run[u].rec)
  PROVE  \A v \in Runs \ {u} : run[v].pc \in {"kit", "submit"} =>
           burn'[run[v].rec].status = burn[run[v].rec].status
<1> SUFFICES ASSUME NEW v \in Runs \ {u}, run[v].pc \in {"kit", "submit"}
             PROVE  burn'[run[v].rec].status = burn[run[v].rec].status
  OBVIOUS
<1>1. run[v].rec # run[u].rec /\ run[v].rec \in Attempts
  BY Distinct DEF Working, IInv, RunOK
<1> QED BY <1>1 DEF BurnOnly

\* The end of a transfer or of a review frees its locks and nothing else.
LEMMA Ends ==
  ASSUME IInv, Kept, NEW u \in Runs, Finish(u),
         \A v \in Runs \ {u} : run[v].pc \in {"kit", "submit"} =>
           burn'[run[v].rec].status = burn[run[v].rec].status
  PROVE  IInv'
<1>1. /\ run' \in [Runs -> Run] /\ run'[u] = IdleRun
      /\ \A v \in Runs \ {u} : run'[v] = run[v]
  BY Types, Idles, Put DEF Finish
<1>2. /\ look' \in [Settlers -> Look] /\ look'[u] = IdleLook
      /\ \A s \in Settlers \ {u} : look'[s] = look[s]
  <2>1. u \in Settlers
    BY DEF Settlers
  <2> QED BY <2>1, Types, Idles, Put DEF Finish
<1>3. /\ locks' \in [Wallets -> Runs \cup {None}]
      /\ \A v \in Runs \ {u}, w \in Wallets : locks[w] = v => locks'[w] = v
  BY Types DEF Finish
<1>4. run'[u].pc = "idle" /\ look'[u].pc = "idle"
  BY <1>1, <1>2, Idles
<1>5. RunOK(u)' /\ LookOK(u)'
  BY <1>4 DEF RunOK, LookOK, Working
<1> QED BY <1>1, <1>2, <1>3, <1>5, PageStep

LEMMA SameKept ==
  ASSUME IInv, UNCHANGED <<journal, burn>>
  PROVE  Kept
<1>1. Landed' = Landed /\ OnChain' = OnChain
  BY DEF Landed, OnChain
<1>2. IsFiniteSet(Landed')
  BY <1>1, Types
<1>3. \A a \in Attempts : AttemptOK(a)' /\ Advances(a)
  BY <1>1, AttemptStays
<1> QED BY <1>2, <1>3, Types DEF Kept

-----------------------------------------------------------------------------
(***************************************************************************)
(* Settling: reads and verdicts.                                           *)
(***************************************************************************)
\* A settling goes on; nobody else moves and nothing is written.
LEMMA LookMoves ==
  ASSUME IInv, NEW s \in Settlers, NEW e \in Look, look' = [look EXCEPT ![s] = e],
         e.rec = look[s].rec \/ s \notin Runs,
         UNCHANGED <<journal, locks, run, burn>>,
         look'[s] = e => LookOK(s)'
  PROVE  IInv'
<1>1. /\ look' \in [Settlers -> Look] /\ look'[s] = e
      /\ \A t \in Settlers \ {s} : look'[t] = look[t]
  BY Types, Put
<1>2. Kept
  BY SameKept
<1>3. \A t \in Settlers : LookOK(t)'
  BY <1>1, <1>2, LookStays
<1>4. \A u \in Runs : look'[u].rec = look[u].rec
  BY <1>1 DEF Settlers
<1>5. \A u \in Runs : RunOK(u)'
  BY <1>2, <1>4, RunStays
<1>6. TypeOK'
  BY <1>1, Types DEF TypeOK
<1> QED BY <1>2, <1>3, <1>5, <1>6 DEF IInv, Kept

\* A verdict is sound when it is given.
LEMMA Decides ==
  ASSUME IInv, NEW s \in Settlers, look[s].pc # "idle",
         NEW verdict \in {"burned", "not-sent", "unknown", "unreadable"},
         NEW tx \in Attempts \cup {None}, Decided(s, verdict, tx),
         verdict = "burned" => tx \in OnChain,
         verdict = "not-sent" =>
           /\ Gone(look[s].rec)
           /\ journal[look[s].rec].side = "arc" \/ look[s].snap.signature => Dead(look[s].rec),
         UNCHANGED <<journal, locks, run, burn>>
  PROVE  IInv'
<1> DEFINE signature == look[s].snap.signature /\ verdict = "not-sent"
           n == [NoAttempt EXCEPT !.signature = signature]
           e == [pc |-> "done", rec |-> look[s].rec, verdict |-> verdict, tx |-> tx, snap |-> n]
<1> PICK a \in Attempts : /\ a = look[s].rec /\ Known(a) /\ burn[a].status # "none"
  BY DEF IInv, LookOK
<1>0. signature \in BOOLEAN
  BY Types DEF Look, Attempt
<1>2. look' = [look EXCEPT ![s] = e]
  BY DEF Decided
<1> HIDE DEF signature
<1>5. n \in Attempt /\ n.signature = signature
  BY <1>0 DEF NoAttempt, Attempt
<1> HIDE DEF n
<1>1. /\ e \in Look /\ e.pc = "done" /\ e.rec = a /\ e.verdict = verdict /\ e.tx = tx
      /\ e.snap.signature = signature
  BY <1>5 DEF Look
<1> HIDE DEF e
<1>3. OnChain' = OnChain
  BY DEF OnChain
<1>4. look'[s] = e => LookOK(s)'
  BY <1>1, <1>3 DEF LookOK, Known, Dead, Gone, Live, signature
<1> QED BY <1>1, <1>2, <1>4, LookMoves

\* The next read.
LEMMA GoesOn ==
  ASSUME IInv, NEW s \in Settlers, look[s].pc \notin {"idle", "done"},
         NEW pc \in {"search", "expiry", "again"}, Goes(s, pc),
         pc # "search" => look[s].snap.side # "arc",
         pc = "again" => burn[look[s].rec].expired,
         UNCHANGED <<journal, locks, run, burn>>
  PROVE  IInv'
<1> DEFINE e == [look[s] EXCEPT !.pc = pc]
<1> PICK a \in Attempts : /\ a = look[s].rec /\ Known(a) /\ burn[a].status # "none"
  BY DEF IInv, LookOK
<1>1. look[s] \in Look /\ LookOK(s)
  BY Types DEF IInv
<1>2. e \in Look /\ e.pc = pc /\ e.rec = a /\ e.snap = look[s].snap
  BY <1>1 DEF Look
<1>3. look' = [look EXCEPT ![s] = e]
  BY DEF Goes
<1> HIDE DEF e
<1>4. OnChain' = OnChain
  BY DEF OnChain
<1>5. look'[s] = e => LookOK(s)'
  BY <1>1, <1>2, <1>4 DEF LookOK, Known
<1> QED BY <1>2, <1>3, <1>5, LookMoves

\* What failed is dead, and gone.
LEMMA FailedIsDead ==
  ASSUME NEW a, burn[a].status = "failed"
  PROVE  Dead(a) /\ Gone(a)
  BY DEF Dead, Gone, Failed, Live

\* A hash that is not of the attempt is of a burn that landed, so a failed one is
\* its own.
LEMMA ReadHashStep ==
  ASSUME IInv, NEW s \in Settlers, ReadHash(s)
  PROVE  IInv'
<1>1. look[s].pc = "start" /\ UNCHANGED <<journal, locks, run, burn>>
  BY DEF ReadHash
<1> PICK x : x = look[s].snap.hash
  OBVIOUS
<1>2. x \in {look[s].rec} \cup OnChain /\ look[s].rec \in Attempts
  BY <1>1 DEF ReadHash, IInv, LookOK
<1>3. CASE burn[x].status = "landed" /\ Decided(s, "burned", x)
  <2>1. x \in OnChain
    BY <1>2, <1>3 DEF OnChain
  <2> QED BY <1>1, <1>3, <2>1, Decides DEF OnChain
<1>4. CASE burn[x].status = "failed" /\ Decided(s, "not-sent", None)
  <2>1. x = look[s].rec
    BY <1>2, <1>4 DEF OnChain
  <2>2. Dead(look[s].rec) /\ Gone(look[s].rec)
    BY <1>4, <2>1, FailedIsDead
  <2> QED BY <1>1, <1>4, <2>2, Decides
<1>5. CASE Goes(s, "search")
  BY <1>1, <1>5, GoesOn
<1> QED BY <1>3, <1>4, <1>5 DEF ReadHash

LEMMA ReadSignatureStep ==
  ASSUME IInv, NEW s \in Settlers, ReadSignature(s)
  PROVE  IInv'
<1>1. look[s].pc = "start" /\ UNCHANGED <<journal, locks, run, burn>>
  BY DEF ReadSignature
<1> PICK a \in Attempts : a = look[s].rec
  BY <1>1 DEF IInv, LookOK
<1>2. CASE burn[a].status = "landed" /\ Decided(s, "burned", a)
  BY <1>1, <1>2, Decides DEF OnChain
<1>3. CASE burn[a].status = "failed" /\ Decided(s, "not-sent", None)
  <2>1. Dead(look[s].rec) /\ Gone(look[s].rec)
    BY <1>3, FailedIsDead
  <2> QED BY <1>1, <1>3, <2>1, Decides
<1>4. CASE Decided(s, "unknown", None)
  BY <1>1, <1>4, Decides
<1>5. CASE Goes(s, "expiry")
  BY <1>1, <1>5, GoesOn DEF ReadSignature
<1> QED BY <1>2, <1>3, <1>4, <1>5 DEF ReadSignature

\* A search shows burns that landed.
LEMMA SeenLanded ==
  ASSUME NEW snap, NEW found \in Seen(snap)
  PROVE  found \subseteq OnChain /\ OnChain \subseteq Attempts
  BY DEF Seen, BurnsSince, Landed, OnChain

LEMMA SearchStep ==
  ASSUME IInv, NEW s \in Settlers, Search(s)
  PROVE  IInv'
<1>1. look[s].pc \in {"start", "search"} /\ UNCHANGED <<journal, locks, run, burn>>
  BY DEF Search
<1>2. ASSUME NEW found \in Seen(look[s].snap), NEW b \in found, Decided(s, "burned", b)
      PROVE  IInv'
  <2>1. b \in OnChain /\ b \in Attempts
    BY SeenLanded
  <2> QED BY <1>1, <1>2, <2>1, Decides
<1>3. CASE Decided(s, "unknown", None)
  BY <1>1, <1>3, Decides
<1>4. CASE look[s].snap.side # "arc" /\ Goes(s, "expiry")
  BY <1>1, <1>4, GoesOn
<1> QED BY <1>2, <1>3, <1>4 DEF Search

LEMMA ReadExpiryStep ==
  ASSUME IInv, NEW s \in Settlers, ReadExpiry(s)
  PROVE  IInv'
<1>1. look[s].pc = "expiry" /\ UNCHANGED <<journal, locks, run, burn>>
  BY DEF ReadExpiry
<1>2. CASE burn[look[s].rec].expired /\ Goes(s, "again")
  BY <1>1, <1>2, GoesOn DEF IInv, LookOK
<1>3. CASE Decided(s, "unknown", None)
  BY <1>1, <1>3, Decides
<1> QED BY <1>2, <1>3 DEF ReadExpiry

\* With an expired blockhash the burn cannot be made any more, and one whose
\* signature is not on its chain by then never lands.
LEMMA ReadAgainStep ==
  ASSUME IInv, NEW s \in Settlers, ReadAgain(s)
  PROVE  IInv'
<1>1. look[s].pc = "again" /\ UNCHANGED <<journal, locks, run, burn>>
  BY DEF ReadAgain
<1> PICK a \in Attempts : a = look[s].rec
  BY <1>1 DEF IInv, LookOK
<1> DEFINE snap == look[s].snap
           own == {b \in {a} : burn[b].status \in {"processed", "landed"}}
<1>2. /\ burn[a].expired /\ burn[a].status # "none" /\ journal[a].side # "arc"
      /\ burn[a] \in Burn
  BY <1>1, Types DEF IInv, LookOK
<1>3. Gone(a)
  BY <1>2 DEF Gone, Live
<1>4. ASSUME NEW b \in OnChain, Decided(s, "burned", b)
      PROVE  IInv'
  BY <1>1, <1>4, Decides DEF OnChain
<1>5. CASE snap.signature
  <2>1. \/ \E b \in own : Decided(s, "burned", b)
        \/ own = {} /\ Decided(s, "not-sent", None)
    BY <1>5 DEF ReadAgain
  <2>2. own \subseteq OnChain
    BY DEF OnChain
  <2>3. own = {} => Dead(look[s].rec)
    BY <1>2 DEF Dead, Burn, Failed, Unsent
  <2> HIDE DEF own
  <2>4. CASE own = {} /\ Decided(s, "not-sent", None)
    BY <1>1, <1>3, <2>3, <2>4, Decides
  <2> QED BY <1>4, <2>1, <2>2, <2>4
<1>6. CASE ~snap.signature
  <2>1. \E found \in Seen(snap) :
          \/ \E b \in found : Decided(s, "burned", b)
          \/ Decided(s, "not-sent", None)
    BY <1>6 DEF ReadAgain
  <2>2. CASE Decided(s, "not-sent", None)
    BY <1>1, <1>2, <1>3, <1>6, <2>2, Decides
  <2> QED BY <1>4, <2>1, <2>2, SeenLanded
<1> QED BY <1>5, <1>6

LEMMA ReadFailsStep ==
  ASSUME IInv, NEW s \in Settlers, ReadFails(s)
  PROVE  IInv'
<1> PICK verdict \in {"unknown", "unreadable"} :
      Decided(s, verdict, None) /\ UNCHANGED <<journal, locks, run, burn>>
  BY Zenon DEF ReadFails
<1> QED BY Decides DEF ReadFails

\* What a new look at a blocking attempt starts from.
LEMMA Looks ==
  ASSUME IInv, NEW s \in Settlers, NEW a \in Attempts, isBlocking(a), LookAt(s, a)
  PROVE  /\ look' \in [Settlers -> Look]
         /\ look'[s] \in Look /\ look'[s].rec = a /\ look'[s].pc = "start"
         /\ look'[s].snap = journal[a]
         /\ \A t \in Settlers \ {s} : look'[t] = look[t]
<1> DEFINE e == [IdleLook EXCEPT !.pc = "start", !.rec = a, !.snap = journal[a]]
<1>1. journal[a] \in Attempt
  BY Types
<1>2. e \in Look /\ e.rec = a /\ e.pc = "start" /\ e.snap = journal[a]
  BY <1>1, Idles DEF IdleLook, Look
<1>3. look' = [look EXCEPT ![s] = e]
  BY DEF LookAt
<1> HIDE DEF e
<1> QED BY <1>2, <1>3, Types, Put

LEMMA LooksOK ==
  ASSUME IInv, Kept, NEW s \in Settlers, NEW a \in Attempts, isBlocking(a), LookAt(s, a)
  PROVE  LookOK(s)'
<1>1. look'[s].rec = a /\ look'[s].pc = "start" /\ look'[s].snap = journal[a]
  BY Looks
<1>2. AttemptOK(a) /\ Advances(a) /\ Known(a) /\ burn[a].status # "none"
  BY DEF IInv, Kept, AttemptOK, isBlocking, BLOCKING, Known
<1>3. OnChain \subseteq OnChain'
  BY DEF Kept, Advances, OnChain
<1> QED BY <1>1, <1>2, <1>3 DEF LookOK, AttemptOK, Advances, Known

LEMMA CheckStep ==
  ASSUME IInv, NEW c \in Checkers, NEW pair \in Pairs, Check(c, pair)
  PROVE  IInv'
<1>1. PICK a \in Open(pair) : LookAt(c, a)
  BY DEF Check
<1>2. a \in Attempts /\ isBlocking(a) /\ c \in Settlers /\ c \notin Runs
  BY SolanaAssumption DEF Open, Settlers
<1>3. UNCHANGED <<journal, locks, run, burn>>
  BY DEF Check
<1>4. /\ look' \in [Settlers -> Look]
      /\ \A t \in Settlers \ {c} : look'[t] = look[t]
  BY <1>1, <1>2, Looks
<1>5. Kept
  BY <1>3, SameKept
<1>6. \A t \in Settlers : LookOK(t)'
  BY <1>1, <1>2, <1>4, <1>5, LooksOK, LookStays
<1>7. \A u \in Runs : look'[u].rec = look[u].rec
  BY <1>2, <1>4 DEF Settlers
<1>8. \A u \in Runs : RunOK(u)'
  BY <1>3, <1>5, <1>7, RunStays
<1>9. TypeOK'
  BY <1>3, <1>4, Types DEF TypeOK
<1> QED BY <1>5, <1>6, <1>8, <1>9 DEF IInv, Kept

\* A verdict is applied to the record as it is by now; what it says still holds.
LEMMA AppliedOK ==
  ASSUME IInv, NEW s \in Settlers, look[s].pc = "done", journal' = Applied(s),
         UNCHANGED burn
  PROVE  Kept
<1> PICK a \in Attempts : /\ a = look[s].rec /\ Known(a) /\ burn[a].status # "none"
  BY DEF IInv, LookOK
<1>1. /\ look[s].verdict = "not-sent" => Gone(a)
      /\ look[s].verdict = "burned" => look[s].tx \in OnChain
  BY DEF IInv, LookOK
<1>2. BurnOnly(a)
  BY Types DEF BurnOnly
<1>3. AttemptOK(a) /\ journal[a] \in Attempt /\ burn[a] \in Burn
  BY Types DEF IInv
<1>4. CASE look[s].verdict = "burned"
  <2> DEFINE d == [journal[a] EXCEPT !.phase = "burned", !.hash = look[s].tx]
  <2>1. look[s].tx \in OnChain /\ look[s].tx \in Attempts
    BY <1>1, <1>4 DEF OnChain
  <2>2. /\ d \in Attempt /\ d.phase = "burned" /\ d.hash = look[s].tx
        /\ d.pair = journal[a].pair /\ d.side = journal[a].side
    BY <1>3, <2>1 DEF Attempt
  <2>3. journal' = [journal EXCEPT ![a] = d]
    BY <1>4 DEF Applied
  <2> HIDE DEF d
  <2>4. JournalOnly(a) /\ journal'[a] = d
    BY <2>2, <2>3, JournalPut
  <2> QED BY <1>2, <1>3, <2>1, <2>2, <2>4, AttemptMoves DEF AttemptOK
<1>5. CASE look[s].verdict = "not-sent"
  <2>1. journal' = Patched(a, "released")
    BY <1>5 DEF Applied
  <2>2. /\ JournalOnly(a) /\ journal'[a].phase = "released"
        /\ journal'[a].pair = journal[a].pair /\ journal'[a].side = journal[a].side
        /\ journal'[a].hash = journal[a].hash
    BY <2>1, PhasePut
  <2>3. Gone(a)'
    BY <1>1, <1>5 DEF Gone, Live
  <2> QED BY <1>2, <1>3, <2>2, <2>3, AttemptMoves DEF AttemptOK
<1>6. CASE look[s].verdict \notin {"burned", "not-sent"}
  BY <1>6, SameKept DEF Applied
<1> QED BY <1>4, <1>5, <1>6

LEMMA CheckSettledStep ==
  ASSUME IInv, NEW c \in Checkers, CheckSettled(c)
  PROVE  IInv'
<1>1. /\ look[c].pc = "done" /\ journal' = Applied(c)
      /\ look' = [look EXCEPT ![c] = IdleLook] /\ UNCHANGED <<locks, run, burn>>
  BY DEF CheckSettled
<1>2. c \in Settlers /\ c \notin Runs
  BY SolanaAssumption DEF Settlers
<1>3. Kept
  BY <1>1, <1>2, AppliedOK
<1>4. /\ look' \in [Settlers -> Look] /\ look'[c] = IdleLook
      /\ \A t \in Settlers \ {c} : look'[t] = look[t]
  BY <1>1, <1>2, Types, Idles, Put
<1>5. LookOK(c)'
  BY <1>4, Idles DEF LookOK
<1>6. \A t \in Settlers : LookOK(t)'
  BY <1>3, <1>4, <1>5, LookStays
<1>7. \A u \in Runs : look'[u].rec = look[u].rec
  BY <1>2, <1>4 DEF Settlers
<1>8. \A u \in Runs : RunOK(u)'
  BY <1>1, <1>3, <1>7, RunStays
<1>9. TypeOK'
  BY <1>1, <1>3, <1>4, Types DEF TypeOK, Kept
<1> QED BY <1>3, <1>6, <1>8, <1>9 DEF IInv, Kept

-----------------------------------------------------------------------------
(***************************************************************************)
(* The steps of a page.                                                    *)
(***************************************************************************)
LEMMA RunPut ==
  ASSUME IInv, NEW u \in Runs, NEW e \in Run, run' = [run EXCEPT ![u] = e]
  PROVE  /\ run' \in [Runs -> Run] /\ run'[u] = e
         /\ \A v \in Runs \ {u} : run'[v] = run[v]
  BY Types, Put

\* The page takes locks that nobody has.
LEMMA Locked ==
  ASSUME IInv, NEW u \in Runs, NEW pair \in Pairs, Free(pair), Taken(u, pair)
  PROVE  /\ locks' \in [Wallets -> Runs \cup {None}]
         /\ locks'[pair[1]] = u /\ locks'[pair[2]] = u
         /\ \A v \in Runs \ {u}, w \in Wallets : locks[w] = v => locks'[w] = v
<1>1. pair[1] \in Wallets /\ pair[2] \in Wallets
  BY DEF Wallets
<1> QED BY <1>1, Types, SolanaAssumption DEF Free, Taken

\* Stale "prepared" attempts have asked for nothing.
LEMMA WithoutPreparedOK ==
  ASSUME IInv, NEW pair \in Pairs, journal' = WithoutPrepared(pair), UNCHANGED burn
  PROVE  Kept /\ \A a \in Attempts : isBlocking(a) \/ isBlocking(a)' => journal'[a] = journal[a]
<1>1. Landed' = Landed /\ OnChain' = OnChain
  BY DEF Landed, OnChain
<1>2. IsFiniteSet(Landed')
  BY <1>1, Types
<1>3. ASSUME NEW a \in Attempts
      PROVE  /\ journal'[a] \in Attempt /\ AttemptOK(a)' /\ Advances(a)
             /\ isBlocking(a) \/ isBlocking(a)' => journal'[a] = journal[a]
  <2> DEFINE d == [journal[a] EXCEPT !.phase = "released"]
  <2>1. journal[a] \in Attempt
    BY Types
  <2>2. CASE journal'[a] = journal[a]
    BY <1>1, <1>2, <2>1, <2>2, AttemptStays
  <2>3. CASE journal[a].phase = "prepared" /\ journal'[a] = d
    <3>1. /\ d \in Attempt /\ d.phase = "released" /\ d.pair = journal[a].pair
          /\ d.side = journal[a].side
          /\ d.hash = journal[a].hash
      BY <2>1 DEF Attempt
    <3>2. AttemptOK(a)
      BY DEF IInv
    <3>3. burn[a].status = "none" /\ ~Live(a)'
      BY <2>3, <3>2 DEF AttemptOK, Live
    <3> HIDE DEF d
    <3>4. AttemptOK(a)'
      BY <1>1, <2>3, <3>1, <3>2, <3>3 DEF AttemptOK, Known
    <3>5. Advances(a)
      BY <1>1, <2>3, <3>1, <3>3 DEF Advances, Known, Dead, Gone, Live
    <3> QED BY <2>3, <3>1, <3>4, <3>5 DEF isBlocking, BLOCKING
  <2> QED BY <2>2, <2>3 DEF WithoutPrepared
<1>4. journal' \in [Attempts -> Attempt]
  BY <1>3 DEF WithoutPrepared
<1> QED BY <1>2, <1>3, <1>4, Types DEF Kept

LEMMA StartStep ==
  ASSUME IInv, NEW u \in Runs, NEW pair \in Pairs, Start(u, pair)
  PROVE  IInv'
<1>1. /\ Free(pair) /\ Taken(u, pair) /\ run[u].pc = "idle"
      /\ journal' = WithoutPrepared(pair) /\ UNCHANGED burn
  BY DEF Start, Enter
<1>2. Kept
  BY <1>1, WithoutPreparedOK
<1>3. /\ locks' \in [Wallets -> Runs \cup {None}]
      /\ locks'[pair[1]] = u /\ locks'[pair[2]] = u
      /\ \A v \in Runs \ {u}, w \in Wallets : locks[w] = v => locks'[w] = v
  BY <1>1, Locked
<1>4. u \in Settlers
  BY DEF Settlers
<1> DEFINE ready == [IdleRun EXCEPT !.pc = "ready", !.pair = pair]
           open == [IdleRun EXCEPT !.pc = "open", !.pair = pair]
<1>5. /\ ready \in Run /\ ready.pc = "ready" /\ ready.pair = pair
      /\ open \in Run /\ open.pc = "open" /\ open.pair = pair
  BY Idles DEF IdleRun, Run
<1>6. \/ run' = [run EXCEPT ![u] = ready] /\ UNCHANGED look
      \/ \E a \in Open(pair) : run' = [run EXCEPT ![u] = open] /\ LookAt(u, a)
  BY DEF Start, Enter
<1> HIDE DEF ready, open
<1>7. CASE run' = [run EXCEPT ![u] = ready] /\ UNCHANGED look
  <2>1. /\ run' \in [Runs -> Run] /\ run'[u] = ready
        /\ \A v \in Runs \ {u} : run'[v] = run[v]
    BY <1>5, <1>7, RunPut
  <2>2. RunOK(u)'
    BY <1>3, <1>5, <2>1 DEF RunOK, Working, Holds
  <2>3. LookOK(u)' /\ look' \in [Settlers -> Look]
    BY <1>2, <1>4, <1>7, LookStays, Types
  <2> QED BY <1>1, <1>2, <1>3, <1>7, <2>1, <2>2, <2>3, PageStep
<1>8. ASSUME NEW a \in Open(pair), run' = [run EXCEPT ![u] = open], LookAt(u, a)
      PROVE  IInv'
  <2>1. /\ run' \in [Runs -> Run] /\ run'[u] = open
        /\ \A v \in Runs \ {u} : run'[v] = run[v]
    BY <1>5, <1>8, RunPut
  <2>2. a \in Attempts /\ isBlocking(a)
    BY DEF Open
  <2>3. LookOK(u)' /\ look' \in [Settlers -> Look]
        /\ \A t \in Settlers \ {u} : look'[t] = look[t]
    BY <1>2, <1>4, <1>8, <2>2, Looks, LooksOK
  <2>4. RunOK(u)'
    BY <1>3, <1>5, <2>1 DEF RunOK, Working, Holds
  <2> QED BY <1>1, <1>2, <1>3, <2>1, <2>3, <2>4, PageStep
<1> QED BY <1>6, <1>7, <1>8

LEMMA ReviewStep ==
  ASSUME IInv, NEW u \in Runs, NEW a \in Attempts, Review(u, a)
  PROVE  IInv'
<1> DEFINE e == [IdleRun EXCEPT !.pc = "review", !.rec = a]
<1>1. /\ isBlocking(a) /\ Free(journal[a].pair) /\ Taken(u, journal[a].pair)
      /\ run' = [run EXCEPT ![u] = e] /\ LookAt(u, a) /\ UNCHANGED <<journal, burn>>
  BY DEF Review
<1>2. Kept
  BY <1>1, SameKept
<1>3. Known(a) /\ burn[a].status # "none" /\ journal[a].pair \in Pairs /\ u \in Settlers
  BY <1>1 DEF IInv, AttemptOK, isBlocking, BLOCKING, Known, Settlers
<1>4. /\ locks' \in [Wallets -> Runs \cup {None}]
      /\ locks'[journal[a].pair[1]] = u /\ locks'[journal[a].pair[2]] = u
      /\ \A v \in Runs \ {u}, w \in Wallets : locks[w] = v => locks'[w] = v
  BY <1>1, <1>3, Locked
<1>5. e \in Run /\ e.pc = "review" /\ e.rec = a
  BY Idles DEF IdleRun, Run
<1> HIDE DEF e
<1>6. /\ run' \in [Runs -> Run] /\ run'[u] = e
      /\ \A v \in Runs \ {u} : run'[v] = run[v]
  BY <1>1, <1>5, RunPut
<1>7. /\ LookOK(u)' /\ look' \in [Settlers -> Look] /\ look'[u].rec = a
      /\ \A t \in Settlers \ {u} : look'[t] = look[t]
  BY <1>1, <1>2, <1>3, Looks, LooksOK
<1>8. RunOK(u)'
  BY <1>1, <1>3, <1>4, <1>5, <1>6, <1>7 DEF RunOK, Working, Holds, Known
<1> QED BY <1>1, <1>2, <1>4, <1>6, <1>7, <1>8, PageStep

\* A step of a transfer at work on its own attempt, under the locks it has.
LEMMA Works ==
  ASSUME IInv, Kept, NEW u \in Runs, run[u].pc \in Working,
         NEW pc \in Working, NEW e \in Run, run' = [run EXCEPT ![u] = e],
         e.pc = pc, e.rec = run[u].rec, e.pair = run[u].pair,
         BurnOnly(run[u].rec), UNCHANGED <<locks, look>>,
         pc \in {"prompt", "submit", "after"},
         burn'[run[u].rec].status # "none",
         pc = "submit" => burn'[run[u].rec].status = "signed"
  PROVE  IInv'
<1> PICK a \in Attempts : /\ a = run[u].rec /\ Known(a) /\ Holds(u, journal[a].pair)
                          /\ journal[a].pair = run[u].pair
                          /\ run[u].pair \in Pairs
  BY DEF IInv, RunOK
<1>1. /\ run' \in [Runs -> Run] /\ run'[u] = e
      /\ \A v \in Runs \ {u} : run'[v] = run[v]
  BY RunPut
<1>2. Known(a)' /\ journal'[a].pair = journal[a].pair /\ journal'[a].side = journal[a].side
  BY DEF Kept, Advances
<1>3. RunOK(u)'
  BY <1>1, <1>2 DEF RunOK, Working, Holds, Known
<1>4. u \in Settlers
  BY DEF Settlers
<1>5. LookOK(u)'
  BY <1>4, LookStays
<1>6. \A v \in Runs \ {u} : run[v].pc \in {"kit", "submit"} =>
        burn'[run[v].rec].status = burn[run[v].rec].status
  BY OthersKeep
<1> QED BY <1>1, <1>3, <1>5, <1>6, Types, PageStep

\* The record of the page that moves, with its new place.
LEMMA RunMoved ==
  ASSUME IInv, NEW u \in Runs, NEW pc \in Working
  PROVE  LET e == [run[u] EXCEPT !.pc = pc]
         IN  /\ e \in Run /\ e.pc = pc /\ e.rec = run[u].rec /\ e.pair = run[u].pair
<1>1. run[u] \in Run
  BY Types
<1> QED BY <1>1 DEF Run, Working

LEMMA CreateStep ==
  ASSUME IInv, NEW u \in Runs, NEW a \in Attempts, NEW side \in Sides, Create(u, a, side)
  PROVE  IInv'
<1>1. /\ run[u].pc = "ready" /\ ~Known(a) /\ UNCHANGED <<locks, look, burn>>
      /\ run' = [run EXCEPT ![u].pc = "kit", ![u].rec = a]
  BY DEF Create
<1> DEFINE new(from) == [NoAttempt EXCEPT !.phase = "prepared",
                           !.pair = run[u].pair, !.side = side, !.from = from]
<1>2. PICK from \in Horizon("arc") \cup {0} : journal' = [journal EXCEPT ![a] = new(from)]
  <2>1. PICK from \in IF side = "arc" THEN Horizon("arc") ELSE {0} :
          journal' = [journal EXCEPT ![a] = new(from)]
    BY Zenon DEF Create
  <2> HIDE DEF new
  <2>2. from \in Horizon("arc") \cup {0}
    OBVIOUS
  <2> QED BY <2>1, <2>2
<1> DEFINE d == new(from)
           e == [run[u] EXCEPT !.pc = "kit", !.rec = a]
<1>3. run[u].pair \in Pairs /\ Holds(u, run[u].pair)
  BY <1>1 DEF IInv, RunOK
<1>4. from \in Nat
  BY LandedSize, Types
<1>5. /\ d \in Attempt /\ d.phase = "prepared" /\ d.pair = run[u].pair
      /\ d.side = side /\ d.from = from /\ d.hash = None
  BY <1>3, <1>4 DEF NoAttempt, Attempt
<1>6. /\ e \in Run /\ e.pc = "kit" /\ e.rec = a /\ e.pair = run[u].pair
  BY Types DEF Run
<1>7. journal' = [journal EXCEPT ![a] = d] /\ run' = [run EXCEPT ![u] = e]
  BY <1>1, <1>2
<1> HIDE DEF d, e
<1>8. JournalOnly(a) /\ journal'[a] = d
  BY <1>5, <1>7, JournalPut
<1>9. BurnOnly(a) /\ burn[a].status = "none"
  BY <1>1, Types DEF BurnOnly, IInv, AttemptOK, Known
<1>10. Kept
  BY <1>1, <1>3, <1>4, <1>5, <1>8, <1>9, AttemptMoves
<1>11. /\ run' \in [Runs -> Run] /\ run'[u] = e
       /\ \A v \in Runs \ {u} : run'[v] = run[v]
  BY <1>6, <1>7, RunPut
<1>12. RunOK(u)'
  BY <1>1, <1>3, <1>5, <1>6, <1>8, <1>9, <1>11 DEF RunOK, Working, Holds, Known
<1>13. LookOK(u)' /\ look' \in [Settlers -> Look]
  BY <1>1, <1>10, LookStays, Types DEF Settlers
<1> QED BY <1>1, <1>10, <1>11, <1>12, <1>13, Types, PageStep

LEMMA CreateFailsStep ==
  ASSUME IInv, NEW u \in Runs, CreateFails(u)
  PROVE  IInv'
  BY SameKept, Ends DEF CreateFails

LEMMA KitFailsStep ==
  ASSUME IInv, NEW u \in Runs, KitFails(u)
  PROVE  IInv'
<1>1. /\ run[u].pc = "kit" /\ journal' = Patched(run[u].rec, "released") /\ Finish(u)
      /\ UNCHANGED burn
  BY DEF KitFails
<1> PICK a \in Attempts : a = run[u].rec /\ Known(a) /\ burn[a].status = "none"
  BY <1>1 DEF IInv, RunOK, Working
<1>2. /\ JournalOnly(a) /\ journal'[a].phase = "released"
      /\ journal'[a].pair = journal[a].pair /\ journal'[a].side = journal[a].side
      /\ journal'[a].hash = journal[a].hash
  BY <1>1, PhasePut
<1>3. AttemptOK(a) /\ BurnOnly(a)
  BY <1>1, Types DEF IInv, BurnOnly
<1>4. Kept
  BY <1>1, <1>2, <1>3, AttemptMoves DEF AttemptOK
<1> QED BY <1>1, <1>4, Ends

LEMMA RequestBurnStep ==
  ASSUME IInv, NEW u \in Runs, RequestBurn(u)
  PROVE  IInv'
<1>1. run[u].pc = "kit" /\ UNCHANGED <<locks, look>>
  BY DEF RequestBurn
<1> PICK a \in Attempts : a = run[u].rec /\ Known(a) /\ burn[a].status = "none"
  BY <1>1 DEF IInv, RunOK, Working
<1> DEFINE e == [run[u] EXCEPT !.pc = "prompt"]
<1>2. Became(a, "prompt") /\ run' = [run EXCEPT ![u] = e]
  BY DEF RequestBurn
<1>3. PICK from \in Horizon("sol") \cup {journal[a].from} :
        journal' = [journal EXCEPT ![a].phase = "signing", ![a].from = from]
  BY DEF RequestBurn
<1> DEFINE d == [journal[a] EXCEPT !.phase = "signing", !.from = from]
<1>4. AttemptOK(a) /\ journal[a] \in Attempt /\ journal \in [Attempts -> Attempt]
  BY Types DEF IInv
<1>5. from \in Nat
  BY <1>4, LandedSize, Types DEF Attempt
<1>6. /\ d \in Attempt /\ d.phase = "signing" /\ d.pair = journal[a].pair
      /\ d.side = journal[a].side /\ d.from = from /\ d.hash = journal[a].hash
  BY <1>4, <1>5 DEF Attempt, BLOCKING
<1>7. journal' = [journal EXCEPT ![a] = d]
  BY <1>3, <1>4
<1> HIDE DEF d
<1>8. JournalOnly(a) /\ journal'[a] = d
  BY <1>6, <1>7, JournalPut
<1>9. /\ BurnOnly(a) /\ burn'[a].status = "prompt"
      /\ burn'[a].expired = burn[a].expired /\ burn'[a].at = burn[a].at
  BY <1>2, BurnPut DEF Unsent
<1>10. Kept
  BY <1>4, <1>5, <1>6, <1>8, <1>9, AttemptMoves DEF AttemptOK, BLOCKING, Unsent
<1>11. /\ e \in Run /\ e.pc = "prompt" /\ e.rec = run[u].rec /\ e.pair = run[u].pair
  BY RunMoved DEF Working
<1> HIDE DEF e
<1> QED BY <1>1, <1>2, <1>9, <1>10, <1>11, Works DEF Working

\* The wallet's answers: the request changes as said, the journal may not be saved.
LEMMA WalletRejectsStep ==
  ASSUME IInv, NEW u \in Runs, WalletRejects(u)
  PROVE  IInv'
<1>1. /\ run[u].pc = "prompt" /\ Became(run[u].rec, "rejected")
      /\ burn[run[u].rec].status = "prompt" /\ Saved(Patched(run[u].rec, "released"))
      /\ After(u) /\ UNCHANGED <<locks, look>>
  BY DEF WalletRejects
<1> PICK a \in Attempts : a = run[u].rec /\ Known(a)
  BY <1>1 DEF IInv, RunOK, Working
<1>2. /\ BurnOnly(a) /\ burn'[a].status = "rejected"
      /\ burn'[a].expired = burn[a].expired /\ burn'[a].at = burn[a].at
  BY <1>1, BurnPut DEF Failed
<1>3. AttemptOK(a)
  BY DEF IInv
<1>4. /\ JournalOnly(a) /\ journal'[a].phase \in {journal[a].phase, "released"}
      /\ journal'[a].pair = journal[a].pair /\ journal'[a].side = journal[a].side
      /\ journal'[a].hash = journal[a].hash
  <2>1. CASE journal' = journal
    BY <2>1, Types DEF JournalOnly
  <2>2. CASE journal' = Patched(a, "released")
    BY <2>2, PhasePut
  <2> QED BY <1>1, <2>1, <2>2 DEF Saved
<1>5. Gone(a)'
  BY <1>2 DEF Gone, Live
<1>6. Kept
  BY <1>1, <1>2, <1>3, <1>4, <1>5, AttemptMoves DEF AttemptOK, Known, Failed
<1> DEFINE e == [run[u] EXCEPT !.pc = "after"]
<1>7. /\ e \in Run /\ e.pc = "after" /\ e.rec = run[u].rec /\ e.pair = run[u].pair
  BY RunMoved DEF Working
<1>8. run' = [run EXCEPT ![u] = e]
  BY <1>1 DEF After
<1> HIDE DEF e
<1> QED BY <1>1, <1>2, <1>6, <1>7, <1>8, Works DEF Working

LEMMA WalletErrorsStep ==
  ASSUME IInv, NEW u \in Runs, WalletErrors(u)
  PROVE  IInv'
<1>1. /\ run[u].pc = "prompt" /\ Saved(Patched(run[u].rec, "unknown"))
      /\ After(u) /\ UNCHANGED <<locks, look>>
  BY DEF WalletErrors
<1> PICK a \in Attempts : a = run[u].rec /\ Known(a) /\ burn[a].status # "none"
  BY <1>1 DEF IInv, RunOK, Working
<1>2. AttemptOK(a) /\ burn[a] \in Burn /\ burn \in [Attempts -> Burn]
  BY Types DEF IInv
<1>3. /\ BurnOnly(a) /\ burn'[a].expired = burn[a].expired /\ burn'[a].at = burn[a].at
      /\ \/ burn'[a].status = burn[a].status
         \/ burn[a].status = "prompt" /\ burn'[a].status = "limbo"
  <2>1. CASE burn[a].status = "prompt"
    <3>1. Became(a, "limbo")
      BY <2>1 DEF WalletErrors, Became
    <3> QED BY <2>1, <3>1, BurnPut DEF Unsent
  <2>2. CASE burn[a].status # "prompt"
    <3>1. [burn[a] EXCEPT !.status = burn[a].status] = burn[a]
      BY <1>2 DEF Burn
    <3>2. burn' = [burn EXCEPT ![a] = [burn[a] EXCEPT !.status = burn[a].status]]
      BY <2>2 DEF WalletErrors, Became
    <3>3. burn' = burn
      BY <1>2, <3>1, <3>2
    <3> QED BY <1>2, <3>3 DEF BurnOnly
  <2> QED BY <2>1, <2>2
<1>4. /\ JournalOnly(a) /\ journal'[a].phase \in {journal[a].phase, "unknown"}
      /\ journal'[a].pair = journal[a].pair /\ journal'[a].side = journal[a].side
      /\ journal'[a].hash = journal[a].hash
      /\ journal'[a].manuallyReleased = journal[a].manuallyReleased
  <2>1. CASE journal' = journal
    BY <2>1, Types DEF JournalOnly
  <2>2. CASE journal' = Patched(a, "unknown")
    BY <2>2, PhasePut DEF BLOCKING
  <2> QED BY <1>1, <2>1, <2>2 DEF Saved
<1>5. \/ journal'[a].phase \in BLOCKING \cup {"burned"} \/ journal'[a].manuallyReleased
      \/ Gone(a)'
  BY <1>2, <1>3, <1>4 DEF AttemptOK, isBlocking, BLOCKING, Gone, Live
<1>6. Kept
  BY <1>2, <1>3, <1>4, <1>5, AttemptMoves DEF AttemptOK, Known, Unsent
<1> DEFINE e == [run[u] EXCEPT !.pc = "after"]
<1>7. /\ e \in Run /\ e.pc = "after" /\ e.rec = run[u].rec /\ e.pair = run[u].pair
  BY RunMoved DEF Working
<1>8. run' = [run EXCEPT ![u] = e]
  BY <1>1 DEF After
<1> HIDE DEF e
<1> QED BY <1>1, <1>3, <1>6, <1>7, <1>8, Works DEF Working

\* What blocks is kept while nothing is known of its burn.
LEMMA StillKept ==
  ASSUME IInv, NEW a \in Attempts, burn[a].status # "none"
  PROVE  \/ journal[a].phase \in BLOCKING \cup {"burned"} \/ journal[a].manuallyReleased
         \/ Gone(a)
  BY DEF IInv, AttemptOK, isBlocking, Gone

\* The answer is a hash, which makes the attempt its own again, or it is not one.
LEMMA EvmAnswersStep ==
  ASSUME IInv, NEW u \in Runs, EvmAnswers(u)
  PROVE  IInv'
<1>1. run[u].pc = "prompt" /\ After(u) /\ UNCHANGED <<locks, look, burn>>
  BY DEF EvmAnswers
<1> PICK a \in Attempts : a = run[u].rec /\ Known(a) /\ burn[a].status # "none"
  BY <1>1 DEF IInv, RunOK, Working
<1> DEFINE d == [journal[a] EXCEPT !.phase = "sent", !.hash = a]
<1>2. AttemptOK(a) /\ journal[a] \in Attempt /\ journal \in [Attempts -> Attempt]
  BY Types DEF IInv
<1>3. BurnOnly(a) /\ burn'[a] = burn[a]
  BY <1>1, Types DEF BurnOnly
<1>4. Kept
  <2>1. CASE journal' = journal
    BY <1>1, <2>1, SameKept
  <2>2. CASE journal' = [journal EXCEPT ![a].phase = "sent", ![a].hash = a]
    <3>1. /\ d \in Attempt /\ d.phase = "sent" /\ d.pair = journal[a].pair
          /\ d.side = journal[a].side /\ d.hash = a
      BY <1>2 DEF Attempt, BLOCKING
    <3>2. journal' = [journal EXCEPT ![a] = d]
      BY <1>2, <2>2
    <3> HIDE DEF d
    <3>3. JournalOnly(a) /\ journal'[a] = d
      BY <3>1, <3>2, JournalPut
    <3> QED BY <1>2, <1>3, <3>1, <3>3, AttemptMoves DEF AttemptOK, BLOCKING
  <2>3. CASE journal' = Patched(a, "unknown")
    <3>1. /\ JournalOnly(a) /\ journal'[a].phase = "unknown"
          /\ journal'[a].pair = journal[a].pair /\ journal'[a].side = journal[a].side
          /\ journal'[a].hash = journal[a].hash
      BY <2>3, PhasePut DEF BLOCKING
    <3> QED BY <1>2, <1>3, <3>1, AttemptMoves DEF AttemptOK, BLOCKING
  <2> QED BY <2>1, <2>2, <2>3 DEF EvmAnswers, Saved
<1> DEFINE e == [run[u] EXCEPT !.pc = "after"]
<1>5. /\ e \in Run /\ e.pc = "after" /\ e.rec = run[u].rec /\ e.pair = run[u].pair
  BY RunMoved DEF Working
<1>6. run' = [run EXCEPT ![u] = e]
  BY <1>1 DEF After
<1> HIDE DEF e
<1> QED BY <1>1, <1>3, <1>4, <1>5, <1>6, Works DEF Working

\* A signed burn is as alive as the request for it was.
LEMMA SolanaSignsStep ==
  ASSUME IInv, NEW u \in Runs, SolanaSigns(u)
  PROVE  IInv'
<1>1. /\ run[u].pc = "prompt" /\ burn[run[u].rec].status = "prompt"
      /\ Became(run[u].rec, "signed") /\ UNCHANGED <<locks, look>>
  BY DEF SolanaSigns
<1> PICK a \in Attempts : a = run[u].rec /\ Known(a)
  BY <1>1 DEF IInv, RunOK, Working
<1>2. AttemptOK(a) /\ journal[a] \in Attempt /\ journal \in [Attempts -> Attempt]
  BY Types DEF IInv
<1>3. /\ BurnOnly(a) /\ burn'[a].status = "signed"
      /\ burn'[a].expired = burn[a].expired /\ burn'[a].at = burn[a].at
  BY <1>1, BurnPut DEF Unsent
<1> DEFINE submit == [run[u] EXCEPT !.pc = "submit"]
           after == [run[u] EXCEPT !.pc = "after"]
<1>4. /\ submit \in Run /\ submit.pc = "submit" /\ submit.rec = run[u].rec
      /\ submit.pair = run[u].pair
      /\ after \in Run /\ after.pc = "after" /\ after.rec = run[u].rec
      /\ after.pair = run[u].pair
  BY RunMoved DEF Working
<1>5. Kept
  <2>1. CASE journal' = [journal EXCEPT ![a].phase = "signed", ![a].signature = TRUE]
    <3> DEFINE yes == TRUE
               d == [journal[a] EXCEPT !.phase = "signed", !.signature = yes]
    <3>1. yes \in BOOLEAN /\ journal' = [journal EXCEPT ![a] = d]
      BY <1>2, <2>1
    <3> HIDE DEF yes
    <3>2. /\ d \in Attempt /\ d.phase = "signed" /\ d.pair = journal[a].pair
          /\ d.side = journal[a].side /\ d.hash = journal[a].hash
      BY <1>2, <3>1 DEF Attempt, BLOCKING
    <3> HIDE DEF d
    <3>3. JournalOnly(a) /\ journal'[a] = d
      BY <3>1, <3>2, JournalPut
    <3> QED BY <1>1, <1>2, <1>3, <3>2, <3>3, AttemptMoves DEF AttemptOK, BLOCKING, Unsent
  <2>2. CASE UNCHANGED journal
    <3>1. JournalOnly(a)
      BY <1>2, <2>2 DEF JournalOnly
    <3>2. \/ journal[a].phase \in BLOCKING \cup {"burned"} \/ journal[a].manuallyReleased
          \/ Gone(a)
      BY <1>1, StillKept
    <3>3. Gone(a) => Gone(a)'
      BY <1>1, <1>3 DEF Gone, Live
    <3> QED BY <1>1, <1>2, <1>3, <2>2, <3>1, <3>2, <3>3, AttemptMoves DEF AttemptOK, Known, Unsent
  <2> QED BY <2>1, <2>2 DEF SolanaSigns
<1>6. run' = [run EXCEPT ![u] = submit] \/ run' = [run EXCEPT ![u] = after]
  BY DEF SolanaSigns, After
<1> HIDE DEF submit, after
<1> QED BY <1>1, <1>3, <1>4, <1>5, <1>6, Works DEF Working

LEMMA SubmitStep ==
  ASSUME IInv, NEW u \in Runs, Submit(u)
  PROVE  IInv'
<1>1. run[u].pc = "submit" /\ After(u) /\ UNCHANGED <<journal, locks, look>>
  BY DEF Submit
<1> PICK a \in Attempts : a = run[u].rec /\ Known(a) /\ burn[a].status = "signed"
  BY <1>1 DEF IInv, RunOK, Working
<1>2. AttemptOK(a) /\ JournalOnly(a)
  BY <1>1, Types DEF IInv, JournalOnly
<1>3. /\ BurnOnly(a) /\ burn'[a].status \in {"signed", "pending"}
      /\ burn'[a].expired = burn[a].expired /\ burn'[a].at = burn[a].at
  <2>1. CASE Became(a, "pending")
    BY <2>1, BurnPut DEF Unsent
  <2>2. CASE UNCHANGED burn
    BY <2>2, Types DEF BurnOnly
  <2> QED BY <2>1, <2>2 DEF Submit
<1>4. \/ journal[a].phase \in BLOCKING \cup {"burned"} \/ journal[a].manuallyReleased
      \/ Gone(a)
  BY StillKept
<1>5. Gone(a) => Gone(a)'
  BY <1>3 DEF Gone, Live
<1>6. Kept
  BY <1>1, <1>2, <1>3, <1>4, <1>5, AttemptMoves DEF AttemptOK, Known, Unsent
<1> DEFINE e == [run[u] EXCEPT !.pc = "after"]
<1>7. /\ e \in Run /\ e.pc = "after" /\ e.rec = run[u].rec /\ e.pair = run[u].pair
  BY RunMoved DEF Working
<1>8. run' = [run EXCEPT ![u] = e]
  BY <1>1 DEF After
<1> HIDE DEF e
<1> QED BY <1>1, <1>3, <1>6, <1>7, <1>8, Works DEF Working

LEMMA FinallyStep ==
  ASSUME IInv, NEW u \in Runs, Finally(u)
  PROVE  IInv'
<1>1. run[u].pc = "after" /\ UNCHANGED <<journal, burn>>
  BY DEF Finally
<1> PICK a \in Attempts : /\ a = run[u].rec /\ Known(a) /\ Holds(u, journal[a].pair)
                          /\ journal[a].pair = run[u].pair
                          /\ run[u].pair \in Pairs
                          /\ burn[a].status # "none"
  BY <1>1 DEF IInv, RunOK, Working
<1>2. Kept
  BY <1>1, SameKept
<1>3. CASE Finish(u)
  BY <1>1, <1>2, <1>3, Ends
<1> DEFINE e == [run[u] EXCEPT !.pc = "final"]
<1>4. CASE isBlocking(a) /\ run' = [run EXCEPT ![u] = e] /\ LookAt(u, a) /\ UNCHANGED locks
  <2>1. /\ e \in Run /\ e.pc = "final" /\ e.rec = run[u].rec /\ e.pair = run[u].pair
    BY RunMoved DEF Working
  <2> HIDE DEF e
  <2>2. /\ run' \in [Runs -> Run] /\ run'[u] = e
        /\ \A v \in Runs \ {u} : run'[v] = run[v]
    BY <1>4, <2>1, RunPut
  <2>3. /\ LookOK(u)' /\ look' \in [Settlers -> Look] /\ look'[u].rec = a
        /\ \A t \in Settlers \ {u} : look'[t] = look[t]
    BY <1>2, <1>4, Looks, LooksOK DEF Settlers
  <2>4. RunOK(u)'
    BY <1>1, <1>4, <2>1, <2>2, <2>3 DEF RunOK, Working, Holds, Known
  <2> QED BY <1>1, <1>2, <1>4, <2>2, <2>3, <2>4, Types, PageStep
<1> QED BY <1>3, <1>4 DEF Finally

LEMMA TabClosesStep ==
  ASSUME IInv, NEW u \in Runs, TabCloses(u)
  PROVE  IInv'
<1>1. Finish(u) /\ UNCHANGED journal
  BY DEF TabCloses
<1>2. CASE UNCHANGED burn
  BY <1>1, <1>2, SameKept, Ends
<1>3. CASE /\ run[u].pc = "prompt" /\ burn[run[u].rec].status = "prompt"
           /\ Became(run[u].rec, "limbo")
  <2> PICK a \in Attempts : a = run[u].rec /\ Known(a)
    BY <1>3 DEF IInv, RunOK, Working
  <2>1. /\ BurnOnly(a) /\ burn'[a].status = "limbo"
        /\ burn'[a].expired = burn[a].expired /\ burn'[a].at = burn[a].at
    BY <1>3, BurnPut DEF Unsent
  <2>2. AttemptOK(a) /\ JournalOnly(a)
    BY <1>1, Types DEF IInv, JournalOnly
  <2>3. \/ journal[a].phase \in BLOCKING \cup {"burned"} \/ journal[a].manuallyReleased
        \/ Gone(a)
    BY <1>3, StillKept
  <2>4. Gone(a) => Gone(a)'
    BY <1>3, <2>1 DEF Gone, Live
  <2>5. Kept
    BY <1>1, <1>3, <2>1, <2>2, <2>3, <2>4, AttemptMoves DEF AttemptOK, Known, Unsent
  <2>6. \A v \in Runs \ {u} : run[v].pc \in {"kit", "submit"} =>
          burn'[run[v].rec].status = burn[run[v].rec].status
    BY <1>3, <2>1, OthersKeep DEF Working
  <2> QED BY <1>1, <2>5, <2>6, Ends
<1> QED BY <1>2, <1>3 DEF TabCloses

LEMMA OpenSettledStep ==
  ASSUME IInv, NEW u \in Runs, OpenSettled(u)
  PROVE  IInv'
<1>1. /\ run[u].pc = "open" /\ look[u].pc = "done" /\ journal' = Applied(u)
      /\ UNCHANGED burn
  BY DEF OpenSettled
<1>2. u \in Settlers
  BY DEF Settlers
<1>3. Kept
  BY <1>1, <1>2, AppliedOK
<1>4. CASE Finish(u)
  BY <1>1, <1>3, <1>4, Ends
<1> DEFINE e == [run[u] EXCEPT !.pc = "ready"]
<1>5. CASE /\ run' = [run EXCEPT ![u] = e] /\ look' = [look EXCEPT ![u] = IdleLook]
           /\ UNCHANGED locks
  <2>1. /\ run[u] \in Run /\ run[u].pair \in Pairs
        /\ Holds(u, run[u].pair)
    BY <1>1, Types DEF IInv, RunOK
  <2>2. e \in Run /\ e.pc = "ready" /\ e.pair = run[u].pair
    BY <2>1 DEF Run
  <2> HIDE DEF e
  <2>3. /\ run' \in [Runs -> Run] /\ run'[u] = e
        /\ \A v \in Runs \ {u} : run'[v] = run[v]
    BY <1>5, <2>2, RunPut
  <2>4. /\ look' \in [Settlers -> Look] /\ look'[u] = IdleLook
        /\ \A t \in Settlers \ {u} : look'[t] = look[t]
    BY <1>2, <1>5, Types, Idles, Put
  <2>5. LookOK(u)'
    BY <2>4, Idles DEF LookOK
  <2>6. RunOK(u)'
    BY <1>5, <2>1, <2>2, <2>3 DEF RunOK, Working, Holds
  <2> QED BY <1>1, <1>3, <1>5, <2>3, <2>4, <2>5, <2>6, Types, PageStep
<1> QED BY <1>4, <1>5 DEF OpenSettled

LEMMA FinalSettledStep ==
  ASSUME IInv, NEW u \in Runs, FinalSettled(u)
  PROVE  IInv'
  BY AppliedOK, Ends DEF FinalSettled, Settlers

\* The user releases what still blocks and is not found.
LEMMA ReviewSettledStep ==
  ASSUME IInv, NEW u \in Runs, ReviewSettled(u)
  PROVE  IInv'
<1>1. /\ run[u].pc = "review" /\ look[u].pc = "done" /\ Finish(u) /\ UNCHANGED burn
  BY DEF ReviewSettled
<1> PICK a \in Attempts : a = run[u].rec /\ Known(a) /\ burn[a].status # "none"
  BY <1>1 DEF IInv, RunOK, Working
<1> DEFINE d == [journal[a] EXCEPT !.phase = "released", !.manuallyReleased = TRUE]
<1>2. CASE journal' = Applied(u)
  <2>1. Kept
    BY <1>1, <1>2, AppliedOK DEF Settlers
  <2> QED BY <1>1, <2>1, Ends
<1>3. CASE journal' = [journal EXCEPT ![a].phase = "released", ![a].manuallyReleased = TRUE]
  <2>1. AttemptOK(a) /\ journal[a] \in Attempt /\ journal \in [Attempts -> Attempt]
    BY Types DEF IInv
  <2>2. /\ d \in Attempt /\ d.phase = "released" /\ d.pair = journal[a].pair
        /\ d.side = journal[a].side
        /\ d.hash = journal[a].hash /\ d.manuallyReleased
    BY <2>1 DEF Attempt
  <2>3. journal' = [journal EXCEPT ![a] = d]
    BY <1>3, <2>1
  <2> HIDE DEF d
  <2>4. JournalOnly(a) /\ journal'[a] = d
    BY <2>2, <2>3, JournalPut
  <2>5. BurnOnly(a) /\ burn'[a] = burn[a]
    BY <1>1, Types DEF BurnOnly
  <2>6. Kept
    BY <2>1, <2>2, <2>4, <2>5, AttemptMoves DEF AttemptOK
  <2> QED BY <1>1, <2>6, Ends
<1> QED BY <1>2, <1>3 DEF ReviewSettled

-----------------------------------------------------------------------------
(***************************************************************************)
(* Wallets and chains.                                                     *)
(***************************************************************************)
\* What becomes of a request that was made, but for what only its page does.
LEMMA ChainMoves ==
  ASSUME IInv, NEW a \in Attempts, BurnOnly(a), UNCHANGED <<journal, locks, run, look>>,
         OnChain \subseteq OnChain', IsFiniteSet(Landed'),
         AttemptOK(a)', Advances(a),
         burn'[a].status = burn[a].status \/ burn[a].status \notin {"none", "signed"}
  PROVE  IInv'
<1>1. \A b \in Attempts \ {a} : AttemptOK(b)' /\ Advances(b)
  BY AttemptStays DEF BurnOnly
<1>2. Kept
  BY <1>1, Types DEF Kept, BurnOnly
<1>3. ASSUME NEW u \in Runs
      PROVE  RunOK(u)'
  <2>1. run[u].pc \in {"kit", "submit"} =>
          run[u].rec \in Attempts /\ burn'[run[u].rec].status = burn[run[u].rec].status
    BY DEF BurnOnly, IInv, RunOK, Working
  <2> QED BY <1>2, <2>1, RunStays
<1>4. \A s \in Settlers : LookOK(s)'
  BY <1>2, LookStays
<1>5. TypeOK'
  BY <1>2, Types DEF Kept, TypeOK
<1> QED BY <1>2, <1>3, <1>4, <1>5 DEF Kept, IInv

\* A request goes from one state short of landing to another.
LEMMA StatusMoves ==
  ASSUME IInv, NEW a \in Attempts,
         NEW status \in {"pending", "processed", "failed"}, Became(a, status),
         burn[a].status \in {"limbo", "prompt", "pending"},
         status \in {"processed", "failed"} => Live(a) /\ burn[a].status = "pending",
         UNCHANGED <<journal, locks, run, look>>
  PROVE  IInv'
<1>1. /\ BurnOnly(a) /\ burn'[a].status = status
      /\ burn'[a].expired = burn[a].expired /\ burn'[a].at = burn[a].at
  BY BurnPut DEF Unsent, Failed
<1>2. Landed' = Landed /\ OnChain \subseteq OnChain'
  BY <1>1 DEF Landed, OnChain, BurnOnly
<1>3. AttemptOK(a)
  BY DEF IInv
<1>4. Live(a)' => Live(a)
  BY <1>1 DEF Live
<1>5. AttemptOK(a)'
  BY <1>1, <1>2, <1>3, <1>4 DEF AttemptOK, Known, isBlocking
<1>6. Advances(a)
  BY <1>1, <1>2, <1>4 DEF Advances, Known, Dead, Gone, Failed, Unsent, Live
<1> QED BY <1>1, <1>2, <1>5, <1>6, Types, ChainMoves

\* A burn that lands gets the next number.
LEMMA LandsMoves ==
  ASSUME IInv, NEW a \in Attempts, Lands(a),
         ~Dead(a), burn[a].status \in {"pending", "processed"},
         UNCHANGED <<journal, locks, run, look>>
  PROVE  IInv'
<1>1. burn[a] \in Burn /\ burn \in [Attempts -> Burn] /\ IsFiniteSet(Landed)
  BY Types
<1>2. PICK n \in Nat : n = Cardinality(Here(journal[a].side)) + 1
  BY <1>1, LandedSize
<1> DEFINE e == [burn[a] EXCEPT !.status = "landed", !.at = n]
<1>3. /\ e \in Burn /\ e.status = "landed" /\ e.at = n
      /\ e.expired = burn[a].expired
  BY <1>1 DEF Burn
<1>4. burn' = [burn EXCEPT ![a] = e]
  BY <1>1, <1>2 DEF Lands
<1> HIDE DEF e
<1>5. BurnOnly(a) /\ burn'[a] = e
  BY <1>1, <1>3, <1>4, Put DEF BurnOnly
<1>6. Landed' = Landed \cup {a} /\ OnChain \subseteq OnChain' /\ ~Live(a)'
  BY <1>3, <1>5 DEF Landed, OnChain, BurnOnly, Live
<1>7. IsFiniteSet(Landed')
  BY <1>1, <1>6, FS_AddElement
<1>8. AttemptOK(a)
  BY DEF IInv
<1>9. AttemptOK(a)'
  BY <1>3, <1>5, <1>6, <1>8 DEF AttemptOK, Known, isBlocking
<1>10. Advances(a)
  BY <1>3, <1>5, <1>6 DEF Advances, Known, Gone
<1> QED BY <1>5, <1>6, <1>7, <1>9, <1>10, ChainMoves

LEMMA ChainStep ==
  ASSUME IInv, NEW a \in Attempts,
         Broadcast(a) \/ Process(a) \/ Confirm(a) \/ Fail(a) \/ Expire(a)
  PROVE  IInv'
<1>1. CASE Broadcast(a)
  BY <1>1, StatusMoves DEF Broadcast
<1>2. CASE Process(a)
  <2>1. /\ burn[a].status = "pending" /\ Live(a) /\ ~Dead(a)
        /\ UNCHANGED <<journal, locks, run, look>>
        /\ Became(a, "processed") \/ Lands(a)
    BY <1>2 DEF Process, Live, Dead, Failed
  <2> QED BY <2>1, StatusMoves, LandsMoves
<1>3. CASE Confirm(a)
  BY <1>3, LandsMoves DEF Confirm, Dead, Failed, Unsent
<1>4. CASE Fail(a)
  BY <1>4, StatusMoves DEF Fail, Live
<1>5. CASE Expire(a)
  <2> DEFINE e == [burn[a] EXCEPT !.expired = TRUE]
  <2>1. /\ UNCHANGED <<journal, locks, run, look>> /\ ~burn[a].expired
        /\ Live(a) \/ burn[a].status \in {"processed", "landed"}
        /\ burn' = [burn EXCEPT ![a] = e]
    BY <1>5 DEF Expire
  <2>2. burn[a] \in Burn /\ burn \in [Attempts -> Burn]
    BY Types
  <2>3. e \in Burn /\ e.status = burn[a].status /\ e.at = burn[a].at /\ e.expired
    BY <2>2 DEF Burn
  <2> HIDE DEF e
  <2>4. BurnOnly(a) /\ burn'[a] = e
    BY <2>1, <2>2, <2>3, Put DEF BurnOnly
  <2>5. Landed' = Landed /\ OnChain' = OnChain
    BY <2>3, <2>4 DEF Landed, OnChain, BurnOnly
  <2>6. AttemptOK(a)
    BY DEF IInv
  <2>7. Live(a)' => Live(a)
    BY <2>3, <2>4 DEF Live
  <2>8. AttemptOK(a)'
    BY <2>1, <2>3, <2>4, <2>5, <2>6, <2>7 DEF AttemptOK, Known, isBlocking
  <2>9. Advances(a)
    BY <2>1, <2>3, <2>4, <2>5, <2>7 DEF Advances, Known, Dead, Gone
  <2> QED BY <2>1, <2>3, <2>4, <2>5, <2>8, <2>9, Types, ChainMoves
<1> QED BY <1>1, <1>2, <1>3, <1>4, <1>5

-----------------------------------------------------------------------------
(***************************************************************************)
(* The theorems.                                                           *)
(***************************************************************************)
LEMMA InitIInv == Init => IInv
<1> SUFFICES ASSUME Init PROVE IInv
  OBVIOUS
<1>1. /\ \A a \in Attempts : /\ journal[a] = NoAttempt /\ burn[a].status = "none"
                             /\ burn[a] \in Burn
      /\ \A u \in Runs : run[u] = IdleRun
      /\ \A s \in Settlers : look[s] = IdleLook
  BY DEF Init, Burn
<1>2. TypeOK
  <2> HIDE DEF NoAttempt, IdleRun, IdleLook
  <2> QED BY <1>1, Idles DEF Init, TypeOK
<1>3. Landed = {}
  BY <1>1 DEF Landed
<1>4. IsFiniteSet(Landed)
  BY <1>3, FS_EmptySet
<1>5. \A a \in Attempts : AttemptOK(a)
  BY <1>1, Idles DEF AttemptOK, Known, Live
<1>6. \A u \in Runs : RunOK(u)
  BY <1>1, Idles DEF RunOK, Working
<1>7. \A s \in Settlers : LookOK(s)
  BY <1>1, Idles DEF LookOK
<1> QED BY <1>2, <1>4, <1>5, <1>6, <1>7 DEF IInv

LEMMA SettlingStep ==
  ASSUME IInv, NEW s \in Settlers,
         \/ ReadHash(s) \/ ReadSignature(s) \/ Search(s) \/ ReadExpiry(s)
         \/ ReadAgain(s) \/ ReadFails(s)
  PROVE  IInv'
  BY ReadHashStep, ReadSignatureStep, SearchStep, ReadExpiryStep, ReadAgainStep,
     ReadFailsStep

LEMMA StepIInv == IInv /\ [Next]_vars => IInv'
<1> SUFFICES ASSUME IInv, [Next]_vars PROVE IInv'
  OBVIOUS
<1>1. CASE UNCHANGED vars
  <2>1. Kept
    BY <1>1, SameKept DEF vars
  <2>2. \A s \in Settlers : LookOK(s)'
    BY <1>1, <2>1, LookStays DEF vars
  <2>3. \A u \in Runs : RunOK(u)'
    BY <1>1, <2>1, RunStays DEF vars
  <2>4. TypeOK'
    BY <1>1, Types DEF vars, TypeOK
  <2> QED BY <2>1, <2>2, <2>3, <2>4 DEF IInv, Kept
<1>2. CASE \E u \in Runs, pair \in Pairs : Start(u, pair)
  BY <1>2, StartStep
<1>3. CASE \/ \E u \in Runs, a \in Attempts, side \in Sides : Create(u, a, side)
         \/ \E u \in Runs, a \in Attempts : Review(u, a)
  BY <1>3, CreateStep, ReviewStep
<1>4. ASSUME NEW u \in Runs,
             \/ CreateFails(u) \/ KitFails(u) \/ RequestBurn(u) \/ WalletRejects(u)
             \/ WalletErrors(u) \/ EvmAnswers(u) \/ SolanaSigns(u) \/ Submit(u)
      PROVE  IInv'
  BY <1>4, CreateFailsStep, KitFailsStep, RequestBurnStep, WalletRejectsStep,
     WalletErrorsStep, EvmAnswersStep, SolanaSignsStep, SubmitStep
<1>5. ASSUME NEW u \in Runs,
             \/ Finally(u) \/ OpenSettled(u) \/ FinalSettled(u) \/ ReviewSettled(u)
             \/ TabCloses(u)
      PROVE  IInv'
  BY <1>5, FinallyStep, OpenSettledStep, FinalSettledStep, ReviewSettledStep,
     TabClosesStep
<1>6. ASSUME NEW s \in Settlers,
             \/ ReadHash(s) \/ ReadSignature(s) \/ Search(s) \/ ReadExpiry(s)
             \/ ReadAgain(s) \/ ReadFails(s)
      PROVE  IInv'
  BY <1>6, SettlingStep
<1>7. CASE \E c \in Checkers, pair \in Pairs : Check(c, pair)
  BY <1>7, CheckStep
<1>8. CASE \E c \in Checkers : CheckSettled(c)
  BY <1>8, CheckSettledStep
<1>9. ASSUME NEW a \in Attempts,
             Broadcast(a) \/ Process(a) \/ Confirm(a) \/ Fail(a) \/ Expire(a)
      PROVE  IInv'
  BY <1>9, ChainStep
<1> QED BY <1>1, <1>2, <1>3, <1>4, <1>5, <1>6, <1>7, <1>8, <1>9 DEF Next

LEMMA Invariant == Spec => []IInv
  BY InitIInv, StepIInv, PTL DEF Spec

\* Every variable has its type.
THEOREM SolanaTypes == Spec => []TypeOK
<1>1. IInv => TypeOK
  BY DEF IInv
<1> QED BY <1>1, Invariant, PTL

LEMMA LiveIsOpen ==
  ASSUME IInv, NEW a \in Attempts, Live(a)
  PROVE  isBlocking(a) \/ Excused(a)
<1>1. a \notin OnChain
  BY DEF Live, OnChain
<1>2. journal[a].phase = "burned" => journal[a].hash \in OnChain /\ OnChain \subseteq Attempts
  BY DEF IInv, AttemptOK, OnChain
<1> QED BY <1>1, <1>2, SolanaAssumption DEF IInv, AttemptOK, Excused

\* A burn that may still be made blocks, unless the user released its attempt or a
\* search credited the attempt with another burn: no error of a wallet, closed page,
\* refused save or late check lets go of it.
THEOREM SolanaLiveBlocks == Spec => []LiveBlocks
<1>1. IInv => LiveBlocks
  BY LiveIsOpen DEF LiveBlocks
<1> QED BY <1>1, Invariant, PTL

\* A verdict of "not sent" is about a burn that can no longer be made, and one that
\* rests on a hash or a saved signature is about a burn that never lands; it stays so
\* until the verdict is applied.
THEOREM SolanaNotSentIsTrue == Spec => []NotSentIsTrue
<1>1. ASSUME IInv, NEW s \in Settlers, look[s].pc = "done", look[s].verdict = "not-sent"
      PROVE  LET a == look[s].rec
             IN  /\ ~Live(a)
                 /\ journal[a].side = "arc" \/ look[s].snap.signature
                    => burn[a].status \notin {"processed", "landed"}
  BY <1>1 DEF IInv, LookOK, Gone, Dead, Failed, Unsent
<1>2. IInv => NotSentIsTrue
  BY <1>1 DEF NotSentIsTrue
<1> QED BY <1>2, Invariant, PTL

\* What a step may make of a settled attempt.
Settled(a) ==
  /\ ~isBlocking(a)'
  /\ \/ journal'[a].phase = journal[a].phase
     \/ burn[a].status \in {"processed", "landed"}
     \/ Excused(a)'

LEMMA SameSettled ==
  ASSUME NEW a, journal[a].phase \in {"released", "burned"},
         journal'[a].phase = journal[a].phase
  PROVE  Settled(a)
  BY DEF Settled, isBlocking, BLOCKING

\* A verdict applied to a settled attempt leaves it so, unless its burn is on its
\* chain, or the attempt is credited with the burn of another one.
LEMMA AppliedStays ==
  ASSUME IInv, NEW s \in Settlers, look[s].pc = "done", journal' = Applied(s),
         NEW a \in Attempts, journal[a].phase \in {"released", "burned"}
  PROVE  Settled(a)
<1> PICK b \in Attempts : b = look[s].rec
  BY DEF IInv, LookOK
<1>1. AttemptOK(a) /\ journal[a] \in Attempt /\ journal \in [Attempts -> Attempt]
  BY Types DEF IInv
<1>2. None \notin OnChain
  BY SolanaAssumption DEF OnChain
<1>3. CASE look[s].verdict = "burned"
  <2>1. journal' = [journal EXCEPT ![b].phase = "burned", ![b].hash = look[s].tx]
    BY <1>3 DEF Applied
  <2>2. CASE a # b
    BY <1>1, <2>1, <2>2, SameSettled
  <2>3. CASE a = b
    <3>1. journal'[a].phase = "burned" /\ journal'[a].hash = look[s].tx
      BY <1>1, <2>1, <2>3 DEF Attempt
    <3>2. look[s].tx \in OnChain
      BY <1>3 DEF IInv, LookOK
    <3>3. look[s].tx = a => burn[a].status \in {"processed", "landed"}
      BY <3>2 DEF OnChain
    <3> QED BY <1>2, <3>1, <3>2, <3>3 DEF Settled, isBlocking, BLOCKING, Excused
  <2> QED BY <2>2, <2>3
<1>4. CASE look[s].verdict = "not-sent"
  <2>1. journal' = [journal EXCEPT ![b].phase = "released"]
    BY <1>4 DEF Applied, Patched
  <2>2. CASE a # b
    BY <1>1, <2>1, <2>2, SameSettled
  <2>3. CASE a = b
    <3>1. journal'[a].phase = "released" /\ journal'[a].hash = journal[a].hash
      BY <1>1, <2>1, <2>3 DEF Attempt
    <3>2. CASE journal[a].phase = "burned"
      <4>1. journal[a].hash \in OnChain
        BY <1>1, <3>2 DEF AttemptOK
      <4>2. journal[a].hash = a => burn[a].status \in {"processed", "landed"}
        BY <4>1 DEF OnChain
      <4> QED BY <1>2, <3>1, <4>1, <4>2 DEF Settled, isBlocking, BLOCKING, Excused
    <3>3. CASE journal[a].phase = "released"
      BY <3>1, <3>3, SameSettled
    <3> QED BY <3>2, <3>3
  <2> QED BY <2>2, <2>3
<1>5. CASE look[s].verdict \notin {"burned", "not-sent"}
  BY <1>5, SameSettled DEF Applied
<1> QED BY <1>3, <1>4, <1>5

LEMMA StepSettled ==
  ASSUME IInv, Next, NEW a \in Attempts, journal[a].phase \in {"released", "burned"},
         \A u \in Runs : run[u].rec # a
  PROVE  Settled(a)
<1>1. journal \in [Attempts -> Attempt]
  BY Types
<1>2. CASE \E u \in Runs, pair \in Pairs : Start(u, pair)
  BY <1>1, <1>2, SameSettled DEF Start, Enter, WithoutPrepared
<1>3. CASE \E u \in Runs, b \in Attempts, side \in Sides : Create(u, b, side)
  <2>1. PICK u \in Runs, b \in Attempts, side \in Sides : Create(u, b, side)
    BY <1>3
  <2>2. ~Known(b) /\ Known(a)
    BY <2>1 DEF Create, Known
  <2>3. b # a
    BY <2>2
  <2>4. PICK d : journal' = [journal EXCEPT ![b] = d]
    BY <2>1 DEF Create
  <2> QED BY <1>1, <2>3, <2>4, SameSettled
<1>4. ASSUME NEW u \in Runs,
             \/ KitFails(u) \/ RequestBurn(u) \/ WalletRejects(u) \/ WalletErrors(u)
             \/ EvmAnswers(u) \/ SolanaSigns(u)
      PROVE  journal'[a] = journal[a]
  BY <1>1, <1>4 DEF KitFails, RequestBurn, WalletRejects, WalletErrors, EvmAnswers,
     SolanaSigns, Saved, Patched
<1>5. ASSUME NEW u \in Runs, OpenSettled(u) \/ FinalSettled(u)
      PROVE  Settled(a)
  BY <1>5, AppliedStays DEF OpenSettled, FinalSettled, Settlers
<1>6. ASSUME NEW u \in Runs, ReviewSettled(u)
      PROVE  Settled(a)
  <2>1. CASE journal' = Applied(u)
    BY <1>6, <2>1, AppliedStays DEF ReviewSettled, Settlers
  <2>2. CASE journal' = [journal EXCEPT ![run[u].rec].phase = "released",
                                        ![run[u].rec].manuallyReleased = TRUE]
    BY <1>1, <2>2, SameSettled
  <2> QED BY <1>6, <2>1, <2>2 DEF ReviewSettled
<1>7. ASSUME NEW c \in Checkers, CheckSettled(c)
      PROVE  Settled(a)
  BY <1>7, AppliedStays DEF CheckSettled, Settlers
<1>8. CASE UNCHANGED journal
  BY <1>8, SameSettled
<1>9. ASSUME NEW u \in Runs,
             \/ CreateFails(u) \/ Submit(u) \/ Finally(u) \/ TabCloses(u)
             \/ \E b \in Attempts : Review(u, b)
      PROVE  UNCHANGED journal
  <2>1. CASE \E b \in Attempts : Review(u, b)
    BY <2>1 DEF Review
  <2>2. CASE CreateFails(u) \/ Submit(u) \/ Finally(u) \/ TabCloses(u)
    BY <2>2 DEF CreateFails, Submit, Finally, TabCloses
  <2> QED BY <1>9, <2>1, <2>2
<1>10. ASSUME NEW s \in Settlers,
              \/ ReadHash(s) \/ ReadSignature(s) \/ Search(s) \/ ReadExpiry(s)
              \/ ReadAgain(s) \/ ReadFails(s)
       PROVE  UNCHANGED journal
  BY <1>10 DEF ReadHash, ReadSignature, Search, ReadExpiry, ReadAgain, ReadFails
<1>11. ASSUME NEW c \in Checkers, NEW pair \in Pairs, Check(c, pair)
       PROVE  UNCHANGED journal
  BY <1>11 DEF Check
<1>12. ASSUME NEW b \in Attempts,
              Broadcast(b) \/ Process(b) \/ Confirm(b) \/ Fail(b) \/ Expire(b)
       PROVE  UNCHANGED journal
  BY <1>12 DEF Broadcast, Process, Confirm, Fail, Expire
<1> QED BY <1>2, <1>3, <1>4, <1>5, <1>6, <1>7, <1>8, <1>9, <1>10, <1>11, <1>12, SameSettled DEF Next

\* Once no transfer works on it, what the guard has settled does not block again: not
\* even a check that read an old record, and has no lock, opens it, and its outcome
\* changes only where a burn landed that a search did not see.
THEOREM SolanaSettledStays == Spec => SettledStays
<1>1. ASSUME IInv, [Next]_vars
      PROVE  [\A a \in Attempts :
                /\ journal[a].phase \in {"released", "burned"}
                /\ \A u \in Runs : run[u].rec # a
                => /\ ~isBlocking(a)'
                   /\ \/ journal'[a].phase = journal[a].phase
                      \/ burn[a].status \in {"processed", "landed"}
                      \/ Excused(a)']_vars
  BY <1>1, StepSettled DEF Settled
<1> QED BY <1>1, Invariant, PTL DEF Spec, SettledStays

-----------------------------------------------------------------------------
(***************************************************************************)
(* One burn at a time.  A transfer settles the first open attempt that it  *)
(* finds and goes on (solanaSendRuntime.ts:158).  That is enough until a   *)
(* pair has been used that shares a wallet with two attempts which share   *)
(* none: no step takes that back, so the rest is about behaviours that     *)
(* have not come to it yet.                                                *)
(***************************************************************************)
LEMMA SharesIsSymmetric ==
  ASSUME NEW p, NEW q, Shares(p, q)
  PROVE  Shares(q, p)
  BY DEF Shares

\* An attempt that was made stays, with its wallets.
Stable ==
  \A a \in Attempts : Known(a) => Known(a)' /\ journal'[a].pair = journal[a].pair

LEMMA StableButOne ==
  ASSUME NEW a \in Attempts, JournalOnly(a),
         Known(a) => Known(a)' /\ journal'[a].pair = journal[a].pair
  PROVE  Stable
  BY DEF Stable, JournalOnly, Known

LEMMA AppliedStable ==
  ASSUME IInv, NEW s \in Settlers, look[s].pc = "done", journal' = Applied(s)
  PROVE  Stable
<1> PICK a \in Attempts : a = look[s].rec /\ Known(a)
  BY DEF IInv, LookOK
<1>1. journal[a] \in Attempt /\ journal \in [Attempts -> Attempt]
  BY Types
<1>2. ASSUME NEW phase \in {"burned", "released"}, NEW hash,
             journal' = [journal EXCEPT ![a].phase = phase, ![a].hash = hash]
      PROVE  Stable
  BY <1>1, <1>2 DEF Stable, Known, Attempt
<1>3. CASE look[s].verdict = "burned"
  BY <1>2, <1>3 DEF Applied
<1>4. CASE look[s].verdict = "not-sent"
  BY <1>1, <1>4 DEF Applied, Patched, Stable, Known, Attempt
<1>5. CASE look[s].verdict \notin {"burned", "not-sent"}
  BY <1>5 DEF Applied, Stable, Known
<1> QED BY <1>3, <1>4, <1>5

LEMMA PageStable ==
  ASSUME IInv, NEW u \in Runs,
         \/ KitFails(u) \/ RequestBurn(u) \/ WalletRejects(u) \/ WalletErrors(u)
         \/ EvmAnswers(u) \/ SolanaSigns(u)
  PROVE  Stable
<1> PICK a \in Attempts : a = run[u].rec
  BY DEF KitFails, RequestBurn, WalletRejects, WalletErrors, EvmAnswers, SolanaSigns,
     IInv, RunOK, Working
<1>1. journal[a] \in Attempt /\ journal \in [Attempts -> Attempt]
  BY Types
<1>2. CASE UNCHANGED journal
  BY <1>2 DEF Stable, Known
<1>3. ASSUME NEW phase \in BLOCKING \cup {"released"}, journal' = Patched(a, phase)
      PROVE  Stable
  BY <1>1, <1>3 DEF Patched, Stable, Known, Attempt, BLOCKING
<1>4. ASSUME NEW from, journal' = [journal EXCEPT ![a].phase = "signing", ![a].from = from]
      PROVE  Stable
  BY <1>1, <1>4 DEF Stable, Known, Attempt
<1>5. CASE journal' = [journal EXCEPT ![a].phase = "sent", ![a].hash = a]
  BY <1>1, <1>5 DEF Stable, Known, Attempt
<1>6. CASE journal' = [journal EXCEPT ![a].phase = "signed", ![a].signature = TRUE]
  BY <1>1, <1>6 DEF Stable, Known, Attempt
<1>7. CASE RequestBurn(u)
  BY <1>4, <1>7 DEF RequestBurn
<1>8. CASE KitFails(u) \/ WalletRejects(u) \/ WalletErrors(u)
  BY <1>2, <1>3, <1>8 DEF KitFails, WalletRejects, WalletErrors, Saved, BLOCKING
<1>9. CASE EvmAnswers(u) \/ SolanaSigns(u)
  BY <1>2, <1>3, <1>5, <1>6, <1>9 DEF EvmAnswers, SolanaSigns, Saved, BLOCKING
<1> QED BY <1>7, <1>8, <1>9

LEMMA StepStable ==
  ASSUME IInv, [Next]_vars
  PROVE  Stable
<1>1. journal \in [Attempts -> Attempt]
  BY Types
<1>2. CASE UNCHANGED journal
  BY <1>2 DEF Stable, Known
<1>3. ASSUME NEW u \in Runs, NEW pair \in Pairs, Start(u, pair)
      PROVE  Stable
  BY <1>1, <1>3 DEF Start, Enter, WithoutPrepared, Stable, Known, Attempt
<1>4. ASSUME NEW u \in Runs, NEW a \in Attempts, NEW side \in Sides, Create(u, a, side)
      PROVE  Stable
  <2>1. PICK d : journal' = [journal EXCEPT ![a] = d]
    BY <1>4 DEF Create
  <2>2. ~Known(a)
    BY <1>4 DEF Create
  <2> QED BY <1>1, <2>1, <2>2 DEF Stable, Known
<1>5. ASSUME NEW u \in Runs, OpenSettled(u) \/ FinalSettled(u)
      PROVE  Stable
  BY <1>5, AppliedStable DEF OpenSettled, FinalSettled, Settlers
<1>6. ASSUME NEW u \in Runs, ReviewSettled(u)
      PROVE  Stable
  <2>1. CASE journal' = Applied(u)
    BY <1>6, <2>1, AppliedStable DEF ReviewSettled, Settlers
  <2>2. CASE journal' = [journal EXCEPT ![run[u].rec].phase = "released",
                                        ![run[u].rec].manuallyReleased = TRUE]
    BY <1>1, <2>2 DEF Stable, Known, Attempt
  <2> QED BY <1>6, <2>1, <2>2 DEF ReviewSettled
<1>7. ASSUME NEW c \in Checkers, CheckSettled(c)
      PROVE  Stable
  BY <1>7, AppliedStable DEF CheckSettled, Settlers
<1>8. ASSUME NEW u \in Runs,
             \/ CreateFails(u) \/ Submit(u) \/ Finally(u) \/ TabCloses(u)
             \/ \E b \in Attempts : Review(u, b)
      PROVE  UNCHANGED journal
  <2>1. CASE \E b \in Attempts : Review(u, b)
    BY <2>1 DEF Review
  <2>2. CASE CreateFails(u) \/ Submit(u) \/ Finally(u) \/ TabCloses(u)
    BY <2>2 DEF CreateFails, Submit, Finally, TabCloses
  <2> QED BY <1>8, <2>1, <2>2
<1>9. ASSUME NEW s \in Settlers,
             \/ ReadHash(s) \/ ReadSignature(s) \/ Search(s) \/ ReadExpiry(s)
             \/ ReadAgain(s) \/ ReadFails(s)
      PROVE  UNCHANGED journal
  BY <1>9 DEF ReadHash, ReadSignature, Search, ReadExpiry, ReadAgain, ReadFails
<1>10. ASSUME NEW c \in Checkers, NEW pair \in Pairs, Check(c, pair)
       PROVE  UNCHANGED journal
  BY <1>10 DEF Check
<1>11. ASSUME NEW b \in Attempts,
              Broadcast(b) \/ Process(b) \/ Confirm(b) \/ Fail(b) \/ Expire(b)
       PROVE  UNCHANGED journal
  BY <1>11 DEF Broadcast, Process, Confirm, Fail, Expire
<1>12. CASE UNCHANGED vars
  BY <1>12 DEF vars, Stable, Known
<1> QED BY <1>2, <1>3, <1>4, <1>5, <1>6, <1>7, <1>8, <1>9, <1>10, <1>11, <1>12, PageStable
   DEF Next

\* What a pair has bridged stays so, and a transfer that works on an attempt which
\* bridges two others has crossed them.
LEMMA BridgedStays ==
  ASSUME Stable, NEW u, run'[u].pair = run[u].pair, Bridged(u)
  PROVE  Bridged(u)'
  BY DEF Stable, Bridged

LEMMA CrossedStays ==
  ASSUME Stable, Crossed
  PROVE  Crossed'
  BY DEF Stable, Crossed

LEMMA WorkingFits ==
  ASSUME IInv, ~Crossed, NEW u \in Runs, run[u].pc \in Working, Fit(u)
  PROVE  Alone(u)
<1>1. /\ run[u].rec \in Attempts /\ Known(run[u].rec)
      /\ journal[run[u].rec].pair = run[u].pair
  BY DEF IInv, RunOK
<1>2. ~Bridged(u)
  BY <1>1 DEF Bridged, Crossed
<1> QED BY <1>2 DEF Fit

\* No attempt opens, and none that stays open gets other wallets.
Quiet ==
  \A b \in Attempts : isBlocking(b)' => isBlocking(b) /\ journal'[b].pair = journal[b].pair

LEMMA QuietStep ==
  ASSUME XInv, Stable, Quiet, NEW U \in SUBSET Runs, \A u \in U : Fit(u)',
         \A v \in Runs \ U : run'[v] = run[v] /\ look'[v].rec = look[v].rec
  PROVE  XInv'
<1>1. OneOpen'
  BY DEF XInv, OneOpen, Quiet
<1>2. ASSUME NEW v \in Runs \ U
      PROVE  Fit(v)'
  <2>1. run'[v] = run[v] /\ look'[v].rec = look[v].rec /\ Fit(v)
    BY DEF XInv
  <2>2. Own(v)' = Own(v)
    BY <2>1 DEF Own
  <2>3. CASE Bridged(v)
    BY <2>1, <2>3, BridgedStays DEF Fit
  <2>4. CASE Alone(v)
    <3>1. Alone(v)'
      BY <2>1, <2>2, <2>4 DEF Alone, Quiet
    <3> QED BY <3>1 DEF Fit
  <2> QED BY <2>1, <2>3, <2>4 DEF Fit
<1> QED BY <1>1, <1>2 DEF XInv

LEMMA QuietPage ==
  ASSUME XInv, Stable, Quiet, NEW u \in Runs, Fit(u)',
         \A v \in Runs \ {u} : run'[v] = run[v] /\ look'[v].rec = look[v].rec
  PROVE  XInv'
<1>1. {u} \in SUBSET Runs /\ \A w \in {u} : Fit(w)'
  OBVIOUS
<1> HIDE DEF Fit, XInv, Quiet
<1> QED BY <1>1, QuietStep

LEMMA QuietElsewhere ==
  ASSUME XInv, Stable, Quiet, \A v \in Runs : run'[v] = run[v] /\ look'[v].rec = look[v].rec
  PROVE  XInv'
<1>1. {} \in SUBSET Runs /\ \A w \in {} : Fit(w)'
  OBVIOUS
<1>2. \A v \in Runs \ {} : run'[v] = run[v] /\ look'[v].rec = look[v].rec
  OBVIOUS
<1> QED BY <1>1, <1>2, QuietStep

\* The transfer with the locks makes its attempt block.
LEMMA ActiveStep ==
  ASSUME IInv, XInv, Stable, ~Crossed, NEW u \in Runs, run[u].pc \in {"kit", "prompt"},
         NEW a \in Attempts, a = run[u].rec, JournalOnly(a),
         journal'[a].pair = journal[a].pair, UNCHANGED look,
         \A v \in Runs \ {u} : run'[v] = run[v],
         run'[u].pc \in {"prompt", "submit", "after"}, run'[u].rec = a,
         run'[u].pair = run[u].pair
  PROVE  XInv'
<1>1. /\ journal[a].pair = run[u].pair /\ Holds(u, run[u].pair) /\ Alone(u)
      /\ Own(u) \subseteq {a}
  BY WorkingFits DEF IInv, RunOK, XInv, Working, Own
<1>2. ASSUME NEW b \in Attempts \ {a}, isBlocking(b)', Shares(journal[b].pair, run[u].pair)
      PROVE  FALSE
  <2>1. isBlocking(b)
    BY <1>2 DEF isBlocking, JournalOnly
  <2> QED BY <1>1, <1>2, <2>1 DEF Alone, Working
<1>3. OneOpen'
  <2> SUFFICES ASSUME NEW x \in Attempts, NEW y \in Attempts, isBlocking(x)', isBlocking(y)',
                      Shares(journal'[x].pair, journal'[y].pair)
               PROVE  x = y
    BY DEF OneOpen
  <2>1. CASE x = a /\ y # a
    BY <1>1, <1>2, <2>1, SharesIsSymmetric DEF JournalOnly
  <2>2. CASE y = a /\ x # a
    BY <1>1, <1>2, <2>2 DEF JournalOnly
  <2>3. CASE x # a /\ y # a
    BY <2>3 DEF JournalOnly, isBlocking, XInv, OneOpen
  <2> QED BY <2>1, <2>2, <2>3
<1>4. Alone(u)'
  <2>1. Own(u)' = {a}
    BY DEF Own
  <2> QED BY <1>2, <2>1 DEF Alone, JournalOnly
<1>5. ASSUME NEW v \in Runs \ {u}
      PROVE  Fit(v)'
  <2>1. run'[v] = run[v] /\ look'[v].rec = look[v].rec /\ Fit(v)
    BY DEF XInv
  <2>2. Own(v)' = Own(v)
    BY <2>1 DEF Own
  <2>3. ASSUME run[v].pc \in Working \cup {"open", "ready"},
               Shares(journal[a].pair, run[v].pair)
        PROVE  FALSE
    <3>1. Holds(v, run[v].pair)
      BY <2>3 DEF IInv, RunOK
    <3> QED BY <1>1, <2>3, <3>1 DEF Shares, Holds
  <2>4. ASSUME Alone(v), run[v].pc \in Working \cup {"open", "ready"},
               NEW b \in Attempts, isBlocking(b)', Shares(journal'[b].pair, run[v].pair)
        PROVE  b \in Own(v)
    <3>1. b # a
      BY <2>3, <2>4
    <3>2. isBlocking(b) /\ journal'[b] = journal[b]
      BY <2>4, <3>1 DEF isBlocking, JournalOnly
    <3> QED BY <2>1, <2>4, <3>2 DEF Alone
  <2>5. CASE Alone(v)
    <3>1. Alone(v)'
      BY <2>1, <2>2, <2>4, <2>5 DEF Alone
    <3> QED BY <3>1 DEF Fit
  <2>6. CASE Bridged(v)
    BY <2>1, <2>6, BridgedStays DEF Fit
  <2> QED BY <2>1, <2>5, <2>6 DEF Fit
<1>6. Fit(u)'
  BY <1>4 DEF Fit
<1> QED BY <1>3, <1>5, <1>6 DEF XInv

LEMMA SameQuiet ==
  ASSUME UNCHANGED journal
  PROVE  Quiet
  BY DEF Quiet, isBlocking

LEMMA AppliedQuiet ==
  ASSUME IInv, NEW s \in Settlers, look[s].pc = "done", journal' = Applied(s)
  PROVE  /\ Quiet
         /\ \A b \in Attempts : b = look[s].rec /\ look[s].verdict = "not-sent"
                             => ~isBlocking(b)'
<1> PICK a \in Attempts : a = look[s].rec
  BY DEF IInv, LookOK
<1>1. journal \in [Attempts -> Attempt] /\ journal[a] \in Attempt
  BY Types
<1>2. CASE look[s].verdict = "burned"
  <2> DEFINE d == [journal[a] EXCEPT !.phase = "burned", !.hash = look[s].tx]
  <2>1. d.phase = "burned" /\ journal' = [journal EXCEPT ![a] = d]
    BY <1>1, <1>2 DEF Applied, Attempt
  <2> HIDE DEF d
  <2> QED BY <1>1, <1>2, <2>1 DEF Quiet, isBlocking, BLOCKING
<1>3. CASE look[s].verdict = "not-sent"
  <2>1. journal' = Patched(a, "released")
    BY <1>3 DEF Applied
  <2>2. JournalOnly(a) /\ journal'[a].phase = "released"
    BY <2>1, PhasePut
  <2>3. ~isBlocking(a)'
    BY <2>2 DEF isBlocking, BLOCKING
  <2> QED BY <2>2, <2>3 DEF Quiet, isBlocking, BLOCKING, JournalOnly
<1>4. CASE look[s].verdict \notin {"burned", "not-sent"}
  BY <1>4, SameQuiet DEF Applied
<1> QED BY <1>2, <1>3, <1>4

LEMMA Finished ==
  ASSUME IInv, NEW u \in Runs, Finish(u)
  PROVE  /\ Fit(u)'
         /\ \A v \in Runs \ {u} : run'[v] = run[v] /\ look'[v].rec = look[v].rec
<1>1. run'[u] = IdleRun /\ \A v \in Runs \ {u} : run'[v] = run[v]
  BY Types, Idles, Put DEF Finish
<1>2. \A v \in Runs \ {u} : look'[v].rec = look[v].rec
  BY Types DEF Finish, Settlers
<1>3. run'[u].pc = "idle"
  BY <1>1, Idles
<1> QED BY <1>1, <1>2, <1>3 DEF Fit, Alone, Working

\* A transfer that goes on with what it had.
LEMMA GoesOnFit ==
  ASSUME XInv, Stable, Quiet, NEW u \in Runs, run[u].pc \in Working \cup {"open", "ready"},
         run'[u].pair = run[u].pair, Own(u)' = Own(u)
  PROVE  Fit(u)'
<1>1. CASE Alone(u)
  <2>1. Alone(u)'
    BY <1>1 DEF Alone, Quiet
  <2> QED BY <2>1 DEF Fit
<1>2. CASE Bridged(u)
  BY <1>2, BridgedStays DEF Fit
<1> QED BY <1>1, <1>2 DEF XInv, Fit

LEMMA StartX ==
  ASSUME IInv, XInv, Stable,
         NEW u \in Runs, NEW pair \in Pairs, Start(u, pair)
  PROVE  XInv'
<1> DEFINE ready == [IdleRun EXCEPT !.pc = "ready", !.pair = pair]
           open == [IdleRun EXCEPT !.pc = "open", !.pair = pair]
<1>1. /\ ready \in Run /\ ready.pc = "ready" /\ ready.pair = pair
      /\ open \in Run /\ open.pc = "open" /\ open.pair = pair
  BY Idles DEF IdleRun, Run
<1>2. /\ journal' = WithoutPrepared(pair) /\ UNCHANGED burn
      /\ \/ Open(pair) = {} /\ run' = [run EXCEPT ![u] = ready] /\ UNCHANGED look
         \/ \E a \in Open(pair) : run' = [run EXCEPT ![u] = open] /\ LookAt(u, a)
  BY DEF Start, Enter
<1> HIDE DEF ready, open
<1>3. \A a \in Attempts : isBlocking(a) \/ isBlocking(a)' => journal'[a] = journal[a]
  BY <1>2, WithoutPreparedOK
<1>4. Quiet
  BY <1>3 DEF Quiet, isBlocking
<1>5. \A a \in Attempts : isBlocking(a) => Known(a)
  BY DEF isBlocking, BLOCKING, Known
<1>6. CASE Open(pair) = {} /\ run' = [run EXCEPT ![u] = ready] /\ UNCHANGED look
  <2>1. run'[u] = ready /\ \A v \in Runs \ {u} : run'[v] = run[v]
    BY <1>1, <1>6, RunPut
  <2>2. Fit(u)'
    <3>1. Alone(u)'
      BY <1>1, <1>4, <1>6, <2>1 DEF Alone, Quiet, Open
    <3> QED BY <3>1 DEF Fit
  <2> QED BY <1>4, <1>6, <2>1, <2>2, QuietPage
<1>7. ASSUME NEW a \in Open(pair), run' = [run EXCEPT ![u] = open], LookAt(u, a)
      PROVE  XInv'
  <2>1. run'[u] = open /\ \A v \in Runs \ {u} : run'[v] = run[v]
    BY <1>1, <1>7, RunPut
  <2>2. a \in Attempts /\ isBlocking(a) /\ Shares(journal[a].pair, pair)
    BY DEF Open
  <2>3. look'[u].rec = a /\ \A t \in Settlers \ {u} : look'[t] = look[t]
    BY <1>7, <2>2, Looks DEF Settlers
  <2>4. Own(u)' = {a}
    BY <1>1, <2>1, <2>3 DEF Own
  <2>5. run'[u].pair = pair
    BY <1>1, <2>1
  <2>6. ASSUME \A b \in Open(pair) : b = a
        PROVE  Fit(u)'
    <3>1. ASSUME NEW b \in Attempts, isBlocking(b)', Shares(journal'[b].pair, pair)
          PROVE  b = a
      BY <1>4, <2>6, <3>1 DEF Quiet, Open
    <3>2. Alone(u)'
      BY <2>4, <2>5, <3>1 DEF Alone
    <3> QED BY <3>2 DEF Fit
  <2>7. ASSUME NEW b \in Open(pair), b # a
        PROVE  Fit(u)'
    <3>1. b \in Attempts /\ isBlocking(b) /\ Shares(pair, journal[b].pair)
      BY SharesIsSymmetric DEF Open
    <3>2. ~Shares(journal[a].pair, journal[b].pair)
      BY <2>2, <2>7, <3>1 DEF XInv, OneOpen
    <3>3. /\ Known(a)' /\ journal'[a].pair = journal[a].pair
          /\ Known(b)' /\ journal'[b].pair = journal[b].pair
      BY <1>5, <2>2, <3>1 DEF Stable
    <3>4. Bridged(u)'
      BY <2>2, <2>5, <3>1, <3>2, <3>3 DEF Bridged
    <3> QED BY <3>4 DEF Fit
  <2>8. \A v \in Runs \ {u} : look'[v].rec = look[v].rec
    BY <2>3 DEF Settlers
  <2>9. Fit(u)'
    BY <2>6, <2>7
  <2> QED BY <1>4, <2>1, <2>8, <2>9, QuietPage
<1> QED BY <1>2, <1>6, <1>7

LEMMA ReviewX ==
  ASSUME IInv, XInv, Stable, NEW u \in Runs, NEW a \in Attempts, Review(u, a)
  PROVE  XInv'
<1> DEFINE e == [IdleRun EXCEPT !.pc = "review", !.rec = a]
<1>1. /\ isBlocking(a) /\ run' = [run EXCEPT ![u] = e] /\ LookAt(u, a) /\ UNCHANGED journal
  BY DEF Review
<1>2. e \in Run /\ e.pc = "review"
  BY Idles DEF IdleRun, Run
<1> HIDE DEF e
<1>3. run'[u] = e /\ \A v \in Runs \ {u} : run'[v] = run[v]
  BY <1>1, <1>2, RunPut
<1>4. \A v \in Runs \ {u} : look'[v].rec = look[v].rec
  BY <1>1, Looks DEF Settlers
<1>5. Quiet
  BY <1>1, SameQuiet
<1>6. Fit(u)'
  BY <1>2, <1>3 DEF Fit, Alone, Working
<1> QED BY <1>3, <1>4, <1>5, <1>6, QuietPage

LEMMA CreateX ==
  ASSUME IInv, XInv, Stable, NEW u \in Runs, NEW a \in Attempts, NEW side \in Sides,
         Create(u, a, side)
  PROVE  XInv'
<1>1. /\ run[u].pc = "ready" /\ UNCHANGED look
      /\ run' = [run EXCEPT ![u].pc = "kit", ![u].rec = a]
  BY DEF Create
<1> DEFINE new(from) == [NoAttempt EXCEPT !.phase = "prepared",
                           !.pair = run[u].pair, !.side = side, !.from = from]
<1>2. PICK from : journal' = [journal EXCEPT ![a] = new(from)]
  <2>1. PICK from \in IF side = "arc" THEN Horizon("arc") ELSE {0} :
          journal' = [journal EXCEPT ![a] = new(from)]
    BY Zenon DEF Create
  <2> HIDE DEF new
  <2> QED BY <2>1
<1>3. new(from).phase = "prepared"
  BY DEF NoAttempt
<1> HIDE DEF new
<1>4. Quiet
  BY <1>2, <1>3, Types DEF Quiet, isBlocking, BLOCKING
<1> DEFINE e == [run[u] EXCEPT !.pc = "kit", !.rec = a]
<1>5. e \in Run /\ e.pc = "kit" /\ e.pair = run[u].pair
  BY Types DEF Run
<1>6. run' = [run EXCEPT ![u] = e]
  BY <1>1
<1> HIDE DEF e
<1>7. run'[u] = e /\ \A v \in Runs \ {u} : run'[v] = run[v]
  BY <1>5, <1>6, RunPut
<1>8. Own(u) = {} /\ Own(u)' = {}
  BY <1>1, <1>5, <1>7 DEF Own
<1>9. Fit(u)'
  BY <1>1, <1>4, <1>5, <1>7, <1>8, GoesOnFit
<1> QED BY <1>1, <1>4, <1>7, <1>9, QuietPage

\* A callback ends, or its page closes.
LEMMA EndX ==
  ASSUME IInv, XInv, Stable, Quiet, NEW u \in Runs, Finish(u)
  PROVE  XInv'
<1>1. /\ Fit(u)'
      /\ \A v \in Runs \ {u} : run'[v] = run[v] /\ look'[v].rec = look[v].rec
  BY Finished
<1> QED BY <1>1, QuietPage

LEMMA PatchedQuiet ==
  ASSUME IInv, NEW a \in Attempts, journal' = Patched(a, "released")
  PROVE  Quiet
<1>1. JournalOnly(a) /\ journal'[a].phase = "released"
  BY PhasePut
<1> QED BY <1>1 DEF Quiet, JournalOnly, isBlocking, BLOCKING

LEMMA EndsX ==
  ASSUME IInv, XInv, Stable, NEW u \in Runs,
         \/ CreateFails(u) \/ KitFails(u) \/ FinalSettled(u) \/ ReviewSettled(u)
         \/ TabCloses(u)
  PROVE  XInv'
<1>1. CASE CreateFails(u) \/ TabCloses(u)
  BY <1>1, SameQuiet, EndX DEF CreateFails, TabCloses
<1>2. CASE KitFails(u)
  <2>1. run[u].rec \in Attempts
    BY <1>2 DEF KitFails, IInv, RunOK, Working
  <2> QED BY <1>2, <2>1, PatchedQuiet, EndX DEF KitFails
<1>3. CASE FinalSettled(u)
  BY <1>3, AppliedQuiet, EndX DEF FinalSettled, Settlers
<1>4. CASE ReviewSettled(u)
  <2>1. run[u].pc = "review" /\ look[u].pc = "done" /\ Finish(u) /\ u \in Settlers
    BY <1>4 DEF ReviewSettled, Settlers
  <2>2. CASE journal' = Applied(u)
    BY <2>1, <2>2, AppliedQuiet, EndX
  <2> PICK a \in Attempts : a = run[u].rec
    BY <2>1 DEF IInv, RunOK
  <2> DEFINE d == [journal[a] EXCEPT !.phase = "released", !.manuallyReleased = TRUE]
  <2>3. CASE journal' = [journal EXCEPT ![a].phase = "released",
                                        ![a].manuallyReleased = TRUE]
    <3>1. journal \in [Attempts -> Attempt] /\ d.phase = "released"
      BY Types DEF Attempt
    <3>2. journal' = [journal EXCEPT ![a] = d]
      BY <2>3, <3>1
    <3> HIDE DEF d
    <3>3. Quiet
      BY <3>1, <3>2 DEF Quiet, isBlocking, BLOCKING
    <3> QED BY <2>1, <3>3, EndX
  <2> QED BY <1>4, <2>2, <2>3 DEF ReviewSettled
<1> QED BY <1>1, <1>2, <1>3, <1>4

LEMMA OpenSettledX ==
  ASSUME IInv, XInv, Stable, NEW u \in Runs, OpenSettled(u)
  PROVE  XInv'
<1>1. run[u].pc = "open" /\ look[u].pc = "done" /\ journal' = Applied(u) /\ u \in Settlers
  BY DEF OpenSettled, Settlers
<1>2. /\ Quiet
      /\ \A b \in Attempts : b = look[u].rec /\ look[u].verdict = "not-sent"
                             => ~isBlocking(b)'
  BY <1>1, AppliedQuiet
<1>3. CASE Finish(u)
  BY <1>2, <1>3, EndX
<1> DEFINE e == [run[u] EXCEPT !.pc = "ready"]
<1>4. CASE /\ look[u].verdict = "not-sent" /\ run' = [run EXCEPT ![u] = e]
           /\ look' = [look EXCEPT ![u] = IdleLook]
  <2>1. e \in Run /\ e.pc = "ready" /\ e.pair = run[u].pair
    BY Types DEF Run
  <2> HIDE DEF e
  <2>2. run'[u] = e /\ \A v \in Runs \ {u} : run'[v] = run[v]
    BY <1>4, <2>1, RunPut
  <2>3. \A v \in Runs \ {u} : look'[v].rec = look[v].rec
    BY <1>4, Types DEF Settlers
  <2>4. run'[u].pair = run[u].pair
    BY <2>1, <2>2
  <2>5. ASSUME Bridged(u)
        PROVE  Fit(u)'
    BY <2>4, <2>5, BridgedStays DEF Fit
  <2>6. ASSUME Alone(u)
        PROVE  Fit(u)'
    <3>1. Own(u) = {look[u].rec}
      BY <1>1 DEF Own
    <3>2. \A b \in Attempts : isBlocking(b)' /\ Shares(journal'[b].pair, run[u].pair) => FALSE
      BY <1>1, <1>2, <1>4, <2>6, <3>1 DEF Alone, Quiet
    <3>3. Alone(u)'
      BY <2>4, <3>2 DEF Alone
    <3> QED BY <3>3 DEF Fit
  <2>7. Fit(u)'
    BY <2>5, <2>6 DEF XInv, Fit
  <2> QED BY <1>2, <2>2, <2>3, <2>7, QuietPage
<1> QED BY <1>1, <1>3, <1>4 DEF OpenSettled

\* The steps of a transfer that ask for its burn, or for what became of it.
LEMMA AsksX ==
  ASSUME IInv, XInv, Stable, ~Crossed, NEW u \in Runs,
         RequestBurn(u) \/ WalletErrors(u) \/ EvmAnswers(u) \/ SolanaSigns(u)
  PROVE  XInv'
<1>1. run[u].pc \in {"kit", "prompt"} /\ UNCHANGED look
  BY DEF RequestBurn, WalletErrors, EvmAnswers, SolanaSigns
<1> PICK a \in Attempts : a = run[u].rec
  BY <1>1 DEF IInv, RunOK, Working
<1>2. journal[a] \in Attempt /\ journal \in [Attempts -> Attempt]
  BY Types
<1>3. PICK pc \in {"prompt", "submit", "after"} : run' = [run EXCEPT ![u].pc = pc]
  BY DEF RequestBurn, WalletErrors, EvmAnswers, SolanaSigns, After
<1> DEFINE e == [run[u] EXCEPT !.pc = pc]
<1>4. e \in Run /\ e.pc = pc /\ e.rec = a /\ e.pair = run[u].pair
  BY Types DEF Run
<1>5. run' = [run EXCEPT ![u] = e]
  BY <1>3
<1> HIDE DEF e
<1>6. run'[u] = e /\ \A v \in Runs \ {u} : run'[v] = run[v]
  BY <1>4, <1>5, RunPut
<1>7. JournalOnly(a) /\ journal'[a].pair = journal[a].pair
  <2>1. CASE journal' = journal
    BY <1>2, <2>1 DEF JournalOnly
  <2>2. CASE journal' = Patched(a, "unknown")
    BY <2>2, PhasePut DEF BLOCKING
  <2>3. CASE journal' = [journal EXCEPT ![a].phase = "sent", ![a].hash = a]
    <3> DEFINE d == [journal[a] EXCEPT !.phase = "sent", !.hash = a]
    <3>1. d \in Attempt /\ d.pair = journal[a].pair
      BY <1>2 DEF Attempt, BLOCKING
    <3>2. journal' = [journal EXCEPT ![a] = d]
      BY <1>2, <2>3
    <3> HIDE DEF d
    <3> QED BY <3>1, <3>2, JournalPut
  <2>4. CASE journal' = [journal EXCEPT ![a].phase = "signed", ![a].signature = TRUE]
    <3> DEFINE d == [journal[a] EXCEPT !.phase = "signed", !.signature = TRUE]
    <3>1. d \in Attempt /\ d.pair = journal[a].pair
      BY <1>2 DEF Attempt, BLOCKING
    <3>2. journal' = [journal EXCEPT ![a] = d]
      BY <1>2, <2>4
    <3> HIDE DEF d
    <3> QED BY <3>1, <3>2, JournalPut
  <2>5. CASE RequestBurn(u)
    <3>1. PICK from \in Nat :
            journal' = [journal EXCEPT ![a].phase = "signing", ![a].from = from]
      <4>1. Horizon("sol") \subseteq Nat
        BY LandedSize, Types
      <4>2. journal[a].from \in Nat
        BY <1>2 DEF Attempt
      <4> QED BY <2>5, <4>1, <4>2 DEF RequestBurn
    <3> DEFINE d == [journal[a] EXCEPT !.phase = "signing", !.from = from]
    <3>2. d \in Attempt /\ d.pair = journal[a].pair
      BY <1>2 DEF Attempt, BLOCKING
    <3>3. journal' = [journal EXCEPT ![a] = d]
      BY <1>2, <3>1
    <3> HIDE DEF d
    <3> QED BY <3>2, <3>3, JournalPut
  <2> QED BY <2>1, <2>2, <2>3, <2>4, <2>5 DEF WalletErrors, EvmAnswers, SolanaSigns, Saved
<1>8. run'[u].pc \in {"prompt", "submit", "after"} /\ run'[u].rec = a
      /\ run'[u].pair = run[u].pair
  BY <1>4, <1>6
<1> QED BY <1>1, <1>6, <1>7, <1>8, ActiveStep

\* The steps of a transfer after which no more blocks.
LEMMA WorksX ==
  ASSUME IInv, XInv, Stable, NEW u \in Runs, WalletRejects(u) \/ Submit(u) \/ Finally(u)
  PROVE  XInv'
<1>1. run[u].pc \in {"prompt", "submit", "after"}
  BY DEF WalletRejects, Submit, Finally
<1> PICK a \in Attempts : a = run[u].rec
  BY <1>1 DEF IInv, RunOK, Working
<1>2. Quiet
  BY SameQuiet, PatchedQuiet DEF WalletRejects, Submit, Finally, Saved
<1>3. CASE Finish(u)
  BY <1>2, <1>3, EndX
<1>4. ASSUME NEW pc \in {"after", "final"}, run' = [run EXCEPT ![u].pc = pc],
             \A t \in Settlers \ {u} : look'[t] = look[t]
      PROVE  XInv'
  <2> DEFINE e == [run[u] EXCEPT !.pc = pc]
  <2>1. e \in Run /\ e.pc = pc /\ e.rec = a /\ e.pair = run[u].pair
    BY Types DEF Run
  <2>2. run' = [run EXCEPT ![u] = e]
    BY <1>4
  <2> HIDE DEF e
  <2>3. run'[u] = e /\ \A v \in Runs \ {u} : run'[v] = run[v]
    BY <2>1, <2>2, RunPut
  <2>4. Own(u) = {a} /\ Own(u)' = {a}
    BY <1>1, <2>1, <2>3 DEF Own
  <2>5. Fit(u)'
    BY <1>1, <1>2, <2>1, <2>3, <2>4, GoesOnFit DEF Working
  <2>6. \A v \in Runs \ {u} : look'[v].rec = look[v].rec
    BY <1>4 DEF Settlers
  <2> QED BY <1>2, <2>3, <2>5, <2>6, QuietPage
<1>5. CASE After(u) /\ UNCHANGED look
  BY <1>4, <1>5 DEF After
<1>6. CASE run' = [run EXCEPT ![u].pc = "final"] /\ LookAt(u, a) /\ isBlocking(a)
  BY <1>4, <1>6, Looks DEF Settlers
<1> QED BY <1>3, <1>5, <1>6 DEF WalletRejects, Submit, Finally

\* A settling reads, and writes nothing yet.
LEMMA SettlingX ==
  ASSUME IInv, XInv, Stable, NEW s \in Settlers,
         \/ ReadHash(s) \/ ReadSignature(s) \/ Search(s) \/ ReadExpiry(s)
         \/ ReadAgain(s) \/ ReadFails(s)
  PROVE  XInv'
<1>1. UNCHANGED <<journal, run>>
  BY DEF ReadHash, ReadSignature, Search, ReadExpiry, ReadAgain, ReadFails
<1>2. \/ \E verdict, tx : Decided(s, verdict, tx)
      \/ \E pc : Goes(s, pc)
  BY Zenon DEF ReadHash, ReadSignature, Search, ReadExpiry, ReadAgain, ReadFails
<1>3. \A v \in Runs : look'[v].rec = look[v].rec
  <2>1. ASSUME NEW verdict, NEW tx, Decided(s, verdict, tx)
        PROVE  look' = [look EXCEPT ![s] = look'[s]] /\ look'[s].rec = look[s].rec
    BY <2>1, Types DEF Decided, IdleLook
  <2>2. ASSUME NEW pc, Goes(s, pc)
        PROVE  look' = [look EXCEPT ![s] = look'[s]] /\ look'[s].rec = look[s].rec
    BY <2>2, Types DEF Goes, Look
  <2>3. look' = [look EXCEPT ![s] = look'[s]] /\ look'[s].rec = look[s].rec
    BY <1>2, <2>1, <2>2
  <2> QED BY <2>3, Types DEF Settlers
<1>4. Quiet
  BY <1>1, SameQuiet
<1> QED BY <1>1, <1>3, <1>4, QuietElsewhere

LEMMA CheckX ==
  ASSUME IInv, XInv, Stable, NEW c \in Checkers,
         (\E pair \in Pairs : Check(c, pair)) \/ CheckSettled(c)
  PROVE  XInv'
<1>1. c \in Settlers /\ c \notin Runs
  BY SolanaAssumption DEF Settlers
<1>2. CASE \E pair \in Pairs : Check(c, pair)
  <2>1. PICK a \in Attempts : LookAt(c, a) /\ isBlocking(a)
    BY <1>2 DEF Check, Open
  <2>2. \A v \in Runs : look'[v].rec = look[v].rec
    BY <1>1, <2>1, Looks DEF Settlers
  <2>3. Quiet /\ UNCHANGED run
    BY <1>2, SameQuiet DEF Check
  <2> QED BY <2>2, <2>3, QuietElsewhere
<1>3. CASE CheckSettled(c)
  <2>1. \A v \in Runs : look'[v].rec = look[v].rec
    BY <1>1, <1>3, Types DEF CheckSettled, Settlers
  <2>2. Quiet /\ UNCHANGED run
    BY <1>1, <1>3, AppliedQuiet DEF CheckSettled
  <2> QED BY <2>1, <2>2, QuietElsewhere
<1> QED BY <1>2, <1>3

LEMMA InitXInv == Init => XInv
<1> SUFFICES ASSUME Init PROVE XInv
  OBVIOUS
<1>1. \A a \in Attempts : ~isBlocking(a)
  BY DEF Init, isBlocking, BLOCKING, NoAttempt
<1> QED BY <1>1 DEF XInv, OneOpen, Fit, Alone

LEMMA StepXInv ==
  IInv /\ (~Crossed => XInv) /\ [Next]_vars => (~Crossed => XInv)'
<1> SUFFICES ASSUME IInv, ~Crossed => XInv, [Next]_vars, ~Crossed' PROVE XInv'
  OBVIOUS
<1>0. Stable /\ ~Crossed /\ XInv
  BY StepStable, CrossedStays
<1>1. CASE UNCHANGED <<journal, run, look>>
  BY <1>0, <1>1, SameQuiet, QuietElsewhere
<1>2. CASE \E u \in Runs, pair \in Pairs : Start(u, pair)
  BY <1>0, <1>2, StartX
<1>3. CASE \/ \E u \in Runs, a \in Attempts, side \in Sides : Create(u, a, side)
         \/ \E u \in Runs, a \in Attempts : Review(u, a)
  BY <1>0, <1>3, CreateX, ReviewX
<1>4. ASSUME NEW u \in Runs,
             \/ CreateFails(u) \/ KitFails(u) \/ FinalSettled(u) \/ ReviewSettled(u)
             \/ TabCloses(u) \/ OpenSettled(u)
      PROVE  XInv'
  BY <1>0, <1>4, EndsX, OpenSettledX
<1>5. ASSUME NEW u \in Runs,
             \/ RequestBurn(u) \/ WalletErrors(u) \/ EvmAnswers(u) \/ SolanaSigns(u)
             \/ WalletRejects(u) \/ Submit(u) \/ Finally(u)
      PROVE  XInv'
  BY <1>0, <1>5, AsksX, WorksX
<1>6. ASSUME NEW s \in Settlers,
             \/ ReadHash(s) \/ ReadSignature(s) \/ Search(s) \/ ReadExpiry(s)
             \/ ReadAgain(s) \/ ReadFails(s)
      PROVE  XInv'
  BY <1>0, <1>6, SettlingX
<1>7. ASSUME NEW c \in Checkers, (\E pair \in Pairs : Check(c, pair)) \/ CheckSettled(c)
      PROVE  XInv'
  BY <1>0, <1>7, CheckX
<1>8. ASSUME NEW a \in Attempts,
             Broadcast(a) \/ Process(a) \/ Confirm(a) \/ Fail(a) \/ Expire(a)
      PROVE  UNCHANGED <<journal, run, look>>
  BY <1>8 DEF Broadcast, Process, Confirm, Fail, Expire
<1>9. CASE UNCHANGED vars
  BY <1>1, <1>9 DEF vars
<1> QED BY <1>1, <1>2, <1>3, <1>4, <1>5, <1>6, <1>7, <1>8, <1>9 DEF Next

\* No wallet has two burns that may still be made, whatever pairs it is used in and
\* whoever asks, until a pair has been used that shares a wallet with two attempts
\* which share none: of several open attempts a transfer settles only the first.
THEOREM SolanaOneLiveBurn == Spec => []OneLiveBurn
<1>1. IInv /\ (~Crossed => XInv) => OneLiveBurn
  BY LiveIsOpen DEF XInv, OneOpen, OneLiveBurn
<1>2. Init => (~Crossed => XInv)
  BY InitXInv
<1> QED BY <1>1, <1>2, InitIInv, StepIInv, StepXInv, PTL DEF Spec
=============================================================================
