--------------------------- MODULE CctpMintProofs ---------------------------
(***************************************************************************)
(* Theorems about CctpMint, for any number of records, callers, recovery   *)
(* loops and mint requests.                                                *)
(***************************************************************************)
EXTENDS CctpMint, TLAPS

(***************************************************************************)
(* The inductive invariant.                                                *)
(***************************************************************************)
\* The burn a record stands for, whether it knows its hash or not.
Own(r) == IF r \in Burns THEN r ELSE BurnOf[r]

\* The receive side has the record.
Tracked(r) == queue[r].stage \notin {"none", "burning"}

\* What an inspection of b found may be out of date, but was true.
Found(found, b) ==
  /\ found \in Evidence
  /\ found # "waiting_attestation" => b \in attested
  /\ found = "complete" => b \in used

\* A record names no burn but its own, and once tracked it names it.
QueueOK ==
  \A r \in Records : /\ queue[r].sourceTx \in {None, Own(r)}
                     /\ Tracked(r) => queue[r].sourceTx = Own(r)

MintOK ==
  \A x \in Tx : mints[x].status # "unused" => mints[x].rec \in Records /\ mints[x].burn \in attested

LiveOf(x, r) == mints[x].status \in Live /\ mints[x].rec = r

\* What an invocation has read still holds for as long as it needs it; under
\* the lock, and until it asks for a mint itself, its record has no live one.
CallerOK(c) ==
  LET pc == caller[c].pc
      r == caller[c].rec
  IN  /\ pc = "import" => caller[c].burn \in Burns
      /\ pc \in {"import", "begin", "request"} => Found(caller[c].found, caller[c].burn)
      /\ pc \notin {"idle", "import"} => r \in Records /\ Tracked(r) /\ caller[c].burn = Own(r)
      /\ pc \notin {"idle", "import", "attest"} => mintLock[r] = c
      /\ pc \in {"check", "begin", "prepare", "request"} => \A x \in Tx : ~LiveOf(x, r)
      /\ pc \in {"prompt", "receipt", "verify"} =>
           caller[c].tx \in Tx /\ \A x \in Tx : LiveOf(x, r) => x = caller[c].tx

\* What a loop has read was true of a tracked record.
PollOK(p, r) ==
  LET d == poll[p][r]
  IN  /\ d.pc # "idle" => Tracked(r) /\ d.snap.sourceTx = Own(r)
      /\ d.pc = "apply" => Found(d.found, Own(r))

IInv == /\ TypeOK /\ QueueOK /\ MintOK
        /\ \A c \in Callers : CallerOK(c)
        /\ \A p \in Pollers, r \in Records : PollOK(p, r)
        /\ LiveMintIsMarked /\ OneLiveMint /\ CompleteIsReceived

-----------------------------------------------------------------------------
(***************************************************************************)
(* Lemmas about the parts of a step.                                       *)
(***************************************************************************)
LEMMA Put ==
  ASSUME NEW S, NEW T, NEW f \in [S -> T], NEW i \in S, NEW e \in T, NEW g,
         g = [f EXCEPT ![i] = e]
  PROVE  g \in [S -> T] /\ g[i] = e /\ \A j \in S \ {i} : g[j] = f[j]
  OBVIOUS

LEMMA OwnIsBurn ==
  ASSUME NEW r \in Records
  PROVE  Own(r) \in Burns /\ Own(r) # None
  BY MintAssumption DEF Own, Records

LEMMA Idles ==
  /\ IdleCaller \in CallerState /\ IdleCaller.pc = "idle"
  /\ NoRecord \in Record /\ NoRecord.stage = "none" /\ NoRecord.sourceTx = None
  /\ ~NoRecord.mintRequested
  /\ IdlePoll \in PollState /\ IdlePoll.pc = "idle"
  /\ UnusedTx \in Mint /\ UnusedTx.status = "unused"
  BY DEF IdleCaller, CallerState, NoRecord, Record, IdlePoll, PollState, UnusedTx, Mint,
         Stage

LEMMA InspectFacts ==
  ASSUME NEW b
  PROVE  Found(Inspect(b), b)
  BY DEF Found, Inspect, Evidence

(***************************************************************************)
(* What every step keeps of the queue and of what is known of the burns.   *)
(***************************************************************************)
Grows ==
  /\ queue' \in [Records -> Record]
  /\ QueueOK' /\ CompleteIsReceived'
  /\ \A r \in Records : Tracked(r) => Tracked(r)'
  /\ used \subseteq used' /\ attested \subseteq attested'
  /\ used' \subseteq attested' /\ attested' \subseteq Burns

\* A write of one record that takes neither its burn nor its place from it, and
\* completes it only when its nonce is consumed.
LEMMA WriteGrows ==
  ASSUME IInv, UNCHANGED <<used, attested>>,
         queue' \in [Records -> Record], NEW r \in Records,
         \A s \in Records \ {r} : queue'[s] = queue[s],
         queue'[r].sourceTx \in {None, Own(r)},
         Tracked(r) => Tracked(r)',
         Tracked(r)' => queue'[r].sourceTx = Own(r),
         queue'[r].stage = "complete" => queue[r].stage = "complete" \/ Own(r) \in used
  PROVE  Grows
<1>1. QueueOK'
  BY DEF IInv, QueueOK, Tracked
<1>2. CompleteIsReceived'
  <2>1. queue'[r].stage = "complete" => queue'[r].sourceTx \in used'
    BY DEF Tracked, IInv, QueueOK, CompleteIsReceived
  <2>2. \A s \in Records \ {r} : queue'[s].stage = "complete" => queue'[s].sourceTx \in used'
    BY DEF IInv, CompleteIsReceived
  <2> QED BY <2>1, <2>2 DEF CompleteIsReceived
<1>3. \A s \in Records : Tracked(s) => Tracked(s)'
  BY DEF Tracked
<1> QED BY <1>1, <1>2, <1>3 DEF Grows, IInv, TypeOK

\* A tracked record keeps its burn and gets another stage the receive side has.
LEMMA StageGrows ==
  ASSUME IInv, UNCHANGED <<used, attested>>,
         queue' \in [Records -> Record], NEW r \in Records, Tracked(r),
         \A s \in Records \ {r} : queue'[s] = queue[s],
         queue'[r].sourceTx = queue[r].sourceTx,
         queue'[r].stage \notin {"none", "burning"},
         queue'[r].stage = "complete" => queue[r].stage = "complete" \/ Own(r) \in used
  PROVE  Grows
<1>1. queue[r].sourceTx = Own(r)
  BY DEF IInv, QueueOK
<1> QED BY <1>1, WriteGrows DEF Tracked

\* The queue stays, and no burn is forgotten.
LEMMA SameGrows ==
  ASSUME IInv, UNCHANGED queue, used \subseteq used', attested \subseteq attested',
         used' \subseteq attested', attested' \subseteq Burns
  PROVE  Grows
  BY DEF IInv, TypeOK, QueueOK, CompleteIsReceived, Tracked, Grows

LEMMA Types ==
  ASSUME IInv
  PROVE  /\ TypeOK
         /\ queue \in [Records -> Record]
         /\ used \subseteq attested /\ attested \subseteq Burns
  BY DEF IInv, TypeOK

(***************************************************************************)
(* What every step but a request keeps of the requests.                    *)
(***************************************************************************)
MintsKeep ==
  /\ mints' \in [Tx -> Mint]
  /\ \A x \in Tx : /\ mints'[x].rec = mints[x].rec /\ mints'[x].burn = mints[x].burn
                   /\ mints'[x].status = "unused" <=> mints[x].status = "unused"
                   /\ mints'[x].status \in Live => mints[x].status \in Live

LEMMA SameMints ==
  ASSUME TypeOK, UNCHANGED mints
  PROVE  MintsKeep
  BY DEF TypeOK, MintsKeep

\* A request changes its status.
LEMMA StatusKeeps ==
  ASSUME TypeOK, NEW x \in Tx,
         NEW status \in Live \cup {"rejected", "success", "reverted"},
         mints' = [mints EXCEPT ![x].status = status],
         mints[x].status \in Live
  PROVE  MintsKeep /\ mints'[x].status = status
<1> DEFINE e == [mints[x] EXCEPT !.status = status]
<1>1. mints \in [Tx -> Mint] /\ mints[x] \in Mint
  BY DEF TypeOK
<1>2. /\ e \in Mint /\ e.status = status /\ e.rec = mints[x].rec /\ e.burn = mints[x].burn
  BY <1>1 DEF Mint, Live
<1>3. mints' = [mints EXCEPT ![x] = e]
  OBVIOUS
<1> HIDE DEF e
<1>4. mints' \in [Tx -> Mint] /\ mints'[x] = e /\ \A y \in Tx \ {x} : mints'[y] = mints[y]
  BY <1>1, <1>2, <1>3, Put
<1>5. status # "unused" /\ mints[x].status # "unused"
  BY DEF Live
<1> QED BY <1>2, <1>4, <1>5 DEF MintsKeep

LEMMA MintsKeepOK ==
  ASSUME IInv, MintsKeep, Grows
  PROVE  MintOK' /\ OneLiveMint'
  BY DEF IInv, MintOK, OneLiveMint, MintsKeep, Grows

\* The marks of live requests stay when none is erased.
LEMMA MarksKept ==
  ASSUME IInv, MintsKeep,
         \A r \in Records : queue[r].mintRequested => queue'[r].mintRequested
  PROVE  LiveMintIsMarked'
<1>1. \A x \in Tx : mints'[x].status \in Live => mints[x].rec \in Records
  BY DEF IInv, MintOK, MintsKeep, Live
<1> QED BY <1>1 DEF IInv, LiveMintIsMarked, MintsKeep

\* They may be erased from a record that has no live request any more.
LEMMA MarksErased ==
  ASSUME IInv, MintsKeep, NEW r \in Records,
         \A s \in Records \ {r} : queue[s].mintRequested => queue'[s].mintRequested,
         \A x \in Tx : ~LiveOf(x, r)'
  PROVE  LiveMintIsMarked'
<1>1. \A x \in Tx : mints'[x].status \in Live =>
        mints[x].status \in Live /\ mints[x].rec \in Records \ {r}
  BY DEF IInv, MintOK, MintsKeep, Live, LiveOf
<1> QED BY <1>1 DEF IInv, LiveMintIsMarked, MintsKeep

(***************************************************************************)
(* Invocations and loops that do not move.                                 *)
(***************************************************************************)
LEMMA CallerStays ==
  ASSUME IInv, Grows, NEW c \in Callers, caller'[c] = caller[c],
         \A r \in Records : mintLock[r] = c => mintLock'[r] = c,
         \A x \in Tx : LiveOf(x, caller[c].rec)' /\ mintLock[caller[c].rec] = c
                         => LiveOf(x, caller[c].rec)
  PROVE  CallerOK(c)'
<1>1. CallerOK(c)
  BY DEF IInv
<1>2. \A found, b : Found(found, b) => Found(found, b)'
  BY DEF Found, Grows
<1> DEFINE pc == caller[c].pc
           r == caller[c].rec
<1>4. /\ pc = "import" => caller[c].burn \in Burns
      /\ pc \in {"import", "begin", "request"} => Found(caller[c].found, caller[c].burn)'
      /\ pc \notin {"idle", "import"} => r \in Records /\ Tracked(r)' /\ caller[c].burn = Own(r)
      /\ pc \notin {"idle", "import", "attest"} => mintLock'[r] = c
  BY <1>1, <1>2 DEF CallerOK, Grows
<1>5. /\ pc \in {"check", "begin", "prepare", "request"} => \A x \in Tx : ~LiveOf(x, r)'
      /\ pc \in {"prompt", "receipt", "verify"} =>
           caller[c].tx \in Tx /\ \A x \in Tx : LiveOf(x, r)' => x = caller[c].tx
  BY <1>1 DEF CallerOK
<1> QED BY <1>4, <1>5 DEF CallerOK, Found, Tracked, LiveOf

LEMMA PollStays ==
  ASSUME IInv, Grows, NEW p \in Pollers, NEW r \in Records, poll'[p][r] = poll[p][r]
  PROVE  PollOK(p, r)'
<1>1. PollOK(p, r)
  BY DEF IInv
<1>2. \A found, b : Found(found, b) => Found(found, b)'
  BY DEF Found, Grows
<1> QED BY <1>1, <1>2 DEF PollOK, Grows, Found, Tracked

\* A step of an invocation: everybody else is where he was.
LEMMA CallerStep ==
  ASSUME IInv, Grows, MintsKeep, LiveMintIsMarked', UNCHANGED poll,
         NEW c \in Callers, caller' \in [Callers -> CallerState],
         mintLock' \in [Records -> Callers \cup {None}],
         \A d \in Callers \ {c} : caller'[d] = caller[d],
         \A r \in Records, d \in Callers \ {c} : mintLock[r] = d => mintLock'[r] = d,
         CallerOK(c)'
  PROVE  IInv'
<1>1. MintOK' /\ OneLiveMint'
  BY MintsKeepOK
<1>2. \A x \in Tx, r \in Records \cup {None} : LiveOf(x, r)' => LiveOf(x, r)
  BY DEF LiveOf, MintsKeep
<1>3. \A d \in Callers : caller[d].rec \in Records \cup {None}
  BY DEF IInv, TypeOK, CallerState
<1>4. ASSUME NEW d \in Callers \ {c}
      PROVE  CallerOK(d)'
  BY <1>2, <1>3, <1>4, CallerStays DEF LiveOf
<1>5. \A p \in Pollers, r \in Records : PollOK(p, r)'
  BY PollStays
<1>6. TypeOK'
  BY DEF IInv, TypeOK, Grows, MintsKeep
<1> QED BY <1>1, <1>4, <1>5, <1>6 DEF IInv, Grows

\* A step that no invocation takes.
LEMMA OutsideStep ==
  ASSUME IInv, Grows, MintsKeep, LiveMintIsMarked', UNCHANGED <<caller, mintLock>>,
         poll' \in [Pollers -> [Records -> PollState]],
         \A p \in Pollers, r \in Records : PollOK(p, r)'
  PROVE  IInv'
<1>1. MintOK' /\ OneLiveMint'
  BY MintsKeepOK
<1>2. \A x \in Tx, r \in Records \cup {None} : LiveOf(x, r)' => LiveOf(x, r)
  BY DEF LiveOf, MintsKeep
<1>3. \A d \in Callers : caller[d].rec \in Records \cup {None}
  BY DEF IInv, TypeOK, CallerState
<1>4. ASSUME NEW d \in Callers
      PROVE  CallerOK(d)'
  BY <1>2, <1>3, <1>4, CallerStays DEF LiveOf
<1>5. TypeOK'
  BY DEF IInv, TypeOK, Grows, MintsKeep
<1> QED BY <1>1, <1>4, <1>5 DEF IInv, Grows

\* The end of an invocation frees its lock and nothing else.
LEMMA FinishOK ==
  ASSUME TypeOK, NEW c \in Callers, Finish(c)
  PROVE  /\ caller' \in [Callers -> CallerState]
         /\ mintLock' \in [Records -> Callers \cup {None}]
         /\ \A d \in Callers \ {c} : caller'[d] = caller[d]
         /\ \A r \in Records, d \in Callers \ {c} : mintLock[r] = d => mintLock'[r] = d
         /\ CallerOK(c)'
<1>1. /\ caller' \in [Callers -> CallerState] /\ caller'[c] = IdleCaller
      /\ \A d \in Callers \ {c} : caller'[d] = caller[d]
  <2> HIDE DEF IdleCaller
  <2> QED BY Idles, Put DEF Finish, TypeOK
<1>2. /\ mintLock' \in [Records -> Callers \cup {None}]
      /\ \A r \in Records, d \in Callers \ {c} : mintLock[r] = d => mintLock'[r] = d
  BY DEF Finish, TypeOK
<1>3. caller'[c].pc = "idle"
  BY <1>1, Idles
<1>4. CallerOK(c)'
  BY <1>3 DEF CallerOK
<1> QED BY <1>1, <1>2, <1>4

-----------------------------------------------------------------------------
(***************************************************************************)
(* The send side, Circle, the wallet and the chain.                        *)
(***************************************************************************)
LEMMA SendSideStep ==
  ASSUME IInv, NEW r \in Records, LearnHash(r) \/ ConfirmBurn(r)
  PROVE  IInv'
<1>1. UNCHANGED <<mintLock, caller, poll, mints, attested, used>>
  BY DEF LearnHash, ConfirmBurn
<1>2. PICK new \in Record :
        /\ queue' = [queue EXCEPT ![r] = new]
        /\ new.mintRequested = queue[r].mintRequested
        /\ new.sourceTx \in {None, Own(r)} /\ ~Tracked(r)
        /\ new.stage \notin {"none", "burning"} => new.sourceTx = Own(r)
        /\ new.stage # "complete"
  <2>1. queue[r] \in Record /\ queue[r].stage = "burning"
    BY DEF LearnHash, ConfirmBurn, IInv, TypeOK
  <2>2. CASE LearnHash(r)
    <3> DEFINE e == [queue[r] EXCEPT !.sourceTx = BurnOf[r]]
    <3>1. r \in Plans /\ BurnOf[r] = Own(r) /\ BurnOf[r] \in Burns
      BY <2>2, MintAssumption DEF LearnHash, Own
    <3>2. /\ e \in Record /\ e.sourceTx = Own(r) /\ e.stage = "burning"
          /\ e.mintRequested = queue[r].mintRequested
      BY <2>1, <3>1 DEF Record
    <3>3. queue' = [queue EXCEPT ![r] = e]
      BY <2>2 DEF LearnHash
    <3> HIDE DEF e
    <3> QED BY <2>1, <3>2, <3>3 DEF Tracked
  <2>3. CASE ConfirmBurn(r)
    <3> DEFINE e == [queue[r] EXCEPT !.stage = "waiting_attestation"]
    <3>1. queue[r].sourceTx = Own(r)
      BY <2>3 DEF ConfirmBurn, IInv, QueueOK
    <3>2. /\ e \in Record /\ e.sourceTx = Own(r) /\ e.stage = "waiting_attestation"
          /\ e.mintRequested = queue[r].mintRequested
      BY <2>1, <3>1 DEF Record, Stage
    <3>3. queue' = [queue EXCEPT ![r] = e]
      BY <2>3 DEF ConfirmBurn
    <3> HIDE DEF e
    <3> QED BY <2>1, <3>2, <3>3 DEF Tracked
  <2> QED BY <2>2, <2>3
<1>3. /\ queue' \in [Records -> Record] /\ queue'[r] = new
      /\ \A s \in Records \ {r} : queue'[s] = queue[s]
  <2>1. queue \in [Records -> Record]
    BY DEF IInv, TypeOK
  <2> QED BY <1>2, <2>1, Put
<1>4. Grows
  BY <1>1, <1>2, <1>3, WriteGrows DEF Tracked
<1>5. MintsKeep
  BY <1>1, SameMints DEF IInv
<1>6. LiveMintIsMarked'
  BY <1>2, <1>3, <1>5, MarksKept
<1>7. \A p \in Pollers, s \in Records : PollOK(p, s)'
  BY <1>1, <1>4, PollStays
<1> QED BY <1>1, <1>4, <1>5, <1>6, <1>7, OutsideStep DEF IInv, TypeOK

\* Nothing but what is known of burns and requests changes.
LEMMA ChainOK ==
  ASSUME IInv, MintsKeep, UNCHANGED <<queue, mintLock, caller, poll>>,
         used \subseteq used', attested \subseteq attested',
         used' \subseteq attested', attested' \subseteq Burns
  PROVE  IInv'
<1>1. Grows
  BY SameGrows
<1>2. LiveMintIsMarked'
  BY MarksKept
<1>3. \A p \in Pollers, r \in Records : PollOK(p, r)'
  BY <1>1, PollStays
<1> QED BY <1>1, <1>2, <1>3, OutsideStep DEF IInv, TypeOK

LEMMA ChainStep ==
  ASSUME IInv,
         \/ \E b \in Burns : CircleSigns(b) \/ ReceivedElsewhere(b)
         \/ \E x \in Tx : Broadcast(x) \/ MineSuccess(x) \/ MineReverted(x)
  PROVE  IInv'
<1>1. used \subseteq attested /\ attested \subseteq Burns
  BY Types
<1>2. CASE \E b \in Burns : CircleSigns(b) \/ ReceivedElsewhere(b)
  <2>1. UNCHANGED <<queue, mintLock, caller, poll, mints>>
    BY <1>2 DEF CircleSigns, ReceivedElsewhere
  <2>2. /\ used \subseteq used' /\ attested \subseteq attested'
        /\ used' \subseteq attested' /\ attested' \subseteq Burns
    BY <1>1, <1>2 DEF CircleSigns, ReceivedElsewhere
  <2> QED BY <2>1, <2>2, SameMints, ChainOK DEF IInv
<1>3. ASSUME NEW x \in Tx, Broadcast(x) \/ MineReverted(x)
      PROVE  IInv'
  <2>1. UNCHANGED <<queue, mintLock, caller, poll, used, attested>>
    BY <1>3 DEF Broadcast, MineReverted
  <2>2. MintsKeep
    BY <1>3, StatusKeeps DEF Broadcast, MineReverted, IInv, Live
  <2> QED BY <1>1, <2>1, <2>2, ChainOK
<1>4. ASSUME NEW x \in Tx, MineSuccess(x)
      PROVE  IInv'
  <2>1. /\ UNCHANGED <<queue, mintLock, caller, poll, attested>>
        /\ used' = used \cup {mints[x].burn} /\ mints[x].status = "pending"
    BY <1>4 DEF MineSuccess
  <2>2. mints[x].burn \in attested
    BY <2>1 DEF IInv, MintOK
  <2>3. MintsKeep
    BY <1>4, StatusKeeps DEF MineSuccess, IInv, Live
  <2> QED BY <1>1, <2>1, <2>2, <2>3, ChainOK
<1> QED BY <1>2, <1>3, <1>4

(***************************************************************************)
(* The recovery loop.                                                      *)
(***************************************************************************)
\* A loop that reads or gives up changes nothing but itself.
LEMMA PollReads ==
  ASSUME IInv, UNCHANGED <<queue, mintLock, caller, mints, attested, used>>,
         poll' \in [Pollers -> [Records -> PollState]],
         \A p \in Pollers, r \in Records : poll'[p][r] = poll[p][r] \/ PollOK(p, r)'
  PROVE  IInv'
<1>1. MintsKeep /\ Grows
  BY SameMints, SameGrows, Types DEF IInv
<1>2. LiveMintIsMarked'
  BY <1>1, MarksKept
<1>3. \A p \in Pollers, r \in Records : PollOK(p, r)'
  BY <1>1, PollStays
<1> QED BY <1>1, <1>2, <1>3, OutsideStep

\* One loop writes what it knows of one record.
LEMMA PollPut ==
  ASSUME TypeOK, NEW p \in Pollers, NEW r \in Records, NEW e \in PollState,
         poll' = [poll EXCEPT ![p][r] = e]
  PROVE  /\ poll' \in [Pollers -> [Records -> PollState]] /\ poll'[p][r] = e
         /\ \A q \in Pollers, s \in Records : q # p \/ s # r => poll'[q][s] = poll[q][s]
<1>1. poll \in [Pollers -> [Records -> PollState]]
  BY DEF TypeOK
<1> DEFINE row == [poll[p] EXCEPT ![r] = e]
<1>2. /\ row \in [Records -> PollState] /\ row[r] = e
      /\ \A s \in Records \ {r} : row[s] = poll[p][s]
  BY <1>1, Put
<1>3. poll' = [poll EXCEPT ![p] = row]
  OBVIOUS
<1> HIDE DEF row
<1>4. /\ poll' \in [Pollers -> [Records -> PollState]] /\ poll'[p] = row
      /\ \A q \in Pollers \ {p} : poll'[q] = poll[q]
  BY <1>1, <1>2, <1>3, Put
<1> QED BY <1>2, <1>4

LEMMA CycleStartStep ==
  ASSUME IInv, NEW p \in Pollers, CycleStart(p)
  PROVE  IInv'
<1>1. PICK batch \in SUBSET Recoverable :
        poll' = [poll EXCEPT ![p] = [r \in Records |->
          IF r \in batch THEN [IdlePoll EXCEPT !.pc = "read", !.snap = queue[r]]
                         ELSE IdlePoll]]
  BY DEF CycleStart
<1> DEFINE entry(r) == IF r \in batch THEN [IdlePoll EXCEPT !.pc = "read", !.snap = queue[r]]
                       ELSE IdlePoll
           row == [r \in Records |-> entry(r)]
<1>2. ASSUME NEW r \in Records
      PROVE  /\ entry(r) \in PollState
             /\ \/ entry(r).pc = "idle"
                \/ /\ entry(r).pc = "read" /\ entry(r).snap.sourceTx = Own(r)
                   /\ Tracked(r)
  <2>1. queue[r] \in Record /\ IdlePoll \in PollState
    BY Idles DEF IInv, TypeOK
  <2>2. r \in batch => Tracked(r) /\ queue[r].sourceTx = Own(r)
    BY DEF Recoverable, Follows, Tracked, IInv, QueueOK
  <2> QED BY <2>1, <2>2 DEF IdlePoll, PollState
<1>3. row \in [Records -> PollState] /\ \A r \in Records : row[r] = entry(r)
  BY <1>2
<1>4. poll' = [poll EXCEPT ![p] = row]
  BY <1>1
<1> HIDE DEF row, entry
<1>5. /\ poll' \in [Pollers -> [Records -> PollState]] /\ poll'[p] = row
      /\ \A q \in Pollers \ {p} : poll'[q] = poll[q]
  <2>1. poll \in [Pollers -> [Records -> PollState]]
    BY DEF IInv, TypeOK
  <2> QED BY <1>3, <1>4, <2>1, Put
<1>6. UNCHANGED <<queue, mintLock, caller, mints, attested, used>>
  BY DEF CycleStart
<1>7. \A r \in Records : PollOK(p, r)'
  BY <1>2, <1>3, <1>5, <1>6 DEF PollOK, Tracked
<1> QED BY <1>5, <1>6, <1>7, PollReads

LEMMA InspectPolledStep ==
  ASSUME IInv, NEW p \in Pollers, NEW r \in Records, InspectPolled(p, r)
  PROVE  IInv'
<1> DEFINE d == poll[p][r]
           e == [d EXCEPT !.pc = "apply", !.found = Inspect(d.snap.sourceTx)]
<1>1. d \in PollState /\ d.pc = "read"
  BY DEF InspectPolled, IInv, TypeOK
<1>2. Tracked(r) /\ d.snap.sourceTx = Own(r)
  BY <1>1 DEF IInv, PollOK
<1>3. Found(Inspect(Own(r)), Own(r)) /\ Inspect(Own(r)) \in Evidence
  BY InspectFacts DEF Found
<1>4. /\ e \in PollState /\ e.pc = "apply" /\ e.snap.sourceTx = Own(r)
      /\ e.found = Inspect(Own(r))
  BY <1>1, <1>2, <1>3 DEF PollState
<1>5. /\ poll' = [poll EXCEPT ![p][r] = e]
      /\ UNCHANGED <<queue, mintLock, caller, mints, attested, used>>
  BY DEF InspectPolled
<1> HIDE DEF d, e
<1>6. /\ poll' \in [Pollers -> [Records -> PollState]] /\ poll'[p][r] = e
      /\ \A q \in Pollers, s \in Records : q # p \/ s # r => poll'[q][s] = poll[q][s]
  <2>1. TypeOK /\ e \in PollState
    BY <1>4, Types
  <2> QED BY <1>5, <2>1, PollPut, ZenonT(40)
<1>7. PollOK(p, r)'
  BY <1>2, <1>3, <1>4, <1>5, <1>6 DEF PollOK, Tracked, Found
<1> QED BY <1>5, <1>6, <1>7, PollReads

LEMMA PollFailsStep ==
  ASSUME IInv, NEW p \in Pollers, NEW r \in Records, PollFails(p, r)
  PROVE  IInv'
<1>1. /\ poll' = [poll EXCEPT ![p][r] = IdlePoll]
      /\ UNCHANGED <<queue, mintLock, caller, mints, attested, used>>
  BY DEF PollFails
<1>2. /\ poll' \in [Pollers -> [Records -> PollState]] /\ poll'[p][r] = IdlePoll
      /\ \A q \in Pollers, s \in Records : q # p \/ s # r => poll'[q][s] = poll[q][s]
  <2>1. TypeOK /\ IdlePoll \in PollState
    BY Idles, Types
  <2> QED BY <1>1, <2>1, PollPut, ZenonT(40)
<1>3. PollOK(p, r)'
  BY <1>2, Idles DEF PollOK
<1> QED BY <1>1, <1>2, <1>3, PollReads

\* A late decision of the loop takes no mark away, and it completes only what was
\* received.
LEMMA ApplyPolledStep ==
  ASSUME IInv, NEW p \in Pollers, NEW r \in Records, ApplyPolled(p, r)
  PROVE  IInv'
<1> DEFINE d == poll[p][r]
           stage == PolledStage(d.snap, d.found)
           new == [queue[r] EXCEPT !.stage = stage]
<1>1. /\ d.pc = "apply" /\ Tracked(r) /\ Found(d.found, Own(r))
  BY DEF ApplyPolled, IInv, PollOK
<1>2. /\ stage \in Evidence \cup {"minting"}
      /\ stage = "complete" => Own(r) \in used
  BY <1>1 DEF PolledStage, Found, Evidence
<1>3. queue[r] \in Record /\ queue \in [Records -> Record]
  BY DEF IInv, TypeOK
<1>4. /\ new \in Record /\ new.stage = stage /\ new.sourceTx = queue[r].sourceTx
      /\ new.mintRequested = queue[r].mintRequested
  BY <1>2, <1>3 DEF Record, Evidence, Stage
<1>5. /\ queue' = Updated(queue, r, new) /\ poll' = [poll EXCEPT ![p][r] = IdlePoll]
      /\ UNCHANGED <<mintLock, caller, mints, attested, used>>
  BY DEF ApplyPolled
<1> HIDE DEF d, stage, new
<1>6. /\ queue' \in [Records -> Record] /\ queue'[r] = new
      /\ \A s \in Records \ {r} : queue'[s] = queue[s]
  BY <1>1, <1>3, <1>4, <1>5 DEF Tracked, Updated
<1>7. Grows
  BY <1>1, <1>2, <1>4, <1>5, <1>6, StageGrows DEF Evidence
<1>8. MintsKeep
  BY <1>5, SameMints DEF IInv
<1>9. LiveMintIsMarked'
  BY <1>4, <1>6, <1>8, MarksKept
<1>10. /\ poll' \in [Pollers -> [Records -> PollState]] /\ poll'[p][r] = IdlePoll
       /\ \A q \in Pollers, s \in Records : q # p \/ s # r => poll'[q][s] = poll[q][s]
  <2>1. TypeOK /\ IdlePoll \in PollState
    BY Idles, Types
  <2> QED BY <1>5, <2>1, PollPut, ZenonT(40)
<1>11. PollOK(p, r)'
  BY <1>10, Idles DEF PollOK
<1>12. \A q \in Pollers, s \in Records : PollOK(q, s)'
  BY <1>7, <1>10, <1>11, PollStays
<1> QED BY <1>5, <1>7, <1>8, <1>9, <1>10, <1>12, OutsideStep

(***************************************************************************)
(* The invocations, action by action.                                      *)
(***************************************************************************)
\* An invocation goes on; the lock it has or takes is of its record.
LEMMA MovePut ==
  ASSUME IInv, NEW c \in Callers, NEW e \in CallerState,
         caller' = [caller EXCEPT ![c] = e]
  PROVE  /\ caller' \in [Callers -> CallerState] /\ caller'[c] = e
         /\ \A d \in Callers \ {c} : caller'[d] = caller[d]
<1>1. caller \in [Callers -> CallerState]
  BY DEF IInv, TypeOK
<1> QED BY <1>1, Put

\* It reads and decides, and writes nothing.
LEMMA CallerReads ==
  ASSUME IInv, NEW c \in Callers, NEW e \in CallerState,
         caller' = [caller EXCEPT ![c] = e], caller'[c] = e => CallerOK(c)',
         UNCHANGED <<queue, mintLock, poll, mints, attested, used>>
  PROVE  IInv'
<1>1. /\ caller' \in [Callers -> CallerState] /\ caller'[c] = e
      /\ \A d \in Callers \ {c} : caller'[d] = caller[d]
  BY MovePut
<1>2. MintsKeep /\ Grows
  BY SameMints, SameGrows, Types
<1>3. LiveMintIsMarked'
  BY <1>2, MarksKept
<1>4. mintLock' \in [Records -> Callers \cup {None}]
  BY DEF IInv, TypeOK
<1> QED BY <1>1, <1>2, <1>3, <1>4, CallerStep

LEMMA ReadImportStep ==
  ASSUME IInv, NEW c \in Callers, NEW b \in Burns, ReadImport(c, b)
  PROVE  IInv'
<1> DEFINE e == [IdleCaller EXCEPT !.pc = "import", !.burn = b, !.found = Inspect(b)]
<1>1. Found(Inspect(b), b) /\ Inspect(b) \in Evidence
  BY InspectFacts DEF Found
<1>2. e \in CallerState /\ e.pc = "import" /\ e.burn = b /\ e.found = Inspect(b)
  BY <1>1 DEF IdleCaller, CallerState
<1>3. /\ caller' = [caller EXCEPT ![c] = e]
      /\ UNCHANGED <<queue, mintLock, poll, mints, attested, used>>
  BY DEF ReadImport
<1> HIDE DEF e
<1>4. caller'[c] = e => CallerOK(c)'
  BY <1>1, <1>2, <1>3 DEF CallerOK, Found
<1> QED BY <1>2, <1>3, <1>4, CallerReads

LEMMA StartAttestStep ==
  ASSUME IInv, NEW c \in Callers, NEW r \in Records, StartAttest(c, r)
  PROVE  IInv'
<1> DEFINE e == [IdleCaller EXCEPT !.pc = "attest", !.rec = r, !.burn = queue[r].sourceTx]
<1>1. Tracked(r) /\ queue[r].sourceTx = Own(r)
  BY DEF StartAttest, Tracked, IInv, QueueOK
<1>2. e \in CallerState /\ e.pc = "attest" /\ e.rec = r /\ e.burn = Own(r)
  BY <1>1, OwnIsBurn DEF IdleCaller, CallerState
<1>3. /\ caller' = [caller EXCEPT ![c] = e]
      /\ UNCHANGED <<queue, mintLock, poll, mints, attested, used>>
  BY DEF StartAttest
<1> HIDE DEF e
<1>4. caller'[c] = e => CallerOK(c)'
  BY <1>1, <1>2, <1>3 DEF CallerOK, Tracked
<1> QED BY <1>2, <1>3, <1>4, CallerReads

\* Under the lock the record has no live mint: such a one would have marked it.
LEMMA StartMintStep ==
  ASSUME IInv, NEW c \in Callers, NEW r \in Records, StartMint(c, r)
  PROVE  IInv'
<1> DEFINE e == [IdleCaller EXCEPT !.pc = "check", !.rec = r, !.burn = queue[r].sourceTx]
<1>1. Tracked(r) /\ queue[r].sourceTx = Own(r) /\ ~queue[r].mintRequested
  BY DEF StartMint, MayBeMinting, Tracked, IInv, QueueOK
<1>2. e \in CallerState /\ e.pc = "check" /\ e.rec = r /\ e.burn = Own(r)
  BY <1>1, OwnIsBurn DEF IdleCaller, CallerState
<1>3. /\ caller' = [caller EXCEPT ![c] = e] /\ mintLock[r] = None
      /\ mintLock' = [mintLock EXCEPT ![r] = c]
      /\ UNCHANGED <<queue, poll, mints, attested, used>>
  BY DEF StartMint
<1> HIDE DEF e
<1>4. /\ caller' \in [Callers -> CallerState] /\ caller'[c] = e
      /\ \A d \in Callers \ {c} : caller'[d] = caller[d]
  BY <1>2, <1>3, MovePut
<1>5. /\ mintLock' \in [Records -> Callers \cup {None}] /\ mintLock'[r] = c
      /\ \A s \in Records \ {r} : mintLock'[s] = mintLock[s]
  BY <1>3 DEF IInv, TypeOK
<1>6. \A s \in Records, d \in Callers \ {c} : mintLock[s] = d => mintLock'[s] = d
  BY <1>3, <1>5, MintAssumption
<1>7. MintsKeep /\ Grows
  BY <1>3, SameMints, SameGrows, Types
<1>8. LiveMintIsMarked'
  BY <1>3, <1>7, MarksKept
<1>9. \A x \in Tx : ~LiveOf(x, r)'
  BY <1>1, <1>3 DEF IInv, LiveMintIsMarked, LiveOf
<1>10. CallerOK(c)'
  BY <1>1, <1>2, <1>3, <1>4, <1>5, <1>9 DEF CallerOK, Tracked, LiveOf
<1> QED BY <1>3, <1>4, <1>5, <1>6, <1>7, <1>8, <1>10, CallerStep

\* The two inspections under the lock.
LEMMA InspectForStep ==
  ASSUME IInv, NEW c \in Callers, Check(c) \/ Recheck(c)
  PROVE  IInv'
<1> PICK from \in {"check", "prepare"}, to \in {"begin", "request"} :
      InspectFor(c, from, to)
  BY DEF Check, Recheck
<1> DEFINE b == caller[c].burn
           e == [caller[c] EXCEPT !.pc = to, !.found = Inspect(b)]
<1>1. caller[c] \in CallerState /\ caller[c].pc = from
  BY DEF InspectFor, IInv, TypeOK
<1>2. Found(Inspect(b), b) /\ Inspect(b) \in Evidence
  BY InspectFacts DEF Found
<1>3. /\ e \in CallerState /\ e.pc = to /\ e.rec = caller[c].rec /\ e.burn = b
      /\ e.found = Inspect(b)
  BY <1>1, <1>2 DEF CallerState
<1>4. /\ caller' = [caller EXCEPT ![c] = e]
      /\ UNCHANGED <<queue, mintLock, poll, mints, attested, used>>
  BY DEF InspectFor
<1>5. CallerOK(c)
  BY DEF IInv
<1> HIDE DEF e
<1>6. caller'[c] = e => CallerOK(c)'
  BY <1>1, <1>2, <1>3, <1>4, <1>5 DEF CallerOK, Tracked, Found, LiveOf
<1> QED BY <1>3, <1>4, <1>6, CallerReads

LEMMA ReceiptSuccessStep ==
  ASSUME IInv, NEW c \in Callers, ReceiptSuccess(c)
  PROVE  IInv'
<1> DEFINE e == [caller[c] EXCEPT !.pc = "verify"]
<1>1. caller[c] \in CallerState /\ caller[c].pc = "receipt"
  BY DEF ReceiptSuccess, IInv, TypeOK
<1>2. /\ e \in CallerState /\ e.pc = "verify" /\ e.rec = caller[c].rec
      /\ e.burn = caller[c].burn /\ e.tx = caller[c].tx
  BY <1>1 DEF CallerState
<1>3. /\ caller' = [caller EXCEPT ![c] = e]
      /\ UNCHANGED <<queue, mintLock, poll, mints, attested, used>>
  BY DEF ReceiptSuccess
<1>4. CallerOK(c)
  BY DEF IInv
<1> HIDE DEF e
<1>5. caller'[c] = e => CallerOK(c)'
  BY <1>1, <1>2, <1>3, <1>4 DEF CallerOK, Tracked, LiveOf
<1> QED BY <1>2, <1>3, <1>5, CallerReads

(***************************************************************************)
(* Invocations that end.                                                   *)
(***************************************************************************)
LEMMA EndsOK ==
  ASSUME IInv, NEW c \in Callers, Finish(c), UNCHANGED poll,
         Grows, MintsKeep, LiveMintIsMarked'
  PROVE  IInv'
  BY FinishOK, CallerStep, Types

LEMMA CheckFailsStep ==
  ASSUME IInv, NEW c \in Callers, CheckFails(c)
  PROVE  IInv'
<1>1. Finish(c) /\ UNCHANGED <<queue, poll, mints, attested, used>>
  BY DEF CheckFails
<1>2. MintsKeep /\ Grows
  BY <1>1, SameMints, SameGrows, Types
<1>3. LiveMintIsMarked'
  BY <1>1, <1>2, MarksKept
<1> QED BY <1>1, <1>2, <1>3, EndsOK

\* The caller's idle state ends an invocation that holds no lock.
LEMMA IdleEnds ==
  ASSUME IInv, NEW c \in Callers, caller' = [caller EXCEPT ![c] = IdleCaller],
         UNCHANGED <<mintLock, poll, mints>>, Grows, LiveMintIsMarked'
  PROVE  IInv'
<1>1. /\ caller' \in [Callers -> CallerState] /\ caller'[c] = IdleCaller
      /\ \A d \in Callers \ {c} : caller'[d] = caller[d]
  BY Idles, MovePut
<1>2. CallerOK(c)'
  BY <1>1, Idles DEF CallerOK
<1>3. MintsKeep
  BY SameMints, Types
<1>4. mintLock' \in [Records -> Callers \cup {None}]
  BY DEF IInv, TypeOK
<1> QED BY <1>1, <1>2, <1>3, <1>4, CallerStep

LEMMA ImportStep ==
  ASSUME IInv, NEW c \in Callers, Import(c)
  PROVE  IInv'
<1> DEFINE b == caller[c].burn
           found == caller[c].found
           known == {r \in Records : queue[r].sourceTx = b}
<1>1. /\ caller[c].pc = "import" /\ caller' = [caller EXCEPT ![c] = IdleCaller]
      /\ UNCHANGED <<mintLock, poll, mints, attested, used>>
  BY DEF Import
<1>2. b \in Burns /\ Found(found, b)
  BY <1>1 DEF IInv, CallerOK
<1>3. PICK r \in IF known = {} THEN {b} ELSE known :
        queue' = IF queue[r].stage = "complete" /\ found # "complete" THEN queue
                 ELSE [queue EXCEPT ![r] =
                   [queue[r] EXCEPT !.stage = ImportedStage(queue[r], found), !.sourceTx = b]]
  BY DEF Import
<1>4. r \in Records /\ Own(r) = b
  <2>1. CASE known = {}
    BY <1>2, <1>3, <2>1 DEF Records, Own
  <2>2. CASE known # {}
    <3>1. r \in Records /\ queue[r].sourceTx = b
      BY <1>3, <2>2
    <3> QED BY <1>2, <3>1, MintAssumption DEF IInv, QueueOK, Records
  <2> QED BY <2>1, <2>2
<1>5. MintsKeep
  BY <1>1, SameMints, Types
<1>6. CASE UNCHANGED queue
  <2>1. Grows /\ LiveMintIsMarked'
    BY <1>1, <1>5, <1>6, SameGrows, MarksKept, Types
  <2> QED BY <1>1, <2>1, IdleEnds
<1> DEFINE stage == ImportedStage(queue[r], found)
           new == [queue[r] EXCEPT !.stage = stage, !.sourceTx = b]
<1>7. CASE queue' = [queue EXCEPT ![r] = new]
  <2>1. stage \in Evidence \cup {"minting"} /\ (stage = "complete" => b \in used)
    BY <1>2 DEF ImportedStage, Found, Evidence
  <2>2. queue[r] \in Record
    BY <1>4, Types
  <2>3. /\ new \in Record /\ new.stage = stage /\ new.sourceTx = b
        /\ new.mintRequested = queue[r].mintRequested
    BY <1>2, <2>1, <2>2 DEF Record, Evidence, Stage
  <2> HIDE DEF new, stage
  <2>4. /\ queue' \in [Records -> Record] /\ queue'[r] = new
        /\ \A s \in Records \ {r} : queue'[s] = queue[s]
    BY <1>4, <1>7, <2>3, Types, Put
  <2>5. Tracked(r)'
    BY <2>1, <2>3, <2>4 DEF Tracked, Evidence
  <2>6. Grows
    BY <1>1, <1>4, <2>1, <2>3, <2>4, <2>5, WriteGrows
  <2>7. LiveMintIsMarked'
    BY <1>5, <2>3, <2>4, MarksKept
  <2> QED BY <1>1, <2>6, <2>7, IdleEnds
<1> QED BY <1>3, <1>6, <1>7

LEMMA AttestStep ==
  ASSUME IInv, NEW c \in Callers, Attest(c)
  PROVE  IInv'
<1> DEFINE r == caller[c].rec
           new == [queue[r] EXCEPT !.stage = "ready_to_mint"]
<1>1. /\ caller[c].pc = "attest" /\ caller' = [caller EXCEPT ![c] = IdleCaller]
      /\ UNCHANGED <<mintLock, poll, mints, attested, used>>
      /\ queue' = queue \/ queue' = Transitioned(queue, r, new)
  BY DEF Attest
<1>2. r \in Records /\ Tracked(r)
  BY <1>1 DEF IInv, CallerOK
<1>3. queue[r] \in Record
  BY <1>2, Types
<1>4. /\ new \in Record /\ new.stage = "ready_to_mint" /\ new.sourceTx = queue[r].sourceTx
      /\ new.mintRequested = queue[r].mintRequested
  BY <1>3 DEF Record, Stage
<1> HIDE DEF new
<1>5. /\ queue' \in [Records -> Record] /\ queue'[r] \in {queue[r], new}
      /\ \A s \in Records \ {r} : queue'[s] = queue[s]
  <2>1. queue \in [Records -> Record]
    BY Types
  <2> QED BY <1>1, <1>2, <1>4, <2>1 DEF Transitioned
<1>6. Grows
  BY <1>1, <1>2, <1>4, <1>5, StageGrows DEF Tracked
<1>7. MintsKeep
  BY <1>1, SameMints, Types
<1>8. LiveMintIsMarked'
  BY <1>4, <1>5, <1>7, MarksKept
<1> QED BY <1>1, <1>6, <1>8, IdleEnds

\* A write that takes no mark away, and one that takes them from a record whose
\* mint is not alive any more.
LEMMA MarkingWrite ==
  ASSUME IInv, MintsKeep, UNCHANGED <<used, attested>>,
         NEW r \in Records, Tracked(r), NEW new \in Record,
         queue' \in [Records -> Record], queue'[r] \in {queue[r], new},
         \A s \in Records \ {r} : queue'[s] = queue[s],
         new.sourceTx = queue[r].sourceTx, new.stage \notin {"none", "burning"},
         new.stage = "complete" => queue[r].stage = "complete" \/ Own(r) \in used,
         queue[r].mintRequested => new.mintRequested
  PROVE  Grows /\ LiveMintIsMarked'
<1>1. Grows
  BY StageGrows DEF Tracked
<1>2. LiveMintIsMarked'
  BY MarksKept
<1> QED BY <1>1, <1>2

LEMMA ErasingWrite ==
  ASSUME IInv, MintsKeep, UNCHANGED <<used, attested>>,
         NEW r \in Records, Tracked(r),
         queue' \in [Records -> Record],
         \A s \in Records \ {r} : queue'[s] = queue[s],
         queue'[r].sourceTx = queue[r].sourceTx,
         queue'[r].stage \notin {"none", "burning"},
         queue'[r].stage = "complete" => queue[r].stage = "complete",
         \A x \in Tx : ~(mints'[x].status \in Live /\ mints'[x].rec = r)
  PROVE  Grows /\ LiveMintIsMarked'
<1>1. Grows
  BY StageGrows DEF Tracked
<1>2. \A x \in Tx : ~LiveOf(x, r)'
  BY DEF LiveOf
<1>3. LiveMintIsMarked'
  BY <1>2, MarksErased
<1> QED BY <1>1, <1>3

\* What an invocation under the lock knows of its record.
LEMMA Holder ==
  ASSUME IInv, NEW c \in Callers, caller[c].pc \notin {"idle", "import", "attest"}
  PROVE  /\ caller[c].rec \in Records /\ Tracked(caller[c].rec)
         /\ caller[c].burn = Own(caller[c].rec) /\ mintLock[caller[c].rec] = c
         /\ queue[caller[c].rec] \in Record /\ caller[c] \in CallerState
         /\ caller[c].pc \in {"check", "begin", "prepare", "request"} =>
              \A x \in Tx : ~LiveOf(x, caller[c].rec)
         /\ caller[c].pc \in {"begin", "request"} => Found(caller[c].found, caller[c].burn)
         /\ caller[c].pc \in {"prompt", "receipt", "verify"} =>
              /\ caller[c].tx \in Tx
              /\ \A x \in Tx : LiveOf(x, caller[c].rec) => x = caller[c].tx
<1>1. CallerOK(c) /\ caller[c] \in CallerState
  BY DEF IInv, TypeOK
<1>2. caller[c].rec \in Records
  BY <1>1 DEF CallerOK
<1>3. queue[caller[c].rec] \in Record
  BY <1>2, Types
<1> QED BY <1>1, <1>3 DEF CallerOK

\* The record is released, whatever its stage is by now.
LEMMA ReleaseOK ==
  ASSUME IInv, NEW c \in Callers, ReleaseMint(c), NEW r \in Records, r = caller[c].rec,
         Tracked(r), MintsKeep, UNCHANGED <<attested, used>>,
         \A x \in Tx : ~(mints'[x].status \in Live /\ mints'[x].rec = r)
  PROVE  Grows /\ LiveMintIsMarked'
<1> DEFINE new == [queue[r] EXCEPT !.stage = "ready_to_mint", !.mintRequested = FALSE]
<1>1. queue' = Transitioned(queue, r, new)
  BY DEF ReleaseMint
<1>2. queue[r] \in Record /\ queue \in [Records -> Record]
  BY Types
<1>3. /\ new \in Record /\ new.stage = "ready_to_mint" /\ new.sourceTx = queue[r].sourceTx
  BY <1>2 DEF Record, Stage
<1> HIDE DEF new
<1>4. /\ queue' \in [Records -> Record] /\ queue'[r] \in {queue[r], new}
      /\ \A s \in Records \ {r} : queue'[s] = queue[s]
  BY <1>1, <1>2, <1>3 DEF Transitioned
<1> QED BY <1>3, <1>4, ErasingWrite DEF Tracked

LEMMA PrepareFailsStep ==
  ASSUME IInv, NEW c \in Callers, PrepareFails(c)
  PROVE  IInv'
<1>1. /\ caller[c].pc \in {"prepare", "request"} /\ ReleaseMint(c) /\ Finish(c)
      /\ UNCHANGED <<poll, mints, attested, used>>
  BY DEF PrepareFails
<1> PICK r \in Records : r = caller[c].rec
  BY <1>1, Holder
<1>2. Tracked(r) /\ \A x \in Tx : ~LiveOf(x, r)
  BY <1>1, Holder
<1>3. MintsKeep
  BY <1>1, SameMints, Types
<1>4. \A x \in Tx : ~(mints'[x].status \in Live /\ mints'[x].rec = r)
  BY <1>1, <1>2 DEF LiveOf
<1>5. Grows /\ LiveMintIsMarked'
  BY <1>1, <1>2, <1>3, <1>4, ReleaseOK
<1> QED BY <1>1, <1>3, <1>5, EndsOK

\* After the first inspection: complete, or one step further, or the end.
LEMMA BeginStep ==
  ASSUME IInv, NEW c \in Callers, Begin(c)
  PROVE  IInv'
<1>1. caller[c].pc = "begin" /\ UNCHANGED <<poll, mints, attested, used>>
  BY DEF Begin
<1> PICK r \in Records : r = caller[c].rec
  BY <1>1, Holder
<1> DEFINE found == caller[c].found
           done == [queue[r] EXCEPT !.stage = "complete"]
           open == [queue[r] EXCEPT !.stage = "minting"]
<1>2. /\ Tracked(r) /\ mintLock[r] = c /\ caller[c].burn = Own(r)
      /\ caller[c] \in CallerState /\ queue[r] \in Record
      /\ Found(found, Own(r)) /\ \A x \in Tx : ~LiveOf(x, r)
  BY <1>1, Holder
<1>3. /\ done \in Record /\ done.stage = "complete" /\ done.sourceTx = queue[r].sourceTx
      /\ done.mintRequested = queue[r].mintRequested
      /\ open \in Record /\ open.stage = "minting" /\ open.sourceTx = queue[r].sourceTx
      /\ open.mintRequested = queue[r].mintRequested
  BY <1>2 DEF Record, Stage
<1>4. MintsKeep
  BY <1>1, SameMints, Types
<1>5. \/ queue' = queue
      \/ found = "complete" /\ queue' = Updated(queue, r, done)
      \/ queue' = Transitioned(queue, r, open)
  BY DEF Begin
<1> HIDE DEF done, open
<1>6. queue \in [Records -> Record]
  BY Types
<1>7. Grows /\ LiveMintIsMarked'
  <2>1. CASE queue' = queue
    BY <1>1, <1>4, <2>1, SameGrows, MarksKept, Types
  <2>2. CASE found = "complete" /\ queue' = Updated(queue, r, done)
    <3>1. /\ queue' \in [Records -> Record] /\ queue'[r] \in {queue[r], done}
          /\ \A s \in Records \ {r} : queue'[s] = queue[s]
      BY <1>3, <1>6, <2>2 DEF Updated
    <3>2. Own(r) \in used
      BY <1>2, <2>2 DEF Found
    <3> QED BY <1>1, <1>2, <1>3, <1>4, <3>1, <3>2, MarkingWrite
  <2>3. CASE queue' = Transitioned(queue, r, open)
    <3>1. /\ queue' \in [Records -> Record] /\ queue'[r] \in {queue[r], open}
          /\ \A s \in Records \ {r} : queue'[s] = queue[s]
      BY <1>3, <1>6, <2>3 DEF Transitioned
    <3> QED BY <1>1, <1>2, <1>3, <1>4, <3>1, MarkingWrite
  <2> QED BY <1>5, <2>1, <2>2, <2>3
<1>8. CASE Finish(c)
  BY <1>1, <1>4, <1>7, <1>8, EndsOK
<1> DEFINE e == [caller[c] EXCEPT !.pc = "prepare"]
<1>9. CASE caller' = [caller EXCEPT ![c] = e] /\ UNCHANGED mintLock
  <2>1. e \in CallerState /\ e.pc = "prepare" /\ e.rec = r /\ e.burn = Own(r)
    BY <1>2 DEF CallerState
  <2> HIDE DEF e
  <2>2. /\ caller' \in [Callers -> CallerState] /\ caller'[c] = e
        /\ \A d \in Callers \ {c} : caller'[d] = caller[d]
    BY <1>9, <2>1, MovePut
  <2>3. Tracked(r)' /\ \A x \in Tx : ~LiveOf(x, r)'
    BY <1>1, <1>2, <1>7 DEF Grows, LiveOf
  <2>4. CallerOK(c)'
    BY <1>2, <1>9, <2>1, <2>2, <2>3 DEF CallerOK, Tracked, LiveOf
  <2>5. mintLock' \in [Records -> Callers \cup {None}]
    BY <1>9 DEF IInv, TypeOK
  <2> QED BY <1>1, <1>4, <1>7, <1>9, <2>2, <2>4, <2>5, CallerStep
<1> QED BY <1>8, <1>9 DEF Begin

\* The request is made by the one holder of the lock, and marks the record first.
LEMMA RequestMintStep ==
  ASSUME IInv, NEW c \in Callers, NEW x \in Tx, RequestMint(c, x)
  PROVE  IInv'
<1>1. /\ caller[c].pc = "request" /\ caller[c].found = "ready_to_mint"
      /\ mints[x].status = "unused" /\ UNCHANGED <<mintLock, poll, attested, used>>
  BY DEF RequestMint
<1> PICK r \in Records : r = caller[c].rec
  BY <1>1, Holder
<1>2. /\ Tracked(r) /\ mintLock[r] = c /\ caller[c].burn = Own(r)
      /\ caller[c] \in CallerState /\ queue[r] \in Record
      /\ Own(r) \in attested /\ \A y \in Tx : ~LiveOf(y, r)
  BY <1>1, Holder DEF Found
<1> DEFINE new == [queue[r] EXCEPT !.mintRequested = TRUE]
           mint == [rec |-> r, burn |-> Own(r), status |-> "prompt"]
           e == [caller[c] EXCEPT !.pc = "prompt", !.tx = x]
<1>3. /\ new \in Record /\ new.stage = queue[r].stage /\ new.sourceTx = queue[r].sourceTx
      /\ new.mintRequested
  BY <1>2 DEF Record
<1>4. mint \in Mint /\ mint.rec = r /\ mint.burn = Own(r) /\ mint.status = "prompt"
  BY OwnIsBurn DEF Mint, Live
<1>5. e \in CallerState /\ e.pc = "prompt" /\ e.rec = r /\ e.burn = Own(r) /\ e.tx = x
  BY <1>2 DEF CallerState
<1>6. /\ queue' = Updated(queue, r, new) /\ mints' = [mints EXCEPT ![x] = mint]
      /\ caller' = [caller EXCEPT ![c] = e]
  BY <1>2 DEF RequestMint
<1> HIDE DEF new, mint, e
<1>7. queue \in [Records -> Record] /\ mints \in [Tx -> Mint]
  BY Types DEF TypeOK
<1>8. /\ queue' \in [Records -> Record] /\ queue'[r] = new
      /\ \A s \in Records \ {r} : queue'[s] = queue[s]
  BY <1>2, <1>3, <1>6, <1>7 DEF Tracked, Updated
<1>9. /\ mints' \in [Tx -> Mint] /\ mints'[x] = mint
      /\ \A y \in Tx \ {x} : mints'[y] = mints[y]
  BY <1>4, <1>6, <1>7, Put
<1>10. /\ caller' \in [Callers -> CallerState] /\ caller'[c] = e
       /\ \A d \in Callers \ {c} : caller'[d] = caller[d]
  BY <1>5, <1>6, MovePut
<1>11. Grows
  BY <1>1, <1>2, <1>3, <1>8, StageGrows DEF Tracked
<1>12. MintOK'
  BY <1>1, <1>2, <1>4, <1>9 DEF IInv, MintOK
<1>13. \A y \in Tx \ {x} : mints[y].status \in Live => mints[y].rec # r
  BY <1>2 DEF LiveOf
<1>14. OneLiveMint'
  BY <1>4, <1>9, <1>13 DEF IInv, OneLiveMint
<1>15. LiveMintIsMarked'
  <2>1. \A y \in Tx \ {x} : mints[y].status \in Live => mints[y].rec \in Records \ {r}
    BY <1>13 DEF IInv, MintOK, Live
  <2> QED BY <1>3, <1>4, <1>8, <1>9, <2>1 DEF IInv, LiveMintIsMarked
<1>16. CallerOK(c)'
  <2>1. Tracked(r)' /\ \A y \in Tx : LiveOf(y, r)' => y = x
    BY <1>2, <1>9, <1>11, <1>13 DEF Grows, LiveOf
  <2> QED BY <1>1, <1>2, <1>5, <1>10, <2>1 DEF CallerOK, Tracked, LiveOf
<1>17. ASSUME NEW d \in Callers \ {c}
       PROVE  CallerOK(d)'
  <2>1. caller'[d] = caller[d]
    BY <1>10
  <2>2. \A y \in Tx : LiveOf(y, caller[d].rec)' /\ mintLock[caller[d].rec] = d
                        => LiveOf(y, caller[d].rec)
    BY <1>2, <1>4, <1>9, <2>1 DEF LiveOf
  <2> QED BY <1>1, <1>11, <2>1, <2>2, CallerStays
<1>18. \A p \in Pollers, s \in Records : PollOK(p, s)'
  BY <1>1, <1>11, PollStays
<1>19. TypeOK'
  BY <1>1, <1>8, <1>9, <1>10 DEF IInv, TypeOK
<1> QED BY <1>11, <1>12, <1>14, <1>15, <1>16, <1>17, <1>18, <1>19 DEF IInv, Grows

\* The request of the invocation was the only one of its record that could be alive.
LEMMA WalletRejectsStep ==
  ASSUME IInv, NEW c \in Callers, WalletRejects(c)
  PROVE  IInv'
<1>1. /\ caller[c].pc = "prompt" /\ mints[caller[c].tx].status = "prompt"
      /\ mints' = [mints EXCEPT ![caller[c].tx].status = "rejected"]
      /\ ReleaseMint(c) /\ Finish(c) /\ UNCHANGED <<poll, attested, used>>
  BY DEF WalletRejects
<1> PICK r \in Records, x \in Tx : r = caller[c].rec /\ x = caller[c].tx
  BY <1>1, Holder
<1>2. Tracked(r) /\ \A y \in Tx : LiveOf(y, r) => y = x
  BY <1>1, Holder
<1>3. MintsKeep /\ mints'[x].status = "rejected"
  BY <1>1, StatusKeeps, Types DEF Live
<1>4. \A y \in Tx : ~(mints'[y].status \in Live /\ mints'[y].rec = r)
  BY <1>2, <1>3 DEF LiveOf, MintsKeep, Live
<1>5. Grows /\ LiveMintIsMarked'
  BY <1>1, <1>2, <1>3, <1>4, ReleaseOK
<1> QED BY <1>1, <1>3, <1>5, EndsOK

\* The queue stays as it is, the request may change.
LEMMA EndsSilently ==
  ASSUME IInv, NEW c \in Callers, Finish(c), MintsKeep,
         UNCHANGED <<queue, poll, attested, used>>
  PROVE  IInv'
<1>1. Grows /\ LiveMintIsMarked'
  BY SameGrows, MarksKept, Types
<1> QED BY <1>1, EndsOK

LEMMA WalletLostStep ==
  ASSUME IInv, NEW c \in Callers, WalletLost(c)
  PROVE  IInv'
<1>1. /\ caller[c].pc = "prompt" /\ Finish(c) /\ UNCHANGED <<queue, poll, attested, used>>
  BY DEF WalletLost
<1> PICK x \in Tx : x = caller[c].tx
  BY <1>1, Holder
<1>2. PICK status \in IF mints[x].status = "prompt" THEN {"limbo", "rejected"}
                      ELSE {mints[x].status} :
        mints' = [mints EXCEPT ![x].status = status]
  BY DEF WalletLost
<1>3. MintsKeep
  <2>1. CASE mints[x].status = "prompt"
    BY <1>2, <2>1, StatusKeeps, Types DEF Live
  <2>2. CASE mints[x].status # "prompt"
    <3>1. mints \in [Tx -> Mint] /\ mints[x] \in Mint
      BY Types DEF TypeOK
    <3>2. [mints[x] EXCEPT !.status = mints[x].status] = mints[x]
      BY <3>1 DEF Mint
    <3>3. mints' = mints
      BY <1>2, <2>2, <3>1, <3>2
    <3> QED BY <3>3, SameMints, Types
  <2> QED BY <2>1, <2>2
<1> QED BY <1>1, <1>3, EndsSilently

LEMMA TabClosesStep ==
  ASSUME IInv, NEW c \in Callers, TabCloses(c)
  PROVE  IInv'
<1>1. Finish(c) /\ UNCHANGED <<queue, poll, attested, used>>
  BY DEF TabCloses
<1>2. MintsKeep
  <2>1. CASE UNCHANGED mints
    BY <2>1, SameMints, Types
  <2>2. CASE /\ caller[c].pc = "prompt" /\ mints[caller[c].tx].status = "prompt"
             /\ mints' = [mints EXCEPT ![caller[c].tx].status = "limbo"]
    <3>1. caller[c].tx \in Tx
      BY <2>2, Holder
    <3> QED BY <2>2, <3>1, StatusKeeps, Types DEF Live
  <2> QED BY <2>1, <2>2 DEF TabCloses
<1> QED BY <1>1, <1>2, EndsSilently

\* The hash goes into the record whatever its stage is by now.
LEMMA StoreHashOK ==
  ASSUME IInv, NEW c \in Callers, caller[c].pc \in {"prompt", "receipt", "verify"},
         StoreHash(c), UNCHANGED <<mints, attested, used>>
  PROVE  Grows /\ LiveMintIsMarked' /\ MintsKeep
<1> PICK r \in Records, x \in Tx : r = caller[c].rec /\ x = caller[c].tx
  BY Holder
<1>1. Tracked(r) /\ queue[r] \in Record /\ queue \in [Records -> Record]
  BY Holder, Types
<1> DEFINE new == [queue[r] EXCEPT !.destinationTx = x]
<1>2. /\ new \in Record /\ new.stage = queue[r].stage /\ new.sourceTx = queue[r].sourceTx
      /\ new.mintRequested = queue[r].mintRequested
  BY <1>1 DEF Record
<1>3. queue' = Updated(queue, r, new)
  BY DEF StoreHash
<1> HIDE DEF new
<1>4. /\ queue' \in [Records -> Record] /\ queue'[r] \in {queue[r], new}
      /\ \A s \in Records \ {r} : queue'[s] = queue[s]
  BY <1>1, <1>2, <1>3 DEF Updated
<1>5. MintsKeep
  BY SameMints, Types
<1>6. Grows /\ LiveMintIsMarked'
  BY <1>1, <1>2, <1>4, <1>5, MarkingWrite DEF Tracked
<1> QED BY <1>5, <1>6

LEMMA WalletAnswersStep ==
  ASSUME IInv, NEW c \in Callers, WalletAnswers(c)
  PROVE  IInv'
<1> DEFINE e == [caller[c] EXCEPT !.pc = "receipt"]
<1>1. /\ caller[c].pc = "prompt" /\ StoreHash(c) /\ caller' = [caller EXCEPT ![c] = e]
      /\ UNCHANGED <<mintLock, poll, mints, attested, used>>
  BY DEF WalletAnswers
<1> PICK r \in Records, x \in Tx : r = caller[c].rec /\ x = caller[c].tx
  BY <1>1, Holder
<1>2. /\ Tracked(r) /\ mintLock[r] = c /\ caller[c].burn = Own(r)
      /\ caller[c] \in CallerState /\ \A y \in Tx : LiveOf(y, r) => y = x
  BY <1>1, Holder
<1>3. e \in CallerState /\ e.pc = "receipt" /\ e.rec = r /\ e.burn = Own(r) /\ e.tx = x
  BY <1>2 DEF CallerState
<1> HIDE DEF e
<1>4. /\ caller' \in [Callers -> CallerState] /\ caller'[c] = e
      /\ \A d \in Callers \ {c} : caller'[d] = caller[d]
  BY <1>1, <1>3, MovePut
<1>5. Grows /\ LiveMintIsMarked' /\ MintsKeep
  BY <1>1, StoreHashOK
<1>6. Tracked(r)' /\ \A y \in Tx : LiveOf(y, r)' => y = x
  BY <1>1, <1>2, <1>5 DEF Grows, LiveOf
<1>7. CallerOK(c)'
  BY <1>1, <1>2, <1>3, <1>4, <1>6 DEF CallerOK, Tracked, LiveOf
<1>8. mintLock' \in [Records -> Callers \cup {None}]
  BY <1>1 DEF IInv, TypeOK
<1> QED BY <1>1, <1>4, <1>5, <1>7, <1>8, CallerStep

LEMMA OutcomeUnknownStep ==
  ASSUME IInv, NEW c \in Callers, OutcomeUnknown(c)
  PROVE  IInv'
<1>1. /\ caller[c].pc \in {"receipt", "verify"} /\ StoreHash(c) /\ Finish(c)
      /\ UNCHANGED <<poll, mints, attested, used>>
  BY DEF OutcomeUnknown
<1>2. Grows /\ LiveMintIsMarked' /\ MintsKeep
  BY <1>1, StoreHashOK
<1> QED BY <1>1, <1>2, EndsOK

\* A reverted mint is not alive, and there was no other.
LEMMA ReceiptRevertedStep ==
  ASSUME IInv, NEW c \in Callers, ReceiptReverted(c)
  PROVE  IInv'
<1>1. /\ caller[c].pc = "receipt" /\ mints[caller[c].tx].status = "reverted"
      /\ Finish(c) /\ UNCHANGED <<poll, mints, attested, used>>
  BY DEF ReceiptReverted
<1> PICK r \in Records, x \in Tx : r = caller[c].rec /\ x = caller[c].tx
  BY <1>1, Holder
<1>2. /\ Tracked(r) /\ queue[r] \in Record /\ queue \in [Records -> Record]
      /\ \A y \in Tx : LiveOf(y, r) => y = x
  BY <1>1, Holder, Types
<1> DEFINE cleared == [queue[r] EXCEPT !.mintRequested = FALSE, !.destinationTx = None]
           ready == [cleared EXCEPT !.stage = "ready_to_mint"]
           q == Updated(queue, r, cleared)
<1>3. /\ cleared \in Record /\ cleared.stage = queue[r].stage
      /\ cleared.sourceTx = queue[r].sourceTx
      /\ ready \in Record /\ ready.stage = "ready_to_mint"
      /\ ready.sourceTx = queue[r].sourceTx
  BY <1>2 DEF Record, Stage
<1>4. queue' = Transitioned(q, r, ready)
  BY DEF ReceiptReverted
<1> HIDE DEF cleared, ready
<1>5. /\ q \in [Records -> Record] /\ q[r] = cleared
      /\ \A s \in Records \ {r} : q[s] = queue[s]
  BY <1>2, <1>3 DEF Tracked, Updated
<1> HIDE DEF q
<1>6. /\ queue' \in [Records -> Record] /\ queue'[r] \in {cleared, ready}
      /\ \A s \in Records \ {r} : queue'[s] = queue[s]
  BY <1>3, <1>4, <1>5 DEF Transitioned
<1>7. MintsKeep
  BY <1>1, SameMints, Types
<1>8. \A y \in Tx : ~(mints'[y].status \in Live /\ mints'[y].rec = r)
  BY <1>1, <1>2 DEF LiveOf, Live
<1>9. Grows /\ LiveMintIsMarked'
  BY <1>1, <1>2, <1>3, <1>6, <1>7, <1>8, ErasingWrite DEF Tracked
<1> QED BY <1>1, <1>7, <1>9, EndsOK

LEMMA VerifyStep ==
  ASSUME IInv, NEW c \in Callers, Verify(c)
  PROVE  IInv'
<1>1. /\ caller[c].pc = "verify" /\ Inspect(caller[c].burn) = "complete"
      /\ Finish(c) /\ UNCHANGED <<poll, mints, attested, used>>
  BY DEF Verify
<1> PICK r \in Records, x \in Tx : r = caller[c].rec /\ x = caller[c].tx
  BY <1>1, Holder
<1>2. /\ Tracked(r) /\ queue[r] \in Record /\ queue \in [Records -> Record]
      /\ caller[c].burn = Own(r)
  BY <1>1, Holder, Types
<1> DEFINE new == [queue[r] EXCEPT !.stage = "complete", !.destinationTx = x]
<1>3. StoreHash(c) \/ queue' = [queue EXCEPT ![r] = new]
  BY DEF Verify
<1>4. CASE StoreHash(c)
  <2>1. Grows /\ LiveMintIsMarked' /\ MintsKeep
    BY <1>1, <1>4, StoreHashOK
  <2> QED BY <1>1, <2>1, EndsOK
<1>5. CASE queue' = [queue EXCEPT ![r] = new]
  <2>1. /\ new \in Record /\ new.stage = "complete" /\ new.sourceTx = queue[r].sourceTx
        /\ new.mintRequested = queue[r].mintRequested
    BY <1>2 DEF Record, Stage
  <2>2. Own(r) \in used
    BY <1>1, <1>2 DEF Inspect
  <2> HIDE DEF new
  <2>3. /\ queue' \in [Records -> Record] /\ queue'[r] = new
        /\ \A s \in Records \ {r} : queue'[s] = queue[s]
    BY <1>2, <1>5, <2>1, Put
  <2>4. MintsKeep
    BY <1>1, SameMints, Types
  <2>5. Grows /\ LiveMintIsMarked'
    BY <1>1, <1>2, <2>1, <2>2, <2>3, <2>4, MarkingWrite
  <2> QED BY <1>1, <2>4, <2>5, EndsOK
<1> QED BY <1>3, <1>4, <1>5

-----------------------------------------------------------------------------
(***************************************************************************)
(* The theorems.                                                           *)
(***************************************************************************)
LEMMA InitIInv == Init => IInv
<1> SUFFICES ASSUME Init PROVE IInv
  OBVIOUS
<1> DEFINE plan(r, known) == [NoRecord EXCEPT !.stage = "burning",
                                !.sourceTx = IF r \in known THEN BurnOf[r] ELSE None]
<1>1. PICK known \in SUBSET Plans :
        queue = [r \in Records |-> IF r \in Burns THEN NoRecord ELSE plan(r, known)]
  BY Zenon DEF Init
<1>2. ASSUME NEW r \in Records \ Burns
      PROVE  /\ plan(r, known) \in Record /\ plan(r, known).stage = "burning"
             /\ plan(r, known).sourceTx \in {None, Own(r)}
  <2>1. BurnOf[r] \in Burns /\ Own(r) = BurnOf[r]
    BY MintAssumption DEF Own, Records
  <2> QED BY <2>1 DEF NoRecord, Record, Stage
<1> HIDE DEF plan
<1>3. ASSUME NEW r \in Records
      PROVE  /\ queue[r] \in Record /\ queue[r].sourceTx \in {None, Own(r)}
             /\ queue[r].stage \in {"none", "burning"}
  <2>1. CASE r \in Burns
    <3>1. queue[r] = NoRecord
      BY <1>1, <2>1
    <3> QED BY <3>1, Idles
  <2>2. CASE r \notin Burns
    <3>1. queue[r] = plan(r, known)
      BY <1>1, <2>2
    <3> QED BY <1>2, <2>2, <3>1
  <2> QED BY <2>1, <2>2
<1>4. queue \in [Records -> Record]
  BY <1>1, <1>3
<1> DEFINE rest == /\ mintLock = [r \in Records |-> None]
                   /\ caller = [c \in Callers |-> IdleCaller]
                   /\ poll = [p \in Pollers |-> [r \in Records |-> IdlePoll]]
                   /\ mints = [x \in Tx |-> UnusedTx]
                   /\ attested = {} /\ used = {}
<1>5. rest
  BY Zenon DEF Init
<1>6. TypeOK
  BY <1>5, <1>4, Idles DEF TypeOK
<1>7. /\ \A c \in Callers : caller[c].pc = "idle"
      /\ \A p \in Pollers, r \in Records : poll[p][r].pc = "idle"
      /\ \A x \in Tx : mints[x].status = "unused"
  BY <1>5, Idles
<1>8. QueueOK /\ CompleteIsReceived
  BY <1>3 DEF QueueOK, Tracked, CompleteIsReceived
<1>9. MintOK /\ LiveMintIsMarked /\ OneLiveMint
  BY <1>7 DEF MintOK, LiveMintIsMarked, OneLiveMint, Live
<1>10. \A c \in Callers : CallerOK(c)
  BY <1>7 DEF CallerOK
<1>11. \A p \in Pollers, r \in Records : PollOK(p, r)
  BY <1>7 DEF PollOK
<1> QED BY <1>6, <1>8, <1>9, <1>10, <1>11 DEF IInv

LEMMA StepIInv == IInv /\ [Next]_vars => IInv'
<1> SUFFICES ASSUME IInv, [Next]_vars PROVE IInv'
  OBVIOUS
<1>1. CASE UNCHANGED vars
  <2>1. UNCHANGED <<queue, mintLock, caller, poll, mints, attested, used>>
    BY <1>1 DEF vars
  <2>2. MintsKeep
    BY <2>1, SameMints, Types
  <2> QED BY <2>1, <2>2, ChainOK, Types
<1>2. CASE \E r \in Records : LearnHash(r) \/ ConfirmBurn(r)
  BY <1>2, SendSideStep
<1>3. CASE \E c \in Callers, b \in Burns : ReadImport(c, b)
  BY <1>3, ReadImportStep
<1>4. CASE \E c \in Callers, r \in Records : StartAttest(c, r) \/ StartMint(c, r)
  BY <1>4, StartAttestStep, StartMintStep
<1>5. CASE \E c \in Callers, x \in Tx : RequestMint(c, x)
  BY <1>5, RequestMintStep
<1>6. ASSUME NEW c \in Callers,
             \/ Import(c) \/ Attest(c) \/ Check(c) \/ CheckFails(c) \/ Begin(c)
             \/ Recheck(c) \/ PrepareFails(c)
      PROVE  IInv'
  BY <1>6, ImportStep, AttestStep, InspectForStep, CheckFailsStep, BeginStep,
     PrepareFailsStep
<1>7. ASSUME NEW c \in Callers,
             \/ WalletRejects(c) \/ WalletLost(c) \/ WalletAnswers(c)
             \/ ReceiptSuccess(c) \/ ReceiptReverted(c) \/ OutcomeUnknown(c)
             \/ Verify(c) \/ TabCloses(c)
      PROVE  IInv'
  BY <1>7, WalletRejectsStep, WalletLostStep, WalletAnswersStep, ReceiptSuccessStep,
     ReceiptRevertedStep, OutcomeUnknownStep, VerifyStep, TabClosesStep
<1>8. CASE \/ \E b \in Burns : CircleSigns(b) \/ ReceivedElsewhere(b)
           \/ \E x \in Tx : Broadcast(x) \/ MineSuccess(x) \/ MineReverted(x)
  BY <1>8, ChainStep
<1>9. CASE \E p \in Pollers : CycleStart(p)
  BY <1>9, CycleStartStep
<1>10. CASE \E p \in Pollers, r \in Records :
              InspectPolled(p, r) \/ PollFails(p, r) \/ ApplyPolled(p, r)
  BY <1>10, InspectPolledStep, PollFailsStep, ApplyPolledStep
<1> QED BY <1>1, <1>2, <1>3, <1>4, <1>5, <1>6, <1>7, <1>8, <1>9, <1>10 DEF Next

LEMMA Invariant == Spec => []IInv
  BY InitIInv, StepIInv, PTL DEF Spec

\* Every variable has its type, and a nonce is consumed only after Circle signed.
THEOREM MintTypes == Spec => []TypeOK
<1>1. IInv => TypeOK
  BY DEF IInv
<1> QED BY <1>1, Invariant, PTL

\* A mint that may still reach the chain keeps its record marked (mintRequestedAt),
\* whatever imports, late recovery decisions, reloads and other tabs write.
THEOREM MintLiveIsMarked == Spec => []LiveMintIsMarked
<1>1. IInv => LiveMintIsMarked
  BY DEF IInv
<1> QED BY <1>1, Invariant, PTL

\* The lock of the id and the marks of mint() let no record have two mint requests
\* that may still reach the chain.
THEOREM MintOneLive == Spec => []OneLiveMint
<1>1. IInv => OneLiveMint
  BY DEF IInv
<1> QED BY <1>1, Invariant, PTL

\* A transfer is shown complete only if the destination contract consumed the nonce
\* of its own burn, whoever completed it.
THEOREM MintCompleteIsReceived == Spec => []CompleteIsReceived
<1>1. IInv => CompleteIsReceived
  BY DEF IInv
<1> QED BY <1>1, Invariant, PTL
=============================================================================
