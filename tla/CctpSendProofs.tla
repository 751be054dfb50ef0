--------------------------- MODULE CctpSendProofs ---------------------------
(***************************************************************************)
(* Theorems about CctpSend, for any number of transfers, tabs, wallet      *)
(* requests and amounts.                                                   *)
(***************************************************************************)
EXTENDS CctpSend, TLAPS

(***************************************************************************)
(* What an invocation, a loop and a request carry at every step.           *)
(***************************************************************************)
CallerOK ==
  \A c \in Callers :
    /\ caller[c].pc # "idle" =>
         /\ sendLock = c
         /\ caller[c].rec \in Records
         /\ caller[c].kind \in {"approve", "burn"}
         /\ caller[c].prev \in IF caller[c].kind = "approve" THEN {"approval_required"}
                                                             ELSE {"approved", "ready"}
    /\ caller[c].pc = "attempt" => caller[c].attempt \in Attempt
    /\ caller[c].pc \in {"prompt", "receipt"} => caller[c].tx \in Tx

Decision == {"approved", "not_executed", "found", "success", "reverted"}

PollOK ==
  \A p \in Pollers, r \in Records :
    LET d == poll[p][r]
    IN  /\ d.pc # "idle" => d.snap.stage \in {"approving", "burning"}
        /\ d.pc = "nonce" => d.snap.attempt \in Attempt /\ d.snap.stage = "approving"
        /\ d.pc = "apply" =>
             /\ d.decision \in Decision
             /\ d.decision \in {"approved", "not_executed"} => d.snap.stage = "approving"
             /\ d.decision = "found" => d.snap.stage = "burning" /\ d.tx \in Tx

SendsOK ==
  \A x \in Tx :
    /\ sends[x].status = "unused" => sends[x].kind = None
    /\ sends[x].status # "unused" => /\ sends[x].kind \in {"approve", "burn", "elsewhere"}
                                     /\ sends[x].rec \in Records
    /\ sends[x].kind = "elsewhere" => sends[x].status = "success"

TInv == TypeOK /\ CallerOK /\ PollOK /\ SendsOK /\ OneUnresolved

-----------------------------------------------------------------------------
(***************************************************************************)
(* Writing one element.                                                    *)
(***************************************************************************)

\* Replacing one value of a function keeps its type.
LEMMA PutType ==
  ASSUME NEW S, NEW T, NEW f \in [S -> T], NEW i \in S, NEW e \in T
  PROVE  [f EXCEPT ![i] = e] \in [S -> T]
  OBVIOUS

\* The three ways the code writes a record: directly, by
\* updateMainnetTransferRecord and by transitionMainnetTransfer.  Each leaves
\* the other records alone and stores the new record or nothing.
Writes(r, new) ==
  queue' \in {[queue EXCEPT ![r] = new], Updated(queue, r, new),
              Transitioned(queue, r, new)}

LEMMA WriteOne ==
  ASSUME queue \in [Records -> Record], NEW r \in Records, NEW new \in Record,
         Writes(r, new)
  PROVE  /\ queue' \in [Records -> Record]
         /\ \A s \in Records \ {r} : queue'[s] = queue[s]
         /\ queue'[r] \in {queue[r], new}
<1>1. queue' \in {queue, [queue EXCEPT ![r] = new]}
  BY DEF Writes, Updated, Transitioned
<1>2. [queue EXCEPT ![r] = new] \in [Records -> Record]
  BY PutType
<1>3. CASE queue' = queue
  BY <1>3
<1>4. CASE queue' = [queue EXCEPT ![r] = new]
  BY <1>2, <1>4
<1> QED BY <1>1, <1>3, <1>4

\* A write that does not open a step keeps at most one transfer unresolved.
LEMMA WriteUnresolved ==
  ASSUME queue \in [Records -> Record], NEW r \in Records, NEW new \in Record,
         Writes(r, new), OneUnresolved,
         new.stage \notin {"approving", "burning"} \/ new.stage = queue[r].stage
  PROVE  OneUnresolved'
<1>1. \A s \in Records : Unresolved(s)' => Unresolved(s)
  BY WriteOne DEF Unresolved
<1> QED BY <1>1 DEF OneUnresolved

(***************************************************************************)
(* The types.                                                              *)
(***************************************************************************)
LEMMA CallerPut ==
  ASSUME TInv, NEW c \in Callers, NEW new \in CallerState,
         caller' = [caller EXCEPT ![c] = new]
  PROVE  caller' \in [Callers -> CallerState]
  BY PutType DEF TInv, TypeOK

LEMMA FinishType ==
  ASSUME TInv, NEW c \in Callers, Finish(c)
  PROVE  caller' \in [Callers -> CallerState] /\ sendLock' \in Callers \cup {None}
<1>1. IdleCaller \in CallerState
  BY DEF IdleCaller, CallerState
<1> QED BY <1>1, CallerPut DEF Finish

\* After Finish no invocation is left to speak of: the lock had one holder.
LEMMA FinishCallers ==
  ASSUME TInv, NEW c \in Callers, caller[c].pc # "idle", Finish(c)
  PROVE  CallerOK' /\ \A d \in Callers : caller'[d].pc = "idle"
<1>1. \A d \in Callers : caller'[d].pc = "idle"
  <2>1. caller'[c].pc = "idle"
    BY DEF TInv, TypeOK, Finish, IdleCaller
  <2>2. \A d \in Callers \ {c} : caller'[d] = caller[d] /\ caller[d].pc = "idle"
    BY DEF TInv, TypeOK, CallerOK, Finish
  <2> QED BY <2>1, <2>2
<1> QED BY <1>1 DEF CallerOK

LEMMA CallerFacts ==
  ASSUME TInv, NEW c \in Callers, caller[c].pc # "idle"
  PROVE  /\ caller[c].rec \in Records
         /\ caller[c].kind \in {"approve", "burn"}
         /\ caller[c].prev \in {"approval_required", "approved", "ready"}
         /\ caller[c].kind = "burn" => caller[c].prev \in {"approved", "ready"}
         /\ caller[c].kind = "approve" => caller[c].prev = "approval_required"
         /\ queue[caller[c].rec] \in Record
         /\ caller[c].pc \in {"prompt", "receipt"} => caller[c].tx \in Tx
         /\ sendLock = c
  BY DEF TInv, TypeOK, CallerOK

\* The error path that puts a step back where it was.
LEMMA ReleaseWrites ==
  ASSUME TInv, NEW c \in Callers, caller[c].pc # "idle", Release(c)
  PROVE  queue' \in [Records -> Record] /\ OneUnresolved'
<1> DEFINE r == caller[c].rec
           new == [queue[r] EXCEPT !.stage = caller[c].prev]
<1>1. new \in Record /\ new.stage = caller[c].prev
  BY CallerFacts DEF Record, Stage
<1>2. Writes(r, new)
  BY DEF Release, Writes
<1> HIDE DEF new
<1> QED BY <1>1, <1>2, CallerFacts, WriteOne, WriteUnresolved DEF TInv, TypeOK

\* Writing a hash into the record leaves its stage alone.
LEMMA StoreHashWrites ==
  ASSUME TInv, NEW c \in Callers, caller[c].pc # "idle", NEW x \in Tx, StoreHash(c, x)
  PROVE  queue' \in [Records -> Record] /\ OneUnresolved'
<1> DEFINE r == caller[c].rec
           new == IF caller[c].kind = "approve" THEN [queue[r] EXCEPT !.approvalTx = x]
                                                ELSE [queue[r] EXCEPT !.sourceTx = x]
<1>1. new \in Record /\ new.stage = queue[r].stage
  BY CallerFacts DEF Record
<1>2. Writes(r, new)
  BY DEF StoreHash, Writes
<1> HIDE DEF new
<1> QED BY <1>1, <1>2, CallerFacts, WriteOne, WriteUnresolved DEF TInv, TypeOK

(***************************************************************************)
(* Each action keeps the types.  One lemma per group of actions that write *)
(* the same variables.                                                     *)
(***************************************************************************)

\* The end of an invocation, whatever it wrote into the queue.
LEMMA EndStep ==
  ASSUME TInv, NEW c \in Callers, caller[c].pc # "idle", Finish(c),
         queue' \in [Records -> Record], OneUnresolved',
         poll' = poll, sends' \in [Tx -> Send], SendsOK',
         UNCHANGED <<minedAt, nonce, allowance, imported, era>>
  PROVE  TInv'
<1>1. TypeOK'
  BY FinishType DEF TInv, TypeOK
<1>2. PollOK'
  BY DEF TInv, PollOK
<1> QED BY <1>1, <1>2, FinishCallers DEF TInv

LEMMA PlanType ==
  ASSUME TInv, NEW r \in Records, NEW b \in BOOLEAN, CreatePlan(r, b)
  PROVE  TInv'
<1> DEFINE new == [NoRecord EXCEPT !.stage = IF b THEN "approval_required" ELSE "ready"]
<1>1. new \in Record /\ new.stage \notin {"approving", "burning"}
  BY DEF NoRecord, Record, Stage
<1>2. Writes(r, new)
  BY DEF CreatePlan, Writes
<1> HIDE DEF new
<1>3. queue' \in [Records -> Record] /\ OneUnresolved'
  BY <1>1, <1>2, WriteOne, WriteUnresolved DEF TInv, TypeOK
<1>4. TypeOK'
  BY <1>3 DEF TInv, TypeOK, CreatePlan, chain
<1> QED BY <1>3, <1>4 DEF TInv, CreatePlan, chain, CallerOK, PollOK, SendsOK

\* A step opens only while no other transfer of the wallet has one open.
LEMMA StartType ==
  ASSUME TInv, NEW c \in Callers, NEW r \in Records,
         NEW kind \in {"approve", "burn"}, NEW stages,
         NEW next \in {"approving", "burning"}, Start(c, r, kind, stages, next)
  PROVE  TInv'
<1> DEFINE new  == [queue[r] EXCEPT !.stage = next]
           work == [IdleCaller EXCEPT !.pc = "prepare", !.rec = r, !.kind = kind,
                                      !.prev = PreviousStage(r, kind)]
<1>1. new \in Record /\ queue' = [queue EXCEPT ![r] = new]
  BY DEF TInv, TypeOK, Record, Stage, Start
<1>2. work \in CallerState /\ caller' = [caller EXCEPT ![c] = work]
  BY DEF Start, CallerState, IdleCaller, PreviousStage
<1>3. queue' \in [Records -> Record] /\ \A s \in Records \ {r} : queue'[s] = queue[s]
  BY <1>1, PutType DEF TInv, TypeOK
<1>4. OneUnresolved'
  BY <1>3 DEF OneUnresolved, Unresolved, Start, NoUnresolvedSend
<1>5. TypeOK'
  BY <1>2, <1>3, CallerPut DEF TInv, TypeOK, Start, chain
<1>6. CallerOK'
  <2>1. \A d \in Callers : caller[d].pc = "idle"
    BY SendAssumption DEF TInv, CallerOK, Start
  <2>2. work.pc = "prepare" /\ work.rec = r /\ work.kind = kind /\ work.prev = PreviousStage(r, kind)
    BY DEF IdleCaller
  <2>3. caller'[c] = work /\ \A d \in Callers \ {c} : caller'[d].pc = "idle"
    BY <1>2, <2>1 DEF TInv, TypeOK
  <2> HIDE DEF work
  <2> QED BY <2>2, <2>3 DEF CallerOK, Start, PreviousStage
<1>7. PollOK' /\ SendsOK'
  BY DEF TInv, PollOK, SendsOK, Start, chain
<1> QED BY <1>4, <1>5, <1>6, <1>7 DEF TInv

LEMMA ReadAttemptType ==
  ASSUME TInv, NEW c \in Callers, ReadAttempt(c)
  PROVE  TInv'
<1>1. PICK block \in {nonce, nonce + 1} : caller' = [caller EXCEPT ![c] =
        [@ EXCEPT !.pc = "attempt", !.attempt = [nonce |-> nonce, block |-> block, era |-> era]]]
  BY DEF ReadAttempt
<1> DEFINE new == [caller[c] EXCEPT !.pc = "attempt",
                     !.attempt = [nonce |-> nonce, block |-> block, era |-> era]]
<1>2. new \in CallerState /\ caller' = [caller EXCEPT ![c] = new]
  <2>1. [nonce |-> nonce, block |-> block, era |-> era] \in Attempt
    BY DEF TInv, TypeOK, Attempt
  <2> QED BY <1>1, <2>1 DEF TInv, TypeOK, CallerState
<1>3. TypeOK'
  BY <1>2, CallerPut DEF TInv, TypeOK, ReadAttempt, chain
<1>4. CallerOK'
  <2>1. /\ new.pc = "attempt" /\ new.attempt \in Attempt
        /\ new.rec = caller[c].rec /\ new.kind = caller[c].kind /\ new.prev = caller[c].prev
    BY DEF TInv, TypeOK, CallerState, Attempt
  <2>2. caller'[c] = new /\ \A d \in Callers \ {c} : caller'[d] = caller[d]
    BY <1>2 DEF TInv, TypeOK
  <2> HIDE DEF new
  <2> QED BY <2>1, <2>2, ZenonT(40) DEF TInv, CallerOK, ReadAttempt
<1> QED BY <1>3, <1>4
        DEF TInv, ReadAttempt, chain, PollOK, SendsOK, OneUnresolved, Unresolved

LEMMA RequestType ==
  ASSUME TInv, NEW c \in Callers, NEW x \in Tx, RequestWallet(c, x)
  PROVE  TInv'
<1> DEFINE r    == caller[c].rec
           k    == caller[c].kind
           new  == [queue[r] EXCEPT !.attempt = caller[c].attempt,
                                    !.approvalTx = IF k = "approve" THEN None ELSE @,
                                    !.sourceTx = IF k = "burn" THEN None ELSE @]
           work == [caller[c] EXCEPT !.pc = "prompt", !.tx = x]
           send == [kind |-> k, rec |-> r, status |-> "prompt"]
<1>1. r \in Records /\ k \in {"approve", "burn"} /\ caller[c].attempt \in Attempt
  BY DEF TInv, CallerOK, RequestWallet
<1>2. new \in Record /\ new.stage = queue[r].stage
  BY <1>1, ZenonT(40) DEF TInv, TypeOK, Record
<1>3. Writes(r, new)
  BY DEF RequestWallet, Writes
<1>4. work \in CallerState /\ caller' = [caller EXCEPT ![c] = work]
  BY DEF TInv, TypeOK, CallerState, RequestWallet
<1>5. send \in Send /\ sends' = [sends EXCEPT ![x] = send]
  BY <1>1 DEF Send, Live, RequestWallet
<1>6. queue' \in [Records -> Record] /\ OneUnresolved'
  <2> HIDE DEF new
  <2> QED BY <1>1, <1>2, <1>3, WriteOne, WriteUnresolved DEF TInv, TypeOK
<1>7. sends' \in [Tx -> Send]
  BY <1>5, PutType DEF TInv, TypeOK
<1>8. TypeOK'
  BY <1>4, <1>6, <1>7, CallerPut DEF TInv, TypeOK, RequestWallet
<1>9. CallerOK'
  BY DEF TInv, TypeOK, CallerOK, RequestWallet
<1>10. PollOK'
  BY DEF TInv, PollOK, RequestWallet
<1>11. SendsOK'
  BY <1>1, <1>5 DEF TInv, TypeOK, SendsOK
<1> QED BY <1>6, <1>8, <1>9, <1>10, <1>11 DEF TInv

\* Changing what became of one request keeps the types of all of them.
LEMMA SendStatus ==
  ASSUME TInv, NEW x \in Tx, sends[x].status \notin {"unused", "success"},
         NEW status \in Live \cup {"rejected", "success", "reverted"},
         sends' = [sends EXCEPT ![x].status = status]
  PROVE  sends' \in [Tx -> Send] /\ SendsOK'
<1> DEFINE send == [sends[x] EXCEPT !.status = status]
<1>1. /\ send \in Send /\ send.kind = sends[x].kind /\ send.rec = sends[x].rec
      /\ send.status = status /\ status # "unused"
  BY DEF TInv, TypeOK, Send, Live
<1>2. sends' = [sends EXCEPT ![x] = send]
  OBVIOUS
<1> HIDE DEF send
<1>3. sends' \in [Tx -> Send]
  BY <1>1, <1>2, PutType DEF TInv, TypeOK
<1> QED BY <1>1, <1>2, <1>3 DEF TInv, TypeOK, SendsOK

LEMMA PrepareFailsType ==
  ASSUME TInv, NEW c \in Callers, PrepareFails(c)
  PROVE  TInv'
<1>1. sends' \in [Tx -> Send] /\ SendsOK'
  BY DEF TInv, TypeOK, SendsOK, PrepareFails, chain
<1> QED BY <1>1, ReleaseWrites, EndStep DEF PrepareFails, chain

LEMMA WalletRejectsType ==
  ASSUME TInv, NEW c \in Callers, WalletRejects(c)
  PROVE  TInv'
<1>1. caller[c].tx \in Tx
  BY CallerFacts DEF WalletRejects
<1>2. sends' \in [Tx -> Send] /\ SendsOK'
  BY <1>1, SendStatus DEF WalletRejects
<1> QED BY <1>2, ReleaseWrites, EndStep DEF WalletRejects

\* The request an invocation leaves behind: in the wallet or on the chain.
LEMMA LeftBehind ==
  ASSUME TInv, NEW x \in Tx,
         sends' \in {sends, [sends EXCEPT ![x].status = "limbo"]},
         sends[x].status = "prompt" \/ sends' = sends
  PROVE  sends' \in [Tx -> Send] /\ SendsOK'
<1>1. CASE sends' = sends
  BY <1>1 DEF TInv, TypeOK, SendsOK
<1>2. CASE sends' # sends
  BY <1>2, SendStatus DEF Live
<1> QED BY <1>1, <1>2

LEMMA WalletLostType ==
  ASSUME TInv, NEW c \in Callers, WalletLost(c)
  PROVE  TInv'
<1> DEFINE x == caller[c].tx
<1>1. x \in Tx
  BY CallerFacts DEF WalletLost
<1>2. sends' = IF sends[x].status = "prompt" THEN [sends EXCEPT ![x].status = "limbo"] ELSE sends
  <2>1. sends[x] \in Send
    BY <1>1 DEF TInv, TypeOK
  <2>2. [sends EXCEPT ![x].status = sends[x].status] = sends
    BY <1>1, <2>1 DEF TInv, TypeOK, Send
  <2> QED BY <1>1, <2>2 DEF WalletLost
<1>3. sends' \in [Tx -> Send] /\ SendsOK'
  BY <1>1, <1>2, LeftBehind
<1>4. queue' \in [Records -> Record] /\ OneUnresolved'
  BY DEF TInv, TypeOK, WalletLost, OneUnresolved, Unresolved
<1> QED BY <1>3, <1>4, EndStep DEF WalletLost

LEMMA TabClosesType ==
  ASSUME TInv, NEW c \in Callers, TabCloses(c)
  PROVE  TInv'
<1>1. sends' \in [Tx -> Send] /\ SendsOK'
  <2>1. CASE caller[c].pc = "prompt" /\ sends[caller[c].tx].status = "prompt"
    BY <2>1, CallerFacts, LeftBehind DEF TabCloses
  <2>2. CASE ~(caller[c].pc = "prompt" /\ sends[caller[c].tx].status = "prompt")
    BY <2>2 DEF TInv, TypeOK, TabCloses, SendsOK
  <2> QED BY <2>1, <2>2
<1>2. queue' \in [Records -> Record] /\ OneUnresolved'
  BY DEF TInv, TypeOK, TabCloses, OneUnresolved, Unresolved
<1> QED BY <1>1, <1>2, EndStep DEF TabCloses

LEMMA WalletAnswersType ==
  ASSUME TInv, NEW c \in Callers, WalletAnswers(c)
  PROVE  TInv'
<1> DEFINE work == [caller[c] EXCEPT !.pc = "receipt"]
<1>1. caller[c].tx \in Tx
  BY CallerFacts DEF WalletAnswers
<1>2. queue' \in [Records -> Record] /\ OneUnresolved'
  BY <1>1, StoreHashWrites DEF WalletAnswers
<1>3. work \in CallerState /\ caller' = [caller EXCEPT ![c] = work]
  BY DEF TInv, TypeOK, CallerState, WalletAnswers
<1>4. TypeOK'
  BY <1>2, <1>3, CallerPut DEF TInv, TypeOK, WalletAnswers, chain
<1>5. CallerOK'
  <2>1. /\ work.pc = "receipt" /\ work.rec = caller[c].rec /\ work.tx = caller[c].tx
        /\ work.kind = caller[c].kind /\ work.prev = caller[c].prev
    BY DEF TInv, TypeOK, CallerState
  <2>2. caller'[c] = work /\ \A d \in Callers \ {c} : caller'[d] = caller[d]
    BY <1>3 DEF TInv, TypeOK
  <2> HIDE DEF work
  <2> QED BY <1>1, <2>1, <2>2 DEF TInv, CallerOK, WalletAnswers
<1> QED BY <1>2, <1>4, <1>5 DEF TInv, WalletAnswers, chain, PollOK, SendsOK

LEMMA ReceiptType ==
  ASSUME TInv, NEW c \in Callers,
         ReceiptSuccess(c) \/ ReceiptReverted(c) \/ ReceiptUnknown(c)
  PROVE  TInv'
<1> DEFINE r == caller[c].rec
           x == caller[c].tx
<1>1. r \in Records /\ x \in Tx /\ queue[r] \in Record
  BY CallerFacts DEF ReceiptSuccess, ReceiptReverted, ReceiptUnknown
<1>2. sends' \in [Tx -> Send] /\ SendsOK'
  BY DEF TInv, TypeOK, SendsOK, ReceiptSuccess, ReceiptReverted, ReceiptUnknown, chain
<1>3. queue' \in [Records -> Record] /\ OneUnresolved'
  <2>1. CASE ReceiptUnknown(c)
    BY <1>1, <2>1, StoreHashWrites DEF ReceiptUnknown
  <2>2. CASE ReceiptReverted(c)
    <3> DEFINE new == IF caller[c].kind = "approve"
             THEN [queue[r] EXCEPT !.stage = "approval_required", !.approvalTx = None]
             ELSE [queue[r] EXCEPT !.stage = caller[c].prev, !.sourceTx = None]
    <3>1. new \in Record /\ new.stage \notin {"approving", "burning"}
      BY <1>1, <2>2, CallerFacts DEF Record, Stage, ReceiptReverted
    <3>2. Writes(r, new)
      BY <2>2 DEF ReceiptReverted, Writes
    <3> HIDE DEF new
    <3> QED BY <1>1, <3>1, <3>2, WriteOne, WriteUnresolved DEF TInv, TypeOK
  <2>3. CASE ReceiptSuccess(c)
    <3> DEFINE next == IF caller[c].kind = "approve" THEN "approved" ELSE "waiting_attestation"
               new == IF caller[c].kind = "approve"
                      THEN [queue[r] EXCEPT !.stage = next, !.approvalTx = x]
                      ELSE [queue[r] EXCEPT !.stage = next, !.sourceTx = x]
    <3>1. new \in Record /\ new.stage \notin {"approving", "burning"}
      BY <1>1 DEF Record, Stage
    <3>2. CASE CanTransition(queue[r].stage, next)
      <4>1. queue' = [queue EXCEPT ![r] = new]
        BY <2>3, <3>2 DEF ReceiptSuccess
      <4>2. Writes(r, new)
        BY <4>1 DEF Writes
      <4> HIDE DEF new
      <4> QED BY <1>1, <3>1, <4>2, WriteOne, WriteUnresolved DEF TInv, TypeOK
    <3>3. CASE ~CanTransition(queue[r].stage, next)
      <4>1. StoreHash(c, x)
        BY <2>3, <3>3 DEF ReceiptSuccess
      <4> QED BY <1>1, <2>3, <4>1, StoreHashWrites DEF ReceiptSuccess
    <3> QED BY <3>2, <3>3
  <2> QED BY <2>1, <2>2, <2>3
<1> QED BY <1>2, <1>3, EndStep
        DEF ReceiptSuccess, ReceiptReverted, ReceiptUnknown, chain

LEMMA BroadcastType ==
  ASSUME TInv, NEW x \in Tx, Broadcast(x)
  PROVE  TInv'
<1>1. sends' \in [Tx -> Send] /\ SendsOK'
  BY SendStatus DEF Broadcast, Live
<1>2. TypeOK'
  BY <1>1 DEF TInv, TypeOK, Broadcast
<1> QED BY <1>1, <1>2
        DEF TInv, Broadcast, CallerOK, PollOK, OneUnresolved, Unresolved

\* depositForBurn takes from the allowance only what is there.
LEMMA MineType ==
  ASSUME TInv, NEW x \in Tx, MineApproval(x) \/ MineBurn(x) \/ MineReverted(x)
  PROVE  TInv'
<1>1. PICK status \in {"success", "reverted"} : Mine(x, status)
  BY DEF MineApproval, MineBurn, MineReverted
<1>2. sends' \in [Tx -> Send] /\ SendsOK'
  BY <1>1, SendStatus DEF Mine
<1>3. nonce' \in Nat /\ minedAt' \in [Tx -> Nat]
  BY <1>1 DEF TInv, TypeOK, Mine
<1>4. sends[x].rec \in Records
  BY <1>1 DEF TInv, SendsOK, Mine
<1>5. Amount[sends[x].rec] \in Nat
  BY <1>4, SendAssumption
<1>6. allowance' \in Nat
  BY <1>5 DEF TInv, TypeOK, MineApproval, MineBurn, MineReverted
<1>7. TypeOK'
  BY <1>1, <1>2, <1>3, <1>6 DEF TInv, TypeOK, Mine
<1> QED BY <1>1, <1>2, <1>7
        DEF TInv, Mine, CallerOK, PollOK, OneUnresolved, Unresolved

\* A burn from elsewhere is a request that was never open here.
LEMMA ElsewhereType ==
  ASSUME TInv, NEW x \in Tx, NEW r \in Records, BurnElsewhere(x, r)
  PROVE  TInv'
<1> DEFINE send == [kind |-> "elsewhere", rec |-> r, status |-> "success"]
<1>1. send \in Send /\ sends' = [sends EXCEPT ![x] = send]
  BY DEF Send, BurnElsewhere
<1>2. sends' \in [Tx -> Send] /\ minedAt' \in [Tx -> Nat] /\ nonce' \in Nat
  BY <1>1, PutType DEF TInv, TypeOK, BurnElsewhere
<1>3. allowance' \in Nat
  BY SendAssumption DEF TInv, TypeOK, BurnElsewhere
<1>4. SendsOK'
  BY <1>1 DEF TInv, TypeOK, SendsOK
<1>5. TypeOK'
  BY <1>2, <1>3 DEF TInv, TypeOK, BurnElsewhere
<1> QED BY <1>4, <1>5
        DEF TInv, BurnElsewhere, CallerOK, PollOK, OneUnresolved, Unresolved

LEMMA HeadMovesOnType ==
  ASSUME TInv, HeadMovesOn
  PROVE  TInv'
<1>1. TypeOK'
  BY DEF TInv, TypeOK, HeadMovesOn, chain
<1> QED BY <1>1
        DEF TInv, HeadMovesOn, chain, CallerOK, PollOK, SendsOK, OneUnresolved, Unresolved

\* An import leaves the queue alone or moves a record that names the burn on.
LEMMA ImportWrites ==
  ASSUME TInv, NEW x \in Tx, Import(x)
  PROVE  /\ imported' \subseteq Tx
         /\ \/ queue' = queue
            \/ \E r \in Records : \E new \in Record :
                 /\ queue[r].sourceTx = x /\ new = [queue[r] EXCEPT !.stage = "waiting_attestation"]
                 /\ new.stage = "waiting_attestation" /\ new.sourceTx = x
                 /\ Writes(r, new)
<1> DEFINE known == {r \in Records : queue[r].sourceTx = x}
<1>1. CASE known = {}
  BY <1>1, Zenon DEF Import, TInv, TypeOK
<1>2. CASE known # {}
  <2>1. PICK r \in known : queue' = [queue EXCEPT ![r].stage = "waiting_attestation"]
    BY <1>2, Zenon DEF Import
  <2>2. imported' = imported
    BY <1>2, Zenon DEF Import
  <2> DEFINE new == [queue[r] EXCEPT !.stage = "waiting_attestation"]
  <2>3. new \in Record /\ new.stage = "waiting_attestation" /\ new.sourceTx = x
    BY DEF TInv, TypeOK, Record, Stage
  <2>4. queue' = [queue EXCEPT ![r] = new]
    BY <2>1
  <2>5. Writes(r, new)
    BY <2>4 DEF Writes
  <2>6. new = [queue[r] EXCEPT !.stage = "waiting_attestation"]
    OBVIOUS
  <2> HIDE DEF new
  <2> QED BY <2>2, <2>3, <2>5, <2>6 DEF TInv, TypeOK
<1> QED BY <1>1, <1>2

LEMMA ImportType ==
  ASSUME TInv, NEW x \in Tx, Import(x)
  PROVE  TInv'
<1>1. queue' \in [Records -> Record] /\ OneUnresolved'
  <2>1. CASE queue' = queue
    BY <2>1 DEF TInv, TypeOK, OneUnresolved, Unresolved
  <2>2. CASE queue' # queue
    BY <2>2, ImportWrites, WriteOne, WriteUnresolved DEF TInv, TypeOK
  <2> QED BY <2>1, <2>2
<1>2. TypeOK'
  BY <1>1, ImportWrites DEF TInv, TypeOK, Import, chain
<1> QED BY <1>1, <1>2 DEF TInv, Import, chain, CallerOK, PollOK, SendsOK

\* A loop that only reads changes nothing but where it stands.
LEMMA PollStep ==
  ASSUME TInv, poll' \in [Pollers -> [Records -> PollState]], PollOK',
         UNCHANGED <<queue, sendLock, caller, chain, imported, era>>
  PROVE  TInv'
<1>1. TypeOK'
  BY DEF TInv, TypeOK, chain
<1> QED BY <1>1 DEF TInv, chain, CallerOK, SendsOK, OneUnresolved, Unresolved

LEMMA PollPut ==
  ASSUME TInv, NEW p \in Pollers, NEW r \in Records, NEW new \in PollState,
         poll' = [poll EXCEPT ![p][r] = new],
         new.pc # "idle" => new.snap.stage \in {"approving", "burning"},
         new.pc = "nonce" => new.snap.attempt \in Attempt /\ new.snap.stage = "approving",
         new.pc = "apply" =>
           /\ new.decision \in Decision
           /\ new.decision \in {"approved", "not_executed"} => new.snap.stage = "approving"
           /\ new.decision = "found" => new.snap.stage = "burning" /\ new.tx \in Tx
  PROVE  poll' \in [Pollers -> [Records -> PollState]] /\ PollOK'
<1>1. poll[p] \in [Records -> PollState]
  BY DEF TInv, TypeOK
<1>2. poll' = [poll EXCEPT ![p] = [poll[p] EXCEPT ![r] = new]]
  OBVIOUS
<1>3. [poll[p] EXCEPT ![r] = new] \in [Records -> PollState]
  BY <1>1, PutType
<1>4. poll' \in [Pollers -> [Records -> PollState]]
  BY <1>2, <1>3, PutType DEF TInv, TypeOK
<1>5. \A q \in Pollers, s \in Records :
        poll'[q][s] = IF q = p /\ s = r THEN new ELSE poll[q][s]
  BY <1>1, <1>2 DEF TInv, TypeOK
<1>6. PollOK'
  BY <1>5 DEF TInv, PollOK
<1> QED BY <1>4, <1>6

LEMMA IdlePollType == IdlePoll \in PollState
<1>1. NoRecord \in Record
  BY DEF NoRecord, Record, Stage
<1> QED BY <1>1 DEF IdlePoll, PollState

LEMMA CycleType ==
  ASSUME TInv, NEW p \in Pollers, CycleStart(p)
  PROVE  TInv'
<1>1. PICK batch \in SUBSET Recoverable :
        poll' = [poll EXCEPT ![p] = [r \in Records |->
          IF r \in batch THEN [IdlePoll EXCEPT !.pc = "read", !.snap = queue[r]]
                         ELSE IdlePoll]]
  BY DEF CycleStart
<1> DEFINE read(r) == [IdlePoll EXCEPT !.pc = "read", !.snap = queue[r]]
<1>2. \A r \in Records : read(r) \in PollState
  BY IdlePollType DEF TInv, TypeOK, IdlePoll, PollState
<1>3. \A r \in Records : read(r).pc = "read" /\ read(r).snap = queue[r]
  BY DEF IdlePoll
<1>4. \A r \in batch : queue[r].stage \in {"approving", "burning"}
  BY DEF Recoverable, Unresolved
<1>5. poll' = [poll EXCEPT ![p] = [r \in Records |-> IF r \in batch THEN read(r) ELSE IdlePoll]]
  BY <1>1
<1>6. IdlePoll.pc = "idle"
  BY DEF IdlePoll
<1> HIDE DEF read
<1>7. [r \in Records |-> IF r \in batch THEN read(r) ELSE IdlePoll] \in [Records -> PollState]
  BY <1>2, IdlePollType
<1>8. poll' \in [Pollers -> [Records -> PollState]]
  BY <1>5, <1>7, PutType DEF TInv, TypeOK
<1>9. \A q \in Pollers, r \in Records : poll'[q][r] =
        IF q = p THEN IF r \in batch THEN read(r) ELSE IdlePoll ELSE poll[q][r]
  BY <1>5 DEF TInv, TypeOK
<1>10. PollOK'
  BY <1>3, <1>4, <1>6, <1>9 DEF TInv, PollOK
<1> QED BY <1>8, <1>10, PollStep DEF CycleStart

LEMMA ReadType ==
  ASSUME TInv, NEW p \in Pollers, NEW r \in Records,
         \/ ReadAllowance(p, r) \/ ReadNonce(p, r) \/ ReadDeposits(p, r)
         \/ ReadReceipt(p, r)   \/ ReadUnknown(p, r)
  PROVE  TInv'
<1> DEFINE d == poll[p][r]
           decided(kind, x) == [d EXCEPT !.pc = "apply", !.decision = kind, !.tx = x]
<1>1. d \in PollState
  BY DEF TInv, TypeOK
<1>2. \A kind \in Decision, x \in Tx \cup {None} :
        /\ decided(kind, x) \in PollState
        /\ decided(kind, x).pc = "apply" /\ decided(kind, x).snap = d.snap
        /\ decided(kind, x).decision = kind /\ decided(kind, x).tx = x
  BY <1>1 DEF PollState, Decision
<1>3. UNCHANGED <<queue, sendLock, caller, chain, imported, era>>
  BY DEF ReadAllowance, ReadNonce, ReadDeposits, ReadReceipt, ReadUnknown
<1>4. ASSUME NEW kind \in Decision, NEW x \in Tx \cup {None}, Decide(p, r, kind, x),
             d.pc # "idle",
             kind \in {"approved", "not_executed"} => d.snap.stage = "approving",
             kind = "found" => d.snap.stage = "burning" /\ x \in Tx
      PROVE  TInv'
  <2> DEFINE new == decided(kind, x)
  <2>1. poll' = [poll EXCEPT ![p][r] = new]
    BY <1>4 DEF Decide
  <2>2. d.snap.stage \in {"approving", "burning"}
    BY <1>4 DEF TInv, PollOK
  <2> HIDE DEF decided
  <2>3. /\ new \in PollState /\ new.pc = "apply" /\ new.snap = d.snap
        /\ new.decision = kind /\ new.tx = x
    BY <1>2, <1>4
  <2> HIDE DEF new
  <2>4. poll' \in [Pollers -> [Records -> PollState]] /\ PollOK'
    BY <1>4, <2>1, <2>2, <2>3, PollPut
  <2> QED BY <1>3, <2>4, PollStep
<1> HIDE DEF decided
<1>5. CASE ReadAllowance(p, r)
  <2>1. CASE allowance >= Amount[r]
    BY <1>4, <1>5, <2>1 DEF ReadAllowance, Decision
  <2>2. CASE ~(allowance >= Amount[r])
    <3> DEFINE new == [d EXCEPT !.pc = "nonce"]
    <3>1. new \in PollState /\ new.pc = "nonce" /\ new.snap = d.snap
      BY <1>1 DEF PollState
    <3>2. d.snap.stage = "approving" /\ d.snap.attempt \in Attempt
      BY <1>1, <1>5 DEF ReadAllowance, PollState, Record
    <3>3. poll' = [poll EXCEPT ![p][r] = new]
      BY <1>5, <2>2 DEF ReadAllowance
    <3> HIDE DEF new
    <3>4. poll' \in [Pollers -> [Records -> PollState]] /\ PollOK'
      BY <3>1, <3>2, <3>3, PollPut
    <3> QED BY <1>3, <3>4, PollStep
  <2> QED BY <2>1, <2>2
<1>6. CASE ReadNonce(p, r)
  <2>1. d.snap.stage = "approving"
    BY <1>6 DEF TInv, PollOK, ReadNonce
  <2> QED BY <1>4, <1>6, <2>1 DEF ReadNonce, Decision
<1>7. CASE ReadDeposits(p, r)
  BY <1>4, <1>7 DEF ReadDeposits, Decision
<1>8. CASE ReadReceipt(p, r)
  <2>1. sends[SnapTx(d.snap)].status \in {"success", "reverted"} /\ d.pc # "idle"
    BY <1>8 DEF ReadReceipt, Mined
  <2>2. SnapTx(d.snap) \in Tx \cup {None}
    BY <1>1 DEF SnapTx, PollState, Record
  <2>3. Decide(p, r, sends[SnapTx(d.snap)].status, SnapTx(d.snap))
    BY <1>8 DEF ReadReceipt
  <2> QED BY <1>4, <2>1, <2>2, <2>3 DEF Decision
<1>9. CASE ReadUnknown(p, r)
  <2>1. poll' \in [Pollers -> [Records -> PollState]] /\ PollOK'
    BY <1>9, IdlePollType, PollPut DEF ReadUnknown, IdlePoll
  <2> QED BY <1>3, <2>1, PollStep
<1> QED BY <1>5, <1>6, <1>7, <1>8, <1>9

\* A decision opens no step.
LEMMA ApplyType ==
  ASSUME TInv, NEW p \in Pollers, NEW r \in Records, ApplyDecision(p, r)
  PROVE  TInv'
<1> DEFINE d == poll[p][r]
           found == [queue[r] EXCEPT !.sourceTx = d.tx]
           settled == Settled(r, d.snap, d.decision)
<1>1. d \in PollState /\ d.decision \in Decision /\ queue[r] \in Record
  BY DEF TInv, TypeOK, PollOK, ApplyDecision
<1>2. queue' \in [Records -> Record] /\ OneUnresolved'
  <2>1. CASE d.decision = "found"
    <3>1. found \in Record /\ found.stage = queue[r].stage
      BY <1>1 DEF Record, PollState
    <3>2. Writes(r, found)
      BY <2>1 DEF ApplyDecision, Writes
    <3> HIDE DEF found
    <3> QED BY <3>1, <3>2, WriteOne, WriteUnresolved DEF TInv, TypeOK
  <2>2. CASE d.decision # "found"
    <3>1. settled \in Record /\ settled.stage \notin {"approving", "burning"}
      BY <1>1, <2>2 DEF Settled, ConfirmedStage, Decision, Record, Stage
    <3>2. Writes(r, settled)
      BY <2>2 DEF ApplyDecision, Writes
    <3> HIDE DEF settled
    <3> QED BY <3>1, <3>2, WriteOne, WriteUnresolved DEF TInv, TypeOK
  <2> QED BY <2>1, <2>2
<1>3. poll' \in [Pollers -> [Records -> PollState]] /\ PollOK'
  BY IdlePollType, PollPut DEF ApplyDecision, IdlePoll
<1>4. TypeOK'
  BY <1>2, <1>3 DEF TInv, TypeOK, ApplyDecision, chain
<1> QED BY <1>2, <1>3, <1>4 DEF TInv, ApplyDecision, chain, CallerOK, SendsOK

-----------------------------------------------------------------------------
LEMMA TInvInit == Init => TInv
<1> SUFFICES ASSUME Init PROVE TInv
  OBVIOUS
<1>1. NoRecord \in Record /\ IdleCaller \in CallerState /\ UnusedTx \in Send
  BY DEF NoRecord, Record, Stage, IdleCaller, CallerState, UnusedTx, Send
<1>2. TypeOK
  BY <1>1, IdlePollType, SendAssumption DEF Init, TypeOK
<1>3. CallerOK /\ PollOK /\ SendsOK
  BY SendAssumption DEF Init, CallerOK, PollOK, SendsOK, IdleCaller, IdlePoll, UnusedTx
<1>4. OneUnresolved
  BY DEF Init, OneUnresolved, Unresolved, NoRecord
<1> QED BY <1>2, <1>3, <1>4 DEF TInv

LEMMA TInvStep == TInv /\ [Next]_vars => TInv'
<1> SUFFICES ASSUME TInv, [Next]_vars PROVE TInv'
  OBVIOUS
<1>1. CASE Other
  <2>1. ASSUME NEW r \in Records, NEW b \in BOOLEAN, CreatePlan(r, b) PROVE TInv'
    BY <2>1, PlanType
  <2>2. ASSUME NEW c \in Callers, NEW x \in Tx, RequestWallet(c, x) PROVE TInv'
    BY <2>2, RequestType
  <2>3. ASSUME NEW c \in Callers,
               \/ PrepareFails(c)    \/ ReadAttempt(c)    \/ WalletRejects(c)
               \/ WalletLost(c)      \/ WalletAnswers(c)  \/ ReceiptSuccess(c)
               \/ ReceiptReverted(c) \/ ReceiptUnknown(c) \/ TabCloses(c)
        PROVE  TInv'
    BY <2>3, PrepareFailsType, ReadAttemptType, WalletRejectsType, WalletLostType,
       WalletAnswersType, ReceiptType, TabClosesType
  <2>4. ASSUME NEW x \in Tx,
               \/ Broadcast(x)    \/ MineApproval(x) \/ MineBurn(x)
               \/ MineReverted(x) \/ Import(x)
        PROVE  TInv'
    BY <2>4, BroadcastType, MineType, ImportType
  <2>5. ASSUME NEW p \in Pollers, CycleStart(p) PROVE TInv'
    BY <2>5, CycleType
  <2>6. ASSUME NEW p \in Pollers, NEW r \in Records,
               \/ ReadAllowance(p, r) \/ ReadNonce(p, r)   \/ ReadDeposits(p, r)
               \/ ReadReceipt(p, r)   \/ ReadUnknown(p, r) \/ ApplyDecision(p, r)
        PROVE  TInv'
    BY <2>6, ReadType, ApplyType
  <2> QED BY <1>1, <2>1, <2>2, <2>3, <2>4, <2>5, <2>6, ElsewhereType, HeadMovesOnType DEF Other
<1>2. ASSUME NEW r \in Records, NewAttempt(r) PROVE TInv'
  BY <1>2, StartType DEF NewAttempt, StartApprove, StartBurn
<1>3. CASE UNCHANGED vars
  BY <1>3 DEF vars, TInv, TypeOK, CallerOK, PollOK, SendsOK, OneUnresolved, Unresolved
<1> QED BY <1>1, <1>2, <1>3 DEF Next

\* Every variable of the send side keeps its type, in every interleaving.
THEOREM SendTypes == Spec => []TypeOK
<1>1. TInv => TypeOK
  BY DEF TInv
<1> QED BY <1>1, TInvInit, TInvStep, PTL DEF Spec

\* A wallet never has two transfers with an open outcome: what keeps one lost
\* request from being followed by another, in every interleaving.
THEOREM SendOneUnresolved == Spec => []OneUnresolved
<1>1. TInv => OneUnresolved
  BY DEF TInv
<1> QED BY <1>1, TInvInit, TInvStep, PTL DEF Spec

-----------------------------------------------------------------------------
(***************************************************************************)
(* Why a transfer burns once: PromptSpec => []NoSecondBurn, and with it    *)
(* what CctpSend says of burns that may land and of burns that landed.     *)
(***************************************************************************)

(***************************************************************************)
(* The inductive invariant.  A burn request is effective while it may land *)
(* and once it has landed.                                                 *)
(***************************************************************************)
Effective(r) == {x \in Burns(r) : sends[x].status \in Live \cup {"success"}}

Sent(x) == sends[x].status \in {"pending", "success"}

\* An effective burn is the only one, and its transfer is locked on it.
OwnerOK(r) ==
  \A x \in Effective(r) :
    /\ \A y \in Effective(r) : x = y
    /\ queue[r].stage \in {"burning", "waiting_attestation"}
    /\ queue[r].sourceTx \in {None, x}
    /\ queue[r].stage = "waiting_attestation" => sends[x].status = "success"

\* A hash in the record is the one of an effective burn the wallet has sent.
HashOK(r) ==
  LET x == queue[r].sourceTx
  IN  /\ x # None => x \in Effective(r) /\ Sent(x)
      /\ queue[r].stage = "waiting_attestation" => x # None /\ sends[x].status = "success"

ApproveStages == {"approving", "approved", "approval_required"}

\* An invocation works on a record no one else has moved on, and what it asked
\* the wallet for is what its record waits for.
WorkOK(c, r) ==
  caller[c].pc # "idle" /\ caller[c].rec = r =>
    /\ caller[c].kind = "approve" => queue[r].stage \in ApproveStages
    /\ caller[c].pc \in {"prompt", "receipt"} /\ caller[c].kind = "approve" =>
         \A s \in Records : caller[c].tx \notin Effective(s)
    /\ caller[c].pc \in {"prepare", "attempt"} /\ caller[c].kind = "burn" =>
         queue[r].stage = "burning" /\ Effective(r) = {}
    /\ caller[c].pc \in {"prompt", "receipt"} /\ caller[c].kind = "burn" =>
         caller[c].tx \in Effective(r)
    /\ caller[c].pc = "receipt" /\ caller[c].kind = "burn" => Sent(caller[c].tx)

\* What a loop knows of a record is still true of it, and no other transfer
\* has started since.
EvidenceOK(p, r) ==
  LET d == poll[p][r]
  IN  d.pc # "idle" =>
        /\ \A s \in Records \ {r} : ~Unresolved(s)
        /\ d.snap.stage = "approving" => queue[r].stage \in ApproveStages
        /\ d.snap.stage = "burning" /\ d.snap.sourceTx # None =>
             queue[r].sourceTx = d.snap.sourceTx
        /\ d.pc = "apply" /\ d.snap.stage = "burning" /\ d.decision # "found" =>
             /\ d.snap.sourceTx # None
             /\ d.decision = "success"
             /\ sends[d.snap.sourceTx].status = "success"
        /\ d.pc = "apply" /\ d.decision = "found" =>
             d.tx \in Effective(r) /\ sends[d.tx].status = "success"

RecordsOK == \A r \in Records : OwnerOK(r) /\ HashOK(r)
WorksOK == \A c \in Callers, r \in Records : WorkOK(c, r)
EvidencesOK == \A p \in Pollers, r \in Records : EvidenceOK(p, r)

BInv == RecordsOK /\ WorksOK /\ EvidencesOK

BurnInv == Clean => BInv

-----------------------------------------------------------------------------
(***************************************************************************)
(* Steps that leave a burn to its transfer.  Keeps(r): the same requests   *)
(* are effective, and what was sent or has landed stays so.  Moves(r): the *)
(* record stays as it is, goes from one stage of the approval to another,  *)
(* or learns of an effective burn.                                         *)
(***************************************************************************)
Keeps(r) ==
  /\ Effective(r)' = Effective(r)
  /\ \A x \in Effective(r) :
       /\ Sent(x) => Sent(x)'
       /\ sends[x].status = "success" => sends'[x].status = "success"

Learns(r) ==
  \E x \in Effective(r) :
    /\ Sent(x)
    /\ queue'[r].sourceTx = x
    /\ \/ queue'[r].stage = queue[r].stage
       \/ queue'[r].stage = "waiting_attestation" /\ sends[x].status = "success"

Moves(r) ==
  \/ queue'[r].sourceTx = queue[r].sourceTx /\ queue'[r].stage = queue[r].stage
  \/ /\ queue'[r].sourceTx = queue[r].sourceTx
     /\ {queue[r].stage, queue'[r].stage} \subseteq ApproveStages
     /\ queue'[r].stage = "approving" => queue[r].stage = "approving"
  \/ Learns(r)

LEMMA EffectiveTx ==
  ASSUME NEW r, NEW x \in Effective(r)
  PROVE  x \in Tx /\ x # None
  BY SendAssumption DEF Effective, Burns

LEMMA KeepsRecord ==
  ASSUME BInv, NEW r \in Records, Keeps(r), Moves(r)
  PROVE  OwnerOK(r)' /\ HashOK(r)'
<1>1. OwnerOK(r) /\ HashOK(r)
  BY DEF BInv, RecordsOK
<1>2. CASE queue'[r].sourceTx = queue[r].sourceTx /\ queue'[r].stage = queue[r].stage
  BY <1>1, <1>2 DEF OwnerOK, HashOK, Keeps, Sent
<1>3. CASE /\ queue'[r].sourceTx = queue[r].sourceTx
           /\ {queue[r].stage, queue'[r].stage} \subseteq ApproveStages
  BY <1>1, <1>3 DEF OwnerOK, HashOK, Keeps, ApproveStages
<1>4. CASE Learns(r)
  <2>1. PICK x \in Effective(r) :
          /\ Sent(x) /\ queue'[r].sourceTx = x
          /\ \/ queue'[r].stage = queue[r].stage
             \/ queue'[r].stage = "waiting_attestation" /\ sends[x].status = "success"
    BY <1>4 DEF Learns
  <2>2. x # None /\ Sent(x)' /\ x \in Effective(r)'
    BY <2>1, EffectiveTx DEF Keeps
  <2>3. queue'[r].stage \in {"burning", "waiting_attestation"}
    BY <1>1, <2>1 DEF OwnerOK
  <2>4. queue'[r].stage = "waiting_attestation" => sends'[x].status = "success"
    BY <1>1, <2>1 DEF OwnerOK, Keeps
  <2>5. \A y \in Effective(r)' : y = x
    BY <1>1, <2>1 DEF OwnerOK, Keeps
  <2> QED BY <2>1, <2>2, <2>3, <2>4, <2>5 DEF OwnerOK, HashOK
<1> QED BY <1>2, <1>3, <1>4 DEF Moves

LEMMA KeepsWork ==
  ASSUME BInv, NEW c \in Callers, NEW r \in Records, Moves(r),
         \A s \in Records : Keeps(s),
         caller'[c] = caller[c] \/ caller'[c].pc = "idle"
  PROVE  WorkOK(c, r)'
<1>1. OwnerOK(r) /\ HashOK(r) /\ WorkOK(c, r) /\ Keeps(r)
  BY DEF BInv, RecordsOK, WorksOK
<1>2. CASE caller'[c].pc = "idle"
  BY <1>2 DEF WorkOK
<1>3. CASE caller'[c] = caller[c]
  <2>1. caller[c].pc # "idle" /\ caller[c].rec = r /\ caller[c].kind = "approve" =>
          queue'[r].stage \in ApproveStages
    BY <1>1 DEF WorkOK, OwnerOK, Moves, Learns, ApproveStages
  <2>2. caller[c].rec = r /\ caller[c].pc \in {"prepare", "attempt"} /\ caller[c].kind = "burn" =>
          queue'[r].stage = "burning" /\ Effective(r)' = {}
    BY <1>1 DEF WorkOK, OwnerOK, Moves, Learns, ApproveStages, Keeps
  <2>3. caller[c].rec = r /\ caller[c].pc \in {"prompt", "receipt"} /\ caller[c].kind = "burn" =>
          caller[c].tx \in Effective(r)'
    BY <1>1 DEF WorkOK, Keeps
  <2>4. caller[c].rec = r /\ caller[c].pc = "receipt" /\ caller[c].kind = "burn" =>
          sends'[caller[c].tx].status \in {"pending", "success"}
    BY <1>1 DEF WorkOK, Keeps, Sent
  <2>5. caller[c].rec = r /\ caller[c].pc \in {"prompt", "receipt"} /\ caller[c].kind = "approve" =>
          \A s \in Records : caller[c].tx \notin Effective(s)'
    BY <1>1 DEF WorkOK, Keeps
  <2> QED BY <1>3, <2>1, <2>2, <2>3, <2>4, <2>5 DEF WorkOK, Sent
<1> QED BY <1>2, <1>3

LEMMA KeepsEvidence ==
  ASSUME BInv, NEW p \in Pollers, NEW r \in Records, Keeps(r), Moves(r),
         \A s \in Records \ {r} : Unresolved(s)' => Unresolved(s),
         poll'[p][r] = poll[p][r] \/ poll'[p][r].pc = "idle"
  PROVE  EvidenceOK(p, r)'
<1>1. OwnerOK(r) /\ HashOK(r) /\ EvidenceOK(p, r)
  BY DEF BInv, RecordsOK, EvidencesOK
<1>2. CASE poll'[p][r].pc = "idle"
  BY <1>2 DEF EvidenceOK
<1>3. CASE poll'[p][r] = poll[p][r] /\ poll[p][r].pc # "idle"
  <2> DEFINE d == poll[p][r]
  <2>1. \A s \in Records \ {r} : ~Unresolved(s)'
    BY <1>1, <1>3 DEF EvidenceOK
  <2>2. d.snap.stage = "approving" => queue'[r].stage \in ApproveStages
    BY <1>1, <1>3 DEF EvidenceOK, OwnerOK, Moves, Learns, ApproveStages
  <2>3. d.snap.stage = "burning" /\ d.snap.sourceTx # None =>
          queue'[r].sourceTx = d.snap.sourceTx
    BY <1>1, <1>3 DEF EvidenceOK, OwnerOK, Moves, Learns
  <2>4. d.pc = "apply" /\ d.snap.stage = "burning" /\ d.decision # "found" =>
          /\ d.snap.sourceTx # None /\ d.decision = "success"
          /\ sends'[d.snap.sourceTx].status = "success"
    BY <1>1, <1>3 DEF EvidenceOK, HashOK, Keeps
  <2>5. d.pc = "apply" /\ d.decision = "found" =>
          d.tx \in Effective(r)' /\ sends'[d.tx].status = "success"
    BY <1>1, <1>3 DEF EvidenceOK, Keeps
  <2> QED BY <1>3, <2>1, <2>2, <2>3, <2>4, <2>5 DEF EvidenceOK
<1> QED BY <1>2, <1>3

\* A record that moves does not become unresolved.
LEMMA MovesUnresolved ==
  ASSUME BInv, NEW r \in Records, Moves(r), Unresolved(r)'
  PROVE  Unresolved(r)
  BY DEF Moves, Learns, Unresolved, ApproveStages

\* Steps that keep every burn and move every record.  What an invocation or a
\* loop learns in such a step is shown of that invocation or loop alone.
LEMMA KeepsAll ==
  ASSUME BInv,
         \A r \in Records : Keeps(r) /\ Moves(r),
         \A c \in Callers : \/ caller'[c] = caller[c] \/ caller'[c].pc = "idle"
                           \/ \A r \in Records : WorkOK(c, r)',
         \A p \in Pollers, r \in Records :
           poll'[p][r] = poll[p][r] \/ poll'[p][r].pc = "idle" \/ EvidenceOK(p, r)'
  PROVE  BInv'
<1>1. \A r \in Records : Unresolved(r)' => Unresolved(r)
  BY MovesUnresolved
<1>2. \A r \in Records : OwnerOK(r)' /\ HashOK(r)'
  BY KeepsRecord
<1>3. ASSUME NEW c \in Callers, NEW r \in Records PROVE WorkOK(c, r)'
  BY KeepsWork
<1>4. ASSUME NEW p \in Pollers, NEW r \in Records PROVE EvidenceOK(p, r)'
  BY <1>1, KeepsEvidence
<1> QED BY <1>2, <1>3, <1>4 DEF BInv, RecordsOK, WorksOK, EvidencesOK

LEMMA SendsSame ==
  ASSUME sends' = sends
  PROVE  \A r \in Records : Keeps(r)
  BY DEF Keeps, Effective, Burns, Sent

LEMMA QueueSame ==
  ASSUME queue' = queue
  PROVE  \A r \in Records : Moves(r)
  BY DEF Moves

\* A write moves every record if it moves its own.
LEMMA WriteMoves ==
  ASSUME TInv, NEW r \in Records, NEW new \in Record, Writes(r, new),
         queue'[r] = new => Moves(r)
  PROVE  \A s \in Records : Moves(s)
<1>1. /\ \A s \in Records \ {r} : queue'[s] = queue[s]
      /\ queue'[r] \in {queue[r], new}
  BY WriteOne DEF TInv, TypeOK
<1> QED BY <1>1 DEF Moves

\* A request goes on its way; one that is not a burn may also fail.
LEMMA StatusKeeps ==
  ASSUME TInv, NEW x \in Tx, NEW status,
         sends' = [sends EXCEPT ![x].status = status],
         \/ sends[x].kind # "burn"
         \/ sends[x].status \in {"prompt", "limbo"} /\ status \in Live
         \/ sends[x].status = "pending" /\ status = "success"
  PROVE  \A r \in Records : Keeps(r)
<1>1. /\ sends'[x].kind = sends[x].kind /\ sends'[x].rec = sends[x].rec
      /\ sends'[x].status = status
      /\ \A y \in Tx \ {x} : sends'[y] = sends[y]
  BY DEF TInv, TypeOK, Send
<1> QED BY <1>1 DEF Keeps, Effective, Burns, Sent, Live

(***************************************************************************)
(* The chain and the wallet.                                               *)
(***************************************************************************)
LEMMA ChainBurn ==
  ASSUME TInv, BInv, Clean', NEW x \in Tx,
         Broadcast(x) \/ MineApproval(x) \/ MineBurn(x) \/ MineReverted(x)
  PROVE  BInv'
<1>1. UNCHANGED <<queue, caller, poll>>
  BY DEF Broadcast, MineApproval, MineBurn, MineReverted, Mine
<1>2. \A r \in Records : Keeps(r)
  <2>1. CASE Broadcast(x)
    BY <2>1, StatusKeeps DEF Broadcast, Live
  <2>2. CASE MineApproval(x) \/ MineBurn(x)
    BY <2>2, StatusKeeps DEF MineApproval, MineBurn, Mine
  <2>3. CASE MineReverted(x)
    <3>1. sends' = [sends EXCEPT ![x].status = "reverted"]
      BY <2>3 DEF MineReverted, Mine
    <3>2. sends'[x].status = "reverted" /\ sends'[x].kind = sends[x].kind
      BY <3>1 DEF TInv, TypeOK, Send
    <3>3. sends[x].kind # "burn"
      BY <3>2 DEF Clean
    <3> QED BY <3>1, <3>3, StatusKeeps
  <2> QED BY <2>1, <2>2, <2>3
<1> QED BY <1>1, <1>2, QueueSame, KeepsAll

\* An import takes a landed burn of the queue where its receipt takes it.
LEMMA ImportMoves ==
  ASSUME TInv, BInv, Clean, NEW x \in Tx, Import(x)
  PROVE  \A s \in Records : Moves(s)
<1>1. CASE queue' = queue
  BY <1>1, QueueSame
<1>2. CASE queue' # queue
  <2>1. PICK r \in Records, new \in Record :
          /\ queue[r].sourceTx = x
          /\ new.stage = "waiting_attestation" /\ new.sourceTx = x
          /\ Writes(r, new)
    BY <1>2, ImportWrites
  <2>2. sends[x].status = "success" /\ x # None
    BY SendAssumption DEF Import
  <2>3. x \in Effective(r) /\ Sent(x)
    BY <2>1, <2>2 DEF BInv, RecordsOK, HashOK
  <2>4. queue'[r] = new => Moves(r)
    BY <2>1, <2>2, <2>3 DEF Moves, Learns
  <2> QED BY <2>1, <2>4, WriteMoves
<1> QED BY <1>1, <1>2

LEMMA ImportBurn ==
  ASSUME TInv, BInv, Clean, NEW x \in Tx, Import(x)
  PROVE  BInv'
<1>1. UNCHANGED <<caller, poll, sends>>
  BY DEF Import, chain
<1> QED BY <1>1, ImportMoves, SendsSame, KeepsAll

LEMMA HeadMovesOnBurn ==
  ASSUME TInv, BInv, HeadMovesOn
  PROVE  BInv'
<1>1. UNCHANGED <<queue, caller, poll, sends>>
  BY DEF HeadMovesOn, chain
<1> QED BY <1>1, SendsSame, QueueSame, KeepsAll

\* An invocation that ends without writing leaves its request behind.
LEMMA LeaveBurn ==
  ASSUME TInv, BInv, NEW c \in Callers, WalletLost(c) \/ TabCloses(c)
  PROVE  BInv'
<1> DEFINE x == caller[c].tx
<1>1. caller[c].pc # "idle" /\ Finish(c) /\ queue' = queue /\ poll' = poll
  BY DEF WalletLost, TabCloses
<1>2. \A r \in Records : Keeps(r)
  <2>1. CASE caller[c].pc = "prompt" /\ sends[x].status = "prompt"
    <3>1. x \in Tx
      BY <2>1, CallerFacts
    <3>2. sends' = [sends EXCEPT ![x].status = "limbo"]
      BY <2>1, <3>1 DEF WalletLost, TabCloses, TInv, TypeOK
    <3> QED BY <2>1, <3>1, <3>2, StatusKeeps DEF Live
  <2>2. CASE ~(caller[c].pc = "prompt" /\ sends[x].status = "prompt")
    <3>1. CASE TabCloses(c)
      BY <2>2, <3>1, SendsSame DEF TabCloses
    <3>2. CASE WalletLost(c)
      <4>1. x \in Tx /\ sends[x].status # "prompt" /\ sends[x] \in Send
        BY <2>2, <3>2, CallerFacts DEF WalletLost, TInv, TypeOK
      <4>2. sends' = [sends EXCEPT ![x].status = sends[x].status]
        BY <3>2, <4>1 DEF WalletLost
      <4>3. [sends EXCEPT ![x].status = sends[x].status] = sends
        BY <4>1 DEF TInv, TypeOK, Send
      <4> QED BY <4>2, <4>3, SendsSame
    <3> QED BY <3>1, <3>2
  <2> QED BY <2>1, <2>2
<1>3. \A d \in Callers : caller'[d].pc = "idle"
  BY <1>1, FinishCallers
<1> QED BY <1>1, <1>2, <1>3, QueueSame, KeepsAll

(***************************************************************************)
(* The page.                                                               *)
(***************************************************************************)

\* The record of a new plan has no burn, and no one works on it.
LEMMA PlanBurn ==
  ASSUME TInv, BInv, NEW r \in Records, NEW b \in BOOLEAN, CreatePlan(r, b)
  PROVE  BInv'
<1> DEFINE new == [NoRecord EXCEPT !.stage = IF b THEN "approval_required" ELSE "ready"]
<1>1. /\ new.sourceTx = None /\ new.stage \in {"approval_required", "ready"}
      /\ new \in Record
  BY DEF NoRecord, Record, Stage
<1>2. queue' = [queue EXCEPT ![r] = new]
  BY DEF CreatePlan
<1> HIDE DEF new
<1>3. queue'[r] = new /\ \A s \in Records \ {r} : queue'[s] = queue[s]
  BY <1>2 DEF TInv, TypeOK
<1>4. UNCHANGED <<sends, caller, poll>> /\ queue[r].stage = "none"
  BY DEF CreatePlan, chain
<1>5. Effective(r) = {} /\ Effective(r)' = {} /\ queue[r].sourceTx = None
  <2>1. OwnerOK(r) /\ HashOK(r) /\ Keeps(r)
    BY <1>4, SendsSame DEF BInv, RecordsOK
  <2>2. Effective(r) = {}
    BY <1>4, <2>1 DEF OwnerOK
  <2> QED BY <2>1, <2>2 DEF HashOK, Keeps
<1>6. \A s \in Records : Keeps(s)
  BY <1>4, SendsSame
<1>7. \A s \in Records \ {r} : Moves(s)
  BY <1>3 DEF Moves
<1>8. \A s \in Records : Unresolved(s)' => Unresolved(s)
  BY <1>1, <1>3 DEF Unresolved
<1>9. \A s \in Records : OwnerOK(s)' /\ HashOK(s)'
  <2>1. OwnerOK(r)' /\ HashOK(r)'
    BY <1>1, <1>3, <1>5 DEF OwnerOK, HashOK
  <2> QED BY <1>6, <1>7, <2>1, KeepsRecord
<1>10. ASSUME NEW c \in Callers, NEW s \in Records PROVE WorkOK(c, s)'
  <2>1. WorkOK(c, r)'
    <3>1. WorkOK(c, r)
      BY DEF BInv, WorksOK
    <3>2. caller[c].pc # "idle" => caller[c].kind \in {"approve", "burn"}
      BY CallerFacts
    <3>3. caller[c].pc \in {"idle", "prepare", "attempt", "prompt", "receipt"}
      BY DEF TInv, TypeOK, CallerState
    <3>4. ~(caller[c].pc # "idle" /\ caller[c].rec = r)
      BY <1>4, <1>5, <3>1, <3>2, <3>3 DEF WorkOK, ApproveStages
    <3> QED BY <1>4, <3>4 DEF WorkOK
  <2>2. CASE s # r
    BY <1>4, <1>6, <1>7, <2>2, KeepsWork
  <2> QED BY <2>1, <2>2
<1>11. ASSUME NEW p \in Pollers, NEW s \in Records PROVE EvidenceOK(p, s)'
  <2>1. EvidenceOK(p, r)'
    <3>1. EvidenceOK(p, r)
      BY DEF BInv, EvidencesOK
    <3>2. poll[p][r].pc # "idle" => \A t \in Records \ {r} : ~Unresolved(t)'
      BY <1>8, <3>1 DEF EvidenceOK
    <3> QED BY <1>4, <1>5, <3>1, <3>2 DEF EvidenceOK, ApproveStages
  <2>2. CASE s # r
    BY <1>4, <1>6, <1>7, <1>8, <2>2, KeepsEvidence
  <2> QED BY <2>1, <2>2
<1> QED BY <1>9, <1>10, <1>11 DEF BInv, RecordsOK, WorksOK, EvidencesOK

\* The lock and the stages admit a step only where nothing of the transfer can
\* land, and no loop knows anything by then.
LEMMA StartBurnInv ==
  ASSUME TInv, BInv, PollsSettled, NEW c \in Callers, NEW r \in Records,
         StartApprove(c, r) \/ StartBurn(c, r)
  PROVE  BInv'
<1> DEFINE stages(k) == IF k = "approve" THEN {"approval_required"} ELSE {"ready", "approved"}
           opened(k) == IF k = "approve" THEN "approving" ELSE "burning"
<1>1. PICK kind \in {"approve", "burn"} : Start(c, r, kind, stages(kind), opened(kind))
  <2>1. CASE StartApprove(c, r)
    BY <2>1 DEF StartApprove
  <2>2. CASE StartBurn(c, r)
    BY <2>2 DEF StartBurn
  <2> QED BY <2>1, <2>2
<1> DEFINE next == opened(kind)
<1> DEFINE new  == [queue[r] EXCEPT !.stage = next]
           work == [IdleCaller EXCEPT !.pc = "prepare", !.rec = r, !.kind = kind,
                                      !.prev = PreviousStage(r, kind)]
<1>2. new.stage = next /\ new.sourceTx = queue[r].sourceTx
  BY DEF TInv, TypeOK, Record
<1>3. work.pc = "prepare" /\ work.rec = r /\ work.kind = kind
  BY DEF IdleCaller
<1>4. queue' = [queue EXCEPT ![r] = new] /\ caller' = [caller EXCEPT ![c] = work]
  BY <1>1 DEF Start
<1>5. UNCHANGED <<sends, poll>> /\ sendLock = None
      /\ queue[r].stage \in {"approval_required", "ready", "approved"}
  BY <1>1 DEF Start, chain
<1> HIDE DEF new, work
<1>6. queue'[r] = new /\ \A s \in Records \ {r} : queue'[s] = queue[s]
  BY <1>4 DEF TInv, TypeOK
<1>7. caller'[c] = work /\ \A d \in Callers \ {c} : caller'[d] = caller[d] /\ caller[d].pc = "idle"
  BY <1>4, <1>5, SendAssumption DEF TInv, TypeOK, CallerOK
<1>8. \A s \in Records : Keeps(s)
  BY <1>5, SendsSame
<1>9. Effective(r)' = {} /\ queue[r].sourceTx = None
  <2>1. OwnerOK(r) /\ HashOK(r) /\ Keeps(r)
    BY <1>8 DEF BInv, RecordsOK
  <2>2. Effective(r) = {}
    BY <1>5, <2>1 DEF OwnerOK
  <2> QED BY <2>1, <2>2 DEF HashOK, Keeps
<1>10. \A s \in Records : OwnerOK(s)' /\ HashOK(s)'
  <2>1. OwnerOK(r)' /\ HashOK(r)'
    BY <1>2, <1>6, <1>9 DEF OwnerOK, HashOK
  <2>2. \A s \in Records \ {r} : Moves(s)
    BY <1>6 DEF Moves
  <2> QED BY <1>8, <2>1, <2>2, KeepsRecord
<1>11. ASSUME NEW d \in Callers, NEW s \in Records PROVE WorkOK(d, s)'
  <2>1. CASE d # c
    BY <1>7, <2>1 DEF WorkOK
  <2>2. CASE d = c
    BY <1>1, <1>2, <1>3, <1>6, <1>7, <1>9, <2>2 DEF WorkOK, ApproveStages
  <2> QED BY <2>1, <2>2
<1>12. ASSUME NEW p \in Pollers, NEW s \in Records PROVE EvidenceOK(p, s)'
  BY <1>5 DEF EvidenceOK, PollsSettled
<1> QED BY <1>10, <1>11, <1>12 DEF BInv, RecordsOK, WorksOK, EvidencesOK

\* A burn that was not sent puts its record back; no loop knows better.
LEMMA ReleaseBurn ==
  ASSUME TInv, BInv, NEW c \in Callers, NEW r \in Records,
         caller[c].pc # "idle", caller[c].rec = r, caller[c].kind = "burn",
         Release(c), poll' = poll, \A d \in Callers : caller'[d].pc = "idle",
         \A s \in Records \ {r} : Keeps(s),
         Effective(r)' = {}, queue[r].sourceTx = None, queue[r].stage = "burning",
         \A x \in Effective(r) : sends[x].status # "success"
  PROVE  BInv'
<1> DEFINE new == [queue[r] EXCEPT !.stage = caller[c].prev]
<1>1. new \in Record /\ new.stage \in {"approved", "ready"} /\ new.sourceTx = None
  BY CallerFacts DEF Record, Stage
<1>2. Writes(r, new)
  BY DEF Release, Writes
<1> HIDE DEF new
<1>3. /\ \A s \in Records \ {r} : queue'[s] = queue[s]
      /\ queue'[r] \in {queue[r], new}
  BY <1>1, <1>2, WriteOne DEF TInv, TypeOK
<1>4. queue'[r].sourceTx = None /\ queue'[r].stage \in {"burning", "approved", "ready"}
  BY <1>1, <1>3
<1>5. \A s \in Records \ {r} : Moves(s)
  BY <1>3 DEF Moves
<1>6. \A s \in Records : Unresolved(s)' => Unresolved(s)
  BY <1>3, <1>4 DEF Unresolved
<1>7. \A s \in Records : OwnerOK(s)' /\ HashOK(s)'
  <2>1. OwnerOK(r)' /\ HashOK(r)'
    BY <1>4 DEF OwnerOK, HashOK
  <2> QED BY <1>5, <2>1, KeepsRecord
<1>8. ASSUME NEW p \in Pollers, NEW s \in Records PROVE EvidenceOK(p, s)'
  <2>1. EvidenceOK(p, r)'
    <3>1. EvidenceOK(p, r)
      BY DEF BInv, EvidencesOK
    <3>2. poll[p][r].pc # "idle" => \A t \in Records \ {r} : ~Unresolved(t)'
      BY <1>6, <3>1 DEF EvidenceOK
    <3> QED BY <1>4, <3>1, <3>2 DEF EvidenceOK, ApproveStages
  <2>2. CASE s # r
    BY <1>5, <1>6, <2>2, KeepsEvidence
  <2> QED BY <2>1, <2>2
<1>9. \A d \in Callers, s \in Records : WorkOK(d, s)'
  BY DEF WorkOK
<1> QED BY <1>7, <1>8, <1>9 DEF BInv, RecordsOK, WorksOK, EvidencesOK

\* An approval that was not sent: the record goes back within the approval.
LEMMA ReleaseApproval ==
  ASSUME TInv, BInv, NEW c \in Callers, caller[c].pc # "idle",
         caller[c].kind = "approve", Release(c)
  PROVE  \A s \in Records : Moves(s)
<1> DEFINE r == caller[c].rec
           new == [queue[r] EXCEPT !.stage = caller[c].prev]
<1>1. r \in Records /\ new \in Record /\ new.stage = "approval_required"
      /\ new.sourceTx = queue[r].sourceTx
  BY CallerFacts DEF Record, Stage
<1>2. Writes(r, new)
  BY DEF Release, Writes
<1>3. queue[r].stage \in ApproveStages
  BY <1>1 DEF BInv, WorksOK, WorkOK
<1> HIDE DEF new
<1>4. queue'[r] = new => Moves(r)
  BY <1>1, <1>3 DEF Moves, ApproveStages
<1> QED BY <1>1, <1>2, <1>4, WriteMoves

LEMMA PrepareFailsBurn ==
  ASSUME TInv, BInv, NEW c \in Callers, PrepareFails(c)
  PROVE  BInv'
<1> DEFINE r == caller[c].rec
<1>1. /\ caller[c].pc = "prepare" /\ Release(c) /\ Finish(c)
      /\ poll' = poll /\ sends' = sends
  BY DEF PrepareFails, chain
<1>2. r \in Records /\ caller[c].kind \in {"approve", "burn"}
  BY <1>1, CallerFacts
<1>3. (\A d \in Callers : caller'[d].pc = "idle") /\ \A s \in Records : Keeps(s)
  BY <1>1, FinishCallers, SendsSame
<1>4. CASE caller[c].kind = "approve"
  BY <1>1, <1>3, <1>4, ReleaseApproval, KeepsAll
<1>5. CASE caller[c].kind = "burn"
  <2>1. PICK s \in Records : s = r
    BY <1>2
  <2>2. WorkOK(c, s) /\ HashOK(s) /\ Keeps(s)
    BY <1>3 DEF BInv, RecordsOK, WorksOK
  <2>3. queue[s].stage = "burning" /\ Effective(s) = {}
    BY <1>1, <1>5, <2>1, <2>2 DEF WorkOK
  <2>4. Effective(s)' = {} /\ queue[s].sourceTx = None
    BY <2>2, <2>3 DEF HashOK, Keeps
  <2> QED BY <1>1, <1>3, <1>5, <2>1, <2>3, <2>4, ReleaseBurn
<1> QED BY <1>2, <1>4, <1>5

\* A refusal takes the only burn request of the record out of the world.
LEMMA WalletRejectsBurn ==
  ASSUME TInv, BInv, NEW c \in Callers, WalletRejects(c)
  PROVE  BInv'
<1> DEFINE x == caller[c].tx
<1>1. /\ caller[c].pc = "prompt" /\ sends[x].status = "prompt"
      /\ sends' = [sends EXCEPT ![x].status = "rejected"]
      /\ Release(c) /\ Finish(c) /\ poll' = poll
  BY DEF WalletRejects
<1>2. x \in Tx /\ caller[c].kind \in {"approve", "burn"}
  BY <1>1, CallerFacts
<1>3. \A d \in Callers : caller'[d].pc = "idle"
  BY <1>1, FinishCallers
<1>4. PICK r \in Records : caller[c].rec = r
  BY <1>1, CallerFacts
<1>5. WorkOK(c, r) /\ OwnerOK(r) /\ HashOK(r)
  BY DEF BInv, RecordsOK, WorksOK
<1>6. CASE caller[c].kind = "approve"
  <2>1. \A s \in Records : x \notin Effective(s)
    BY <1>1, <1>4, <1>5, <1>6 DEF WorkOK
  <2>2. sends[x].kind # "burn"
    BY <1>1, <1>2, <2>1 DEF TInv, SendsOK, Effective, Burns, Live
  <2>3. \A s \in Records : Keeps(s)
    BY <1>1, <1>2, <2>2, StatusKeeps
  <2> QED BY <1>1, <1>3, <1>6, <2>3, ReleaseApproval, KeepsAll
<1>7. CASE caller[c].kind = "burn"
  <2>1. x \in Effective(r) /\ \A y \in Effective(r) : y = x
    BY <1>1, <1>4, <1>5, <1>7 DEF WorkOK, OwnerOK
  <2>2. /\ sends'[x].kind = "burn" /\ sends'[x].rec = r /\ sends'[x].status = "rejected"
        /\ \A y \in Tx \ {x} : sends'[y] = sends[y]
    BY <1>1, <1>2, <2>1 DEF TInv, TypeOK, Send, Effective, Burns
  <2>3. Effective(r)' = {}
    BY <2>1, <2>2 DEF Effective, Burns, Live
  <2>4. \A s \in Records \ {r} : Keeps(s)
    BY <2>1, <2>2 DEF Keeps, Effective, Burns, Sent
  <2>5. queue[r].sourceTx = None /\ queue[r].stage = "burning"
    BY <1>1, <1>5, <2>1 DEF OwnerOK, HashOK, Sent
  <2>6. \A y \in Effective(r) : sends[y].status # "success"
    BY <1>1, <2>1
  <2> QED BY <1>1, <1>3, <1>4, <1>7, <2>3, <2>4, <2>5, <2>6, ReleaseBurn
<1> QED BY <1>2, <1>6, <1>7

LEMMA ReadAttemptBurn ==
  ASSUME TInv, BInv, NEW c \in Callers, ReadAttempt(c)
  PROVE  BInv'
<1>1. PICK block \in {nonce, nonce + 1} : caller' = [caller EXCEPT ![c] =
        [@ EXCEPT !.pc = "attempt", !.attempt = [nonce |-> nonce, block |-> block, era |-> era]]]
  BY DEF ReadAttempt
<1>2. UNCHANGED <<queue, poll, sends>> /\ caller[c].pc = "prepare"
  BY DEF ReadAttempt, chain
<1> DEFINE new == [caller[c] EXCEPT !.pc = "attempt",
                     !.attempt = [nonce |-> nonce, block |-> block, era |-> era]]
<1>3. new.pc = "attempt" /\ new.rec = caller[c].rec /\ new.kind = caller[c].kind
  BY DEF TInv, TypeOK, CallerState
<1>4. caller' = [caller EXCEPT ![c] = new]
  BY <1>1
<1> HIDE DEF new
<1>5. caller'[c] = new /\ \A d \in Callers \ {c} : caller'[d] = caller[d]
  BY <1>4 DEF TInv, TypeOK
<1>6. \A s \in Records : Keeps(s) /\ Moves(s)
  BY <1>2, SendsSame, QueueSame
<1>7. ASSUME NEW r \in Records PROVE WorkOK(c, r)'
  <2>1. WorkOK(c, r) /\ Keeps(r)
    BY <1>6 DEF BInv, WorksOK
  <2> QED BY <1>2, <1>3, <1>5, <2>1 DEF WorkOK, Keeps
<1> QED BY <1>2, <1>5, <1>6, <1>7, KeepsAll

LEMMA RequestBurn ==
  ASSUME TInv, BInv, NEW c \in Callers, NEW x \in Tx, RequestWallet(c, x)
  PROVE  BInv'
<1>1. PICK r \in Records : caller[c].rec = r
  BY CallerFacts DEF RequestWallet
<1> DEFINE k    == caller[c].kind
           new  == [queue[r] EXCEPT !.attempt = caller[c].attempt,
                                    !.approvalTx = IF k = "approve" THEN None ELSE @,
                                    !.sourceTx = IF k = "burn" THEN None ELSE @]
           work == [caller[c] EXCEPT !.pc = "prompt", !.tx = x]
           send == [kind |-> k, rec |-> r, status |-> "prompt"]
<1>2. /\ new \in Record /\ new.stage = queue[r].stage
      /\ new.sourceTx = IF k = "burn" THEN None ELSE queue[r].sourceTx
  BY ZenonT(40) DEF TInv, TypeOK, CallerOK, Record, RequestWallet
<1>3. Writes(r, new)
  BY <1>1 DEF RequestWallet, Writes
<1>4. work.pc = "prompt" /\ work.tx = x /\ work.rec = r /\ work.kind = k
  BY <1>1 DEF TInv, TypeOK, CallerState
<1>5. caller' = [caller EXCEPT ![c] = work] /\ poll' = poll
  BY DEF RequestWallet
<1>6. send.kind = k /\ send.rec = r /\ send.status = "prompt"
  OBVIOUS
<1>7. /\ sends' = [sends EXCEPT ![x] = send] /\ sends[x].status = "unused"
      /\ caller[c].pc = "attempt"
  BY <1>1 DEF RequestWallet
<1>8. k \in {"approve", "burn"}
  BY <1>7, CallerFacts
<1> HIDE DEF new, work, send
<1>9. /\ \A s \in Records \ {r} : queue'[s] = queue[s]
      /\ queue'[r] \in {queue[r], new}
  BY <1>2, <1>3, WriteOne DEF TInv, TypeOK
<1>10. caller'[c] = work /\ \A d \in Callers \ {c} : caller'[d] = caller[d] /\ caller[d].pc = "idle"
  BY <1>5, <1>7 DEF TInv, TypeOK, CallerOK
<1>11. sends'[x] = send /\ \A y \in Tx \ {x} : sends'[y] = sends[y]
  BY <1>7 DEF TInv, TypeOK
<1>12. \A s \in Records : x \notin Effective(s)
  BY <1>7 DEF Effective, Live
<1>13. WorkOK(c, r)
  BY DEF BInv, WorksOK
<1>14. CASE k = "approve"
  <2>1. \A s \in Records : Keeps(s) /\ x \notin Effective(s)'
    BY <1>6, <1>11, <1>12, <1>14 DEF Keeps, Effective, Burns, Sent
  <2>2. \A s \in Records : Moves(s)
    BY <1>2, <1>3, <1>14, WriteMoves DEF Moves
  <2>3. queue'[r].stage \in ApproveStages
    BY <1>1, <1>2, <1>7, <1>9, <1>13, <1>14 DEF WorkOK
  <2>4. \A s \in Records : WorkOK(c, s)'
    BY <1>4, <1>10, <1>14, <2>1, <2>3 DEF WorkOK
  <2> QED BY <1>5, <1>10, <2>1, <2>2, <2>4, KeepsAll
<1>15. CASE k = "burn"
  <2>1. queue[r].stage = "burning" /\ Effective(r) = {}
    BY <1>1, <1>7, <1>13, <1>15 DEF WorkOK
  <2>2. queue[r].sourceTx = None
    BY <2>1 DEF BInv, RecordsOK, HashOK
  <2>3. queue'[r].stage = "burning" /\ queue'[r].sourceTx = None
    BY <1>2, <1>9, <1>15, <2>1, <2>2
  <2>4. Effective(r)' = {x}
    BY <1>6, <1>11, <1>15, <2>1 DEF Effective, Burns, Live
  <2>5. \A s \in Records \ {r} : Keeps(s) /\ Moves(s)
    BY <1>6, <1>9, <1>11, <1>12 DEF Keeps, Moves, Effective, Burns, Sent
  <2>6. \A s \in Records : Unresolved(s)' => Unresolved(s)
    BY <1>9, <2>1 DEF Unresolved
  <2>7. ASSUME NEW s \in Records PROVE OwnerOK(s)' /\ HashOK(s)'
    <3>1. OwnerOK(r)' /\ HashOK(r)'
      BY <2>3, <2>4 DEF OwnerOK, HashOK
    <3> QED BY <2>5, <3>1, KeepsRecord
  <2>8. ASSUME NEW d \in Callers, NEW s \in Records PROVE WorkOK(d, s)'
    <3>1. CASE d = c
      BY <1>4, <1>10, <1>15, <2>4, <3>1 DEF WorkOK
    <3>2. CASE d # c
      BY <1>10, <3>2 DEF WorkOK
    <3> QED BY <3>1, <3>2
  <2>9. ASSUME NEW p \in Pollers, NEW s \in Records PROVE EvidenceOK(p, s)'
    <3>1. EvidenceOK(p, r)'
      <4>1. EvidenceOK(p, r)
        BY DEF BInv, EvidencesOK
      <4>2. poll[p][r].pc # "idle" => \A t \in Records \ {r} : ~Unresolved(t)'
        BY <2>6, <4>1 DEF EvidenceOK
      <4> QED BY <1>5, <2>1, <2>2, <2>3, <4>1, <4>2 DEF EvidenceOK, ApproveStages
    <3>2. CASE s # r
      BY <1>5, <2>5, <2>6, <3>2, KeepsEvidence
    <3> QED BY <3>1, <3>2
  <2> QED BY <2>7, <2>8, <2>9 DEF BInv, RecordsOK, WorksOK, EvidencesOK
<1> QED BY <1>8, <1>14, <1>15

\* A hash the wallet gave is the one of the record's burn.
LEMMA StoreHashMoves ==
  ASSUME TInv, BInv, NEW c \in Callers, NEW r \in Records,
         caller[c].pc \in {"prompt", "receipt"}, caller[c].rec = r,
         StoreHash(c, caller[c].tx),
         caller[c].kind = "burn" => Sent(caller[c].tx)
  PROVE  \A s \in Records : Moves(s)
<1> DEFINE x   == caller[c].tx
           new == IF caller[c].kind = "approve" THEN [queue[r] EXCEPT !.approvalTx = x]
                                                ELSE [queue[r] EXCEPT !.sourceTx = x]
<1>1. x \in Tx /\ caller[c].kind \in {"approve", "burn"}
  BY CallerFacts
<1>2. /\ new \in Record /\ new.stage = queue[r].stage
      /\ new.sourceTx = IF caller[c].kind = "approve" THEN queue[r].sourceTx ELSE x
  BY <1>1 DEF TInv, TypeOK, Record
<1>3. Writes(r, new)
  BY DEF StoreHash, Writes
<1>4. caller[c].kind = "burn" => x \in Effective(r)
  BY DEF BInv, WorksOK, WorkOK
<1> HIDE DEF new
<1>5. queue'[r] = new => Moves(r)
  BY <1>1, <1>2, <1>4 DEF Moves, Learns
<1> QED BY <1>2, <1>3, <1>5, WriteMoves

LEMMA WalletAnswersBurn ==
  ASSUME TInv, BInv, NEW c \in Callers, WalletAnswers(c)
  PROVE  BInv'
<1> DEFINE x    == caller[c].tx
           work == [caller[c] EXCEPT !.pc = "receipt"]
<1>1. /\ caller[c].pc = "prompt" /\ sends[x].status \notin {"prompt", "limbo"}
      /\ StoreHash(c, x) /\ UNCHANGED <<poll, sends>>
  BY DEF WalletAnswers, chain
<1>2. PICK r \in Records : caller[c].rec = r
  BY <1>1, CallerFacts
<1>3. work.pc = "receipt" /\ work.rec = r /\ work.kind = caller[c].kind /\ work.tx = x
  BY <1>2 DEF TInv, TypeOK, CallerState
<1>4. caller'[c] = work /\ \A d \in Callers \ {c} : caller'[d] = caller[d]
  BY DEF WalletAnswers, TInv, TypeOK
<1> HIDE DEF work
<1>5. WorkOK(c, r)
  BY DEF BInv, WorksOK
<1>6. caller[c].kind = "burn" => Sent(x)
  BY <1>1, <1>2, <1>5 DEF WorkOK, Effective, Live, Sent
<1>7. \A s \in Records : Moves(s)
  BY <1>1, <1>2, <1>6, StoreHashMoves
<1>8. \A s \in Records : Keeps(s)
  BY <1>1, SendsSame
<1>9. WorkOK(c, r)'
  <2>1. caller[c].kind = "approve" => queue'[r].stage \in ApproveStages
    <3>1. Moves(r) /\ OwnerOK(r)
      BY <1>7 DEF BInv, RecordsOK
    <3> QED BY <1>1, <1>2, <1>5, <3>1 DEF WorkOK, OwnerOK, Moves, Learns, ApproveStages
  <2>2. \A s \in Records : Effective(s)' = Effective(s)
    BY <1>8 DEF Keeps
  <2>3. caller[c].kind = "burn" =>
          x \in Effective(r)' /\ sends'[x].status \in {"pending", "success"}
    BY <1>1, <1>2, <1>5, <1>6, <2>2 DEF WorkOK, Sent
  <2>4. caller[c].kind = "approve" => \A s \in Records : x \notin Effective(s)'
    BY <1>1, <1>2, <1>5, <2>2 DEF WorkOK
  <2> QED BY <1>3, <1>4, <2>1, <2>3, <2>4 DEF WorkOK, Sent
<1>10. \A s \in Records : WorkOK(c, s)'
  BY <1>3, <1>4, <1>9 DEF WorkOK
<1> QED BY <1>1, <1>4, <1>7, <1>8, <1>10, KeepsAll

LEMMA ReceiptBurn ==
  ASSUME TInv, BInv, NEW c \in Callers,
         ReceiptSuccess(c) \/ ReceiptReverted(c) \/ ReceiptUnknown(c)
  PROVE  BInv'
<1> DEFINE x == caller[c].tx
<1>1. caller[c].pc = "receipt" /\ Finish(c) /\ UNCHANGED <<poll, sends>>
  BY DEF ReceiptSuccess, ReceiptReverted, ReceiptUnknown, chain
<1>2. PICK r \in Records : caller[c].rec = r
  BY <1>1, CallerFacts
<1>3. x \in Tx /\ caller[c].kind \in {"approve", "burn"} /\ queue[r] \in Record
  BY <1>1, CallerFacts DEF TInv, TypeOK
<1>4. /\ caller[c].kind = "burn" => x \in Effective(r) /\ Sent(x)
      /\ caller[c].kind = "approve" => queue[r].stage \in ApproveStages
  BY <1>1, <1>2 DEF BInv, WorksOK, WorkOK
<1>5. ASSUME StoreHash(c, x) PROVE \A s \in Records : Moves(s)
  BY <1>1, <1>2, <1>4, <1>5, StoreHashMoves
<1>6. \A s \in Records : Moves(s)
  <2>1. CASE ReceiptUnknown(c)
    BY <1>5, <2>1 DEF ReceiptUnknown
  <2>2. CASE ReceiptReverted(c)
    <3> DEFINE new == [queue[r] EXCEPT !.stage = "approval_required", !.approvalTx = None]
    <3>1. sends[x].status = "reverted"
      BY <2>2 DEF ReceiptReverted
    <3>2. caller[c].kind = "approve"
      BY <1>3, <1>4, <3>1 DEF Sent
    <3>3. /\ new \in Record /\ new.stage = "approval_required"
          /\ new.sourceTx = queue[r].sourceTx
      BY <1>3 DEF Record, Stage
    <3>4. Writes(r, new)
      BY <1>2, <2>2, <3>2 DEF ReceiptReverted, Writes
    <3> HIDE DEF new
    <3>5. queue'[r] = new => Moves(r)
      BY <1>4, <3>2, <3>3 DEF Moves, ApproveStages
    <3> QED BY <3>3, <3>4, <3>5, WriteMoves
  <2>3. CASE ReceiptSuccess(c)
    <3> DEFINE next == IF caller[c].kind = "approve" THEN "approved" ELSE "waiting_attestation"
               new == IF caller[c].kind = "approve"
                      THEN [queue[r] EXCEPT !.stage = next, !.approvalTx = x]
                      ELSE [queue[r] EXCEPT !.stage = next, !.sourceTx = x]
    <3>1. sends[x].status = "success"
      BY <2>3 DEF ReceiptSuccess
    <3>2. CASE CanTransition(queue[r].stage, next)
      <4>1. queue' = [queue EXCEPT ![r] = new]
        BY <1>2, <2>3, <3>2 DEF ReceiptSuccess
      <4>2. /\ new \in Record /\ new.stage = next
            /\ new.sourceTx = IF caller[c].kind = "approve" THEN queue[r].sourceTx ELSE x
        BY <1>3 DEF Record, Stage
      <4>3. Writes(r, new)
        BY <4>1 DEF Writes
      <4> HIDE DEF new
      <4>4. queue'[r] = new => Moves(r)
        BY <1>3, <1>4, <3>1, <4>2 DEF Moves, Learns, ApproveStages
      <4> QED BY <4>2, <4>3, <4>4, WriteMoves
    <3>3. CASE ~CanTransition(queue[r].stage, next)
      BY <1>2, <1>5, <2>3, <3>3 DEF ReceiptSuccess
    <3> QED BY <3>2, <3>3
  <2> QED BY <2>1, <2>2, <2>3
<1>7. (\A d \in Callers : caller'[d].pc = "idle") /\ \A s \in Records : Keeps(s)
  BY <1>1, FinishCallers, SendsSame
<1> QED BY <1>1, <1>6, <1>7, KeepsAll

(***************************************************************************)
(* The recovery loop.                                                      *)
(***************************************************************************)
LEMMA CycleBurn ==
  ASSUME TInv, BInv, NEW p \in Pollers, CycleStart(p)
  PROVE  BInv'
<1>1. PICK batch \in SUBSET Recoverable :
        poll' = [poll EXCEPT ![p] = [r \in Records |->
          IF r \in batch THEN [IdlePoll EXCEPT !.pc = "read", !.snap = queue[r]]
                         ELSE IdlePoll]]
  BY DEF CycleStart
<1>2. UNCHANGED <<queue, caller, sends>>
  BY DEF CycleStart, chain
<1>3. \A q \in Pollers \ {p} : poll'[q] = poll[q]
  BY <1>1 DEF TInv, TypeOK
<1>4. ASSUME NEW r \in Records, poll'[p][r].pc # "idle"
      PROVE  /\ poll'[p][r].pc = "read" /\ poll'[p][r].snap = queue[r]
             /\ Unresolved(r)
  BY <1>1, <1>4 DEF TInv, TypeOK, IdlePoll, Recoverable
<1>5. ASSUME NEW r \in Records PROVE poll'[p][r].pc = "idle" \/ EvidenceOK(p, r)'
  <2>1. Unresolved(r) => \A s \in Records \ {r} : ~Unresolved(s)'
    BY <1>2 DEF TInv, OneUnresolved, Unresolved
  <2> QED BY <1>2, <1>4, <2>1 DEF EvidenceOK, ApproveStages
<1>6. \A r \in Records : Keeps(r) /\ Moves(r)
  BY <1>2, SendsSame, QueueSame
<1> QED BY <1>2, <1>3, <1>5, <1>6, KeepsAll

\* A loop that learns something learns the truth: enough to show of its new
\* state for the one record it looked at.
LEMMA PollPutBurn ==
  ASSUME TInv, BInv, NEW p \in Pollers, NEW r \in Records, NEW new,
         poll' = [poll EXCEPT ![p][r] = new],
         UNCHANGED <<queue, caller, sends>>,
         poll[p][r].pc # "idle", new.snap = poll[p][r].snap,
         new.pc = "apply" /\ new.snap.stage = "burning" /\ new.decision # "found" =>
           /\ new.snap.sourceTx # None
           /\ new.decision = "success"
           /\ sends[new.snap.sourceTx].status = "success",
         new.pc = "apply" /\ new.decision = "found" =>
           new.tx \in Effective(r) /\ sends[new.tx].status = "success"
  PROVE  BInv'
<1>1. /\ poll'[p][r] = new
      /\ \A q \in Pollers, s \in Records :
           q # p \/ s # r => poll'[q][s] = poll[q][s]
  BY DEF TInv, TypeOK
<1>2. EvidenceOK(p, r)'
  <2>1. EvidenceOK(p, r)
    BY DEF BInv, EvidencesOK
  <2>2. Effective(r)' = Effective(r) /\ \A s \in Records : Unresolved(s)' = Unresolved(s)
    BY DEF Effective, Burns, Unresolved
  <2> QED BY <1>1, <2>1, <2>2 DEF EvidenceOK
<1>3. \A s \in Records : Keeps(s) /\ Moves(s)
  BY SendsSame, QueueSame
<1> QED BY <1>1, <1>2, <1>3, KeepsAll

\* The one deposit no record claims is the record's own: what another record
\* was asked to burn is in that record.
LEMMA FoundIsOwn ==
  ASSUME TInv, BInv, Clean, NEW p \in Pollers, NEW r \in Records, NEW x \in Tx, NEW from,
         poll[p][r].pc # "idle", UnclaimedBurns(r, from) = {x}
  PROVE  x \in Effective(r) /\ sends[x].status = "success"
<1>1. /\ sends[x].kind = "burn" /\ sends[x].status = "success"
      /\ \A s \in Records \ {r} : queue[s].sourceTx # x
  <2>1. x \in Deposits(r) /\ ~Known(r, x)
    BY DEF UnclaimedBurns
  <2> QED BY <2>1 DEF Deposits, Known, Clean
<1>2. PICK s \in Records : sends[x].rec = s
  BY <1>1 DEF TInv, SendsOK
<1>3. x \in Effective(s)
  BY <1>1, <1>2 DEF Effective, Burns
<1>4. ASSUME s # r PROVE FALSE
  <2>1. OwnerOK(s) /\ HashOK(s) /\ ~Unresolved(s)
    BY <1>4 DEF BInv, RecordsOK, EvidencesOK, EvidenceOK
  <2>2. queue[s].stage = "waiting_attestation"
    BY <1>3, <2>1 DEF OwnerOK, Unresolved
  <2>3. queue[s].sourceTx = x
    BY <1>3, <2>1, <2>2 DEF OwnerOK, HashOK
  <2> QED BY <1>1, <1>4, <2>3
<1> QED BY <1>1, <1>3, <1>4

LEMMA ReadBurn ==
  ASSUME TInv, BInv, Clean, NEW p \in Pollers, NEW r \in Records,
         \/ ReadAllowance(p, r) \/ ReadNonce(p, r) \/ ReadDeposits(p, r)
         \/ ReadReceipt(p, r)   \/ ReadUnknown(p, r)
  PROVE  BInv'
<1> DEFINE d == poll[p][r]
           decided(kind, x) == [d EXCEPT !.pc = "apply", !.decision = kind, !.tx = x]
<1>1. d \in PollState /\ d.pc # "idle"
  BY DEF TInv, TypeOK, ReadAllowance, ReadNonce, ReadDeposits, ReadReceipt, ReadUnknown
<1>2. \A kind, x :
        /\ decided(kind, x).pc = "apply" /\ decided(kind, x).snap = d.snap
        /\ decided(kind, x).decision = kind /\ decided(kind, x).tx = x
  BY <1>1 DEF PollState
<1>3. UNCHANGED <<queue, caller, sends>>
  BY DEF ReadAllowance, ReadNonce, ReadDeposits, ReadReceipt, ReadUnknown, chain
<1>4. ASSUME NEW kind, NEW x, Decide(p, r, kind, x),
             d.snap.stage = "burning" /\ kind # "found" =>
               /\ d.snap.sourceTx # None /\ kind = "success"
               /\ sends[d.snap.sourceTx].status = "success",
             kind = "found" => x \in Effective(r) /\ sends[x].status = "success"
      PROVE  BInv'
  <2> DEFINE new == decided(kind, x)
  <2>1. poll' = [poll EXCEPT ![p][r] = new]
    BY <1>4 DEF Decide
  <2> HIDE DEF decided
  <2>2. /\ new.pc = "apply" /\ new.snap = d.snap
        /\ new.decision = kind /\ new.tx = x
    BY <1>2
  <2> HIDE DEF new
  <2> QED BY <1>1, <1>3, <1>4, <2>1, <2>2, PollPutBurn
<1> HIDE DEF decided
<1>5. CASE ReadAllowance(p, r)
  <2>1. CASE allowance >= Amount[r]
    BY <1>4, <1>5, <2>1 DEF ReadAllowance
  <2>2. CASE ~(allowance >= Amount[r])
    <3> DEFINE new == [d EXCEPT !.pc = "nonce"]
    <3>1. new.pc = "nonce" /\ new.snap = d.snap
      BY <1>1 DEF PollState
    <3>2. poll' = [poll EXCEPT ![p][r] = new]
      BY <1>5, <2>2 DEF ReadAllowance
    <3> HIDE DEF new
    <3> QED BY <1>1, <1>3, <3>1, <3>2, PollPutBurn
  <2> QED BY <2>1, <2>2
<1>6. CASE ReadNonce(p, r)
  <2>1. d.snap.stage = "approving"
    BY <1>6 DEF TInv, PollOK, ReadNonce
  <2> QED BY <1>4, <1>6, <2>1 DEF ReadNonce
<1>7. CASE ReadDeposits(p, r)
  <2>1. PICK x \in Tx : UnclaimedBurns(r, d.snap.attempt.block) = {x} /\ Decide(p, r, "found", x)
    BY <1>7 DEF ReadDeposits
  <2>2. x \in Effective(r) /\ sends[x].status = "success"
    BY <1>1, <2>1, FoundIsOwn
  <2> QED BY <1>4, <2>1, <2>2
<1>8. CASE ReadReceipt(p, r)
  <2> DEFINE x == SnapTx(d.snap)
  <2>1. sends[x].status \in {"success", "reverted"} /\ ~SnapLost(d.snap)
    BY <1>8 DEF ReadReceipt, Mined
  <2>2. Decide(p, r, sends[x].status, x)
    BY <1>8 DEF ReadReceipt
  <2>3. ASSUME d.snap.stage = "burning"
        PROVE  d.snap.sourceTx # None /\ x = d.snap.sourceTx /\ sends[x].status = "success"
    <3>1. d.snap.sourceTx # None /\ x = d.snap.sourceTx
      BY <2>1, <2>3 DEF SnapLost, SnapTx
    <3>2. queue[r].sourceTx = d.snap.sourceTx
      BY <1>1, <2>3, <3>1 DEF BInv, EvidencesOK, EvidenceOK
    <3>3. Sent(d.snap.sourceTx)
      BY <3>1, <3>2 DEF BInv, RecordsOK, HashOK
    <3> QED BY <2>1, <3>1, <3>3 DEF Sent
  <2> HIDE DEF x
  <2> QED BY <1>4, <2>1, <2>2, <2>3
<1>9. CASE ReadUnknown(p, r)
  <2>1. poll' = [poll EXCEPT ![p][r] = IdlePoll]
    BY <1>9 DEF ReadUnknown
  <2>2. \A q \in Pollers, s \in Records :
          poll'[q][s] = poll[q][s] \/ poll'[q][s].pc = "idle"
    BY <2>1 DEF TInv, TypeOK, IdlePoll
  <2>3. \A s \in Records : Keeps(s) /\ Moves(s)
    BY <1>3, SendsSame, QueueSame
  <2> QED BY <1>3, <2>2, <2>3, KeepsAll
<1> QED BY <1>5, <1>6, <1>7, <1>8, <1>9

LEMMA ApplyBurn ==
  ASSUME TInv, BInv, NEW p \in Pollers, NEW r \in Records, ApplyDecision(p, r)
  PROVE  BInv'
<1> DEFINE d == poll[p][r]
           found == [queue[r] EXCEPT !.sourceTx = d.tx]
           settled == Settled(r, d.snap, d.decision)
<1>1. /\ d.pc = "apply" /\ d.decision \in Decision /\ queue[r] \in Record /\ d \in PollState
      /\ d.snap.stage \in {"approving", "burning"}
      /\ d.decision = "found" => d.snap.stage = "burning"
  BY DEF TInv, TypeOK, PollOK, ApplyDecision
<1>2. EvidenceOK(p, r)
  BY DEF BInv, EvidencesOK
<1>3. UNCHANGED <<caller, sends>>
  BY DEF ApplyDecision, chain
<1>4. \A s \in Records : Moves(s)
  <2>1. CASE d.decision = "found"
    <3>1. found \in Record /\ found.stage = queue[r].stage /\ found.sourceTx = d.tx
      BY <1>1 DEF Record, PollState
    <3>2. Writes(r, found)
      BY <2>1 DEF ApplyDecision, Writes
    <3>3. d.tx \in Effective(r) /\ sends[d.tx].status = "success"
      BY <1>1, <1>2, <2>1 DEF EvidenceOK
    <3> HIDE DEF found
    <3>4. queue'[r] = found => Moves(r)
      BY <3>1, <3>3 DEF Moves, Learns, Sent
    <3> QED BY <3>1, <3>2, <3>4, WriteMoves
  <2>2. CASE d.decision # "found" /\ d.snap.stage = "approving"
    <3>1. /\ settled \in Record /\ settled.stage \in {"approved", "approval_required"}
          /\ settled.sourceTx = queue[r].sourceTx
      BY <1>1, <2>2 DEF Settled, ConfirmedStage, Decision, Record, Stage
    <3>2. Writes(r, settled)
      BY <2>2 DEF ApplyDecision, Writes
    <3>3. queue[r].stage \in ApproveStages
      BY <1>1, <1>2, <2>2 DEF EvidenceOK
    <3> HIDE DEF settled
    <3>4. queue'[r] = settled => Moves(r)
      BY <3>1, <3>3 DEF Moves, ApproveStages
    <3> QED BY <3>1, <3>2, <3>4, WriteMoves
  <2>3. CASE d.decision # "found" /\ d.snap.stage = "burning"
    <3>1. d.decision = "success" /\ d.snap.sourceTx # None
          /\ sends[d.snap.sourceTx].status = "success"
          /\ queue[r].sourceTx = d.snap.sourceTx
      BY <1>1, <1>2, <2>3 DEF EvidenceOK
    <3>2. /\ settled \in Record /\ settled.stage = "waiting_attestation"
          /\ settled.sourceTx = queue[r].sourceTx
      BY <1>1, <2>3, <3>1 DEF Settled, ConfirmedStage, Record, Stage
    <3>3. Writes(r, settled)
      BY <2>3 DEF ApplyDecision, Writes
    <3>4. queue[r].sourceTx \in Effective(r) /\ Sent(queue[r].sourceTx)
      BY <3>1 DEF BInv, RecordsOK, HashOK
    <3> HIDE DEF settled
    <3>5. queue'[r] = settled => Moves(r)
      BY <3>1, <3>2, <3>4 DEF Moves, Learns
    <3> QED BY <3>2, <3>3, <3>5, WriteMoves
  <2> QED BY <1>1, <2>1, <2>2, <2>3
<1>5. \A q \in Pollers, s \in Records : poll'[q][s] = poll[q][s] \/ poll'[q][s].pc = "idle"
  BY DEF TInv, TypeOK, ApplyDecision, IdlePoll
<1>6. \A s \in Records : Keeps(s)
  BY <1>3, SendsSame
<1> QED BY <1>3, <1>4, <1>5, <1>6, KeepsAll

-----------------------------------------------------------------------------
\* What a step leaves of the requests: one that was made keeps what it asked for,
\* and one that landed has landed.
Remain ==
  \A x \in Tx : sends[x].status # "unused" =>
    /\ sends'[x].status # "unused"
    /\ sends'[x].kind = sends[x].kind /\ sends'[x].rec = sends[x].rec
    /\ sends[x].status \in {"success", "reverted"} => sends'[x].status = sends[x].status

LEMMA StatusRemains ==
  ASSUME TInv, NEW x \in Tx, NEW status, status # "unused",
         sends[x].status \notin {"success", "reverted"},
         sends' = [sends EXCEPT ![x].status = status]
  PROVE  Remain
<1>1. /\ sends'[x].kind = sends[x].kind /\ sends'[x].rec = sends[x].rec
      /\ sends'[x].status = status
      /\ \A y \in Tx \ {x} : sends'[y] = sends[y]
  BY DEF TInv, TypeOK, Send
<1> QED BY <1>1 DEF Remain

LEMMA AnyRemains ==
  ASSUME TInv, [Next]_vars
  PROVE  Remain
<1>1. ASSUME sends' = sends PROVE Remain
  BY <1>1 DEF Remain
<1>2. ASSUME NEW y \in Tx, NEW send, sends[y].status = "unused",
             sends' = [sends EXCEPT ![y] = send]
      PROVE  Remain
  BY <1>2 DEF TInv, TypeOK, Remain
<1>3. ASSUME NEW y \in Tx,
             \/ Broadcast(y)    \/ MineApproval(y) \/ MineBurn(y)
             \/ MineReverted(y) \/ Import(y)
      PROVE  Remain
  <2>1. CASE Import(y)
    BY <1>1, <2>1 DEF Import, chain
  <2>2. CASE Broadcast(y)
    BY <2>2, StatusRemains DEF Broadcast
  <2>3. CASE MineApproval(y) \/ MineBurn(y)
    BY <2>3, StatusRemains DEF MineApproval, MineBurn, Mine
  <2>4. CASE MineReverted(y)
    BY <2>4, StatusRemains DEF MineReverted, Mine
  <2> QED BY <1>3, <2>1, <2>2, <2>3, <2>4
<1>4. ASSUME NEW y \in Tx, NEW r \in Records, BurnElsewhere(y, r) PROVE Remain
  BY <1>2, <1>4 DEF BurnElsewhere
<1>5. ASSUME NEW c \in Callers, NEW y \in Tx, RequestWallet(c, y) PROVE Remain
  BY <1>2, <1>5 DEF RequestWallet
<1>6. ASSUME NEW c \in Callers, WalletRejects(c) \/ WalletLost(c) \/ TabCloses(c)
      PROVE  Remain
  <2> DEFINE y == caller[c].tx
  <2>1. caller[c].pc = "prompt" => y \in Tx
    BY CallerFacts
  <2>2. CASE WalletRejects(c)
    BY <2>1, <2>2, StatusRemains DEF WalletRejects
  <2>3. CASE TabCloses(c)
    BY <1>1, <2>1, <2>3, StatusRemains DEF TabCloses
  <2>4. CASE WalletLost(c)
    <3>1. y \in Tx /\ sends[y] \in Send
      BY <2>1, <2>4 DEF WalletLost, TInv, TypeOK
    <3>2. sends' = [sends EXCEPT ![y].status = IF sends[y].status = "prompt" THEN "limbo"
                                                                  ELSE sends[y].status]
      BY <2>4 DEF WalletLost
    <3>3. CASE sends[y].status = "prompt"
      BY <3>1, <3>2, <3>3, StatusRemains
    <3>4. CASE sends[y].status # "prompt"
      <4>1. [sends EXCEPT ![y].status = sends[y].status] = sends
        BY <3>1 DEF TInv, TypeOK, Send
      <4> QED BY <1>1, <3>2, <3>4, <4>1
    <3> QED BY <3>3, <3>4
  <2> QED BY <1>6, <2>2, <2>3, <2>4
<1>7. CASE UNCHANGED vars
  BY <1>1, <1>7 DEF vars
<1>8. CASE Other
  <2>1. ASSUME NEW r \in Records, NEW b \in BOOLEAN, CreatePlan(r, b) PROVE Remain
    BY <1>1, <2>1 DEF CreatePlan, chain
  <2>2. ASSUME NEW c \in Callers,
               \/ PrepareFails(c)   \/ ReadAttempt(c)     \/ WalletAnswers(c)
               \/ ReceiptSuccess(c) \/ ReceiptReverted(c) \/ ReceiptUnknown(c)
        PROVE  Remain
    BY <1>1, <2>2 DEF PrepareFails, ReadAttempt, WalletAnswers, ReceiptSuccess, ReceiptReverted,
                ReceiptUnknown, chain
  <2>3. ASSUME NEW p \in Pollers, CycleStart(p) PROVE Remain
    BY <1>1, <2>3 DEF CycleStart, chain
  <2>4. ASSUME NEW p \in Pollers, NEW r \in Records,
               \/ ReadAllowance(p, r) \/ ReadNonce(p, r)   \/ ReadDeposits(p, r)
               \/ ReadReceipt(p, r)   \/ ReadUnknown(p, r) \/ ApplyDecision(p, r)
        PROVE  Remain
    BY <1>1, <2>4 DEF ReadAllowance, ReadNonce, ReadDeposits, ReadReceipt, ReadUnknown,
                ApplyDecision, chain
  <2>5. HeadMovesOn => Remain
    BY <1>1 DEF HeadMovesOn, chain
  <2> QED BY <1>3, <1>4, <1>5, <1>6, <1>8, <2>1, <2>2, <2>3, <2>4, <2>5 DEF Other
<1>9. ASSUME NEW r \in Records, NewAttempt(r) PROVE Remain
  BY <1>1, <1>9 DEF NewAttempt, StartApprove, StartBurn, Start, chain
<1> QED BY <1>7, <1>8, <1>9 DEF Next

\* What is clean after a step was clean before: a burn that failed has failed, and
\* a burn from elsewhere is one.
LEMMA CleanStays ==
  ASSUME TInv, PromptNext \/ UNCHANGED vars, Clean'
  PROVE  Clean
<1>1. Remain
  BY AnyRemains DEF PromptNext, Next
<1>2. ASSUME NEW x \in Tx
      PROVE  /\ sends[x].kind # "elsewhere" \/ sends[x].status = "unused"
             /\ sends[x].kind = "burn" => sends[x].status # "reverted"
  <2>1. sends'[x].kind # "elsewhere" /\ (sends'[x].kind = "burn" => sends'[x].status # "reverted")
    BY DEF Clean
  <2> QED BY <1>1, <2>1 DEF Remain
<1>3. \A x \in Tx : sends[x].status = "unused" => sends[x].kind # "elsewhere"
  BY SendAssumption DEF TInv, SendsOK
<1> QED BY <1>2, <1>3 DEF Clean

LEMMA BurnInit == Init => BurnInv
<1> SUFFICES ASSUME Init PROVE BInv
  BY DEF BurnInv
<1>1. \A r \in Records : Effective(r) = {}
  BY DEF Init, Effective, Burns, UnusedTx, Live
<1>2. RecordsOK
  BY <1>1 DEF Init, RecordsOK, OwnerOK, HashOK, NoRecord
<1>3. WorksOK /\ EvidencesOK
  BY DEF Init, WorksOK, WorkOK, EvidencesOK, EvidenceOK, IdleCaller, IdlePoll
<1> QED BY <1>2, <1>3 DEF BInv

LEMMA BurnStep == TInv /\ BurnInv /\ [PromptNext]_vars => BurnInv'
<1> SUFFICES ASSUME TInv, BurnInv, [PromptNext]_vars, Clean' PROVE BInv'
  BY DEF BurnInv
<1> USE CleanStays DEF BurnInv
<1>1. CASE Other
  <2>0. BInv /\ Clean
    BY <1>1 DEF PromptNext
  <2>1. ASSUME NEW r \in Records, NEW b \in BOOLEAN, CreatePlan(r, b) PROVE BInv'
    BY <2>0, <2>1, PlanBurn
  <2>2. ASSUME NEW c \in Callers, NEW x \in Tx, RequestWallet(c, x) PROVE BInv'
    BY <2>0, <2>2, RequestBurn
  <2>3. ASSUME NEW c \in Callers,
               \/ PrepareFails(c)    \/ ReadAttempt(c)    \/ WalletRejects(c)
               \/ WalletLost(c)      \/ WalletAnswers(c)  \/ ReceiptSuccess(c)
               \/ ReceiptReverted(c) \/ ReceiptUnknown(c) \/ TabCloses(c)
        PROVE  BInv'
    BY <2>0, <2>3, PrepareFailsBurn, ReadAttemptBurn, WalletRejectsBurn, LeaveBurn,
       WalletAnswersBurn, ReceiptBurn
  <2>4. ASSUME NEW x \in Tx,
               \/ Broadcast(x)    \/ MineApproval(x) \/ MineBurn(x)
               \/ MineReverted(x) \/ Import(x)
        PROVE  BInv'
    BY <2>0, <2>4, ChainBurn, ImportBurn
  <2>5. ASSUME NEW p \in Pollers, CycleStart(p) PROVE BInv'
    BY <2>0, <2>5, CycleBurn
  <2>6. ASSUME NEW p \in Pollers, NEW r \in Records,
               \/ ReadAllowance(p, r) \/ ReadNonce(p, r)   \/ ReadDeposits(p, r)
               \/ ReadReceipt(p, r)   \/ ReadUnknown(p, r) \/ ApplyDecision(p, r)
        PROVE  BInv'
    BY <2>0, <2>6, ReadBurn, ApplyBurn
  <2>7. ASSUME NEW x \in Tx, NEW r \in Records, BurnElsewhere(x, r) PROVE FALSE
    <3>1. sends'[x].kind = "elsewhere"
      BY <2>7 DEF BurnElsewhere, TInv, TypeOK
    <3> QED BY <3>1 DEF Clean
  <2> QED BY <1>1, <2>0, <2>1, <2>2, <2>3, <2>4, <2>5, <2>6, <2>7, HeadMovesOnBurn DEF Other
<1>2. ASSUME NEW r \in Records, NewAttempt(r), PollsSettled PROVE BInv'
  <2>1. BInv
    BY <1>2 DEF PromptNext
  <2> QED BY <1>2, <2>1, StartBurnInv DEF NewAttempt
<1>3. CASE UNCHANGED vars
  <2>1. BInv
    BY <1>3
  <2>2. UNCHANGED <<queue, caller, poll, sends>>
    BY <1>3 DEF vars
  <2> QED BY <2>1, <2>2, SendsSame, QueueSame, KeepsAll
<1> QED BY <1>1, <1>2, <1>3 DEF PromptNext

LEMMA PromptInv == PromptSpec => [](TInv /\ BurnInv)
<1>1. TInv /\ [PromptNext]_vars => TInv'
  BY TInvStep DEF PromptNext, Next
<1> QED BY <1>1, TInvInit, BurnInit, BurnStep, PTL DEF PromptSpec

\* A transfer is asked to burn once, for any number of transfers, tabs, loops
\* and requests: of all its burn requests at most one can land or has landed.
THEOREM SendNoSecondBurn == PromptSpec => []NoSecondBurn
<1>1. BurnInv => NoSecondBurn
  BY DEF BurnInv, BInv, RecordsOK, OwnerOK, Effective, NoSecondBurn
<1> QED BY <1>1, PromptInv, PTL

\* No decision of a recovery loop and no error path lets go of a burn request
\* that may still land.
THEOREM SendLiveBurnIsLocked == PromptSpec => []LiveBurnIsLocked
<1>1. BurnInv => LiveBurnIsLocked
  BY DEF BurnInv, BInv, RecordsOK, OwnerOK, Effective, Live, LiveBurnIsLocked
<1> QED BY <1>1, PromptInv, PTL

\* A burn that landed never drops out of the queue.
THEOREM SendLandedBurnIsKept == PromptSpec => []LandedBurnIsKept
<1>1. BurnInv => LandedBurnIsKept
  <2> SUFFICES ASSUME BInv, NEW r \in Records, NEW x \in Burns(r), sends[x].status = "success"
               PROVE  \/ queue[r].stage = "burning" /\ queue[r].sourceTx \in {None, x}
                      \/ queue[r].stage = "waiting_attestation" /\ queue[r].sourceTx = x
    BY DEF BurnInv, LandedBurnIsKept
  <2>1. OwnerOK(r) /\ HashOK(r) /\ x \in Effective(r)
    BY DEF BInv, RecordsOK, Effective
  <2> QED BY <2>1 DEF OwnerOK, HashOK
<1> QED BY <1>1, PromptInv, PTL

(***************************************************************************)
(* What waits for its attestation was burned, also when burns have failed  *)
(* or were made elsewhere, and whatever a late decision does.              *)
(***************************************************************************)

\* Of the requests in w, x would show on chain what r would.
Looks(w, r, x) ==
  /\ x \in Tx /\ w[x].status # "unused"
  /\ w[x].kind \in {"burn", "elsewhere"}
  /\ Amount[w[x].rec] = Amount[r]

HashLooks ==
  \A r \in Records :
    /\ queue[r].sourceTx # None => Looks(sends, r, queue[r].sourceTx)
    /\ queue[r].stage = "waiting_attestation" => Deposits(r) # {}

AskedLooks ==
  \A c \in Callers :
    caller[c].pc \in {"prompt", "receipt"} /\ caller[c].kind = "burn" =>
      Looks(sends, caller[c].rec, caller[c].tx)

PollLooks ==
  \A p \in Pollers, r \in Records :
    LET d == poll[p][r]
    IN  d.pc # "idle" =>
          /\ d.snap.sourceTx # None => Looks(sends, r, d.snap.sourceTx)
          /\ d.pc = "apply" /\ d.decision = "found" => Looks(sends, r, d.tx)
          /\ d.pc = "apply" /\ d.decision = "success" /\ d.snap.stage = "burning" =>
               Deposits(r) # {}

LInv == HashLooks /\ AskedLooks /\ PollLooks

LEMMA LooksRemain ==
  ASSUME Remain
  PROVE  \A r, x : Looks(sends, r, x) => Looks(sends', r, x)
  BY DEF Remain, Looks

LEMMA DepositsRemain ==
  ASSUME Remain, NEW r, Deposits(r) # {}
  PROVE  Deposits(r)' # {}
<1>1. \A x \in Deposits(r) : x \in Deposits(r)'
  BY DEF Remain, Deposits
<1> QED BY <1>1

\* Enough for a step: what it writes into a record, and what an invocation or a
\* loop has in hand after it.
Writ(r) ==
  /\ \/ queue'[r].sourceTx \in {queue[r].sourceTx, None}
     \/ Looks(sends', r, queue'[r].sourceTx)
  /\ queue'[r].stage = "waiting_attestation" =>
       queue[r].stage = "waiting_attestation" \/ Deposits(r)' # {}

InHand(c) ==
  \/ caller'[c] = caller[c]
  \/ caller'[c].pc \notin {"prompt", "receipt"}
  \/ caller'[c].kind = "burn" => Looks(sends', caller'[c].rec, caller'[c].tx)

Learnt(p, r) ==
  LET d == poll'[p][r]
  IN  \/ d = poll[p][r]
      \/ d.pc = "idle"
      \/ /\ d.snap.sourceTx # None => Looks(sends', r, d.snap.sourceTx)
         /\ d.pc = "apply" /\ d.decision = "found" => Looks(sends', r, d.tx)
         /\ d.pc = "apply" /\ d.decision = "success" /\ d.snap.stage = "burning" =>
              Deposits(r)' # {}

LEMMA LooksKept ==
  ASSUME LInv, Remain, \A r \in Records : Writ(r), \A c \in Callers : InHand(c),
         \A p \in Pollers, r \in Records : Learnt(p, r)
  PROVE  LInv'
<1>1. HashLooks'
  <2>1. ASSUME NEW r \in Records
        PROVE  /\ queue'[r].sourceTx # None => Looks(sends', r, queue'[r].sourceTx)
               /\ queue'[r].stage = "waiting_attestation" => Deposits(r)' # {}
    <3>1. Writ(r)
      OBVIOUS
    <3>2. queue[r].sourceTx # None => Looks(sends', r, queue[r].sourceTx)
      BY LooksRemain DEF LInv, HashLooks
    <3>3. queue[r].stage = "waiting_attestation" => Deposits(r)' # {}
      BY DepositsRemain DEF LInv, HashLooks
    <3> QED BY <3>1, <3>2, <3>3 DEF Writ
  <2> QED BY <2>1 DEF HashLooks
<1>2. AskedLooks'
  <2>1. ASSUME NEW c \in Callers, caller'[c].pc \in {"prompt", "receipt"}, caller'[c].kind = "burn"
        PROVE  Looks(sends', caller'[c].rec, caller'[c].tx)
    <3>1. InHand(c)
      OBVIOUS
    <3>2. CASE caller'[c] = caller[c]
      <4>1. Looks(sends, caller[c].rec, caller[c].tx)
        BY <2>1, <3>2 DEF LInv, AskedLooks
      <4> QED BY <3>2, <4>1, LooksRemain
    <3> QED BY <2>1, <3>1, <3>2 DEF InHand
  <2> QED BY <2>1 DEF AskedLooks
<1>3. PollLooks'
  <2>1. ASSUME NEW p \in Pollers, NEW r \in Records, poll'[p][r].pc # "idle"
        PROVE  LET d == poll'[p][r]
               IN  /\ d.snap.sourceTx # None => Looks(sends', r, d.snap.sourceTx)
                   /\ d.pc = "apply" /\ d.decision = "found" => Looks(sends', r, d.tx)
                   /\ d.pc = "apply" /\ d.decision = "success" /\ d.snap.stage = "burning" =>
                        Deposits(r)' # {}
    <3>1. Learnt(p, r)
      OBVIOUS
    <3>2. CASE poll'[p][r] = poll[p][r]
      BY <2>1, <3>2, LooksRemain, DepositsRemain DEF LInv, PollLooks
    <3> QED BY <2>1, <3>1, <3>2 DEF Learnt
  <2> QED BY <2>1 DEF PollLooks
<1> QED BY <1>1, <1>2, <1>3 DEF LInv

LEMMA QueueLooks ==
  ASSUME queue' = queue
  PROVE  \A r \in Records : Writ(r)
  BY DEF Writ

LEMMA WriteLooks ==
  ASSUME TInv, NEW r \in Records, NEW new \in Record, Writes(r, new),
         \/ new.sourceTx \in {queue[r].sourceTx, None}
         \/ Looks(sends', r, new.sourceTx),
         new.stage = "waiting_attestation" =>
           queue[r].stage = "waiting_attestation" \/ Deposits(r)' # {}
  PROVE  \A s \in Records : Writ(s)
<1>1. /\ \A s \in Records \ {r} : queue'[s] = queue[s]
      /\ queue'[r] \in {queue[r], new}
  BY WriteOne DEF TInv, TypeOK
<1> QED BY <1>1 DEF Writ

LEMMA EndLooks ==
  ASSUME TInv, LInv, Remain, NEW c \in Callers, caller[c].pc # "idle", Finish(c),
         poll' = poll, \A r \in Records : Writ(r)
  PROVE  LInv'
<1>1. \A d \in Callers : InHand(d)
  BY FinishCallers DEF InHand
<1>2. \A p \in Pollers, r \in Records : Learnt(p, r)
  BY DEF Learnt
<1> QED BY <1>1, <1>2, LooksKept

\* Steps of the chain, and others that touch neither invocation nor loop.
LEMMA OutsideLooks ==
  ASSUME LInv, Remain, UNCHANGED <<caller, poll>>, \A r \in Records : Writ(r)
  PROVE  LInv'
<1>1. (\A d \in Callers : InHand(d)) /\ \A p \in Pollers, r \in Records : Learnt(p, r)
  BY DEF InHand, Learnt
<1> QED BY <1>1, LooksKept

\* A landed request that looks like the record's is there for it.
LEMMA LandedLooks ==
  ASSUME NEW r, NEW x, Looks(sends, r, x), sends[x].status = "success"
  PROVE  Deposits(r) # {}
  BY DEF Looks, Deposits

LEMMA PlanLooks ==
  ASSUME TInv, LInv, Remain, NEW r \in Records, NEW b \in BOOLEAN, CreatePlan(r, b)
  PROVE  LInv'
<1> DEFINE new == [NoRecord EXCEPT !.stage = IF b THEN "approval_required" ELSE "ready"]
<1>1. new \in Record /\ new.stage # "waiting_attestation" /\ new.sourceTx = None
  BY DEF NoRecord, Record, Stage
<1>2. Writes(r, new)
  BY DEF CreatePlan, Writes
<1> HIDE DEF new
<1> QED BY <1>1, <1>2, WriteLooks, OutsideLooks DEF CreatePlan

LEMMA StartLooks ==
  ASSUME TInv, LInv, Remain, NEW c \in Callers, NEW r \in Records,
         NEW kind, NEW stages, NEW next \in {"approving", "burning"},
         Start(c, r, kind, stages, next)
  PROVE  LInv'
<1> DEFINE new  == [queue[r] EXCEPT !.stage = next]
           prev == PreviousStage(r, kind)
           work == [IdleCaller EXCEPT !.pc = "prepare", !.rec = r, !.kind = kind, !.prev = prev]
<1>1. new \in Record /\ new.stage = next /\ new.sourceTx = queue[r].sourceTx
  BY DEF TInv, TypeOK, Record, Stage
<1>2. Writes(r, new)
  BY DEF Start, Writes
<1>3. caller' = [caller EXCEPT ![c] = work] /\ poll' = poll
  BY DEF Start
<1> HIDE DEF new, prev
<1>4. work.pc = "prepare"
  BY DEF IdleCaller
<1> HIDE DEF work
<1>5. \A d \in Callers : InHand(d)
  BY <1>3, <1>4 DEF InHand, TInv, TypeOK
<1>6. \A p \in Pollers, s \in Records : Learnt(p, s)
  BY <1>3 DEF Learnt
<1> QED BY <1>1, <1>2, <1>5, <1>6, WriteLooks, LooksKept

LEMMA ReleaseLooks ==
  ASSUME TInv, NEW c \in Callers, caller[c].pc # "idle", Release(c)
  PROVE  \A s \in Records : Writ(s)
<1> DEFINE new == [queue[caller[c].rec] EXCEPT !.stage = caller[c].prev]
<1>1. PICK r \in Records : caller[c].rec = r
  BY CallerFacts
<1>2. new \in Record /\ new.stage # "waiting_attestation" /\ new.sourceTx = queue[r].sourceTx
  BY <1>1, CallerFacts DEF Record, Stage
<1>3. Writes(r, new)
  BY <1>1 DEF Release, Writes
<1> HIDE DEF new
<1> QED BY <1>2, <1>3, WriteLooks

LEMMA LeaveLooks ==
  ASSUME TInv, LInv, Remain, NEW c \in Callers,
         PrepareFails(c) \/ WalletRejects(c) \/ WalletLost(c) \/ TabCloses(c)
  PROVE  LInv'
<1>1. caller[c].pc # "idle" /\ Finish(c) /\ poll' = poll
  BY DEF PrepareFails, WalletRejects, WalletLost, TabCloses
<1>2. Release(c) \/ queue' = queue
  BY DEF PrepareFails, WalletRejects, WalletLost, TabCloses
<1> QED BY <1>1, <1>2, ReleaseLooks, QueueLooks, EndLooks

\* An invocation that goes on, with a request in hand only if it looks right.
LEMMA GoesLooks ==
  ASSUME TInv, LInv, Remain, NEW c \in Callers, NEW new, caller' = [caller EXCEPT ![c] = new],
         poll' = poll, \A r \in Records : Writ(r),
         new.pc \in {"prompt", "receipt"} /\ new.kind = "burn" => Looks(sends', new.rec, new.tx)
  PROVE  LInv'
<1>1. \A d \in Callers : InHand(d)
  BY DEF InHand, TInv, TypeOK
<1>2. \A p \in Pollers, r \in Records : Learnt(p, r)
  BY DEF Learnt
<1> QED BY <1>1, <1>2, LooksKept

LEMMA ReadAttemptLooks ==
  ASSUME TInv, LInv, Remain, NEW c \in Callers, ReadAttempt(c)
  PROVE  LInv'
<1>1. PICK block : caller' = [caller EXCEPT ![c] =
        [@ EXCEPT !.pc = "attempt", !.attempt = [nonce |-> nonce, block |-> block, era |-> era]]]
  BY DEF ReadAttempt
<1> DEFINE attempt == [nonce |-> nonce, block |-> block, era |-> era]
           new == [caller[c] EXCEPT !.pc = "attempt", !.attempt = attempt]
<1>2. caller' = [caller EXCEPT ![c] = new] /\ poll' = poll /\ queue' = queue
  BY <1>1 DEF ReadAttempt
<1> HIDE DEF attempt
<1>3. new.pc = "attempt"
  BY DEF TInv, TypeOK, CallerState
<1> HIDE DEF new
<1> QED BY <1>2, <1>3, QueueLooks, GoesLooks

LEMMA RequestLooks ==
  ASSUME TInv, LInv, Remain, NEW c \in Callers, NEW x \in Tx, RequestWallet(c, x)
  PROVE  LInv'
<1>1. PICK r \in Records : caller[c].rec = r
  BY CallerFacts DEF RequestWallet
<1> DEFINE k == caller[c].kind
           old == queue[r]
           attempt == caller[c].attempt
           approval == IF k = "approve" THEN None ELSE old.approvalTx
           hash == IF k = "burn" THEN None ELSE old.sourceTx
           rec == [old EXCEPT !.attempt = attempt, !.approvalTx = approval, !.sourceTx = hash]
           new == [caller[c] EXCEPT !.pc = "prompt", !.tx = x]
<1>2. old \in Record /\ attempt \in Attempt /\ caller[c] \in CallerState
  BY <1>1, CallerFacts DEF TInv, TypeOK, CallerOK, RequestWallet
<1>3. approval \in Tx \cup {None} /\ hash \in {old.sourceTx, None} /\ hash \in Tx \cup {None}
  BY <1>2 DEF Record
<1>4. Writes(r, rec)
  BY <1>1, <1>2 DEF RequestWallet, Writes, Record
<1>5. caller' = [caller EXCEPT ![c] = new] /\ poll' = poll
  BY DEF RequestWallet
<1>6. sends' = [sends EXCEPT ![x] = [kind |-> k, rec |-> r, status |-> "prompt"]]
  BY <1>1 DEF RequestWallet
<1> HIDE DEF attempt, approval, hash, old
<1>7. rec \in Record /\ rec.stage = old.stage /\ rec.sourceTx = hash
  BY <1>2, <1>3 DEF Record
<1> HIDE DEF rec
<1>8. \A s \in Records : Writ(s)
  BY <1>2, <1>3, <1>4, <1>7, WriteLooks DEF old
<1>9. new.pc = "prompt" /\ new.rec = r /\ new.tx = x /\ new.kind = k
  BY <1>1, <1>2 DEF CallerState
<1>10. k = "burn" => Looks(sends', r, x)
  BY <1>6 DEF Looks, TInv, TypeOK
<1> HIDE DEF new, k
<1> QED BY <1>5, <1>8, <1>9, <1>10, GoesLooks

LEMMA StoreHashLooks ==
  ASSUME TInv, LInv, Remain, NEW c \in Callers, caller[c].pc \in {"prompt", "receipt"},
         StoreHash(c, caller[c].tx)
  PROVE  \A s \in Records : Writ(s)
<1>1. PICK r \in Records : caller[c].rec = r
  BY CallerFacts
<1> DEFINE x == caller[c].tx
           new == IF caller[c].kind = "approve" THEN [queue[r] EXCEPT !.approvalTx = x]
                                                ELSE [queue[r] EXCEPT !.sourceTx = x]
<1>2. queue[r] \in Record /\ x \in Tx /\ caller[c].kind \in {"approve", "burn"}
  BY <1>1, CallerFacts
<1>3. /\ new \in Record /\ new.stage = queue[r].stage
      /\ new.sourceTx = queue[r].sourceTx \/ (caller[c].kind = "burn" /\ new.sourceTx = x)
  BY <1>2 DEF Record
<1>4. Writes(r, new)
  BY <1>1 DEF StoreHash, Writes
<1>5. caller[c].kind = "burn" => Looks(sends', r, x)
  BY <1>1, LooksRemain DEF LInv, AskedLooks
<1> HIDE DEF new
<1> QED BY <1>3, <1>4, <1>5, WriteLooks

LEMMA WalletAnswersLooks ==
  ASSUME TInv, LInv, Remain, NEW c \in Callers, WalletAnswers(c)
  PROVE  LInv'
<1> DEFINE new == [caller[c] EXCEPT !.pc = "receipt"]
<1>1. caller[c].pc = "prompt" /\ StoreHash(c, caller[c].tx) /\ poll' = poll
      /\ caller' = [caller EXCEPT ![c] = new]
  BY DEF WalletAnswers
<1>2. new.rec = caller[c].rec /\ new.tx = caller[c].tx /\ new.kind = caller[c].kind
  BY DEF TInv, TypeOK, CallerState
<1>3. caller[c].kind = "burn" => Looks(sends', caller[c].rec, caller[c].tx)
  BY <1>1, LooksRemain DEF LInv, AskedLooks
<1> HIDE DEF new
<1> QED BY <1>1, <1>2, <1>3, StoreHashLooks, GoesLooks

LEMMA ReceiptLooks ==
  ASSUME TInv, LInv, Remain, NEW c \in Callers,
         ReceiptSuccess(c) \/ ReceiptReverted(c) \/ ReceiptUnknown(c)
  PROVE  LInv'
<1> DEFINE x == caller[c].tx
<1>1. /\ caller[c].pc = "receipt" /\ caller[c].pc # "idle" /\ Finish(c)
      /\ poll' = poll /\ sends' = sends
  BY DEF ReceiptSuccess, ReceiptReverted, ReceiptUnknown, chain
<1>2. PICK r \in Records : caller[c].rec = r
  BY <1>1, CallerFacts
<1>3. /\ queue[r] \in Record /\ x \in Tx /\ caller[c].kind \in {"approve", "burn"}
      /\ caller[c].prev \in {"approval_required", "approved", "ready"}
  BY <1>1, <1>2, CallerFacts
<1>4. CASE StoreHash(c, x)
  BY <1>1, <1>4, StoreHashLooks, EndLooks
<1>5. CASE ReceiptReverted(c)
  <2> DEFINE new == IF caller[c].kind = "approve"
                    THEN [queue[r] EXCEPT !.stage = "approval_required", !.approvalTx = None]
                    ELSE [queue[r] EXCEPT !.stage = caller[c].prev, !.sourceTx = None]
  <2>1. /\ new \in Record /\ new.stage # "waiting_attestation"
        /\ new.sourceTx \in {queue[r].sourceTx, None}
    BY <1>3 DEF Record, Stage
  <2>2. Writes(r, new)
    BY <1>2, <1>5 DEF ReceiptReverted, Writes
  <2> HIDE DEF new
  <2> QED BY <1>1, <2>1, <2>2, WriteLooks, EndLooks
<1>6. CASE ReceiptSuccess(c) /\ ~StoreHash(c, x)
  <2> DEFINE next == IF caller[c].kind = "approve" THEN "approved" ELSE "waiting_attestation"
             new == IF caller[c].kind = "approve" THEN [queue[r] EXCEPT !.stage = next, !.approvalTx = x]
                                                  ELSE [queue[r] EXCEPT !.stage = next, !.sourceTx = x]
  <2>1. /\ new \in Record /\ (new.stage = "waiting_attestation" => caller[c].kind = "burn")
        /\ new.sourceTx = queue[r].sourceTx \/ (caller[c].kind = "burn" /\ new.sourceTx = x)
    BY <1>3 DEF Record, Stage
  <2>2. queue' = [queue EXCEPT ![r] = new] /\ sends[x].status = "success"
    BY <1>2, <1>6 DEF ReceiptSuccess
  <2>3. Writes(r, new)
    BY <2>2 DEF Writes
  <2>4. caller[c].kind = "burn" => Looks(sends, r, x)
    BY <1>1, <1>2 DEF LInv, AskedLooks
  <2>5. caller[c].kind = "burn" => Looks(sends', r, x) /\ Deposits(r)' # {}
    BY <1>1, <2>2, <2>4, LandedLooks, DepositsRemain
  <2> HIDE DEF new
  <2> QED BY <1>1, <2>1, <2>3, <2>5, WriteLooks, EndLooks
<1> QED BY <1>4, <1>5, <1>6 DEF ReceiptUnknown

LEMMA ImportLooks ==
  ASSUME TInv, LInv, Remain, NEW x \in Tx, Import(x)
  PROVE  LInv'
<1>1. UNCHANGED <<caller, poll>> /\ sends[x].status = "success"
  BY DEF Import
<1>2. CASE queue' = queue
  BY <1>1, <1>2, QueueLooks, OutsideLooks
<1>3. CASE queue' # queue
  <2>1. PICK r \in Records, new \in Record :
          queue[r].sourceTx = x /\ new.sourceTx = x /\ Writes(r, new)
    BY <1>3, ImportWrites
  <2>2. Looks(sends, r, x)
    BY <2>1, SendAssumption DEF LInv, HashLooks
  <2>3. Deposits(r)' # {}
    BY <1>1, <2>2, LandedLooks, DepositsRemain
  <2> QED BY <1>1, <2>1, <2>3, WriteLooks, OutsideLooks
<1> QED BY <1>2, <1>3

\* A loop goes on with its record.
LEMMA PollPutLooks ==
  ASSUME TInv, LInv, Remain, NEW p \in Pollers, NEW r \in Records, NEW new,
         poll' = [poll EXCEPT ![p][r] = new], caller' = caller, \A s \in Records : Writ(s),
         \/ new.pc = "idle"
         \/ /\ poll[p][r].pc # "idle" /\ new.snap = poll[p][r].snap
            /\ new.pc = "apply" /\ new.decision = "found" => Looks(sends', r, new.tx)
            /\ new.pc = "apply" /\ new.decision = "success" /\ new.snap.stage = "burning" =>
                 Deposits(r)' # {}
  PROVE  LInv'
<1>1. /\ poll'[p][r] = new
      /\ \A q \in Pollers, s \in Records : q # p \/ s # r => poll'[q][s] = poll[q][s]
  BY DEF TInv, TypeOK
<1>2. poll[p][r].pc # "idle" =>
        (poll[p][r].snap.sourceTx # None => Looks(sends', r, poll[p][r].snap.sourceTx))
  BY LooksRemain DEF LInv, PollLooks
<1>3. Learnt(p, r)
  BY <1>1, <1>2 DEF Learnt
<1>4. \A q \in Pollers, s \in Records : Learnt(q, s)
  <2>1. \A q \in Pollers, s \in Records : q # p \/ s # r => Learnt(q, s)
    BY <1>1 DEF Learnt
  <2> QED BY <1>3, <2>1
<1>5. \A d \in Callers : InHand(d)
  BY DEF InHand
<1> QED BY <1>4, <1>5, LooksKept

LEMMA ReadLooks ==
  ASSUME TInv, LInv, Remain, NEW p \in Pollers, NEW r \in Records,
         \/ ReadAllowance(p, r) \/ ReadNonce(p, r) \/ ReadDeposits(p, r)
         \/ ReadReceipt(p, r)   \/ ReadUnknown(p, r)
  PROVE  LInv'
<1> DEFINE d == poll[p][r]
           decided(kind, x) == [d EXCEPT !.pc = "apply", !.decision = kind, !.tx = x]
           asks == [d EXCEPT !.pc = "nonce"]
<1>1. d \in PollState /\ d.pc # "idle"
  BY DEF TInv, TypeOK, ReadAllowance, ReadNonce, ReadDeposits, ReadReceipt, ReadUnknown
<1>2. UNCHANGED <<queue, caller, sends>>
  BY DEF ReadAllowance, ReadNonce, ReadDeposits, ReadReceipt, ReadUnknown, chain
<1>3. \A s \in Records : Writ(s)
  BY <1>2, QueueLooks
<1>4. ASSUME NEW kind, NEW x, Decide(p, r, kind, x),
             kind = "found" => Looks(sends, r, x),
             kind = "success" /\ d.snap.stage = "burning" => Deposits(r) # {}
      PROVE  LInv'
  <2> DEFINE new == decided(kind, x)
  <2>1. poll' = [poll EXCEPT ![p][r] = new]
    BY <1>4 DEF Decide
  <2>2. new.decision = kind /\ new.tx = x /\ new.snap = d.snap
    BY <1>1 DEF PollState
  <2> HIDE DEF new
  <2>3. kind = "success" /\ d.snap.stage = "burning" => Deposits(r)' # {}
    BY <1>4, DepositsRemain
  <2> QED BY <1>1, <1>2, <1>3, <1>4, <2>1, <2>2, <2>3, PollPutLooks
<1>5. CASE ReadDeposits(p, r)
  <2>1. PICK x \in Tx : UnclaimedBurns(r, d.snap.attempt.block) = {x} /\ Decide(p, r, "found", x)
    BY <1>5 DEF ReadDeposits
  <2>2. x \in Deposits(r)
    BY <2>1 DEF UnclaimedBurns
  <2>3. Looks(sends, r, x)
    BY <2>2 DEF Deposits, Looks
  <2> QED BY <1>4, <2>1, <2>3
<1>6. CASE ReadReceipt(p, r)
  <2> DEFINE x == SnapTx(d.snap)
  <2>1. Decide(p, r, sends[x].status, x) /\ sends[x].status # "found" /\ ~SnapLost(d.snap)
    BY <1>6 DEF ReadReceipt, Mined
  <2>2. ASSUME d.snap.stage = "burning", sends[x].status = "success" PROVE Deposits(r) # {}
    <3>1. x = d.snap.sourceTx /\ x # None
      BY <2>1, <2>2 DEF SnapTx, SnapLost
    <3>2. Looks(sends, r, x)
      BY <1>1, <3>1 DEF LInv, PollLooks
    <3> QED BY <2>2, <3>2, LandedLooks
  <2> HIDE DEF x
  <2> QED BY <1>4, <2>1, <2>2
<1>7. CASE ReadAllowance(p, r) \/ ReadNonce(p, r)
  <2>1. \/ Decide(p, r, "approved", None) \/ Decide(p, r, "not_executed", None)
        \/ poll' = [poll EXCEPT ![p][r] = asks]
    BY <1>7 DEF ReadAllowance, ReadNonce
  <2>2. asks.pc = "nonce" /\ asks.snap = d.snap
    BY <1>1 DEF PollState
  <2> HIDE DEF asks
  <2>3. CASE poll' = [poll EXCEPT ![p][r] = asks]
    BY <1>1, <1>2, <1>3, <2>2, <2>3, PollPutLooks
  <2> QED BY <1>4, <2>1, <2>3
<1>8. CASE ReadUnknown(p, r)
  <2>1. poll' = [poll EXCEPT ![p][r] = IdlePoll] /\ IdlePoll.pc = "idle"
    BY <1>8 DEF ReadUnknown, IdlePoll
  <2> QED BY <1>2, <1>3, <2>1, PollPutLooks
<1> QED BY <1>5, <1>6, <1>7, <1>8

LEMMA ApplyLooks ==
  ASSUME TInv, LInv, Remain, NEW p \in Pollers, NEW r \in Records, ApplyDecision(p, r)
  PROVE  LInv'
<1> DEFINE d == poll[p][r]
           found == [queue[r] EXCEPT !.sourceTx = d.tx]
           settled == Settled(r, d.snap, d.decision)
<1>1. /\ d.pc = "apply" /\ d.decision \in Decision /\ queue[r] \in Record /\ d \in PollState
      /\ d.snap.stage \in {"approving", "burning"}
      /\ d.decision \in {"approved", "not_executed"} => d.snap.stage = "approving"
  BY DEF TInv, TypeOK, PollOK, ApplyDecision
<1>2. \A s \in Records : Writ(s)
  <2>1. CASE d.decision = "found"
    <3>1. found \in Record /\ found.stage = queue[r].stage /\ found.sourceTx = d.tx
      BY <1>1 DEF Record, PollState
    <3>2. Writes(r, found)
      BY <2>1 DEF ApplyDecision, Writes
    <3>3. Looks(sends', r, d.tx)
      BY <1>1, <2>1, LooksRemain DEF LInv, PollLooks
    <3> HIDE DEF found
    <3> QED BY <3>1, <3>2, <3>3, WriteLooks
  <2>2. CASE d.decision # "found"
    <3>1. /\ settled \in Record /\ settled.sourceTx \in {queue[r].sourceTx, None}
          /\ settled.stage = "waiting_attestation" =>
               d.decision = "success" /\ d.snap.stage = "burning"
      BY <1>1, <2>2, ZenonT(40) DEF Settled, ConfirmedStage, Decision, Record, Stage
    <3>2. Writes(r, settled)
      BY <2>2 DEF ApplyDecision, Writes
    <3>3. d.decision = "success" /\ d.snap.stage = "burning" => Deposits(r)' # {}
      BY <1>1, DepositsRemain DEF LInv, PollLooks
    <3> HIDE DEF settled
    <3> QED BY <3>1, <3>2, <3>3, WriteLooks
  <2> QED BY <2>1, <2>2
<1>3. poll' = [poll EXCEPT ![p][r] = IdlePoll] /\ IdlePoll.pc = "idle" /\ caller' = caller
  BY DEF ApplyDecision, IdlePoll
<1> QED BY <1>2, <1>3, PollPutLooks

LEMMA CycleLooks ==
  ASSUME TInv, LInv, Remain, NEW p \in Pollers, CycleStart(p)
  PROVE  LInv'
<1>1. PICK batch \in SUBSET Recoverable :
        poll' = [poll EXCEPT ![p] = [r \in Records |->
          IF r \in batch THEN [IdlePoll EXCEPT !.pc = "read", !.snap = queue[r]]
                         ELSE IdlePoll]]
  BY DEF CycleStart
<1>2. UNCHANGED <<queue, caller>>
  BY DEF CycleStart
<1>3. \A q \in Pollers \ {p} : poll'[q] = poll[q]
  BY <1>1 DEF TInv, TypeOK
<1>4. \A r \in Records : poll'[p][r].pc # "idle" =>
        poll'[p][r].pc = "read" /\ poll'[p][r].snap = queue[r]
  BY <1>1 DEF TInv, TypeOK, IdlePoll
<1>5. \A r \in Records : queue[r].sourceTx # None => Looks(sends', r, queue[r].sourceTx)
  BY LooksRemain DEF LInv, HashLooks
<1>6. \A q \in Pollers, r \in Records : Learnt(q, r)
  BY <1>3, <1>4, <1>5 DEF Learnt
<1>7. \A d \in Callers : InHand(d)
  BY <1>2 DEF InHand
<1> QED BY <1>2, <1>6, <1>7, QueueLooks, LooksKept

LEMMA LooksInit == Init => LInv
  BY DEF Init, LInv, HashLooks, AskedLooks, PollLooks, NoRecord, IdleCaller, IdlePoll

LEMMA LooksStep == TInv /\ LInv /\ [Next]_vars => LInv'
<1> SUFFICES ASSUME TInv, LInv, [Next]_vars PROVE LInv'
  OBVIOUS
<1>1. Remain
  BY AnyRemains
<1>2. CASE Other
  <2>1. ASSUME NEW r \in Records, NEW b \in BOOLEAN, CreatePlan(r, b) PROVE LInv'
    BY <1>1, <2>1, PlanLooks
  <2>2. ASSUME NEW c \in Callers, NEW x \in Tx, RequestWallet(c, x) PROVE LInv'
    BY <1>1, <2>2, RequestLooks
  <2>3. ASSUME NEW c \in Callers,
               \/ PrepareFails(c)    \/ ReadAttempt(c)    \/ WalletRejects(c)
               \/ WalletLost(c)      \/ WalletAnswers(c)  \/ ReceiptSuccess(c)
               \/ ReceiptReverted(c) \/ ReceiptUnknown(c) \/ TabCloses(c)
        PROVE  LInv'
    BY <1>1, <2>3, LeaveLooks, ReadAttemptLooks, WalletAnswersLooks, ReceiptLooks
  <2>4. ASSUME NEW x \in Tx,
               \/ Broadcast(x)    \/ MineApproval(x) \/ MineBurn(x)
               \/ MineReverted(x) \/ Import(x)
        PROVE  LInv'
    <3>1. CASE Import(x)
      BY <1>1, <3>1, ImportLooks
    <3>2. CASE Broadcast(x) \/ MineApproval(x) \/ MineBurn(x) \/ MineReverted(x)
      <4>1. UNCHANGED <<queue, caller, poll>>
        BY <3>2 DEF Broadcast, MineApproval, MineBurn, MineReverted, Mine
      <4> QED BY <1>1, <4>1, QueueLooks, OutsideLooks
    <3> QED BY <2>4, <3>1, <3>2
  <2>5. ASSUME HeadMovesOn \/ \E x \in Tx, r \in Records : BurnElsewhere(x, r) PROVE LInv'
    <3>1. UNCHANGED <<queue, caller, poll>>
      BY <2>5 DEF HeadMovesOn, BurnElsewhere
    <3> QED BY <1>1, <3>1, QueueLooks, OutsideLooks
  <2>6. ASSUME NEW p \in Pollers, CycleStart(p) PROVE LInv'
    BY <1>1, <2>6, CycleLooks
  <2>7. ASSUME NEW p \in Pollers, NEW r \in Records,
               \/ ReadAllowance(p, r) \/ ReadNonce(p, r)   \/ ReadDeposits(p, r)
               \/ ReadReceipt(p, r)   \/ ReadUnknown(p, r) \/ ApplyDecision(p, r)
        PROVE  LInv'
    BY <1>1, <2>7, ReadLooks, ApplyLooks
  <2> QED BY <1>2, <2>1, <2>2, <2>3, <2>4, <2>5, <2>6, <2>7 DEF Other
<1>3. ASSUME NEW r \in Records, NewAttempt(r) PROVE LInv'
  BY <1>1, <1>3, StartLooks DEF NewAttempt, StartApprove, StartBurn
<1>4. CASE UNCHANGED vars
  BY <1>1, <1>4, QueueLooks, OutsideLooks DEF vars
<1> QED BY <1>2, <1>3, <1>4 DEF Next

\* A transfer waits for its attestation only if the wallet has burned what it
\* says, to the recipient it says: also when burns have failed or were made from
\* another device, and however late a decision of the loop is applied.
THEOREM SendWaitsForABurn ==
  Spec => [](\A r \in Records : queue[r].stage = "waiting_attestation" => Deposits(r) # {})
<1>1. LInv => \A r \in Records : queue[r].stage = "waiting_attestation" => Deposits(r) # {}
  BY DEF LInv, HashLooks
<1> QED BY <1>1, TInvInit, TInvStep, LooksInit, LooksStep, PTL DEF Spec

\* A transfer waits for its attestation only if the wallet has burned what it
\* says, and while nothing failed or was burned elsewhere it names its own landed
\* burn.
THEOREM SendSentHasLanded == PromptSpec => []SentHasLanded
<1>1. TInv /\ LInv /\ [PromptNext]_vars => LInv'
  BY LooksStep DEF PromptNext, Next
<1>2. BurnInv /\ LInv => SentHasLanded
  <2> SUFFICES ASSUME BurnInv, LInv, NEW r \in Records, queue[r].stage = "waiting_attestation"
               PROVE  /\ Deposits(r) # {}
                      /\ Clean => \E x \in Burns(r) : sends[x].status = "success" /\ queue[r].sourceTx = x
    BY DEF SentHasLanded
  <2>1. Deposits(r) # {}
    BY DEF LInv, HashLooks
  <2>2. Clean => queue[r].sourceTx \in Burns(r) /\ sends[queue[r].sourceTx].status = "success"
    BY DEF BurnInv, BInv, RecordsOK, HashOK, Effective
  <2> QED BY <2>1, <2>2
<1> QED BY <1>1, <1>2, PromptInv, LooksInit, PTL DEF PromptSpec

(***************************************************************************)
(* What waits for its attestation is not written again.                    *)
(***************************************************************************)
Stays(r) == queue[r].stage = "waiting_attestation" => queue'[r] = queue[r]

LEMMA WriteStays ==
  ASSUME TInv, NEW r \in Records, NEW new \in Record, Writes(r, new),
         queue[r].stage = "waiting_attestation" => new = queue[r]
  PROVE  \A s \in Records : Stays(s)
<1>1. /\ \A s \in Records \ {r} : queue'[s] = queue[s]
      /\ queue'[r] \in {queue[r], new}
  BY WriteOne DEF TInv, TypeOK
<1> QED BY <1>1 DEF Stays

\* The burn of a waiting transfer is the one its record names.
LEMMA WaitingNames ==
  ASSUME BInv, NEW r \in Records, queue[r].stage = "waiting_attestation"
  PROVE  \A x \in Effective(r) : queue[r].sourceTx = x /\ sends[x].status = "success"
<1>1. OwnerOK(r) /\ HashOK(r)
  BY DEF BInv, RecordsOK
<1> QED BY <1>1 DEF OwnerOK, HashOK

\* What an invocation tells of its record while that one waits: it burned, and
\* its burn is the one named.
LEMMA WaitingCaller ==
  ASSUME TInv, BInv, NEW c \in Callers, NEW r \in Records,
         caller[c].pc # "idle", caller[c].rec = r,
         queue[r].stage = "waiting_attestation"
  PROVE  /\ caller[c].kind = "burn" /\ caller[c].pc \in {"prompt", "receipt"}
         /\ queue[r].sourceTx = caller[c].tx
         /\ sends[caller[c].tx].status = "success"
<1>1. WorkOK(c, r)
  BY DEF BInv, WorksOK
<1>2. /\ caller[c].kind \in {"approve", "burn"}
      /\ caller[c].pc \in {"idle", "prepare", "attempt", "prompt", "receipt"}
  BY CallerFacts DEF TInv, TypeOK, CallerState
<1>3. caller[c].kind = "burn" /\ caller[c].pc \in {"prompt", "receipt"}
  BY <1>1, <1>2 DEF WorkOK, ApproveStages
<1>4. caller[c].tx \in Effective(r)
  BY <1>1, <1>3 DEF WorkOK
<1> QED BY <1>3, <1>4, WaitingNames

LEMMA StoreHashStays ==
  ASSUME TInv, BInv, NEW c \in Callers, NEW r \in Records, NEW x \in Tx,
         caller[c].pc # "idle", caller[c].rec = r, caller[c].tx = x, StoreHash(c, x)
  PROVE  \A s \in Records : Stays(s)
<1> DEFINE new == IF caller[c].kind = "approve" THEN [queue[r] EXCEPT !.approvalTx = x]
                                                ELSE [queue[r] EXCEPT !.sourceTx = x]
<1>1. new \in Record
  BY ZenonT(40) DEF TInv, TypeOK, Record
<1>2. Writes(r, new)
  BY DEF StoreHash, Writes
<1>3. ASSUME queue[r].stage = "waiting_attestation" PROVE new = queue[r]
  <2>1. caller[c].kind = "burn" /\ queue[r].sourceTx = x /\ queue[r] \in Record
    BY <1>3, WaitingCaller DEF TInv, TypeOK
  <2> QED BY <2>1 DEF Record
<1> HIDE DEF new
<1> QED BY <1>1, <1>2, <1>3, WriteStays

LEMMA ReleaseStays ==
  ASSUME TInv, BInv, NEW c \in Callers, NEW r \in Records,
         caller[c].pc # "idle", caller[c].rec = r, Release(c),
         caller[c].pc = "prepare" \/ sends[caller[c].tx].status = "prompt"
  PROVE  \A s \in Records : Stays(s)
<1> DEFINE new == [queue[r] EXCEPT !.stage = caller[c].prev]
<1>1. new \in Record
  BY CallerFacts DEF Record, Stage
<1>2. Writes(r, new)
  BY DEF Release, Writes
<1>3. queue[r].stage # "waiting_attestation"
  BY WaitingCaller
<1> HIDE DEF new
<1> QED BY <1>1, <1>2, <1>3, WriteStays

LEMMA RequestStays ==
  ASSUME TInv, BInv, NEW c \in Callers, NEW x \in Tx, RequestWallet(c, x)
  PROVE  \A s \in Records : Stays(s)
<1>1. PICK r \in Records : caller[c].rec = r
  BY CallerFacts DEF RequestWallet
<1> DEFINE k   == caller[c].kind
           new == [queue[r] EXCEPT !.attempt = caller[c].attempt,
                                   !.approvalTx = IF k = "approve" THEN None ELSE @,
                                   !.sourceTx = IF k = "burn" THEN None ELSE @]
<1>2. new \in Record
  <2>1. caller[c].attempt \in Attempt /\ queue[r] \in Record
    BY DEF TInv, TypeOK, CallerOK, RequestWallet
  <2> QED BY <2>1 DEF Record
<1>3. Writes(r, new)
  BY <1>1 DEF RequestWallet, Writes
<1>4. queue[r].stage # "waiting_attestation"
  BY <1>1, WaitingCaller DEF RequestWallet
<1> HIDE DEF new
<1> QED BY <1>2, <1>3, <1>4, WriteStays

LEMMA ReceiptStays ==
  ASSUME TInv, BInv, NEW c \in Callers,
         ReceiptSuccess(c) \/ ReceiptReverted(c) \/ ReceiptUnknown(c)
  PROVE  \A s \in Records : Stays(s)
<1> DEFINE x == caller[c].tx
<1>1. caller[c].pc = "receipt"
  BY DEF ReceiptSuccess, ReceiptReverted, ReceiptUnknown
<1>2. PICK r \in Records : caller[c].rec = r
  BY <1>1, CallerFacts
<1>3. x \in Tx /\ queue[r] \in Record
  BY <1>1, <1>2, CallerFacts
<1>4. ASSUME StoreHash(c, x) PROVE \A s \in Records : Stays(s)
  BY <1>1, <1>2, <1>3, <1>4, StoreHashStays
<1>5. CASE ReceiptUnknown(c)
  BY <1>4, <1>5 DEF ReceiptUnknown
<1>6. CASE ReceiptReverted(c)
  <2> DEFINE new == IF caller[c].kind = "approve"
           THEN [queue[r] EXCEPT !.stage = "approval_required", !.approvalTx = None]
           ELSE [queue[r] EXCEPT !.stage = caller[c].prev, !.sourceTx = None]
  <2>1. new \in Record
    BY <1>1, <1>3, CallerFacts DEF Record, Stage
  <2>2. Writes(r, new)
    BY <1>2, <1>6 DEF ReceiptReverted, Writes
  <2>3. queue[r].stage # "waiting_attestation"
    BY <1>1, <1>2, <1>6, WaitingCaller DEF ReceiptReverted
  <2> HIDE DEF new
  <2> QED BY <2>1, <2>2, <2>3, WriteStays
<1>7. CASE ReceiptSuccess(c)
  <2> DEFINE next == IF caller[c].kind = "approve" THEN "approved" ELSE "waiting_attestation"
             new == IF caller[c].kind = "approve"
                    THEN [queue[r] EXCEPT !.stage = next, !.approvalTx = x]
                    ELSE [queue[r] EXCEPT !.stage = next, !.sourceTx = x]
  <2>1. CASE CanTransition(queue[r].stage, next)
    <3>1. new \in Record
      BY <1>3 DEF Record, Stage
    <3>2. Writes(r, new)
      BY <1>2, <1>7, <2>1 DEF ReceiptSuccess, Writes
    <3>3. ASSUME queue[r].stage = "waiting_attestation" PROVE new = queue[r]
      <4>1. caller[c].kind = "burn" /\ queue[r].sourceTx = x
        BY <1>1, <1>2, <3>3, WaitingCaller
      <4> QED BY <1>3, <3>3, <4>1 DEF Record
    <3> HIDE DEF new
    <3> QED BY <3>1, <3>2, <3>3, WriteStays
  <2>2. CASE ~CanTransition(queue[r].stage, next)
    BY <1>2, <1>4, <1>7, <2>2 DEF ReceiptSuccess
  <2> QED BY <2>1, <2>2
<1> QED BY <1>5, <1>6, <1>7

LEMMA ApplyStays ==
  ASSUME TInv, BInv, NEW p \in Pollers, NEW r \in Records, ApplyDecision(p, r)
  PROVE  \A s \in Records : Stays(s)
<1> DEFINE d == poll[p][r]
           found == [queue[r] EXCEPT !.sourceTx = d.tx]
           settled == Settled(r, d.snap, d.decision)
<1>1. /\ d.pc = "apply" /\ d.decision \in Decision /\ queue[r] \in Record /\ d \in PollState
      /\ d.snap.stage \in {"approving", "burning"}
  BY DEF TInv, TypeOK, PollOK, ApplyDecision
<1>2. EvidenceOK(p, r)
  BY DEF BInv, EvidencesOK
<1>3. queue[r].stage = "waiting_attestation" => d.snap.stage = "burning"
  BY <1>1, <1>2 DEF EvidenceOK, ApproveStages
<1>4. CASE d.decision = "found"
  <2>1. found \in Record
    BY <1>1 DEF Record, PollState
  <2>2. Writes(r, found)
    BY <1>4 DEF ApplyDecision, Writes
  <2>3. ASSUME queue[r].stage = "waiting_attestation" PROVE found = queue[r]
    <3>1. queue[r].sourceTx = d.tx
      BY <1>1, <1>2, <1>4, <2>3, WaitingNames DEF EvidenceOK
    <3> QED BY <1>1, <3>1 DEF Record
  <2> HIDE DEF found
  <2> QED BY <2>1, <2>2, <2>3, WriteStays
<1>5. CASE d.decision # "found"
  <2>1. settled \in Record
    BY <1>1, <1>5 DEF Settled, ConfirmedStage, Decision, Record, Stage
  <2>2. Writes(r, settled)
    BY <1>5 DEF ApplyDecision, Writes
  <2>3. ASSUME queue[r].stage = "waiting_attestation" PROVE settled = queue[r]
    <3>1. d.snap.stage = "burning" /\ d.decision = "success"
      BY <1>1, <1>2, <1>3, <1>5, <2>3 DEF EvidenceOK
    <3>2. settled = [queue[r] EXCEPT !.stage = "waiting_attestation"]
      BY <3>1 DEF Settled, ConfirmedStage
    <3> QED BY <1>1, <2>3, <3>2 DEF Record
  <2> HIDE DEF settled
  <2> QED BY <2>1, <2>2, <2>3, WriteStays
<1> QED BY <1>4, <1>5

\* The stage an import writes is the one a waiting transfer has.
LEMMA ImportStays ==
  ASSUME TInv, NEW x \in Tx, Import(x)
  PROVE  \A s \in Records : Stays(s)
<1>1. CASE queue' = queue
  BY <1>1 DEF Stays
<1>2. CASE queue' # queue
  <2>1. PICK r \in Records, new \in Record :
          /\ new = [queue[r] EXCEPT !.stage = "waiting_attestation"]
          /\ Writes(r, new)
    BY <1>2, ImportWrites
  <2>2. ASSUME queue[r].stage = "waiting_attestation" PROVE new = queue[r]
    <3>1. queue[r] \in Record
      BY DEF TInv, TypeOK
    <3> QED BY <2>1, <2>2, <3>1 DEF Record
  <2> QED BY <2>1, <2>2, WriteStays
<1> QED BY <1>1, <1>2

\* Any step at all, prompt or not: what has gone wrong by a late decision has
\* gone wrong before.
LEMMA SentStays ==
  ASSUME TInv, BInv, Next
  PROVE  \A s \in Records : Stays(s)
<1>1. ASSUME queue' = queue PROVE \A s \in Records : Stays(s)
  BY <1>1 DEF Stays
<1>2. CASE Other
  <2>1. ASSUME NEW r \in Records, NEW b \in BOOLEAN, CreatePlan(r, b)
        PROVE  \A s \in Records : Stays(s)
    BY <2>1 DEF CreatePlan, Stays, TInv, TypeOK
  <2>2. ASSUME NEW c \in Callers, NEW x \in Tx, RequestWallet(c, x)
        PROVE  \A s \in Records : Stays(s)
    BY <2>2, RequestStays
  <2>3. ASSUME NEW c \in Callers,
               \/ PrepareFails(c)    \/ ReadAttempt(c)    \/ WalletRejects(c)
               \/ WalletLost(c)      \/ WalletAnswers(c)  \/ ReceiptSuccess(c)
               \/ ReceiptReverted(c) \/ ReceiptUnknown(c) \/ TabCloses(c)
        PROVE  \A s \in Records : Stays(s)
    <3>1. CASE ReadAttempt(c) \/ WalletLost(c) \/ TabCloses(c)
      BY <1>1, <3>1 DEF ReadAttempt, WalletLost, TabCloses
    <3>2. CASE PrepareFails(c) \/ WalletRejects(c)
      BY <3>2, CallerFacts, ReleaseStays DEF PrepareFails, WalletRejects
    <3>3. CASE WalletAnswers(c)
      BY <3>3, CallerFacts, StoreHashStays DEF WalletAnswers
    <3>4. CASE ReceiptSuccess(c) \/ ReceiptReverted(c) \/ ReceiptUnknown(c)
      BY <3>4, ReceiptStays
    <3> QED BY <2>3, <3>1, <3>2, <3>3, <3>4
  <2>4. ASSUME NEW x \in Tx,
               \/ Broadcast(x)    \/ MineApproval(x) \/ MineBurn(x)
               \/ MineReverted(x) \/ Import(x)
        PROVE  \A s \in Records : Stays(s)
    BY <1>1, <2>4, ImportStays DEF Broadcast, MineApproval, MineBurn, MineReverted, Mine
  <2>5. ASSUME NEW p \in Pollers, CycleStart(p)
        PROVE  \A s \in Records : Stays(s)
    BY <1>1, <2>5 DEF CycleStart
  <2>6. ASSUME NEW p \in Pollers, NEW r \in Records,
               \/ ReadAllowance(p, r) \/ ReadNonce(p, r)   \/ ReadDeposits(p, r)
               \/ ReadReceipt(p, r)   \/ ReadUnknown(p, r) \/ ApplyDecision(p, r)
        PROVE  \A s \in Records : Stays(s)
    BY <1>1, <2>6, ApplyStays
       DEF ReadAllowance, ReadNonce, ReadDeposits, ReadReceipt, ReadUnknown
  <2>7. ASSUME HeadMovesOn \/ \E x \in Tx, r \in Records : BurnElsewhere(x, r)
        PROVE  \A s \in Records : Stays(s)
    BY <1>1, <2>7 DEF HeadMovesOn, BurnElsewhere
  <2> QED BY <1>2, <2>1, <2>2, <2>3, <2>4, <2>5, <2>6, <2>7 DEF Other
<1>3. ASSUME NEW r \in Records, NewAttempt(r) PROVE \A s \in Records : Stays(s)
  BY <1>3 DEF NewAttempt, StartApprove, StartBurn, Start, Stays, TInv, TypeOK
<1> QED BY <1>2, <1>3 DEF Next

\* No late receipt, error path or stale decision rewrites a transfer that waits
\* for its attestation.
THEOREM SendSentIsFinal == PromptSpec => SentIsFinal
<1>1. TInv /\ BurnInv /\ [PromptNext]_vars =>
        [Clean => \A r \in Records :
           queue[r].stage = "waiting_attestation" => queue'[r] = queue[r]]_vars
  BY SentStays DEF PromptNext, Next, BurnInv, Stays
<1> QED BY <1>1, PromptInv, PTL DEF PromptSpec, SentIsFinal

-----------------------------------------------------------------------------
(***************************************************************************)
(* No shared burn, whatever has failed on chain.  One transfer at a time   *)
(* is in work: it is unresolved, an invocation stands in it, or a loop has *)
(* a snapshot of it.  Only that one can receive a hash, so a hash that no  *)
(* other record held when it was learnt is held by no other when it is     *)
(* stored.                                                                 *)
(***************************************************************************)
Called(r) == \E c \in Callers : caller[c].pc # "idle" /\ caller[c].rec = r
Polled(r) == \E p \in Pollers : poll[p][r].pc # "idle"
InWork(r) == Unresolved(r) \/ Called(r) \/ Polled(r)

Used(x) == x \in Tx /\ sends[x].status # "unused"
Free(r, x) == \A s \in Records \ {r} : queue[s].sourceTx # x

Asked(c) == caller[c].pc \in {"prompt", "receipt"} /\ caller[c].kind = "burn"
Found(p, r) == poll[p][r].pc = "apply" /\ poll[p][r].decision = "found"

Focus == \A r, s \in Records : InWork(r) /\ InWork(s) => r = s
AskedOK == \A c \in Callers : Asked(c) => Used(caller[c].tx) /\ Free(caller[c].rec, caller[c].tx)
FoundOK == \A p \in Pollers, r \in Records : Found(p, r) => Used(poll[p][r].tx) /\ Free(r, poll[p][r].tx)
HeldOK == \A r \in Records : queue[r].sourceTx # None => Used(queue[r].sourceTx)

SInv == Focus /\ AskedOK /\ FoundOK /\ HeldOK /\ NoSharedBurn

\* What a step writes as the hash of r: what is there, nothing, or a free hash.
Names(r) ==
  \/ queue'[r].sourceTx \in {queue[r].sourceTx, None}
  \/ InWork(r) /\ Used(queue'[r].sourceTx) /\ Free(r, queue'[r].sourceTx)

\* A request that was made stays made.
Counts == \A x \in Tx : sends[x].status # "unused" => sends'[x].status # "unused"

\* Steps that take no other transfer in work, and after which an invocation or a
\* loop has a hash in hand that was free.
LEMMA SharedStays ==
  ASSUME SInv, Counts,
         \A r \in Records : InWork(r)' => InWork(r),
         \A r \in Records : Names(r),
         \A c \in Callers : Asked(c)' =>
           /\ caller'[c].rec \in Records /\ InWork(caller'[c].rec) /\ Free(caller'[c].rec, caller'[c].tx)
           /\ caller'[c].tx \in Tx /\ sends'[caller'[c].tx].status # "unused",
         \A p \in Pollers, r \in Records : Found(p, r)' => Used(poll'[p][r].tx) /\ Free(r, poll'[p][r].tx)
  PROVE  SInv'
<1>1. Focus'
  BY DEF SInv, Focus
<1>2. ASSUME NEW r \in Records, NEW x \in Tx, InWork(r), Free(r, x)
      PROVE  \A s \in Records \ {r} : queue'[s].sourceTx # x
  <2>1. x # None
    BY SendAssumption
  <2>2. ASSUME NEW s \in Records \ {r}
        PROVE  queue'[s].sourceTx # x
    <3>1. ~InWork(s)
      BY <1>2 DEF SInv, Focus
    <3> QED BY <1>2, <2>1, <3>1 DEF Names, Free
  <2> QED BY <2>2
<1>3. ASSUME NEW x, Used(x)
      PROVE  x \in Tx /\ sends'[x].status # "unused"
  BY <1>3 DEF Used, Counts
<1>4. AskedOK'
  <2>1. ASSUME NEW c \in Callers, Asked(c)'
        PROVE  /\ caller'[c].tx \in Tx /\ sends'[caller'[c].tx].status # "unused"
               /\ \A s \in Records \ {caller'[c].rec} : queue'[s].sourceTx # caller'[c].tx
    BY <1>2, <2>1
  <2> QED BY <2>1 DEF AskedOK, Free, Used
<1>5. FoundOK'
  <2>1. ASSUME NEW p \in Pollers, NEW r \in Records, Found(p, r)'
        PROVE  /\ poll'[p][r].tx \in Tx /\ sends'[poll'[p][r].tx].status # "unused"
               /\ \A s \in Records \ {r} : queue'[s].sourceTx # poll'[p][r].tx
    <3>1. InWork(r)
      <4>1. poll'[p][r].pc # "idle"
        BY <2>1 DEF Found
      <4>2. InWork(r)'
        BY <4>1 DEF InWork, Polled
      <4> QED BY <4>2
    <3>2. Used(poll'[p][r].tx) /\ Free(r, poll'[p][r].tx)
      BY <2>1
    <3> QED BY <1>2, <1>3, <3>1, <3>2
  <2> QED BY <2>1 DEF FoundOK, Free, Used
<1>6. HeldOK'
  <2>1. ASSUME NEW r \in Records, queue'[r].sourceTx # None
        PROVE  queue'[r].sourceTx \in Tx /\ sends'[queue'[r].sourceTx].status # "unused"
    <3>1. Used(queue'[r].sourceTx)
      BY <2>1 DEF Names, SInv, HeldOK
    <3> QED BY <1>3, <3>1
  <2> QED BY <2>1 DEF HeldOK, Used
<1>7. NoSharedBurn'
  <2>1. ASSUME NEW r \in Records, NEW s \in Records, r # s, queue'[r].sourceTx # None,
               queue'[r].sourceTx = queue'[s].sourceTx,
               queue'[r].sourceTx # queue[r].sourceTx
        PROVE  FALSE
    <3>1. InWork(r) /\ Used(queue'[r].sourceTx) /\ Free(r, queue'[r].sourceTx)
      BY <2>1 DEF Names
    <3> QED BY <1>2, <2>1, <3>1 DEF Used
  <2>2. ASSUME NEW r \in Records, NEW s \in Records, r # s, queue'[r].sourceTx # None,
               queue'[r].sourceTx = queue'[s].sourceTx
        PROVE  FALSE
    BY <2>1, <2>2 DEF SInv, NoSharedBurn
  <2> QED BY <2>2 DEF NoSharedBurn
<1> QED BY <1>1, <1>4, <1>5, <1>6, <1>7 DEF SInv

LEMMA SameCounts ==
  ASSUME UNCHANGED sends
  PROVE  Counts
BY DEF Counts

LEMMA StatusCounts ==
  ASSUME TInv, NEW x \in Tx, NEW status, status # "unused", sends' = [sends EXCEPT ![x].status = status]
  PROVE  Counts
BY DEF Counts, TInv, TypeOK, Send

\* A write that opens no step, and whose hash is free, is as it should be for all.
LEMMA WriteNames ==
  ASSUME TInv, NEW r \in Records, NEW new \in Record, Writes(r, new),
         new.stage \notin {"approving", "burning"} \/ new.stage = queue[r].stage,
         \/ new.sourceTx \in {queue[r].sourceTx, None}
         \/ InWork(r) /\ Used(new.sourceTx) /\ Free(r, new.sourceTx)
  PROVE  \A s \in Records : Names(s) /\ (Unresolved(s)' => Unresolved(s))
<1>1. /\ \A s \in Records \ {r} : queue'[s] = queue[s]
      /\ queue'[r] \in {queue[r], new}
  BY WriteOne DEF TInv, TypeOK
<1> QED BY <1>1 DEF Names, Unresolved

LEMMA SameNames ==
  ASSUME UNCHANGED queue
  PROVE  \A s \in Records : Names(s) /\ (Unresolved(s)' => Unresolved(s))
BY DEF Names, Unresolved

(* The page. *)

\* The end of an invocation: no other one is there, and the loops are where they were.
LEMMA EndShared ==
  ASSUME TInv, SInv, Counts, NEW c \in Callers, caller[c].pc # "idle", Finish(c), poll' = poll,
         \A r \in Records : Names(r) /\ (Unresolved(r)' => Unresolved(r))
  PROVE  SInv'
<1>1. \A d \in Callers : caller'[d].pc = "idle"
  BY FinishCallers
<1>2. \A r \in Records : InWork(r)' => InWork(r)
  BY <1>1 DEF InWork, Called, Polled
<1>3. \A d \in Callers : ~Asked(d)'
  BY <1>1 DEF Asked
<1>4. \A p \in Pollers, r \in Records : Found(p, r)' => Used(poll'[p][r].tx) /\ Free(r, poll'[p][r].tx)
  BY DEF SInv, FoundOK, Found
<1> QED BY <1>2, <1>3, <1>4, SharedStays

LEMMA ReleaseNames ==
  ASSUME TInv, NEW c \in Callers, caller[c].pc # "idle", Release(c)
  PROVE  \A s \in Records : Names(s) /\ (Unresolved(s)' => Unresolved(s))
<1> DEFINE new == [queue[caller[c].rec] EXCEPT !.stage = caller[c].prev]
<1>1. new \in Record /\ new.stage = caller[c].prev /\ new.sourceTx = queue[caller[c].rec].sourceTx
  BY CallerFacts DEF Record, Stage
<1>2. Writes(caller[c].rec, new)
  BY DEF Release, Writes
<1> HIDE DEF new
<1> QED BY <1>1, <1>2, CallerFacts, WriteNames

\* The hash of a burn in hand is free.
LEMMA HandNames ==
  ASSUME TInv, SInv, NEW c \in Callers, caller[c].pc \in {"prompt", "receipt"}, NEW new \in Record,
         Writes(caller[c].rec, new),
         new.stage \notin {"approving", "burning"} \/ new.stage = queue[caller[c].rec].stage,
         \/ new.sourceTx \in {queue[caller[c].rec].sourceTx, None}
         \/ caller[c].kind = "burn" /\ new.sourceTx = caller[c].tx
  PROVE  \A s \in Records : Names(s) /\ (Unresolved(s)' => Unresolved(s))
<1>1. caller[c].pc # "idle" /\ caller[c].rec \in Records
  BY CallerFacts
<1>2. InWork(caller[c].rec)
  BY <1>1 DEF InWork, Called
<1>3. caller[c].kind = "burn" => Used(caller[c].tx) /\ Free(caller[c].rec, caller[c].tx)
  BY DEF SInv, AskedOK, Asked
<1> QED BY <1>1, <1>2, <1>3, WriteNames

LEMMA StoreHashNames ==
  ASSUME TInv, SInv, NEW c \in Callers, caller[c].pc \in {"prompt", "receipt"}, StoreHash(c, caller[c].tx)
  PROVE  \A s \in Records : Names(s) /\ (Unresolved(s)' => Unresolved(s))
<1> DEFINE r == caller[c].rec
           new == IF caller[c].kind = "approve" THEN [queue[r] EXCEPT !.approvalTx = caller[c].tx]
                                                ELSE [queue[r] EXCEPT !.sourceTx = caller[c].tx]
<1>1. queue[r] \in Record /\ caller[c].tx \in Tx /\ caller[c].kind \in {"approve", "burn"}
  BY CallerFacts
<1>2. /\ new \in Record /\ new.stage = queue[r].stage
      /\ new.sourceTx = queue[r].sourceTx \/ (caller[c].kind = "burn" /\ new.sourceTx = caller[c].tx)
  BY <1>1 DEF Record
<1>3. Writes(r, new)
  BY DEF StoreHash, Writes
<1> HIDE DEF new
<1> QED BY <1>2, <1>3, HandNames

LEMMA LeaveShared ==
  ASSUME TInv, SInv, NEW c \in Callers,
         PrepareFails(c) \/ WalletRejects(c) \/ WalletLost(c) \/ TabCloses(c)
  PROVE  SInv'
<1>1. caller[c].pc # "idle" /\ Finish(c) /\ poll' = poll
  BY DEF PrepareFails, WalletRejects, WalletLost, TabCloses
<1>2. Counts
  BY DEF Counts, PrepareFails, WalletRejects, WalletLost, TabCloses, chain, TInv, TypeOK, Send
<1>3. Release(c) \/ UNCHANGED queue
  BY DEF PrepareFails, WalletRejects, WalletLost, TabCloses
<1> QED BY <1>1, <1>2, <1>3, ReleaseNames, SameNames, EndShared

LEMMA ReceiptShared ==
  ASSUME TInv, SInv, NEW c \in Callers, ReceiptSuccess(c) \/ ReceiptReverted(c) \/ ReceiptUnknown(c)
  PROVE  SInv'
<1> DEFINE r == caller[c].rec
           x == caller[c].tx
<1>1. caller[c].pc = "receipt" /\ caller[c].pc # "idle" /\ Finish(c) /\ poll' = poll /\ UNCHANGED sends
  BY DEF ReceiptSuccess, ReceiptReverted, ReceiptUnknown, chain
<1>2. /\ queue[r] \in Record /\ x \in Tx /\ caller[c].kind \in {"approve", "burn"}
      /\ caller[c].prev \in {"approval_required", "approved", "ready"}
  BY <1>1, CallerFacts
<1>3. CASE StoreHash(c, x)
  BY <1>1, <1>3, StoreHashNames, SameCounts, EndShared
<1>4. CASE ReceiptReverted(c)
  <2> DEFINE new == IF caller[c].kind = "approve"
                    THEN [queue[r] EXCEPT !.stage = "approval_required", !.approvalTx = None]
                    ELSE [queue[r] EXCEPT !.stage = caller[c].prev, !.sourceTx = None]
  <2>1. /\ new \in Record /\ new.stage \notin {"approving", "burning"}
        /\ new.sourceTx \in {queue[r].sourceTx, None}
    BY <1>2 DEF Record, Stage
  <2>2. Writes(r, new)
    BY <1>4 DEF ReceiptReverted, Writes
  <2> HIDE DEF new
  <2> QED BY <1>1, <2>1, <2>2, HandNames, SameCounts, EndShared
<1>5. CASE ReceiptSuccess(c) /\ ~StoreHash(c, x)
  <2> DEFINE next == IF caller[c].kind = "approve" THEN "approved" ELSE "waiting_attestation"
             new == IF caller[c].kind = "approve" THEN [queue[r] EXCEPT !.stage = next, !.approvalTx = x]
                                                  ELSE [queue[r] EXCEPT !.stage = next, !.sourceTx = x]
  <2>1. /\ new \in Record /\ new.stage \notin {"approving", "burning"}
        /\ new.sourceTx = queue[r].sourceTx \/ (caller[c].kind = "burn" /\ new.sourceTx = x)
    BY <1>2 DEF Record, Stage
  <2>2. queue' = [queue EXCEPT ![r] = new]
    BY <1>5 DEF ReceiptSuccess
  <2>3. Writes(r, new)
    BY <2>2 DEF Writes
  <2> HIDE DEF new
  <2> QED BY <1>1, <2>1, <2>3, HandNames, SameCounts, EndShared
<1> QED BY <1>3, <1>4, <1>5 DEF ReceiptUnknown

\* An invocation goes on; a hash that is new to it is one that no record can hold.
LEMMA GoesShared ==
  ASSUME TInv, SInv, Counts, NEW c \in Callers, caller[c].pc # "idle", NEW new,
         caller' = [caller EXCEPT ![c] = new], new.rec = caller[c].rec, poll' = poll,
         \A r \in Records : Names(r) /\ (Unresolved(r)' => Unresolved(r)),
         new.pc \in {"prompt", "receipt"} /\ new.kind = "burn" =>
           new.tx \in Tx /\ sends'[new.tx].status # "unused" /\ Free(caller[c].rec, new.tx)
  PROVE  SInv'
<1>1. caller'[c] = new /\ \A d \in Callers \ {c} : caller'[d] = caller[d]
  BY DEF TInv, TypeOK
<1>2. \A r \in Records : InWork(r)' => InWork(r)
  BY <1>1 DEF InWork, Called, Polled
<1>3. ASSUME NEW d \in Callers, Asked(d)'
      PROVE  /\ caller'[d].rec \in Records /\ InWork(caller'[d].rec) /\ Free(caller'[d].rec, caller'[d].tx)
             /\ caller'[d].tx \in Tx /\ sends'[caller'[d].tx].status # "unused"
  <2>1. CASE d = c
    <3>1. caller[c].rec \in Records /\ InWork(caller[c].rec)
      BY CallerFacts DEF InWork, Called
    <3> QED BY <1>1, <1>3, <2>1, <3>1 DEF Asked
  <2>2. CASE d # c
    <3>1. caller'[d] = caller[d]
      BY <1>1, <2>2
    <3>2. Asked(d)
      BY <1>3, <3>1 DEF Asked
    <3>3. caller[d].rec \in Records /\ InWork(caller[d].rec)
      BY <3>2, CallerFacts DEF Asked, InWork, Called
    <3>4. Used(caller[d].tx) /\ Free(caller[d].rec, caller[d].tx)
      BY <3>2 DEF SInv, AskedOK
    <3> QED BY <3>1, <3>3, <3>4 DEF Used, Counts
  <2> QED BY <2>1, <2>2
<1>4. \A p \in Pollers, r \in Records : Found(p, r)' => Used(poll'[p][r].tx) /\ Free(r, poll'[p][r].tx)
  BY DEF SInv, FoundOK, Found
<1> QED BY <1>2, <1>3, <1>4, SharedStays

\* What the invocations have in hand, when none of them takes a step.
LEMMA AskedStays ==
  ASSUME TInv, SInv, Counts, UNCHANGED caller
  PROVE  \A d \in Callers : Asked(d)' =>
           /\ caller'[d].rec \in Records /\ InWork(caller'[d].rec) /\ Free(caller'[d].rec, caller'[d].tx)
           /\ caller'[d].tx \in Tx /\ sends'[caller'[d].tx].status # "unused"
<1>1. ASSUME NEW d \in Callers, Asked(d)'
      PROVE  /\ caller[d].rec \in Records /\ InWork(caller[d].rec) /\ Free(caller[d].rec, caller[d].tx)
             /\ caller[d].tx \in Tx /\ sends'[caller[d].tx].status # "unused"
  <2>1. Asked(d)
    BY <1>1 DEF Asked
  <2>2. caller[d].rec \in Records /\ InWork(caller[d].rec)
    BY <2>1, CallerFacts DEF Asked, InWork, Called
  <2>3. Used(caller[d].tx) /\ Free(caller[d].rec, caller[d].tx)
    BY <2>1 DEF SInv, AskedOK
  <2> QED BY <2>2, <2>3 DEF Used, Counts
<1> QED BY <1>1

LEMMA StillShared ==
  ASSUME TInv, SInv, Counts, UNCHANGED <<caller, poll>>,
         \A s \in Records : Names(s) /\ (Unresolved(s)' => Unresolved(s))
  PROVE  SInv'
<1>1. \A s \in Records : InWork(s)' => InWork(s)
  BY DEF InWork, Called, Polled
<1>2. \A q \in Pollers, s \in Records : Found(q, s)' => Used(poll'[q][s].tx) /\ Free(s, poll'[q][s].tx)
  BY DEF SInv, FoundOK, Found
<1> QED BY <1>1, <1>2, AskedStays, SharedStays

LEMMA GoesOnShared ==
  ASSUME TInv, SInv, NEW c \in Callers, ReadAttempt(c) \/ WalletAnswers(c)
  PROVE  SInv'
<1> DEFINE r == caller[c].rec
<1>1. caller[c].pc # "idle" /\ poll' = poll /\ caller[c] \in CallerState
  BY DEF ReadAttempt, WalletAnswers, TInv, TypeOK
<1>2. CASE ReadAttempt(c)
  <2>1. PICK block : caller' = [caller EXCEPT ![c] =
          [@ EXCEPT !.pc = "attempt", !.attempt = [nonce |-> nonce, block |-> block, era |-> era]]]
    BY <1>2 DEF ReadAttempt
  <2> DEFINE attempt == [nonce |-> nonce, block |-> block, era |-> era]
             new == [caller[c] EXCEPT !.pc = "attempt", !.attempt = attempt]
  <2>2. caller' = [caller EXCEPT ![c] = new]
    BY <2>1
  <2> HIDE DEF attempt
  <2>3. new.pc = "attempt" /\ new.rec = r
    BY <1>1 DEF CallerState
  <2>4. UNCHANGED <<queue, sends>>
    BY <1>2 DEF ReadAttempt, chain
  <2> HIDE DEF new
  <2> QED BY <1>1, <2>2, <2>3, <2>4, SameNames, SameCounts, GoesShared
<1>3. CASE WalletAnswers(c)
  <2> DEFINE new == [caller[c] EXCEPT !.pc = "receipt"]
  <2>1. new.rec = r /\ new.tx = caller[c].tx /\ new.kind = caller[c].kind /\ caller[c].pc = "prompt"
    BY <1>1, <1>3 DEF CallerState, WalletAnswers
  <2>2. caller' = [caller EXCEPT ![c] = new] /\ UNCHANGED sends
    BY <1>3 DEF WalletAnswers, chain
  <2> HIDE DEF new
  <2>3. \A s \in Records : Names(s) /\ (Unresolved(s)' => Unresolved(s))
    BY <1>3, <2>1, StoreHashNames DEF WalletAnswers
  <2>4. caller[c].kind = "burn" => Used(caller[c].tx) /\ Free(r, caller[c].tx)
    BY <2>1 DEF SInv, AskedOK, Asked
  <2> QED BY <1>1, <2>1, <2>2, <2>3, <2>4, SameCounts, GoesShared DEF Used
<1> QED BY <1>2, <1>3

LEMMA PageShared ==
  ASSUME TInv, SInv, NEW c \in Callers, NEW x \in Tx, RequestWallet(c, x)
  PROVE  SInv'
<1> DEFINE r == caller[c].rec
<1>1. caller[c].pc # "idle" /\ poll' = poll /\ caller[c] \in CallerState
  BY DEF RequestWallet, TInv, TypeOK
<1> DEFINE k == caller[c].kind
           old == queue[r]
           attempt == caller[c].attempt
           approval == IF k = "approve" THEN None ELSE old.approvalTx
           hash == IF k = "burn" THEN None ELSE old.sourceTx
           rec == [old EXCEPT !.attempt = attempt, !.approvalTx = approval, !.sourceTx = hash]
           new == [caller[c] EXCEPT !.pc = "prompt", !.tx = x]
<1>2. old \in Record /\ attempt \in Attempt /\ r \in Records
  BY <1>1, CallerFacts DEF TInv, CallerOK, RequestWallet
<1>3. approval \in Tx \cup {None} /\ hash \in {old.sourceTx, None} /\ hash \in Tx \cup {None}
  BY <1>2 DEF Record
<1>4. Writes(r, rec)
  BY <1>2 DEF RequestWallet, Writes, Record
<1> HIDE DEF attempt, approval, hash, old
<1>5. rec \in Record /\ rec.stage = old.stage /\ rec.sourceTx = hash
  BY <1>2, <1>3 DEF Record
<1> HIDE DEF rec
<1>6. \A s \in Records : Names(s) /\ (Unresolved(s)' => Unresolved(s))
  BY <1>2, <1>3, <1>4, <1>5, WriteNames DEF old
<1>7. caller' = [caller EXCEPT ![c] = new]
  BY DEF RequestWallet
<1>8. new.pc = "prompt" /\ new.rec = r /\ new.tx = x
  BY <1>1 DEF CallerState
<1> HIDE DEF new, k
<1>9. sends' = [sends EXCEPT ![x] = [kind |-> caller[c].kind, rec |-> r, status |-> "prompt"]]
      /\ sends[x].status = "unused"
  BY DEF RequestWallet
<1>10. Counts /\ sends'[x].status # "unused"
  BY <1>9 DEF Counts, TInv, TypeOK
<1>11. Free(r, x)
  BY <1>9, SendAssumption DEF Free, SInv, HeldOK, Used
<1> QED BY <1>1, <1>6, <1>7, <1>8, <1>10, <1>11, GoesShared

LEMMA PlanShared ==
  ASSUME TInv, SInv, NEW r \in Records, NEW b \in BOOLEAN, CreatePlan(r, b)
  PROVE  SInv'
<1> DEFINE new == [NoRecord EXCEPT !.stage = IF b THEN "approval_required" ELSE "ready"]
<1>1. new \in Record /\ new.stage \notin {"approving", "burning"} /\ new.sourceTx = None
  BY DEF NoRecord, Record, Stage
<1>2. Writes(r, new)
  BY DEF CreatePlan, Writes
<1> HIDE DEF new
<1>3. \A s \in Records : Names(s) /\ (Unresolved(s)' => Unresolved(s))
  BY <1>1, <1>2, WriteNames
<1>4. UNCHANGED <<caller, poll, sends>>
  BY DEF CreatePlan, chain
<1> QED BY <1>3, <1>4, SameCounts, StillShared

\* A new attempt begins when nothing else is in work.
LEMMA StartShared ==
  ASSUME TInv, SInv, PollsSettled, NEW c \in Callers, NEW r \in Records, NEW kind, NEW stages, NEW next,
         Start(c, r, kind, stages, next)
  PROVE  SInv'
<1> DEFINE prev == PreviousStage(r, kind)
           work == [IdleCaller EXCEPT !.pc = "prepare", !.rec = r, !.kind = kind, !.prev = prev]
<1>1. UNCHANGED <<poll, sends>> /\ queue' = [queue EXCEPT ![r].stage = next] /\ NoUnresolvedSend({r})
      /\ caller' = [caller EXCEPT ![c] = work]
  BY DEF Start, chain
<1>2. \A d \in Callers : caller[d].pc = "idle"
  BY SendAssumption DEF TInv, CallerOK, Start
<1> HIDE DEF prev
<1>3. work.pc = "prepare" /\ work.rec = r
  BY DEF IdleCaller
<1> HIDE DEF work
<1>4. caller'[c] = work /\ \A d \in Callers \ {c} : caller'[d] = caller[d]
  BY <1>1 DEF TInv, TypeOK
<1>5. /\ \A s \in Records : queue'[s].sourceTx = queue[s].sourceTx
      /\ \A s \in Records \ {r} : queue'[s] = queue[s]
  BY <1>1 DEF TInv, TypeOK, Record
<1>6. \A s \in Records \ {r} : ~InWork(s)'
  <2>1. ASSUME NEW s \in Records \ {r}
        PROVE  ~InWork(s)'
    <3>1. ~Unresolved(s)'
      BY <1>1, <1>5 DEF Unresolved, NoUnresolvedSend
    <3>2. ~Called(s)'
      BY <1>2, <1>3, <1>4 DEF Called
    <3>3. ~Polled(s)'
      BY <1>1 DEF Polled, PollsSettled
    <3> QED BY <3>1, <3>2, <3>3 DEF InWork
  <2> QED BY <2>1
<1>7. Focus'
  BY <1>6 DEF Focus
<1>8. AskedOK' /\ FoundOK'
  BY <1>1, <1>2, <1>3, <1>4 DEF AskedOK, Asked, FoundOK, Found, PollsSettled
<1>9. HeldOK' /\ NoSharedBurn'
  BY <1>1, <1>5 DEF SInv, HeldOK, NoSharedBurn, Used
<1> QED BY <1>7, <1>8, <1>9 DEF SInv

(* The chain and the loops. *)

LEMMA ChainShared ==
  ASSUME TInv, SInv, NEW x \in Tx, Broadcast(x) \/ MineApproval(x) \/ MineBurn(x) \/ MineReverted(x)
  PROVE  SInv'
<1>1. UNCHANGED <<queue, caller, poll>>
  BY DEF Broadcast, MineApproval, MineBurn, MineReverted, Mine
<1>2. \E status : status # "unused" /\ sends' = [sends EXCEPT ![x].status = status]
  BY DEF Broadcast, MineApproval, MineBurn, MineReverted, Mine
<1>3. Counts
  BY <1>2, StatusCounts
<1> QED BY <1>1, <1>3, SameNames, StillShared

LEMMA OutsideShared ==
  ASSUME TInv, SInv, HeadMovesOn \/ \E x \in Tx, r \in Records : BurnElsewhere(x, r)
  PROVE  SInv'
<1>1. UNCHANGED <<queue, caller, poll>>
  BY DEF HeadMovesOn, BurnElsewhere
<1>2. CASE HeadMovesOn
  BY <1>1, <1>2, SameCounts, SameNames, StillShared DEF HeadMovesOn, chain
<1>3. ASSUME NEW x \in Tx, NEW r \in Records, BurnElsewhere(x, r) PROVE SInv'
  <2>1. Counts
    BY <1>3 DEF Counts, BurnElsewhere, TInv, TypeOK
  <2> QED BY <1>1, <2>1, SameNames, StillShared
<1> QED BY <1>2, <1>3

LEMMA ImportShared ==
  ASSUME TInv, SInv, NEW x \in Tx, Import(x)
  PROVE  SInv'
<1>1. UNCHANGED <<caller, poll, sends>>
  BY DEF Import, chain
<1>2. CASE queue' = queue
  BY <1>1, <1>2, SameCounts, SameNames, StillShared
<1>3. CASE queue' # queue
  <2>1. PICK r \in Records, new \in Record :
          /\ queue[r].sourceTx = x
          /\ new.stage = "waiting_attestation" /\ new.sourceTx = x
          /\ Writes(r, new)
    BY <1>3, ImportWrites
  <2> QED BY <1>1, <2>1, WriteNames, SameCounts, StillShared
<1> QED BY <1>2, <1>3

\* A loop goes on with its record; a hash it has found is one no other record holds.
LEMMA PollShared ==
  ASSUME TInv, SInv, NEW p \in Pollers, NEW r \in Records, poll[p][r].pc # "idle", NEW new,
         poll' = [poll EXCEPT ![p][r] = new],
         UNCHANGED <<caller, sends>>,
         \A s \in Records : Names(s) /\ (Unresolved(s)' => Unresolved(s)),
         new.pc = "apply" /\ new.decision = "found" => Used(new.tx) /\ Free(r, new.tx)
  PROVE  SInv'
<1>1. /\ poll'[p][r] = new
      /\ \A q \in Pollers, s \in Records : q # p \/ s # r => poll'[q][s] = poll[q][s]
  BY DEF TInv, TypeOK
<1>2. \A s \in Records : InWork(s)' => InWork(s)
  BY <1>1 DEF InWork, Called, Polled
<1>3. \A q \in Pollers, s \in Records : Found(q, s)' => Used(poll'[q][s].tx) /\ Free(s, poll'[q][s].tx)
  BY <1>1 DEF SInv, FoundOK, Found
<1> QED BY <1>2, <1>3, AskedStays, SameCounts, SharedStays

LEMMA ReadShared ==
  ASSUME TInv, SInv, NEW p \in Pollers, NEW r \in Records,
         \/ ReadAllowance(p, r) \/ ReadNonce(p, r) \/ ReadDeposits(p, r)
         \/ ReadReceipt(p, r)   \/ ReadUnknown(p, r)
  PROVE  SInv'
<1> DEFINE d == poll[p][r]
           decided(kind, x) == [d EXCEPT !.pc = "apply", !.decision = kind, !.tx = x]
           asks == [d EXCEPT !.pc = "nonce"]
<1>1. d \in PollState /\ d.pc # "idle"
  BY DEF TInv, TypeOK, ReadAllowance, ReadNonce, ReadDeposits, ReadReceipt, ReadUnknown
<1>2. UNCHANGED <<queue, caller, sends>>
  BY DEF ReadAllowance, ReadNonce, ReadDeposits, ReadReceipt, ReadUnknown, chain
<1>3. \A s \in Records : Names(s) /\ (Unresolved(s)' => Unresolved(s))
  BY <1>2, SameNames
<1>4. ASSUME NEW kind, NEW x, Decide(p, r, kind, x), kind = "found" => Used(x) /\ Free(r, x)
      PROVE  SInv'
  <2> DEFINE new == decided(kind, x)
  <2>1. poll' = [poll EXCEPT ![p][r] = new]
    BY <1>4 DEF Decide
  <2>2. new.decision = kind /\ new.tx = x
    BY <1>1 DEF PollState
  <2> HIDE DEF new
  <2> QED BY <1>1, <1>2, <1>3, <1>4, <2>1, <2>2, PollShared
<1>5. CASE ReadDeposits(p, r)
  <2>1. PICK x \in Tx : UnclaimedBurns(r, d.snap.attempt.block) = {x} /\ Decide(p, r, "found", x)
    BY <1>5 DEF ReadDeposits
  <2>2. Used(x) /\ Free(r, x)
    <3>1. x \in Deposits(r) /\ ~Known(r, x)
      BY <2>1 DEF UnclaimedBurns
    <3> QED BY <3>1 DEF Deposits, Known, Used, Free
  <2> QED BY <1>4, <2>1, <2>2
<1>6. CASE ReadReceipt(p, r)
  <2>1. \E kind, x : Decide(p, r, kind, x) /\ kind # "found"
    <3>1. sends[SnapTx(d.snap)].status # "found"
      BY <1>6 DEF ReadReceipt, Mined
    <3> QED BY <1>6, <3>1 DEF ReadReceipt
  <2> QED BY <1>4, <2>1
<1>7. CASE ReadAllowance(p, r) \/ ReadNonce(p, r)
  <2>1. \/ Decide(p, r, "approved", None) \/ Decide(p, r, "not_executed", None)
        \/ poll' = [poll EXCEPT ![p][r] = asks]
    BY <1>7 DEF ReadAllowance, ReadNonce
  <2>2. asks.pc = "nonce"
    BY <1>1 DEF PollState
  <2> HIDE DEF asks
  <2>3. CASE poll' = [poll EXCEPT ![p][r] = asks]
    BY <1>1, <1>2, <1>3, <2>2, <2>3, PollShared
  <2> QED BY <1>4, <2>1, <2>3
<1>8. CASE ReadUnknown(p, r)
  <2>1. poll' = [poll EXCEPT ![p][r] = IdlePoll] /\ IdlePoll.pc = "idle"
    BY <1>8 DEF ReadUnknown, IdlePoll
  <2> QED BY <1>1, <1>2, <1>3, <2>1, PollShared
<1> QED BY <1>5, <1>6, <1>7, <1>8

LEMMA ApplyShared ==
  ASSUME TInv, SInv, NEW p \in Pollers, NEW r \in Records, ApplyDecision(p, r)
  PROVE  SInv'
<1> DEFINE d == poll[p][r]
           found == [queue[r] EXCEPT !.sourceTx = d.tx]
           settled == Settled(r, d.snap, d.decision)
<1>1. /\ d.pc = "apply" /\ d.decision \in Decision /\ queue[r] \in Record /\ d \in PollState
      /\ d.snap.stage \in {"approving", "burning"}
  BY DEF TInv, TypeOK, PollOK, ApplyDecision
<1>2. UNCHANGED <<caller, sends>>
  BY DEF ApplyDecision, chain
<1>3. \A s \in Records : Names(s) /\ (Unresolved(s)' => Unresolved(s))
  <2>1. CASE d.decision = "found"
    <3>1. found \in Record /\ found.stage = queue[r].stage /\ found.sourceTx = d.tx
      BY <1>1 DEF Record, PollState
    <3>2. Writes(r, found)
      BY <2>1 DEF ApplyDecision, Writes
    <3> HIDE DEF found
    <3>3. InWork(r) /\ Used(d.tx) /\ Free(r, d.tx)
      BY <1>1, <2>1 DEF SInv, FoundOK, Found, InWork, Polled
    <3> QED BY <3>1, <3>2, <3>3, WriteNames
  <2>2. CASE d.decision # "found"
    <3>1. /\ settled \in Record /\ settled.stage \notin {"approving", "burning"}
          /\ settled.sourceTx \in {queue[r].sourceTx, None}
      BY <1>1, <2>2, ZenonT(40) DEF Settled, ConfirmedStage, Decision, Record, Stage
    <3>2. Writes(r, settled)
      BY <2>2 DEF ApplyDecision, Writes
    <3> HIDE DEF settled
    <3> QED BY <3>1, <3>2, WriteNames
  <2> QED BY <2>1, <2>2
<1>4. poll' = [poll EXCEPT ![p][r] = IdlePoll] /\ IdlePoll.pc = "idle"
  BY DEF ApplyDecision, IdlePoll
<1> QED BY <1>1, <1>2, <1>3, <1>4, PollShared

LEMMA CycleShared ==
  ASSUME TInv, SInv, NEW p \in Pollers, CycleStart(p)
  PROVE  SInv'
<1>1. PICK batch \in SUBSET Recoverable :
        poll' = [poll EXCEPT ![p] = [r \in Records |->
          IF r \in batch THEN [IdlePoll EXCEPT !.pc = "read", !.snap = queue[r]]
                         ELSE IdlePoll]]
  BY DEF CycleStart
<1>2. UNCHANGED <<queue, caller, sends>>
  BY DEF CycleStart, chain
<1>3. \A q \in Pollers \ {p} : poll'[q] = poll[q]
  BY <1>1 DEF TInv, TypeOK
<1>4. \A r \in Records : poll'[p][r].pc # "idle" => poll'[p][r].pc = "read" /\ Unresolved(r)
  BY <1>1 DEF TInv, TypeOK, IdlePoll, Recoverable
<1>5. \A r \in Records : InWork(r)' => InWork(r)
  BY <1>2, <1>3, <1>4 DEF InWork, Unresolved, Called, Polled
<1>6. \A q \in Pollers, s \in Records : Found(q, s)' => Used(poll'[q][s].tx) /\ Free(s, poll'[q][s].tx)
  BY <1>3, <1>4 DEF SInv, FoundOK, Found
<1> QED BY <1>2, <1>5, <1>6, AskedStays, SameNames, SameCounts, SharedStays

LEMMA SharedInit == Init => SInv
BY DEF Init, SInv, Focus, AskedOK, FoundOK, HeldOK, NoSharedBurn, InWork, Unresolved, Called, Polled, Asked, Found,
       NoRecord, IdleCaller, IdlePoll

LEMMA SharedStep == TInv /\ SInv /\ [PromptNext]_vars => SInv'
<1> SUFFICES ASSUME TInv, SInv, [PromptNext]_vars PROVE SInv'
  OBVIOUS
<1>1. CASE Other
  <2>1. ASSUME NEW c \in Callers, NEW x \in Tx, RequestWallet(c, x) PROVE SInv'
    BY <2>1, PageShared
  <2>2. ASSUME NEW c \in Callers, ReadAttempt(c) \/ WalletAnswers(c) PROVE SInv'
    BY <2>2, GoesOnShared
  <2>3. ASSUME NEW c \in Callers,
               \/ PrepareFails(c)    \/ WalletRejects(c)  \/ WalletLost(c)      \/ TabCloses(c)
               \/ ReceiptSuccess(c)  \/ ReceiptReverted(c) \/ ReceiptUnknown(c)
        PROVE  SInv'
    BY <2>3, LeaveShared, ReceiptShared
  <2>4. ASSUME NEW p \in Pollers, NEW r \in Records,
               \/ ReadAllowance(p, r) \/ ReadNonce(p, r)   \/ ReadDeposits(p, r)
               \/ ReadReceipt(p, r)   \/ ReadUnknown(p, r) \/ ApplyDecision(p, r)
        PROVE  SInv'
    BY <2>4, ReadShared, ApplyShared
  <2>5. ASSUME NEW x \in Tx,
               \/ Broadcast(x)    \/ MineApproval(x) \/ MineBurn(x)
               \/ MineReverted(x) \/ Import(x)
        PROVE  SInv'
    BY <2>5, ChainShared, ImportShared
  <2> QED BY <1>1, <2>1, <2>2, <2>3, <2>4, <2>5, PlanShared, OutsideShared, CycleShared DEF Other
<1>2. ASSUME NEW r \in Records, NewAttempt(r), PollsSettled PROVE SInv'
  BY <1>2, StartShared DEF NewAttempt, StartApprove, StartBurn
<1>3. CASE UNCHANGED vars
  BY <1>3, SameNames, SameCounts, StillShared DEF vars
<1> QED BY <1>1, <1>2, <1>3 DEF PromptNext

\* Two transfers of the same amount never hold the same burn, even after a burn
\* has failed on chain and the records are no longer certain.
THEOREM SendNoSharedBurn == PromptSpec => []NoSharedBurn
<1>1. TInv /\ [PromptNext]_vars => TInv'
  BY TInvStep DEF PromptNext, Next
<1>2. SInv => NoSharedBurn
  BY DEF SInv
<1> QED BY <1>1, <1>2, TInvInit, SharedInit, SharedStep, PTL DEF PromptSpec
=============================================================================
