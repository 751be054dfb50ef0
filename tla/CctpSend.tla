------------------------------ MODULE CctpSend ------------------------------
(***************************************************************************)
(* The source-chain half of an EVM CCTP transfer: approve() and burn() of  *)
(* useMainnetCctp, and the recovery poll of useMainnetTransferQueue that   *)
(* settles a send whose outcome the page never learnt.                     *)
(*                                                                         *)
(* One wallet on one source chain.  A caller is one invocation context of  *)
(* the hook (a tab, or a second click in the same tab); a poller is the    *)
(* recovery loop of one tab.  All of them share the persistent queue.  The *)
(* wallet and the chain are external: a request may be refused, answered   *)
(* with a hash, or lost, and a lost request may still be broadcast later.  *)
(***************************************************************************)
EXTENDS TransferQueue, FiniteSets

CONSTANTS
  Records,          \* ids of transfer records
  Callers,          \* contexts that may call approve() or burn()
  Pollers,          \* recovery loops, one per tab
  Tx,               \* wallet requests; |Tx| bounds how many are made
  None,             \* "undefined": no hash, no caller, no evidence
  Amount,           \* Amount[r]: what a deposit of r shows on chain, the
                    \*   destination and the recipient included
  InitialAllowance, \* what the token messenger may already spend
  BatchSize,        \* records one recovery cycle inspects
  MaxMoves,         \* how often the head may move on beyond a search
  MaxElsewhere      \* how many burns the wallet may make from another device

ASSUME SendAssumption ==
  /\ Amount \in [Records -> Nat \ {0}]
  /\ InitialAllowance \in Nat
  /\ BatchSize \in Nat \ {0}
  /\ None \notin Callers \cup Tx \cup {"approve", "burn", "elsewhere"}

VARIABLES
  queue,     \* localStorage: the record of every id
  sendLock,  \* navigator.locks "machina-cctp-send:<wallet>"
  caller,    \* where every approve()/burn() invocation stands
  poll,      \* poll[p][r]: where loop p stands with record r
  sends,     \* what became of every wallet request
  minedAt,   \* the account nonce a mined request consumed; 0 while not mined
  nonce,     \* mined transactions of the wallet
  allowance, \* ERC-20 allowance of the token messenger
  imported,  \* burns that have a record made by an import of their hash
  era        \* how often the head has moved on by more than a search covers

chain == <<sends, minedAt, nonce, allowance>>
vars  == <<queue, sendLock, caller, poll, sends, minedAt, nonce, allowance,
           imported, era>>

(***************************************************************************)
(* Values.                                                                 *)
(***************************************************************************)
Attempt == [nonce : Nat, block : Nat, era : Nat]

Record == [stage : Stage, approvalTx : Tx \cup {None},
           sourceTx : Tx \cup {None}, attempt : Attempt \cup {None}]

CallerState ==
  [pc : {"idle", "prepare", "attempt", "prompt", "receipt"},
   rec : Records \cup {None}, kind : {"approve", "burn", None},
   tx : Tx \cup {None}, prev : {"approval_required", "approved", "ready", None},
   attempt : Attempt \cup {None}]

PollState ==
  [pc : {"idle", "read", "nonce", "apply"}, snap : Record,
   decision : {"approved", "not_executed", "found", "success", "reverted", None},
   tx : Tx \cup {None}]

\* A request that may still reach the chain.
Live == {"prompt", "limbo", "pending"}

\* "elsewhere" is a deposit that the wallet made from another browser or device,
\* for the amount, destination and recipient of transfer rec.
Send == [kind : {"approve", "burn", "elsewhere", None}, rec : Records \cup {None},
         status : Live \cup {"unused", "rejected", "success", "reverted"}]

NoRecord == [stage |-> "none", approvalTx |-> None, sourceTx |-> None,
             attempt |-> None]

IdleCaller == [pc |-> "idle", rec |-> None, kind |-> None, tx |-> None,
               prev |-> None, attempt |-> None]

IdlePoll == [pc |-> "idle", snap |-> NoRecord, decision |-> None, tx |-> None]

UnusedTx == [kind |-> None, rec |-> None, status |-> "unused"]

(***************************************************************************)
(* Reads of the queue and of the chain.                                    *)
(***************************************************************************)
Unresolved(r) == queue[r].stage \in {"approving", "burning"}

\* Mutant: looks for open burns only.
NoUnresolvedSend_BurnsOnly(except) ==
  \A r \in Records \ except : queue[r].stage # "burning"

\* assertNoUnresolvedSend(wallet, sourceChainId, exceptId)
NoUnresolvedSend(except) == \A r \in Records \ except : ~Unresolved(r)

\* readSendAttempt accepts the account only without a pending transaction.
NothingPending == \A x \in Tx : sends[x].status # "pending"

\* DepositForBurn events of the wallet that show what r would.
Deposits(r) ==
  {x \in Tx : /\ sends[x].kind \in {"burn", "elsewhere"}
              /\ sends[x].status = "success"
              /\ Amount[sends[x].rec] = Amount[r]}

\* A record of the queue other than r has the hash.
Known(r, x) == \/ x \in imported
               \/ \E other \in Records \ {r} : queue[other].sourceTx = x

\* Mutant: does not ask which burns other records hold.
UnclaimedBurns_Shared(r, from) == {x \in Deposits(r) : minedAt[x] >= from}

\* Mutant: leaves out the block of the attempt and the one after it.
UnclaimedBurns_Late(r, from) ==
  {x \in Deposits(r) : minedAt[x] > from + 1 /\ ~Known(r, x)}

\* The logs since the attempt that match r and that no other record claims.
UnclaimedBurns(r, from) == {x \in Deposits(r) : minedAt[x] >= from /\ ~Known(r, x)}

Mined(x) == sends[x].status \in {"success", "reverted"}

Init ==
  /\ queue = [r \in Records |-> NoRecord]
  /\ sendLock = None
  /\ caller = [c \in Callers |-> IdleCaller]
  /\ poll = [p \in Pollers |-> [r \in Records |-> IdlePoll]]
  /\ sends = [x \in Tx |-> UnusedTx]
  /\ minedAt = [x \in Tx |-> 0]
  /\ nonce = 0
  /\ allowance = InitialAllowance
  /\ imported = {}
  /\ era = 0

(***************************************************************************)
(* The page: createTransferPlan(), approve(), burn().                      *)
(***************************************************************************)
CreatePlan(r, approvalRequired) ==
  /\ queue[r].stage = "none"
  /\ NoUnresolvedSend({})
  /\ queue' = [queue EXCEPT ![r] =
       [NoRecord EXCEPT !.stage = IF approvalRequired THEN "approval_required"
                                                      ELSE "ready"]]
  /\ UNCHANGED <<sendLock, caller, poll, chain, imported, era>>

\* Mutant: keeps the hash that decides, not the stage it decides on.
PreviousStage_Hash(r, kind) ==
  IF kind = "approve" THEN "approval_required"
  ELSE IF queue[r].approvalTx # None THEN queue[r].approvalTx ELSE "ready"

\* Where the step goes back to when nothing was sent.
PreviousStage(r, kind) ==
  IF kind = "approve" THEN "approval_required"
  ELSE IF queue[r].approvalTx # None THEN "approved" ELSE "ready"

\* Up to the first await: the lock, the assertions and the transition.
Start(c, r, kind, stages, next) ==
  /\ caller[c].pc = "idle"
  /\ sendLock = None
  /\ queue[r].stage \in stages
  /\ NoUnresolvedSend({r})
  /\ sendLock' = c
  /\ queue' = [queue EXCEPT ![r].stage = next]
  /\ caller' = [caller EXCEPT ![c] =
       [IdleCaller EXCEPT !.pc = "prepare", !.rec = r, !.kind = kind,
          !.prev = PreviousStage(r, kind)]]
  /\ UNCHANGED <<poll, chain, imported, era>>

StartApprove(c, r) == Start(c, r, "approve", {"approval_required"}, "approving")

\* Mutant: offers a burn whose outcome is open for retry.
StartBurn_Retry(c, r) == Start(c, r, "burn", {"ready", "approved", "burning"}, "burning")

StartBurn(c, r) == Start(c, r, "burn", {"ready", "approved"}, "burning")

\* The invocation returns or throws: the lock callback ends with it.
Finish(c) == /\ sendLock' = None
             /\ caller' = [caller EXCEPT ![c] = IdleCaller]

\* The catch block without a hash: the step goes back to where it was.
Release(c) ==
  LET r == caller[c].rec
  IN  queue' = Transitioned(queue, r, [queue[r] EXCEPT !.stage = caller[c].prev])

\* The catch block with a hash, and the write right after the wallet answered.
StoreHash(c, x) ==
  LET r == caller[c].rec
  IN  queue' = Updated(queue, r,
        IF caller[c].kind = "approve" THEN [queue[r] EXCEPT !.approvalTx = x]
                                      ELSE [queue[r] EXCEPT !.sourceTx = x])

\* The wallet cannot be put on the chain, or the source RPC does not answer,
\* or the account has a pending transaction.
PrepareFails(c) ==
  /\ caller[c].pc = "prepare"
  /\ Release(c)
  /\ Finish(c)
  /\ UNCHANGED <<poll, chain, imported, era>>

\* readSendAttempt: the block is the one the last mined request is in, or a
\* later one without requests of this wallet.
ReadAttempt(c) ==
  /\ caller[c].pc = "prepare"
  /\ NothingPending
  /\ \E block \in {nonce, nonce + 1} :
       caller' = [caller EXCEPT ![c] =
         [@ EXCEPT !.pc = "attempt",
                   !.attempt = [nonce |-> nonce, block |-> block, era |-> era]]]
  /\ UNCHANGED <<queue, sendLock, poll, chain, imported, era>>

\* The attempt is recorded and the wallet is asked, in one synchronous run.
RequestWallet(c, x) ==
  LET r == caller[c].rec
      k == caller[c].kind
  IN  /\ caller[c].pc = "attempt"
      /\ sends[x].status = "unused"
      /\ queue' = Updated(queue, r,
           [queue[r] EXCEPT !.attempt = caller[c].attempt,
                            !.approvalTx = IF k = "approve" THEN None ELSE @,
                            !.sourceTx = IF k = "burn" THEN None ELSE @])
      /\ sends' = [sends EXCEPT ![x] = [kind |-> k, rec |-> r, status |-> "prompt"]]
      /\ caller' = [caller EXCEPT ![c] = [@ EXCEPT !.pc = "prompt", !.tx = x]]
      /\ UNCHANGED <<sendLock, poll, minedAt, nonce, allowance, imported, era>>

\* An explicit refusal: the only error that proves nothing was sent.
WalletRejects(c) ==
  LET x == caller[c].tx
  IN  /\ caller[c].pc = "prompt"
      /\ sends[x].status = "prompt"
      /\ sends' = [sends EXCEPT ![x].status = "rejected"]
      /\ Release(c)
      /\ Finish(c)
      /\ UNCHANGED <<poll, minedAt, nonce, allowance, imported, era>>

\* Mutant: takes every wallet error for a refusal.
WalletLost_Releases(c) ==
  LET x == caller[c].tx
  IN  /\ caller[c].pc = "prompt"
      /\ sends' = [sends EXCEPT ![x].status = IF @ = "prompt" THEN "limbo" ELSE @]
      /\ Release(c)
      /\ Finish(c)
      /\ UNCHANGED <<poll, minedAt, nonce, allowance, imported, era>>

\* Any other wallet error: only lastError is written.
WalletLost(c) ==
  LET x == caller[c].tx
  IN  /\ caller[c].pc = "prompt"
      /\ sends' = [sends EXCEPT ![x].status = IF @ = "prompt" THEN "limbo" ELSE @]
      /\ Finish(c)
      /\ UNCHANGED <<queue, poll, minedAt, nonce, allowance, imported, era>>

WalletAnswers(c) ==
  LET x == caller[c].tx
  IN  /\ caller[c].pc = "prompt"
      /\ sends[x].status \notin {"prompt", "limbo"}
      /\ StoreHash(c, x)
      /\ caller' = [caller EXCEPT ![c].pc = "receipt"]
      /\ UNCHANGED <<sendLock, poll, chain, imported, era>>

\* waitForTransactionReceipt saw success.  A refused transition is caught
\* where the hash is known: the hash is stored and the stage stays.
ReceiptSuccess(c) ==
  LET r == caller[c].rec
      x == caller[c].tx
      next == IF caller[c].kind = "approve" THEN "approved" ELSE "waiting_attestation"
  IN  /\ caller[c].pc = "receipt"
      /\ sends[x].status = "success"
      /\ IF CanTransition(queue[r].stage, next)
         THEN queue' = [queue EXCEPT ![r] =
                IF caller[c].kind = "approve"
                THEN [@ EXCEPT !.stage = next, !.approvalTx = x]
                ELSE [@ EXCEPT !.stage = next, !.sourceTx = x]]
         ELSE StoreHash(c, x)
      /\ Finish(c)
      /\ UNCHANGED <<poll, chain, imported, era>>

\* A revert is final: the step is released and its hash is dropped.
ReceiptReverted(c) ==
  LET r == caller[c].rec
  IN  /\ caller[c].pc = "receipt"
      /\ sends[caller[c].tx].status = "reverted"
      /\ queue' = Transitioned(queue, r,
           IF caller[c].kind = "approve"
           THEN [queue[r] EXCEPT !.stage = "approval_required", !.approvalTx = None]
           ELSE [queue[r] EXCEPT !.stage = caller[c].prev, !.sourceTx = None])
      /\ Finish(c)
      /\ UNCHANGED <<poll, chain, imported, era>>

\* Mutant: writes the locked stage back along with the hash.
ReceiptUnknown_Relocks(c) ==
  LET r == caller[c].rec
  IN  /\ caller[c].pc = "receipt"
      /\ queue' = Updated(queue, r,
           IF caller[c].kind = "approve"
           THEN [queue[r] EXCEPT !.stage = "approving", !.approvalTx = caller[c].tx]
           ELSE [queue[r] EXCEPT !.stage = "burning", !.sourceTx = caller[c].tx])
      /\ Finish(c)
      /\ UNCHANGED <<poll, chain, imported, era>>

\* Mutant: takes a hash for a receipt.
ReceiptUnknown_Confirms(c) ==
  LET r == caller[c].rec
  IN  /\ caller[c].pc = "receipt"
      /\ queue' = Transitioned(queue, r,
           IF caller[c].kind = "approve"
           THEN [queue[r] EXCEPT !.stage = "approved", !.approvalTx = caller[c].tx]
           ELSE [queue[r] EXCEPT !.stage = "waiting_attestation", !.sourceTx = caller[c].tx])
      /\ Finish(c)
      /\ UNCHANGED <<poll, chain, imported, era>>

\* waitForTransactionReceipt gave up; the step stays locked with its hash.
ReceiptUnknown(c) ==
  /\ caller[c].pc = "receipt"
  /\ StoreHash(c, caller[c].tx)
  /\ Finish(c)
  /\ UNCHANGED <<poll, chain, imported, era>>

\* The tab is closed or reloaded: the browser frees the lock, an open wallet
\* request stays with the wallet, the queue stays as last written.
TabCloses(c) ==
  LET x == caller[c].tx
  IN  /\ caller[c].pc # "idle"
      /\ Finish(c)
      /\ IF caller[c].pc = "prompt" /\ sends[x].status = "prompt"
         THEN sends' = [sends EXCEPT ![x].status = "limbo"]
         ELSE UNCHANGED sends
      /\ UNCHANGED <<queue, poll, minedAt, nonce, allowance, imported, era>>

(***************************************************************************)
(* The wallet and the source chain (external).                             *)
(***************************************************************************)
Broadcast(x) ==
  /\ sends[x].status \in {"prompt", "limbo"}
  /\ sends' = [sends EXCEPT ![x].status = "pending"]
  /\ UNCHANGED <<queue, sendLock, caller, poll, minedAt, nonce, allowance, imported, era>>

Mine(x, status) ==
  /\ sends[x].status = "pending"
  /\ sends' = [sends EXCEPT ![x].status = status]
  /\ nonce' = nonce + 1
  /\ minedAt' = [minedAt EXCEPT ![x] = nonce + 1]
  /\ UNCHANGED <<queue, sendLock, caller, poll, imported, era>>

MineApproval(x) ==
  /\ sends[x].kind = "approve"
  /\ Mine(x, "success")
  /\ allowance' = Amount[sends[x].rec]

\* depositForBurn spends the allowance and reverts without it.
MineBurn(x) ==
  /\ sends[x].kind = "burn"
  /\ allowance >= Amount[sends[x].rec]
  /\ Mine(x, "success")
  /\ allowance' = allowance - Amount[sends[x].rec]

MineReverted(x) == Mine(x, "reverted") /\ UNCHANGED allowance

\* The same wallet burns from another browser or device, whose queue is its own.
BurnElsewhere(x, r) ==
  /\ Cardinality({y \in Tx : sends[y].kind = "elsewhere"}) < MaxElsewhere
  /\ sends[x].status = "unused"
  /\ allowance >= Amount[r]
  /\ sends' = [sends EXCEPT ![x] = [kind |-> "elsewhere", rec |-> r, status |-> "success"]]
  /\ nonce' = nonce + 1
  /\ minedAt' = [minedAt EXCEPT ![x] = nonce + 1]
  /\ allowance' = allowance - Amount[r]
  /\ UNCHANGED <<queue, sendLock, caller, poll, imported, era>>

\* So many blocks pass that no search from before reaches the head.
HeadMovesOn ==
  /\ era < MaxMoves
  /\ era' = era + 1
  /\ UNCHANGED <<queue, sendLock, caller, poll, chain, imported>>

(***************************************************************************)
(* Import by source hash (CctpMint models it in full): the record that     *)
(* names the burn goes on from its receipt; without one the burn gets a    *)
(* record of its own, which only adds its hash to the known ones.          *)
(***************************************************************************)
Import(x) ==
  LET known == {r \in Records : queue[r].sourceTx = x}
  IN  /\ sends[x].kind \in {"burn", "elsewhere"} /\ sends[x].status = "success"
      /\ IF known = {}
         THEN imported' = imported \cup {x} /\ UNCHANGED queue
         ELSE /\ \E r \in known : queue' = [queue EXCEPT ![r].stage = "waiting_attestation"]
              /\ UNCHANGED imported
      /\ UNCHANGED <<sendLock, caller, poll, chain, era>>

(***************************************************************************)
(* The recovery loop: one cycle snapshots up to BatchSize records, reads   *)
(* the chain for each of them, and applies what it decided to whatever the *)
(* queue holds by then.                                                    *)
(***************************************************************************)
Recoverable == {r \in Records : Unresolved(r)}

CycleStart(p) ==
  /\ \A r \in Records : poll[p][r].pc = "idle"
  /\ \E batch \in SUBSET Recoverable :
       /\ batch # {}
       /\ Cardinality(batch) <= BatchSize
       /\ Cardinality(batch) = BatchSize \/ batch = Recoverable
       /\ poll' = [poll EXCEPT ![p] = [r \in Records |->
            IF r \in batch THEN [IdlePoll EXCEPT !.pc = "read", !.snap = queue[r]]
                           ELSE IdlePoll]]
  /\ UNCHANGED <<queue, sendLock, caller, chain, imported, era>>

Decide(p, r, decision, x) ==
  poll' = [poll EXCEPT ![p][r] =
    [@ EXCEPT !.pc = "apply", !.decision = decision, !.tx = x]]

SnapLost(snap) == \/ snap.stage = "approving" /\ snap.approvalTx = None
                  \/ snap.stage = "burning" /\ snap.sourceTx = None

SnapTx(snap) == IF snap.stage = "approving" THEN snap.approvalTx ELSE snap.sourceTx

\* reconcileLostSend, approval without a hash: the allowance is read first ...
ReadAllowance(p, r) ==
  LET snap == poll[p][r].snap
  IN  /\ poll[p][r].pc = "read"
      /\ snap.stage = "approving" /\ SnapLost(snap) /\ snap.attempt # None
      /\ IF allowance >= Amount[r]
         THEN Decide(p, r, "approved", None)
         ELSE poll' = [poll EXCEPT ![p][r].pc = "nonce"]
      /\ UNCHANGED <<queue, sendLock, caller, chain, imported, era>>

\* Mutant: asks for one mined transaction more than the attempt's own.
ReadNonce_TwoPast(p, r) ==
  /\ poll[p][r].pc = "nonce"
  /\ nonce > poll[p][r].snap.attempt.nonce + 1
  /\ Decide(p, r, "not_executed", None)
  /\ UNCHANGED <<queue, sendLock, caller, chain, imported, era>>

\* ... and the account nonce in a later request.
ReadNonce(p, r) ==
  /\ poll[p][r].pc = "nonce"
  /\ nonce > poll[p][r].snap.attempt.nonce
  /\ Decide(p, r, "not_executed", None)
  /\ UNCHANGED <<queue, sendLock, caller, chain, imported, era>>

\* reconcileLostSend, burn without a hash: exactly one candidate is adopted, and
\* only by a search whose last window reached the head.  The head and the
\* claimed hashes are read together before the logs, and the logs up to that
\* head no longer change: one step.
ReadDeposits(p, r) ==
  LET snap == poll[p][r].snap
  IN  /\ poll[p][r].pc = "read"
      /\ snap.stage = "burning" /\ SnapLost(snap) /\ snap.attempt # None
      /\ snap.attempt.era = era
      /\ \E x \in Tx : /\ UnclaimedBurns(r, snap.attempt.block) = {x}
                       /\ Decide(p, r, "found", x)
      /\ UNCHANGED <<queue, sendLock, caller, chain, imported, era>>

\* A stored hash: its receipt decides.
ReadReceipt(p, r) ==
  LET snap == poll[p][r].snap
      x == SnapTx(snap)
  IN  /\ poll[p][r].pc = "read"
      /\ ~SnapLost(snap)
      /\ Mined(x)
      /\ Decide(p, r, sends[x].status, x)
      /\ UNCHANGED <<queue, sendLock, caller, chain, imported, era>>

\* Nothing to decide from: the RPC failed, the receipt is not there yet, the
\* evidence is missing or ambiguous, the head is out of reach; or the tab went.
ReadUnknown(p, r) ==
  /\ poll[p][r].pc # "idle"
  /\ poll' = [poll EXCEPT ![p][r] = IdlePoll]
  /\ UNCHANGED <<queue, sendLock, caller, chain, imported, era>>

\* Mutant: the approval's answer copied to the burn.
ConfirmedStage_Approved(snap) == "approved"

\* Where a receipt with status success takes the step.
ConfirmedStage(snap) ==
  IF snap.stage = "approving" THEN "approved" ELSE "waiting_attestation"

\* The record the decision asks for, built on what is stored now.
Settled(r, snap, decision) ==
  CASE decision = "approved" -> [queue[r] EXCEPT !.stage = "approved"]
    [] decision = "not_executed" -> [queue[r] EXCEPT !.stage = "approval_required"]
    [] decision = "success" ->
         [queue[r] EXCEPT !.stage = ConfirmedStage(snap)]
    [] decision = "reverted" /\ snap.stage = "approving" ->
         [queue[r] EXCEPT !.stage = "approval_required", !.approvalTx = None]
    [] decision = "reverted" /\ snap.stage # "approving" ->
         [queue[r] EXCEPT !.stage = IF snap.approvalTx # None THEN "approved" ELSE "ready",
                          !.sourceTx = None]

ApplyDecision(p, r) ==
  LET d == poll[p][r]
  IN  /\ d.pc = "apply"
      /\ queue' = IF d.decision = "found"
                  THEN Updated(queue, r, [queue[r] EXCEPT !.sourceTx = d.tx])
                  ELSE Transitioned(queue, r, Settled(r, d.snap, d.decision))
      /\ poll' = [poll EXCEPT ![p][r] = IdlePoll]
      /\ UNCHANGED <<sendLock, caller, chain, imported, era>>

-----------------------------------------------------------------------------
NewAttempt(r) == \E c \in Callers : StartApprove(c, r) \/ StartBurn(c, r)

Other ==
  \/ \E r \in Records, approvalRequired \in BOOLEAN : CreatePlan(r, approvalRequired)
  \/ \E c \in Callers, x \in Tx : RequestWallet(c, x)
  \/ \E c \in Callers : \/ PrepareFails(c)    \/ ReadAttempt(c)
                        \/ WalletRejects(c)   \/ WalletLost(c)
                        \/ WalletAnswers(c)   \/ ReceiptSuccess(c)
                        \/ ReceiptReverted(c) \/ ReceiptUnknown(c)
                        \/ TabCloses(c)
  \/ \E x \in Tx : \/ Broadcast(x) \/ MineApproval(x)
                   \/ MineBurn(x)  \/ MineReverted(x) \/ Import(x)
  \/ \E x \in Tx, r \in Records : BurnElsewhere(x, r)
  \/ HeadMovesOn
  \/ \E p \in Pollers : CycleStart(p)
  \/ \E p \in Pollers, r \in Records :
       \/ ReadAllowance(p, r) \/ ReadNonce(p, r)   \/ ReadDeposits(p, r)
       \/ ReadReceipt(p, r)   \/ ReadUnknown(p, r) \/ ApplyDecision(p, r)

Next == Other \/ \E r \in Records : NewAttempt(r)

Spec == Init /\ [][Next]_vars

(***************************************************************************)
(* The timing the recovery loop was written for: what a loop has read is   *)
(* applied before the user starts the next attempt.  No code enforces it,  *)
(* and Spec does without it.                                               *)
(***************************************************************************)
PollsSettled == \A p \in Pollers, r \in Records : poll[p][r].pc = "idle"

PromptNext == Other \/ (PollsSettled /\ \E r \in Records : NewAttempt(r))

PromptSpec == Init /\ [][PromptNext]_vars

(***************************************************************************)
(* Fairness.  The loop runs on an interval while a record is recoverable;  *)
(* every RPC request ends (10 s timeout, no retry), so a cycle ends; the   *)
(* source RPC answers again and again, so an answer that is there is       *)
(* eventually read.  Nothing is assumed of the user, the wallet, the page  *)
(* that sent or the chain.                                                 *)
(***************************************************************************)
Fairness ==
  /\ \A p \in Pollers : WF_vars(CycleStart(p))
  /\ \A p \in Pollers, r \in Records :
       /\ SF_vars(ReadAllowance(p, r)) /\ SF_vars(ReadNonce(p, r))
       /\ SF_vars(ReadDeposits(p, r))  /\ SF_vars(ReadReceipt(p, r))
       /\ WF_vars(ReadUnknown(p, r))   /\ SF_vars(ApplyDecision(p, r))

FairSpec == PromptSpec /\ Fairness

(***************************************************************************)
(* Properties.                                                             *)
(***************************************************************************)
\* Every variable has its type: the record of a transfer never holds a stage
\* or an attempt of another shape, and the allowance never goes below zero.
TypeOK ==
  /\ queue \in [Records -> Record]
  /\ sendLock \in Callers \cup {None}
  /\ caller \in [Callers -> CallerState]
  /\ poll \in [Pollers -> [Records -> PollState]]
  /\ sends \in [Tx -> Send]
  /\ minedAt \in [Tx -> Nat]
  /\ nonce \in Nat
  /\ allowance \in Nat
  /\ imported \subseteq Tx
  /\ era \in Nat

Burns(r) == {x \in Tx : sends[x].kind = "burn" /\ sends[x].rec = r}

\* No burn has failed on chain so far, and the wallet has burned nothing from
\* another device.  After a failure, a page that gave up on its receipt may write
\* the dead hash back into the released record, and a loop that polls the next
\* attempt before it is sent decides on that hash.  A deposit from elsewhere that
\* looks like a transfer of the queue is adopted for it.
Clean == \A x \in Tx : /\ sends[x].kind # "elsewhere"
                       /\ sends[x].kind = "burn" => sends[x].status # "reverted"

\* A transfer is asked to burn once: of all its burn requests, across tabs,
\* reloads, lost answers and recovery, at most one can still land or has
\* landed.  (burn() and the recovery of 'burning' records.)
NoSecondBurn ==
  Clean => \A r \in Records : \A x, y \in Burns(r) :
    {sends[x].status, sends[y].status} \subseteq Live \cup {"success"} => x = y

\* While a burn request may still land, its transfer stays in 'burning' and
\* names either no hash or that request's: no decision of a recovery loop and
\* no error path lets go of it.
LiveBurnIsLocked ==
  Clean => \A r \in Records : \A x \in Burns(r) :
    sends[x].status \in Live =>
      queue[r].stage = "burning" /\ queue[r].sourceTx \in {None, x}

\* A burn that landed never drops out of the queue, whoever learns of it first:
\* its transfer waits for it under its hash, or is locked with that hash or none.
LandedBurnIsKept ==
  Clean => \A r \in Records : \A x \in Burns(r) :
    sends[x].status = "success" =>
      \/ queue[r].stage = "burning" /\ queue[r].sourceTx \in {None, x}
      \/ queue[r].stage = "waiting_attestation" /\ queue[r].sourceTx = x

\* A transfer waits for an attestation only if the wallet has burned what it
\* says, to the recipient it says, and while nothing failed or was burned
\* elsewhere it names its own landed burn.  (Which deposit an adoption finds, the
\* logs alone cannot tell.)
SentHasLanded ==
  \A r \in Records : queue[r].stage = "waiting_attestation" =>
    /\ Deposits(r) # {}
    /\ Clean => \E x \in Burns(r) : sends[x].status = "success" /\ queue[r].sourceTx = x

\* A recovery loop never credits one burn to two transfers of the same amount.
NoSharedBurn ==
  \A r, s \in Records :
    queue[r].sourceTx # None /\ queue[r].sourceTx = queue[s].sourceTx => r = s

\* A wallet has at most one transfer whose outcome is open on a chain, even
\* with several tabs, closed tabs and recovery loops at work.
OneUnresolved ==
  \A r, s \in Records : Unresolved(r) /\ Unresolved(s) => r = s

\* A transfer waiting for its attestation is out of the send side's hands: no
\* late receipt, error path or stale decision rewrites it.
SentIsFinal ==
  [][Clean => \A r \in Records :
       queue[r].stage = "waiting_attestation" => queue'[r] = queue[r]]_vars

\* The hash was never learnt, and a search from the attempt ends before the head.
OutOfReach(r) ==
  queue[r].sourceTx = None /\ queue[r].attempt # None /\ queue[r].attempt.era # era

\* A burn that landed reaches 'waiting_attestation' under its own hash, even if
\* the page that sent it never learnt the hash or is gone; or it has a record of
\* its own by an import; or the loop began to look for it too late.
LandedBurnProceeds ==
  \A r \in Records, x \in Tx :
    (x \in Burns(r) /\ sends[x].status = "success")
      ~> \/ queue[r].stage = "waiting_attestation" /\ queue[r].sourceTx = x
         \/ x \in imported \/ OutOfReach(r) \/ ~Clean

\* Once the chain has decided every approval that was requested, the transfer,
\* and with it the wallet, does not stay locked in 'approving'.
ApprovalsDecided(r) ==
  LET approvals == {x \in Tx : sends[x].kind = "approve" /\ sends[x].rec = r}
  IN  approvals # {} /\ \A x \in approvals : Mined(x)

ApprovalSettles ==
  \A r \in Records :
    ApprovalsDecided(r) ~> queue[r].stage # "approving" \/ ~ApprovalsDecided(r)
=============================================================================
