------------------------------ MODULE CctpMint ------------------------------
(***************************************************************************)
(* The destination-chain half of an EVM CCTP transfer: getAttestation()    *)
(* and mint() of useMainnetCctp, the part of the recovery poll of          *)
(* useMainnetTransferQueue that follows a burn, and the import of a burn   *)
(* by its source hash (MainnetTransferRecovery).                           *)
(*                                                                         *)
(* A plan is a record the page created; its burn has landed, but the page  *)
(* may not know the hash.  A recovered record has the burn in its id       *)
(* ("cctp-<chain>-<hash>-<log index>"), so burns double as those ids.      *)
(* The attestation service, the wallet and the chain are external.         *)
(***************************************************************************)
EXTENDS TransferQueue, FiniteSets

CONSTANTS
  Plans,     \* ids of records the page created
  Burns,     \* burns that landed, and the ids of records recovered from them
  BurnOf,    \* BurnOf[r]: the burn of plan r
  Callers,   \* contexts that attest, mint or import
  Pollers,   \* recovery loops, one per tab
  Tx,        \* mint requests; |Tx| bounds how many are made
  None,      \* "undefined"
  BatchSize  \* records one recovery cycle inspects

Records == Plans \cup Burns

ASSUME MintAssumption ==
  /\ BurnOf \in [Plans -> Burns]
  /\ \A r, s \in Plans : BurnOf[r] = BurnOf[s] => r = s
  /\ Plans \cap Burns = {}
  /\ BatchSize \in Nat \ {0}
  /\ None \notin Records \cup Callers \cup Tx

VARIABLES
  queue,     \* localStorage: the record of every id
  mintLock,  \* navigator.locks "machina-cctp-mint:<id>"
  caller,    \* where every invocation stands
  poll,      \* poll[p][r]: where loop p stands with record r
  mints,     \* what became of every mint request
  attested,  \* burns Circle has signed
  used       \* burns whose nonce the destination contract has consumed

vars == <<queue, mintLock, caller, poll, mints, attested, used>>

(***************************************************************************)
(* Values.                                                                 *)
(***************************************************************************)
Evidence == {"waiting_attestation", "ready_to_mint", "complete"}

Record == [stage : Stage, sourceTx : Burns \cup {None},
           mintRequested : BOOLEAN, destinationTx : Tx \cup {None}]

CallerState ==
  [pc : {"idle", "import", "attest", "check", "begin", "prepare", "request",
         "prompt", "receipt", "verify"},
   rec : Records \cup {None}, burn : Burns \cup {None},
   found : Evidence \cup {None}, tx : Tx \cup {None}]

PollState == [pc : {"idle", "read", "apply"}, snap : Record,
              found : Evidence \cup {None}]

\* A mint that may still reach the chain.
Live == {"prompt", "limbo", "pending"}

Mint == [rec : Records \cup {None}, burn : Burns \cup {None},
         status : Live \cup {"unused", "rejected", "success", "reverted"}]

NoRecord == [stage |-> "none", sourceTx |-> None, mintRequested |-> FALSE,
             destinationTx |-> None]

IdleCaller == [pc |-> "idle", rec |-> None, burn |-> None, found |-> None,
               tx |-> None]

IdlePoll == [pc |-> "idle", snap |-> NoRecord, found |-> None]

UnusedTx == [rec |-> None, burn |-> None, status |-> "unused"]

Follows == {"waiting_attestation", "ready_to_mint", "minting"}

\* A mint of the record may have been requested.
MayBeMinting(record) ==
  record.stage = "minting" \/ record.mintRequested \/ record.destinationTx # None

\* inspectMainnetTransferRecovery: the attestation first, then the nonce.
Inspect(b) == IF b \notin attested THEN "waiting_attestation"
              ELSE IF b \in used THEN "complete" ELSE "ready_to_mint"

\* The send side has stored the hash, or has not learnt it yet.
Init ==
  /\ \E known \in SUBSET Plans :
       queue = [r \in Records |->
         IF r \in Burns THEN NoRecord
         ELSE [NoRecord EXCEPT !.stage = "burning",
                 !.sourceTx = IF r \in known THEN BurnOf[r] ELSE None]]
  /\ mintLock = [r \in Records |-> None]
  /\ caller = [c \in Callers |-> IdleCaller]
  /\ poll = [p \in Pollers |-> [r \in Records |-> IdlePoll]]
  /\ mints = [x \in Tx |-> UnusedTx]
  /\ attested = {}
  /\ used = {}

(***************************************************************************)
(* What CctpSend does to a burn that landed.                               *)
(***************************************************************************)
\* The wallet answers the page at last, whatever was imported in the meantime.
LearnHash(r) ==
  /\ r \in Plans /\ queue[r].stage = "burning" /\ queue[r].sourceTx = None
  /\ queue' = [queue EXCEPT ![r].sourceTx = BurnOf[r]]
  /\ UNCHANGED <<mintLock, caller, poll, mints, attested, used>>

ConfirmBurn(r) ==
  /\ queue[r].stage = "burning" /\ queue[r].sourceTx # None
  /\ queue' = [queue EXCEPT ![r].stage = "waiting_attestation"]
  /\ UNCHANGED <<mintLock, caller, poll, mints, attested, used>>

(***************************************************************************)
(* Import by source hash: one inspection, then one write.                  *)
(***************************************************************************)
ReadImport(c, b) ==
  /\ caller[c].pc = "idle"
  /\ caller' = [caller EXCEPT ![c] =
       [IdleCaller EXCEPT !.pc = "import", !.burn = b, !.found = Inspect(b)]]
  /\ UNCHANGED <<queue, mintLock, poll, mints, attested, used>>

\* An import keeps a possible mint locked unless the nonce is consumed.
ImportedStage(old, found) ==
  IF MayBeMinting(old) /\ found # "complete" THEN "minting" ELSE found

\* The record that already names the burn is reused; without one the record
\* gets the id of the burn.  A stored completion is not taken back.
Import(c) ==
  LET b == caller[c].burn
      found == caller[c].found
      known == {r \in Records : queue[r].sourceTx = b}
  IN  /\ caller[c].pc = "import"
      /\ \E r \in IF known = {} THEN {b} ELSE known :
           queue' = IF queue[r].stage = "complete" /\ found # "complete" THEN queue
                    ELSE [queue EXCEPT ![r] =
                      [@ EXCEPT !.stage = ImportedStage(queue[r], found), !.sourceTx = b]]
      /\ caller' = [caller EXCEPT ![c] = IdleCaller]
      /\ UNCHANGED <<mintLock, poll, mints, attested, used>>

(***************************************************************************)
(* getAttestation(): the page asks for it while the record looks ready.    *)
(***************************************************************************)
StartAttest(c, r) ==
  /\ caller[c].pc = "idle"
  /\ queue[r].stage = "ready_to_mint"
  /\ caller' = [caller EXCEPT ![c] =
       [IdleCaller EXCEPT !.pc = "attest", !.rec = r, !.burn = queue[r].sourceTx]]
  /\ UNCHANGED <<queue, mintLock, poll, mints, attested, used>>

\* The page goes on to mint() with what it got, so the caller is free again.
Attest(c) ==
  LET r == caller[c].rec
  IN  /\ caller[c].pc = "attest"
      /\ queue' = IF caller[c].burn \in attested
                  THEN Transitioned(queue, r, [queue[r] EXCEPT !.stage = "ready_to_mint"])
                  ELSE queue
      /\ caller' = [caller EXCEPT ![c] = IdleCaller]
      /\ UNCHANGED <<mintLock, poll, mints, attested, used>>

(***************************************************************************)
(* mint(): everything from here to Finish runs under the lock of the id.   *)
(***************************************************************************)
\* Mutant: trusts the stage alone.
StartMint_StageOnly(c, r) ==
  /\ caller[c].pc = "idle"
  /\ mintLock[r] = None
  /\ queue[r].stage = "ready_to_mint"
  /\ mintLock' = [mintLock EXCEPT ![r] = c]
  /\ caller' = [caller EXCEPT ![c] =
       [IdleCaller EXCEPT !.pc = "check", !.rec = r, !.burn = queue[r].sourceTx]]
  /\ UNCHANGED <<queue, poll, mints, attested, used>>

StartMint(c, r) ==
  /\ caller[c].pc = "idle"
  /\ mintLock[r] = None
  /\ queue[r].stage = "ready_to_mint"
  /\ ~MayBeMinting(queue[r])
  /\ mintLock' = [mintLock EXCEPT ![r] = c]
  /\ caller' = [caller EXCEPT ![c] =
       [IdleCaller EXCEPT !.pc = "check", !.rec = r, !.burn = queue[r].sourceTx]]
  /\ UNCHANGED <<queue, poll, mints, attested, used>>

\* The invocation returns or throws: the lock callback ends with it.
Finish(c) ==
  /\ mintLock' = [r \in Records |-> IF mintLock[r] = c THEN None ELSE mintLock[r]]
  /\ caller' = [caller EXCEPT ![c] = IdleCaller]

\* The two inspections before the wallet is asked.
InspectFor(c, from, to) ==
  /\ caller[c].pc = from
  /\ caller' = [caller EXCEPT ![c] = [@ EXCEPT !.pc = to, !.found = Inspect(caller[c].burn)]]
  /\ UNCHANGED <<queue, mintLock, poll, mints, attested, used>>

Check(c) == InspectFor(c, "check", "begin")

Recheck(c) == InspectFor(c, "prepare", "request")

\* After the first inspection nothing is written unless it says complete or
\* the record may enter 'minting'.
Begin(c) ==
  LET r == caller[c].rec
      found == caller[c].found
  IN  /\ caller[c].pc = "begin"
      /\ queue' = CASE found = "complete" -> Updated(queue, r, [queue[r] EXCEPT !.stage = "complete"])
                    [] found = "ready_to_mint" -> Transitioned(queue, r, [queue[r] EXCEPT !.stage = "minting"])
                    [] OTHER -> queue
      /\ IF found = "ready_to_mint" /\ CanTransition(queue[r].stage, "minting")
         THEN /\ caller' = [caller EXCEPT ![c].pc = "prepare"]
              /\ UNCHANGED mintLock
         ELSE Finish(c)
      /\ UNCHANGED <<poll, mints, attested, used>>

\* The catch block when nothing was asked, or the wallet said no with the
\* error code itself: ready again.  A refused transition throws out of it.
ReleaseMint(c) ==
  LET r == caller[c].rec
  IN  queue' = Transitioned(queue, r,
        [queue[r] EXCEPT !.stage = "ready_to_mint", !.mintRequested = FALSE])

\* An inspection throws before 'minting' was entered.
CheckFails(c) ==
  /\ caller[c].pc = "check"
  /\ Finish(c)
  /\ UNCHANGED <<queue, poll, mints, attested, used>>

\* No gas, a wallet on another chain, an inspection that throws or disagrees.
PrepareFails(c) ==
  /\ \/ caller[c].pc = "prepare"
     \/ caller[c].pc = "request" /\ caller[c].found # "ready_to_mint"
  /\ ReleaseMint(c)
  /\ Finish(c)
  /\ UNCHANGED <<poll, mints, attested, used>>

\* mintRequestedAt is written and the wallet is asked, in one synchronous run.
RequestMint(c, x) ==
  LET r == caller[c].rec
  IN  /\ caller[c].pc = "request" /\ caller[c].found = "ready_to_mint"
      /\ mints[x].status = "unused"
      /\ queue' = Updated(queue, r, [queue[r] EXCEPT !.mintRequested = TRUE])
      /\ mints' = [mints EXCEPT ![x] = [rec |-> r, burn |-> caller[c].burn, status |-> "prompt"]]
      /\ caller' = [caller EXCEPT ![c] = [@ EXCEPT !.pc = "prompt", !.tx = x]]
      /\ UNCHANGED <<mintLock, poll, attested, used>>

WalletRejects(c) ==
  LET x == caller[c].tx
  IN  /\ caller[c].pc = "prompt" /\ mints[x].status = "prompt"
      /\ mints' = [mints EXCEPT ![x].status = "rejected"]
      /\ ReleaseMint(c)
      /\ Finish(c)
      /\ UNCHANGED <<poll, attested, used>>

\* Mutant: takes every wallet error for a refusal.
WalletLost_Releases(c) ==
  LET x == caller[c].tx
  IN  /\ caller[c].pc = "prompt"
      /\ mints' = [mints EXCEPT ![x].status = IF @ = "prompt" THEN "limbo" ELSE @]
      /\ ReleaseMint(c)
      /\ Finish(c)
      /\ UNCHANGED <<poll, attested, used>>

\* Any other wallet error, a refusal wrapped in one included: stays locked.
WalletLost(c) ==
  LET x == caller[c].tx
  IN  /\ caller[c].pc = "prompt"
      /\ \E status \in IF mints[x].status = "prompt" THEN {"limbo", "rejected"}
                       ELSE {mints[x].status} :
           mints' = [mints EXCEPT ![x].status = status]
      /\ Finish(c)
      /\ UNCHANGED <<queue, poll, attested, used>>

StoreHash(c) ==
  LET r == caller[c].rec
  IN  queue' = Updated(queue, r, [queue[r] EXCEPT !.destinationTx = caller[c].tx])

WalletAnswers(c) ==
  /\ caller[c].pc = "prompt"
  /\ mints[caller[c].tx].status \in {"pending", "success", "reverted"}
  /\ StoreHash(c)
  /\ caller' = [caller EXCEPT ![c].pc = "receipt"]
  /\ UNCHANGED <<mintLock, poll, mints, attested, used>>

ReceiptSuccess(c) ==
  /\ caller[c].pc = "receipt" /\ mints[caller[c].tx].status = "success"
  /\ caller' = [caller EXCEPT ![c].pc = "verify"]
  /\ UNCHANGED <<queue, mintLock, poll, mints, attested, used>>

\* A revert is final: the marks of the request are dropped first, and the
\* catch block then releases the step.
ReceiptReverted(c) ==
  LET r == caller[c].rec
      cleared == [queue[r] EXCEPT !.mintRequested = FALSE, !.destinationTx = None]
      q == Updated(queue, r, cleared)
  IN  /\ caller[c].pc = "receipt" /\ mints[caller[c].tx].status = "reverted"
      /\ queue' = Transitioned(q, r, [cleared EXCEPT !.stage = "ready_to_mint"])
      /\ Finish(c)
      /\ UNCHANGED <<poll, mints, attested, used>>

\* The receipt does not come, or the nonce cannot be verified.
OutcomeUnknown(c) ==
  /\ caller[c].pc \in {"receipt", "verify"}
  /\ StoreHash(c)
  /\ Finish(c)
  /\ UNCHANGED <<poll, mints, attested, used>>

\* The nonce is read once more, and the record is completed if its stage still
\* allows it; if not, the catch block stores the hash.
Verify(c) ==
  LET r == caller[c].rec
  IN  /\ caller[c].pc = "verify" /\ Inspect(caller[c].burn) = "complete"
      /\ IF CanTransition(queue[r].stage, "complete")
         THEN queue' = [queue EXCEPT ![r] =
                [@ EXCEPT !.stage = "complete", !.destinationTx = caller[c].tx]]
         ELSE StoreHash(c)
      /\ Finish(c)
      /\ UNCHANGED <<poll, mints, attested, used>>

\* A closed tab: the browser frees its lock, an open request stays with the
\* wallet, the queue stays as last written.
TabCloses(c) ==
  LET x == caller[c].tx
  IN  /\ caller[c].pc # "idle"
      /\ Finish(c)
      /\ IF caller[c].pc = "prompt" /\ mints[x].status = "prompt"
         THEN mints' = [mints EXCEPT ![x].status = "limbo"]
         ELSE UNCHANGED mints
      /\ UNCHANGED <<queue, poll, attested, used>>

(***************************************************************************)
(* Circle, the wallet and the destination chain (external).                *)
(***************************************************************************)
CircleSigns(b) ==
  /\ b \notin attested
  /\ attested' = attested \cup {b}
  /\ UNCHANGED <<queue, mintLock, caller, poll, mints, used>>

\* The same message received from another device.
ReceivedElsewhere(b) ==
  /\ b \in attested \ used
  /\ used' = used \cup {b}
  /\ UNCHANGED <<queue, mintLock, caller, poll, mints, attested>>

Broadcast(x) ==
  /\ mints[x].status \in {"prompt", "limbo"}
  /\ mints' = [mints EXCEPT ![x].status = "pending"]
  /\ UNCHANGED <<queue, mintLock, caller, poll, attested, used>>

\* receiveMessage consumes the nonce; a consumed nonce makes it revert.
MineSuccess(x) ==
  /\ mints[x].status = "pending" /\ mints[x].burn \notin used
  /\ mints' = [mints EXCEPT ![x].status = "success"]
  /\ used' = used \cup {mints[x].burn}
  /\ UNCHANGED <<queue, mintLock, caller, poll, attested>>

MineReverted(x) ==
  /\ mints[x].status = "pending"
  /\ mints' = [mints EXCEPT ![x].status = "reverted"]
  /\ UNCHANGED <<queue, mintLock, caller, poll, attested, used>>

(***************************************************************************)
(* The recovery loop.                                                      *)
(***************************************************************************)
\* Mutant: does not follow a record in 'minting'.
Recoverable_Skips ==
  {r \in Records : queue[r].stage \in Follows \ {"minting"} /\ queue[r].sourceTx # None}

Recoverable == {r \in Records : queue[r].stage \in Follows /\ queue[r].sourceTx # None}

\* Records of the send side may take places of the batch.
CycleStart(p) ==
  /\ \A r \in Records : poll[p][r].pc = "idle"
  /\ \E batch \in SUBSET Recoverable :
       /\ batch # {}
       /\ Cardinality(batch) <= BatchSize
       /\ poll' = [poll EXCEPT ![p] = [r \in Records |->
            IF r \in batch THEN [IdlePoll EXCEPT !.pc = "read", !.snap = queue[r]]
                           ELSE IdlePoll]]
  /\ UNCHANGED <<queue, mintLock, caller, mints, attested, used>>

InspectPolled(p, r) ==
  /\ poll[p][r].pc = "read"
  /\ poll' = [poll EXCEPT ![p][r] =
       [@ EXCEPT !.pc = "apply", !.found = Inspect(poll[p][r].snap.sourceTx)]]
  /\ UNCHANGED <<queue, mintLock, caller, mints, attested, used>>

\* An RPC or the attestation service fails, or the tab goes.
PollFails(p, r) ==
  /\ poll[p][r].pc # "idle"
  /\ poll' = [poll EXCEPT ![p][r] = IdlePoll]
  /\ UNCHANGED <<queue, mintLock, caller, mints, attested, used>>

\* Mutant: a record with a mint hash needs no nonce.
PolledStage_ByHash(snap, found) ==
  IF found = "complete" \/ snap.destinationTx # None THEN "complete"
  ELSE IF MayBeMinting(snap) THEN "minting" ELSE found

\* The stage comes from the inspection and from the record as the cycle saw it.
PolledStage(snap, found) ==
  IF found = "complete" THEN "complete"
  ELSE IF MayBeMinting(snap) THEN "minting" ELSE found

\* The write asks for no transition: whatever is stored now gets that stage.
ApplyPolled(p, r) ==
  LET d == poll[p][r]
  IN  /\ d.pc = "apply"
      /\ queue' = Updated(queue, r,
           [queue[r] EXCEPT !.stage = PolledStage(d.snap, d.found)])
      /\ poll' = [poll EXCEPT ![p][r] = IdlePoll]
      /\ UNCHANGED <<mintLock, caller, mints, attested, used>>

-----------------------------------------------------------------------------
Next ==
  \/ \E r \in Records : LearnHash(r) \/ ConfirmBurn(r)
  \/ \E c \in Callers, b \in Burns : ReadImport(c, b)
  \/ \E c \in Callers, r \in Records : StartAttest(c, r) \/ StartMint(c, r)
  \/ \E c \in Callers, x \in Tx : RequestMint(c, x)
  \/ \E c \in Callers : \/ Import(c)         \/ Attest(c)
                        \/ Check(c)          \/ CheckFails(c)
                        \/ Begin(c)          \/ Recheck(c)
                        \/ PrepareFails(c)   \/ WalletRejects(c)
                        \/ WalletLost(c)     \/ WalletAnswers(c)
                        \/ ReceiptSuccess(c) \/ ReceiptReverted(c)
                        \/ OutcomeUnknown(c) \/ Verify(c)
                        \/ TabCloses(c)
  \/ \E b \in Burns : CircleSigns(b) \/ ReceivedElsewhere(b)
  \/ \E x \in Tx : Broadcast(x) \/ MineSuccess(x) \/ MineReverted(x)
  \/ \E p \in Pollers : CycleStart(p)
  \/ \E p \in Pollers, r \in Records :
       InspectPolled(p, r) \/ PollFails(p, r) \/ ApplyPolled(p, r)

Spec == Init /\ [][Next]_vars

(***************************************************************************)
(* Fairness: the loop runs on an interval and comes round to every record, *)
(* every request of it ends, and Circle and the RPC answer again and again.*)
(* The user, the wallet, the page and the chain owe nothing.               *)
(***************************************************************************)
Fairness ==
  \A p \in Pollers, r \in Records :
    /\ SF_vars(CycleStart(p) /\ poll'[p][r].pc = "read")
    /\ SF_vars(InspectPolled(p, r)) /\ SF_vars(ApplyPolled(p, r))
    /\ WF_vars(PollFails(p, r))

FairSpec == Spec /\ Fairness

(***************************************************************************)
(* Properties.                                                             *)
(***************************************************************************)
\* Every variable has its type, and a nonce is consumed only after Circle
\* signed.
TypeOK ==
  /\ queue \in [Records -> Record]
  /\ mintLock \in [Records -> Callers \cup {None}]
  /\ caller \in [Callers -> CallerState]
  /\ poll \in [Pollers -> [Records -> PollState]]
  /\ mints \in [Tx -> Mint]
  /\ used \subseteq attested /\ attested \subseteq Burns

\* A mint that may still reach the chain keeps its record marked, so that no
\* page, reload, import or late recovery decision can ask for another one.
LiveMintIsMarked ==
  \A x \in Tx : mints[x].status \in Live => queue[mints[x].rec].mintRequested

\* A record has at most one mint request that may still reach the chain.
OneLiveMint ==
  \A x, y \in Tx :
    /\ mints[x].status \in Live /\ mints[y].status \in Live
    /\ mints[x].rec = mints[y].rec
    => x = y

\* A transfer is shown complete only if the destination contract consumed the
\* nonce of its burn, and no stale write takes the burn from under it.
CompleteIsReceived ==
  \A r \in Records : queue[r].stage = "complete" => queue[r].sourceTx \in used

\* A tracked burn whose nonce is consumed ends complete and stays so, even if a
\* late answer of another loop takes the completion back for a while.
ReceivedCompletes ==
  \A r \in Records :
    <>[](queue[r].stage = "none"
         \/ queue[r].stage = "burning"
         \/ queue[r].sourceTx \notin used
         \/ queue[r].stage = "complete")

=============================================================================
