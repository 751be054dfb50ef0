# A TLA+ model of Machina Bridge

Machina Bridge is a browser application.  It moves USDC between chains (Circle
CCTP over EVM chains, Solana and Sui), swaps, borrows and earns.  Every
transaction is signed by the user's own wallet.  What the application itself
keeps is a set of records in localStorage, and what it decides is when a record
may be sent, settled, retried or released.  Records are shared by all tabs; a
wallet may refuse, answer, answer late, or never answer and send all the same; a
page may be closed at any point; and a chain is read through an RPC that fails
or lags.  Those rules, under those conditions, are what this project models.  Of
its servers, which index the chain, it models the one that keeps durable state
under concurrency: the receipt lane of Arc Intelligence.

Paths below are relative to the root of the repository.

## 1. Inventory

| Component | State | Operations | Hard behaviour | What makes it correct |
| --- | --- | --- | --- | --- |
| EVM CCTP send (`src/hooks/useMainnetCctp.ts`, `src/lib/mainnetCctpSendRecovery.ts`) | record per transfer, send lock per wallet | plan, approve, burn, wait for the receipt | lost answers, two tabs, a receipt that never comes | a transfer burns at most once; a burn that may land stays locked |
| Recovery loop (`src/hooks/useMainnetTransferQueue.ts`) | cursor, what a cycle has read | read allowance, nonce, deposits, receipts; apply | answers that are late by the time they are applied | a landed burn proceeds; no decision lets go of a live one |
| EVM CCTP mint and import (`useMainnetCctp.ts`, `src/lib/mainnetCctpRecovery.ts`, `src/components/MainnetTransferRecovery.tsx`) | mint marks, mint lock per record | attest, inspect, mint, import by hash | received by somebody else, a second record of one burn | complete means received; no two live mints of a record |
| Transfer queue (`src/lib/mainnetTransferQueue.ts`) | list of at most 100 records | create, update, transition, prune | all writes reorder the list the cursor points into | an open send keeps its record; every record is polled (the code promises neither beyond its limits; not modelled) |
| Borrow (`src/lib/borrow*.ts`) | attempt ledger, recovery store, execution lock | confirm, bind, request, submit, acknowledge | two stores saved one after the other; an acknowledgement for the write before | one open write per wallet; an open write is recorded |
| Sui writes (`src/lib/mainnetSuiExecution.ts`, `src/lib/mainnetSuiWritePorts.ts`) | one attempt, a lock | review, confirm, sign, send, recover, reconcile | 180 s timeout and the late answer, replaced nonces | an open transaction is the journaled one and blocks; a settled one is true |
| Solana send guard (`src/lib/solanaSendGuard.ts`, `src/lib/solanaSendRuntime.ts`) | attempts, two locks per transfer | guarded transfer, settle, check, manual review | wallets shared by pairs, blockhash expiry, checks without a lock | a live burn blocks; no wallet has two; what is written off cannot be made any more |
| Solana receive, recovery, reclaim (`src/lib/arcSolanaReceiveEvidence.ts`, ...) | receive journal | receive, review, reclaim | a lost receive request | not modelled yet |
| Earn (`src/lib/earnJournal.ts`, `src/lib/mainnetEarn.ts`, `src/components/MainnetEarn.tsx`) | journal of operations, a lock per account | record, guard the kit's wallet, settle, check status | a lost execute among equal ones, a kit that goes on after its promise failed | one execute at a time; a settled record is true and final |
| Swap (`src/lib/swap/`, `src/lib/uniswapArcExecution.ts`) | journals, approvals | approve, permit, swap | lost hashes, archived records | not modelled yet |
| Compact index (`server/compact/`) | store, checkpoint, lock file | schedule, drain, write an hour | a stale lock, a checkpoint that moves | not modelled yet |
| Arc Intelligence (`server/arc-intelligence/`) | blocks, receipts, certificates, jobs under leases, a frontier per lane | follow the chain, offer jobs, claim, read, commit, flush | leases that run out, two deployments at once, a table at its capacity, conflicting answers | the frontier stands on complete evidence; a stale worker writes nothing; no block is forgotten |
| Intelligence pipeline (`server/intelligence-pipeline/`) | objects of a bucket | reduce, publish | a half-published generation | not modelled |
| Proxies, testnet hooks, views, configuration | none that lasts | | | not modelled |

Components meet in two places.  The queue of `mainnetTransferQueue.ts` is written
by the sending page, the minting page, the import and the recovery loop of every
tab; a change of the stored value reaches the other tabs as an event.  Web Locks
(`navigator.locks`, always asked for with `ifAvailable`, so that a second caller
is turned away and never waits) separate the pages that ask a wallet; nothing
separates them from the loops and checks that only read chains and settle.

The Arc Intelligence server is apart from all of these.  Its processes (two of
them while one deployment replaces another) meet in a database: every write is a
transaction, what a process read before it may be out of date, and only the
lease of the job with its fencing token tells whether it may still write.

## 2. Modules

| Module | Models | Composed of |
| --- | --- | --- |
| `TransferQueue` | stages, allowed transitions, the two ways of writing a record | |
| `CctpSend` | approve, burn, and the recovery of both | extends `TransferQueue` |
| `CctpMint` | attestation, inspection, mint, import, and the recovery after a burn | extends `TransferQueue` |
| `OneOutstanding` | abstract: one request of a wallet at a time | |
| `BorrowAttempt` | one Borrow write, lock to settlement | implements `OneOutstanding` |
| `SuiWrite` | the Sui write controller and its port | implements `OneOutstanding` |
| `EarnOperation` | Earn operations of a wallet: journal, guarded provider, settling | implements `OneOutstanding` |
| `SolanaSend` | the guard around a Solana transfer | |
| `ContiguousFrontier` | abstract: a checkpoint over numbered work | |
| `ReceiptLane` | the chain loop and the receipt and log workers of the A2 runtime | implements `ContiguousFrontier` |
| `CctpSendProofs`, `CctpMintProofs`, `BorrowAttemptProofs`, `SuiWriteProofs`, `EarnOperationProofs`, `SolanaSendProofs`, `ReceiptLaneProofs` | theorems | extend the module they are about |
| `MC...` | instances for TLC | extend the module they are about |

How the code became a model is the same everywhere.  What runs between two
awaits is one action: JavaScript runs it without interruption, and it reads and
rewrites localStorage in one go.  A value read before an await is kept in the
state of the one who reads (`snap`, `attempt`, `verdict`) and used as it was.
A lock is a variable that holds its owner and is freed when the callback ends
or its page is closed.  `TabCloses` is enabled at every point; what a closed page
asked of a wallet stays with the wallet.  A wallet request becomes `prompt`, then
`limbo` when nobody listens any more, `pending` when it was broadcast, and then
what the chain makes of it.  The wallet, the chain, Circle and the browser are
external: they may do whatever the code has to expect of them.  In the server a
database transaction is one action, and the memory of a process stands for what
a tab is here.

**`CctpSend`.**  `queue` is localStorage, `sendLock` the lock
`machina-cctp-send:<wallet>`, `caller[c]` an invocation of approve() or burn()
(`prepare`: reading the account; `attempt`: holding the evidence; `prompt`;
`receipt`), `poll[p][r]` the loop of a tab at a record, with the record as its
cycle began (`snap`) and the decision to apply.  `sends`, `minedAt`, `nonce` and
`allowance` are the wallet and its chain.  Actions: `CreatePlan`, `StartApprove`,
`StartBurn`, `PrepareFails`, `ReadAttempt`, `RequestWallet`, `WalletRejects`,
`WalletLost`, `WalletAnswers`, `Receipt...`, the loop's `CycleStart`, one read per
kind of evidence, and `ApplyDecision`.

The chain also holds what the queue knows nothing of.  `BurnElsewhere` is a burn of
the same wallet from another browser or device, of the amount and to the
recipient of some transfer here: its log is a deposit like any other
(`Deposits`), and a search may adopt it.  `Import` brings a burn in by its hash: the
transfer that names it goes on, and otherwise the burn gets a record of its own
(`imported`), after which no search offers it any more (`Known`).  `HeadMovesOn`
lets the head of the chain pass beyond the six windows of a search: an attempt
remembers the `era` it was made in, and `ReadDeposits` decides nothing for one of an
earlier era, a burn inside the windows included (`mainnetCctpSendRecovery.ts:80`).

**`CctpMint`.**  A record the page made and one an import makes have different
ids and may be of one burn.  `mintRequested` of a record stands for the marks
the code keeps of a request.  `Inspect` reads nonce and message, and may be late.

**`BorrowAttempt`.**  `ledger` and `store` are the two localStorage records, saved
one after the other by the code and in two actions here, each of which may fail.
A session is a page load.  `Acknowledge` applies a proof that `Recover` read
earlier, maybe for an older write.

**`SuiWrite`.**  The attempt of the journal, the lock, and `tab[t]`.  The three
methods differ in who sends and in when a hash is known.  A request that timed
out leaves its page without the lock; its answer may still come (`LateAnswer`).

**`SolanaSend`.**  `journal`, the locks of both wallets, `run[u]` (a transfer or a
manual review) and `look[s]` (the settling of an attempt, one read per step, by
a run or by the check a page makes on load without a lock).  A search finds the
burns of a wallet from `from` on; `Horizon` says where that may be: the starting
block is searched too, and the time of the request is taken a minute earlier.
Burns are numbered as they land, on each side by itself.  `Create` chooses the side,
since nothing before depends on it.  A check that cannot read writes no more than
one that does not know, and is the same here.
`Seen` is what a search gets of them: of Arc all (or the read fails), of a Solana
wallet any part, none included, because only the latest 25 signatures are listed
and one without a block time is skipped (`solanaSendRuntime.ts:109`, `:112`).

**`EarnOperation`.**  `journal` is localStorage (`pruned` is a settled record that
`writeEarnJournal` dropped), `lock` the lock `machina-earn:<account>`, `tab[t]` a
run of `execute` or `checkStatus` in the view (`attempt`, `record`, `running`,
then `settle`, `judge` and `save` of `settleEarnRecord`).  `kit[r]` is the Earn
Kit's own call, which holds the guarded provider and may ask for an approval or
an execute at any time, also after its promise has failed and the tab has gone
on: `RequestApproval`, `RequestExecute` and `ExecuteAnswered` are the wrapper of
`guardEarnProvider`, `Mark` the write that must not fail the request.  `Found` is
the search for an execute whose hash was lost; `beyond` are the operations whose
attempt the head has left too far behind for it (`HeadMovesOn`), and `Judge` adopts
what it finds only if it is the only one it could read.  `other` says that the kit
reported another hash than the wallet did.  `MinedElsewhere` is the same account on
another device.

**`ReceiptLane`.**  `chain` is what the follower persisted, `block`, `covered`, `cert`
and `work` are the tables (receipts and flags, coverage, log certificates, jobs),
`lane` is the lane's row with its frontier `through`.  `proc[p]` is the memory of
a process and has two halves, as the code has two loops.  `step` is the chain
loop: `ChainTick`, then `ReadDeferred` and `OfferDeferred` (blocks whose follow-ups
were deferred, a page from a cursor), then `ReadRecent` and `OfferRecent` (the last
`Tail` blocks).  `pc` is the work loop: `Claim`; `MarkBulk`, `ReadBulk`, `ReadMissing`
for the receipts of a block, each of which ends in `SaveReceipts`; `ClaimSpan`,
`Plan`, `PersistLogs` for logs; `Release` for what failed; `Flush` to move the
frontier.  `held` are the leases the process believes it has, with the fencing
token it was given, and `HoldsLease` is the check at the head of each transaction.
`draining` is the hysteresis of `refreshPressure`.  `LeaseExpires` may strike at any
time, `Crash` loses the memory, and a read may fail or be answered in part.

## 3. Runs

Every run explores its whole state space.  `CHECK_DEADLOCK FALSE` stands in each
configuration because a model may really stop: wallet requests and records are
bounded, and when they are used up and settled there is nothing left to do.

| Run | Instance | What it shows |
| --- | --- | --- |
| `send_two` | 2 transfers of one amount, 2 callers, 1 loop, 3 requests, allowance 1; `PromptSpec` | a transfer burns once; a live burn is locked, a landed one kept and never shared; who waits for an attestation has a burn of the wallet; one unresolved transfer |
| `send_live` | 1 transfer, 1 caller, 1 loop, 2 requests, one of which the wallet may make from another device (`MaxElsewhere`), the head moves on once (`MaxMoves`); `FairSpec` | who waits for an attestation has a burn of the wallet, its own or one from elsewhere; the loop alone brings a landed burn on, unless it was imported under its own record or looked for too late, and unlocks a decided approval |
| `send_stale_poll` | 1 transfer, 3 requests; `Spec` | **violated**: `NoSecondBurn`, by a late decision of the loop |
| `mint_two` | a page's record and an imported one of one burn, 1 caller, 1 loop, 2 requests | live mints are marked, one per record; complete means received |
| `mint_live` | an imported record, 2 callers, 1 loop, 2 requests; `FairSpec` | the same with two tabs; what was received ends complete |
| `borrow_attempt` | 3 page loads, 2 markets, 2 requests | one open write; recorded; a running attempt is kept; implements `OneOutstanding` |
| `sui_write` | 2 tabs, 2 attempts, 3 methods | an open transaction is journaled and blocks; settled is true; implements `OneOutstanding` |
| `sol_send` | 1 EVM and 2 Solana wallets, 2 attempts, 2 pages, 1 unlocked check; `Spec` | a live burn blocks; no wallet has two; what a verdict of "not sent" is about cannot be made any more; settled stays |
| `sol_expiry` | the same; `Spec` | **violated**: `LandedIsKept`, by searches that do not see a burn |
| `earn` | 2 operations, 2 tabs, 2 executes, 1 settled record kept, 1 fault; `FairSpec` | an execute that may still move funds blocks; what is settled is true and final; what can be decided is; implements `OneOutstanding` |
| `receipts_fence` | 1 block of 2 transactions, 2 processes, a table of 3 jobs, 1 fault; `Spec` | no stale worker writes; a certificate leaves no job; the frontier stands on evidence |
| `receipts_settles` | 2 blocks (2 and 0 transactions), 1 process, a table of 3 jobs with water marks 2 and 0, 2 faults; `FairSpec` | capacity; no block is forgotten; every block settles; implements `ContiguousFrontier` |

Why these bounds.  The rules are about two things at once: two requests of a
transfer (or two transfers of a wallet), two pages, and somebody who settles
late.  Each passing run has two of each that its property compares, and one
request more where a second attempt has to follow a first that ended.  In
`send_two` a second transfer of the *same* amount is what a wrong adoption needs,
and an allowance of 1 allows one burn without and one with an approval.
`MaxMoves` is 0 there, since a head out of reach only keeps a search from deciding,
and 1 in `send_live`, where that is the question.  `MaxElsewhere` is 0 in `send_two`
as well: after a burn from another device the world is not `Clean` and most of its
properties claim nothing.  Adopting such a burn takes one transfer, and is checked
in `send_live` with `MaxElsewhere` 1; any number of both is proved (section 4).  The
counters (`nonce`, `minedAt`, the numbers of Solana burns) grow only with requests,
which `Tx` and `Attempts` bound.  In `earn` the two executes are one of
each operation, or the second is another device's, and one settled record is
kept so that a third place in the journal (50 in the code) is never there.  The
receipt lane is checked twice, since fencing needs two processes and one block,
while pages, spans, deferred follow-ups and a frontier with a gap need two
blocks: all limits (tail, page, window, chain batch) are 1 there, so that the
second block is always beyond them, and two blocks make up to six jobs for a table
of three.  `MaxFaults` counts crashes, failed reads, conflicts and leases lost
while held.  `Symmetry` permutes sets of model
values nothing tells apart, and is used with invariants and action properties
only, never with liveness.

Two assumptions restrict properties or runs and are worth knowing:

* **`PromptSpec`** (`send_two`, `send_live`): what a loop has read is applied before
  the user begins the *next* attempt.  A cycle takes seconds, a new attempt a
  person; but no code enforces it, and `send_stale_poll` shows what happens
  without it.  `OneUnresolved` is proved without it.
* **`Clean`** (`send_two`, `send_live`): no burn has reverted so far, and the wallet
  has made none from another device.  After a revert, a page that gave up on its
  receipt may write the dead hash back into a record that was released meanwhile.
  A burn from another device with the amount and recipient of a transfer here
  cannot be told from the transfer's own by its log: the search adopts it, and
  the transfer may have burned, or may still burn, besides.  `OneUnresolved`,
  `NoSharedBurn` and the first half of `SentHasLanded` (the wallet did burn what the
  record says) are claimed without it.

`Crossed` in `SolanaSend` is the situation `OneLiveBurn` does not speak of: two pairs
of wallets that share none have each been used, and so has a pair that shares a
wallet with both.  A transfer settles the first open attempt of its pair and goes
on (`solanaSendRuntime.ts:158`), so the second of the two may still be open.  The
instance of `sol_send` has one EVM wallet and never gets there.

`Excused` in `SolanaSend` names the two attempts the properties do not speak of:
one the user released by hand after the warning, which the code allows by
design, and one a search credited with the burn of another attempt, a known
limit that is described below.

### Fairness

`FairSpec` of `CctpSend` and `CctpMint` assumes of the code that the
interval of `useMainnetTransferQueue` fires while a record is recoverable (weak
fairness of `CycleStart`) and that every read ends, since RPC requests have a
timeout of 10 s and no retry (weak fairness of the failing read).  It also assumes
that the loop comes round to every record.  That is certain while a batch of two
holds all recoverable records of a wallet, as in both instances; with more, the
cursor points into a list that every write reorders, and nothing in the code
bounds how often a record is passed over (`useMainnetTransferQueue.ts:114`).  Of the
network it assumes that an answer that is available again and again is read at
some time (strong fairness of the reads).  Nothing is assumed of the user, the
wallet, the page that sent, or the chain.

`EarnOperation` has no loop: a record is settled by the tab that made it or when
the user asks for its status.  `FairSpec` assumes that a tab goes on with what it
began, that a call of the kit that hangs is ended by a reload (`KitEnds`), and
that somebody asks for the status of an open operation (`CheckStatus`).  Failed
reads and writes are among the bounded faults, so a retry succeeds in the end.

`FairSpec` of `ReceiptLane` assumes that the two loops of a process run (weak
fairness of `ChainLoop`, `WorkLoop` and `Flush`; `a2-runtime.js` calls them from
timers that are always set again), and that a lease nobody holds runs out, as it
is a time in the database.

### Findings

* **A late decision releases a live burn** (`send_stale_poll`).  The loop reads the
  receipt of the approval; the user burns meanwhile; the decision then moves
  `burning` back to `approved`, which the table allows, and a second burn may be
  sent.  The comment at `src/lib/mainnetCctpSendRecovery.ts:5-7` rules this out.
* **A landed Solana burn is released as not sent** (`sol_expiry`).  The wallet signs
  and sends, but its answer is lost, so the guard has to search.  It asks for the
  latest 25 signatures at `confirmed` and skips those without a block time
  (`solanaSendRuntime.ts:109`, `:112`), but for the blockhash at `processed` (`:104`).  A
  burn that has 25 newer signatures, or is processed and not yet confirmed, is in
  neither search; the blockhash has expired; the attempt is released, and the next
  transfer may burn again.  `src/lib/solanaSendGuard.ts:11-12` says of such a record
  that it is "proven not sent", and `:188` of the second reading that "a burn that
  landed just before expiring is not missed".

Met while modelling and described by hazards instead of runs: a burn imported by
hash while its own record does not know its hash yet gets a second record, a
second lock and a second mint request (`mainnetTransferQueue.ts:117`); `recover()`
tests finality in the record it loaded before it had the lock and saves that
record afterwards, so a final Sui state may be undone, though never that of a
live transaction (`mainnetSuiExecution.ts:239`); when a Solana wallet's answer is
lost within a minute of its last burn, the search finds that one, the attempt
becomes `burned`, and another burn may be requested while the first request can
still be signed (`solanaSendGuard.ts:196`); a full queue drops
the record of an open burn (`mainnetTransferQueue.ts:92`); an approval may be
requested again on the evidence of the attempt before (`useMainnetCctp.ts:353`);
a burn of another device may be adopted for a transfer that never burned
(`mainnetCctpSendRecovery.ts:76`); and only the first of several open Solana attempts is
settled before a transfer goes on (`solanaSendRuntime.ts:158`), which takes three
pairs of wallets that overlap.  An Earn execute whose hash was lost and that
reverted, or that the user replaced in the wallet, leaves no event to be found
and stays `unknown` (`earnJournal.ts:360`); so does one that is first looked for
60,000 blocks later (`:378`), as a burn then stays `burning`.

## 4. Proofs

Every invariant and action property that a passing run of section 3 checks, and
each of the four refinements, is a theorem.  TLAPS checks them for all values of the constants,
from the assumptions of the modules (`SendAssumption`, `MintAssumption`,
`BorrowAssumption`, `SuiAssumption`, `EarnConstants`,
`SolanaAssumption`, `LaneConstants`), which TLC evaluates on its instances: ids are
not `None`, sets that are counted are finite, amounts and limits are naturals,
the water marks are in order, and two plans are of two burns.  No theorem has a
hypothesis besides its specification.  No inductive invariant was proved before
TLC had looked for a state against it, on the instances of section 3 or smaller
ones, and found none.

**`CctpSendProofs`**, of `Spec` with every late decision of the loop allowed.
`SendTypes` proves `TypeOK`, `SendOneUnresolved` that a wallet has at most one
unresolved transfer.  The inductive invariant is `TInv`: `TypeOK` with

* `CallerOK`: a caller at work holds the lock, works on a record, and knows the
  stage to go back to.  Two callers at work would be one, which makes the check
  of `NoUnresolvedSend` at the start of an attempt binding until its end;
* `PollOK`: a decision is one that the stage of its snapshot allows.  Without it
  a decision might lead *into* an unresolved stage;
* `SendsOK`: a request knows its record and kind.

Every write of a record is one of `Writes`, and `WriteUnresolved` shows that only
the start of an attempt makes an unresolved record.

Its second part is of `PromptSpec`.  `SendNoSecondBurn`, `SendLiveBurnIsLocked`,
`SendLandedBurnIsKept`, `SendSentHasLanded` and `SendSentIsFinal` prove the burn
properties of `send_two` for any number of transfers, tabs, loops and requests.
`SendSentHasLanded` takes its first half from the third part below.
The properties speak of records and requests only, and none is inductive: what
an invocation or a loop does next rests on what it read before.  `BurnInv` adds,
to `TInv` and while the world is `Clean`,

* `OwnerOK`, `HashOK`: a burn request that may land or has landed (`Effective`) is
  the only one of its record, which is locked on it or waits for it, and a hash
  in a record is of such a request;
* `WorkOK`: an invocation before its request has no effective burn to compete
  with, and after it waits for the one its record has;
* `EvidenceOK`: what a loop holds is still true of its record, and no other
  transfer has become unresolved since.  This is where `PromptSpec` is used
  (`StartBurnInv`), and what `send_stale_poll` breaks.

Most steps keep every effective burn (`Keeps`) and move a record in one of three
ways (`Moves`): not, within its approval, or by learning of its effective burn.
`KeepsAll` proves those once; the steps that start, release or request a burn
have a proof each.  `FoundIsOwn` is the reason why a burn found in the logs is
never another transfer's: that one, no longer unresolved, names it.  An import is one more way
of learning of a burn (`ImportMoves`).

`SendNoSharedBurn` holds also after burns have reverted, so `BurnInv`, which
speaks of the time before, is of no use to it.  Its own invariant `SInv` says
that one transfer at most is in work (`Focus`: it is unresolved, an invocation
stands in it, or a loop is at it), that what an
invocation or a loop has asked for or found is a request that no *other* record
names (`AskedOK`, `FoundOK`), and that a hash in a record was requested (`HeldOK`).

The third part is of `Spec` and of any world.  `SendWaitsForABurn` says that a
transfer waits for an attestation only if the wallet has made a burn of its amount
and recipient, whatever reverted, was imported, burned elsewhere or decided late.
`LInv` carries it: every hash in a record (`HashLooks`), in the hands of an invocation
(`AskedLooks`) or of a loop (`PollLooks`) is of a request that, once it has landed,
`Looks` like the record's own.  `Remain`, which every step satisfies, is why it stays
so: a request keeps its kind, record and final status.

**`CctpMintProofs`** proves `LiveMintIsMarked`, `OneLiveMint`, `CompleteIsReceived` and
`TypeOK` of `Spec`, for any records, tabs, loops and requests.  `IInv` has `QueueOK` (a
record names no burn but its own), `MintOK` (a request is for a message that Circle
signed), `CallerOK` (an invocation past the lock of its id finds no live request of
its record until it makes one, and from then on that one only) and `PollOK`: what a
loop has read is about the burn of its record.  What an inspection found stays
true (`Found`: a message that was signed and a nonce that was consumed remain so),
which is why late decisions and imports complete nothing that was not received.
`WriteGrows` proves it once for every write of a record.

**`BorrowAttemptProofs`** proves `TypeOK`, `OneOpenWrite`, `OpenIsRecorded`,
`RunningAttemptIsKept` and that `BorrowAttempt` implements `OneOutstanding`.  The
inductive invariant `IInv` has

* `LockOK`: an operation past its confirmation holds the lock, so there is one;
* `OneAttempt`: the ledger has one attempt at most, whatever its market;
* `WorkOK`: at each point of an operation, which attempt the ledger has and
  what became of the request: what a closed page leaves behind is then recorded;
* `ScopeOK`, `ProofOK`: a request is of one market, and a proof that was read is
  final, since nothing that is decided opens again; so a late acknowledgement
  cannot clear a live attempt.

The refinement classifies the steps (`WritesStep`): every step leaves the requests
alone, makes one while none is open, or closes the open one.

**`SuiWriteProofs`** proves `OpenIsJournaled`, `SettledIsTrue`, `TypeOK` and that
`SuiWrite` implements `OneOutstanding`.  `IInv` has `LockOK` (a tab at work holds the
lock), `RequestOK` (a nonce is spent by a request that was made, once), `WorkOK` (at
each point of a tab's operation, what the journal says of its attempt and what
became of the request), and `EvidenceOK`: what a recovery or a late answer holds
is still true when it is saved.  A late answer has no lock, so this cannot rest
on `LockOK`; it rests on finality: a transaction that was seen settled, or whose
nonce another one spent, stays so.

**`EarnOperationProofs`** proves `TypeOK`, `LiveExecuteBlocks`, `SettledIsTrue`,
`SettledIsFinal` and that `EarnOperation` implements `OneOutstanding`, for any number
of operations, tabs and executes and any `Keep`.  None is inductive, since a
settled verdict rests on what was read two steps before.  `IInv` has

* `OneOpen`, `LockOK`, `WorkOK`: one operation is open; who works holds the lock,
  and before its operation is recorded nothing is open;
* `LiveOK`, `OneExecute`, `RecordOK`, `KitOK`: an execute that may still move funds is
  the only one of the open operation, whose record says that it was asked for,
  and a hash or an answer in a record is about that execute.  `execute` is written
  before the wallet is asked, which is why a lost answer does no harm;
* `ChainOK`: whatever this wallet has mined for other operations has a nonce below
  the open one's, so that the search finds the right execute or none;
* `VerdictOK`: a verdict in hand is still what the chain says when it is saved.

`JournalStep` proves once what a write of one record (with the pruning it may
bring) keeps, `ChainStep` what the wallet and the chain keep.

**`SolanaSendProofs`** proves `LiveBlocks`, `NotSentIsTrue`, `SettledStays`,
`OneLiveBurn` and `TypeOK` of `Spec`, for any wallets, attempts, pages and checks.
`IInv` has `AttemptOK` (what phase and hash of a record say of its burn), `RunOK` (what
a transfer with its locks knows of its own attempt) and `LookOK` (what somebody who
is settling has read: a verdict of "not sent" is of a burn that cannot be made any
more, one of "burned" names a burn that landed).  A check holds no lock, so a
verdict may rest only on what the chain does not take back: a burn that landed
stays, and one that failed or expired stays dead.  That a burn which landed is
never written off cannot be proved, since the code does not keep it
(`sol_expiry`); what holds is that no *live* one is, and that no landed one is where
the guard has a hash or the signature to ask for.

`OneLiveBurn` needs more: `XInv` says that no two open attempts share a wallet
(`OneOpen`) and that a transfer which has its locks and has settled shares a wallet
with no open attempt but its own (`Alone`), unless its pair is `Bridged`: then there
may be a second one it did not settle.  As soon as such a transfer makes a record
the world is `Crossed`, which `OneLiveBurn` excepts, and it stays so
(`CrossedStays`); until then a working transfer is alone (`WorkingFits`).

**`ReceiptLaneProofs`** proves `FrontierIsProven`, `CertifiedIsDone`, `WithinCapacity`,
`LeaseIsExclusive`, `NothingForgotten`, `TypeOK` and that `ReceiptLane` implements `ContiguousFrontier`, for
any number of blocks, transactions and processes and any limits.  `IInv` has

* `SealedBelow`: all blocks up to the frontier are sealed *now*.  Progress is made
  over the rows as the transaction leaves them (`ProgressOK`), and only a conflict
  withdraws a seal and lowers the frontier with it (`Withdraws`); every other step
  is `Up`, which is the refinement;
* `EvidenceOK`: the receipt flag and each certificate mean that as many receipts
  are stored as the block has transactions;
* `LeaseOK`, `MemoryOK`: a running lease has an owner, and a process has one token of
  a job.  There is one token more than there are processes, hence a fresh one
  (`FreshOK`, by the pigeonhole principle);
* `CertifiedIsDone` and `WithinCapacity` themselves.  `TableOK` states the rules of the
  job table for any table and certificates, and one lemma each shows that
  pruning, enqueueing, claiming and finishing keep them.

`LeaseIsExclusive` follows from `StepSpares`: pruning and enqueueing touch no leased
row, a claim takes only rows whose lease has run out, and a transaction that
changes a leased row has checked that its own process owns it.

`NothingForgotten` adds `PassOK` to `IInv`.  A block is in hand when its receipts are
stored, a conflict is open on it, or its receipt job can still run.  A pass of
the recent blocks has a mark, and a list of what is left to offer; `PassOK` says
that every persisted block up to the mark is in hand unless the list still has it,
and that every one up to `passed` is in hand, as long as the tail has not outrun
the passes.  Three facts carry it
through the steps: what a step does to receipt rows keeps a block in hand
(`Tends`), a new block comes after all others (`Appends`), and the work loop leaves
a pass's list alone (`Lists`).  What a list leaves out has a job already or lies
below the tail, where an earlier pass has offered it (`ListIsRest`).

Only model-checked: liveness (`LandedBurnProceeds`, `ApprovalSettles`,
`ReceivedCompletes`, `DecidableSettles`, `EveryBlockSettles`), since
fairness and ENABLED are out of this prover's reach.

## 5. Not modelled

* Fees, quotes, simulations and checks of amounts are a step that passes or
  fails.  The gates of the interface (`globalMainnetWritesEnabled`, disabled
  buttons) are taken to be open: the rules below them must hold by themselves.
* The decoding of messages, logs and receipts is taken to be right, and a
  receipt is of the transaction that was asked for.
* localStorage calls are atomic, as browsers make them in all but rare cases of
  two processes (hazard at `solanaSendGuard.ts:78`).
* An Arc wallet keeps the nonce of the Sui module's transaction.  A Solana wallet
  signs what it was given; Bridge Kit asks for one burn of an attempt.
* The searches for a lost transaction end.  On the EVM side and in Earn that keeps
  the record locked: once the head is more than 60,000 blocks past the attempt
  the answer is `unknown`, even for a transaction inside the windows (modelled), and
  so it is with more than 64 logs in a window (256 in Earn) or 16 candidates (a read
  that decides nothing).  On Solana it is *not* the safe side: see `sol_expiry`.
* The queue's order, its limit of 100 records, which drops an open send like any
  other, and the cursor of the loop.
* One tab runs one operation of a controller at a time.
* Earn: a review that no longer holds and an amount that does not match are
  refused before any state changes.  What the wallet answers to an approval
  decides nothing.  The second check of an open record in `createEarnRecord`
  (`earnJournal.ts:436`) runs under the same lock as the first.  The same
  operation made on another device while one is open here could not be told
  apart by the code; it is not modelled at that moment.  While 60,000 blocks
  pass, no tab stays between reading an attempt and recording it.
* Arc Intelligence: rows of a block are never rewritten, so a block's hash is its
  number; a fork stops the chain lane for good (`ChainHalts`).  A tick of the
  follower is one step.  A conflict is found in blocks whose receipts are not
  complete.  Which complete jobs are pruned is left open.  The order of claims
  (`preference`), which jobs `capacityBlocked` counts, and the split of a range
  that is too large are left out: a claim takes any ready job, an answer is
  exact or not.  The hourly reducer, metrics, the read model and the indexer of
  the first generation are data processing or retired.
* The components of the inventory without a module.

## 6. Plan

1. Swap: Circle and Uniswap execution with their journals; both ought to
   implement `OneOutstanding`.
2. The Solana receive journal, composed with `SolanaSend` by the burn it settles,
   and the Sui queue.
3. The compact index: writer lock, scheduler and checkpoint, which ought to
   implement `ContiguousFrontier`.
