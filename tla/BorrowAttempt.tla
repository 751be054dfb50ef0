--------------------------- MODULE BorrowAttempt ---------------------------
(***************************************************************************)
(* One Borrow write from the confirmation of a review to its settlement:   *)
(* the operation controller, the write boundary, the SDK transport with    *)
(* its submission guard, and the two durable records, the attempt ledger   *)
(* and the recovery store.                                                 *)
(*                                                                         *)
(* One wallet.  A session is one page load (one ledger instance), a scope  *)
(* is the market or loan a write is for.  The lending SDK, the wallet and  *)
(* the chain are external.                                                 *)
(***************************************************************************)
EXTENDS Naturals

CONSTANTS
  Sessions,  \* page loads; |Sessions| bounds how many there are
  Scopes,    \* markets and loans
  Tx,        \* wallet requests; |Tx| bounds how many are made
  None

ASSUME BorrowAssumption == None \notin Sessions \cup Scopes \cup Tx

VARIABLES
  ledger,  \* localStorage "machina.borrow.attempts.v1": the attempt per scope
  store,   \* localStorage "machina.borrow.recovery.v1": the bound batch
  lock,    \* navigator.locks "machina.borrow.execution:<owner>"
  op,      \* where the confirmed operation of every session stands
  ack,     \* the acknowledgement a session is working on
  writes   \* what became of every wallet request

vars == <<ledger, store, lock, op, ack, writes>>

Live == {"prompt", "limbo", "pending"}

Attempt == [status : {"none", "in-flight", "submitted", "failed", "confirmed"},
            session : Sessions \cup {None}, tx : Tx \cup {None}]

Bound == [saved : BOOLEAN, tx : Tx \cup {None}]

Operation == [pc : {"idle", "checking", "boundary", "bound", "prompt", "submitted", "closed"},
              scope : Scopes \cup {None}, tx : Tx \cup {None}]

Proof == [scope : Scopes \cup {None}, tx : Tx \cup {None}]

Write == [scope : Scopes \cup {None},
          status : Live \cup {"unused", "rejected", "success", "reverted"}]

NoAttempt == [status |-> "none", session |-> None, tx |-> None]
NoProof   == [scope |-> None, tx |-> None]
Idle      == [pc |-> "idle", scope |-> None, tx |-> None]

Init ==
  /\ ledger = [k \in Scopes |-> NoAttempt]
  /\ store = [k \in Scopes |-> [saved |-> FALSE, tx |-> None]]
  /\ lock = None
  /\ op = [s \in Sessions |-> Idle]
  /\ ack = [s \in Sessions |-> NoProof]
  /\ writes = [x \in Tx |-> [scope |-> None, status |-> "unused"]]

(***************************************************************************)
(* The ledger.  Every call reads the storage again; a write the browser    *)
(* drops is noticed, and the record stays as it was.                       *)
(***************************************************************************)
Recorded(k) == ledger[k].status # "none"

Own(s, k) == ledger[k].session = s

\* finish(): only this page's running attempt; the save may fail.
Finished(s, k, status, x) ==
  {ledger} \cup
    IF Own(s, k) /\ ledger[k].status = "in-flight"
    THEN {[ledger EXCEPT ![k] = [@ EXCEPT !.status = status, !.tx = x]]}
    ELSE {}

\* discard() of an attempt that is proved unsent, marked as failed before; both
\* saves may fail.
DiscardedUnsent(s, k) ==
  Finished(s, k, "failed", None) \cup
    IF /\ Own(s, k) /\ ledger[k].tx = None
       /\ ledger[k].status \in {"in-flight", "failed"}
    THEN {[ledger EXCEPT ![k] = NoAttempt]} ELSE {}

(***************************************************************************)
(* confirm(), verifyBorrowWriteBoundary(), executeBorrowWrite(), submit(). *)
(***************************************************************************)
\* No attempt of the wallet is unresolved, on whatever market or loan.
NothingUnresolved(k) == \A j \in Scopes : ~Recorded(j)

\* The lock is taken, then the ledger is read.
Confirm(s, k) ==
  /\ op[s].pc = "idle"
  /\ lock = None
  /\ NothingUnresolved(k)
  /\ lock' = s
  /\ op' = [op EXCEPT ![s] = [pc |-> "checking", scope |-> k, tx |-> None]]
  /\ UNCHANGED <<ledger, store, ack, writes>>

\* The lock ends with the operation.
Finish(s) == lock' = None /\ op' = [op EXCEPT ![s] = Idle]

\* A changed wallet, quote or fee, an unreadable or unwritable ledger.
CheckFails(s) ==
  /\ op[s].pc = "checking"
  /\ Finish(s)
  /\ UNCHANGED <<ledger, store, ack, writes>>

Begin(s) ==
  LET k == op[s].scope
  IN  /\ op[s].pc = "checking"
      /\ ~Recorded(k)
      /\ ledger' = [ledger EXCEPT ![k] = [status |-> "in-flight", session |-> s, tx |-> None]]
      /\ op' = [op EXCEPT ![s].pc = "boundary"]
      /\ UNCHANGED <<store, lock, ack, writes>>

\* The boundary refuses, or the SDK or the transport throws before the wallet
\* is asked: the guard is sealed and the attempt is discarded as unsent.
NotSent(s) ==
  /\ op[s].pc \in {"boundary", "bound"}
  /\ ledger' \in DiscardedUnsent(s, op[s].scope)
  /\ Finish(s)
  /\ UNCHANGED <<store, ack, writes>>

\* The bound batch is saved before the wallet is opened.
Bind(s) ==
  /\ op[s].pc = "boundary"
  /\ store' = [store EXCEPT ![op[s].scope] = [saved |-> TRUE, tx |-> None]]
  /\ op' = [op EXCEPT ![s].pc = "bound"]
  /\ UNCHANGED <<ledger, lock, ack, writes>>

Request(s, x) ==
  /\ op[s].pc = "bound"
  /\ writes[x].status = "unused"
  /\ writes' = [writes EXCEPT ![x] = [scope |-> op[s].scope, status |-> "prompt"]]
  /\ op' = [op EXCEPT ![s] = [@ EXCEPT !.pc = "prompt", !.tx = x]]
  /\ UNCHANGED <<ledger, store, lock, ack>>

\* A completed refusal proves that nothing was sent.
WalletRejects(s) ==
  LET x == op[s].tx
  IN  /\ op[s].pc = "prompt" /\ writes[x].status = "prompt"
      /\ writes' = [writes EXCEPT ![x].status = "rejected"]
      /\ ledger' \in DiscardedUnsent(s, op[s].scope)
      /\ Finish(s)
      /\ UNCHANGED <<store, ack>>

\* Mutant: any error of the wallet counts as unsent.
WalletLost_Unsent(s) ==
  LET x == op[s].tx
  IN  /\ op[s].pc = "prompt"
      /\ writes' = [writes EXCEPT ![x].status = IF @ = "prompt" THEN "limbo" ELSE @]
      /\ ledger' \in DiscardedUnsent(s, op[s].scope)
      /\ Finish(s)
      /\ UNCHANGED <<store, ack>>

\* Any other error leaves a failed attempt without a hash.
WalletLost(s) ==
  LET x == op[s].tx
  IN  /\ op[s].pc = "prompt"
      /\ writes' = [writes EXCEPT ![x].status = IF @ = "prompt" THEN "limbo" ELSE @]
      /\ ledger' \in Finished(s, op[s].scope, "failed", None)
      /\ Finish(s)
      /\ UNCHANGED <<store, ack>>

\* The hash goes to the recovery store, then to the ledger; neither save is
\* allowed to hide it from the SDK.
WalletAnswers(s) ==
  LET k == op[s].scope
      x == op[s].tx
  IN  /\ op[s].pc = "prompt"
      /\ writes[x].status \in {"pending", "success", "reverted"}
      /\ store' \in {store, [store EXCEPT ![k].tx = x]}
      /\ ledger' \in Finished(s, k, "submitted", x)
      /\ op' = [op EXCEPT ![s].pc = "submitted"]
      /\ UNCHANGED <<lock, ack, writes>>

\* The SDK returns or throws behind the hash, the loan id may be saved with it,
\* the controller verifies for the screen; the attempt stays until it is
\* acknowledged.  A result that is only "submitted" has no hash of its own.
Submitted(s) ==
  LET k == op[s].scope
      x == op[s].tx
  IN  /\ op[s].pc = "submitted"
      /\ ledger' \in UNION {Finished(s, k, "confirmed", x),
                            Finished(s, k, "submitted", None),
                            Finished(s, k, "failed", None)}
      /\ store' \in {store, [store EXCEPT ![k].tx = x]}
      /\ Finish(s)
      /\ UNCHANGED <<ack, writes>>

\* The page is closed or reloaded.  The next load is another session.
PageCloses(s) ==
  LET x == op[s].tx
  IN  /\ op[s].pc # "closed"
      /\ lock' = IF lock = s THEN None ELSE lock
      /\ op' = [op EXCEPT ![s] = [Idle EXCEPT !.pc = "closed"]]
      /\ ack' = [ack EXCEPT ![s] = NoProof]
      /\ writes' = IF op[s].pc = "prompt" /\ writes[x].status = "prompt"
                   THEN [writes EXCEPT ![x].status = "limbo"] ELSE writes
      /\ UNCHANGED <<ledger, store>>

(***************************************************************************)
(* acknowledge(): an independent reading of the chain, then resolve().     *)
(* It asks for no lock.                                                    *)
(***************************************************************************)
\* The saved batch names the transaction, or else the ledger does.
KnownTx(k) == IF store[k].tx # None THEN store[k].tx ELSE ledger[k].tx

Final(x) == writes[x].status \in {"success", "reverted"}

Recover(s, k) ==
  /\ op[s].pc = "idle"
  /\ ack[s] = NoProof
  /\ Recorded(k) /\ store[k].saved
  /\ KnownTx(k) # None /\ Final(KnownTx(k))
  /\ ack' = [ack EXCEPT ![s] = [scope |-> k, tx |-> KnownTx(k)]]
  /\ UNCHANGED <<ledger, store, lock, op, writes>>

\* Mutant: a proof for the market or loan is proof enough.
Resolves_AnyHash(s, attempt, proof) ==
  /\ attempt.status # "none"
  /\ ~(attempt.status = "in-flight" /\ attempt.session = s)

\* Another page's running attempt may be resolved, this page's own may not.
Resolves(s, attempt, proof) ==
  /\ attempt.status # "none"
  /\ ~(attempt.status = "in-flight" /\ attempt.session = s)
  /\ attempt.tx # None /\ attempt.tx = proof.tx

Acknowledge(s) ==
  LET k == ack[s].scope
  IN  /\ ack[s] # NoProof
      /\ \/ Resolves(s, ledger[k], ack[s]) /\ ledger' = [ledger EXCEPT ![k] = NoAttempt]
         \/ UNCHANGED ledger
      /\ ack' = [ack EXCEPT ![s] = NoProof]
      /\ UNCHANGED <<store, lock, op, writes>>

(***************************************************************************)
(* The wallet and the chain (external).                                    *)
(***************************************************************************)
Broadcast(x) ==
  /\ writes[x].status \in {"prompt", "limbo"}
  /\ writes' = [writes EXCEPT ![x].status = "pending"]
  /\ UNCHANGED <<ledger, store, lock, op, ack>>

Mine(x) ==
  /\ writes[x].status = "pending"
  /\ \E status \in {"success", "reverted"} :
       writes' = [writes EXCEPT ![x].status = status]
  /\ UNCHANGED <<ledger, store, lock, op, ack>>

-----------------------------------------------------------------------------
Next ==
  \/ \E s \in Sessions, k \in Scopes : Confirm(s, k) \/ Recover(s, k)
  \/ \E s \in Sessions, x \in Tx : Request(s, x)
  \/ \E s \in Sessions : \/ CheckFails(s)    \/ Begin(s)        \/ NotSent(s)
                         \/ Bind(s)          \/ WalletRejects(s) \/ WalletLost(s)
                         \/ WalletAnswers(s) \/ Submitted(s)    \/ PageCloses(s)
                         \/ Acknowledge(s)
  \/ \E x \in Tx : Broadcast(x) \/ Mine(x)

Spec == Init /\ [][Next]_vars

(***************************************************************************)
(* Properties.                                                             *)
(***************************************************************************)
\* Every variable has its type: a saved attempt is one parseRecord accepts.
TypeOK ==
  /\ ledger \in [Scopes -> Attempt]
  /\ store \in [Scopes -> Bound]
  /\ lock \in Sessions \cup {None}
  /\ op \in [Sessions -> Operation]
  /\ ack \in [Sessions -> Proof]
  /\ writes \in [Tx -> Write]

\* The wallet never has two Borrow writes whose outcome is open: not from two
\* pages, not after a reload, not on two markets, not after a lost answer.
OneOpenWrite ==
  \A x, y \in Tx : writes[x].status \in Live /\ writes[y].status \in Live => x = y

\* A write that may still reach the chain has its attempt in the ledger, under
\* its own hash or none yet; no refusal, failure or acknowledgement clears it.
OpenIsRecorded ==
  \A x \in Tx : writes[x].status \in Live =>
    Recorded(writes[x].scope) /\ ledger[writes[x].scope].tx \in {None, x}

\* Nobody takes an attempt away from a page that is still running it, except
\* with the proof that its own transaction is final: an acknowledgement of an
\* older write on the same market or loan never does.
RunningAttemptIsKept ==
  [][\A s \in Sessions :
       LET k == op[s].scope
       IN  /\ op[s].pc \in {"boundary", "bound", "prompt", "submitted"}
           /\ op'[s] = op[s]
           /\ ledger[k].status # "none" /\ ledger'[k].status = "none"
           => ledger[k].tx = op[s].tx /\ Final(op[s].tx)]_vars

\* Over all pages, markets and loans the wallet is asked for one write at a time.
Wallet == INSTANCE OneOutstanding WITH
  Requests <- Tx,
  made <- {x \in Tx : writes[x].status # "unused"},
  open <- {x \in Tx : writes[x].status \in Live}

AsksOneAtATime == Wallet!Spec
=============================================================================
