------------------------ MODULE BorrowAttemptProofs ------------------------
(***************************************************************************)
(* Theorems about BorrowAttempt, for any number of page loads, markets and *)
(* wallet requests.                                                        *)
(***************************************************************************)
EXTENDS BorrowAttempt, TLAPS

(***************************************************************************)
(* The inductive invariant.  The lock makes one session at a time work on  *)
(* an operation; what that session may assume of the ledger and of the     *)
(* wallet depends on how far it has come.                                  *)
(***************************************************************************)
Working == {"checking", "boundary", "bound", "prompt", "submitted"}

Open(x) == writes[x].status \in Live

LockOK ==
  \A s \in Sessions : op[s].pc \in Working => lock = s /\ op[s].scope \in Scopes

\* The wallet has one attempt, on whatever market or loan.
OneAttempt == \A j, k \in Scopes : Recorded(j) /\ Recorded(k) => j = k

\* Until the wallet is asked nothing is open; then only the request is.
WorkOK ==
  \A s \in Sessions :
    LET k == op[s].scope
        x == op[s].tx
    IN  /\ op[s].pc = "checking" => \A j \in Scopes : ~Recorded(j)
        /\ op[s].pc \in {"boundary", "bound", "prompt"} =>
             ledger[k].status = "in-flight" /\ ledger[k].tx = None
        /\ op[s].pc \in {"boundary", "bound"} => \A y \in Tx : ~Open(y)
        /\ op[s].pc \in {"prompt", "submitted"} =>
             /\ x \in Tx /\ writes[x].scope = k /\ ledger[k].tx \in {None, x}
             /\ \A y \in Tx : Open(y) => y = x

ScopeOK == \A x \in Tx : Open(x) => writes[x].scope \in Scopes

\* Evidence of a final transaction stays true.
ProofOK == \A s \in Sessions : ack[s].tx \in Tx => Final(ack[s].tx)

IInv == /\ TypeOK /\ LockOK /\ OneAttempt /\ WorkOK /\ ScopeOK /\ ProofOK
        /\ OpenIsRecorded /\ OneOpenWrite


-----------------------------------------------------------------------------
(***************************************************************************)
(* Writing one element of a function.                                      *)
(***************************************************************************)
LEMMA Put ==
  ASSUME NEW S, NEW T, NEW f \in [S -> T], NEW i \in S, NEW e \in T, NEW g,
         g = [f EXCEPT ![i] = e]
  PROVE  g \in [S -> T] /\ g[i] = e /\ \A j \in S \ {i} : g[j] = f[j]
  OBVIOUS

(***************************************************************************)
(* The lock and the ledger.                                                *)
(***************************************************************************)
\* Whoever works on an operation is the only one.
LEMMA Alone ==
  ASSUME LockOK, NEW s \in Sessions, op[s].pc \in Working
  PROVE  \A t \in Sessions \ {s} : op[t].pc \notin Working
  BY DEF LockOK

\* The end of an operation leaves nobody working.
LEMMA FinishOK ==
  ASSUME IInv, NEW s \in Sessions, op[s].pc \in Working, Finish(s)
  PROVE  /\ op' \in [Sessions -> Operation] /\ lock' \in Sessions \cup {None}
         /\ LockOK' /\ WorkOK'
<1>1. Idle \in Operation
  BY DEF Idle, Operation
<1>2. /\ op' \in [Sessions -> Operation]
      /\ op'[s] = Idle
      /\ \A t \in Sessions \ {s} : op'[t] = op[t]
  <2> HIDE DEF Idle
  <2> QED BY <1>1, Put DEF Finish, IInv, TypeOK
<1>3. Idle.pc \notin Working
  BY DEF Idle, Working
<1>4. \A t \in Sessions : op'[t].pc \notin Working
  BY <1>2, <1>3, Alone DEF IInv
<1>5. lock' \in Sessions \cup {None}
  BY DEF Finish
<1>6. LockOK'
  BY <1>4 DEF LockOK
<1>7. WorkOK'
  BY <1>4 DEF WorkOK, Working
<1> QED BY <1>2, <1>5, <1>6, <1>7

\* finish() changes the status and the hash of an attempt, never which market
\* or loan has one.
LEMMA FinishedFacts ==
  ASSUME TypeOK, NEW s \in Sessions, NEW k \in Scopes,
         NEW status \in {"submitted", "failed", "confirmed"},
         NEW x \in Tx \cup {None},
         NEW new \in Finished(s, k, status, x)
  PROVE  /\ new \in [Scopes -> Attempt]
         /\ \A j \in Scopes : new[j].status # "none" <=> Recorded(j)
         /\ \A j \in Scopes \ {k} : new[j] = ledger[j]
         /\ new[k] = ledger[k] \/ new[k].tx = x
<1> DEFINE e == [ledger[k] EXCEPT !.status = status, !.tx = x]
<1>1. ledger[k] \in Attempt
  BY DEF TypeOK
<1>2. e \in Attempt /\ e.status = status /\ e.tx = x
  BY <1>1 DEF Attempt
<1>3. CASE new = ledger
  BY <1>3 DEF TypeOK, Recorded
<1>4. CASE new = [ledger EXCEPT ![k] = e] /\ ledger[k].status = "in-flight"
  <2> HIDE DEF e
  <2>1. /\ new \in [Scopes -> Attempt] /\ new[k] = e
        /\ \A j \in Scopes \ {k} : new[j] = ledger[j]
    BY <1>2, <1>4, Put DEF TypeOK
  <2>2. e.status # "none" /\ ledger[k].status # "none"
    BY <1>2, <1>4
  <2> QED BY <1>2, <2>1, <2>2 DEF Recorded
<1>5. new = ledger \/ (new = [ledger EXCEPT ![k] = e] /\ ledger[k].status = "in-flight")
  BY DEF Finished
<1> QED BY <1>3, <1>4, <1>5

\* discard() leaves a typed ledger with no attempt that was not there.
LEMMA DiscardedFacts ==
  ASSUME TypeOK, NEW s \in Sessions, NEW k \in Scopes,
         NEW new \in DiscardedUnsent(s, k)
  PROVE  /\ new \in [Scopes -> Attempt]
         /\ \A j \in Scopes : new[j].status # "none" => Recorded(j)
<1>1. NoAttempt \in Attempt /\ NoAttempt.status = "none"
  BY DEF NoAttempt, Attempt
<1>2. CASE new \in Finished(s, k, "failed", None)
  BY <1>2, FinishedFacts
<1>3. CASE new = [ledger EXCEPT ![k] = NoAttempt]
  <2> HIDE DEF NoAttempt
  <2>1. /\ new \in [Scopes -> Attempt] /\ new[k] = NoAttempt
        /\ \A j \in Scopes \ {k} : new[j] = ledger[j]
    BY <1>1, <1>3, Put DEF TypeOK
  <2> QED BY <1>1, <2>1 DEF Recorded
<1>4. new \in Finished(s, k, "failed", None) \/ new = [ledger EXCEPT ![k] = NoAttempt]
  BY DEF DiscardedUnsent
<1> QED BY <1>2, <1>3, <1>4

LEMMA FewerAttempts ==
  ASSUME OneAttempt, \A j \in Scopes : Recorded(j)' => Recorded(j)
  PROVE  OneAttempt'
  BY DEF OneAttempt

\* With no open request there is nothing the ledger owes.
LEMMA NothingOpen ==
  ASSUME \A y \in Tx : ~Open(y)'
  PROVE  ScopeOK' /\ OpenIsRecorded' /\ OneOpenWrite'
  BY DEF ScopeOK, OpenIsRecorded, OneOpenWrite, Open

-----------------------------------------------------------------------------
(***************************************************************************)
(* The operation, action by action.                                        *)
(***************************************************************************)
LEMMA ConfirmStep ==
  ASSUME IInv, NEW s \in Sessions, NEW k \in Scopes, Confirm(s, k)
  PROVE  IInv'
<1> DEFINE new == [pc |-> "checking", scope |-> k, tx |-> None]
<1>1. new \in Operation /\ new.pc = "checking" /\ new.scope = k
  BY DEF Operation
<1>2. /\ op' \in [Sessions -> Operation] /\ op'[s] = new
      /\ \A t \in Sessions \ {s} : op'[t] = op[t]
  <2>1. op' = [op EXCEPT ![s] = new]
    BY DEF Confirm
  <2> HIDE DEF new
  <2> QED BY <1>1, <2>1, Put DEF IInv, TypeOK
<1> HIDE DEF new
<1>3. /\ lock = None /\ lock' = s
      /\ \A j \in Scopes : ~Recorded(j)
      /\ UNCHANGED <<ledger, store, ack, writes>>
  BY DEF Confirm, NothingUnresolved
<1>4. \A t \in Sessions \ {s} : op'[t].pc \notin Working
  BY <1>2, <1>3, BorrowAssumption DEF IInv, LockOK
<1>5. TypeOK'
  BY <1>2, <1>3 DEF IInv, TypeOK
<1>6. LockOK'
  BY <1>1, <1>2, <1>3, <1>4 DEF LockOK
<1>7. WorkOK'
  BY <1>1, <1>2, <1>3, <1>4 DEF WorkOK, Recorded, Working
<1>8. OneAttempt' /\ ScopeOK' /\ ProofOK' /\ OpenIsRecorded' /\ OneOpenWrite'
  BY <1>3 DEF IInv, OneAttempt, ScopeOK, ProofOK, OpenIsRecorded, OneOpenWrite,
              Recorded, Open, Final
<1> QED BY <1>5, <1>6, <1>7, <1>8 DEF IInv

LEMMA CheckFailsStep ==
  ASSUME IInv, NEW s \in Sessions, CheckFails(s)
  PROVE  IInv'
<1>1. op[s].pc \in Working /\ Finish(s) /\ UNCHANGED <<ledger, store, ack, writes>>
  BY DEF CheckFails, Working
<1>2. op' \in [Sessions -> Operation] /\ lock' \in Sessions \cup {None} /\ LockOK' /\ WorkOK'
  BY <1>1, FinishOK
<1>3. OneAttempt' /\ ScopeOK' /\ ProofOK' /\ OpenIsRecorded' /\ OneOpenWrite'
  BY <1>1 DEF IInv, OneAttempt, ScopeOK, ProofOK, OpenIsRecorded, OneOpenWrite,
              Recorded, Open, Final
<1> QED BY <1>1, <1>2, <1>3 DEF IInv, TypeOK

\* Moving on within the operation: only the working session's state changes.
LEMMA Moves ==
  ASSUME IInv, NEW s \in Sessions, op[s].pc \in Working, NEW new \in Operation,
         op' = [op EXCEPT ![s] = new], new.scope = op[s].scope,
         UNCHANGED lock
  PROVE  /\ op' \in [Sessions -> Operation] /\ op'[s] = new /\ LockOK'
         /\ \A t \in Sessions \ {s} : op'[t].pc \notin Working
<1>1. /\ op' \in [Sessions -> Operation] /\ op'[s] = new
      /\ \A t \in Sessions \ {s} : op'[t] = op[t]
  BY Put DEF IInv, TypeOK
<1>2. \A t \in Sessions \ {s} : op'[t].pc \notin Working
  BY <1>1, Alone DEF IInv
<1>3. LockOK'
  BY <1>1, <1>2 DEF IInv, LockOK
<1> QED BY <1>1, <1>2, <1>3

LEMMA BeginStep ==
  ASSUME IInv, NEW s \in Sessions, Begin(s)
  PROVE  IInv'
<1> DEFINE k == op[s].scope
           new == [op[s] EXCEPT !.pc = "boundary"]
           e == [status |-> "in-flight", session |-> s, tx |-> None]
<1>1. /\ op[s].pc = "checking" /\ op[s] \in Operation /\ k \in Scopes
      /\ \A j \in Scopes : ~Recorded(j)
  BY DEF IInv, TypeOK, LockOK, WorkOK, Begin, Working
<1>2. new \in Operation /\ new.pc = "boundary" /\ new.scope = k
  BY <1>1 DEF Operation
<1>3. e \in Attempt /\ e.status = "in-flight" /\ e.tx = None
  BY DEF Attempt
<1>4. /\ op' = [op EXCEPT ![s] = new] /\ ledger' = [ledger EXCEPT ![k] = e]
      /\ UNCHANGED <<store, lock, ack, writes>>
  BY DEF Begin
<1> HIDE DEF new, e
<1>5. /\ op' \in [Sessions -> Operation] /\ op'[s] = new /\ LockOK'
      /\ \A t \in Sessions \ {s} : op'[t].pc \notin Working
  BY <1>1, <1>2, <1>4, Moves DEF Working
<1>6. /\ ledger' \in [Scopes -> Attempt] /\ ledger'[k] = e
      /\ \A j \in Scopes \ {k} : ledger'[j] = ledger[j]
  BY <1>1, <1>3, <1>4, Put DEF IInv, TypeOK
<1>7. \A y \in Tx : ~Open(y)
  BY <1>1 DEF IInv, OpenIsRecorded, ScopeOK, Open
<1>8. \A y \in Tx : ~Open(y)'
  BY <1>4, <1>7 DEF Open
<1>9. WorkOK'
  BY <1>2, <1>3, <1>5, <1>6, <1>8 DEF WorkOK, Working
<1>10. OneAttempt'
  BY <1>1, <1>6 DEF OneAttempt, Recorded
<1>11. TypeOK' /\ ProofOK'
  BY <1>4, <1>5, <1>6 DEF IInv, TypeOK, ProofOK, Final
<1> QED BY <1>5, <1>8, <1>9, <1>10, <1>11, NothingOpen DEF IInv

LEMMA NotSentStep ==
  ASSUME IInv, NEW s \in Sessions, NotSent(s)
  PROVE  IInv'
<1>1. /\ op[s].pc \in Working /\ op[s].pc \in {"boundary", "bound"}
      /\ Finish(s) /\ UNCHANGED <<store, ack, writes>>
      /\ ledger' \in DiscardedUnsent(s, op[s].scope)
  BY DEF NotSent, Working
<1>2. op[s].scope \in Scopes /\ \A y \in Tx : ~Open(y)'
  BY <1>1 DEF IInv, LockOK, WorkOK, Open
<1>3. op' \in [Sessions -> Operation] /\ lock' \in Sessions \cup {None} /\ LockOK' /\ WorkOK'
  BY <1>1, FinishOK
<1>4. /\ ledger' \in [Scopes -> Attempt]
      /\ \A j \in Scopes : Recorded(j)' => Recorded(j)
  BY <1>1, <1>2, DiscardedFacts DEF IInv, Recorded
<1>5. TypeOK' /\ ProofOK'
  BY <1>1, <1>3, <1>4 DEF IInv, TypeOK, ProofOK, Final
<1> QED BY <1>2, <1>3, <1>4, <1>5, FewerAttempts, NothingOpen DEF IInv

LEMMA BindStep ==
  ASSUME IInv, NEW s \in Sessions, Bind(s)
  PROVE  IInv'
<1> DEFINE k == op[s].scope
           new == [op[s] EXCEPT !.pc = "bound"]
           e == [saved |-> TRUE, tx |-> None]
<1>1. op[s].pc = "boundary" /\ op[s] \in Operation /\ k \in Scopes
  BY DEF IInv, TypeOK, LockOK, Bind, Working
<1>2. new \in Operation /\ new.pc = "bound" /\ new.scope = k /\ e \in Bound
  BY <1>1 DEF Operation, Bound
<1>3. /\ op' = [op EXCEPT ![s] = new] /\ store' = [store EXCEPT ![k] = e]
      /\ UNCHANGED <<ledger, lock, ack, writes>>
  BY DEF Bind
<1> HIDE DEF new, e
<1>4. /\ op' \in [Sessions -> Operation] /\ op'[s] = new /\ LockOK'
      /\ \A t \in Sessions \ {s} : op'[t].pc \notin Working
  BY <1>1, <1>2, <1>3, Moves DEF Working
<1>5. store' \in [Scopes -> Bound]
  BY <1>1, <1>2, <1>3, Put DEF IInv, TypeOK
<1>6. \A y \in Tx : ~Open(y)'
  BY <1>1, <1>3 DEF IInv, WorkOK, Open
<1>7. WorkOK'
  BY <1>1, <1>2, <1>3, <1>4, <1>6 DEF IInv, WorkOK, Working
<1>8. TypeOK' /\ ProofOK' /\ OneAttempt'
  BY <1>3, <1>4, <1>5 DEF IInv, TypeOK, ProofOK, Final, OneAttempt, Recorded
<1> QED BY <1>4, <1>6, <1>7, <1>8, NothingOpen DEF IInv

LEMMA RequestStep ==
  ASSUME IInv, NEW s \in Sessions, NEW x \in Tx, Request(s, x)
  PROVE  IInv'
<1> DEFINE k == op[s].scope
           new == [op[s] EXCEPT !.pc = "prompt", !.tx = x]
           w == [scope |-> k, status |-> "prompt"]
<1>1. op[s].pc = "bound" /\ op[s] \in Operation /\ k \in Scopes
  BY DEF IInv, TypeOK, LockOK, Request, Working
<1>2. /\ new \in Operation /\ new.pc = "prompt" /\ new.scope = k /\ new.tx = x
      /\ w \in Write /\ w.scope = k /\ w.status = "prompt"
  BY <1>1 DEF Operation, Write, Live
<1>3. /\ op' = [op EXCEPT ![s] = new] /\ writes' = [writes EXCEPT ![x] = w]
      /\ UNCHANGED <<ledger, store, lock, ack>> /\ writes[x].status = "unused"
  BY DEF Request
<1> HIDE DEF new, w
<1>4. /\ op' \in [Sessions -> Operation] /\ op'[s] = new /\ LockOK'
      /\ \A t \in Sessions \ {s} : op'[t].pc \notin Working
  BY <1>1, <1>2, <1>3, Moves DEF Working
<1>5. /\ writes' \in [Tx -> Write] /\ writes'[x] = w
      /\ \A y \in Tx \ {x} : writes'[y] = writes[y]
  BY <1>2, <1>3, Put DEF IInv, TypeOK
<1>6. \A y \in Tx : Open(y)' => y = x
  BY <1>1, <1>5 DEF IInv, WorkOK, Open
<1>7. ledger[k].status = "in-flight" /\ ledger[k].tx = None
  BY <1>1 DEF IInv, WorkOK
<1>8. WorkOK'
  BY <1>2, <1>3, <1>4, <1>5, <1>6, <1>7 DEF WorkOK, Working
<1>9. TypeOK' /\ OneAttempt'
  BY <1>3, <1>4, <1>5 DEF IInv, TypeOK, OneAttempt, Recorded
<1>10. ProofOK'
  BY <1>3, <1>5 DEF IInv, ProofOK, Final
<1>11. ScopeOK' /\ OneOpenWrite'
  BY <1>1, <1>2, <1>5, <1>6 DEF ScopeOK, OneOpenWrite, Open
<1>12. OpenIsRecorded'
  BY <1>2, <1>3, <1>5, <1>6, <1>7 DEF OpenIsRecorded, Recorded, Open
<1> QED BY <1>4, <1>8, <1>9, <1>10, <1>11, <1>12 DEF IInv

LEMMA WalletRejectsStep ==
  ASSUME IInv, NEW s \in Sessions, WalletRejects(s)
  PROVE  IInv'
<1> DEFINE x == op[s].tx
           w == [writes[x] EXCEPT !.status = "rejected"]
<1>1. /\ op[s].pc = "prompt" /\ op[s].pc \in Working /\ Finish(s)
      /\ writes' = [writes EXCEPT ![x] = w] /\ writes[x].status = "prompt"
      /\ ledger' \in DiscardedUnsent(s, op[s].scope) /\ UNCHANGED <<store, ack>>
  BY DEF WalletRejects, Working
<1>2. x \in Tx /\ op[s].scope \in Scopes /\ \A y \in Tx : Open(y) => y = x
  BY <1>1 DEF IInv, LockOK, WorkOK
<1>3. w \in Write /\ w.status = "rejected"
  BY <1>2 DEF IInv, TypeOK, Write
<1> HIDE DEF w
<1>4. /\ writes' \in [Tx -> Write] /\ writes'[x] = w
      /\ \A y \in Tx \ {x} : writes'[y] = writes[y]
  BY <1>1, <1>2, <1>3, Put DEF IInv, TypeOK
<1>5. \A y \in Tx : ~Open(y)'
  BY <1>2, <1>3, <1>4 DEF Open, Live
<1>6. op' \in [Sessions -> Operation] /\ lock' \in Sessions \cup {None} /\ LockOK' /\ WorkOK'
  BY <1>1, FinishOK
<1>7. /\ ledger' \in [Scopes -> Attempt]
      /\ \A j \in Scopes : Recorded(j)' => Recorded(j)
  BY <1>1, <1>2, DiscardedFacts DEF IInv, Recorded
<1>8. TypeOK'
  BY <1>1, <1>4, <1>6, <1>7 DEF IInv, TypeOK
<1>9. ProofOK'
  BY <1>1, <1>4 DEF IInv, ProofOK, Final
<1> QED BY <1>5, <1>6, <1>7, <1>8, <1>9, FewerAttempts, NothingOpen DEF IInv

\* A request that stays open, or becomes what it was, keeps the invariant when
\* the attempt it belongs to stays recorded under its hash or none.
LEMMA OneStaysOpen ==
  ASSUME IInv, NEW s \in Sessions, op[s].pc \in {"prompt", "submitted"},
         writes' \in [Tx -> Write],
         \A y \in Tx : Open(y)' => y = op[s].tx /\ Open(y),
         \A y \in Tx : Open(y)' => writes'[y].scope = writes[y].scope,
         \A j \in Scopes : Recorded(j)' <=> Recorded(j),
         \A j \in Scopes : ledger'[j].tx \in {ledger[j].tx, None, op[s].tx}
  PROVE  ScopeOK' /\ OpenIsRecorded' /\ OneOpenWrite' /\ OneAttempt'
<1>1. ScopeOK' /\ OneOpenWrite'
  BY DEF IInv, ScopeOK, OneOpenWrite, Open
<1>2. OneAttempt'
  BY DEF IInv, OneAttempt
<1>3. ASSUME NEW y \in Tx, Open(y)'
      PROVE  Recorded(writes[y].scope)' /\ (ledger[writes[y].scope].tx)' \in {None, y}
  <2>1. Open(y) /\ y = op[s].tx /\ writes'[y].scope = writes[y].scope
    BY <1>3
  <2>2. writes[y].scope \in Scopes /\ Recorded(writes[y].scope)
        /\ ledger[writes[y].scope].tx \in {None, y}
    BY <2>1 DEF IInv, ScopeOK, OpenIsRecorded, Open
  <2> QED BY <2>1, <2>2
<1>4. OpenIsRecorded'
  BY <1>3 DEF OpenIsRecorded, Open
<1> QED BY <1>1, <1>2, <1>4

LEMMA WalletLostStep ==
  ASSUME IInv, NEW s \in Sessions, WalletLost(s)
  PROVE  IInv'
<1> DEFINE x == op[s].tx
           k == op[s].scope
           w == [writes[x] EXCEPT !.status = IF @ = "prompt" THEN "limbo" ELSE @]
<1>1. /\ op[s].pc = "prompt" /\ op[s].pc \in Working /\ Finish(s)
      /\ writes' = [writes EXCEPT ![x] = w]
      /\ ledger' \in Finished(s, k, "failed", None) /\ UNCHANGED <<store, ack>>
  BY DEF WalletLost, Working
<1>2. x \in Tx /\ k \in Scopes /\ \A y \in Tx : Open(y) => y = x
  BY <1>1 DEF IInv, LockOK, WorkOK
<1>3. /\ w \in Write /\ w.scope = writes[x].scope
      /\ w.status \in Live => writes[x].status \in Live
      /\ writes[x].status \notin Live => w.status = writes[x].status
  BY <1>2 DEF IInv, TypeOK, Write, Live
<1> HIDE DEF w
<1>4. /\ writes' \in [Tx -> Write] /\ writes'[x] = w
      /\ \A y \in Tx \ {x} : writes'[y] = writes[y]
  BY <1>1, <1>2, <1>3, Put DEF IInv, TypeOK
<1>5. \A y \in Tx : Open(y)' => y = x /\ Open(y)
  BY <1>2, <1>3, <1>4 DEF Open
<1>6. \A y \in Tx : writes'[y].scope = writes[y].scope
  BY <1>3, <1>4
<1>7. op' \in [Sessions -> Operation] /\ lock' \in Sessions \cup {None} /\ LockOK' /\ WorkOK'
  BY <1>1, FinishOK
<1>8. /\ ledger' \in [Scopes -> Attempt]
      /\ \A j \in Scopes : Recorded(j)' <=> Recorded(j)
      /\ \A j \in Scopes : ledger'[j].tx \in {ledger[j].tx, None}
  <2>1. /\ ledger' \in [Scopes -> Attempt]
        /\ \A j \in Scopes : ledger'[j].status # "none" <=> Recorded(j)
        /\ \A j \in Scopes \ {k} : ledger'[j] = ledger[j]
        /\ ledger'[k] = ledger[k] \/ ledger'[k].tx = None
    BY <1>1, <1>2, FinishedFacts DEF IInv
  <2> QED BY <2>1 DEF Recorded
<1>9. ScopeOK' /\ OpenIsRecorded' /\ OneOpenWrite' /\ OneAttempt'
  BY <1>1, <1>4, <1>5, <1>6, <1>8, OneStaysOpen
<1>10. TypeOK'
  BY <1>1, <1>4, <1>7, <1>8 DEF IInv, TypeOK
<1>11. \A y \in Tx : Final(y) => Final(y)'
  BY <1>2, <1>3, <1>4 DEF Final, Live
<1>12. ProofOK'
  BY <1>1, <1>11 DEF IInv, ProofOK
<1> QED BY <1>7, <1>9, <1>10, <1>12 DEF IInv

LEMMA WalletAnswersStep ==
  ASSUME IInv, NEW s \in Sessions, WalletAnswers(s)
  PROVE  IInv'
<1> DEFINE x == op[s].tx
           k == op[s].scope
           new == [op[s] EXCEPT !.pc = "submitted"]
           b == [store[k] EXCEPT !.tx = x]
<1>1. /\ op[s].pc = "prompt" /\ op[s].pc \in Working /\ op[s] \in Operation
      /\ x \in Tx /\ k \in Scopes /\ writes[x].scope = k
      /\ \A y \in Tx : Open(y) => y = x
  BY DEF WalletAnswers, IInv, TypeOK, LockOK, WorkOK, Working
<1>2. /\ op' = [op EXCEPT ![s] = new]
      /\ store' \in {store, [store EXCEPT ![k] = b]}
      /\ ledger' \in Finished(s, k, "submitted", x) /\ UNCHANGED <<lock, ack, writes>>
  BY DEF WalletAnswers
<1>3. new \in Operation /\ new.pc = "submitted" /\ new.scope = k /\ new.tx = x
  BY <1>1 DEF Operation
<1>4. b \in Bound
  BY <1>1 DEF IInv, TypeOK, Bound
<1> HIDE DEF new, b
<1>5. /\ op' \in [Sessions -> Operation] /\ op'[s] = new /\ LockOK'
      /\ \A t \in Sessions \ {s} : op'[t].pc \notin Working
  BY <1>1, <1>2, <1>3, Moves DEF Working
<1>6. store' \in [Scopes -> Bound]
  <2>1. CASE store' = store
    BY <2>1 DEF IInv, TypeOK
  <2>2. CASE store' = [store EXCEPT ![k] = b]
    BY <1>1, <1>4, <2>2, Put DEF IInv, TypeOK
  <2> QED BY <1>2, <2>1, <2>2
<1>7. /\ ledger' \in [Scopes -> Attempt]
      /\ \A j \in Scopes : Recorded(j)' <=> Recorded(j)
      /\ \A j \in Scopes : ledger'[j].tx \in {ledger[j].tx, x}
  <2>1. /\ ledger' \in [Scopes -> Attempt]
        /\ \A j \in Scopes : ledger'[j].status # "none" <=> Recorded(j)
        /\ \A j \in Scopes \ {k} : ledger'[j] = ledger[j]
        /\ ledger'[k] = ledger[k] \/ ledger'[k].tx = x
    BY <1>1, <1>2, FinishedFacts DEF IInv
  <2> QED BY <2>1 DEF Recorded
<1>8. ScopeOK' /\ OpenIsRecorded' /\ OneOpenWrite' /\ OneAttempt'
  BY <1>1, <1>2, <1>7, OneStaysOpen DEF Open, IInv, TypeOK
<1>9. WorkOK'
  <2>1. ledger'[k].tx \in {None, x}
    BY <1>1, <1>7 DEF IInv, WorkOK
  <2> QED BY <1>1, <1>2, <1>3, <1>5, <2>1 DEF WorkOK, Working, Open
<1>10. TypeOK' /\ ProofOK'
  BY <1>2, <1>5, <1>6, <1>7 DEF IInv, TypeOK, ProofOK, Final
<1> QED BY <1>5, <1>8, <1>9, <1>10 DEF IInv

LEMMA SubmittedStep ==
  ASSUME IInv, NEW s \in Sessions, Submitted(s)
  PROVE  IInv'
<1> DEFINE x == op[s].tx
           k == op[s].scope
           b == [store[k] EXCEPT !.tx = x]
<1>1. /\ op[s].pc = "submitted" /\ op[s].pc \in Working /\ Finish(s)
      /\ store' \in {store, [store EXCEPT ![k] = b]}
      /\ UNCHANGED <<ack, writes>>
  BY DEF Submitted, Working
<1>2. x \in Tx /\ k \in Scopes /\ \A y \in Tx : Open(y) => y = x
  BY <1>1 DEF IInv, LockOK, WorkOK
<1>3. PICK status \in {"submitted", "failed", "confirmed"}, hash \in {None, x} :
        ledger' \in Finished(s, k, status, hash)
  BY DEF Submitted
<1>4. /\ ledger' \in [Scopes -> Attempt]
      /\ \A j \in Scopes : Recorded(j)' <=> Recorded(j)
      /\ \A j \in Scopes : ledger'[j].tx \in {ledger[j].tx, None, x}
  <2>1. /\ ledger' \in [Scopes -> Attempt]
        /\ \A j \in Scopes : ledger'[j].status # "none" <=> Recorded(j)
        /\ \A j \in Scopes \ {k} : ledger'[j] = ledger[j]
        /\ ledger'[k] = ledger[k] \/ ledger'[k].tx = hash
    BY <1>2, <1>3, FinishedFacts DEF IInv
  <2> QED BY <2>1 DEF Recorded
<1>5. b \in Bound
  BY <1>2 DEF IInv, TypeOK, Bound
<1> HIDE DEF b
<1>6. store' \in [Scopes -> Bound]
  <2>1. CASE store' = store
    BY <2>1 DEF IInv, TypeOK
  <2>2. CASE store' = [store EXCEPT ![k] = b]
    BY <1>2, <1>5, <2>2, Put DEF IInv, TypeOK
  <2> QED BY <1>1, <2>1, <2>2
<1>7. op' \in [Sessions -> Operation] /\ lock' \in Sessions \cup {None} /\ LockOK' /\ WorkOK'
  BY <1>1, FinishOK
<1>8. ScopeOK' /\ OpenIsRecorded' /\ OneOpenWrite' /\ OneAttempt'
  BY <1>1, <1>2, <1>4, OneStaysOpen DEF Open, IInv, TypeOK
<1>9. TypeOK' /\ ProofOK'
  BY <1>1, <1>4, <1>6, <1>7 DEF IInv, TypeOK, ProofOK, Final
<1> QED BY <1>7, <1>8, <1>9 DEF IInv

\* A request changes its status: what is open stays open or is settled, what
\* is final stays final.
LEMMA WriteSettles ==
  ASSUME IInv, NEW x \in Tx, NEW w \in Write, writes' = [writes EXCEPT ![x] = w],
         Open(x), w.scope = writes[x].scope, w.status # "unused",
         UNCHANGED ledger
  PROVE  /\ writes' \in [Tx -> Write]
         /\ \A y \in Tx : Open(y)' => Open(y)
         /\ \A y \in Tx : writes'[y].scope = writes[y].scope
         /\ \A y \in Tx : Final(y) => Final(y)'
         /\ ScopeOK' /\ OpenIsRecorded' /\ OneOpenWrite' /\ OneAttempt'
<1>1. /\ writes' \in [Tx -> Write] /\ writes'[x] = w
      /\ \A y \in Tx \ {x} : writes'[y] = writes[y]
  BY Put DEF IInv, TypeOK
<1>2. \A y \in Tx : Open(y)' => Open(y)
  BY <1>1 DEF Open
<1>3. \A y \in Tx : writes'[y].scope = writes[y].scope
  BY <1>1
<1>4. \A y \in Tx : Final(y) => Final(y)'
  BY <1>1 DEF Final, Open, Live
<1>5. ScopeOK' /\ OneOpenWrite' /\ OneAttempt'
  BY <1>2, <1>3 DEF IInv, ScopeOK, OneOpenWrite, OneAttempt, Recorded, Open
<1>6. OpenIsRecorded'
  BY <1>2, <1>3 DEF IInv, OpenIsRecorded, Recorded, Open
<1> QED BY <1>1, <1>2, <1>3, <1>4, <1>5, <1>6

LEMMA PageClosesStep ==
  ASSUME IInv, NEW s \in Sessions, PageCloses(s)
  PROVE  IInv'
<1> DEFINE x == op[s].tx
           new == [Idle EXCEPT !.pc = "closed"]
           w == [writes[x] EXCEPT !.status = "limbo"]
<1>1. /\ op' = [op EXCEPT ![s] = new] /\ ack' = [ack EXCEPT ![s] = NoProof]
      /\ lock' = IF lock = s THEN None ELSE lock
      /\ UNCHANGED <<ledger, store>>
  BY DEF PageCloses
<1>2. new \in Operation /\ new.pc = "closed"
  BY DEF Idle, Operation
<1>3. NoProof \in Proof /\ NoProof.tx = None
  BY DEF NoProof, Proof
<1>4. \/ writes' = writes
      \/ /\ op[s].pc = "prompt" /\ writes[x].status = "prompt"
         /\ writes' = [writes EXCEPT ![x] = w]
  BY DEF PageCloses
<1> HIDE DEF new, NoProof
<1>5. /\ op' \in [Sessions -> Operation] /\ op'[s] = new
      /\ \A t \in Sessions \ {s} : op'[t] = op[t]
  BY <1>1, <1>2, Put DEF IInv, TypeOK
<1>6. /\ ack' \in [Sessions -> Proof] /\ ack'[s] = NoProof
      /\ \A t \in Sessions \ {s} : ack'[t] = ack[t]
  BY <1>1, <1>3, Put DEF IInv, TypeOK
<1>7. /\ writes' \in [Tx -> Write]
      /\ \A y \in Tx : Open(y)' => Open(y)
      /\ \A y \in Tx : writes'[y].scope = writes[y].scope
      /\ \A y \in Tx : Final(y) => Final(y)'
      /\ ScopeOK' /\ OpenIsRecorded' /\ OneOpenWrite' /\ OneAttempt'
  <2>1. CASE writes' = writes
    BY <1>1, <2>1 DEF IInv, TypeOK, Open, Final, ScopeOK, OpenIsRecorded,
                     OneOpenWrite, OneAttempt, Recorded
  <2>2. CASE /\ op[s].pc = "prompt" /\ writes[x].status = "prompt"
             /\ writes' = [writes EXCEPT ![x] = w]
    <3>1. x \in Tx
      BY <2>2 DEF IInv, WorkOK
    <3>2. w \in Write /\ w.scope = writes[x].scope /\ w.status # "unused"
      BY <3>1 DEF IInv, TypeOK, Write, Live
    <3>3. Open(x)
      BY <2>2 DEF Open, Live
    <3> HIDE DEF w
    <3> QED BY <1>1, <2>2, <3>1, <3>2, <3>3, WriteSettles
  <2> QED BY <1>4, <2>1, <2>2
<1>8. LockOK'
  BY <1>1, <1>2, <1>5 DEF IInv, LockOK, Working
<1>9. WorkOK'
  <2>1. \A t \in Sessions : op'[t].pc \in Working => op'[t] = op[t]
    BY <1>2, <1>5 DEF Working
  <2> QED BY <1>1, <1>7, <2>1 DEF IInv, WorkOK, Recorded, Working
<1>10. lock' \in Sessions \cup {None}
  BY <1>1 DEF IInv, TypeOK
<1>11. TypeOK'
  BY <1>1, <1>5, <1>6, <1>7, <1>10 DEF IInv, TypeOK
<1>12. ProofOK'
  BY <1>3, <1>6, <1>7, BorrowAssumption DEF IInv, ProofOK
<1> QED BY <1>7, <1>8, <1>9, <1>11, <1>12 DEF IInv

(***************************************************************************)
(* The acknowledgement.                                                    *)
(***************************************************************************)
LEMMA RecoverStep ==
  ASSUME IInv, NEW s \in Sessions, NEW k \in Scopes, Recover(s, k)
  PROVE  IInv'
<1> DEFINE new == [scope |-> k, tx |-> KnownTx(k)]
<1>1. /\ ack' = [ack EXCEPT ![s] = new]
      /\ UNCHANGED <<ledger, store, lock, op, writes>>
      /\ KnownTx(k) # None /\ Final(KnownTx(k))
  BY DEF Recover
<1>2. KnownTx(k) \in Tx \cup {None}
  BY DEF KnownTx, IInv, TypeOK, Bound, Attempt
<1>3. new \in Proof /\ new.tx = KnownTx(k)
  BY <1>2 DEF Proof
<1> HIDE DEF new
<1>4. /\ ack' \in [Sessions -> Proof] /\ ack'[s] = new
      /\ \A t \in Sessions \ {s} : ack'[t] = ack[t]
  BY <1>1, <1>3, Put DEF IInv, TypeOK
<1>5. ProofOK'
  BY <1>1, <1>3, <1>4 DEF IInv, ProofOK, Final
<1>6. TypeOK'
  BY <1>1, <1>4 DEF IInv, TypeOK
<1>7. LockOK' /\ WorkOK' /\ OneAttempt' /\ ScopeOK' /\ OpenIsRecorded' /\ OneOpenWrite'
  BY <1>1 DEF IInv, LockOK, WorkOK, OneAttempt, ScopeOK, OpenIsRecorded,
              OneOpenWrite, Recorded, Open
<1> QED BY <1>5, <1>6, <1>7 DEF IInv

\* What resolve() accepts: the hash of the attempt, and final.
LEMMA ResolvesFinal ==
  ASSUME IInv, NEW s \in Sessions, ack[s] # NoProof,
         Resolves(s, ledger[ack[s].scope], ack[s]), ack[s].scope \in Scopes
  PROVE  /\ ledger[ack[s].scope].tx \in Tx /\ ledger[ack[s].scope].tx = ack[s].tx
         /\ Final(ack[s].tx)
  BY DEF Resolves, IInv, TypeOK, Attempt, ProofOK

LEMMA AcknowledgeStep ==
  ASSUME IInv, NEW s \in Sessions, Acknowledge(s)
  PROVE  IInv'
<1> DEFINE k == ack[s].scope
<1>1. /\ ack' = [ack EXCEPT ![s] = NoProof] /\ ack[s] # NoProof
      /\ UNCHANGED <<store, lock, op, writes>>
      /\ \/ Resolves(s, ledger[k], ack[s]) /\ ledger' = [ledger EXCEPT ![k] = NoAttempt]
         \/ ledger' = ledger
  BY DEF Acknowledge
<1>2. NoProof \in Proof /\ NoProof.tx = None
  BY DEF NoProof, Proof
<1>3. NoAttempt \in Attempt /\ NoAttempt.status = "none" /\ NoAttempt.tx = None
  BY DEF NoAttempt, Attempt
<1> HIDE DEF NoProof, NoAttempt
<1>4. /\ ack' \in [Sessions -> Proof] /\ ack'[s] = NoProof
      /\ \A t \in Sessions \ {s} : ack'[t] = ack[t]
  BY <1>1, <1>2, Put DEF IInv, TypeOK
<1>5. ProofOK'
  BY <1>1, <1>2, <1>4, BorrowAssumption DEF IInv, ProofOK, Final
<1>6. LockOK' /\ ScopeOK' /\ OneOpenWrite'
  BY <1>1 DEF IInv, LockOK, ScopeOK, OneOpenWrite, Open
<1>7. CASE ledger' = ledger
  BY <1>1, <1>4, <1>5, <1>6, <1>7 DEF IInv, TypeOK, WorkOK, OneAttempt, OpenIsRecorded,
     Recorded, Open
<1>8. CASE k \notin Scopes
  <2>1. [ledger EXCEPT ![k] = NoAttempt] = ledger
    BY <1>8 DEF IInv, TypeOK
  <2> QED BY <1>1, <1>7, <2>1
<1>9. CASE /\ k \in Scopes /\ Resolves(s, ledger[k], ack[s])
           /\ ledger' = [ledger EXCEPT ![k] = NoAttempt]
  <2>1. ledger[k].tx \in Tx /\ ledger[k].tx = ack[s].tx /\ Final(ack[s].tx)
    BY <1>1, <1>9, ResolvesFinal
  <2>2. /\ ledger' \in [Scopes -> Attempt] /\ ledger'[k] = NoAttempt
        /\ \A j \in Scopes \ {k} : ledger'[j] = ledger[j]
    BY <1>3, <1>9, Put DEF IInv, TypeOK
  <2>3. \A y \in Tx : Open(y) => writes[y].scope # k
    BY <1>9, <2>1, BorrowAssumption DEF IInv, OpenIsRecorded, Open, Final, Live
  <2>4. OpenIsRecorded'
    BY <1>1, <2>2, <2>3 DEF IInv, OpenIsRecorded, ScopeOK, Recorded, Open
  <2>5. \A j \in Scopes : Recorded(j)' => Recorded(j)
    BY <1>3, <2>2 DEF Recorded
  <2>6. WorkOK'
    <3>1. \A t \in Sessions : op[t].pc \in {"boundary", "bound", "prompt"}
                                => op[t].scope \in Scopes \ {k}
      BY <2>1, BorrowAssumption DEF IInv, WorkOK, LockOK, Working
    <3>2. \A j \in Scopes : ledger'[j].tx \in {ledger[j].tx, None}
      BY <1>3, <2>2
    <3>3. \A t \in Sessions : op[t].pc \in {"prompt", "submitted"}
                                => op[t].scope \in Scopes
      BY DEF IInv, LockOK, Working
    <3> QED BY <1>1, <2>2, <2>5, <3>1, <3>2, <3>3 DEF IInv, WorkOK, Open
  <2>7. OneAttempt'
    BY <2>5, FewerAttempts DEF IInv
  <2> QED BY <1>1, <1>4, <1>5, <1>6, <2>2, <2>4, <2>6, <2>7 DEF IInv, TypeOK
<1> QED BY <1>1, <1>7, <1>8, <1>9

(***************************************************************************)
(* The wallet and the chain.                                               *)
(***************************************************************************)
LEMMA ChainStep ==
  ASSUME IInv, NEW x \in Tx, Broadcast(x) \/ Mine(x)
  PROVE  IInv'
<1>1. PICK status \in {"pending", "success", "reverted"} :
        writes' = [writes EXCEPT ![x] = [writes[x] EXCEPT !.status = status]]
  BY DEF Broadcast, Mine
<1> DEFINE w == [writes[x] EXCEPT !.status = status]
<1>2. Open(x) /\ UNCHANGED <<ledger, store, lock, op, ack>>
  BY DEF Broadcast, Mine, Open, Live
<1>3. w \in Write /\ w.scope = writes[x].scope /\ w.status # "unused"
  BY DEF IInv, TypeOK, Write, Live
<1>4. writes' = [writes EXCEPT ![x] = w]
  BY <1>1
<1> HIDE DEF w
<1>5. /\ writes' \in [Tx -> Write]
      /\ \A y \in Tx : Open(y)' => Open(y)
      /\ \A y \in Tx : writes'[y].scope = writes[y].scope
      /\ \A y \in Tx : Final(y) => Final(y)'
      /\ ScopeOK' /\ OpenIsRecorded' /\ OneOpenWrite' /\ OneAttempt'
  BY <1>2, <1>3, <1>4, WriteSettles
<1>6. TypeOK' /\ LockOK' /\ ProofOK'
  BY <1>2, <1>5 DEF IInv, TypeOK, LockOK, ProofOK
<1>7. WorkOK'
  BY <1>2, <1>5 DEF IInv, WorkOK, Recorded
<1> QED BY <1>5, <1>6, <1>7 DEF IInv

-----------------------------------------------------------------------------
(***************************************************************************)
(* The theorems.                                                           *)
(***************************************************************************)
LEMMA InitIInv ==
  ASSUME Init
  PROVE  IInv
<1>1. /\ NoAttempt \in Attempt /\ NoAttempt.status = "none"
      /\ NoProof \in Proof /\ NoProof.tx = None
      /\ Idle \in Operation /\ Idle.pc = "idle"
  BY DEF NoAttempt, Attempt, NoProof, Proof, Idle, Operation
<1> DEFINE w == [scope |-> None, status |-> "unused"]
           b == [saved |-> FALSE, tx |-> None]
<1>2. w \in Write /\ w.status = "unused" /\ b \in Bound
  BY DEF Write, Bound
<1>3. /\ ledger = [k \in Scopes |-> NoAttempt] /\ store = [k \in Scopes |-> b]
      /\ lock = None /\ op = [s \in Sessions |-> Idle]
      /\ ack = [s \in Sessions |-> NoProof] /\ writes = [x \in Tx |-> w]
  BY DEF Init
<1> HIDE DEF NoAttempt, NoProof, Idle, w, b
<1>4. TypeOK
  BY <1>1, <1>2, <1>3 DEF TypeOK
<1>5. LockOK /\ WorkOK /\ OneAttempt /\ ProofOK
  BY <1>1, <1>3, BorrowAssumption DEF LockOK, WorkOK, OneAttempt, ProofOK, Recorded, Working
<1>6. ScopeOK /\ OpenIsRecorded /\ OneOpenWrite
  BY <1>2, <1>3 DEF ScopeOK, OpenIsRecorded, OneOpenWrite, Open, Live
<1> QED BY <1>4, <1>5, <1>6 DEF IInv

LEMMA StepIInv ==
  ASSUME IInv, [Next]_vars
  PROVE  IInv'
<1>1. CASE UNCHANGED vars
  BY <1>1 DEF vars, IInv, TypeOK, LockOK, OneAttempt, WorkOK, ScopeOK, ProofOK,
              OpenIsRecorded, OneOpenWrite, Recorded, Open, Final
<1>2. CASE \E s \in Sessions, k \in Scopes : Confirm(s, k) \/ Recover(s, k)
  BY <1>2, ConfirmStep, RecoverStep
<1>3. CASE \E s \in Sessions, x \in Tx : Request(s, x)
  BY <1>3, RequestStep
<1>4. ASSUME NEW s \in Sessions,
             \/ CheckFails(s)    \/ Begin(s)         \/ NotSent(s)
             \/ Bind(s)          \/ WalletRejects(s) \/ WalletLost(s)
             \/ WalletAnswers(s) \/ Submitted(s)     \/ PageCloses(s)
             \/ Acknowledge(s)
      PROVE  IInv'
  BY <1>4, CheckFailsStep, BeginStep, NotSentStep, BindStep, WalletRejectsStep,
     WalletLostStep, WalletAnswersStep, SubmittedStep, PageClosesStep, AcknowledgeStep
<1>5. CASE \E x \in Tx : Broadcast(x) \/ Mine(x)
  BY <1>5, ChainStep
<1> QED BY <1>1, <1>2, <1>3, <1>4, <1>5 DEF Next

LEMMA Invariant == Spec => []IInv
<1>1. Init => IInv
  BY InitIInv
<1>2. IInv /\ [Next]_vars => IInv'
  BY StepIInv
<1> QED BY <1>1, <1>2, PTL DEF Spec

\* Every variable keeps its type: the ledger never holds an attempt its own
\* reader would refuse.
THEOREM BorrowTypes == Spec => []TypeOK
<1>1. IInv => TypeOK
  BY DEF IInv
<1> QED BY <1>1, Invariant, PTL

\* The wallet never has two Borrow writes whose outcome is open, whatever the
\* number of pages, markets and requests.
THEOREM BorrowOneOpenWrite == Spec => []OneOpenWrite
<1>1. IInv => OneOpenWrite
  BY DEF IInv
<1> QED BY <1>1, Invariant, PTL

\* A write that may still reach the chain has its attempt in the ledger.
THEOREM BorrowOpenIsRecorded == Spec => []OpenIsRecorded
<1>1. IInv => OpenIsRecorded
  BY DEF IInv
<1> QED BY <1>1, Invariant, PTL

\* Only an acknowledgement changes the ledger while the working page stands.
LEMMA OthersLeaveTheLedger ==
  ASSUME IInv, NEW s \in Sessions, op[s].pc \in Working, op'[s] = op[s], Next
  PROVE  UNCHANGED ledger \/ \E t \in Sessions : Acknowledge(t)
<1>1. ASSUME NEW t \in Sessions,
             \/ CheckFails(t) \/ Begin(t) \/ NotSent(t) \/ Bind(t) \/ WalletRejects(t)
             \/ WalletLost(t) \/ WalletAnswers(t) \/ Submitted(t)
      PROVE  FALSE
  <2>1. op[t].pc \in Working
    BY <1>1 DEF CheckFails, Begin, NotSent, Bind, WalletRejects, WalletLost,
                WalletAnswers, Submitted, Working
  <2>2. t = s
    BY <2>1, Alone DEF IInv
  <2>3. op[s] \in Operation /\ op \in [Sessions -> Operation]
    BY DEF IInv, TypeOK
  <2>4. CASE Begin(s) \/ Bind(s) \/ WalletAnswers(s)
    <3>1. op'[s].pc \in {"boundary", "bound", "submitted"} /\ op'[s].pc # op[s].pc
      BY <2>3, <2>4 DEF Begin, Bind, WalletAnswers, Operation
    <3> QED BY <3>1
  <2>5. CASE Finish(s)
    <3>1. op'[s].pc = "idle"
      BY <2>3, <2>5 DEF Finish, Idle
    <3> QED BY <3>1 DEF Working
  <2> QED BY <1>1, <2>2, <2>4, <2>5 DEF CheckFails, NotSent, WalletRejects, WalletLost,
                                       Submitted
<1>2. CASE \E t \in Sessions, k \in Scopes : Confirm(t, k) \/ Recover(t, k)
  BY <1>2 DEF Confirm, Recover
<1>3. CASE \E t \in Sessions, x \in Tx : Request(t, x)
  BY <1>3 DEF Request
<1>4. CASE \E t \in Sessions : PageCloses(t)
  BY <1>4 DEF PageCloses
<1>5. CASE \E x \in Tx : Broadcast(x) \/ Mine(x)
  BY <1>5 DEF Broadcast, Mine
<1> QED BY <1>1, <1>2, <1>3, <1>4, <1>5 DEF Next

\* Nobody takes an attempt away from a page that is still running it, except
\* with the proof that its own transaction is final.
THEOREM BorrowRunningAttemptIsKept == Spec => RunningAttemptIsKept
<1> DEFINE Kept(s) ==
      LET k == op[s].scope
      IN  /\ op[s].pc \in {"boundary", "bound", "prompt", "submitted"}
          /\ op'[s] = op[s]
          /\ ledger[k].status # "none" /\ ledger'[k].status = "none"
          => ledger[k].tx = op[s].tx /\ Final(op[s].tx)
<1>1. ASSUME IInv, Next, NEW s \in Sessions
      PROVE  Kept(s)
  <2> SUFFICES ASSUME op[s].pc \in {"boundary", "bound", "prompt", "submitted"},
                      op'[s] = op[s],
                      ledger[op[s].scope].status # "none",
                      ledger'[op[s].scope].status = "none"
               PROVE  ledger[op[s].scope].tx = op[s].tx /\ Final(op[s].tx)
    OBVIOUS
  <2>1. op[s].pc \in Working /\ op[s].scope \in Scopes
    BY <1>1 DEF Working, IInv, LockOK
  <2>2. PICK t \in Sessions : Acknowledge(t)
    BY <1>1, <2>1, OthersLeaveTheLedger
  <2>3. /\ ack[t] # NoProof /\ ack[t].scope = op[s].scope
        /\ Resolves(t, ledger[ack[t].scope], ack[t])
    BY <1>1, <2>1, <2>2 DEF Acknowledge, IInv, TypeOK
  <2>4. /\ ledger[op[s].scope].tx \in Tx /\ ledger[op[s].scope].tx = ack[t].tx
        /\ Final(ack[t].tx)
    BY <1>1, <2>1, <2>3, ResolvesFinal
  <2>5. op[s].pc = "submitted"
    BY <1>1, <2>4, BorrowAssumption DEF IInv, WorkOK
  <2>6. ledger[op[s].scope].tx = op[s].tx
    BY <1>1, <2>4, <2>5, BorrowAssumption DEF IInv, WorkOK
  <2> QED BY <2>4, <2>6
<1>2. IInv /\ [Next]_vars => [\A s \in Sessions : Kept(s)]_vars
  BY <1>1
<1> QED BY <1>2, Invariant, PTL DEF Spec, RunningAttemptIsKept

-----------------------------------------------------------------------------
(***************************************************************************)
(* BorrowAttempt implements OneOutstanding.                                *)
(***************************************************************************)
Made == {x \in Tx : writes[x].status # "unused"}

Opened == {x \in Tx : writes[x].status \in Live}

\* What a step does to the wallet's requests: nothing, a new one, or a change of
\* status of one that is open.
WritesStep ==
  \/ UNCHANGED writes
  \/ \E s \in Sessions, x \in Tx : Request(s, x)
  \/ \E x \in Tx, status \in {"limbo", "pending", "rejected", "success", "reverted"} :
       /\ Open(x)
       /\ writes' = [writes EXCEPT ![x] = [writes[x] EXCEPT !.status = status]]

LEMMA EveryStepIsAWritesStep ==
  ASSUME IInv, [Next]_vars
  PROVE  WritesStep
<1>1. CASE UNCHANGED vars
  BY <1>1 DEF vars, WritesStep
<1>2. CASE \E s \in Sessions, k \in Scopes : Confirm(s, k) \/ Recover(s, k)
  BY <1>2 DEF Confirm, Recover, WritesStep
<1>3. CASE \E s \in Sessions, x \in Tx : Request(s, x)
  BY <1>3 DEF WritesStep
<1>4. ASSUME NEW s \in Sessions,
             \/ CheckFails(s) \/ Begin(s) \/ NotSent(s) \/ Bind(s)
             \/ WalletAnswers(s) \/ Submitted(s) \/ Acknowledge(s)
      PROVE  WritesStep
  BY <1>4 DEF CheckFails, Begin, NotSent, Bind, WalletAnswers, Submitted, Acknowledge,
              WritesStep
<1>5. ASSUME NEW s \in Sessions, WalletRejects(s) \/ WalletLost(s) \/ PageCloses(s)
      PROVE  WritesStep
  <2>1. CASE writes[op[s].tx].status = "prompt" /\ op[s].pc = "prompt"
    <3>1. op[s].tx \in Tx /\ Open(op[s].tx)
      BY <2>1 DEF IInv, WorkOK, Open, Live
    <3>2. \E status \in {"limbo", "rejected"} :
            writes' = [writes EXCEPT ![op[s].tx] = [writes[op[s].tx] EXCEPT !.status = status]]
      BY <1>5, <2>1 DEF WalletRejects, WalletLost, PageCloses
    <3> QED BY <3>1, <3>2 DEF WritesStep
  <2>2. CASE writes[op[s].tx].status # "prompt" /\ op[s].pc = "prompt"
    <3>1. op[s].tx \in Tx /\ writes \in [Tx -> Write]
      BY <2>2 DEF IInv, TypeOK, WorkOK
    <3>2. UNCHANGED writes
      BY <1>5, <2>2, <3>1 DEF WalletRejects, WalletLost, PageCloses, Write
    <3> QED BY <3>2 DEF WritesStep
  <2>3. CASE op[s].pc # "prompt"
    BY <1>5, <2>3 DEF WalletRejects, WalletLost, PageCloses, WritesStep
  <2> QED BY <2>1, <2>2, <2>3
<1>6. ASSUME NEW x \in Tx, Broadcast(x) \/ Mine(x)
      PROVE  WritesStep
  <2>1. Open(x)
    BY <1>6 DEF Broadcast, Mine, Open, Live
  <2>2. \E status \in {"pending", "success", "reverted"} :
          writes' = [writes EXCEPT ![x] = [writes[x] EXCEPT !.status = status]]
    BY <1>6 DEF Broadcast, Mine
  <2> QED BY <2>1, <2>2 DEF WritesStep
<1> QED BY <1>1, <1>2, <1>3, <1>4, <1>5, <1>6 DEF Next

\* A change of status leaves a request open or closes it; nothing else changes.
LEMMA SettlingCloses ==
  ASSUME IInv, NEW x \in Tx, Open(x),
         NEW status \in {"limbo", "pending", "rejected", "success", "reverted"},
         writes' = [writes EXCEPT ![x] = [writes[x] EXCEPT !.status = status]]
  PROVE  Made' = Made /\ (Opened' = Opened \/ (x \in Opened /\ Opened' = {}))
<1> DEFINE w == [writes[x] EXCEPT !.status = status]
<1>1. w \in Write /\ w.status = status
  BY DEF IInv, TypeOK, Write, Live
<1>2. writes' = [writes EXCEPT ![x] = w]
  OBVIOUS
<1> HIDE DEF w
<1>3. writes'[x] = w /\ \A y \in Tx \ {x} : writes'[y] = writes[y]
  BY <1>1, <1>2, Put DEF IInv, TypeOK
<1>4. writes[x].status \in Live /\ \A y \in Tx : writes[y].status \in Live => y = x
  BY DEF IInv, OneOpenWrite, Open
<1>5. Made' = Made
  BY <1>1, <1>3, <1>4 DEF Made, Live
<1>6. CASE status \in Live
  BY <1>1, <1>3, <1>4, <1>5, <1>6 DEF Opened
<1>7. CASE status \notin Live
  BY <1>1, <1>3, <1>4, <1>5, <1>7 DEF Opened
<1> QED BY <1>5, <1>6, <1>7

\* A request is made while none is open.
LEMMA RequestMakes ==
  ASSUME IInv, NEW s \in Sessions, NEW x \in Tx, Request(s, x)
  PROVE  Opened = {} /\ x \notin Made /\ Made' = Made \cup {x} /\ Opened' = {x}
<1> DEFINE w == [scope |-> op[s].scope, status |-> "prompt"]
<1>1. op[s].pc = "bound" /\ op[s].scope \in Scopes /\ writes[x].status = "unused"
  BY DEF IInv, LockOK, Request, Working
<1>2. w \in Write /\ w.status = "prompt" /\ writes' = [writes EXCEPT ![x] = w]
  BY <1>1 DEF Request, Write, Live
<1> HIDE DEF w
<1>3. writes'[x] = w /\ \A y \in Tx \ {x} : writes'[y] = writes[y]
  BY <1>2, Put DEF IInv, TypeOK
<1>4. \A y \in Tx : writes[y].status \notin Live
  BY <1>1 DEF IInv, WorkOK, Open
<1> QED BY <1>1, <1>2, <1>3, <1>4 DEF Made, Opened, Live

\* The requests Borrow makes of the wallet are made one at a time: for every
\* number of pages, markets and requests BorrowAttempt implements OneOutstanding.
THEOREM BorrowAsksOneAtATime == Spec => AsksOneAtATime
<1>1. Init => Wallet!Init
  <2> SUFFICES ASSUME Init
               PROVE  Wallet!Init
    OBVIOUS
  <2>1. \A x \in Tx : writes[x].status = "unused"
    BY DEF Init
  <2> QED BY <2>1 DEF Wallet!Init, Live
<1>2. IInv /\ [Next]_vars => [Wallet!Next]_<<Made, Opened>>
  <2> SUFFICES ASSUME IInv, [Next]_vars
               PROVE  [Wallet!Next]_<<Made, Opened>>
    OBVIOUS
  <2>1. WritesStep
    BY EveryStepIsAWritesStep
  <2>2. CASE UNCHANGED writes
    BY <2>2 DEF Made, Opened
  <2>3. ASSUME NEW s \in Sessions, NEW x \in Tx, Request(s, x)
        PROVE  Wallet!Next
    <3>1. Opened = {} /\ x \notin Made /\ Made' = Made \cup {x} /\ Opened' = {x}
      BY <2>3, RequestMakes
    <3>2. Wallet!Make(x)
      BY <3>1 DEF Wallet!Make, Made, Opened
    <3> QED BY <3>2 DEF Wallet!Next
  <2>4. ASSUME NEW x \in Tx, Open(x),
               NEW status \in {"limbo", "pending", "rejected", "success", "reverted"},
               writes' = [writes EXCEPT ![x] = [writes[x] EXCEPT !.status = status]]
        PROVE  [Wallet!Next]_<<Made, Opened>>
    <3>1. Made' = Made /\ (Opened' = Opened \/ (x \in Opened /\ Opened' = {}))
      BY <2>4, SettlingCloses
    <3>2. ASSUME x \in Opened, Opened' = {}
          PROVE  Wallet!Close(x)
      BY <3>1, <3>2 DEF Wallet!Close, Made, Opened
    <3> QED BY <3>1, <3>2 DEF Wallet!Next
  <2> QED BY <2>1, <2>2, <2>3, <2>4 DEF WritesStep
<1> QED BY <1>1, <1>2, Invariant, PTL
        DEF Spec, AsksOneAtATime, Wallet!Spec, Made, Opened
=============================================================================
