---------------------------- MODULE EarnOperation ----------------------------
(***************************************************************************)
(* One wallet's Earn operations: a tab records the operation, hands the    *)
(* Earn Kit a guarded wallet, and settles the record from the chain.  A    *)
(* wallet request outlives the tab that made it, and the kit's call may go *)
(* on after its promise has failed.  A review that no longer holds, an     *)
(* amount or a vault that does not match are refused before any state      *)
(* changes and are left out.                                               *)
(***************************************************************************)
EXTENDS Naturals, FiniteSets

CONSTANTS
  Rec,        \* operations that can ever be recorded
  Tab,        \* tabs of the browser
  Tx,         \* executes that can ever be asked for
  None,
  Keep,       \* KEEP_SETTLED
  MaxFaults   \* bound: closed tabs, refused storage writes, failed reads

ASSUME EarnConstants ==
  /\ IsFiniteSet(Rec) /\ IsFiniteSet(Tab) /\ IsFiniteSet(Tx)
  /\ None \notin Rec \cup Tab \cup Tx
  /\ Keep \in Nat \ {0} /\ MaxFaults \in Nat

VARIABLES
  journal,  \* the stored records; "none" not yet made, "pruned" dropped again
  lock,     \* the Web Lock machina-earn:<account>
  tab,      \* execute and checkStatus in each tab
  kit,      \* the Earn Kit's call for each record, and the tab it lives in
  tx,       \* wallet and chain: the executes of this wallet
  latest,   \* number of this wallet's executes on the chain
  beyond,   \* open operations the head has left too far behind to search for
  faults

vars == <<journal, lock, tab, kit, tx, latest, beyond, faults>>

Answer == {"none", "requested", "hash", "rejected", "failed"}
Final == {"success", "reverted", "not_sent"}
Open(r) == journal[r].outcome \in {"sending", "unknown"}
Stored(r) == journal[r].outcome \notin {"none", "pruned"}

Idle == [step |-> "idle", rec |-> None, nonce |-> 0, hash |-> None, other |-> FALSE,
         verdict |-> "unknown"]
Off == [at |-> "off", in |-> None, tx |-> None]

Init ==
  /\ journal = [r \in Rec |-> [outcome |-> "none", approved |-> FALSE, execute |-> "none",
                               hash |-> None, nonce |-> 0]]
  /\ lock = None
  /\ tab = [t \in Tab |-> Idle]
  /\ kit = [r \in Rec |-> Off]
  /\ tx = [x \in Tx |-> [of |-> None, state |-> "unused", nonce |-> 0]]
  /\ latest = 0
  /\ beyond = {}
  /\ faults = 0

\* Fresh records and executes are interchangeable: the next one is taken.
Fresh(S) == IF S = {} THEN {} ELSE {CHOOSE e \in S : TRUE}
Unused == {x \in Tx : tx[x].state = "unused"}

Fault == faults < MaxFaults /\ faults' = faults + 1
NoFault == UNCHANGED faults

-----------------------------------------------------------------------------
(* The journal *)

\* writeEarnJournal: open records stay, of the settled ones the last written
\* (which ones those are is abstracted, but for the one just written).
Written(j, r) ==
  LET settled == {q \in Rec : j[q].outcome \in Final}
      kept == {k \in SUBSET settled : /\ k = settled \/ Cardinality(k) = Keep
                                      /\ Cardinality(k) <= Keep
                                      /\ r \in settled => r \in k}
  IN  {[q \in Rec |-> IF q \in settled \ k THEN [j[q] EXCEPT !.outcome = "pruned"] ELSE j[q]] : k \in kept}

\* saveEarnRecord
Save(r, record) == journal' \in Written([journal EXCEPT ![r] = record], r)

\* mark of the guarded provider: whatever the outcome is by now, if the record
\* is there; a write that fails is ignored.
Mark(r, record) ==
  \/ NoFault /\ IF Stored(r) THEN Save(r, record) ELSE UNCHANGED journal
  \/ Fault /\ UNCHANGED journal

-----------------------------------------------------------------------------
(* Starting an operation *)

\* The callback under the lock ends.
Leave(t) == tab' = [tab EXCEPT ![t] = Idle] /\ lock' = None

Start(t) ==
  /\ tab[t].step = "idle" /\ lock = None
  /\ \A r \in Rec : ~Open(r)
  /\ lock' = t
  /\ tab' = [tab EXCEPT ![t].step = "attempt"]
  /\ UNCHANGED <<journal, kit, tx, latest, beyond, faults>>

Pending == {x \in Tx : tx[x].state = "pending"}

\* readEarnAttempt: no transaction of the wallet is pending.
ReadAttempt(t) ==
  /\ tab[t].step = "attempt"
  /\ IF Pending = {} THEN /\ tab' = [tab EXCEPT ![t].step = "record", ![t].nonce = latest]
                          /\ UNCHANGED lock
     ELSE Leave(t)
  /\ UNCHANGED <<journal, kit, tx, latest, beyond, faults>>

\* A balance has changed, or the network cannot be read: nothing was recorded.
GiveUp(t) ==
  /\ tab[t].step \in {"attempt", "record"}
  /\ Leave(t)
  /\ UNCHANGED <<journal, kit, tx, latest, beyond, faults>>

\* createEarnRecord, and the kit's call begins.
Record(t) ==
  /\ tab[t].step = "record"
  /\ UNCHANGED <<tx, latest, beyond>>
  /\ \E r \in Fresh({q \in Rec : journal[q].outcome = "none"}) :
          \/ /\ Save(r, [journal[r] EXCEPT !.outcome = "sending", !.nonce = tab[t].nonce])
             /\ tab' = [tab EXCEPT ![t] = [Idle EXCEPT !.step = "running", !.rec = r]]
             /\ kit' = [kit EXCEPT ![r] = [Off EXCEPT !.at = "ready", !.in = t]]
             /\ NoFault /\ UNCHANGED lock
          \/ Fault /\ Leave(t) /\ UNCHANGED <<journal, kit>>

-----------------------------------------------------------------------------
(* guardEarnProvider: the kit asks for an approval or an execute at any time *)

\* Mutants: the outcome is not read again; the request made is not looked up.
AllowedWhateverTheOutcome(r, kind) ==
  /\ journal[r].execute = "none"
  /\ kind = "approve" => ~journal[r].approved

AllowedAgain(r, kind) ==
  /\ journal[r].outcome = "sending"
  /\ kind = "approve" => ~journal[r].approved

Allowed(r, kind) ==
  /\ journal[r].outcome = "sending" /\ journal[r].execute = "none"
  /\ kind = "approve" => ~journal[r].approved

\* What the wallet answers to an approval decides nothing and is left out.
RequestApproval(r) ==
  /\ kit[r].at = "ready"
  /\ \/ /\ Allowed(r, "approve")
        /\ Save(r, [journal[r] EXCEPT !.approved = TRUE])
        /\ NoFault /\ UNCHANGED kit
     \/ /\ IF Allowed(r, "approve") THEN Fault ELSE NoFault
        /\ kit' = [kit EXCEPT ![r] = Off]
        /\ UNCHANGED journal
  /\ UNCHANGED <<lock, tab, tx, latest, beyond>>

RequestExecute(r) ==
  /\ kit[r].at = "ready"
  /\ \/ \E x \in Tx :
          /\ Allowed(r, "execute") /\ tx[x].state = "unused"
          /\ Save(r, [journal[r] EXCEPT !.execute = "requested"])
          /\ tx' = [tx EXCEPT ![x] = [of |-> r, state |-> "prompt", nonce |-> 0]]
          /\ kit' = [kit EXCEPT ![r].at = "executing", ![r].tx = x]
          /\ NoFault
     \/ /\ IF Allowed(r, "execute") THEN Fault ELSE NoFault
        /\ kit' = [kit EXCEPT ![r] = Off]
        /\ UNCHANGED <<journal, tx>>
  /\ UNCHANGED <<lock, tab, latest, beyond>>

\* The wallet answers: the hash once it has sent the transaction, a rejection
\* once the user has refused, and an error at any time.
Answers(x) ==
  {"failed"} \cup (IF tx[x].state = "refused" THEN {"rejected"} ELSE {})
             \cup (IF tx[x].state \in {"pending", "mined", "reverted"} THEN {"hash"} ELSE {})

\* Mutant: the answer is written on the record as it was before the request.
ExecuteAnsweredOnOldRecord(r) ==
  /\ kit[r].at = "executing"
  /\ LET x == kit[r].tx
     IN  \E a \in Answers(x) :
           Mark(r, [journal[r] EXCEPT !.outcome = "sending", !.execute = a, !.hash = IF a = "hash" THEN x ELSE @])
  /\ kit' = [kit EXCEPT ![r].at = "ready", ![r].tx = None]
  /\ UNCHANGED <<lock, tab, tx, latest, beyond>>

ExecuteAnswered(r) ==
  /\ kit[r].at = "executing"
  /\ LET x == kit[r].tx
     IN  \E a \in Answers(x) :
           Mark(r, [journal[r] EXCEPT !.execute = a, !.hash = IF a = "hash" THEN x ELSE @])
  /\ kit' = [kit EXCEPT ![r].at = "ready", ![r].tx = None]
  /\ UNCHANGED <<lock, tab, tx, latest, beyond>>

-----------------------------------------------------------------------------
(* The wallet and the chain (external). Approvals use nonces too; only the   *)
(* order of the executes is compared, so only they are counted.              *)

Broadcast(x) ==
  /\ tx[x].state = "prompt"
  /\ tx' = [tx EXCEPT ![x].state = "pending", ![x].nonce = latest + Cardinality(Pending)]
  /\ UNCHANGED <<journal, lock, tab, kit, latest, beyond, faults>>

Refuse(x) ==
  /\ tx[x].state = "prompt"
  /\ tx' = [tx EXCEPT ![x].state = "refused"]
  /\ UNCHANGED <<journal, lock, tab, kit, latest, beyond, faults>>

Mine(x) ==
  /\ tx[x].state = "pending" /\ tx[x].nonce = latest
  /\ \E s \in {"mined", "reverted"} : tx' = [tx EXCEPT ![x].state = s]
  /\ latest' = latest + 1
  /\ UNCHANGED <<journal, lock, tab, kit, beyond, faults>>

\* The same operation of this wallet on another device, while none is open
\* here: at the same time the code could not tell the two apart.
MinedElsewhere(x) ==
  /\ lock = None /\ Pending = {} /\ \A r \in Rec : ~Open(r)
  /\ x \in Fresh(Unused)
  /\ tx' = [tx EXCEPT ![x] = [of |-> None, state |-> "mined", nonce |-> latest]]
  /\ latest' = latest + 1
  /\ UNCHANGED <<journal, lock, tab, kit, beyond, faults>>

\* More than six windows of 10,000 blocks have passed since the attempts of the
\* operations that may have to be searched for; in such a time no tab is still
\* between reading an attempt and recording it.
HeadMovesOn ==
  /\ \A t \in Tab : tab[t].step # "record"
  /\ \E r \in Rec : Open(r) /\ journal[r].hash = None /\ r \notin beyond
  /\ beyond' = {r \in Rec : Open(r) /\ journal[r].hash = None}
  /\ UNCHANGED <<journal, lock, tab, kit, tx, latest, faults>>

-----------------------------------------------------------------------------
(* settleEarnRecord *)

\* The kit's promise settles, whatever its own call still does; the hash it
\* reports may be another one than the wallet's.
KitEnds(t) ==
  /\ tab[t].step = "running"
  /\ \E other \in BOOLEAN : tab' = [tab EXCEPT ![t].step = "settle", ![t].other = other]
  /\ UNCHANGED <<journal, lock, kit, tx, latest, beyond, faults>>

CheckStatus(t) ==
  /\ tab[t].step = "idle" /\ lock = None
  /\ lock' = t
  /\ \E r \in Rec : Open(r) /\ tab' = [tab EXCEPT ![t].step = "settle", ![t].rec = r]
  /\ UNCHANGED <<journal, kit, tx, latest, beyond, faults>>

\* The record is read; without an execute that may have been sent, or with two
\* hashes that disagree, it is decided at once.
NeverSent(r) == journal[r].hash = None /\ journal[r].execute \in {"none", "rejected"}
Disagree(t) == tab[t].other /\ journal[tab[t].rec].hash # None

ReadRecord(t) ==
  /\ tab[t].step = "settle"
  /\ LET r == tab[t].rec IN
     IF NeverSent(r) \/ Disagree(t)
     THEN /\ Leave(t)
          /\ \/ /\ Save(r, [journal[r] EXCEPT !.outcome = IF NeverSent(r) THEN "not_sent" ELSE "unknown"])
                /\ NoFault
             \/ Fault /\ UNCHANGED journal
     ELSE /\ tab' = [tab EXCEPT ![t].step = "judge", ![t].hash = journal[r].hash,
                                  ![t].other = FALSE]
          /\ UNCHANGED <<journal, lock, faults>>
  /\ UNCHANGED <<kit, tx, latest, beyond>>

\* findLostExecute: the successful executes at or after the attempt's nonce that
\* no other record has, if the search reaches the head.
Known(r) == {journal[q].hash : q \in {p \in Rec \ {r} : Stored(p)}}
\* Mutants: the attempt's nonce is not compared, or must be exceeded.
FoundAtAnyNonce(r) ==
  {x \in Tx : tx[x].state = "mined" /\ x \notin Known(r) /\ r \notin beyond}

FoundAfterNonce(r) ==
  {x \in Tx : /\ tx[x].state = "mined" /\ tx[x].nonce > journal[r].nonce
              /\ x \notin Known(r) /\ r \notin beyond}

Found(r) ==
  {x \in Tx : /\ tx[x].state = "mined" /\ tx[x].nonce >= journal[r].nonce
              /\ x \notin Known(r) /\ r \notin beyond}

\* Mutant: what has no receipt was not sent.
VerdictWithoutReceipt(x) == IF tx[x].state = "mined" THEN "success"
                            ELSE IF tx[x].state = "reverted" THEN "reverted" ELSE "not_sent"

\* verifyExecute
Verdict(x) == CASE tx[x].state = "mined" -> "success"
                [] tx[x].state = "reverted" -> "reverted"
                [] OTHER -> "unknown"

\* Exactly one is adopted; a candidate that cannot be read is passed over.
Judge(t) ==
  /\ tab[t].step = "judge"
  /\ LET r == tab[t].rec
         found == IF tab[t].hash # None THEN {tab[t].hash} ELSE Found(r)
     IN  \/ \E x \in found :
              /\ IF found = {x} THEN NoFault ELSE Fault
              /\ tab' = [tab EXCEPT ![t].step = "save", ![t].hash = x, ![t].verdict = Verdict(x)]
         \/ /\ IF Cardinality(found) = 1 THEN Fault ELSE NoFault
            /\ tab' = [tab EXCEPT ![t].step = "save"]
  /\ UNCHANGED <<journal, lock, kit, tx, latest, beyond>>

\* patchEarnRecord, on the record as it is stored now.
SaveVerdict(t) ==
  /\ tab[t].step = "save"
  /\ LET r == tab[t].rec
     IN  \/ Save(r, [journal[r] EXCEPT !.outcome = tab[t].verdict,
                                       !.hash = IF tab[t].hash # None THEN tab[t].hash ELSE @]) /\ NoFault
         \/ Fault /\ UNCHANGED journal
  /\ Leave(t)
  /\ UNCHANGED <<kit, tx, latest, beyond>>

\* The tab is closed or reloaded; its requests stay with the wallet.
Close(t) ==
  /\ tab[t].step # "idle" \/ \E r \in Rec : kit[r].in = t
  /\ Fault
  /\ tab' = [tab EXCEPT ![t] = Idle]
  /\ lock' = IF lock = t THEN None ELSE lock
  /\ kit' = [r \in Rec |-> IF kit[r].in = t THEN Off ELSE kit[r]]
  /\ UNCHANGED <<journal, tx, latest, beyond>>

-----------------------------------------------------------------------------
Next ==
  \/ \E t \in Tab : Start(t) \/ ReadAttempt(t) \/ GiveUp(t) \/ Record(t) \/ KitEnds(t) \/ CheckStatus(t)
                      \/ ReadRecord(t) \/ Judge(t) \/ SaveVerdict(t) \/ Close(t)
  \/ \E r \in Rec : RequestApproval(r) \/ RequestExecute(r) \/ ExecuteAnswered(r)
  \/ \E x \in Tx : Broadcast(x) \/ Refuse(x) \/ Mine(x) \/ MinedElsewhere(x)
  \/ HeadMovesOn

Spec == Init /\ [][Next]_vars

\* A tab goes on (one that hangs in the kit's call is reloaded), the user asks
\* for the status of an open operation. Failed reads and writes are bounded.
FairSpec ==
  /\ Spec
  /\ \A t \in Tab : /\ WF_vars(ReadAttempt(t)) /\ WF_vars(KitEnds(t)) /\ WF_vars(CheckStatus(t))
                    /\ WF_vars(Record(t)) /\ WF_vars(ReadRecord(t)) /\ WF_vars(Judge(t))
                    /\ WF_vars(SaveVerdict(t))

-----------------------------------------------------------------------------
(* Properties *)

TypeOK ==
  /\ journal \in [Rec -> [outcome : Final \cup {"none", "pruned", "sending", "unknown"}, approved : BOOLEAN,
                          execute : Answer, hash : Tx \cup {None}, nonce : Nat]]
  /\ lock \in Tab \cup {None}
  /\ tab \in [Tab -> [step : {"idle", "attempt", "record", "running", "settle", "judge", "save"},
                      rec : Rec \cup {None}, nonce : Nat, hash : Tx \cup {None}, other : BOOLEAN,
                      verdict : {"success", "reverted", "unknown"}]]
  /\ kit \in [Rec -> [at : {"off", "ready", "executing"}, in : Tab \cup {None},
                      tx : Tx \cup {None}]]
  /\ tx \in [Tx -> [of : Rec \cup {None}, nonce : Nat,
                    state : {"unused", "prompt", "pending", "mined", "reverted", "refused"}]]
  /\ latest \in Nat
  /\ beyond \subseteq Rec
  /\ faults \in 0 .. MaxFaults

\* An execute that can still move funds blocks: its record stays open, over
\* lost answers, late answers, closed tabs and refused storage writes.
Live(x) == tx[x].state \in {"prompt", "pending"}
LiveExecuteBlocks == \A x \in Tx : Live(x) => Open(tx[x].of)

\* What the journal says of a settled operation is what happened to its own
\* execute, and "not_sent" means that none can ever happen.
SettledIsTrue ==
  \A r \in Rec :
    LET own == {x \in Tx : tx[x].of = r}
        outcome == journal[r].outcome
    IN  /\ outcome = "success" => journal[r].hash \in own /\ tx[journal[r].hash].state = "mined"
        /\ outcome = "reverted" => journal[r].hash \in own /\ tx[journal[r].hash].state = "reverted"
        /\ outcome = "not_sent" => \A x \in own : tx[x].state = "refused"

\* A settled record is not written again, except to drop it: a late answer of
\* the wallet or of the kit changes nothing.
SettledIsFinal ==
  [][\A r \in Rec : journal[r].outcome \in Final
       => journal'[r].outcome \in {journal[r].outcome, "pruned"} /\ journal'[r].hash = journal[r].hash]_vars

\* Over all tabs and operations the wallet is asked for one execute at a time.
Wallet == INSTANCE OneOutstanding WITH
  Requests <- Tx,
  made <- {x \in Tx : tx[x].of # None},
  open <- {x \in Tx : Live(x)}

AsksOneAtATime == Wallet!Spec

\* An open operation that can be decided is decided: its execute was never
\* asked for or was refused, it succeeded and can still be found, or its hash is
\* known.
Decidable(r) ==
  LET own == {x \in Tx : tx[x].of = r}
  IN  \/ journal[r].execute \in {"none", "rejected"}
      \/ \E x \in own : tx[x].state = "mined" /\ r \notin beyond
      \/ \E x \in own : tx[x].state \in {"mined", "reverted"} /\ journal[r].hash = x

DecidableSettles == \A r \in Rec : Open(r) /\ Decidable(r) ~> ~(Open(r) /\ Decidable(r))
=============================================================================
