------------------------------ MODULE SuiWrite ------------------------------
(***************************************************************************)
(* One Sui/Arc wallet write at a time: the controller of                   *)
(* mainnetSuiExecution with its journal, and the parts of its port that    *)
(* decide what a write became (locate, recover, reconcile).                *)
(*                                                                         *)
(* "sui" and "arc-sign" transactions are signed by the wallet and sent by  *)
(* the controller; for "arc-send" the wallet signs and sends.  A Sui       *)
(* digest is known before the signature, an Arc hash only after it.  The   *)
(* wallets and the chains are external; an Arc wallet may change fields of *)
(* what it sends, but keeps the nonce.                                     *)
(***************************************************************************)
EXTENDS Naturals

CONSTANTS
  Tabs,  \* pages with a controller
  Tx,    \* attempts; |Tx| bounds how many are made
  None

Methods == {"sui", "arc-sign", "arc-send"}

ASSUME SuiAssumption == None \notin Tabs \cup Tx \cup Methods

VARIABLES
  journal,  \* localStorage "machina_mainnet_sui_write_attempt_v1"
  lock,     \* navigator.locks "machina:mainnet-sui-wallet-write"
  held,     \* held[t]: how the reviewed transaction of t is to be executed
  tab,      \* where the operation of every tab stands
  reqs,     \* what became of the transaction of every attempt
  spent     \* attempts whose nonce another transaction consumed

vars == <<journal, lock, held, tab, reqs, spent>>

Settled == {"verified", "reverted", "rejected", "reconciled"}

Journal ==
  [id : Tx \cup {None}, method : Methods \cup {None},
   state : Settled \cup {"none", "signing", "sending", "broadcasting", "unknown",
                         "pending", "mismatch"},
   digest : {"none", "own", "other"}]

Tab == [pc : {"idle", "recheck", "sign", "signed", "broadcast", "send",
              "load", "locate", "judge"},
        x : Tx \cup {None}, snap : Journal]

\* "asking": the page still reads the account before it asks the wallet.
Request ==
  [method : Methods \cup {None}, exact : BOOLEAN, tab : Tabs \cup {None},
   status : {"unused", "asking", "prompt", "signed", "sent", "pending",
             "success", "reverted", "rejected", "dead"}]

NoAttempt == [id |-> None, method |-> None, state |-> "none", digest |-> "none"]

Idle == [pc |-> "idle", x |-> None, snap |-> NoAttempt]

Init ==
  /\ journal = NoAttempt
  /\ lock = None
  /\ held = [t \in Tabs |-> None]
  /\ tab = [t \in Tabs |-> Idle]
  /\ reqs = [x \in Tx |-> [method |-> None, exact |-> TRUE, tab |-> None, status |-> "unused"]]
  /\ spent = {}

(***************************************************************************)
(* The journal and the lock.                                               *)
(***************************************************************************)
Unresolved == journal.state \notin Settled \cup {"none"}

\* save(): a write the browser drops throws, and the old record stays.
Saved(state, digest) ==
  {journal, [journal EXCEPT !.state = state, !.digest = digest]}

\* The operation returns or throws, and its lock ends with it.
Finish(t) ==
  /\ lock' = IF lock = t THEN None ELSE lock
  /\ tab' = [tab EXCEPT ![t] = Idle]

Became(x, status) == reqs' = [reqs EXCEPT ![x].status = status]

(***************************************************************************)
(* prepare(), invalidate() and the part of confirm() before the wallet.    *)
(***************************************************************************)
Prepare(t, method) ==
  /\ tab[t].pc = "idle"
  /\ ~Unresolved
  /\ held' = [held EXCEPT ![t] = method]
  /\ UNCHANGED <<journal, lock, tab, reqs, spent>>

Invalidate(t) ==
  /\ held[t] # None
  /\ held' = [held EXCEPT ![t] = None]
  /\ UNCHANGED <<journal, lock, tab, reqs, spent>>

\* Mutant: trusts the reading of prepare().
Confirm_NoRecheck(t) ==
  /\ tab[t].pc = "idle" /\ held[t] # None
  /\ lock = None
  /\ lock' = t
  /\ tab' = [tab EXCEPT ![t].pc = "recheck"]
  /\ UNCHANGED <<journal, held, reqs, spent>>

Confirm(t) ==
  /\ tab[t].pc = "idle" /\ held[t] # None
  /\ lock = None
  /\ ~Unresolved
  /\ lock' = t
  /\ tab' = [tab EXCEPT ![t].pc = "recheck"]
  /\ UNCHANGED <<journal, held, reqs, spent>>

\* The review is out of date, a check fails, or the attempt cannot be saved.
ConfirmFails(t) ==
  /\ tab[t].pc = "recheck"
  /\ Finish(t)
  /\ UNCHANGED <<journal, held, reqs, spent>>

\* The attempt is saved before the wallet is asked; it uses up the review.
Begin(t, x, pc, state, status) ==
  LET method == held[t]
  IN  /\ tab[t].pc = "recheck"
      /\ reqs[x].status = "unused"
      /\ journal' = [id |-> x, method |-> method, state |-> state,
                     digest |-> IF method = "sui" THEN "own" ELSE "none"]
      /\ held' = [held EXCEPT ![t] = None]
      /\ tab' = [tab EXCEPT ![t] = [@ EXCEPT !.pc = pc, !.x = x]]
      /\ reqs' = [reqs EXCEPT ![x] =
           [method |-> method, exact |-> TRUE, tab |-> t, status |-> status]]
      /\ UNCHANGED <<lock, spent>>

(***************************************************************************)
(* Signed by the wallet, sent by the controller.                           *)
(***************************************************************************)
AskSignature(t, x) ==
  held[t] \in {"sui", "arc-sign"} /\ Begin(t, x, "sign", "signing", "prompt")

SignatureRejected(t) ==
  /\ tab[t].pc = "sign"
  /\ Became(tab[t].x, "rejected")
  /\ journal' \in Saved("rejected", journal.digest)
  /\ Finish(t)
  /\ UNCHANGED <<held, spent>>

Signs(t) ==
  /\ tab[t].pc = "sign"
  /\ Became(tab[t].x, "signed")
  /\ tab' = [tab EXCEPT ![t].pc = "signed"]
  /\ UNCHANGED <<journal, lock, held, spent>>

\* The wallet errs or does not answer in time, or the signed transaction is not
\* the reviewed one or is out of date: it is dropped and never sent.
SignatureUnused(t) ==
  /\ tab[t].pc \in {"sign", "signed"}
  /\ Became(tab[t].x, "dead")
  /\ \/ journal' \in Saved("unknown", journal.digest)
     \/ tab[t].pc = "signed" /\ journal' \in Saved("unknown", "own")
  /\ Finish(t)
  /\ UNCHANGED <<held, spent>>

\* The hash is saved before the only broadcast.
Send(t) ==
  /\ tab[t].pc = "signed"
  /\ journal' = [journal EXCEPT !.state = "broadcasting", !.digest = "own"]
  /\ Became(tab[t].x, "sent")
  /\ tab' = [tab EXCEPT ![t].pc = "broadcast"]
  /\ UNCHANGED <<lock, held, spent>>

SendAccepted(t) ==
  /\ tab[t].pc = "broadcast"
  /\ reqs[tab[t].x].status \in {"pending", "success", "reverted"}
  /\ journal' \in Saved("pending", journal.digest)
  /\ Finish(t)
  /\ UNCHANGED <<held, reqs, spent>>

SendUnknown(t) ==
  /\ tab[t].pc = "broadcast"
  /\ journal' \in Saved("unknown", journal.digest)
  /\ Finish(t)
  /\ UNCHANGED <<held, reqs, spent>>

(***************************************************************************)
(* walletSend(): signed and sent by the wallet.                            *)
(***************************************************************************)
AskSend(t, x) ==
  held[t] = "arc-send" /\ Begin(t, x, "send", "sending", "asking")

\* Account and network are read once more.  It may happen that the controller
\* has given up by then.
WalletOpens(x) ==
  /\ reqs[x].status = "asking"
  /\ Became(x, "prompt")
  /\ UNCHANGED <<journal, lock, held, tab, spent>>

NotRequested(t) ==
  /\ tab[t].pc = "send" /\ reqs[tab[t].x].status = "asking"
  /\ Became(tab[t].x, "dead")
  /\ journal' \in Saved("rejected", "none")
  /\ Finish(t)
  /\ UNCHANGED <<held, spent>>

WalletRejects(t) ==
  /\ tab[t].pc = "send" /\ reqs[tab[t].x].status = "prompt"
  /\ Became(tab[t].x, "rejected")
  /\ journal' \in Saved("rejected", "none")
  /\ Finish(t)
  /\ UNCHANGED <<held, spent>>

Answered(x) == reqs[x].status \in {"pending", "success", "reverted"}

WalletAnswers(t) ==
  /\ tab[t].pc = "send" /\ Answered(tab[t].x)
  /\ journal' \in Saved("pending", "own")
  /\ Finish(t)
  /\ UNCHANGED <<held, reqs, spent>>

\* Mutant: an error of the wallet, or its silence, counts as a refusal.
WalletUnclear_Rejected(t) ==
  /\ tab[t].pc = "send"
  /\ \/ UNCHANGED reqs
     \/ /\ reqs[tab[t].x].status # "asking"
        /\ reqs' = [reqs EXCEPT ![tab[t].x].tab = None]
  /\ journal' \in Saved("rejected", "none")
  /\ Finish(t)
  /\ UNCHANGED <<held, spent>>

\* The wallet does not answer in time, its answer still being waited for; or it
\* errs.
WalletUnclear(t) ==
  /\ tab[t].pc = "send"
  /\ \/ UNCHANGED reqs
     \/ /\ reqs[tab[t].x].status # "asking"
        /\ reqs' = [reqs EXCEPT ![tab[t].x].tab = None]
  /\ journal' \in Saved("unknown", "none")
  /\ Finish(t)
  /\ UNCHANGED <<held, spent>>

\* An answer after the timeout is recorded without the lock.
LateAnswer(t, x) ==
  /\ reqs[x].tab = t /\ tab[t].x # x
  /\ Answered(x)
  /\ reqs' = [reqs EXCEPT ![x].tab = None]
  /\ journal' \in IF journal.id = x /\ journal.state = "unknown" /\ journal.digest = "none"
                  THEN Saved("pending", "own") ELSE {journal}
  /\ UNCHANGED <<lock, held, tab, spent>>

\* A closed page asks for nothing more and sends nothing more; what the wallet
\* already shows, or the network already has, is out of its hands.
TabCloses(t) ==
  /\ tab[t] # Idle \/ held[t] # None \/ \E x \in Tx : reqs[x].tab = t
  /\ held' = [held EXCEPT ![t] = None]
  /\ reqs' = [x \in Tx |->
       IF reqs[x].tab # t THEN reqs[x]
       ELSE [reqs[x] EXCEPT !.tab = None,
               !.status = IF @ \in {"asking", "signed"} THEN "dead" ELSE @]]
  /\ Finish(t)
  /\ UNCHANGED <<journal, spent>>

(***************************************************************************)
(* recover(): read before the lock, judged under it.                       *)
(***************************************************************************)
LoadAttempt(t) ==
  /\ tab[t].pc = "idle"
  /\ Unresolved /\ journal.state # "mismatch"
  /\ journal.digest # "none" \/ journal.method = "arc-send"
  /\ tab' = [tab EXCEPT ![t] = [@ EXCEPT !.pc = "load", !.snap = journal]]
  /\ UNCHANGED <<journal, lock, held, reqs, spent>>

LockAttempt(t) ==
  /\ tab[t].pc = "load"
  /\ lock = None
  /\ journal.id = tab[t].snap.id
  /\ lock' = t
  /\ tab' = [tab EXCEPT ![t].pc = IF tab[t].snap.digest = "none" THEN "locate" ELSE "judge"]
  /\ UNCHANGED <<journal, held, reqs, spent>>

\* Another attempt, a busy lock, a failed reading, no transaction found.
RecoverFails(t) ==
  /\ tab[t].pc \in {"load", "locate", "judge"}
  /\ Finish(t)
  /\ UNCHANGED <<journal, held, reqs, spent>>

\* locate(): the one transaction that consumed the reviewed nonce.
Located(x) ==
  IF x \in spent THEN {"other"}
  ELSE IF reqs[x].status \in {"success", "reverted"} THEN {"own"} ELSE {}

Locate(t) ==
  LET a == tab[t].snap
  IN  /\ tab[t].pc = "locate"
      /\ journal.id = a.id
      /\ \E digest \in Located(a.id) :
           LET found == [a EXCEPT !.state = "pending", !.digest = digest]
           IN  /\ journal' = found
               /\ tab' = [tab EXCEPT ![t] = [@ EXCEPT !.pc = "judge", !.snap = found]]
      /\ UNCHANGED <<lock, held, reqs, spent>>

\* Mutant: looks at the receipt only, not at the fields.
Judged_AnyFields(a) ==
  CASE reqs[a.id].status = "success" -> {"verified"}
    [] reqs[a.id].status = "reverted" -> {"reverted"}
    [] OTHER -> {"pending"}

\* port.recover(): independent evidence of the recorded transaction.  Other
\* fields than the reviewed ones are never a success; a Sui transaction that
\* is not found is no answer, an Arc one is pending.
Judged(a) ==
  LET r == reqs[a.id]
      known == \/ r.status \in {"success", "reverted"}
               \/ r.status = "pending" /\ a.id \notin spent
  IN  CASE a.digest = "other" -> {"mismatch"}
        [] a.digest = "own" /\ known /\ ~r.exact -> {"mismatch"}
        [] a.digest = "own" /\ r.status = "success" /\ r.exact -> {"verified"}
        [] a.digest = "own" /\ r.status = "reverted" /\ r.exact -> {"reverted"}
        [] OTHER -> IF a.method = "sui" /\ ~known THEN {} ELSE {"pending"}

Judge(t) ==
  LET a == tab[t].snap
  IN  /\ tab[t].pc = "judge"
      /\ journal.id = a.id
      /\ \E state \in Judged(a) : journal' = [a EXCEPT !.state = state]
      /\ Finish(t)
      /\ UNCHANGED <<held, reqs, spent>>

\* reconcile() with the key of the evidence the user saw: the recorded
\* transaction is mined, it consumed the reviewed nonce, and no transaction of
\* the sender is pending.
Reconcile(t) ==
  /\ tab[t].pc = "idle"
  /\ lock = None
  /\ journal.state = "mismatch" /\ journal.method = "arc-send"
  /\ \/ journal.digest = "other"
     \/ reqs[journal.id].status \in {"success", "reverted"}
  /\ \A x \in Tx \ spent : reqs[x].method # "sui" => reqs[x].status # "pending"
  /\ journal' = [journal EXCEPT !.state = "reconciled"]
  /\ UNCHANGED <<lock, held, tab, reqs, spent>>

(***************************************************************************)
(* The wallets and the chains (external).                                  *)
(***************************************************************************)
Broadcast(x) ==
  /\ x \notin spent
  /\ \/ /\ reqs[x].method = "arc-send" /\ reqs[x].status = "prompt"
        /\ \E exact \in BOOLEAN :
             reqs' = [reqs EXCEPT ![x] = [@ EXCEPT !.status = "pending", !.exact = exact]]
     \/ reqs[x].status = "sent" /\ Became(x, "pending")
  /\ UNCHANGED <<journal, lock, held, tab, spent>>

Mine(x) ==
  /\ reqs[x].status = "pending" /\ x \notin spent
  /\ \E status \in {"success", "reverted"} : Became(x, status)
  /\ UNCHANGED <<journal, lock, held, tab, spent>>

\* The owner refuses an Arc request nobody waits for any more.
DropsPrompt(x) ==
  /\ reqs[x].status = "prompt" /\ \A t \in Tabs : tab[t].x # x
  /\ Became(x, "dead")
  /\ UNCHANGED <<journal, lock, held, tab, spent>>

\* The owner sends something else with the nonce of the attempt.
OtherTransaction(x) ==
  /\ reqs[x].method \in {"arc-sign", "arc-send"}
  /\ reqs[x].status \notin {"success", "reverted"}
  /\ x \notin spent
  /\ spent' = spent \cup {x}
  /\ UNCHANGED <<journal, lock, held, tab, reqs>>

-----------------------------------------------------------------------------
Next ==
  \/ \E t \in Tabs, method \in Methods : Prepare(t, method)
  \/ \E t \in Tabs, x \in Tx : AskSignature(t, x) \/ AskSend(t, x) \/ LateAnswer(t, x)
  \/ \E t \in Tabs :
       \/ Invalidate(t)     \/ Confirm(t)           \/ ConfirmFails(t)
       \/ Signs(t)          \/ SignatureRejected(t) \/ SignatureUnused(t)
       \/ Send(t)           \/ SendAccepted(t)      \/ SendUnknown(t)
       \/ NotRequested(t)   \/ WalletRejects(t)     \/ WalletAnswers(t)
       \/ WalletUnclear(t)  \/ TabCloses(t)         \/ LoadAttempt(t)
       \/ LockAttempt(t)    \/ RecoverFails(t)      \/ Locate(t)
       \/ Judge(t)          \/ Reconcile(t)
  \/ \E x \in Tx : WalletOpens(x) \/ Broadcast(x) \/ Mine(x) \/ DropsPrompt(x)
                     \/ OtherTransaction(x)

Spec == Init /\ [][Next]_vars

(***************************************************************************)
(* Properties.                                                             *)
(***************************************************************************)
\* Every variable has its type: what is saved is what load() accepts.
TypeOK ==
  /\ journal \in Journal
  /\ lock \in Tabs \cup {None}
  /\ held \in [Tabs -> Methods \cup {None}]
  /\ tab \in [Tabs -> Tab]
  /\ reqs \in [Tx -> Request]
  /\ spent \subseteq Tx

\* A transaction that may still take effect.
Open(x) ==
  /\ reqs[x].status \in {"asking", "prompt", "signed", "sent", "pending"}
  /\ x \notin spent

\* A transaction that may still take effect is the one in the journal, and the
\* journal blocks every other: no timeout, closed tab, late answer, lost save
\* or reconciliation releases it.
OpenIsJournaled == \A x \in Tx : Open(x) => journal.id = x /\ Unresolved

\* The journal says verified or reverted only of the reviewed transaction, and
\* only of what the chain did with it; it says rejected only of one that will
\* never be sent.
SettledIsTrue ==
  LET r == reqs[journal.id]
  IN  /\ journal.state = "verified" => r.status = "success" /\ r.exact
      /\ journal.state = "reverted" => r.status = "reverted" /\ r.exact
      /\ journal.state = "rejected" => r.status \in {"rejected", "dead"}

\* Over all tabs and attempts the wallet is asked for one thing at a time.
Wallet == INSTANCE OneOutstanding WITH
  Requests <- Tx,
  made <- {x \in Tx : reqs[x].status # "unused"},
  open <- {x \in Tx : Open(x)}

AsksOneAtATime == Wallet!Spec
=============================================================================
