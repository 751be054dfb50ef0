--------------------------- MODULE SuiWriteProofs ---------------------------
(***************************************************************************)
(* Theorems about SuiWrite, for any number of tabs and attempts.           *)
(***************************************************************************)
EXTENDS SuiWrite, TLAPS

(***************************************************************************)
(* The inductive invariant.  Whoever holds the lock is alone with the      *)
(* journal, except for late answers; what a page that waits for a wallet   *)
(* may assume is that the journal still is what it wrote, and that nobody  *)
(* else can use what was signed.                                           *)
(***************************************************************************)
Working == {"recheck", "sign", "signed", "broadcast", "send", "locate", "judge"}

\* The points at which the page's own attempt is under way.
Underway == {"sign", "signed", "broadcast", "send"}

Decided == {"success", "reverted", "rejected", "dead"}

LockOK == \A t \in Tabs : tab[t].pc \in Working => lock = t

\* A nonce is spent only after it was reviewed.
RequestOK ==
  \A x \in Tx : reqs[x].status = "unused" => reqs[x].method = None /\ x \notin spent

\* The journal says how far the attempt is; what is being signed is with the
\* wallet and nowhere else.
WorkOK ==
  \A t \in Tabs :
    LET pc == tab[t].pc
        x == tab[t].x
    IN  /\ pc = "recheck" => ~Unresolved
        /\ pc \in Underway => x \in Tx /\ journal.id = x
        /\ pc \in {"sign", "signed"} =>
             /\ journal.state = "signing"
             /\ reqs[x].tab = t /\ reqs[x].method # "arc-send"
             /\ reqs[x].status = IF pc = "sign" THEN "prompt" ELSE "signed"
        /\ pc = "broadcast" => journal.state = "broadcasting"
        /\ pc = "send" => journal.state = "sending" /\ reqs[x].status # "unused"

\* A record names its attempt, and one that was found to be another transaction's
\* has lost its nonce to it.
Sound(a) == a.id \in Tx /\ (a.digest = "other" => a.id \in spent)

EvidenceOK ==
  /\ journal.state # "none" => Sound(journal)
  /\ \A t \in Tabs : tab[t].pc \in {"load", "locate", "judge"} => Sound(tab[t].snap)

IInv == /\ TypeOK /\ LockOK /\ RequestOK /\ WorkOK /\ EvidenceOK
        /\ OpenIsJournaled /\ SettledIsTrue

-----------------------------------------------------------------------------
(***************************************************************************)
(* Lemmas about the parts of a step.                                       *)
(***************************************************************************)
LEMMA Put ==
  ASSUME NEW S, NEW T, NEW f \in [S -> T], NEW i \in S, NEW e \in T, NEW g,
         g = [f EXCEPT ![i] = e]
  PROVE  g \in [S -> T] /\ g[i] = e /\ \A j \in S \ {i} : g[j] = f[j]
  OBVIOUS

\* Whoever works with the journal is the only one.
LEMMA Alone ==
  ASSUME LockOK, NEW t \in Tabs, tab[t].pc \in Working
  PROVE  \A u \in Tabs \ {t} : tab[u].pc \notin Working
  BY DEF LockOK

LEMMA IdleFacts == Idle \in Tab /\ Idle.pc = "idle" /\ NoAttempt \in Journal
  BY DEF Idle, Tab, NoAttempt, Journal

\* The end of an operation.
LEMMA FinishOK ==
  ASSUME TypeOK, LockOK, NEW t \in Tabs, Finish(t)
  PROVE  /\ tab' \in [Tabs -> Tab] /\ lock' \in Tabs \cup {None}
         /\ tab'[t].pc = "idle"
         /\ \A u \in Tabs \ {t} : tab'[u] = tab[u]
         /\ LockOK'
         /\ tab[t].pc \in Working => \A u \in Tabs : tab'[u].pc \notin Working
<1>1. /\ tab' \in [Tabs -> Tab] /\ tab'[t] = Idle
      /\ \A u \in Tabs \ {t} : tab'[u] = tab[u]
  <2> HIDE DEF Idle
  <2> QED BY IdleFacts, Put DEF Finish, TypeOK
<1>2. lock' \in Tabs \cup {None} /\ lock' = IF lock = t THEN None ELSE lock
  BY DEF Finish, TypeOK
<1>3. tab'[t].pc = "idle"
  BY <1>1, IdleFacts
<1>4. LockOK'
  BY <1>1, <1>2, <1>3 DEF LockOK, Working
<1>5. tab[t].pc \in Working => \A u \in Tabs : tab'[u].pc \notin Working
  BY <1>1, <1>3, Alone DEF Working
<1> QED BY <1>1, <1>2, <1>3, <1>4, <1>5

\* The operation of t goes on and holds the lock.
LEMMA MovesOK ==
  ASSUME TypeOK, LockOK, NEW t \in Tabs, NEW e \in Tab,
         tab' = [tab EXCEPT ![t] = e],
         \/ tab[t].pc \in Working /\ lock' = lock
         \/ lock = None /\ lock' = t
  PROVE  /\ tab' \in [Tabs -> Tab] /\ lock' \in Tabs \cup {None}
         /\ tab'[t] = e
         /\ \A u \in Tabs \ {t} : tab'[u] = tab[u] /\ tab'[u].pc \notin Working
         /\ LockOK'
<1>1. /\ tab' \in [Tabs -> Tab] /\ tab'[t] = e
      /\ \A u \in Tabs \ {t} : tab'[u] = tab[u]
  BY Put DEF TypeOK
<1>2. lock' \in Tabs \cup {None} /\ lock' = t
  BY DEF TypeOK, LockOK
<1>3. \A u \in Tabs \ {t} : tab'[u].pc \notin Working
  <2>1. CASE tab[t].pc \in Working
    BY <1>1, <2>1, Alone
  <2>2. CASE lock = None
    BY <1>1, <2>2, SuiAssumption DEF LockOK
  <2> QED BY <2>1, <2>2
<1>4. LockOK'
  BY <1>1, <1>2, <1>3 DEF LockOK
<1> QED BY <1>1, <1>2, <1>3, <1>4

(***************************************************************************)
(* What any step but the start of an attempt keeps of the requests: none   *)
(* is made, none opens again, and what has been decided stays decided.     *)
(***************************************************************************)
Keeps ==
  /\ reqs' \in [Tx -> Request]
  /\ spent \subseteq spent' /\ spent' \subseteq Tx
  /\ \A x \in Tx :
       /\ reqs'[x].method = reqs[x].method
       /\ reqs'[x].status = "unused" <=> reqs[x].status = "unused"
       /\ Open(x)' => Open(x)
       /\ reqs[x].status \in Decided =>
            reqs'[x].status = reqs[x].status /\ reqs'[x].exact = reqs[x].exact
       /\ x \in spent' \ spent => reqs[x].status # "unused"

LEMMA KeepsSame ==
  ASSUME TypeOK, UNCHANGED <<reqs, spent>>
  PROVE  Keeps
  BY DEF TypeOK, Keeps, Open

Opens == {"asking", "prompt", "signed", "sent", "pending"}

\* A request changes its status.
LEMMA BecameFacts ==
  ASSUME TypeOK, NEW x \in Tx, NEW status \in Opens \cup Decided, Became(x, status)
  PROVE  /\ reqs' \in [Tx -> Request]
         /\ reqs'[x].status = status /\ reqs'[x].tab = reqs[x].tab
         /\ reqs'[x].method = reqs[x].method /\ reqs'[x].exact = reqs[x].exact
         /\ \A y \in Tx \ {x} : reqs'[y] = reqs[y]
<1> DEFINE e == [reqs[x] EXCEPT !.status = status]
<1>1. reqs[x] \in Request
  BY DEF TypeOK
<1>2. /\ e \in Request /\ e.status = status /\ e.tab = reqs[x].tab
      /\ e.method = reqs[x].method /\ e.exact = reqs[x].exact
  BY <1>1 DEF Request, Opens, Decided
<1>3. reqs' = [reqs EXCEPT ![x] = e]
  BY DEF Became
<1> HIDE DEF e
<1>4. reqs' \in [Tx -> Request] /\ reqs'[x] = e /\ \A y \in Tx \ {x} : reqs'[y] = reqs[y]
  BY <1>2, <1>3, Put DEF TypeOK
<1> QED BY <1>2, <1>4

LEMMA BecameKeeps ==
  ASSUME TypeOK, NEW x \in Tx, NEW status \in Opens \cup Decided, Became(x, status),
         reqs[x].status \in Opens, UNCHANGED spent
  PROVE  Keeps
<1>1. /\ reqs' \in [Tx -> Request]
      /\ reqs'[x].status = status
      /\ reqs'[x].method = reqs[x].method
      /\ \A y \in Tx \ {x} : reqs'[y] = reqs[y]
  BY BecameFacts
<1>2. spent' = spent /\ spent' \subseteq Tx
  BY DEF TypeOK
<1>3. status # "unused" /\ reqs[x].status # "unused" /\ reqs[x].status \notin Decided
  BY DEF Opens, Decided
<1>4. Open(x)' => Open(x)
  BY <1>2 DEF Open, Opens
<1>5. \A y \in Tx \ {x} : Open(y)' => Open(y)
  BY <1>1, <1>2 DEF Open
<1> QED BY <1>1, <1>2, <1>3, <1>4, <1>5 DEF Keeps

\* The page stops listening for the answer to a request.
LEMMA UnheardFacts ==
  ASSUME TypeOK, NEW x \in Tx, UNCHANGED spent,
         reqs' = [reqs EXCEPT ![x].tab = None]
  PROVE  /\ Keeps
         /\ reqs'[x].status = reqs[x].status
         /\ \A y \in Tx \ {x} : reqs'[y] = reqs[y]
<1> DEFINE e == [reqs[x] EXCEPT !.tab = None]
<1>1. reqs[x] \in Request
  BY DEF TypeOK
<1>2. /\ e \in Request /\ e.status = reqs[x].status
      /\ e.method = reqs[x].method /\ e.exact = reqs[x].exact
  BY <1>1 DEF Request
<1>3. reqs' = [reqs EXCEPT ![x] = e]
  OBVIOUS
<1> HIDE DEF e
<1>4. reqs' \in [Tx -> Request] /\ reqs'[x] = e /\ \A y \in Tx \ {x} : reqs'[y] = reqs[y]
  BY <1>2, <1>3, Put DEF TypeOK
<1>5. \A y \in Tx : reqs'[y].status = reqs[y].status /\ reqs'[y].method = reqs[y].method
                    /\ reqs'[y].exact = reqs[y].exact
  BY <1>2, <1>4
<1> QED BY <1>2, <1>4, <1>5 DEF Keeps, Open, TypeOK

\* A saved state of the attempt, or the record as it was.
LEMMA SavedFacts ==
  ASSUME TypeOK, NEW state, NEW digest,
         state \in {"rejected", "unknown", "pending"}, digest \in {"none", "own", journal.digest},
         journal' \in Saved(state, digest)
  PROVE  /\ journal' \in Journal /\ journal'.id = journal.id
         /\ journal'.state \in {journal.state, state}
         /\ journal'.digest \in {"none", "own", journal.digest}
<1>1. journal \in Journal
  BY DEF TypeOK
<1>2. journal' = journal \/ journal' = [journal EXCEPT !.state = state, !.digest = digest]
  BY DEF Saved
<1> QED BY <1>1, <1>2 DEF Journal, Settled

(***************************************************************************)
(* The parts of the invariant that speak of the journal and the requests,  *)
(* when the journal keeps its attempt.                                     *)
(***************************************************************************)
LEMMA JournalOK ==
  ASSUME IInv, Keeps, journal' \in Journal,
         journal.id \in Tx, journal'.id = journal.id, journal'.state # "none",
         journal'.digest = "other" => journal.id \in spent',
         \/ journal'.state \notin Settled
         \/ ~Open(journal.id)',
         LET r == reqs'[journal.id]
         IN  /\ journal'.state = "verified" => r.status = "success" /\ r.exact
             /\ journal'.state = "reverted" => r.status = "reverted" /\ r.exact
             /\ journal'.state = "rejected" => r.status \in {"rejected", "dead"}
  PROVE  /\ RequestOK' /\ OpenIsJournaled' /\ SettledIsTrue'
         /\ journal'.state # "none" => Sound(journal)'
<1>1. RequestOK'
  BY DEF IInv, RequestOK, Keeps
<1>2. OpenIsJournaled'
  BY DEF IInv, OpenIsJournaled, Unresolved, Keeps
<1>3. SettledIsTrue'
  BY DEF SettledIsTrue
<1>4. Sound(journal)'
  BY DEF Sound
<1> QED BY <1>1, <1>2, <1>3, <1>4

LEMMA JournalSame ==
  ASSUME IInv, Keeps, UNCHANGED journal
  PROVE  /\ RequestOK' /\ OpenIsJournaled' /\ SettledIsTrue'
         /\ journal'.state # "none" => Sound(journal)'
<1>1. RequestOK'
  BY DEF IInv, RequestOK, Keeps
<1>2. OpenIsJournaled'
  BY DEF IInv, OpenIsJournaled, Unresolved, Keeps
<1>3. journal.state # "none" => Sound(journal) /\ Sound(journal)'
  BY DEF IInv, EvidenceOK, Sound, Keeps
<1>4. SettledIsTrue'
  BY <1>3 DEF IInv, SettledIsTrue, Sound, Keeps, Decided
<1> QED BY <1>1, <1>2, <1>3, <1>4

\* What the recovering pages hold stays sound.
LEMMA SnapsOK ==
  ASSUME IInv, Keeps, NEW t \in Tabs,
         \A u \in Tabs \ {t} : tab'[u] = tab[u],
         tab'[t].pc \in {"load", "locate", "judge"} => Sound(tab[t].snap)'
  PROVE  \A u \in Tabs : tab'[u].pc \in {"load", "locate", "judge"} => Sound(tab[u].snap)'
  BY DEF IInv, EvidenceOK, Sound, Keeps

-----------------------------------------------------------------------------
(***************************************************************************)
(* The operations, action by action.                                       *)
(***************************************************************************)
LEMMA PrepareStep ==
  ASSUME IInv, NEW t \in Tabs,
         \/ Invalidate(t)
         \/ \E method \in Methods : Prepare(t, method)
  PROVE  IInv'
<1>1. held' \in [Tabs -> Methods \cup {None}] /\ UNCHANGED <<journal, lock, tab, reqs, spent>>
  BY DEF Invalidate, Prepare, IInv, TypeOK
<1>2. Keeps
  BY <1>1, KeepsSame DEF IInv
<1>3. RequestOK' /\ OpenIsJournaled' /\ SettledIsTrue' /\ EvidenceOK'
  BY <1>1, <1>2, JournalSame DEF IInv, EvidenceOK, Sound
<1>4. TypeOK' /\ LockOK' /\ WorkOK'
  BY <1>1 DEF IInv, TypeOK, LockOK, WorkOK, Unresolved
<1> QED BY <1>3, <1>4 DEF IInv

LEMMA ConfirmStep ==
  ASSUME IInv, NEW t \in Tabs, Confirm(t)
  PROVE  IInv'
<1> DEFINE e == [tab[t] EXCEPT !.pc = "recheck"]
<1>1. e \in Tab /\ e.pc = "recheck"
  BY DEF IInv, TypeOK, Tab
<1>2. /\ tab' = [tab EXCEPT ![t] = e] /\ lock = None /\ lock' = t /\ ~Unresolved
      /\ UNCHANGED <<journal, held, reqs, spent>>
  BY DEF Confirm
<1> HIDE DEF e
<1>3. /\ tab' \in [Tabs -> Tab] /\ lock' \in Tabs \cup {None} /\ tab'[t] = e
      /\ \A u \in Tabs \ {t} : tab'[u] = tab[u] /\ tab'[u].pc \notin Working
      /\ LockOK'
  BY <1>1, <1>2, MovesOK DEF IInv
<1>4. Keeps
  BY <1>2, KeepsSame DEF IInv
<1>5. RequestOK' /\ OpenIsJournaled' /\ SettledIsTrue' /\ EvidenceOK'
  BY <1>1, <1>2, <1>3, <1>4, JournalSame, SnapsOK DEF EvidenceOK
<1>6. WorkOK'
  BY <1>1, <1>2, <1>3 DEF WorkOK, Working, Underway, Unresolved
<1>7. TypeOK'
  BY <1>2, <1>3 DEF IInv, TypeOK
<1> QED BY <1>3, <1>5, <1>6, <1>7 DEF IInv

\* An operation that ends without a write.
LEMMA FailsStep ==
  ASSUME IInv, NEW t \in Tabs, ConfirmFails(t) \/ RecoverFails(t)
  PROVE  IInv'
<1>1. Finish(t) /\ UNCHANGED <<journal, held, reqs, spent>>
  BY DEF ConfirmFails, RecoverFails
<1>2. /\ tab' \in [Tabs -> Tab] /\ lock' \in Tabs \cup {None} /\ tab'[t].pc = "idle"
      /\ \A u \in Tabs \ {t} : tab'[u] = tab[u]
      /\ LockOK'
  BY <1>1, FinishOK DEF IInv
<1>3. Keeps
  BY <1>1, KeepsSame DEF IInv
<1>4. RequestOK' /\ OpenIsJournaled' /\ SettledIsTrue' /\ EvidenceOK'
  BY <1>1, <1>2, <1>3, JournalSame, SnapsOK DEF EvidenceOK
<1>5. WorkOK'
  BY <1>1, <1>2 DEF IInv, WorkOK, Underway, Unresolved
<1>6. TypeOK'
  BY <1>1, <1>2 DEF IInv, TypeOK
<1> QED BY <1>2, <1>4, <1>5, <1>6 DEF IInv

(***************************************************************************)
(* The start of an attempt.                                                *)
(***************************************************************************)
LEMMA BeginStep ==
  ASSUME IInv, NEW t \in Tabs, NEW x \in Tx, AskSignature(t, x) \/ AskSend(t, x)
  PROVE  IInv'
<1>1. PICK pc \in {"sign", "send"}, state \in {"signing", "sending"},
           status \in {"prompt", "asking"} :
        /\ Begin(t, x, pc, state, status)
        /\ \/ pc = "sign" /\ state = "signing" /\ status = "prompt"
              /\ held[t] \in {"sui", "arc-sign"}
           \/ pc = "send" /\ state = "sending" /\ status = "asking" /\ held[t] = "arc-send"
  BY DEF AskSignature, AskSend
<1> DEFINE j == [id |-> x, method |-> held[t], state |-> state,
                 digest |-> IF held[t] = "sui" THEN "own" ELSE "none"]
           e == [tab[t] EXCEPT !.pc = pc, !.x = x]
           r == [method |-> held[t], exact |-> TRUE, tab |-> t, status |-> status]
<1>2. /\ tab[t].pc = "recheck" /\ reqs[x].status = "unused"
      /\ journal' = j /\ held' = [held EXCEPT ![t] = None]
      /\ tab' = [tab EXCEPT ![t] = e] /\ reqs' = [reqs EXCEPT ![x] = r]
      /\ UNCHANGED <<lock, spent>>
  BY <1>1 DEF Begin
<1>3. held[t] \in Methods
  BY <1>1 DEF Methods
<1>4. /\ j \in Journal /\ j.id = x /\ j.state = state /\ j.digest # "other"
      /\ e \in Tab /\ e.pc = pc /\ e.x = x
      /\ r \in Request /\ r.status = status /\ r.tab = t /\ r.method = held[t]
  BY <1>3, ZenonT(40) DEF Journal, IInv, TypeOK, Tab, Request
<1> HIDE DEF j, e, r
<1>5. /\ tab' \in [Tabs -> Tab] /\ lock' \in Tabs \cup {None} /\ tab'[t] = e
      /\ \A u \in Tabs \ {t} : tab'[u] = tab[u] /\ tab'[u].pc \notin Working
      /\ LockOK'
  BY <1>2, <1>4, MovesOK DEF IInv, Working
<1>6. reqs' \in [Tx -> Request] /\ reqs'[x] = r /\ \A y \in Tx \ {x} : reqs'[y] = reqs[y]
  BY <1>2, <1>4, Put DEF IInv, TypeOK
<1>7. \A y \in Tx : ~Open(y)
  BY <1>2 DEF IInv, WorkOK, OpenIsJournaled
<1>8. \A y \in Tx \ {x} : ~Open(y)'
  BY <1>2, <1>6, <1>7 DEF Open
<1>9. held' \in [Tabs -> Methods \cup {None}]
  BY <1>2 DEF IInv, TypeOK
<1>10. TypeOK'
  BY <1>2, <1>4, <1>5, <1>6, <1>9 DEF IInv, TypeOK
<1>11. state \notin Settled \cup {"none"}
  BY DEF Settled
<1>12. OpenIsJournaled'
  BY <1>2, <1>4, <1>8, <1>11 DEF OpenIsJournaled, Unresolved
<1>13. SettledIsTrue'
  BY <1>2, <1>4 DEF SettledIsTrue
<1>14. RequestOK'
  BY <1>2, <1>4, <1>6 DEF IInv, RequestOK
<1>15. WorkOK'
  BY <1>1, <1>2, <1>4, <1>5, <1>6 DEF WorkOK, Working, Underway
<1>16. EvidenceOK'
  <2>1. Sound(journal)'
    BY <1>2, <1>4 DEF Sound
  <2>2. \A u \in Tabs : tab'[u].pc \in {"load", "locate", "judge"} => Sound(tab[u].snap)'
    BY <1>2, <1>4, <1>5 DEF IInv, EvidenceOK, Sound
  <2> QED BY <2>1, <2>2 DEF EvidenceOK
<1> QED BY <1>5, <1>10, <1>12, <1>13, <1>14, <1>15, <1>16 DEF IInv

(***************************************************************************)
(* The end of an attempt, as the page sees it.                             *)
(***************************************************************************)
LEMMA EndsOK ==
  ASSUME IInv, NEW t \in Tabs, tab[t].pc \in Underway, Finish(t), Keeps, UNCHANGED held,
         NEW state \in {"rejected", "unknown", "pending"},
         NEW digest \in {"none", "own", journal.digest},
         journal' \in Saved(state, digest),
         state = "rejected" => reqs'[tab[t].x].status \in {"rejected", "dead"}
  PROVE  IInv'
<1>1. /\ tab' \in [Tabs -> Tab] /\ lock' \in Tabs \cup {None}
      /\ tab'[t].pc = "idle"
      /\ \A u \in Tabs \ {t} : tab'[u] = tab[u]
      /\ LockOK'
      /\ \A u \in Tabs : tab'[u].pc \notin Working
  BY FinishOK DEF IInv, Underway, Working
<1>2. /\ journal' \in Journal /\ journal'.id = journal.id
      /\ journal'.state \in {journal.state, state}
      /\ journal'.digest \in {"none", "own", journal.digest}
  BY SavedFacts DEF IInv
<1>3. /\ journal.id = tab[t].x /\ journal.id \in Tx
      /\ journal.state \in {"signing", "broadcasting", "sending"}
  BY DEF IInv, WorkOK, Underway
<1>4. journal.digest = "other" => journal.id \in spent'
  BY <1>3 DEF IInv, EvidenceOK, Sound, Keeps
<1>5. state = "rejected" => ~Open(journal.id)'
  BY <1>2, <1>3 DEF Open
<1>6. RequestOK' /\ OpenIsJournaled' /\ SettledIsTrue' /\ Sound(journal)'
  <2>1. journal'.state # "none" /\ (journal'.state \notin Settled \/ ~Open(journal.id)')
    BY <1>2, <1>3, <1>5 DEF Settled
  <2>2. journal'.state # "verified" /\ journal'.state # "reverted"
    BY <1>2, <1>3
  <2>3. journal'.state = "rejected" => reqs'[journal.id].status \in {"rejected", "dead"}
    BY <1>2, <1>3
  <2>4. journal'.digest = "other" => journal.id \in spent'
    BY <1>2, <1>4
  <2> QED BY <1>2, <1>3, <2>1, <2>2, <2>3, <2>4, JournalOK
<1>7. EvidenceOK'
  BY <1>1, <1>6, SnapsOK DEF EvidenceOK
<1>8. WorkOK'
  BY <1>1 DEF WorkOK, Working, Underway
<1>9. TypeOK'
  BY <1>1, <1>2 DEF IInv, TypeOK, Keeps
<1> QED BY <1>1, <1>6, <1>7, <1>8, <1>9 DEF IInv

LEMMA SignatureRejectedStep ==
  ASSUME IInv, NEW t \in Tabs, SignatureRejected(t)
  PROVE  IInv' /\ Keeps
<1> DEFINE x == tab[t].x
<1>1. /\ tab[t].pc = "sign" /\ Became(x, "rejected") /\ UNCHANGED <<held, spent>>
      /\ journal' \in Saved("rejected", journal.digest) /\ Finish(t)
  BY DEF SignatureRejected
<1>2. x \in Tx /\ reqs[x].status = "prompt"
  BY <1>1 DEF IInv, WorkOK, Underway
<1>3. Keeps
  BY <1>1, <1>2, BecameKeeps DEF IInv, Opens, Decided
<1>4. reqs'[x].status = "rejected"
  BY <1>1, <1>2, BecameFacts DEF IInv, Decided
<1> QED BY <1>1, <1>3, <1>4, EndsOK DEF Underway

LEMMA SignatureUnusedStep ==
  ASSUME IInv, NEW t \in Tabs, SignatureUnused(t)
  PROVE  IInv' /\ Keeps
<1> DEFINE x == tab[t].x
<1>1. /\ tab[t].pc \in {"sign", "signed"} /\ Became(x, "dead") /\ UNCHANGED <<held, spent>>
      /\ Finish(t)
      /\ \E digest \in {"own", journal.digest} : journal' \in Saved("unknown", digest)
  BY DEF SignatureUnused
<1>2. x \in Tx /\ reqs[x].status \in {"prompt", "signed"}
  BY <1>1 DEF IInv, WorkOK, Underway
<1>3. Keeps
  BY <1>1, <1>2, BecameKeeps DEF IInv, Opens, Decided
<1> QED BY <1>1, <1>3, EndsOK DEF Underway

LEMMA NotAskedStep ==
  ASSUME IInv, NEW t \in Tabs, NotRequested(t) \/ WalletRejects(t)
  PROVE  IInv' /\ Keeps
<1> DEFINE x == tab[t].x
<1>1. PICK status \in {"rejected", "dead"} :
        /\ tab[t].pc = "send" /\ Became(x, status) /\ UNCHANGED <<held, spent>>
        /\ reqs[x].status \in {"asking", "prompt"}
        /\ journal' \in Saved("rejected", "none") /\ Finish(t)
  BY DEF NotRequested, WalletRejects
<1>2. x \in Tx
  BY <1>1 DEF IInv, WorkOK, Underway
<1>3. Keeps
  BY <1>1, <1>2, BecameKeeps DEF IInv, Opens, Decided
<1>4. reqs'[x].status = status
  BY <1>1, <1>2, BecameFacts DEF IInv, Decided
<1> QED BY <1>1, <1>3, <1>4, EndsOK DEF Underway

LEMMA AnsweredStep ==
  ASSUME IInv, NEW t \in Tabs,
         SendAccepted(t) \/ SendUnknown(t) \/ WalletAnswers(t)
  PROVE  IInv' /\ Keeps
<1>1. /\ tab[t].pc \in {"broadcast", "send"} /\ UNCHANGED <<held, reqs, spent>> /\ Finish(t)
      /\ \E state \in {"pending", "unknown"}, digest \in {"own", journal.digest} :
           journal' \in Saved(state, digest)
  BY DEF SendAccepted, SendUnknown, WalletAnswers
<1>2. Keeps
  BY <1>1, KeepsSame DEF IInv
<1> QED BY <1>1, <1>2, EndsOK DEF Underway

LEMMA WalletUnclearStep ==
  ASSUME IInv, NEW t \in Tabs, WalletUnclear(t)
  PROVE  IInv' /\ Keeps
<1> DEFINE x == tab[t].x
<1>1. /\ tab[t].pc = "send" /\ UNCHANGED <<held, spent>> /\ Finish(t)
      /\ journal' \in Saved("unknown", "none")
      /\ UNCHANGED reqs \/ reqs' = [reqs EXCEPT ![x].tab = None]
  BY DEF WalletUnclear
<1>2. x \in Tx
  BY <1>1 DEF IInv, WorkOK, Underway
<1>3. Keeps
  BY <1>1, <1>2, KeepsSame, UnheardFacts DEF IInv
<1> QED BY <1>1, <1>3, EndsOK DEF Underway

(***************************************************************************)
(* The attempt goes on.                                                    *)
(***************************************************************************)
LEMMA SignsStep ==
  ASSUME IInv, NEW t \in Tabs, Signs(t)
  PROVE  IInv' /\ Keeps
<1> DEFINE x == tab[t].x
           e == [tab[t] EXCEPT !.pc = "signed"]
<1>1. /\ tab[t].pc = "sign" /\ Became(x, "signed") /\ tab' = [tab EXCEPT ![t] = e]
      /\ UNCHANGED <<journal, lock, held, spent>>
  BY DEF Signs
<1>2. e \in Tab /\ e.pc = "signed" /\ e.x = x
  BY DEF IInv, TypeOK, Tab
<1> HIDE DEF e
<1>3. /\ x \in Tx /\ journal.id = x /\ journal.state = "signing"
      /\ reqs[x].status = "prompt" /\ reqs[x].tab = t /\ reqs[x].method # "arc-send"
  BY <1>1 DEF IInv, WorkOK, Underway
<1>4. Keeps
  BY <1>1, <1>3, BecameKeeps DEF IInv, Opens, Decided
<1>5. /\ reqs'[x].status = "signed" /\ reqs'[x].tab = t /\ reqs'[x].method # "arc-send"
  BY <1>1, <1>3, BecameFacts DEF IInv, Opens
<1>6. /\ tab' \in [Tabs -> Tab] /\ lock' \in Tabs \cup {None} /\ tab'[t] = e
      /\ \A u \in Tabs \ {t} : tab'[u] = tab[u] /\ tab'[u].pc \notin Working
      /\ LockOK'
  BY <1>1, <1>2, MovesOK DEF IInv, Working
<1>7. RequestOK' /\ OpenIsJournaled' /\ SettledIsTrue' /\ EvidenceOK'
  BY <1>1, <1>2, <1>4, <1>6, JournalSame, SnapsOK DEF EvidenceOK
<1>8. WorkOK'
  BY <1>1, <1>2, <1>3, <1>5, <1>6 DEF WorkOK, Working, Underway
<1>9. TypeOK'
  BY <1>1, <1>4, <1>6 DEF IInv, TypeOK, Keeps
<1> QED BY <1>4, <1>6, <1>7, <1>8, <1>9 DEF IInv

LEMMA SendStep ==
  ASSUME IInv, NEW t \in Tabs, Send(t)
  PROVE  IInv' /\ Keeps
<1> DEFINE x == tab[t].x
           e == [tab[t] EXCEPT !.pc = "broadcast"]
<1>1. /\ tab[t].pc = "signed" /\ Became(x, "sent") /\ tab' = [tab EXCEPT ![t] = e]
      /\ journal' = [journal EXCEPT !.state = "broadcasting", !.digest = "own"]
      /\ UNCHANGED <<lock, held, spent>>
  BY DEF Send
<1>2. e \in Tab /\ e.pc = "broadcast" /\ e.x = x
  BY DEF IInv, TypeOK, Tab
<1> HIDE DEF e
<1>3. x \in Tx /\ journal.id = x /\ reqs[x].status = "signed"
  BY <1>1 DEF IInv, WorkOK, Underway
<1>4. /\ journal' \in Journal /\ journal'.id = x /\ journal'.state = "broadcasting"
      /\ journal'.digest = "own"
  BY <1>1, <1>3 DEF IInv, TypeOK, Journal
<1>5. Keeps
  BY <1>1, <1>3, BecameKeeps DEF IInv, Opens, Decided
<1>6. /\ tab' \in [Tabs -> Tab] /\ lock' \in Tabs \cup {None} /\ tab'[t] = e
      /\ \A u \in Tabs \ {t} : tab'[u] = tab[u] /\ tab'[u].pc \notin Working
      /\ LockOK'
  BY <1>1, <1>2, MovesOK DEF IInv, Working
<1>7. RequestOK' /\ OpenIsJournaled' /\ SettledIsTrue' /\ Sound(journal)'
  BY <1>3, <1>4, <1>5, JournalOK DEF Settled
<1>8. EvidenceOK'
  BY <1>2, <1>5, <1>6, <1>7, SnapsOK DEF EvidenceOK
<1>9. WorkOK'
  BY <1>2, <1>3, <1>4, <1>6 DEF WorkOK, Working, Underway
<1>10. TypeOK'
  BY <1>1, <1>4, <1>5, <1>6 DEF IInv, TypeOK, Keeps
<1> QED BY <1>5, <1>6, <1>7, <1>8, <1>9, <1>10 DEF IInv

(***************************************************************************)
(* Answers nobody holds the lock for, and closed pages.                    *)
(***************************************************************************)
LEMMA LateAnswerStep ==
  ASSUME IInv, NEW t \in Tabs, NEW x \in Tx, LateAnswer(t, x)
  PROVE  IInv' /\ Keeps
<1>1. /\ reqs[x].status \in {"pending", "success", "reverted"}
      /\ reqs' = [reqs EXCEPT ![x].tab = None] /\ UNCHANGED <<lock, held, tab, spent>>
      /\ \/ UNCHANGED journal
         \/ journal.id = x /\ journal.state = "unknown" /\ journal' \in Saved("pending", "own")
  BY DEF LateAnswer, Answered
<1>2. Keeps /\ reqs'[x].status = reqs[x].status /\ \A y \in Tx \ {x} : reqs'[y] = reqs[y]
  BY <1>1, UnheardFacts DEF IInv
<1>3. /\ RequestOK' /\ OpenIsJournaled' /\ SettledIsTrue'
      /\ (journal'.state # "none" => Sound(journal)') /\ journal' \in Journal
  <2>1. CASE UNCHANGED journal
    BY <1>2, <2>1, JournalSame DEF IInv, TypeOK
  <2>2. CASE journal.id = x /\ journal.state = "unknown" /\ journal' \in Saved("pending", "own")
    <3>1. /\ journal' \in Journal /\ journal'.id = journal.id
          /\ journal'.state \in {"unknown", "pending"}
          /\ journal'.digest \in {"none", "own", journal.digest}
      BY <2>2, SavedFacts DEF IInv
    <3>2. journal.digest = "other" => journal.id \in spent'
      BY <1>2, <2>2 DEF IInv, EvidenceOK, Sound, Keeps
    <3> QED BY <1>2, <2>2, <3>1, <3>2, JournalOK DEF Settled
  <2> QED BY <1>1, <2>1, <2>2
<1>4. EvidenceOK'
  BY <1>1, <1>2, <1>3, SnapsOK DEF IInv, EvidenceOK, Sound, Keeps
<1>5. \A u \in Tabs : tab[u].pc \in {"recheck"} \cup Underway => UNCHANGED journal
  BY <1>1 DEF IInv, WorkOK, Underway, Unresolved, Settled
<1>6. \A u \in Tabs : tab[u].pc \in {"sign", "signed"} => tab[u].x # x
  BY <1>1 DEF IInv, WorkOK
<1>7. WorkOK'
  <2> SUFFICES ASSUME NEW u \in Tabs, tab[u].pc \in {"recheck"} \cup Underway
               PROVE  /\ tab[u].pc = "recheck" => ~Unresolved'
                      /\ tab[u].pc \in Underway => tab[u].x \in Tx /\ journal'.id = tab[u].x
                      /\ tab[u].pc \in {"sign", "signed"} =>
                           /\ journal'.state = "signing"
                           /\ reqs'[tab[u].x].tab = u /\ reqs'[tab[u].x].method # "arc-send"
                           /\ reqs'[tab[u].x].status
                                = IF tab[u].pc = "sign" THEN "prompt" ELSE "signed"
                      /\ tab[u].pc = "broadcast" => journal'.state = "broadcasting"
                      /\ tab[u].pc = "send" => /\ journal'.state = "sending"
                                               /\ reqs'[tab[u].x].status # "unused"
    BY <1>1 DEF WorkOK, Underway
  <2>1. UNCHANGED journal
    BY <1>5
  <2>2. /\ tab[u].pc \in Underway => tab[u].x \in Tx
        /\ tab[u].pc \in {"sign", "signed"} => reqs'[tab[u].x] = reqs[tab[u].x]
    BY <1>2, <1>6 DEF IInv, WorkOK, Underway
  <2> QED BY <1>2, <2>1, <2>2 DEF IInv, WorkOK, Underway, Unresolved, Keeps
<1>8. TypeOK' /\ LockOK'
  BY <1>1, <1>2, <1>3 DEF IInv, TypeOK, LockOK, Keeps
<1> QED BY <1>2, <1>3, <1>4, <1>7, <1>8 DEF IInv

LEMMA TabClosesStep ==
  ASSUME IInv, NEW t \in Tabs, TabCloses(t)
  PROVE  IInv' /\ Keeps
<1>1. /\ Finish(t) /\ UNCHANGED <<journal, spent>>
      /\ held' \in [Tabs -> Methods \cup {None}]
  BY DEF TabCloses, IInv, TypeOK
<1>2. reqs' \in [Tx -> Request]
      /\ \A x \in Tx :
           /\ reqs'[x].method = reqs[x].method /\ reqs'[x].exact = reqs[x].exact
           /\ \/ reqs'[x].status = reqs[x].status
              \/ reqs[x].status \in {"asking", "signed"} /\ reqs'[x].status = "dead"
           /\ reqs[x].tab # t => reqs'[x] = reqs[x]
  <2> DEFINE left(x) == IF reqs[x].tab # t THEN reqs[x]
                        ELSE [reqs[x] EXCEPT !.tab = None,
                                !.status = IF @ \in {"asking", "signed"} THEN "dead" ELSE @]
  <2>1. reqs' = [x \in Tx |-> left(x)]
    BY DEF TabCloses
  <2>2. ASSUME NEW x \in Tx
        PROVE  /\ left(x) \in Request
               /\ left(x).method = reqs[x].method /\ left(x).exact = reqs[x].exact
               /\ \/ left(x).status = reqs[x].status
                  \/ reqs[x].status \in {"asking", "signed"} /\ left(x).status = "dead"
               /\ reqs[x].tab # t => left(x) = reqs[x]
    <3>1. reqs[x] \in Request
      BY DEF IInv, TypeOK
    <3> QED BY <3>1 DEF Request
  <2> HIDE DEF left
  <2>3. \A x \in Tx : reqs'[x] = left(x)
    BY <2>1
  <2>4. reqs' \in [Tx -> Request]
    BY <2>1, <2>2
  <2> QED BY <2>2, <2>3, <2>4
<1>3. Keeps
  BY <1>1, <1>2 DEF Keeps, IInv, TypeOK, Open, Decided
<1>4. /\ tab' \in [Tabs -> Tab] /\ lock' \in Tabs \cup {None} /\ tab'[t].pc = "idle"
      /\ \A u \in Tabs \ {t} : tab'[u] = tab[u]
      /\ LockOK'
  BY <1>1, FinishOK DEF IInv
<1>5. RequestOK' /\ OpenIsJournaled' /\ SettledIsTrue' /\ EvidenceOK'
  BY <1>1, <1>3, <1>4, JournalSame, SnapsOK DEF EvidenceOK
<1>6. WorkOK'
  BY <1>1, <1>2, <1>3, <1>4 DEF IInv, WorkOK, Underway, Unresolved, Keeps
<1>7. TypeOK'
  BY <1>1, <1>2, <1>4 DEF IInv, TypeOK
<1> QED BY <1>3, <1>4, <1>5, <1>6, <1>7 DEF IInv

(***************************************************************************)
(* recover() and reconcile().                                              *)
(***************************************************************************)
LEMMA LoadAttemptStep ==
  ASSUME IInv, NEW t \in Tabs, LoadAttempt(t)
  PROVE  IInv'
<1> DEFINE e == [tab[t] EXCEPT !.pc = "load", !.snap = journal]
<1>1. e \in Tab /\ e.pc = "load" /\ e.snap = journal
  BY DEF IInv, TypeOK, Tab
<1>2. /\ tab' = [tab EXCEPT ![t] = e] /\ journal.state # "none"
      /\ UNCHANGED <<journal, lock, held, reqs, spent>>
  BY DEF LoadAttempt, Unresolved
<1> HIDE DEF e
<1>3. /\ tab' \in [Tabs -> Tab] /\ tab'[t] = e
      /\ \A u \in Tabs \ {t} : tab'[u] = tab[u]
  BY <1>1, <1>2, Put DEF IInv, TypeOK
<1>4. Keeps
  BY <1>2, KeepsSame DEF IInv
<1>5. RequestOK' /\ OpenIsJournaled' /\ SettledIsTrue' /\ Sound(journal)'
  BY <1>2, <1>4, JournalSame
<1>6. Sound(tab[t].snap)'
  BY <1>1, <1>2, <1>3, <1>5 DEF Sound
<1>7. EvidenceOK'
  BY <1>3, <1>4, <1>5, <1>6, SnapsOK DEF EvidenceOK
<1>8. WorkOK' /\ LockOK'
  BY <1>1, <1>2, <1>3 DEF IInv, WorkOK, LockOK, Working, Underway, Unresolved
<1>9. TypeOK'
  BY <1>2, <1>3 DEF IInv, TypeOK
<1> QED BY <1>5, <1>7, <1>8, <1>9 DEF IInv

LEMMA LockAttemptStep ==
  ASSUME IInv, NEW t \in Tabs, LockAttempt(t)
  PROVE  IInv'
<1> DEFINE pc == IF tab[t].snap.digest = "none" THEN "locate" ELSE "judge"
           e == [tab[t] EXCEPT !.pc = pc]
<1>1. e \in Tab /\ e.pc \in {"locate", "judge"} /\ e.snap = tab[t].snap
  BY DEF IInv, TypeOK, Tab
<1>2. /\ tab[t].pc = "load" /\ lock = None /\ lock' = t /\ tab' = [tab EXCEPT ![t] = e]
      /\ UNCHANGED <<journal, held, reqs, spent>>
  BY DEF LockAttempt
<1> HIDE DEF e
<1>3. /\ tab' \in [Tabs -> Tab] /\ lock' \in Tabs \cup {None} /\ tab'[t] = e
      /\ \A u \in Tabs \ {t} : tab'[u] = tab[u] /\ tab'[u].pc \notin Working
      /\ LockOK'
  BY <1>1, <1>2, MovesOK DEF IInv
<1>4. Keeps
  BY <1>2, KeepsSame DEF IInv
<1>5. Sound(tab[t].snap)'
  BY <1>1, <1>2, <1>3 DEF IInv, EvidenceOK, Sound
<1>6. RequestOK' /\ OpenIsJournaled' /\ SettledIsTrue' /\ EvidenceOK'
  BY <1>2, <1>3, <1>4, <1>5, JournalSame, SnapsOK DEF EvidenceOK
<1>7. WorkOK'
  BY <1>1, <1>3 DEF WorkOK, Working, Underway
<1>8. TypeOK'
  BY <1>2, <1>3 DEF IInv, TypeOK
<1> QED BY <1>3, <1>6, <1>7, <1>8 DEF IInv

\* The transaction found by its nonce is the attempt's own, or has taken its nonce.
LEMMA LocateStep ==
  ASSUME IInv, NEW t \in Tabs, Locate(t)
  PROVE  IInv'
<1> DEFINE a == tab[t].snap
<1>1. a \in Journal /\ Sound(a) /\ tab[t].pc = "locate" /\ journal.id = a.id
  BY DEF Locate, IInv, TypeOK, Tab, EvidenceOK
<1>2. PICK digest \in Located(a.id) :
        LET found == [a EXCEPT !.state = "pending", !.digest = digest]
        IN  /\ journal' = found
            /\ tab' = [tab EXCEPT ![t] = [tab[t] EXCEPT !.pc = "judge", !.snap = found]]
  BY DEF Locate
<1> DEFINE found == [a EXCEPT !.state = "pending", !.digest = digest]
           e == [tab[t] EXCEPT !.pc = "judge", !.snap = found]
<1>3. digest = "own" \/ (digest = "other" /\ a.id \in spent)
  BY <1>2 DEF Located
<1>4. /\ found \in Journal /\ found.id = a.id /\ found.state = "pending"
      /\ found.digest = digest
  BY <1>1, <1>3 DEF Journal
<1>5. /\ journal' = found /\ tab' = [tab EXCEPT ![t] = e]
      /\ UNCHANGED <<lock, held, reqs, spent>>
  BY <1>2 DEF Locate
<1> HIDE DEF found
<1>6. e \in Tab /\ e.pc = "judge" /\ e.snap = found
  BY <1>4 DEF IInv, TypeOK, Tab
<1> HIDE DEF e
<1>7. /\ tab' \in [Tabs -> Tab] /\ lock' \in Tabs \cup {None} /\ tab'[t] = e
      /\ \A u \in Tabs \ {t} : tab'[u] = tab[u] /\ tab'[u].pc \notin Working
      /\ LockOK'
  BY <1>1, <1>5, <1>6, MovesOK DEF IInv, Working
<1>8. Keeps
  BY <1>5, KeepsSame DEF IInv
<1>9. RequestOK' /\ OpenIsJournaled' /\ SettledIsTrue' /\ Sound(journal)'
  BY <1>1, <1>3, <1>4, <1>5, <1>8, JournalOK DEF Sound, Settled
<1>10. Sound(tab[t].snap)'
  BY <1>5, <1>6, <1>7, <1>9 DEF Sound
<1>11. EvidenceOK'
  BY <1>7, <1>8, <1>9, <1>10, SnapsOK DEF EvidenceOK
<1>12. WorkOK'
  BY <1>6, <1>7 DEF WorkOK, Working, Underway
<1>13. TypeOK'
  BY <1>4, <1>5, <1>7 DEF IInv, TypeOK
<1> QED BY <1>7, <1>9, <1>11, <1>12, <1>13 DEF IInv

\* Whatever the page had read before it had the lock, what it now writes of the
\* attempt is what the chain says.
LEMMA JudgeStep ==
  ASSUME IInv, NEW t \in Tabs, Judge(t)
  PROVE  IInv'
<1> DEFINE a == tab[t].snap
<1>1. /\ a \in Journal /\ Sound(a) /\ tab[t].pc = "judge" /\ journal.id = a.id
      /\ Finish(t) /\ UNCHANGED <<held, reqs, spent>>
  BY DEF Judge, IInv, TypeOK, Tab, EvidenceOK
<1>2. PICK state \in Judged(a) : journal' = [a EXCEPT !.state = state]
  BY DEF Judge
<1>3. /\ state \in {"mismatch", "verified", "reverted", "pending"}
      /\ state = "verified" => reqs[a.id].status = "success" /\ reqs[a.id].exact
      /\ state = "reverted" => reqs[a.id].status = "reverted" /\ reqs[a.id].exact
  BY <1>2 DEF Judged
<1>4. /\ journal' \in Journal /\ journal'.id = a.id /\ journal'.state = state
      /\ journal'.digest = a.digest
  BY <1>1, <1>2, <1>3 DEF Journal, Settled
<1>5. /\ tab' \in [Tabs -> Tab] /\ lock' \in Tabs \cup {None}
      /\ tab'[t].pc = "idle"
      /\ \A u \in Tabs \ {t} : tab'[u] = tab[u]
      /\ LockOK'
      /\ \A u \in Tabs : tab'[u].pc \notin Working
  BY <1>1, FinishOK DEF IInv, Working
<1>6. Keeps
  BY <1>1, KeepsSame DEF IInv
<1>7. state \notin Settled \/ ~Open(journal.id)'
  BY <1>1, <1>3, <1>4 DEF Settled, Open
<1>8. RequestOK' /\ OpenIsJournaled' /\ SettledIsTrue' /\ Sound(journal)'
  BY <1>1, <1>3, <1>4, <1>6, <1>7, JournalOK DEF Sound
<1>9. EvidenceOK'
  BY <1>5, <1>6, <1>8, SnapsOK DEF EvidenceOK
<1>10. WorkOK'
  BY <1>5 DEF WorkOK, Working, Underway
<1>11. TypeOK'
  BY <1>1, <1>4, <1>5 DEF IInv, TypeOK
<1> QED BY <1>5, <1>8, <1>9, <1>10, <1>11 DEF IInv

\* An attempt is given up only when its transaction is decided or its nonce gone.
LEMMA ReconcileStep ==
  ASSUME IInv, NEW t \in Tabs, Reconcile(t)
  PROVE  IInv'
<1>1. /\ lock = None /\ journal.state = "mismatch"
      /\ journal.digest = "other" \/ reqs[journal.id].status \in {"success", "reverted"}
      /\ journal' = [journal EXCEPT !.state = "reconciled"]
      /\ UNCHANGED <<lock, held, tab, reqs, spent>>
  BY DEF Reconcile
<1>2. Sound(journal)
  BY <1>1 DEF IInv, EvidenceOK
<1>3. /\ journal' \in Journal /\ journal'.id = journal.id /\ journal'.state = "reconciled"
      /\ journal'.digest = journal.digest
  BY <1>1 DEF IInv, TypeOK, Journal, Settled
<1>4. Keeps
  BY <1>1, KeepsSame DEF IInv
<1>5. ~Open(journal.id)'
  BY <1>1, <1>2, <1>3 DEF Sound, Open
<1>6. RequestOK' /\ OpenIsJournaled' /\ SettledIsTrue' /\ Sound(journal)'
  BY <1>1, <1>2, <1>3, <1>4, <1>5, JournalOK DEF Sound
<1>7. \A u \in Tabs : tab[u].pc \notin Working
  BY <1>1, SuiAssumption DEF IInv, LockOK
<1>8. EvidenceOK' /\ WorkOK' /\ LockOK' /\ TypeOK'
  BY <1>1, <1>3, <1>6, <1>7
     DEF IInv, EvidenceOK, Sound, WorkOK, LockOK, TypeOK, Working, Underway
<1> QED BY <1>6, <1>8 DEF IInv

(***************************************************************************)
(* The wallets and the chains.                                             *)
(***************************************************************************)
LEMMA OutsideOK ==
  ASSUME IInv, UNCHANGED <<journal, lock, held, tab>>, Keeps,
         \A t \in Tabs : tab[t].pc \in {"sign", "signed"} => reqs'[tab[t].x] = reqs[tab[t].x]
  PROVE  IInv'
<1>1. RequestOK' /\ OpenIsJournaled' /\ SettledIsTrue'
      /\ (journal'.state # "none" => Sound(journal)')
  BY JournalSame
<1>2. EvidenceOK'
  BY <1>1 DEF IInv, EvidenceOK, Sound, Keeps
<1>3. WorkOK'
  BY DEF IInv, WorkOK, Underway, Unresolved, Keeps
<1>4. TypeOK' /\ LockOK'
  BY DEF IInv, TypeOK, LockOK, Keeps
<1> QED BY <1>1, <1>2, <1>3, <1>4 DEF IInv

\* A request that nobody is signing changes its status.
LEMMA OutsideBecame ==
  ASSUME IInv, UNCHANGED <<journal, lock, held, tab, spent>>,
         NEW x \in Tx, NEW status \in Opens \cup Decided, Became(x, status),
         reqs[x].status \in Opens,
         \A t \in Tabs : tab[t].pc \in {"sign", "signed"} => tab[t].x # x
  PROVE  IInv' /\ Keeps
<1>1. Keeps /\ \A y \in Tx \ {x} : reqs'[y] = reqs[y]
  BY BecameKeeps, BecameFacts DEF IInv
<1>2. \A t \in Tabs : tab[t].pc \in {"sign", "signed"} => tab[t].x \in Tx
  BY DEF IInv, WorkOK, Underway
<1> QED BY <1>1, <1>2, OutsideOK

LEMMA NotBeingSigned ==
  ASSUME IInv, NEW x \in Tx,
         \/ reqs[x].status \notin {"prompt", "signed"}
         \/ reqs[x].method = "arc-send"
         \/ \A t \in Tabs : tab[t].x # x
  PROVE  \A t \in Tabs : tab[t].pc \in {"sign", "signed"} => tab[t].x # x
  BY DEF IInv, WorkOK

LEMMA OutsideStep ==
  ASSUME IInv, NEW x \in Tx,
         WalletOpens(x) \/ Broadcast(x) \/ Mine(x) \/ DropsPrompt(x) \/ OtherTransaction(x)
  PROVE  IInv' /\ Keeps
<1>1. CASE WalletOpens(x)
  BY <1>1, NotBeingSigned, OutsideBecame DEF WalletOpens, Opens
<1>2. CASE Mine(x)
  BY <1>2, NotBeingSigned, OutsideBecame DEF Mine, Opens, Decided
<1>3. CASE DropsPrompt(x)
  BY <1>3, NotBeingSigned, OutsideBecame DEF DropsPrompt, Opens, Decided
<1>4. CASE Broadcast(x) /\ reqs[x].status = "sent" /\ Became(x, "pending")
  BY <1>4, NotBeingSigned, OutsideBecame DEF Broadcast, Opens
<1>5. CASE /\ Broadcast(x) /\ reqs[x].method = "arc-send" /\ reqs[x].status = "prompt"
           /\ \E exact \in BOOLEAN :
                reqs' = [reqs EXCEPT ![x] = [@ EXCEPT !.status = "pending", !.exact = exact]]
  <2>1. PICK exact \in BOOLEAN :
          reqs' = [reqs EXCEPT ![x] = [reqs[x] EXCEPT !.status = "pending", !.exact = exact]]
    BY <1>5
  <2> DEFINE e == [reqs[x] EXCEPT !.status = "pending", !.exact = exact]
  <2>2. e \in Request /\ e.status = "pending" /\ e.method = reqs[x].method
    BY DEF IInv, TypeOK, Request
  <2>3. reqs' = [reqs EXCEPT ![x] = e]
    BY <2>1
  <2> HIDE DEF e
  <2>4. reqs' \in [Tx -> Request] /\ reqs'[x] = e /\ \A y \in Tx \ {x} : reqs'[y] = reqs[y]
    BY <2>2, <2>3, Put DEF IInv, TypeOK
  <2>5. UNCHANGED <<journal, lock, held, tab, spent>> /\ x \notin spent
    BY <1>5 DEF Broadcast
  <2>6. Open(x)
    BY <1>5, <2>5 DEF Open
  <2>7. Keeps
    <3>1. \A y \in Tx : Open(y)' => Open(y)
      BY <2>4, <2>5, <2>6 DEF Open
    <3> QED BY <1>5, <2>2, <2>4, <2>5, <3>1 DEF Keeps, Decided, IInv, TypeOK
  <2>8. \A t \in Tabs : tab[t].pc \in {"sign", "signed"} => tab[t].x \in Tx \ {x}
    BY <1>5, NotBeingSigned DEF IInv, WorkOK, Underway
  <2> QED BY <2>4, <2>5, <2>7, <2>8, OutsideOK
<1>6. CASE OtherTransaction(x)
  <2>1. /\ UNCHANGED <<journal, lock, held, tab, reqs>> /\ spent' = spent \cup {x}
        /\ reqs[x].method # None
    BY <1>6, SuiAssumption DEF OtherTransaction, Methods
  <2>2. Keeps
    BY <2>1 DEF Keeps, IInv, TypeOK, RequestOK, Open
  <2> QED BY <2>1, <2>2, OutsideOK
<1> QED BY <1>1, <1>2, <1>3, <1>4, <1>5, <1>6 DEF Broadcast

-----------------------------------------------------------------------------
(***************************************************************************)
(* The theorems.                                                           *)
(***************************************************************************)
LEMMA InitIInv ==
  ASSUME Init
  PROVE  IInv
<1> DEFINE r == [method |-> None, exact |-> TRUE, tab |-> None, status |-> "unused"]
<1>1. r \in Request /\ r.method = None /\ r.status = "unused"
  BY DEF Request
<1>2. /\ journal = NoAttempt /\ lock = None /\ held = [t \in Tabs |-> None]
      /\ tab = [t \in Tabs |-> Idle] /\ reqs = [x \in Tx |-> r] /\ spent = {}
  BY DEF Init
<1>3. NoAttempt.state = "none"
  BY DEF NoAttempt
<1> HIDE DEF r, NoAttempt, Idle
<1>4. TypeOK
  BY <1>1, <1>2, IdleFacts DEF TypeOK
<1>5. LockOK /\ RequestOK /\ WorkOK /\ EvidenceOK
  BY <1>1, <1>2, <1>3, IdleFacts
     DEF LockOK, RequestOK, WorkOK, EvidenceOK, Working, Underway
<1>6. OpenIsJournaled /\ SettledIsTrue
  BY <1>1, <1>2, <1>3 DEF OpenIsJournaled, SettledIsTrue, Open
<1> QED BY <1>4, <1>5, <1>6 DEF IInv

\* Every step keeps the invariant, and every step but the start of an attempt
\* keeps the requests.
LEMMA StepIInv ==
  ASSUME IInv, [Next]_vars
  PROVE  /\ IInv'
         /\ Keeps \/ \E t \in Tabs, x \in Tx : AskSignature(t, x) \/ AskSend(t, x)
<1>1. CASE UNCHANGED vars
  <2>1. Keeps
    BY <1>1, KeepsSame DEF vars, IInv
  <2> QED BY <1>1, <2>1, OutsideOK DEF vars
<1>2. ASSUME NEW t \in Tabs, NEW method \in Methods, Prepare(t, method)
      PROVE  IInv' /\ Keeps
  BY <1>2, PrepareStep, KeepsSame DEF Prepare, IInv
<1>3. ASSUME NEW t \in Tabs, NEW x \in Tx, AskSignature(t, x) \/ AskSend(t, x)
      PROVE  IInv'
  BY <1>3, BeginStep
<1>4. ASSUME NEW t \in Tabs, NEW x \in Tx, LateAnswer(t, x)
      PROVE  IInv' /\ Keeps
  BY <1>4, LateAnswerStep
<1>5. ASSUME NEW t \in Tabs,
             \/ Invalidate(t)   \/ Confirm(t)      \/ ConfirmFails(t) \/ LoadAttempt(t)
             \/ LockAttempt(t)  \/ RecoverFails(t) \/ Locate(t)       \/ Judge(t)
             \/ Reconcile(t)
      PROVE  IInv' /\ Keeps
  <2>1. UNCHANGED <<reqs, spent>>
    BY <1>5 DEF Invalidate, Confirm, ConfirmFails, LoadAttempt, LockAttempt, RecoverFails,
                Locate, Judge, Reconcile
  <2> QED BY <1>5, <2>1, KeepsSame, PrepareStep, ConfirmStep, FailsStep, LoadAttemptStep,
             LockAttemptStep, LocateStep, JudgeStep, ReconcileStep DEF IInv
<1>6. ASSUME NEW t \in Tabs,
             \/ Signs(t)        \/ SignatureRejected(t) \/ SignatureUnused(t)
             \/ Send(t)         \/ SendAccepted(t)      \/ SendUnknown(t)
             \/ NotRequested(t) \/ WalletRejects(t)     \/ WalletAnswers(t)
             \/ WalletUnclear(t) \/ TabCloses(t)
      PROVE  IInv' /\ Keeps
  BY <1>6, SignsStep, SignatureRejectedStep, SignatureUnusedStep, SendStep, AnsweredStep,
     NotAskedStep, WalletUnclearStep, TabClosesStep
<1>7. ASSUME NEW x \in Tx,
             WalletOpens(x) \/ Broadcast(x) \/ Mine(x) \/ DropsPrompt(x) \/ OtherTransaction(x)
      PROVE  IInv' /\ Keeps
  BY <1>7, OutsideStep
<1> QED BY <1>1, <1>2, <1>3, <1>4, <1>5, <1>6, <1>7 DEF Next

LEMMA Invariant == Spec => []IInv
<1>1. Init => IInv
  BY InitIInv
<1>2. IInv /\ [Next]_vars => IInv'
  BY StepIInv
<1> QED BY <1>1, <1>2, PTL DEF Spec

\* Every variable keeps its type: whatever is saved is a record load() accepts.
THEOREM SuiTypes == Spec => []TypeOK
<1>1. IInv => TypeOK
  BY DEF IInv
<1> QED BY <1>1, Invariant, PTL

\* A transaction that may still take effect is the journaled one and blocks, for
\* any number of tabs and attempts, timeouts, late answers and lost saves.
THEOREM SuiOpenIsJournaled == Spec => []OpenIsJournaled
<1>1. IInv => OpenIsJournaled
  BY DEF IInv
<1> QED BY <1>1, Invariant, PTL

\* What the journal says is settled is true of the reviewed transaction.
THEOREM SuiSettledIsTrue == Spec => []SettledIsTrue
<1>1. IInv => SettledIsTrue
  BY DEF IInv
<1> QED BY <1>1, Invariant, PTL

-----------------------------------------------------------------------------
(***************************************************************************)
(* SuiWrite implements OneOutstanding.                                     *)
(***************************************************************************)
Made == {x \in Tx : reqs[x].status # "unused"}

Opened == {x \in Tx : Open(x)}

\* At most one request is open, so a step that keeps the requests leaves it or
\* closes it.
LEMMA KeepingCloses ==
  ASSUME IInv, Keeps
  PROVE  Made' = Made /\ (Opened' = Opened \/ \E x \in Opened : Opened' = {})
<1>1. Made' = Made
  BY DEF Made, Keeps
<1>2. Opened' \subseteq Opened
  BY DEF Opened, Keeps
<1>3. \A x, y \in Opened : x = y
  BY DEF Opened, IInv, OpenIsJournaled
<1> QED BY <1>1, <1>2, <1>3

\* A request is made while none is open.
LEMMA BeginMakes ==
  ASSUME IInv, NEW t \in Tabs, NEW x \in Tx, AskSignature(t, x) \/ AskSend(t, x)
  PROVE  Opened = {} /\ x \notin Made /\ Made' = Made \cup {x} /\ Opened' = {x}
<1>1. PICK status \in {"prompt", "asking"} :
        /\ tab[t].pc = "recheck" /\ reqs[x].status = "unused" /\ UNCHANGED spent
        /\ reqs' = [reqs EXCEPT ![x] =
             [method |-> held[t], exact |-> TRUE, tab |-> t, status |-> status]]
        /\ held[t] \in Methods
  BY DEF AskSignature, AskSend, Begin, Methods
<1> DEFINE r == [method |-> held[t], exact |-> TRUE, tab |-> t, status |-> status]
<1>2. r \in Request /\ r.status = status
  BY <1>1 DEF Request
<1>3. reqs' = [reqs EXCEPT ![x] = r]
  BY <1>1
<1> HIDE DEF r
<1>4. reqs'[x] = r /\ \A y \in Tx \ {x} : reqs'[y] = reqs[y]
  BY <1>2, <1>3, Put DEF IInv, TypeOK
<1>5. \A y \in Tx : ~Open(y)
  BY <1>1 DEF IInv, WorkOK, OpenIsJournaled
<1>6. x \notin spent
  BY <1>1 DEF IInv, RequestOK
<1>7. Open(x)' /\ \A y \in Tx \ {x} : ~Open(y)'
  BY <1>1, <1>2, <1>4, <1>5, <1>6 DEF Open
<1> QED BY <1>1, <1>2, <1>4, <1>5, <1>7 DEF Made, Opened

\* Over all tabs and attempts the wallet is asked for one thing at a time: for
\* every number of them SuiWrite implements OneOutstanding.
THEOREM SuiAsksOneAtATime == Spec => AsksOneAtATime
<1>1. Init => Wallet!Init
  <2> SUFFICES ASSUME Init
               PROVE  Wallet!Init
    OBVIOUS
  <2>1. \A x \in Tx : reqs[x].status = "unused"
    BY DEF Init
  <2> QED BY <2>1 DEF Wallet!Init, Open
<1>2. IInv /\ [Next]_vars => [Wallet!Next]_<<Made, Opened>>
  <2> SUFFICES ASSUME IInv, [Next]_vars
               PROVE  [Wallet!Next]_<<Made, Opened>>
    OBVIOUS
  <2>1. CASE Keeps
    <3>1. Made' = Made /\ (Opened' = Opened \/ \E x \in Opened : Opened' = {})
      BY <2>1, KeepingCloses
    <3>2. ASSUME NEW x \in Opened, Opened' = {}
          PROVE  x \in Tx /\ Wallet!Close(x)
      BY <3>1, <3>2 DEF Wallet!Close, Made, Opened
    <3> QED BY <3>1, <3>2 DEF Wallet!Next
  <2>2. ASSUME NEW t \in Tabs, NEW x \in Tx, AskSignature(t, x) \/ AskSend(t, x)
        PROVE  Wallet!Next
    <3>1. Opened = {} /\ x \notin Made /\ Made' = Made \cup {x} /\ Opened' = {x}
      BY <2>2, BeginMakes
    <3>2. Wallet!Make(x)
      BY <3>1 DEF Wallet!Make, Made, Opened
    <3> QED BY <3>2 DEF Wallet!Next
  <2> QED BY <2>1, <2>2, StepIInv
<1> QED BY <1>1, <1>2, Invariant, PTL
        DEF Spec, AsksOneAtATime, Wallet!Spec, Made, Opened
=============================================================================
