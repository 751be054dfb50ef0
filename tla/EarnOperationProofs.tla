------------------------- MODULE EarnOperationProofs -------------------------
(***************************************************************************)
(* Theorems about EarnOperation, for any number of operations, tabs and    *)
(* executes.                                                               *)
(***************************************************************************)
EXTENDS EarnOperation, FiniteSetTheorems, TLAPS

Record_ ==
  [outcome : Final \cup {"none", "pruned", "sending", "unknown"}, approved : BOOLEAN,
   execute : Answer, hash : Tx \cup {None}, nonce : Nat]
Tab_ ==
  [step : {"idle", "attempt", "record", "running", "settle", "judge", "save"},
   rec : Rec \cup {None}, nonce : Nat, hash : Tx \cup {None}, other : BOOLEAN,
   verdict : {"success", "reverted", "unknown"}]
Kit_ == [at : {"off", "ready", "executing"}, in : Tab \cup {None}, tx : Tx \cup {None}]
Tx_ ==
  [of : Rec \cup {None}, nonce : Nat,
   state : {"unused", "prompt", "pending", "mined", "reverted", "refused"}]

(***************************************************************************)
(* The inductive invariant.                                                *)
(***************************************************************************)
Own(x, r) == tx[x].of = r

\* One operation is open at a time.
OneOpen == \A r, q \in Rec : Open(r) /\ Open(q) => r = q

\* An execute that may still take effect belongs to the open operation.
LiveOK == \A x \in Tx : Live(x) => tx[x].of \in Rec /\ Open(tx[x].of)

\* Who works holds the lock; before it has recorded its operation nothing is
\* open, and afterwards its own operation is.
LockOK == \A t \in Tab : tab[t].step # "idle" => lock = t
WorkOK ==
  \A t \in Tab :
    /\ tab[t].step \in {"attempt", "record"} => \A r \in Rec : ~Open(r)
    /\ tab[t].step = "record" => latest <= tab[t].nonce
    /\ tab[t].step \in {"running", "settle", "judge", "save"} => tab[t].rec \in Rec /\ Open(tab[t].rec)
    /\ tab[t].step \in {"judge", "save"} /\ tab[t].hash # None => Own(tab[t].hash, tab[t].rec)
VerdictOK ==
  \A t \in Tab :
    /\ tab[t].verdict # "unknown" => tab[t].step = "save" /\ tab[t].hash # None
    /\ tab[t].verdict = "success" => tx[tab[t].hash].state = "mined"
    /\ tab[t].verdict = "reverted" => tx[tab[t].hash].state = "reverted"

\* A record has one execute, asked for after the record says so; its hash and
\* what the wallet answered are about that execute.
OneExecute == \A x, y \in Tx : tx[x].of = tx[y].of /\ tx[x].of # None => x = y
RecordOK ==
  \A r \in Rec :
    /\ journal[r].outcome = "none" => journal[r].execute = "none"
    /\ journal[r].hash # None => Own(journal[r].hash, r)
    /\ \A x \in Tx : Own(x, r) => /\ journal[r].execute # "none"
                                  /\ journal[r].execute = "rejected" => tx[x].state = "refused"
KitOK == \A r \in Rec : kit[r].at = "executing" => kit[r].tx \in Tx /\ Own(kit[r].tx, r)
FreshOK == \A x \in Tx : tx[x].state = "unused" => tx[x].of = None

\* What the chain has of others is older than the open operation.
ChainOK ==
  \A x \in Tx : tx[x].state = "mined" =>
    /\ tx[x].nonce < latest
    /\ \A r \in Rec : Open(r) /\ ~Own(x, r) => tx[x].nonce < journal[r].nonce

IInv == /\ TypeOK /\ OneOpen /\ LiveOK /\ LockOK /\ WorkOK /\ VerdictOK /\ OneExecute
        /\ RecordOK /\ KitOK /\ FreshOK /\ ChainOK /\ SettledIsTrue

-----------------------------------------------------------------------------
(***************************************************************************)
(* Writing one element of a function, and one record of the journal.       *)
(***************************************************************************)
LEMMA Put ==
  ASSUME NEW S, NEW T, NEW f \in [S -> T], NEW i \in S, NEW e \in T, NEW g,
         g = [f EXCEPT ![i] = e]
  PROVE  g \in [S -> T] /\ g[i] = e /\ \A j \in S \ {i} : g[j] = f[j]
  OBVIOUS

\* A record is as it was, but that a settled one may have been dropped.
Kept(new, old) ==
  /\ new.approved = old.approved /\ new.execute = old.execute
  /\ new.hash = old.hash /\ new.nonce = old.nonce
  /\ new.outcome = old.outcome \/ (old.outcome \in Final /\ new.outcome = "pruned")

Wrote(r, e) ==
  /\ journal' \in [Rec -> Record_]
  /\ Kept(journal'[r], e)
  /\ \A q \in Rec \ {r} : Kept(journal'[q], journal[q])

\* The record just written is not the one that is dropped.
LEMMA SaveWrites ==
  ASSUME journal \in [Rec -> Record_], NEW r \in Rec, NEW e \in Record_, Save(r, e)
  PROVE  Wrote(r, e) /\ journal'[r].outcome = e.outcome
<1> DEFINE j == [journal EXCEPT ![r] = e]
           settled == {q \in Rec : j[q].outcome \in Final}
<1>1. j \in [Rec -> Record_] /\ j[r] = e /\ \A q \in Rec \ {r} : j[q] = journal[q]
  BY Put
<1>2. \E k \in SUBSET settled :
        /\ r \in settled => r \in k
        /\ journal' = [q \in Rec |-> IF q \in settled \ k THEN [j[q] EXCEPT !.outcome = "pruned"] ELSE j[q]]
  BY DEF Save, Written
<1> HIDE DEF j
<1>3. \A q \in Rec : [j[q] EXCEPT !.outcome = "pruned"] \in Record_
  BY <1>1 DEF Record_
<1>4. \A q \in Rec : Kept([j[q] EXCEPT !.outcome = "pruned"], j[q]) \/ q \notin settled
  BY <1>1 DEF Kept, Record_
<1>5. PICK k \in SUBSET settled :
        /\ r \in settled => r \in k
        /\ journal' = [q \in Rec |-> IF q \in settled \ k THEN [j[q] EXCEPT !.outcome = "pruned"] ELSE j[q]]
  BY <1>2
<1>6. \A q \in Rec : journal'[q] = IF q \in settled \ k THEN [j[q] EXCEPT !.outcome = "pruned"] ELSE j[q]
  BY <1>5
<1> HIDE DEF settled
<1>7. journal' \in [Rec -> Record_]
  BY <1>1, <1>3, <1>5
<1>8. \A q \in Rec : Kept(journal'[q], j[q])
  BY <1>4, <1>6 DEF Kept
<1>9. journal'[r] = e
  BY <1>1, <1>5, <1>6 DEF settled
<1> QED BY <1>1, <1>7, <1>8, <1>9 DEF Wrote, Kept

\* A written record is open or not as "e" is; no other one changes that.
LEMMA OpenAfter ==
  ASSUME NEW r \in Rec, NEW e, Wrote(r, e)
  PROVE  /\ Open(r)' <=> e.outcome \in {"sending", "unknown"}
         /\ \A q \in Rec \ {r} : Open(q)' <=> Open(q)
  BY DEF Wrote, Kept, Open, Final

-----------------------------------------------------------------------------
(***************************************************************************)
(* Steps of a tab that leave the journal, the kit and the chain alone.     *)
(***************************************************************************)
\* What a tab may be in, given what is open and what the chain has.
TabOK(b) ==
  /\ b.step \in {"attempt", "record"} => \A r \in Rec : ~Open(r)
  /\ b.step = "record" => latest <= b.nonce
  /\ b.step \in {"running", "settle", "judge", "save"} => b.rec \in Rec /\ Open(b.rec)
  /\ b.step \in {"judge", "save"} /\ b.hash # None => Own(b.hash, b.rec)
  /\ b.verdict # "unknown" => b.step = "save" /\ b.hash # None
  /\ b.verdict = "success" => tx[b.hash].state = "mined"
  /\ b.verdict = "reverted" => tx[b.hash].state = "reverted"

\* A tab goes on; what it is in fits what is open and what the chain has.
LEMMA TabStep ==
  ASSUME IInv, NEW t \in Tab, NEW b \in Tab_, TabOK(b),
         tab' = [tab EXCEPT ![t] = b], UNCHANGED <<journal, kit, tx, latest, beyond>>,
         faults' \in 0 .. MaxFaults,
         lock \in {t, None}, lock' \in {t, None}, b.step # "idle" => lock' = t
  PROVE  IInv'
<1>1. tab \in [Tab -> Tab_]
  BY DEF IInv, TypeOK, Tab_
<1>2. tab' \in [Tab -> Tab_] /\ tab'[t] = b /\ \A s \in Tab \ {t} : tab'[s] = tab[s]
  BY <1>1, Put
<1>3. TypeOK'
  BY <1>2, EarnConstants DEF IInv, TypeOK, Tab_
<1>4. \A s \in Tab \ {t} : tab[s].step = "idle"
  BY EarnConstants DEF IInv, LockOK
<1>5. LockOK'
  BY <1>2, <1>4 DEF LockOK
<1>6. WorkOK'
  BY <1>2, <1>4 DEF WorkOK, TabOK, Open, Own
<1>7. VerdictOK'
  BY <1>2, <1>4 DEF IInv, VerdictOK, TabOK
<1>8. OneOpen' /\ LiveOK' /\ OneExecute' /\ RecordOK' /\ KitOK' /\ FreshOK' /\ ChainOK' /\ SettledIsTrue'
  BY DEF IInv, OneOpen, LiveOK, OneExecute, RecordOK, KitOK, FreshOK, ChainOK, SettledIsTrue, Open, Own, Live
<1> QED BY <1>3, <1>5, <1>6, <1>7, <1>8 DEF IInv

\* The end of a callback.
LEMMA IdleOK == Idle \in Tab_ /\ TabOK(Idle) /\ Idle.step = "idle"
  BY DEF Idle, Tab_, TabOK

\* The bound on faults is kept.
LEMMA FaultsOK ==
  ASSUME IInv, Fault \/ NoFault
  PROVE  faults' \in 0 .. MaxFaults
  BY EarnConstants DEF IInv, TypeOK, Fault, NoFault

\* A callback ends without a write.
LEMMA LeaveStep ==
  ASSUME IInv, NEW t \in Tab, Leave(t), lock = t, Fault \/ NoFault,
         UNCHANGED <<journal, kit, tx, latest, beyond>>
  PROVE  IInv'
<1>1. faults' \in 0 .. MaxFaults
  BY FaultsOK
<1> HIDE DEF Idle
<1> QED BY <1>1, IdleOK, TabStep DEF Leave

\* What IInv says of one tab at work.
LEMMA TabNow ==
  ASSUME IInv, NEW t \in Tab
  PROVE  tab[t] \in Tab_ /\ TabOK(tab[t]) /\ (tab[t].step # "idle" => lock = t)
  BY DEF IInv, TypeOK, Tab_, TabOK, WorkOK, VerdictOK, LockOK

\* The lock is free and nothing is open: the attempt begins.
LEMMA StartInv ==
  ASSUME IInv, NEW t \in Tab, Start(t)
  PROVE  IInv'
<1> DEFINE b == [tab[t] EXCEPT !.step = "attempt"]
<1>1. b \in Tab_ /\ b.step = "attempt" /\ b.verdict = "unknown"
  BY TabNow DEF Tab_, Start, TabOK
<1>2. TabOK(b)
  BY <1>1 DEF TabOK, Start
<1>3. tab' = [tab EXCEPT ![t] = b]
  BY DEF Start
<1> HIDE DEF b
<1>4. faults' \in 0 .. MaxFaults
  BY FaultsOK DEF Start, NoFault
<1> QED BY <1>1, <1>2, <1>3, <1>4, TabStep DEF Start

\* While nothing is open nothing can be sent, so "latest" stays.
LEMMA ReadAttemptInv ==
  ASSUME IInv, NEW t \in Tab, ReadAttempt(t)
  PROVE  IInv'
<1>1. lock = t
  BY TabNow DEF ReadAttempt
<1>2. CASE Pending = {}
  <2> DEFINE b == [tab[t] EXCEPT !.step = "record", !.nonce = latest]
  <2>1. latest \in Nat
    BY DEF IInv, TypeOK
  <2>2. b \in Tab_ /\ b.step = "record" /\ b.nonce = latest /\ b.verdict = "unknown"
    BY <2>1, TabNow DEF Tab_, ReadAttempt, TabOK
  <2>3. TabOK(b)
    BY <2>1, <2>2, TabNow DEF TabOK, ReadAttempt
  <2>4. tab' = [tab EXCEPT ![t] = b] /\ lock' = lock
    BY <1>2 DEF ReadAttempt
  <2> HIDE DEF b
  <2>5. faults' \in 0 .. MaxFaults
    BY FaultsOK DEF ReadAttempt, NoFault
  <2> QED BY <1>1, <2>2, <2>3, <2>4, <2>5, TabStep DEF ReadAttempt
<1>3. CASE Pending # {}
  BY <1>1, <1>3, LeaveStep DEF ReadAttempt, NoFault
<1> QED BY <1>2, <1>3

\* Before its record a tab can leave without a trace.
LEMMA GiveUpInv ==
  ASSUME IInv, NEW t \in Tab, GiveUp(t)
  PROVE  IInv'
<1>1. lock = t
  BY TabNow DEF GiveUp
<1> QED BY <1>1, LeaveStep DEF GiveUp, NoFault

\* The kit's promise settles: the tab turns to its own, still open record.
LEMMA KitEndsInv ==
  ASSUME IInv, NEW t \in Tab, KitEnds(t)
  PROVE  IInv'
<1>0. PICK other \in BOOLEAN : tab' = [tab EXCEPT ![t].step = "settle", ![t].other = other]
  BY DEF KitEnds
<1> DEFINE b == [tab[t] EXCEPT !.step = "settle", !.other = other]
<1>1. b \in Tab_ /\ b.step = "settle" /\ b.verdict = "unknown" /\ b.rec = tab[t].rec
  BY TabNow DEF Tab_, KitEnds, TabOK
<1>2. TabOK(b)
  BY <1>1, TabNow DEF TabOK, KitEnds
<1>3. tab' = [tab EXCEPT ![t] = b]
  BY <1>0
<1> HIDE DEF b
<1>4. faults' \in 0 .. MaxFaults
  BY FaultsOK DEF KitEnds, NoFault
<1>5. lock = t
  BY TabNow DEF KitEnds
<1> QED BY <1>1, <1>2, <1>3, <1>4, <1>5, TabStep DEF KitEnds

\* The tab takes the lock for an open record.
LEMMA CheckStatusInv ==
  ASSUME IInv, NEW t \in Tab, CheckStatus(t)
  PROVE  IInv'
<1>1. PICK r \in Rec : Open(r) /\ tab' = [tab EXCEPT ![t].step = "settle", ![t].rec = r]
  BY DEF CheckStatus
<1> DEFINE b == [tab[t] EXCEPT !.step = "settle", !.rec = r]
<1>2. b \in Tab_ /\ b.step = "settle" /\ b.verdict = "unknown" /\ b.rec = r
  BY TabNow, ZenonT(40) DEF Tab_, CheckStatus, TabOK
<1>3. TabOK(b)
  BY <1>1, <1>2 DEF TabOK
<1>4. tab' = [tab EXCEPT ![t] = b]
  BY <1>1
<1> HIDE DEF b
<1>5. faults' \in 0 .. MaxFaults
  BY FaultsOK DEF CheckStatus, NoFault
<1> QED BY <1>2, <1>3, <1>4, <1>5, TabStep DEF CheckStatus

\* What is judged is the record's own execute: its hash, or the only one the
\* chain has from the attempt on that no other record has.
LEMMA JudgeInv ==
  ASSUME IInv, NEW t \in Tab, Judge(t)
  PROVE  IInv'
<1> DEFINE r == tab[t].rec
           found == IF tab[t].hash # None THEN {tab[t].hash} ELSE Found(r)
<1>1. tab[t] \in Tab_ /\ TabOK(tab[t]) /\ tab[t].step = "judge" /\ lock = t /\ lock' = t
  BY TabNow DEF Judge
<1>2. r \in Rec /\ Open(r) /\ (tab[t].hash # None => Own(tab[t].hash, r))
  BY <1>1 DEF TabOK
<1>3. faults' \in 0 .. MaxFaults
  BY FaultsOK DEF Judge
<1>4. UNCHANGED <<journal, kit, tx, latest, beyond>>
  BY DEF Judge
<1>5. CASE \E x \in found : tab' = [tab EXCEPT ![t].step = "save", ![t].hash = x, ![t].verdict = Verdict(x)]
  <2>1. PICK x \in found :
          tab' = [tab EXCEPT ![t].step = "save", ![t].hash = x, ![t].verdict = Verdict(x)]
    BY <1>5
  <2>2. x \in Tx /\ Own(x, r)
    <3>1. CASE tab[t].hash # None
      BY <1>1, <1>2, <3>1 DEF Tab_
    <3>2. CASE tab[t].hash = None
      <4>1. x \in Tx /\ tx[x].state = "mined" /\ tx[x].nonce >= journal[r].nonce
        BY <3>2 DEF Found
      <4>2. tx[x].nonce \in Nat /\ journal[r].nonce \in Nat
        BY <1>2, <4>1 DEF IInv, TypeOK
      <4> QED BY <1>2, <4>1, <4>2 DEF IInv, ChainOK
    <3> QED BY <3>1, <3>2
  <2> DEFINE v == Verdict(x)
             b == [tab[t] EXCEPT !.step = "save", !.hash = x, !.verdict = v]
  <2>3. /\ v \in {"success", "reverted", "unknown"}
        /\ v = "success" => tx[x].state = "mined"
        /\ v = "reverted" => tx[x].state = "reverted"
    BY DEF Verdict
  <2> HIDE DEF v
  <2>4. tab' = [tab EXCEPT ![t] = b]
    BY <2>1 DEF v
  <2>5. b \in Tab_ /\ b.step = "save" /\ b.hash = x /\ b.verdict = v /\ b.rec = r
    BY <1>1, <2>2, <2>3 DEF Tab_
  <2>6. x # None
    BY <2>2, EarnConstants
  <2> HIDE DEF b, r
  <2>7. TabOK(b)
    BY <1>2, <2>2, <2>3, <2>5, <2>6 DEF TabOK
  <2> QED BY <1>1, <1>3, <1>4, <2>4, <2>5, <2>7, TabStep
<1>6. CASE tab' = [tab EXCEPT ![t].step = "save"]
  <2> DEFINE b == [tab[t] EXCEPT !.step = "save"]
  <2>1. b \in Tab_ /\ b.step = "save" /\ b.hash = tab[t].hash /\ b.verdict = "unknown" /\ b.rec = r
    BY <1>1 DEF Tab_, TabOK
  <2>2. tab' = [tab EXCEPT ![t] = b]
    BY <1>6
  <2> HIDE DEF b, r
  <2>3. TabOK(b)
    BY <1>1, <1>2, <2>1 DEF TabOK
  <2> QED BY <1>1, <1>3, <1>4, <2>1, <2>2, <2>3, TabStep
<1> QED BY <1>5, <1>6 DEF Judge

-----------------------------------------------------------------------------
(***************************************************************************)
(* Steps that write a record.                                              *)
(***************************************************************************)
JournalInv ==
  OneOpen /\ LiveOK /\ OneExecute /\ RecordOK /\ FreshOK /\ ChainOK /\ SettledIsTrue

\* What a record "e" written for "r" must satisfy.
RecordFits(r, e) ==
  /\ e.outcome \in {"sending", "unknown"} => \A q \in Rec \ {r} : ~Open(q)
  /\ e.outcome \notin {"sending", "unknown"} => \A x \in Tx : Own(x, r) => ~Live(x)
  /\ e.outcome = "none" => e.execute = "none"
  /\ e.hash # None => Own(e.hash, r)
  /\ \A x \in Tx : Own(x, r) => e.execute # "none" /\ (e.execute = "rejected" => tx[x].state = "refused")
  /\ e.outcome \in {"sending", "unknown"} =>
       \A x \in Tx : tx[x].state = "mined" /\ ~Own(x, r) => tx[x].nonce < e.nonce
  /\ e.outcome = "success" => e.hash \in Tx /\ Own(e.hash, r) /\ tx[e.hash].state = "mined"
  /\ e.outcome = "reverted" => e.hash \in Tx /\ Own(e.hash, r) /\ tx[e.hash].state = "reverted"
  /\ e.outcome = "not_sent" => \A x \in Tx : Own(x, r) => tx[x].state = "refused"

\* A written record that fits keeps what relates the journal to the chain.
LEMMA JournalStep ==
  ASSUME IInv, NEW r \in Rec, NEW e \in Record_, Save(r, e), RecordFits(r, e), UNCHANGED <<tx, latest>>
  PROVE  JournalInv'
<1>0. journal \in [Rec -> Record_]
  BY DEF IInv, TypeOK, Record_
<1>1. Wrote(r, e) /\ journal'[r].outcome = e.outcome
  BY <1>0, SaveWrites
<1>2. /\ Open(r)' <=> e.outcome \in {"sending", "unknown"}
      /\ \A q \in Rec \ {r} : Open(q)' <=> Open(q)
  BY <1>1, OpenAfter
<1>3. OneOpen'
  BY <1>2 DEF OneOpen, IInv, RecordFits
<1>4. LiveOK'
  <2> SUFFICES ASSUME NEW x \in Tx, Live(x) PROVE tx[x].of \in Rec /\ Open(tx[x].of)'
    BY DEF LiveOK, Live, Open
  <2>1. tx[x].of \in Rec /\ Open(tx[x].of)
    BY DEF IInv, LiveOK
  <2>2. CASE tx[x].of = r
    BY <1>2, <2>1, <2>2 DEF RecordFits, Own
  <2>3. CASE tx[x].of # r
    BY <1>2, <2>1, <2>3
  <2> QED BY <2>2, <2>3
<1>5. OneExecute' /\ FreshOK'
  BY DEF IInv, OneExecute, FreshOK
<1>6. RecordOK'
  BY <1>1 DEF IInv, RecordOK, RecordFits, Wrote, Kept, Own, Final
<1>7. ChainOK'
  BY <1>1, <1>2 DEF IInv, ChainOK, RecordFits, Wrote, Kept, Own
<1>8. SettledIsTrue'
  <2> SUFFICES ASSUME NEW q \in Rec
        PROVE /\ journal'[q].outcome = "success" =>
                   journal'[q].hash \in Tx /\ Own(journal'[q].hash, q) /\ tx[journal'[q].hash].state = "mined"
              /\ journal'[q].outcome = "reverted" =>
                   journal'[q].hash \in Tx /\ Own(journal'[q].hash, q) /\ tx[journal'[q].hash].state = "reverted"
              /\ journal'[q].outcome = "not_sent" => \A x \in Tx : Own(x, q) => tx[x].state = "refused"
    BY DEF SettledIsTrue, Own
  <2>1. CASE q = r
    BY <1>1, <2>1 DEF RecordFits, Wrote, Kept
  <2>2. CASE q # r
    <3>1. Kept(journal'[q], journal[q])
      BY <1>1, <2>2 DEF Wrote
    <3> QED BY <3>1 DEF IInv, SettledIsTrue, Kept, Own, Final
  <2> QED BY <2>1, <2>2
<1> QED BY <1>3, <1>4, <1>5, <1>6, <1>7, <1>8 DEF JournalInv

\* A record that is still written as it was fits.
LEMMA AsItWas ==
  ASSUME IInv, NEW r \in Rec, NEW e \in Record_,
         e.outcome = journal[r].outcome, e.hash = journal[r].hash, e.nonce = journal[r].nonce,
         e.execute = journal[r].execute
  PROVE  RecordFits(r, e)
<1>1. /\ e.outcome \in {"sending", "unknown"} <=> Open(r)
      /\ \A x \in Tx : Own(x, r) /\ Live(x) => Open(r)
  BY DEF Open, IInv, LiveOK, Own
<1>2. \A q \in Rec \ {r} : Open(r) => ~Open(q)
  BY DEF IInv, OneOpen
<1> QED BY <1>1, <1>2 DEF RecordFits, IInv, RecordOK, ChainOK, SettledIsTrue, Own

\* The tabs, when one of them ends its callback or starts the kit.
LEMMA Tabs ==
  ASSUME IInv, NEW t \in Tab, NEW b \in Tab_, tab' = [tab EXCEPT ![t] = b], TabOK(b)',
         lock \in {t, None}, lock' \in {t, None}, b.step # "idle" => lock' = t
  PROVE  tab' \in [Tab -> Tab_] /\ LockOK' /\ WorkOK' /\ VerdictOK'
<1>1. tab \in [Tab -> Tab_]
  BY DEF IInv, TypeOK, Tab_
<1>2. tab' \in [Tab -> Tab_] /\ tab'[t] = b /\ \A s \in Tab \ {t} : tab'[s] = tab[s]
  BY <1>1, Put
<1>3. \A s \in Tab \ {t} : tab[s].step = "idle"
  BY EarnConstants DEF IInv, LockOK
<1>4. \A s \in Tab \ {t} : tab[s].verdict = "unknown"
  BY <1>3 DEF IInv, VerdictOK
<1>5. LockOK'
  BY <1>2, <1>3 DEF LockOK
<1>6. WorkOK'
  BY <1>2, <1>3 DEF WorkOK, TabOK
<1>7. VerdictOK'
  BY <1>2, <1>4 DEF VerdictOK, TabOK
<1> QED BY <1>2, <1>5, <1>6, <1>7

\* The tabs, when one of them ends its callback.
LEMMA TabsLeave ==
  ASSUME IInv, NEW t \in Tab, Leave(t), lock = t
  PROVE  tab' \in [Tab -> Tab_] /\ LockOK' /\ WorkOK' /\ VerdictOK' /\ lock' \in Tab \cup {None}
<1>1. Idle \in Tab_ /\ TabOK(Idle)'
  BY DEF Idle, Tab_, TabOK
<1>2. tab' = [tab EXCEPT ![t] = Idle] /\ lock' = None /\ Idle.step = "idle"
  BY DEF Leave, Idle
<1> HIDE DEF Idle
<1> QED BY <1>1, <1>2, Tabs

\* The tabs, when nothing is opened or settled.
LEMMA TabsStay ==
  ASSUME IInv, UNCHANGED <<tab, lock, tx, latest>>, \A q \in Rec : Open(q)' <=> Open(q)
  PROVE  tab' \in [Tab -> Tab_] /\ LockOK' /\ WorkOK' /\ VerdictOK'
<1>1. tab' \in [Tab -> Tab_]
  BY DEF IInv, TypeOK, Tab_
<1>2. LockOK' /\ VerdictOK'
  BY DEF IInv, LockOK, VerdictOK
<1>3. WorkOK'
  <2> SUFFICES ASSUME NEW t \in Tab
        PROVE /\ tab[t].step \in {"attempt", "record"} => \A q \in Rec : ~Open(q)'
              /\ tab[t].step = "record" => latest <= tab[t].nonce
              /\ tab[t].step \in {"running", "settle", "judge", "save"} => tab[t].rec \in Rec /\ Open(tab[t].rec)'
              /\ tab[t].step \in {"judge", "save"} /\ tab[t].hash # None => Own(tab[t].hash, tab[t].rec)
    BY DEF WorkOK, Own, Open
  <2> QED BY DEF IInv, WorkOK
<1> QED BY <1>1, <1>2, <1>3

\* Nothing is open, so nothing of the wallet's can still take effect, and the
\* chain has nothing at or after the nonce that was read.
LEMMA RecordInv ==
  ASSUME IInv, NEW t \in Tab, Record(t)
  PROVE  IInv'
<1>1. tab[t] \in Tab_ /\ TabOK(tab[t]) /\ tab[t].step = "record" /\ lock = t
  BY TabNow DEF Record
<1>2. faults' \in 0 .. MaxFaults
  BY FaultsOK DEF Record, Fault, NoFault
<1>3. CASE Fault /\ Leave(t) /\ UNCHANGED <<journal, kit>>
  BY <1>1, <1>3, LeaveStep DEF Record
<1>4. ASSUME NEW r \in Rec, journal[r].outcome = "none",
             Save(r, [journal[r] EXCEPT !.outcome = "sending", !.nonce = tab[t].nonce]),
             tab' = [tab EXCEPT ![t] = [Idle EXCEPT !.step = "running", !.rec = r]],
             kit' = [kit EXCEPT ![r] = [Off EXCEPT !.at = "ready", !.in = t]],
             lock' = lock
      PROVE  IInv'
  <2> DEFINE e == [journal[r] EXCEPT !.outcome = "sending", !.nonce = tab[t].nonce]
             b == [Idle EXCEPT !.step = "running", !.rec = r]
             k == [Off EXCEPT !.at = "ready", !.in = t]
  <2>1. journal \in [Rec -> Record_] /\ kit \in [Rec -> Kit_]
    BY DEF IInv, TypeOK, Record_, Kit_
  <2>2. /\ e \in Record_ /\ e.outcome = "sending" /\ e.nonce = tab[t].nonce
        /\ e.execute = journal[r].execute /\ e.hash = journal[r].hash
    BY <1>1, <2>1, ZenonT(40) DEF Record_, Tab_
  <2>3. b \in Tab_ /\ b.step = "running" /\ b.rec = r /\ b.verdict = "unknown"
    BY DEF Tab_, Idle
  <2>4. k \in Kit_ /\ k.at = "ready"
    BY DEF Kit_, Off
  <2>5. Save(r, e) /\ tab' = [tab EXCEPT ![t] = b] /\ kit' = [kit EXCEPT ![r] = k]
    BY <1>4
  <2> HIDE DEF e, b, k
  <2>6. journal[r].execute = "none" /\ (\A x \in Tx : ~Own(x, r)) /\ \A q \in Rec : ~Open(q)
    BY <1>1, <1>4 DEF IInv, RecordOK, TabOK
  <2>7. \A x \in Tx : tx[x].state = "mined" => tx[x].nonce < e.nonce
    <3>1. latest <= e.nonce /\ e.nonce \in Nat /\ latest \in Nat
      BY <1>1, <2>2 DEF TabOK, Tab_, IInv, TypeOK
    <3>2. \A x \in Tx : tx[x].nonce \in Nat
      BY DEF IInv, TypeOK
    <3> QED BY <3>1, <3>2 DEF IInv, ChainOK
  <2>8. RecordFits(r, e)
    BY <2>2, <2>6, <2>7 DEF RecordFits, IInv, RecordOK
  <2>9. tx' = tx /\ latest' = latest /\ beyond' = beyond
    BY DEF Record
  <2>10. JournalInv'
    BY <2>2, <2>5, <2>8, <2>9, JournalStep
  <2>11. Wrote(r, e) /\ journal'[r].outcome = e.outcome
    BY <2>1, <2>2, <2>5, SaveWrites
  <2>12. Open(r)'
    BY <2>2, <2>11 DEF Open
  <2>13. TabOK(b)'
    BY <2>3, <2>12 DEF TabOK
  <2>14. tab' \in [Tab -> Tab_] /\ LockOK' /\ WorkOK' /\ VerdictOK'
    BY <1>1, <1>4, <2>3, <2>5, <2>13, Tabs
  <2>15. kit' \in [Rec -> Kit_] /\ kit'[r] = k /\ \A q \in Rec \ {r} : kit'[q] = kit[q]
    BY <2>1, <2>4, <2>5, Put
  <2>16. KitOK'
    BY <2>4, <2>9, <2>15 DEF IInv, KitOK, Own
  <2>17. TypeOK'
    BY <1>2, <1>4, <2>9, <2>11, <2>14, <2>15 DEF IInv, TypeOK, Wrote, Record_, Tab_, Kit_
  <2> QED BY <2>10, <2>14, <2>16, <2>17 DEF IInv, JournalInv
<1> QED BY <1>3, <1>4 DEF Record, Fresh

\* A write of the guarded provider, or of a settled record by the tab: what
\* changes is the journal and the kit.
LEMMA ProviderStep ==
  ASSUME IInv, NEW r \in Rec, NEW e \in Record_, Save(r, e), e.outcome = journal[r].outcome,
         RecordFits(r, e), UNCHANGED <<lock, tab, tx, latest, beyond>>,
         kit' \in [Rec -> Kit_], KitOK', faults' \in 0 .. MaxFaults
  PROVE  IInv'
<1>1. journal \in [Rec -> Record_]
  BY DEF IInv, TypeOK, Record_
<1>2. Wrote(r, e) /\ journal'[r].outcome = e.outcome
  BY <1>1, SaveWrites
<1>3. \A q \in Rec : Open(q)' <=> Open(q)
  BY <1>2, OpenAfter DEF Open
<1>4. JournalInv'
  BY JournalStep
<1>5. tab' \in [Tab -> Tab_] /\ LockOK' /\ WorkOK' /\ VerdictOK'
  BY <1>3, TabsStay
<1>6. TypeOK'
  BY <1>2, <1>5 DEF IInv, TypeOK, Wrote, Record_, Tab_, Kit_
<1> QED BY <1>4, <1>5, <1>6 DEF IInv, JournalInv

\* Only the kit changes.
LEMMA KitStep ==
  ASSUME IInv, UNCHANGED <<journal, lock, tab, tx, latest, beyond>>, kit' \in [Rec -> Kit_], KitOK',
         faults' \in 0 .. MaxFaults
  PROVE  IInv'
<1>1. TypeOK'
  BY DEF IInv, TypeOK, Kit_
<1>2. OneOpen' /\ LiveOK' /\ LockOK' /\ WorkOK' /\ VerdictOK'
  BY DEF IInv, OneOpen, LiveOK, LockOK, WorkOK, VerdictOK, Open, Own, Live
<1>3. OneExecute' /\ RecordOK' /\ FreshOK' /\ ChainOK' /\ SettledIsTrue'
  BY DEF IInv, OneExecute, RecordOK, FreshOK, ChainOK, SettledIsTrue, Open, Own
<1> QED BY <1>1, <1>2, <1>3 DEF IInv

\* The kit's call of one record goes on without an execute in the prompt.
LEMMA KitRests ==
  ASSUME IInv, NEW r \in Rec, NEW k \in Kit_, k.at # "executing", kit' = [kit EXCEPT ![r] = k], UNCHANGED tx
  PROVE  kit' \in [Rec -> Kit_] /\ KitOK'
<1>1. kit \in [Rec -> Kit_]
  BY DEF IInv, TypeOK, Kit_
<1>2. kit' \in [Rec -> Kit_] /\ kit'[r] = k /\ \A q \in Rec \ {r} : kit'[q] = kit[q]
  BY <1>1, Put
<1> QED BY <1>2 DEF IInv, KitOK, Own

\* An approval leaves everything that matters to the execute as it was.
LEMMA RequestApprovalInv ==
  ASSUME IInv, NEW r \in Rec, RequestApproval(r)
  PROVE  IInv'
<1>1. faults' \in 0 .. MaxFaults
  BY FaultsOK DEF RequestApproval
<1>2. UNCHANGED <<lock, tab, tx, latest, beyond>>
  BY DEF RequestApproval
<1>3. CASE Save(r, [journal[r] EXCEPT !.approved = TRUE]) /\ UNCHANGED kit
  <2> DEFINE e == [journal[r] EXCEPT !.approved = TRUE]
  <2>1. /\ e \in Record_ /\ e.outcome = journal[r].outcome /\ e.hash = journal[r].hash
        /\ e.nonce = journal[r].nonce /\ e.execute = journal[r].execute
    <3>1. journal[r] \in Record_
      BY DEF IInv, TypeOK, Record_
    <3>2. e \in Record_
      <4> DEFINE yes == TRUE
      <4>1. yes \in BOOLEAN
        OBVIOUS
      <4>2. e = [journal[r] EXCEPT !.approved = yes]
        OBVIOUS
      <4> HIDE DEF yes, e
      <4> QED BY <3>1, <4>1, <4>2 DEF Record_
    <3>3. /\ e.outcome = journal[r].outcome /\ e.hash = journal[r].hash
          /\ e.nonce = journal[r].nonce /\ e.execute = journal[r].execute
      BY <3>1 DEF Record_
    <3> QED BY <3>2, <3>3
  <2>2. Save(r, e)
    BY <1>3
  <2> HIDE DEF e
  <2>3. RecordFits(r, e)
    BY <2>1, AsItWas
  <2>4. kit' \in [Rec -> Kit_] /\ KitOK'
    BY <1>2, <1>3 DEF IInv, TypeOK, Kit_, KitOK, Own
  <2> QED BY <1>1, <1>2, <2>1, <2>2, <2>3, <2>4, ProviderStep
<1>4. CASE kit' = [kit EXCEPT ![r] = Off] /\ UNCHANGED journal
  <2>1. Off \in Kit_ /\ Off.at # "executing"
    BY DEF Off, Kit_
  <2> HIDE DEF Off
  <2>2. kit' \in [Rec -> Kit_] /\ KitOK'
    BY <1>2, <1>4, <2>1, KitRests
  <2> QED BY <1>1, <1>2, <1>4, <2>2, KitStep
<1> QED BY <1>3, <1>4 DEF RequestApproval

\* The answer is about the only execute of the record, so a hash it has is the
\* one it gets.
LEMMA ExecuteAnsweredInv ==
  ASSUME IInv, NEW r \in Rec, ExecuteAnswered(r)
  PROVE  IInv'
<1> DEFINE x == kit[r].tx
           e(a) == [journal[r] EXCEPT !.execute = a, !.hash = IF a = "hash" THEN x ELSE @]
           k == [kit[r] EXCEPT !.at = "ready", !.tx = None]
<1>1. x \in Tx /\ Own(x, r) /\ x # None
  BY EarnConstants DEF ExecuteAnswered, IInv, KitOK
<1>2. UNCHANGED <<lock, tab, tx, latest, beyond>>
  BY DEF ExecuteAnswered
<1>3. faults' \in 0 .. MaxFaults
  BY FaultsOK DEF ExecuteAnswered, Mark
<1>4. k \in Kit_ /\ k.at = "ready"
  BY ZenonT(40) DEF IInv, TypeOK, Kit_
<1>5. kit' = [kit EXCEPT ![r] = k]
  BY DEF ExecuteAnswered
<1> HIDE DEF k
<1>6. kit' \in [Rec -> Kit_] /\ KitOK'
  BY <1>2, <1>4, <1>5, KitRests
<1>7. PICK a \in Answers(x) : Mark(r, e(a))
  BY DEF ExecuteAnswered
<1>8. CASE UNCHANGED journal
  BY <1>2, <1>3, <1>6, <1>8, KitStep
<1>9. CASE Save(r, e(a))
  <2>1. journal[r] \in Record_
    BY DEF IInv, TypeOK, Record_
  <2>2. a \in Answer \ {"none"} /\ (a = "rejected" => tx[x].state = "refused")
    BY <1>7 DEF Answers, Answer
  <2>3. /\ e(a) \in Record_ /\ e(a).outcome = journal[r].outcome /\ e(a).nonce = journal[r].nonce
        /\ e(a).execute = a /\ e(a).hash = IF a = "hash" THEN x ELSE journal[r].hash
    BY <1>1, <2>1, <2>2 DEF Record_
  <2>4. \A y \in Tx : Own(y, r) => y = x
    BY <1>1, EarnConstants DEF IInv, OneExecute, Own
  <2>5. journal[r].hash # None => journal[r].hash = x
    BY <2>1, <2>4 DEF IInv, RecordOK, Record_
  <2>6. journal[r].outcome # "none"
    BY <1>1 DEF IInv, RecordOK
  <2>7. (IF a = "hash" THEN x ELSE journal[r].hash) \in {x, journal[r].hash}
    OBVIOUS
  <2> DEFINE n == e(a)
  <2>8. n \in Record_ /\ n.outcome = journal[r].outcome /\ n.nonce = journal[r].nonce /\ n.execute = a
        /\ (n.hash = x \/ n.hash = journal[r].hash) /\ Save(r, n)
    BY <1>9, <2>3, <2>7
  <2> HIDE DEF n, x
  <2>9. RecordFits(r, n)
    <3>1. RecordFits(r, journal[r])
      BY <2>1, AsItWas
    <3>2. /\ journal[r].outcome = "success" => n.hash = journal[r].hash
          /\ journal[r].outcome = "reverted" => n.hash = journal[r].hash
      BY <1>1, <2>4, <2>5, <2>8, <3>1 DEF RecordFits
    <3> QED BY <1>1, <2>2, <2>4, <2>6, <2>8, <3>1, <3>2 DEF RecordFits
  <2> QED BY <1>2, <1>3, <1>6, <2>8, <2>9, ProviderStep
<1> QED BY <1>7, <1>8, <1>9 DEF Mark

\* The tab writes what it found on the record it holds the lock for, and ends.
LEMMA SettleStep ==
  ASSUME IInv, NEW t \in Tab, NEW r \in Rec, NEW e \in Record_, Save(r, e), RecordFits(r, e),
         Leave(t), lock = t, UNCHANGED <<kit, tx, latest, beyond>>, faults' \in 0 .. MaxFaults
  PROVE  IInv'
<1>1. journal \in [Rec -> Record_]
  BY DEF IInv, TypeOK, Record_
<1>2. Wrote(r, e)
  BY <1>1, SaveWrites
<1>3. JournalInv'
  BY JournalStep
<1>4. tab' \in [Tab -> Tab_] /\ LockOK' /\ WorkOK' /\ VerdictOK' /\ lock' \in Tab \cup {None}
  BY TabsLeave
<1>5. KitOK'
  BY DEF IInv, KitOK, Own
<1>6. TypeOK'
  BY <1>2, <1>4 DEF IInv, TypeOK, Wrote, Record_, Tab_
<1> QED BY <1>3, <1>4, <1>5, <1>6 DEF IInv, JournalInv

\* Without an execute, or with one the user refused, nothing can happen any more;
\* hashes that disagree leave the record open.
LEMMA ReadRecordInv ==
  ASSUME IInv, NEW t \in Tab, ReadRecord(t)
  PROVE  IInv'
<1> DEFINE r == tab[t].rec
<1>1. tab[t] \in Tab_ /\ TabOK(tab[t]) /\ tab[t].step = "settle" /\ lock = t
  BY TabNow DEF ReadRecord
<1>2. r \in Rec /\ Open(r)
  BY <1>1 DEF TabOK
<1>3. UNCHANGED <<kit, tx, latest, beyond>>
  BY DEF ReadRecord
<1>4. journal[r] \in Record_
  BY <1>2 DEF IInv, TypeOK, Record_
<1>5. CASE NeverSent(r) \/ Disagree(t)
  <2> DEFINE o == IF NeverSent(r) THEN "not_sent" ELSE "unknown"
  <2>1. CASE Save(r, [journal[r] EXCEPT !.outcome = o]) /\ NoFault
    <3> DEFINE e == [journal[r] EXCEPT !.outcome = o]
    <3>1. o \in {"not_sent", "unknown"} /\ (o = "not_sent" <=> NeverSent(r))
      OBVIOUS
    <3> HIDE DEF o
    <3>2. /\ e \in Record_ /\ e.outcome = o /\ e.hash = journal[r].hash
          /\ e.execute = journal[r].execute /\ e.nonce = journal[r].nonce
      BY <1>4, <3>1 DEF Record_, Final
    <3>3. Save(r, e)
      BY <2>1
    <3> HIDE DEF e, r
    <3>4. RecordFits(r, e)
      <4>1. CASE NeverSent(r)
        <5>1. \A x \in Tx : Own(x, r) => tx[x].state = "refused" /\ ~Live(x) /\ e.execute # "none"
          BY <1>2, <3>2, <4>1 DEF NeverSent, IInv, RecordOK, Live
        <5> QED BY <3>1, <3>2, <4>1, <5>1 DEF RecordFits, NeverSent
      <4>2. CASE ~NeverSent(r)
        <5>1. e.outcome = "unknown"
          BY <3>1, <3>2, <4>2
        <5>2. \A q \in Rec \ {r} : ~Open(q)
          BY <1>2 DEF IInv, OneOpen
        <5> QED BY <1>2, <3>2, <5>1, <5>2 DEF RecordFits, IInv, RecordOK, ChainOK
      <4> QED BY <4>1, <4>2
    <3>5. Leave(t)
      BY <1>5 DEF ReadRecord, r
    <3>6. faults' \in 0 .. MaxFaults
      BY <2>1, FaultsOK
    <3> QED BY <1>1, <1>2, <1>3, <3>2, <3>3, <3>4, <3>5, <3>6, SettleStep
  <2>2. CASE Fault /\ UNCHANGED journal
    BY <1>1, <1>3, <1>5, <2>2, LeaveStep DEF ReadRecord
  <2> QED BY <1>5, <2>1, <2>2 DEF ReadRecord
<1>6. CASE ~(NeverSent(r) \/ Disagree(t))
  <2> DEFINE no == FALSE
             b == [tab[t] EXCEPT !.step = "judge", !.hash = journal[r].hash, !.other = no]
  <2>0. no \in BOOLEAN
    OBVIOUS
  <2>2. tab' = [tab EXCEPT ![t] = b] /\ UNCHANGED <<journal, lock, faults>>
    BY <1>6 DEF ReadRecord
  <2> HIDE DEF no
  <2>1. b \in Tab_ /\ b.step = "judge" /\ b.hash = journal[r].hash /\ b.verdict = "unknown" /\ b.rec = r
    BY <1>1, <1>4, <2>0 DEF Tab_, Record_, TabOK
  <2> HIDE DEF b, r
  <2>3. TabOK(b)
    BY <1>2, <2>1 DEF TabOK, IInv, RecordOK
  <2>4. faults' \in 0 .. MaxFaults
    BY <2>2, FaultsOK DEF NoFault
  <2> QED BY <1>1, <1>3, <2>1, <2>2, <2>3, <2>4, TabStep
<1> QED BY <1>5, <1>6

\* The verdict is about the record's only execute, which is then on the chain.
LEMMA SaveVerdictInv ==
  ASSUME IInv, NEW t \in Tab, SaveVerdict(t)
  PROVE  IInv'
<1> DEFINE r == tab[t].rec
           e == [journal[r] EXCEPT !.outcome = tab[t].verdict,
                                   !.hash = IF tab[t].hash # None THEN tab[t].hash ELSE @]
<1>1. tab[t] \in Tab_ /\ TabOK(tab[t]) /\ tab[t].step = "save" /\ lock = t
  BY TabNow DEF SaveVerdict
<1>2. r \in Rec /\ Open(r) /\ (tab[t].hash # None => Own(tab[t].hash, r))
  BY <1>1 DEF TabOK
<1>3. UNCHANGED <<kit, tx, latest, beyond>> /\ Leave(t)
  BY DEF SaveVerdict
<1>4. journal[r] \in Record_
  BY <1>2 DEF IInv, TypeOK, Record_
<1>5. CASE Save(r, e) /\ NoFault
  <2>1. /\ e \in Record_ /\ e.outcome = tab[t].verdict /\ e.execute = journal[r].execute
        /\ e.nonce = journal[r].nonce
        /\ e.hash = IF tab[t].hash # None THEN tab[t].hash ELSE journal[r].hash
    BY <1>1, <1>4 DEF Record_, Tab_, Final
  <2>2. Save(r, e)
    BY <1>5
  <2> DEFINE h == tab[t].hash
             v == tab[t].verdict
  <2>3. /\ v \in {"success", "reverted", "unknown"}
        /\ v # "unknown" => h # None
        /\ v = "success" => tx[h].state = "mined"
        /\ v = "reverted" => tx[h].state = "reverted"
    BY <1>1 DEF TabOK, Tab_
  <2>4. h # None => h \in Tx /\ Own(h, r) /\ \A x \in Tx : Own(x, r) => x = h
    BY <1>1, <1>2, EarnConstants DEF Tab_, IInv, OneExecute, Own
  <2>5. e.outcome = v /\ (h # None => e.hash = h) /\ (h = None => e.hash = journal[r].hash)
    BY <2>1
  <2>6. /\ journal[r].hash # None => Own(journal[r].hash, r)
        /\ \A x \in Tx : Own(x, r) => /\ journal[r].execute # "none"
                                      /\ journal[r].execute = "rejected" => tx[x].state = "refused"
        /\ \A q \in Rec \ {r} : ~Open(q)
        /\ \A x \in Tx : tx[x].state = "mined" /\ ~Own(x, r) => tx[x].nonce < journal[r].nonce
    BY <1>2 DEF IInv, RecordOK, OneOpen, ChainOK
  <2> HIDE DEF e, h, v, r
  <2>7. RecordFits(r, e)
    <3>1. v # "unknown" => \A x \in Tx : Own(x, r) => ~Live(x)
      BY <2>3, <2>4 DEF Live
    <3>2. e.hash # None => Own(e.hash, r)
      BY <2>4, <2>5, <2>6
    <3> QED BY <2>1, <2>3, <2>4, <2>5, <2>6, <3>1, <3>2 DEF RecordFits
  <2>8. faults' \in 0 .. MaxFaults
    BY <1>5, FaultsOK
  <2> QED BY <1>1, <1>2, <1>3, <2>1, <2>2, <2>7, <2>8, SettleStep
<1>6. CASE Fault /\ UNCHANGED journal
  BY <1>1, <1>3, <1>6, LeaveStep
<1> QED BY <1>5, <1>6 DEF SaveVerdict

\* The record says that an execute is asked for before the wallet is: until now
\* it had none.
LEMMA RequestExecuteInv ==
  ASSUME IInv, NEW r \in Rec, RequestExecute(r)
  PROVE  IInv'
<1>1. faults' \in 0 .. MaxFaults
  BY FaultsOK DEF RequestExecute
<1>2. UNCHANGED <<lock, tab, latest, beyond>>
  BY DEF RequestExecute
<1>3. CASE kit' = [kit EXCEPT ![r] = Off] /\ UNCHANGED <<journal, tx>>
  <2>1. Off \in Kit_ /\ Off.at # "executing"
    BY DEF Off, Kit_
  <2> HIDE DEF Off
  <2>2. kit' \in [Rec -> Kit_] /\ KitOK'
    BY <1>3, <2>1, KitRests
  <2> QED BY <1>1, <1>2, <1>3, <2>2, KitStep
<1>4. ASSUME NEW x \in Tx, Allowed(r, "execute"), tx[x].state = "unused",
             Save(r, [journal[r] EXCEPT !.execute = "requested"]),
             tx' = [tx EXCEPT ![x] = [of |-> r, state |-> "prompt", nonce |-> 0]],
             kit' = [kit EXCEPT ![r].at = "executing", ![r].tx = x]
      PROVE  IInv'
  <2> DEFINE e == [journal[r] EXCEPT !.execute = "requested"]
             n == [of |-> r, state |-> "prompt", nonce |-> 0]
             k == [kit[r] EXCEPT !.at = "executing", !.tx = x]
  <2>1. journal \in [Rec -> Record_] /\ kit \in [Rec -> Kit_] /\ tx \in [Tx -> Tx_]
    BY DEF IInv, TypeOK, Record_, Kit_, Tx_
  <2>2. /\ e \in Record_ /\ e.outcome = "sending" /\ e.nonce = journal[r].nonce
        /\ e.execute = "requested" /\ e.hash = journal[r].hash
    BY <1>4, <2>1 DEF Record_, Answer, Allowed
  <2>3. n \in Tx_ /\ n.of = r /\ n.state = "prompt"
    BY DEF Tx_
  <2>4. k \in Kit_ /\ k.at = "executing" /\ k.tx = x
    BY <2>1 DEF Kit_
  <2>5. Save(r, e) /\ tx' = [tx EXCEPT ![x] = n] /\ kit' = [kit EXCEPT ![r] = k]
    BY <1>4
  <2> HIDE DEF e, n, k
  <2>6. tx' \in [Tx -> Tx_] /\ tx'[x] = n /\ \A y \in Tx \ {x} : tx'[y] = tx[y]
    BY <2>1, <2>3, <2>5, Put
  <2>7. kit' \in [Rec -> Kit_] /\ kit'[r] = k /\ \A q \in Rec \ {r} : kit'[q] = kit[q]
    BY <2>1, <2>4, <2>5, Put
  <2>8. Wrote(r, e) /\ journal'[r].outcome = "sending"
    BY <2>1, <2>2, <2>5, SaveWrites
  <2>9. Open(r) /\ \A q \in Rec : Open(q)' <=> Open(q)
    BY <1>4, <2>2, <2>8, OpenAfter DEF Allowed, Open
  <2>10. tx[x].of = None /\ (\A y \in Tx : ~Own(y, r)) /\ journal[r].hash = None /\ journal[r].outcome = "sending"
    <3>1. journal[r].execute = "none" /\ journal[r].hash \in Tx \cup {None}
      BY <1>4, <2>1 DEF Allowed, Record_
    <3> QED BY <1>4, <3>1 DEF IInv, FreshOK, RecordOK, Allowed
  <2>11. \A y \in Tx, q \in Rec : Own(y, q) => Own(y, q)' /\ y # x
    BY <2>6, <2>10, EarnConstants DEF Own
  <2>12. OneOpen'
    BY <2>9 DEF IInv, OneOpen
  <2>13. LiveOK'
    <3> SUFFICES ASSUME NEW y \in Tx, tx'[y].state \in {"prompt", "pending"}
                 PROVE  tx'[y].of \in Rec /\ journal'[tx'[y].of].outcome \in {"sending", "unknown"}
      BY DEF LiveOK, Live, Open
    <3>1. CASE y = x
      BY <2>3, <2>6, <2>8, <3>1
    <3>2. CASE y # x
      <4>1. tx'[y] = tx[y]
        BY <2>6, <3>2
      <4>2. tx[y].of \in Rec /\ Open(tx[y].of)
        BY <4>1 DEF IInv, LiveOK, Live
      <4> QED BY <2>9, <4>1, <4>2 DEF Open
    <3> QED BY <3>1, <3>2
  <2>14. OneExecute'
    BY <2>3, <2>6, <2>10 DEF IInv, OneExecute, Own
  <2>15. RecordOK'
    <3> SUFFICES ASSUME NEW q \in Rec
          PROVE /\ journal'[q].outcome = "none" => journal'[q].execute = "none"
                /\ journal'[q].hash # None => tx'[journal'[q].hash].of = q
                /\ \A y \in Tx : Own(y, q)' => /\ journal'[q].execute # "none"
                                               /\ journal'[q].execute = "rejected" => tx'[y].state = "refused"
      BY DEF RecordOK, Own
    <3>1. CASE q = r
      BY <2>2, <2>8, <2>10, <3>1 DEF Wrote, Kept
    <3>2. CASE q # r
      <4>1. Kept(journal'[q], journal[q]) /\ journal[q].hash \in Tx \cup {None}
        BY <2>1, <2>8, <3>2 DEF Wrote, Record_
      <4>2. \A y \in Tx : Own(y, q)' => Own(y, q) /\ tx'[y] = tx[y]
        BY <2>3, <2>6, <3>2 DEF Own
      <4> QED BY <2>11, <4>1, <4>2 DEF IInv, RecordOK, Kept, Final, Own
    <3> QED BY <3>1, <3>2
  <2>16. KitOK'
    <3> SUFFICES ASSUME NEW q \in Rec, kit'[q].at = "executing"
                 PROVE  kit'[q].tx \in Tx /\ tx'[kit'[q].tx].of = q
      BY DEF KitOK, Own
    <3>1. CASE q = r
      BY <2>3, <2>4, <2>6, <2>7, <3>1 DEF Own
    <3>2. CASE q # r
      BY <2>7, <2>11, <3>2 DEF IInv, KitOK, Own
    <3> QED BY <3>1, <3>2
  <2>17. FreshOK'
    BY <2>3, <2>6 DEF IInv, FreshOK
  <2>18. ChainOK'
    <3> SUFFICES ASSUME NEW y \in Tx, tx'[y].state = "mined"
          PROVE /\ tx'[y].nonce < latest
                /\ \A q \in Rec : Open(q)' /\ ~Own(y, q)' => tx'[y].nonce < journal'[q].nonce
      BY <1>2 DEF ChainOK, Own
    <3>1. tx'[y] = tx[y]
      BY <2>3, <2>6
    <3>2. \A q \in Rec : journal'[q].nonce = journal[q].nonce
      BY <2>2, <2>8 DEF Wrote, Kept
    <3> QED BY <2>9, <2>11, <3>1, <3>2 DEF IInv, ChainOK
  <2>19. SettledIsTrue'
    <3> SUFFICES ASSUME NEW q \in Rec
          PROVE /\ journal'[q].outcome = "success" => /\ journal'[q].hash \in Tx /\ tx'[journal'[q].hash].of = q
                                                      /\ tx'[journal'[q].hash].state = "mined"
                /\ journal'[q].outcome = "reverted" => /\ journal'[q].hash \in Tx /\ tx'[journal'[q].hash].of = q
                                                       /\ tx'[journal'[q].hash].state = "reverted"
                /\ journal'[q].outcome = "not_sent" => \A y \in Tx : Own(y, q)' => tx'[y].state = "refused"
      BY DEF SettledIsTrue, Own
    <3>1. CASE q = r
      BY <2>8, <3>1
    <3>2. CASE q # r
      <4>1. Kept(journal'[q], journal[q])
        BY <2>8, <3>2 DEF Wrote
      <4>2. \A y \in Tx : Own(y, q)' => Own(y, q) /\ tx'[y] = tx[y]
        BY <2>3, <2>6, <3>2 DEF Own
      <4> QED BY <2>6, <2>11, <4>1, <4>2 DEF IInv, SettledIsTrue, Kept, Final, Own
    <3> QED BY <3>1, <3>2
  <2>20. LockOK' /\ tab' = tab
    BY <1>2 DEF IInv, LockOK
  <2>21. WorkOK'
    <3> SUFFICES ASSUME NEW t \in Tab
          PROVE /\ tab[t].step \in {"attempt", "record"} => \A q \in Rec : ~Open(q)'
                /\ tab[t].step = "record" => latest <= tab[t].nonce
                /\ tab[t].step \in {"running", "settle", "judge", "save"} => tab[t].rec \in Rec /\ journal'[tab[t].rec].outcome \in {"sending", "unknown"}
                /\ tab[t].step \in {"judge", "save"} /\ tab[t].hash # None => tx'[tab[t].hash].of = tab[t].rec
      BY <1>2, <2>20 DEF WorkOK, Own, Open
    <3>1. tab[t].hash \in Tx \cup {None}
      BY DEF IInv, TypeOK
    <3> QED BY <2>9, <2>11, <3>1 DEF IInv, WorkOK, Own, Open
  <2>22. VerdictOK'
    <3>1. \A t \in Tab : tab[t].verdict # "unknown" => tab[t].hash # x /\ tab[t].hash \in Tx
      <4> SUFFICES ASSUME NEW t \in Tab, tab[t].verdict # "unknown" PROVE tab[t].hash # x /\ tab[t].hash \in Tx
        OBVIOUS
      <4>1. tab[t].step = "save" /\ tab[t].hash \in Tx
        BY DEF IInv, VerdictOK, TypeOK
      <4>2. Own(tab[t].hash, tab[t].rec) /\ tab[t].rec \in Rec
        BY <4>1 DEF IInv, WorkOK, VerdictOK
      <4> QED BY <2>11, <4>1, <4>2
    <3> QED BY <2>6, <2>20, <3>1 DEF IInv, VerdictOK
  <2>23. TypeOK'
    BY <1>1, <1>2, <2>6, <2>7, <2>8 DEF IInv, TypeOK, Wrote, Record_, Kit_, Tx_
  <2> QED BY <2>12, <2>13, <2>14, <2>15, <2>16, <2>17, <2>18, <2>19, <2>20, <2>21, <2>22, <2>23 DEF IInv
<1> QED BY <1>3, <1>4 DEF RequestExecute

-----------------------------------------------------------------------------
(***************************************************************************)
(* Steps of the wallet and the chain.                                      *)
(***************************************************************************)
\* An execute of this browser goes on: its record is open, so no tab is before
\* its own record and no settled record is about it.
LEMMA ChainStep ==
  ASSUME IInv, NEW x \in Tx, Live(x), NEW n \in Tx_, n.of = tx[x].of, n.state # "unused",
         tx' = [tx EXCEPT ![x] = n], latest' \in Nat, latest <= latest',
         n.state = "mined" => n.nonce < latest', UNCHANGED <<journal, lock, tab, kit, beyond, faults>>
  PROVE  IInv'
<1>1. tx \in [Tx -> Tx_] /\ latest \in Nat
  BY DEF IInv, TypeOK, Tx_
<1>2. tx' \in [Tx -> Tx_] /\ tx'[x] = n /\ \A y \in Tx \ {x} : tx'[y] = tx[y]
  BY <1>1, Put
<1>3. tx[x].of \in Rec /\ Open(tx[x].of)
  BY DEF IInv, LiveOK
<1>4. \A y \in Tx : tx'[y].of = tx[y].of
  BY <1>2
<1>5. tx[x].state \notin {"mined", "reverted", "refused"}
  BY DEF Live
<1>6. TypeOK'
  BY <1>2 DEF IInv, TypeOK, Tx_
<1>7. OneOpen' /\ LockOK'
  BY DEF IInv, OneOpen, LockOK, Open
<1>8. LiveOK'
  BY <1>2, <1>3 DEF IInv, LiveOK, Live, Open
<1>9. WorkOK'
  <2> SUFFICES ASSUME NEW t \in Tab
        PROVE /\ tab[t].step \in {"attempt", "record"} => \A q \in Rec : ~Open(q)
              /\ tab[t].step = "record" => latest' <= tab[t].nonce
              /\ tab[t].step \in {"running", "settle", "judge", "save"} => tab[t].rec \in Rec /\ Open(tab[t].rec)
              /\ tab[t].step \in {"judge", "save"} /\ tab[t].hash # None => tx'[tab[t].hash].of = tab[t].rec
    BY DEF WorkOK, Own, Open
  <2>1. tab[t].hash \in Tx \cup {None} /\ tab[t].step \notin {"attempt", "record"}
    BY <1>3 DEF IInv, TypeOK, WorkOK
  <2> QED BY <1>4, <2>1 DEF IInv, WorkOK, Own
<1>10. VerdictOK'
  <2>1. \A t \in Tab : tab[t].verdict # "unknown" => tab[t].hash \in Tx
    BY DEF IInv, VerdictOK, TypeOK
  <2>2. \A t \in Tab : tab[t].verdict \in {"success", "reverted"} => tab[t].hash # x
    BY <1>5, <2>1 DEF IInv, VerdictOK
  <2> QED BY <1>2, <2>1, <2>2 DEF IInv, VerdictOK
<1>11. OneExecute' /\ FreshOK'
  BY <1>2, <1>4 DEF IInv, OneExecute, FreshOK
<1>12. KitOK'
  BY <1>4 DEF IInv, KitOK, Own
<1>13. RecordOK'
  <2> SUFFICES ASSUME NEW q \in Rec
        PROVE /\ journal[q].outcome = "none" => journal[q].execute = "none"
              /\ journal[q].hash # None => tx'[journal[q].hash].of = q
              /\ \A y \in Tx : tx'[y].of = q => /\ journal[q].execute # "none"
                                                /\ journal[q].execute = "rejected" => tx'[y].state = "refused"
    BY DEF RecordOK, Own
  <2>1. journal[q].hash \in Tx \cup {None}
    BY DEF IInv, TypeOK
  <2>2. tx[x].of = q => journal[q].execute # "rejected"
    BY <1>5 DEF IInv, RecordOK, Own
  <2> QED BY <1>2, <1>4, <2>1, <2>2 DEF IInv, RecordOK, Own
<1>14. ChainOK'
  <2> SUFFICES ASSUME NEW y \in Tx, tx'[y].state = "mined"
        PROVE /\ tx'[y].nonce < latest'
              /\ \A q \in Rec : Open(q) /\ tx'[y].of # q => tx'[y].nonce < journal[q].nonce
    BY DEF ChainOK, Own, Open
  <2>1. CASE y = x
    BY <1>2, <1>3, <1>4, <2>1 DEF IInv, OneOpen
  <2>2. CASE y # x
    <3>1. tx'[y] = tx[y] /\ tx[y].nonce \in Nat
      BY <1>1, <1>2, <2>2 DEF Tx_
    <3>2. tx[y].nonce < latest /\ \A q \in Rec : Open(q) /\ tx[y].of # q => tx[y].nonce < journal[q].nonce
      BY <3>1 DEF IInv, ChainOK, Own
    <3> QED BY <1>1, <3>1, <3>2
  <2> QED BY <2>1, <2>2
<1>15. SettledIsTrue'
  <2> SUFFICES ASSUME NEW q \in Rec
        PROVE /\ journal[q].outcome = "success" => /\ journal[q].hash \in Tx /\ tx'[journal[q].hash].of = q
                                                   /\ tx'[journal[q].hash].state = "mined"
              /\ journal[q].outcome = "reverted" => /\ journal[q].hash \in Tx /\ tx'[journal[q].hash].of = q
                                                    /\ tx'[journal[q].hash].state = "reverted"
              /\ journal[q].outcome = "not_sent" => \A y \in Tx : tx'[y].of = q => tx'[y].state = "refused"
    BY DEF SettledIsTrue
  <2>1. CASE Open(q)
    BY <2>1 DEF Open
  <2>2. CASE ~Open(q)
    <3>1. \A y \in Tx : tx[y].of = q => tx'[y] = tx[y]
      BY <1>2, <1>3, <2>2
    <3> QED BY <1>4, <3>1 DEF IInv, SettledIsTrue
  <2> QED BY <2>1, <2>2
<1> QED BY <1>6, <1>7, <1>8, <1>9, <1>10, <1>11, <1>12, <1>13, <1>14, <1>15 DEF IInv

\* The wallet sends the execute.
LEMMA BroadcastInv ==
  ASSUME IInv, NEW x \in Tx, Broadcast(x)
  PROVE  IInv'
<1> DEFINE m == latest + Cardinality(Pending)
           n == [tx[x] EXCEPT !.state = "pending", !.nonce = m]
<1>1. tx[x] \in Tx_ /\ latest \in Nat
  BY DEF IInv, TypeOK, Tx_
<1>2. m \in Nat
  <2>1. IsFiniteSet(Pending)
    BY EarnConstants, FS_Subset DEF Pending
  <2>2. Cardinality(Pending) \in Nat
    BY <2>1, FS_CardinalityType
  <2> QED BY <1>1, <2>2
<1>3. tx' = [tx EXCEPT ![x] = n]
  BY DEF Broadcast
<1> HIDE DEF m
<1>4. n \in Tx_ /\ n.state = "pending" /\ n.of = tx[x].of
  BY <1>1, <1>2 DEF Tx_
<1> HIDE DEF n
<1>5. Live(x)
  BY DEF Broadcast, Live
<1>6. latest' \in Nat /\ latest <= latest' /\ n.state # "unused" /\ n.state # "mined"
  BY <1>1, <1>4 DEF Broadcast
<1> QED BY <1>1, <1>3, <1>4, <1>5, <1>6, ChainStep DEF Broadcast

\* The user refuses the execute.
LEMMA RefuseInv ==
  ASSUME IInv, NEW x \in Tx, Refuse(x)
  PROVE  IInv'
<1> DEFINE n == [tx[x] EXCEPT !.state = "refused"]
<1>1. tx[x] \in Tx_ /\ latest \in Nat
  BY DEF IInv, TypeOK, Tx_
<1>2. n \in Tx_ /\ n.state = "refused" /\ n.of = tx[x].of /\ tx' = [tx EXCEPT ![x] = n]
  BY <1>1 DEF Tx_, Refuse
<1> HIDE DEF n
<1>3. Live(x)
  BY DEF Refuse, Live
<1>4. latest' \in Nat /\ latest <= latest' /\ n.state # "unused" /\ n.state # "mined"
  BY <1>1, <1>2 DEF Refuse
<1> QED BY <1>1, <1>2, <1>3, <1>4, ChainStep DEF Refuse

\* The execute is mined at the next nonce.
LEMMA MineInv ==
  ASSUME IInv, NEW x \in Tx, Mine(x)
  PROVE  IInv'
<1>1. tx[x] \in Tx_ /\ latest \in Nat
  BY DEF IInv, TypeOK, Tx_
<1>2. PICK s \in {"mined", "reverted"} : tx' = [tx EXCEPT ![x].state = s]
  BY DEF Mine
<1> DEFINE n == [tx[x] EXCEPT !.state = s]
<1>3. n \in Tx_ /\ n.state = s /\ n.of = tx[x].of /\ n.nonce = latest /\ tx' = [tx EXCEPT ![x] = n]
  BY <1>1, <1>2 DEF Tx_, Mine
<1> HIDE DEF n
<1>4. Live(x)
  BY DEF Mine, Live
<1>5. latest' = latest + 1
  BY DEF Mine
<1>6. n.nonce < latest' /\ latest <= latest' /\ latest' \in Nat /\ n.state # "unused"
  BY <1>1, <1>2, <1>3, <1>5
<1> QED BY <1>3, <1>4, <1>6, ChainStep DEF Mine

\* Elsewhere an execute is only sent while nothing is open and nobody works here.
LEMMA MinedElsewhereInv ==
  ASSUME IInv, NEW x \in Tx, MinedElsewhere(x)
  PROVE  IInv'
<1> DEFINE n == [of |-> None, state |-> "mined", nonce |-> latest]
<1>1. tx \in [Tx -> Tx_] /\ latest \in Nat
  BY DEF IInv, TypeOK, Tx_
<1>2. n \in Tx_ /\ n.state = "mined" /\ n.of = None /\ n.nonce = latest /\ tx' = [tx EXCEPT ![x] = n]
  BY <1>1 DEF Tx_, MinedElsewhere
<1> HIDE DEF n
<1>3. tx' \in [Tx -> Tx_] /\ tx'[x] = n /\ \A y \in Tx \ {x} : tx'[y] = tx[y]
  BY <1>1, <1>2, Put
<1>4. tx[x].state = "unused" /\ tx[x].of = None
  BY DEF MinedElsewhere, Fresh, Unused, IInv, FreshOK
<1>5. \A y \in Tx : tx'[y].of = tx[y].of
  BY <1>2, <1>3, <1>4
<1>6. /\ UNCHANGED <<journal, lock, tab, kit, beyond, faults>> /\ latest' = latest + 1
      /\ lock = None /\ \A r \in Rec : ~Open(r)
  BY DEF MinedElsewhere
<1>7. \A t \in Tab : tab[t].step = "idle" /\ tab[t].verdict = "unknown"
  BY <1>6, EarnConstants DEF IInv, LockOK, VerdictOK
<1>8. TypeOK'
  BY <1>1, <1>3, <1>6 DEF IInv, TypeOK, Tx_
<1>9. OneOpen' /\ LockOK' /\ WorkOK' /\ VerdictOK'
  BY <1>6, <1>7 DEF IInv, OneOpen, LockOK, WorkOK, VerdictOK, Open
<1>10. LiveOK'
  BY <1>2, <1>3, <1>6 DEF IInv, LiveOK, Live, Open
<1>11. OneExecute' /\ FreshOK'
  BY <1>2, <1>3, <1>5 DEF IInv, OneExecute, FreshOK
<1>12. KitOK'
  BY <1>5, <1>6 DEF IInv, KitOK, Own
<1>13. RecordOK'
  <2> SUFFICES ASSUME NEW q \in Rec
        PROVE /\ journal[q].outcome = "none" => journal[q].execute = "none"
              /\ journal[q].hash # None => tx'[journal[q].hash].of = q
              /\ \A y \in Tx : tx'[y].of = q => /\ journal[q].execute # "none"
                                                /\ journal[q].execute = "rejected" => tx'[y].state = "refused"
    BY <1>6 DEF RecordOK, Own
  <2>1. journal[q].hash \in Tx \cup {None}
    BY DEF IInv, TypeOK
  <2>2. q # None
    BY EarnConstants
  <2> QED BY <1>3, <1>4, <1>5, <2>1, <2>2 DEF IInv, RecordOK, Own
<1>14. ChainOK'
  <2>1. \A y \in Tx : tx[y].nonce \in Nat
    BY <1>1 DEF Tx_
  <2> QED BY <1>1, <1>2, <1>3, <1>6, <2>1 DEF IInv, ChainOK, Open
<1>15. SettledIsTrue'
  <2> SUFFICES ASSUME NEW q \in Rec
        PROVE /\ journal[q].outcome = "success" => /\ journal[q].hash \in Tx /\ tx'[journal[q].hash].of = q
                                                   /\ tx'[journal[q].hash].state = "mined"
              /\ journal[q].outcome = "reverted" => /\ journal[q].hash \in Tx /\ tx'[journal[q].hash].of = q
                                                    /\ tx'[journal[q].hash].state = "reverted"
              /\ journal[q].outcome = "not_sent" => \A y \in Tx : tx'[y].of = q => tx'[y].state = "refused"
    BY <1>6 DEF SettledIsTrue
  <2>1. \A y \in Tx : tx[y].of = q => tx'[y] = tx[y]
    BY <1>3, <1>4, EarnConstants
  <2> QED BY <1>5, <2>1 DEF IInv, SettledIsTrue
<1> QED BY <1>8, <1>9, <1>10, <1>11, <1>12, <1>13, <1>14, <1>15 DEF IInv

\* What the head leaves behind changes nothing but what a search may find.
LEMMA HeadMovesOnInv ==
  ASSUME IInv, HeadMovesOn
  PROVE  IInv'
<1>1. UNCHANGED <<journal, lock, tab, kit, tx, latest, faults>> /\ beyond' \subseteq Rec
  BY DEF HeadMovesOn
<1>2. TypeOK'
  BY <1>1 DEF IInv, TypeOK
<1>3. OneOpen' /\ LiveOK' /\ LockOK' /\ WorkOK' /\ VerdictOK' /\ KitOK'
  BY <1>1 DEF IInv, OneOpen, LiveOK, LockOK, WorkOK, VerdictOK, KitOK, Open, Own, Live
<1>4. OneExecute' /\ RecordOK' /\ FreshOK' /\ ChainOK' /\ SettledIsTrue'
  BY <1>1 DEF IInv, OneExecute, RecordOK, FreshOK, ChainOK, SettledIsTrue, Open, Own
<1> QED BY <1>2, <1>3, <1>4 DEF IInv

\* What a closed tab held is free again.
LEMMA CloseInv ==
  ASSUME IInv, NEW t \in Tab, Close(t)
  PROVE  IInv'
<1>1. UNCHANGED <<journal, tx, latest, beyond>> /\ faults' \in 0 .. MaxFaults
  BY FaultsOK DEF Close
<1>2. Idle \in Tab_ /\ Idle.step = "idle" /\ Idle.verdict = "unknown" /\ Off \in Kit_ /\ Off.at = "off"
  BY DEF Idle, Tab_, Off, Kit_
<1>3. tab \in [Tab -> Tab_] /\ kit \in [Rec -> Kit_] /\ tab' = [tab EXCEPT ![t] = Idle]
  BY DEF IInv, TypeOK, Tab_, Kit_, Close
<1> HIDE DEF Idle, Off
<1>4. tab' \in [Tab -> Tab_] /\ tab'[t] = Idle /\ \A s \in Tab \ {t} : tab'[s] = tab[s]
  BY <1>2, <1>3, Put
<1>5. kit' = [r \in Rec |-> IF kit[r].in = t THEN Off ELSE kit[r]]
  BY DEF Close
<1>6. kit' \in [Rec -> Kit_] /\ \A r \in Rec : kit'[r] \in {Off, kit[r]}
  BY <1>2, <1>3, <1>5
<1>7. lock' = IF lock = t THEN None ELSE lock
  BY DEF Close
<1>8. TypeOK'
  BY <1>1, <1>4, <1>6, <1>7 DEF IInv, TypeOK, Tab_, Kit_
<1>9. LockOK' /\ WorkOK' /\ VerdictOK'
  BY <1>1, <1>2, <1>4, <1>7 DEF IInv, LockOK, WorkOK, VerdictOK, Open, Own
<1>10. KitOK'
  BY <1>1, <1>2, <1>6 DEF IInv, KitOK, Own
<1>11. OneOpen' /\ LiveOK' /\ OneExecute' /\ RecordOK' /\ FreshOK' /\ ChainOK' /\ SettledIsTrue'
  BY <1>1 DEF IInv, OneOpen, LiveOK, OneExecute, RecordOK, FreshOK, ChainOK, SettledIsTrue, Open, Own, Live
<1> QED BY <1>8, <1>9, <1>10, <1>11 DEF IInv

-----------------------------------------------------------------------------
(***************************************************************************)
(* The theorems.                                                           *)
(***************************************************************************)
LEMMA InitInv ==
  ASSUME Init
  PROVE  IInv
<1>1. TypeOK
  BY EarnConstants DEF Init, TypeOK, Idle, Off, Answer
<1>2. OneOpen /\ RecordOK /\ SettledIsTrue
  BY EarnConstants DEF Init, OneOpen, RecordOK, SettledIsTrue, Open, Own
<1>3. LockOK /\ WorkOK /\ VerdictOK
  BY DEF Init, LockOK, WorkOK, VerdictOK, Idle
<1>4. LiveOK /\ OneExecute /\ FreshOK /\ ChainOK
  BY DEF Init, LiveOK, OneExecute, FreshOK, ChainOK, Live
<1>5. KitOK
  BY DEF Init, KitOK, Off
<1> QED BY <1>1, <1>2, <1>3, <1>4, <1>5 DEF IInv

\* Every step keeps the invariant.
LEMMA NextInv ==
  ASSUME IInv, [Next]_vars
  PROVE  IInv'
<1>1. CASE UNCHANGED vars
  BY <1>1, KitStep DEF vars, IInv, TypeOK, KitOK, Own, Kit_
<1>2. ASSUME NEW t \in Tab,
             \/ Start(t) \/ ReadAttempt(t) \/ GiveUp(t) \/ Record(t) \/ KitEnds(t) \/ CheckStatus(t)
             \/ ReadRecord(t) \/ Judge(t) \/ SaveVerdict(t) \/ Close(t)
      PROVE  IInv'
  BY <1>2, StartInv, ReadAttemptInv, GiveUpInv, RecordInv, KitEndsInv, CheckStatusInv, ReadRecordInv,
     JudgeInv, SaveVerdictInv, CloseInv
<1>3. ASSUME NEW r \in Rec, RequestApproval(r) \/ RequestExecute(r) \/ ExecuteAnswered(r)
      PROVE  IInv'
  BY <1>3, RequestApprovalInv, RequestExecuteInv, ExecuteAnsweredInv
<1>4. ASSUME NEW x \in Tx, Broadcast(x) \/ Refuse(x) \/ Mine(x) \/ MinedElsewhere(x)
      PROVE  IInv'
  BY <1>4, BroadcastInv, RefuseInv, MineInv, MinedElsewhereInv
<1> QED BY <1>1, <1>2, <1>3, <1>4, HeadMovesOnInv DEF Next

\* The strengthening: every reachable state satisfies IInv.
THEOREM EarnInvariant == Spec => []IInv
<1>1. Init => IInv
  BY InitInv
<1>2. IInv /\ [Next]_vars => IInv'
  BY NextInv
<1> QED BY <1>1, <1>2, PTL DEF Spec

\* The journal, the lock, the tabs, the kit's calls and the executes keep their
\* types, and the faults their bound.
THEOREM EarnTypes == Spec => []TypeOK
<1>1. IInv => TypeOK
  BY DEF IInv
<1> QED BY <1>1, EarnInvariant, PTL

\* An execute that can still move funds keeps its operation open, whatever was
\* lost, late, closed or refused: no second operation starts beside it.
THEOREM EarnLiveExecuteBlocks == Spec => []LiveExecuteBlocks
<1>1. IInv => LiveExecuteBlocks
  BY DEF IInv, LiveOK, LiveExecuteBlocks
<1> QED BY <1>1, EarnInvariant, PTL

\* What the journal says of a settled operation is what happened to its own
\* execute, also when the hash had to be found on the chain.
THEOREM EarnSettledIsTrue == Spec => []SettledIsTrue
<1>1. IInv => SettledIsTrue
  BY DEF IInv
<1> QED BY <1>1, EarnInvariant, PTL

\* The steps that write the record of one operation, or none; a settled one
\* only gets the answer it already has.
Writes(r, e) == Save(r, e) /\ (journal[r].outcome \in Final => e.outcome = journal[r].outcome /\ e.hash = journal[r].hash)

\* Such a write leaves every settled record as it is, or drops it.
LEMMA WritesKeepsFinal ==
  ASSUME IInv, NEW r \in Rec, NEW e \in Record_, Writes(r, e), NEW q \in Rec, journal[q].outcome \in Final
  PROVE  journal'[q].outcome \in {journal[q].outcome, "pruned"} /\ journal'[q].hash = journal[q].hash
<1>1. journal \in [Rec -> Record_]
  BY DEF IInv, TypeOK, Record_
<1>2. Wrote(r, e)
  BY <1>1, SaveWrites DEF Writes
<1>3. CASE q = r
  BY <1>2, <1>3 DEF Wrote, Kept, Writes
<1>4. CASE q # r
  BY <1>2, <1>4 DEF Wrote, Kept
<1> QED BY <1>3, <1>4

\* Every step is such a write or leaves the journal alone.
LEMMA EveryWrite ==
  ASSUME IInv, [Next]_vars
  PROVE  UNCHANGED journal \/ \E r \in Rec, e \in Record_ : Writes(r, e)
<1>1. journal \in [Rec -> Record_]
  BY DEF IInv, TypeOK, Record_
<1>2. ASSUME NEW t \in Tab, Record(t)
      PROVE  UNCHANGED journal \/ \E r \in Rec, e \in Record_ : Writes(r, e)
  <2>1. tab[t] \in Tab_
    BY TabNow
  <2>2. ASSUME NEW r \in Rec, journal[r].outcome = "none",
               Save(r, [journal[r] EXCEPT !.outcome = "sending", !.nonce = tab[t].nonce])
        PROVE  \E e \in Record_ : Writes(r, e)
    <3> DEFINE e == [journal[r] EXCEPT !.outcome = "sending", !.nonce = tab[t].nonce]
    <3>1. e \in Record_
      BY <1>1, <2>1 DEF Record_, Tab_
    <3>2. Writes(r, e)
      BY <2>2 DEF Writes, Final
    <3> QED BY <3>1, <3>2
  <2> QED BY <1>2, <2>2 DEF Record, Fresh
<1>3. ASSUME NEW r \in Rec, RequestApproval(r)
      PROVE  UNCHANGED journal \/ \E q \in Rec, e \in Record_ : Writes(q, e)
  <2>1. ASSUME Allowed(r, "approve"), Save(r, [journal[r] EXCEPT !.approved = TRUE])
        PROVE  \E e \in Record_ : Writes(r, e)
    <3> DEFINE yes == TRUE
               e == [journal[r] EXCEPT !.approved = yes]
    <3>1. yes \in BOOLEAN /\ Save(r, e)
      BY <2>1
    <3> HIDE DEF yes
    <3>2. e \in Record_
      BY <1>1, <3>1 DEF Record_
    <3>3. Writes(r, e)
      BY <2>1, <3>1 DEF Writes, Allowed, Final
    <3> QED BY <3>2, <3>3
  <2> QED BY <1>3, <2>1 DEF RequestApproval
<1>4. ASSUME NEW r \in Rec, RequestExecute(r)
      PROVE  UNCHANGED journal \/ \E q \in Rec, e \in Record_ : Writes(q, e)
  <2>1. ASSUME Allowed(r, "execute"), Save(r, [journal[r] EXCEPT !.execute = "requested"])
        PROVE  \E e \in Record_ : Writes(r, e)
    <3> DEFINE e == [journal[r] EXCEPT !.execute = "requested"]
    <3>1. e \in Record_
      BY <1>1 DEF Record_, Answer
    <3>2. Writes(r, e)
      BY <2>1 DEF Writes, Allowed, Final
    <3> QED BY <3>1, <3>2
  <2> QED BY <1>4, <2>1 DEF RequestExecute
<1>5. ASSUME NEW r \in Rec, ExecuteAnswered(r)
      PROVE  UNCHANGED journal \/ \E q \in Rec, e \in Record_ : Writes(q, e)
  <2> DEFINE x == kit[r].tx
  <2>1. x \in Tx /\ Own(x, r)
    BY <1>5 DEF ExecuteAnswered, IInv, KitOK
  <2>2. ASSUME NEW a \in Answers(x),
               Save(r, [journal[r] EXCEPT !.execute = a, !.hash = IF a = "hash" THEN x ELSE @])
        PROVE  \E e \in Record_ : Writes(r, e)
    <3> DEFINE e == [journal[r] EXCEPT !.execute = a, !.hash = IF a = "hash" THEN x ELSE @]
    <3>1. a \in Answer
      BY DEF Answers, Answer
    <3>2. /\ e \in Record_ /\ e.outcome = journal[r].outcome
          /\ e.hash = IF a = "hash" THEN x ELSE journal[r].hash
      BY <1>1, <2>1, <3>1 DEF Record_
    <3>3. ASSUME a = "hash", journal[r].outcome \in Final
          PROVE  journal[r].hash = x
      <4>1. tx[x].state \in {"pending", "mined", "reverted"}
        BY <3>3 DEF Answers
      <4>2. journal[r].outcome # "not_sent"
        BY <2>1, <4>1 DEF IInv, SettledIsTrue, Own
      <4>3. journal[r].hash \in Tx /\ Own(journal[r].hash, r)
        BY <3>3, <4>2 DEF IInv, SettledIsTrue, Own, Final
      <4> QED BY <2>1, <4>3, EarnConstants DEF IInv, OneExecute, Own
    <3>4. Save(r, e)
      BY <2>2
    <3> HIDE DEF e, x
    <3>5. Writes(r, e)
      BY <3>2, <3>3, <3>4 DEF Writes
    <3> QED BY <3>2, <3>5
  <2> QED BY <1>5, <2>2 DEF ExecuteAnswered, Mark
<1>6. ASSUME NEW t \in Tab, ReadRecord(t)
      PROVE  UNCHANGED journal \/ \E r \in Rec, e \in Record_ : Writes(r, e)
  <2> DEFINE r == tab[t].rec
  <2>1. r \in Rec /\ Open(r)
    BY <1>6, TabNow DEF ReadRecord, TabOK
  <2>2. ASSUME NEW o \in {"not_sent", "unknown"}, Save(r, [journal[r] EXCEPT !.outcome = o])
        PROVE  \E e \in Record_ : Writes(r, e)
    <3> DEFINE e == [journal[r] EXCEPT !.outcome = o]
    <3>1. e \in Record_
      BY <1>1, <2>1 DEF Record_, Final
    <3>2. Writes(r, e)
      BY <2>1, <2>2 DEF Writes, Open, Final
    <3> QED BY <3>1, <3>2
  <2> DEFINE o == IF NeverSent(r) THEN "not_sent" ELSE "unknown"
  <2>3. o \in {"not_sent", "unknown"}
    OBVIOUS
  <2>4. UNCHANGED journal \/ Save(r, [journal[r] EXCEPT !.outcome = o])
    BY <1>6 DEF ReadRecord
  <2> HIDE DEF o
  <2> QED BY <2>1, <2>2, <2>3, <2>4
<1>7. ASSUME NEW t \in Tab, SaveVerdict(t)
      PROVE  UNCHANGED journal \/ \E r \in Rec, e \in Record_ : Writes(r, e)
  <2> DEFINE r == tab[t].rec
             e == [journal[r] EXCEPT !.outcome = tab[t].verdict,
                                     !.hash = IF tab[t].hash # None THEN tab[t].hash ELSE @]
  <2>1. r \in Rec /\ Open(r) /\ tab[t] \in Tab_
    BY <1>7, TabNow DEF SaveVerdict, TabOK
  <2>2. e \in Record_
    BY <1>1, <2>1, ZenonT(40) DEF Record_, Tab_, Final
  <2>3. Save(r, e) => Writes(r, e)
    BY <2>1 DEF Writes, Open, Final
  <2> QED BY <1>7, <2>1, <2>2, <2>3 DEF SaveVerdict
<1>8. ASSUME NEW t \in Tab,
             Start(t) \/ ReadAttempt(t) \/ GiveUp(t) \/ KitEnds(t) \/ CheckStatus(t) \/ Judge(t) \/ Close(t)
      PROVE  UNCHANGED journal
  BY <1>8 DEF Start, ReadAttempt, GiveUp, KitEnds, CheckStatus, Judge, Close
<1>9. ASSUME NEW x \in Tx, Broadcast(x) \/ Refuse(x) \/ Mine(x) \/ MinedElsewhere(x)
      PROVE  UNCHANGED journal
  BY <1>9 DEF Broadcast, Refuse, Mine, MinedElsewhere
<1>10. CASE UNCHANGED vars \/ HeadMovesOn
  BY <1>10 DEF vars, HeadMovesOn
<1> QED BY <1>2, <1>3, <1>4, <1>5, <1>6, <1>7, <1>8, <1>9, <1>10 DEF Next

\* A settled record stays as it is until it is dropped: neither the wallet's
\* late answer nor a second settlement changes what the user was told.
THEOREM EarnSettledIsFinal == Spec => SettledIsFinal
<1>1. IInv /\ [Next]_vars =>
        [\A r \in Rec : journal[r].outcome \in Final
           => journal'[r].outcome \in {journal[r].outcome, "pruned"} /\ journal'[r].hash = journal[r].hash]_vars
  <2> SUFFICES ASSUME IInv, [Next]_vars, NEW q \in Rec, journal[q].outcome \in Final
        PROVE journal'[q].outcome \in {journal[q].outcome, "pruned"} /\ journal'[q].hash = journal[q].hash
    OBVIOUS
  <2>1. CASE UNCHANGED journal
    BY <2>1
  <2>2. CASE \E r \in Rec, e \in Record_ : Writes(r, e)
    BY <2>2, WritesKeepsFinal
  <2> QED BY <2>1, <2>2, EveryWrite
<1> QED BY <1>1, EarnInvariant, PTL DEF Spec, SettledIsFinal

-----------------------------------------------------------------------------
(***************************************************************************)
(* The executes of all tabs and operations implement OneOutstanding.       *)
(***************************************************************************)
Made == {x \in Tx : tx[x].of # None}
Opened == {x \in Tx : Live(x)}

\* At most one execute can still take effect.
LEMMA OneLive ==
  ASSUME IInv, NEW x \in Tx, NEW y \in Tx, Live(x), Live(y)
  PROVE  x = y
<1>1. tx[x].of \in Rec /\ Open(tx[x].of) /\ tx[y].of \in Rec /\ Open(tx[y].of)
  BY DEF IInv, LiveOK
<1>2. tx[x].of = tx[y].of
  BY <1>1 DEF IInv, OneOpen
<1> QED BY <1>1, <1>2, EarnConstants DEF IInv, OneExecute

\* The guarded provider asks only for the open operation, which has none yet.
LEMMA AskingMakes ==
  ASSUME IInv, NEW r \in Rec, NEW x \in Tx, Allowed(r, "execute"), tx[x].state = "unused",
         tx' = [tx EXCEPT ![x] = [of |-> r, state |-> "prompt", nonce |-> 0]]
  PROVE  Opened = {} /\ x \notin Made /\ Made' = Made \cup {x} /\ Opened' = {x}
<1>1. tx'[x].of = r /\ tx'[x].state = "prompt" /\ \A y \in Tx \ {x} : tx'[y] = tx[y]
  BY DEF IInv, TypeOK
<1>2. tx[x].of = None /\ r # None
  BY EarnConstants DEF IInv, FreshOK
<1>3. Open(r) /\ \A y \in Tx : ~Own(y, r)
  BY DEF Allowed, Open, IInv, RecordOK
<1>4. \A y \in Tx : ~Live(y)
  BY <1>3 DEF IInv, LiveOK, OneOpen, Own
<1> QED BY <1>1, <1>2, <1>4 DEF Made, Opened, Live

\* Over all tabs and operations the wallet is asked for one execute at a time,
\* also across closed tabs and lost answers.
THEOREM EarnAsksOneAtATime == Spec => AsksOneAtATime
<1>1. Init => Wallet!Init
  BY DEF Init, Wallet!Init, Live
<1>2. IInv /\ [Next]_vars => [Wallet!Next]_<<Made, Opened>>
  <2> SUFFICES ASSUME IInv, [Next]_vars
               PROVE  [Wallet!Next]_<<Made, Opened>>
    OBVIOUS
  <2>1. CASE UNCHANGED tx
    BY <2>1 DEF Made, Opened, Live
  <2>2. ASSUME NEW r \in Rec, RequestExecute(r), ~UNCHANGED tx
        PROVE  Wallet!Next
    <3>1. PICK x \in Tx : /\ Allowed(r, "execute") /\ tx[x].state = "unused"
                          /\ tx' = [tx EXCEPT ![x] = [of |-> r, state |-> "prompt", nonce |-> 0]]
      BY <2>2 DEF RequestExecute
    <3>2. Opened = {} /\ x \notin Made /\ Made' = Made \cup {x} /\ Opened' = {x}
      BY <3>1, AskingMakes
    <3>3. Wallet!Make(x)
      BY <3>2 DEF Wallet!Make, Made, Opened
    <3> QED BY <3>3 DEF Wallet!Next
  <2>3. ASSUME NEW x \in Tx, Broadcast(x)
        PROVE  UNCHANGED <<Made, Opened>>
    <3>1. \A y \in Tx : tx'[y].of = tx[y].of /\ (Live(y)' <=> Live(y))
      BY <2>3 DEF Broadcast, IInv, TypeOK, Live
    <3> QED BY <3>1 DEF Made, Opened
  <2>4. ASSUME NEW x \in Tx, NEW s \in {"refused", "mined", "reverted"}, Live(x), tx' = [tx EXCEPT ![x].state = s]
        PROVE  Wallet!Next
    <3>1. tx'[x].state = s /\ (\A y \in Tx \ {x} : tx'[y] = tx[y]) /\ \A y \in Tx : tx'[y].of = tx[y].of
      BY <2>4 DEF IInv, TypeOK
    <3>2. \A y \in Tx : Live(y) => y = x
      BY <2>4, OneLive
    <3>3. x \in Opened /\ Opened' = {} /\ Made' = Made
      BY <2>4, <3>1, <3>2 DEF Opened, Made, Live
    <3>4. Wallet!Close(x)
      BY <3>3 DEF Wallet!Close, Made, Opened
    <3> QED BY <3>4 DEF Wallet!Next
  <2>5. ASSUME NEW x \in Tx, Refuse(x) \/ Mine(x)
        PROVE  Wallet!Next
    BY <2>4, <2>5 DEF Refuse, Mine, Live
  <2>6. ASSUME NEW x \in Tx, MinedElsewhere(x)
        PROVE  UNCHANGED <<Made, Opened>>
    <3>1. tx[x].state = "unused" /\ tx[x].of = None
      BY <2>6 DEF MinedElsewhere, Fresh, Unused, IInv, FreshOK
    <3>2. /\ tx'[x].of = None /\ tx'[x].state = "mined"
          /\ \A y \in Tx \ {x} : tx'[y] = tx[y]
      BY <2>6 DEF MinedElsewhere, IInv, TypeOK
    <3>3. \A y \in Tx : tx'[y].of = tx[y].of /\ (Live(y)' <=> Live(y))
      BY <3>1, <3>2 DEF Live
    <3> QED BY <3>3 DEF Made, Opened
  <2>7. ASSUME NEW t \in Tab,
               \/ Start(t) \/ ReadAttempt(t) \/ GiveUp(t) \/ Record(t) \/ KitEnds(t) \/ CheckStatus(t)
               \/ ReadRecord(t) \/ Judge(t) \/ SaveVerdict(t) \/ Close(t)
        PROVE  UNCHANGED tx
    BY <2>7 DEF Start, ReadAttempt, GiveUp, Record, KitEnds, CheckStatus, ReadRecord, Judge, SaveVerdict, Close
  <2>8. ASSUME NEW r \in Rec, RequestApproval(r) \/ ExecuteAnswered(r)
        PROVE  UNCHANGED tx
    BY <2>8 DEF RequestApproval, ExecuteAnswered
  <2>9. CASE UNCHANGED vars \/ HeadMovesOn
    BY <2>1, <2>9 DEF vars, HeadMovesOn
  <2> QED BY <2>1, <2>2, <2>3, <2>5, <2>6, <2>7, <2>8, <2>9 DEF Next
<1> QED BY <1>1, <1>2, EarnInvariant, PTL
        DEF Spec, AsksOneAtATime, Wallet!Spec, Made, Opened
=============================================================================
