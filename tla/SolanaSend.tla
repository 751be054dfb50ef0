----------------------------- MODULE SolanaSend -----------------------------
(***************************************************************************)
(* The guard around a Solana bridge transfer: solanaSendGuard (the journal *)
(* of attempts and what settles one) and solanaSendRuntime (the locks, the *)
(* wrapped wallets, the settling before and after a transfer, the manual   *)
(* review, the check a page makes on its own).                             *)
(*                                                                         *)
(* A transfer has a pair of wallets, an EVM and a Solana one, and burns on *)
(* the side of one of them: "arc", where the wallet sends, or "sol", where *)
(* the wallet signs and the page sends, and what was signed is worthless   *)
(* once its blockhash has expired.  An attempt asks for one burn, so the   *)
(* request and its transaction go by the id of the attempt.  Wallets and   *)
(* chains are external.                                                    *)
(***************************************************************************)
EXTENDS Naturals, FiniteSets

CONSTANTS
  Attempts,  \* ids of attempts; |Attempts| bounds how many are made
  Runs,      \* pages that may transfer or review
  Checkers,  \* pages that look at what blocks them
  Pairs,     \* the pairs <<EVM wallet, Solana wallet>> in use
  Sides,     \* the sides transfers burn on
  None

\* A page that both transfers and checks is one of each.
ASSUME SolanaAssumption ==
  /\ None \notin Attempts \cup Runs
  /\ Runs \cap Checkers = {}
  /\ Sides \subseteq {"arc", "sol"}

VARIABLES
  journal,  \* localStorage "machina_mainnet_solana_send_v1"
  locks,    \* navigator.locks "machina-solana-send:evm:" and ":sol:"
  run,      \* where the transfer or the review of every page stands
  look,     \* look[s]: the settling of an attempt by s
  burn      \* what became of the burn every attempt asked for

vars == <<journal, locks, run, look, burn>>

Wallets == {p[1] : p \in Pairs} \cup {p[2] : p \in Pairs}
Settlers == Runs \cup Checkers

BLOCKING == {"signing", "signed", "sent", "unknown"}

\* "from": the first burn, by order of landing, that a search for this one
\* may find.
Attempt ==
  [phase : BLOCKING \cup {"none", "prepared", "released", "burned"},
   pair : Pairs \cup {None}, side : Sides \cup {None}, from : Nat,
   hash : Attempts \cup {None}, signature : BOOLEAN, manuallyReleased : BOOLEAN]

Run == [pc : {"idle", "open", "ready", "kit", "prompt", "submit", "after",
              "final", "review"},
        rec : Attempts \cup {None}, pair : Pairs \cup {None}]

Look == [pc : {"idle", "start", "search", "expiry", "again", "done"},
         rec : Attempts \cup {None}, snap : Attempt,
         verdict : {"burned", "not-sent", "unknown", "unreadable", None},
         tx : Attempts \cup {None}]

\* "signed": the page holds the signed transaction; "limbo": the wallet was
\* asked and nobody listens; "processed": on Solana, not confirmed yet.
\* "at" numbers the burns that landed on a side.
Burn == [status : {"none", "prompt", "limbo", "signed", "pending", "processed",
                   "landed", "failed", "rejected"},
         expired : BOOLEAN, at : Nat]

NoAttempt == [phase |-> "none", pair |-> None, side |-> None, from |-> 0,
              hash |-> None, signature |-> FALSE, manuallyReleased |-> FALSE]

IdleRun == [pc |-> "idle", rec |-> None, pair |-> None]

IdleLook == [pc |-> "idle", rec |-> None, snap |-> NoAttempt, verdict |-> None,
             tx |-> None]

Init ==
  /\ journal = [a \in Attempts |-> NoAttempt]
  /\ locks = [w \in Wallets |-> None]
  /\ run = [u \in Runs |-> IdleRun]
  /\ look = [s \in Settlers |-> IdleLook]
  /\ burn = [a \in Attempts |-> [status |-> "none", expired |-> FALSE, at |-> 0]]

(***************************************************************************)
(* The journal.                                                            *)
(***************************************************************************)
isBlocking(a) == journal[a].phase \in BLOCKING

Shares(p, q) == p[1] = q[1] \/ p[2] = q[2]

Known(a) == journal[a].phase # "none"

\* openSolanaSendAttempt() returns one of these.
Open(pair) == {a \in Attempts : isBlocking(a) /\ Shares(journal[a].pair, pair)}

Patched(a, phase) == [journal EXCEPT ![a].phase = phase]

\* An update of a record the browser refuses to store is caught and dropped.
Saved(new) == journal' \in {journal, new}

\* releaseStalePrepared
WithoutPrepared(pair) ==
  [a \in Attempts |->
    IF journal[a].phase = "prepared" /\ Shares(journal[a].pair, pair)
    THEN [journal[a] EXCEPT !.phase = "released"] ELSE journal[a]]

Became(a, status) == burn' = [burn EXCEPT ![a].status = status]

Landed == {a \in Attempts : burn[a].status = "landed"}

\* Where a search may begin: arcBlockBefore is searched too, and signingAt is
\* taken a minute earlier, so the last burn of its side may be found as well.
Here(side) == {a \in Landed : journal[a].side = side}

Horizon(side) == {Cardinality(Here(side)), Cardinality(Here(side)) + 1} \ {0}

(***************************************************************************)
(* Locks: the EVM wallet's, then the Solana wallet's, each if available.   *)
(***************************************************************************)
Free(pair) == locks[pair[1]] = None /\ locks[pair[2]] = None

Taken(u, pair) == locks' = [w \in Wallets |-> IF w \in {pair[1], pair[2]} THEN u ELSE locks[w]]

LookAt(s, a) ==
  look' = [look EXCEPT ![s] = [IdleLook EXCEPT !.pc = "start", !.rec = a, !.snap = journal[a]]]

\* The callback returns or throws, and its locks end with it.
Finish(u) ==
  /\ locks' = [w \in Wallets |-> IF locks[w] = u THEN None ELSE locks[w]]
  /\ run' = [run EXCEPT ![u] = IdleRun]
  /\ look' = [look EXCEPT ![u] = IdleLook]

(***************************************************************************)
(* withSolanaSendGuard, up to the attempt.                                 *)
(***************************************************************************)
\* With the locks: an open attempt of either wallet is settled first.
Enter(u, pair) ==
  /\ run[u].pc = "idle"
  /\ journal' = WithoutPrepared(pair)
  /\ \/ /\ Open(pair) = {}
        /\ run' = [run EXCEPT ![u] = [IdleRun EXCEPT !.pc = "ready", !.pair = pair]]
        /\ UNCHANGED look
     \/ \E a \in Open(pair) :
          /\ run' = [run EXCEPT ![u] = [IdleRun EXCEPT !.pc = "open", !.pair = pair]]
          /\ LookAt(u, a)
  /\ UNCHANGED burn

\* Mutant: takes the lock of one of the two wallets only.
Start_OneLock(u, pair) ==
  \E w \in {pair[1], pair[2]} :
    /\ locks[w] = None
    /\ locks' = [locks EXCEPT ![w] = u]
    /\ Enter(u, pair)

Start(u, pair) == Free(pair) /\ Taken(u, pair) /\ Enter(u, pair)

\* arcLatestBlock (for "arc"), the fee check, createSolanaSendAttempt.  Which way
\* a transfer goes makes no difference before.
Create(u, a, side) ==
  /\ run[u].pc = "ready"
  /\ ~Known(a)
  /\ \E from \in IF side = "arc" THEN Horizon("arc") ELSE {0} :
       journal' = [journal EXCEPT ![a] = [NoAttempt EXCEPT !.phase = "prepared",
                     !.pair = run[u].pair, !.side = side, !.from = from]]
  /\ run' = [run EXCEPT ![u].pc = "kit", ![u].rec = a]
  /\ UNCHANGED <<locks, look, burn>>

\* The block cannot be read, the fee changed, or the attempt cannot be saved.
CreateFails(u) == run[u].pc = "ready" /\ Finish(u) /\ UNCHANGED <<journal, burn>>

(***************************************************************************)
(* The transfer and the wrapped wallets.                                   *)
(***************************************************************************)
\* Bridge Kit ends without asking for the burn, the policy refuses what it
\* asks for, or "signing" cannot be saved; the finally block settles the
\* attempt from its phase alone.
KitFails(u) ==
  /\ run[u].pc = "kit"
  /\ journal' = Patched(run[u].rec, "released")
  /\ Finish(u)
  /\ UNCHANGED burn

\* "signing" is saved before the wallet sees the burn.
RequestBurn(u) ==
  LET a == run[u].rec
  IN  /\ run[u].pc = "kit"
      /\ \E from \in IF journal[a].side = "sol" THEN Horizon("sol") ELSE {journal[a].from} :
           journal' = [journal EXCEPT ![a].phase = "signing", ![a].from = from]
      /\ Became(a, "prompt")
      /\ run' = [run EXCEPT ![u].pc = "prompt"]
      /\ UNCHANGED <<locks, look>>

After(u) == run' = [run EXCEPT ![u].pc = "after"]

WalletRejects(u) ==
  LET a == run[u].rec
  IN  /\ run[u].pc = "prompt"
      /\ burn[a].status = "prompt"
      /\ Became(a, "rejected")
      /\ Saved(Patched(a, "released"))
      /\ After(u)
      /\ UNCHANGED <<locks, look>>

\* Mutant: every error of the wallet is a refusal.
WalletErrors_Releases(u) ==
  LET a == run[u].rec
  IN  /\ run[u].pc = "prompt"
      /\ Became(a, IF burn[a].status = "prompt" THEN "limbo" ELSE burn[a].status)
      /\ Saved(Patched(a, "released"))
      /\ After(u)
      /\ UNCHANGED <<locks, look>>

\* Any other error leaves the outcome open.
WalletErrors(u) ==
  LET a == run[u].rec
  IN  /\ run[u].pc = "prompt"
      /\ Became(a, IF burn[a].status = "prompt" THEN "limbo" ELSE burn[a].status)
      /\ Saved(Patched(a, "unknown"))
      /\ After(u)
      /\ UNCHANGED <<locks, look>>

\* The EVM wallet answers a hash, or the id of a batch, which is not one.
EvmAnswers(u) ==
  LET a == run[u].rec
  IN  /\ run[u].pc = "prompt" /\ journal[a].side = "arc"
      /\ burn[a].status \in {"pending", "landed", "failed"}
      /\ \/ Saved([journal EXCEPT ![a].phase = "sent", ![a].hash = a])
         \/ Saved(Patched(a, "unknown"))
      /\ After(u)
      /\ UNCHANGED <<locks, look, burn>>

\* The Solana wallet returns the signed burn.  Only when its signature is
\* saved does Bridge Kit get it, or when there is none to be read from it.
SolanaSigns(u) ==
  LET a == run[u].rec
  IN  /\ run[u].pc = "prompt" /\ journal[a].side = "sol"
      /\ burn[a].status = "prompt"
      /\ Became(a, "signed")
      /\ \/ /\ journal' \in {journal,
                  [journal EXCEPT ![a].phase = "signed", ![a].signature = TRUE]}
            /\ run' = [run EXCEPT ![u].pc = "submit"]
         \/ After(u) /\ UNCHANGED journal
      /\ UNCHANGED <<locks, look>>

Submit(u) ==
  /\ run[u].pc = "submit"
  /\ \/ Became(run[u].rec, "pending")
     \/ UNCHANGED burn
  /\ After(u)
  /\ UNCHANGED <<journal, locks, look>>

\* Bridge Kit returned or threw: the finally block reads the attempt again.
Finally(u) ==
  LET a == run[u].rec
  IN  /\ run[u].pc = "after"
      /\ IF isBlocking(a)
         THEN /\ run' = [run EXCEPT ![u].pc = "final"]
              /\ LookAt(u, a)
              /\ UNCHANGED locks
         ELSE Finish(u)
      /\ UNCHANGED <<journal, burn>>

\* A closed page frees its locks and leaves its request with the wallet.
TabCloses(u) ==
  LET a == run[u].rec
  IN  /\ run[u].pc # "idle"
      /\ Finish(u)
      /\ IF run[u].pc = "prompt" /\ burn[a].status = "prompt" THEN Became(a, "limbo")
                                                              ELSE UNCHANGED burn
      /\ UNCHANGED journal

(***************************************************************************)
(* verifySolanaSendAttempt, one step per read, on the attempt as it was    *)
(* when the settling began.  A read that fails ends it.                    *)
(***************************************************************************)
\* Of what a verdict of "not sent" rests on, it is kept whether there was a
\* signature to ask for.
Decided(s, verdict, tx) ==
  look' = [look EXCEPT ![s] =
    [pc |-> "done", rec |-> look[s].rec, verdict |-> verdict, tx |-> tx,
     snap |-> [NoAttempt EXCEPT !.signature = look[s].snap.signature /\ verdict = "not-sent"]]]

Goes(s, pc) == look' = [look EXCEPT ![s].pc = pc]

Wallet(pair, side) == IF side = "arc" THEN pair[1] ELSE pair[2]

\* arcBurnsSince, solanaBurnsSince: by wallet and time; neither the amount nor
\* the attempt is looked at.
BurnsSince(snap) ==
  {b \in Landed : /\ journal[b].side = snap.side
                  /\ Wallet(journal[b].pair, snap.side) = Wallet(snap.pair, snap.side)
                  /\ burn[b].at >= snap.from}

\* What a search gets to see of them.  Arc's logs are read completely or not at
\* all; of a Solana wallet only the latest signatures are listed, and one
\* without a block time is left out.
Seen(snap) == IF snap.side = "arc" THEN {BurnsSince(snap)} ELSE SUBSET BurnsSince(snap)

\* A hash, or the signature, is looked up first.
ReadHash(s) ==
  LET x == look[s].snap.hash
  IN  /\ look[s].pc = "start" /\ look[s].snap.side = "arc" /\ x # None
      /\ \/ burn[x].status = "landed" /\ Decided(s, "burned", x)
         \/ burn[x].status = "failed" /\ Decided(s, "not-sent", None)
         \/ burn[x].status \notin {"landed", "failed"} /\ Goes(s, "search")
      /\ UNCHANGED <<journal, locks, run, burn>>

ReadSignature(s) ==
  LET a == look[s].rec
  IN  /\ look[s].pc = "start" /\ look[s].snap.side = "sol" /\ look[s].snap.signature
      /\ \/ burn[a].status = "landed" /\ Decided(s, "burned", a)
         \/ burn[a].status = "failed" /\ Decided(s, "not-sent", None)
         \/ burn[a].status = "processed" /\ Decided(s, "unknown", None)
         \/ burn[a].status \notin {"processed", "landed", "failed"} /\ Goes(s, "expiry")
      /\ UNCHANGED <<journal, locks, run, burn>>

\* Without either, and for an "arc" hash without a receipt, the burns of the
\* wallet are searched.
Search(s) ==
  LET snap == look[s].snap
  IN  /\ \/ look[s].pc = "search"
         \/ /\ look[s].pc = "start"
            /\ IF snap.side = "arc" THEN snap.hash = None ELSE ~snap.signature
      /\ \E found \in Seen(snap) :
           \/ \E b \in found : Decided(s, "burned", b)
           \/ /\ found = {}
              /\ IF snap.side = "arc" THEN Decided(s, "unknown", None) ELSE Goes(s, "expiry")
      /\ UNCHANGED <<journal, locks, run, burn>>

\* Mutant: an expired blockhash is enough.
ReadExpiry_Enough(s) ==
  /\ look[s].pc = "expiry"
  /\ Decided(s, IF burn[look[s].rec].expired THEN "not-sent" ELSE "unknown", None)
  /\ UNCHANGED <<journal, locks, run, burn>>

ReadExpiry(s) ==
  /\ look[s].pc = "expiry"
  /\ IF burn[look[s].rec].expired THEN Goes(s, "again") ELSE Decided(s, "unknown", None)
  /\ UNCHANGED <<journal, locks, run, burn>>

\* What landed just before it expired must not be missed.  A signature is
\* found as soon as it is processed, a search sees what is confirmed.
ReadAgain(s) ==
  LET a == look[s].rec
      readings == IF look[s].snap.signature
                  THEN {{b \in {a} : burn[b].status \in {"processed", "landed"}}}
                  ELSE Seen(look[s].snap)
  IN  /\ look[s].pc = "again"
      /\ \E found \in readings :
           \/ \E b \in found : Decided(s, "burned", b)
           \/ found = {} /\ Decided(s, "not-sent", None)
      /\ UNCHANGED <<journal, locks, run, burn>>

\* A read fails, or a checking page closes; to a check it is as good as not knowing.
ReadFails(s) ==
  /\ look[s].pc \notin {"idle", "done"}
  /\ Decided(s, IF s \in Checkers THEN "unknown" ELSE "unreadable", None)
  /\ UNCHANGED <<journal, locks, run, burn>>

(***************************************************************************)
(* applySolanaSendVerdict, on the attempt as it is stored by now, and what *)
(* the one who settled does next.                                          *)
(***************************************************************************)
\* Mutant: an outcome that is not known makes the attempt unknown.
Applied_Unknown(s) ==
  LET a == look[s].rec
  IN  CASE look[s].verdict = "burned" ->
             [journal EXCEPT ![a].phase = "burned", ![a].hash = look[s].tx]
        [] look[s].verdict = "not-sent" -> Patched(a, "released")
        [] OTHER -> Patched(a, "unknown")

Applied(s) ==
  LET a == look[s].rec
  IN  CASE look[s].verdict = "burned" ->
             [journal EXCEPT ![a].phase = "burned", ![a].hash = look[s].tx]
        [] look[s].verdict = "not-sent" -> Patched(a, "released")
        [] OTHER -> journal

\* Only an open attempt that was not sent lets the transfer go on.
OpenSettled(u) ==
  /\ run[u].pc = "open" /\ look[u].pc = "done"
  /\ journal' = Applied(u)
  /\ IF look[u].verdict = "not-sent"
     THEN /\ run' = [run EXCEPT ![u].pc = "ready"]
          /\ look' = [look EXCEPT ![u] = IdleLook]
          /\ UNCHANGED locks
     ELSE Finish(u)
  /\ UNCHANGED burn

FinalSettled(u) ==
  /\ run[u].pc = "final" /\ look[u].pc = "done"
  /\ journal' = Applied(u)
  /\ Finish(u)
  /\ UNCHANGED burn

\* useOpenSolanaSendAttempt: check() takes no lock.
Check(c, pair) ==
  /\ look[c].pc = "idle"
  /\ \E a \in Open(pair) : LookAt(c, a)
  /\ UNCHANGED <<journal, locks, run, burn>>

CheckSettled(c) ==
  /\ look[c].pc = "done"
  /\ journal' = Applied(c)
  /\ look' = [look EXCEPT ![c] = IdleLook]
  /\ UNCHANGED <<locks, run, burn>>

\* releaseSolanaSendAttemptAfterReview: the user says no wallet holds the
\* request any more; the chains are asked first.
Review(u, a) ==
  /\ run[u].pc = "idle"
  /\ isBlocking(a)
  /\ Free(journal[a].pair)
  /\ Taken(u, journal[a].pair)
  /\ run' = [run EXCEPT ![u] = [IdleRun EXCEPT !.pc = "review", !.rec = a]]
  /\ LookAt(u, a)
  /\ UNCHANGED <<journal, burn>>

\* A complete check that found nothing, of an attempt that still blocks.
ReviewSettled(u) ==
  LET a == run[u].rec
  IN  /\ run[u].pc = "review" /\ look[u].pc = "done"
      /\ journal' = IF look[u].verdict = "unknown" /\ isBlocking(a)
                    THEN [journal EXCEPT ![a].phase = "released", ![a].manuallyReleased = TRUE]
                    ELSE Applied(u)
      /\ Finish(u)
      /\ UNCHANGED burn

(***************************************************************************)
(* Wallets and chains (external).                                          *)
(***************************************************************************)
\* The EVM wallet sends what the user approves.  A Solana request nobody
\* listens to any more may be sent too: the code expects it.
Broadcast(a) ==
  /\ \/ burn[a].status = "limbo"
     \/ burn[a].status = "prompt" /\ journal[a].side = "arc"
  /\ Became(a, "pending")
  /\ UNCHANGED <<journal, locks, run, look>>

Lands(a) ==
  burn' = [burn EXCEPT ![a].status = "landed",
                       ![a].at = Cardinality(Here(journal[a].side)) + 1]

Process(a) ==
  /\ burn[a].status = "pending" /\ ~burn[a].expired
  /\ IF journal[a].side = "sol" THEN Became(a, "processed") ELSE Lands(a)
  /\ UNCHANGED <<journal, locks, run, look>>

Confirm(a) ==
  /\ burn[a].status = "processed"
  /\ Lands(a)
  /\ UNCHANGED <<journal, locks, run, look>>

Fail(a) ==
  /\ burn[a].status = "pending" /\ ~burn[a].expired
  /\ Became(a, "failed")
  /\ UNCHANGED <<journal, locks, run, look>>

Live(a) == burn[a].status \in {"prompt", "limbo", "signed", "pending"} /\ ~burn[a].expired

Expire(a) ==
  /\ journal[a].side = "sol"
  /\ ~burn[a].expired
  /\ Live(a) \/ burn[a].status \in {"processed", "landed"}
  /\ burn' = [burn EXCEPT ![a].expired = TRUE]
  /\ UNCHANGED <<journal, locks, run, look>>

-----------------------------------------------------------------------------
Next ==
  \/ \E u \in Runs, pair \in Pairs : Start(u, pair)
  \/ \E u \in Runs, a \in Attempts, side \in Sides : Create(u, a, side)
  \/ \E u \in Runs, a \in Attempts : Review(u, a)
  \/ \E u \in Runs : \/ CreateFails(u)  \/ KitFails(u)     \/ RequestBurn(u)
                      \/ WalletRejects(u) \/ WalletErrors(u) \/ EvmAnswers(u)
                      \/ SolanaSigns(u)  \/ Submit(u)        \/ Finally(u)
                      \/ OpenSettled(u)  \/ FinalSettled(u)  \/ ReviewSettled(u)
                      \/ TabCloses(u)
  \/ \E s \in Settlers : \/ ReadHash(s)   \/ ReadSignature(s) \/ Search(s)
                          \/ ReadExpiry(s) \/ ReadAgain(s)     \/ ReadFails(s)
  \/ \E c \in Checkers, pair \in Pairs : Check(c, pair)
  \/ \E c \in Checkers : CheckSettled(c)
  \/ \E a \in Attempts : Broadcast(a) \/ Process(a) \/ Confirm(a) \/ Fail(a) \/ Expire(a)

Spec == Init /\ [][Next]_vars

(***************************************************************************)
(* Properties.                                                             *)
(***************************************************************************)
TypeOK ==
  /\ journal \in [Attempts -> Attempt]
  /\ locks \in [Wallets -> Runs \cup {None}]
  /\ run \in [Runs -> Run]
  /\ look \in [Settlers -> Look]
  /\ burn \in [Attempts -> Burn]

\* An attempt the user released against the evidence, or one that a search
\* credited with the burn of another attempt.
Excused(a) ==
  \/ journal[a].manuallyReleased
  \/ journal[a].hash \notin {None, a}

\* A burn that may still be made blocks: neither a rejection, a lost answer, a
\* closed page, a refused save nor a check that read an old record lets go of
\* it.
LiveBlocks == \A a \in Attempts : Live(a) => isBlocking(a) \/ Excused(a)

\* Two wallets that never met were both used with the two of a third attempt:
\* a transfer settles one open attempt of its pair, and there may be two.
Crossed ==
  \E a, b, c \in Attempts :
    /\ Known(a) /\ Known(b) /\ Known(c)
    /\ Shares(journal[a].pair, journal[b].pair) /\ Shares(journal[b].pair, journal[c].pair)
    /\ ~Shares(journal[a].pair, journal[c].pair)

\* No wallet has two burns that may still be made, whatever pairs it is used
\* in and whoever asks, as long as no pair has bridged two others.
OneLiveBurn ==
  ~Crossed => \A a, b \in Attempts :
    /\ a # b /\ Live(a) /\ Live(b)
    /\ Shares(journal[a].pair, journal[b].pair)
    => Excused(a) \/ Excused(b)

\* A verdict of "not sent" is about a burn that can no longer be made, and one
\* that rests on a hash or a saved signature is about a burn that never landed:
\* both are still so when it is applied, which may be much later.
NotSentIsTrue ==
  \A s \in Settlers :
    LET a == look[s].rec
    IN  look[s].pc = "done" /\ look[s].verdict = "not-sent" =>
          /\ ~Live(a)
          /\ journal[a].side = "arc" \/ look[s].snap.signature
             => burn[a].status \notin {"processed", "landed"}

\* What solanaSendGuard says of "released" and of its second reading: a burn that
\* landed is never written off as not sent: it is known as burned
\* or still blocks, also when it lands while it is being looked for.
LandedIsKept ==
  \A a \in Landed : journal[a].phase \in BLOCKING \cup {"burned"} \/ Excused(a)

\* Once no transfer works on it, what the guard has settled does not block again,
\* and its outcome changes only where a burn landed that a search did not see.
SettledStays ==
  [][\A a \in Attempts :
       /\ journal[a].phase \in {"released", "burned"}
       /\ \A u \in Runs : run[u].rec # a
       => /\ ~isBlocking(a)'
          /\ \/ journal'[a].phase = journal[a].phase
             \/ burn[a].status \in {"processed", "landed"}
             \/ Excused(a)']_vars

=============================================================================
