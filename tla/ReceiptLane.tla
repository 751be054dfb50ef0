----------------------------- MODULE ReceiptLane -----------------------------
(***************************************************************************)
(* The Arc Intelligence A2 receipt lane: blocks are persisted from the     *)
(* chain, each gets durable jobs (receipts, then all logs and Transfer     *)
(* logs), worker processes claim the jobs under leases, and a frontier     *)
(* moves over the blocks whose evidence is complete. Every database        *)
(* transaction of the code is one step; what a process reads before a      *)
(* transaction it keeps in "proc" and may use when it is out of date.      *)
(*                                                                         *)
(* A block's hash is its number here: persisted rows are never rewritten.  *)
(* A fork of the chain stops the chain lane (ChainHalts).                  *)
(***************************************************************************)
EXTENDS Integers, FiniteSets, FiniteSetsExt

CONSTANTS
  N,            \* blocks 1 .. N of the chain; 1 is the lane's origin
  TxCount,      \* transactions of each block
  Proc, NoProc, \* server processes (two while one deployment replaces another)
  MaxWork,      \* MAX_WORK_ROWS
  HighWater, LowWater,
  Retain,       \* COMPLETE_WORK_RETAIN
  ChainBatch,   \* liveMaxBlocks
  Tail,         \* recentIncompleteBlocks' tail, MAX_WINDOW_SIZE
  Page,         \* deferredFollowupBlocks' page, MAX_WINDOW_SIZE
  Window,       \* rows one frontier transaction examines, MAX_WINDOW_SIZE
  Span,         \* maxLogRangeBlocks
  MaxFaults     \* bound: crashes, leases lost while held, failed reads

Block == 1 .. N
Logs == {"all_logs", "transfer_logs"}
Comp == {"receipts"} \cup Logs
Job == Block \X Comp
Token == 0 .. Cardinality(Proc)

ASSUME LaneConstants ==
  /\ N \in Nat \ {0} /\ TxCount \in [Block -> Nat]
  /\ IsFiniteSet(Proc) /\ NoProc \notin Proc
  /\ {MaxWork, HighWater, ChainBatch, Tail, Page, Window, Span} \subseteq Nat \ {0}
  /\ LowWater < HighWater /\ HighWater < MaxWork
  /\ {LowWater, Retain, MaxFaults} \subseteq Nat

VARIABLES
  chain,    \* the chain lane: first and last persisted block, stopped or not
  block,    \* arc_intelligence_blocks: receipts stored and the certified flags
  covered,  \* arc_intelligence_coverage: components with a complete row
  cert,     \* arc_intelligence_reconciliation: complete log certificates
  work,     \* arc_intelligence_work
  lane,     \* the receipt lane's row
  proc,     \* memory of each process: its chain loop and its work loop
  passed,   \* history: blocks up to here were all offered by one full pass
  outrun,   \* history: a pass began with blocks already out of its tail
  faults

db == <<block, covered, cert, work, lane>>     \* the tables workers write
history == <<passed, outrun>>
vars == <<chain, db, proc, history, faults>>

-----------------------------------------------------------------------------
(* Jobs *)

NoRow == [state |-> "none", owner |-> NoProc, token |-> 0, live |-> FALSE, again |-> FALSE]
Pending == [NoRow EXCEPT !.state = "pending"]

Open(w) == {j \in Job : w[j].state \notin {"none", "complete"}}
Outstanding(w) == Cardinality(Open(w))

\* pruneCompleteWork: all but the newest complete rows go; which rows are the
\* newest (their ids) is abstracted.
Pruned(w) ==
  LET done == {j \in Job : w[j].state = "complete"}
      kept == IF Cardinality(done) <= Retain THEN {done}
              ELSE {k \in SUBSET done : Cardinality(k) = Retain}
  IN  {[j \in Job |-> IF j \in done \ k THEN NoRow ELSE w[j]] : k \in kept}

\* enqueue and enqueueFollowupWork: rows that exist are kept, the others are
\* added together or, over the capacity, not at all.
Missing(w, js) == {j \in js : w[j].state = "none"}
HasRoomForOne(w, js) == Missing(w, js) = {} \/ Outstanding(w) < MaxWork
HasRoom(w, js) == Missing(w, js) = {} \/ Outstanding(w) + Cardinality(Missing(w, js)) <= MaxWork
Enqueued(w, js) == [j \in Job |-> IF j \in Missing(w, js) THEN Pending ELSE w[j]]

\* finish
Finished(w, j, complete) ==
  [w EXCEPT ![j] = [NoRow EXCEPT !.state = IF complete THEN "complete" ELSE "retrying", !.again = ~complete]]
\* finish prunes after a completion only
Settled(w, complete) == IF complete THEN Pruned(w) ELSE {w}

ReadyWhileHeld(j) == work[j].state \in {"pending", "retrying", "leased"}
Ready(j) == \/ work[j].state \in {"pending", "retrying"}
            \/ work[j].state = "leased" /\ ~work[j].live

\* fencing_token + 1: a value that no lease of the job still in memory has. A
\* row that is not leased shows 0: its own token is compared with nothing.
Fresh(j) == CHOOSE t \in Token : \A p \in Proc : <<j, t>> \notin proc[p].held

\* One claim of a set of ready jobs by p: lease, owner and fencing token.
Claimed(p, js) ==
  [j \in Job |-> IF j \in js
     THEN [state |-> "leased", owner |-> p, token |-> Fresh(j), live |-> TRUE, again |-> work[j].again]
     ELSE work[j]]
Leases(js) == {<<j, Fresh(j)>> : j \in js}

\* requireWorkLease
HoldsLease(p, j) ==
  /\ work[j].state = "leased" /\ work[j].owner = p /\ work[j].live
  /\ <<j, work[j].token>> \in proc[p].held

-----------------------------------------------------------------------------
(* Evidence and the frontier *)

Persisted == {b \in Block : chain.first <= b /\ b <= chain.through}
Sealed ==
  {b \in Persisted :
     /\ block[b].receipts /\ block[b].all_logs /\ block[b].transfer_logs /\ ~block[b].conflict
     /\ covered[b] = Comp
     /\ cert[b] = Logs}

\* receiptSetComplete
ReceiptSetComplete(b) == ~block[b].conflict /\ block[b].got = TxCount[b]

\* progress: over the sealed blocks above the frontier, at most Window of them.
ReachOneFurther(sealed, from, ceiling) ==
  LET ok == {t \in from .. N : t <= from + Window /\ (t = from \/ t <= ceiling)
                               /\ \A b \in Block : from < b /\ b < t => b \in sealed}
  IN  {t \in ok : \A u \in ok : u <= t}
ReachOverGaps(sealed, from, ceiling) ==
  LET above(t) == {b \in Persisted : from < b /\ b <= t}
      ok == {t \in from .. N : /\ t = from \/ (t \in Persisted /\ t <= ceiling)
                               /\ Cardinality(above(t)) <= Window /\ above(t) \subseteq sealed}
  IN  {t \in ok : \A u \in ok : u <= t}
Reach(sealed, from, ceiling) ==
  LET ok == {t \in from .. N : t <= from + Window /\ (t = from \/ t <= ceiling)
                               /\ \A b \in Block : from < b /\ b <= t => b \in sealed}
  IN  {t \in ok : \A u \in ok : u <= t}

LaneStatus(w, through, processed) ==
  IF \E j \in Job : w[j].state = "persistent_partial" THEN "persistent_partial"
  ELSE IF \E j \in Job : w[j].again THEN "retrying"
  ELSE IF through = processed THEN "caught_up" ELSE "indexing"

Progressed(l, sealed, w, number, ceiling) ==
  {LET p == Max({l.processed, number, t}) IN
     [processed |-> p, through |-> t, status |-> LaneStatus(w, t, p)] :
   t \in Reach(sealed, l.through, ceiling)}

\* progress as the transaction of block b calls it, on the rows it has written
Progress(l, b) == lane' \in Progressed(l, Sealed', work', b, Max({b, l.processed}))

-----------------------------------------------------------------------------
(* Processes *)

Idle == [draining |-> FALSE, cursor |-> 1, step |-> "idle", todo |-> {}, mark |-> 0,
         pc |-> "idle", held |-> {}, follow |-> TRUE, proven |-> {}, todoLogs |-> {}, ceiling |-> 0]

Init ==
  /\ chain = [first |-> 1, through |-> 0, halted |-> FALSE]
  /\ block = [b \in Block |-> [got |-> 0, bulk |-> FALSE, receipts |-> FALSE, all_logs |-> FALSE,
                               transfer_logs |-> FALSE, conflict |-> FALSE]]
  /\ covered = [b \in Block |-> {}]
  /\ cert = [b \in Block |-> {}]
  /\ work = [j \in Job |-> NoRow]
  /\ lane = [processed |-> 0, through |-> 0, status |-> "starting"]
  /\ proc = [p \in Proc |-> Idle]
  /\ passed = 0 /\ outrun = FALSE /\ faults = 0

\* refreshPressure
Pressure(draining, mayResume) ==
  IF Outstanding(work) >= HighWater THEN TRUE
  ELSE draining /\ ~(mayResume /\ Outstanding(work) <= LowWater)

Fault == faults < MaxFaults /\ faults' = faults + 1
NoFault == UNCHANGED faults

-----------------------------------------------------------------------------
(* The chain loop: chainStep of the runtime over tick of the follower *)

\* The head is read, the next blocks are fetched and persisted, or nothing is.
ChainTick(p) ==
  /\ proc[p].step = "idle"
  /\ LET drain == Pressure(proc[p].draining, TRUE) IN
     /\ proc' = [proc EXCEPT ![p].draining = drain, ![p].step = IF drain THEN "idle" ELSE "page"]
     /\ \/ UNCHANGED chain
        \/ /\ ~drain /\ ~chain.halted
           /\ \E target \in Block :
                LET next == IF chain.through = 0 THEN Max({1, target - ChainBatch + 1})
                            ELSE chain.through + 1
                IN  /\ next <= target
                    /\ chain' = [chain EXCEPT !.first = IF chain.through = 0 THEN next ELSE @,
                                              !.through = Min({next + ChainBatch - 1, target})]
  /\ UNCHANGED <<db, history, faults>>

\* The fetched blocks contradict a persisted one: the lane stops for good.
ChainHalts(p) ==
  /\ proc[p].step = "idle" /\ ~Pressure(proc[p].draining, TRUE)
  /\ chain.through > 0 /\ ~chain.halted
  /\ Fault
  /\ chain' = [chain EXCEPT !.halted = TRUE]
  /\ proc' = [proc EXCEPT ![p].draining = FALSE, ![p].step = "page"]
  /\ UNCHANGED <<db, history>>

\* deferredFollowupBlocks
PageRows(from) == {b \in Persisted : from <= b /\ Cardinality({c \in Persisted : from <= c /\ c < b}) < Page}
NeedsFollowups(b) ==
  /\ block[b].receipts /\ ~block[b].conflict
  /\ \E k \in Logs \ cert[b] : work[<<b, k>>].state = "none"
NextCursorNeverWraps(from) ==
  IF PageRows(from) # {} THEN Max(PageRows(from)) + 1 ELSE from
NextCursor(from) ==
  IF Cardinality(PageRows(from)) = Page THEN Max(PageRows(from)) + 1 ELSE 1

ReadDeferred(p) ==
  /\ proc[p].step = "page"
  /\ proc' = IF proc[p].draining THEN [proc EXCEPT ![p].step = "idle"]
             ELSE [proc EXCEPT ![p].step = "defer", ![p].mark = NextCursor(proc[p].cursor),
                               ![p].todo = {b \in PageRows(proc[p].cursor) : NeedsFollowups(b)}]
  /\ UNCHANGED <<chain, db, history, faults>>

\* The log jobs of a block without a certificate
LogJobsCertifiedOrNot(b) == {b} \X Logs
LogJobs(b) == {b} \X (Logs \ cert[b])

\* The jobs "js" of the next block of a page or of the recent list are added.
\* The pass ends when the process begins to drain or the table has no room.
Offer(p, js) ==
  LET b == Min(proc[p].todo)
      stop == [proc EXCEPT ![p].draining = TRUE, ![p].step = "idle", ![p].todo = {}, ![p].mark = 0]
  IN  IF Pressure(proc[p].draining, FALSE)
      THEN proc' = stop /\ UNCHANGED work
      ELSE \E w \in IF js = {} THEN {work} ELSE Pruned(work) :
             IF HasRoom(w, js)
             THEN /\ work' = Enqueued(w, js)
                  /\ proc' = [proc EXCEPT ![p].draining = FALSE, ![p].todo = @ \ {b}]
             ELSE proc' = stop /\ UNCHANGED work

\* recoverDeferredFollowups
OfferDeferred(p) ==
  /\ proc[p].step = "defer" /\ proc[p].todo # {}
  /\ LET b == Min(proc[p].todo)
     IN  Offer(p, IF block[b].receipts /\ ReceiptSetComplete(b) THEN LogJobs(b) ELSE {})
  /\ UNCHANGED <<chain, block, covered, cert, lane, history, faults>>

\* recentIncompleteBlocks: blocks of the tail with a missing component and no job for it.
RecentIncompleteShort ==
  {b \in Persisted :
     /\ b > chain.through - Tail + 1 /\ ~block[b].conflict
     /\ \/ ~block[b].receipts /\ work[<<b, "receipts">>].state = "none"
        \/ block[b].receipts /\ \E k \in Logs : ~block[b][k] /\ work[<<b, k>>].state = "none"}
RecentIncomplete ==
  {b \in Persisted :
     /\ b > chain.through - Tail /\ ~block[b].conflict
     /\ \/ ~block[b].receipts /\ work[<<b, "receipts">>].state = "none"
        \/ block[b].receipts /\ \E k \in Logs : ~block[b][k] /\ work[<<b, k>>].state = "none"}

\* The deferred page is done: its cursor moves on and the recent list is read.
ReadRecent(p) ==
  /\ proc[p].step = "defer" /\ proc[p].todo = {}
  /\ IF Pressure(proc[p].draining, FALSE)
     THEN /\ proc' = [proc EXCEPT ![p].draining = TRUE, ![p].step = "idle", ![p].mark = 0]
          /\ UNCHANGED outrun
     ELSE /\ proc' = [proc EXCEPT ![p].draining = FALSE, ![p].step = "recent", ![p].cursor = proc[p].mark,
                                  ![p].mark = chain.through, ![p].todo = RecentIncomplete]
          /\ outrun' = (outrun \/ Max({passed, chain.first - 1}) < chain.through - Tail)
  /\ UNCHANGED <<chain, db, passed, faults>>

\* scheduleBlock; a block found in conflict ends the pass with its error.
OfferRecent(p) ==
  /\ proc[p].step = "recent" /\ proc[p].todo # {}
  /\ LET b == Min(proc[p].todo)
     IN  IF block[b].conflict
         THEN proc' = [proc EXCEPT ![p].step = "idle", ![p].todo = {}, ![p].mark = 0] /\ UNCHANGED work
         ELSE Offer(p, IF block[b].receipts /\ ReceiptSetComplete(b) THEN LogJobs(b) ELSE {<<b, "receipts">>})
  /\ UNCHANGED <<chain, block, covered, cert, lane, history, faults>>

EndPass(p) ==
  /\ proc[p].step = "recent" /\ proc[p].todo = {}
  /\ proc' = [proc EXCEPT ![p].step = "idle", ![p].mark = 0]
  /\ passed' = Max({passed, proc[p].mark})
  /\ UNCHANGED <<chain, db, outrun, faults>>

-----------------------------------------------------------------------------
(* The work loop: runOnce of the worker, in bursts that end in a flush *)

To(p, pc) == [proc EXCEPT ![p].pc = pc]
Gone(p) == [proc EXCEPT ![p].pc = "idle", ![p].held = {}, ![p].follow = TRUE]
Refused(p, j) == ~HoldsLease(p, j) \/ block[j[1]].conflict

Claim(p) ==
  /\ proc[p].pc = "idle"
  /\ \E j \in {k \in Job : Ready(k)}, mayResume \in BOOLEAN :
       LET drain == Pressure(proc[p].draining, mayResume)
       IN  /\ work' = Claimed(p, {j})
           /\ proc' = [proc EXCEPT ![p].draining = drain, ![p].follow = ~(drain /\ j[2] = "receipts"), ![p].held = Leases({j}),
                                   ![p].pc = IF j[2] = "receipts" THEN "mark" ELSE "span"]
  /\ UNCHANGED <<chain, block, covered, cert, lane, history, faults>>

First(p) == (CHOOSE h \in proc[p].held : TRUE)[1]

\* markBulkAttempted
MarkBulk(p) ==
  /\ proc[p].pc = "mark"
  /\ LET j == First(p)
         b == j[1]
         fresh == block[b].got = 0 /\ ~block[b].bulk
     IN  /\ proc' = IF ~HoldsLease(p, j) THEN Gone(p)
                    ELSE To(p, IF block[b].conflict THEN "conflict" ELSE IF fresh THEN "bulk" ELSE "missing")
         /\ block' = IF ~Refused(p, j) /\ fresh THEN [block EXCEPT ![b].bulk = TRUE] ELSE block
  /\ UNCHANGED <<chain, covered, cert, work, lane, history, faults>>

\* saveReceipts with n new receipts; "final" is its finalize.
SaveReceipts(p, j, n, final) ==
  LET b == j[1]
      complete == block[b].got + n = TxCount[b]
      followups == IF complete /\ proc[p].follow THEN LogJobs(b) ELSE {}
  IN  /\ ~Refused(p, j)
      /\ block' = [block EXCEPT ![b].got = @ + n, ![b].receipts = @ \/ complete]
      /\ covered' = [covered EXCEPT ![b] = IF complete THEN @ \cup {"receipts"} ELSE @]
      /\ UNCHANGED cert
      /\ \E w \in IF followups = {} THEN {work} ELSE Pruned(work) :
           /\ HasRoom(w, followups)
           /\ IF final THEN work' \in Settled(Finished(Enqueued(w, followups), j, complete), complete)
              ELSE work' = Enqueued(w, followups)
      /\ Progress(lane, b)

\* The bulk answer: exactly the block's receipts, or the valid ones of a
\* defective answer (kept, and the rest is read one by one), or nothing.
ReadBulk(p) ==
  /\ proc[p].pc = "bulk"
  /\ UNCHANGED <<chain, history>>
  /\ LET j == First(p)
         missing == TxCount[j[1]] - block[j[1]].got
     IN  \/ SaveReceipts(p, j, missing, TRUE) /\ proc' = Gone(p) /\ NoFault
         \/ /\ Fault /\ proc' = To(p, "missing")
            /\ \/ \E n \in 1 .. missing : SaveReceipts(p, j, n, FALSE)
               \/ UNCHANGED db

\* The missing receipts, one by one: some of them arrive and are saved.
ReadMissing(p) ==
  /\ proc[p].pc = "missing"
  /\ UNCHANGED <<chain, history>>
  /\ LET j == First(p)
         missing == TxCount[j[1]] - block[j[1]].got
     IN  \E n \in 0 .. missing :
           /\ SaveReceipts(p, j, n, TRUE)
           /\ IF n = 0 /\ missing > 0 THEN Fault ELSE NoFault
  /\ proc' = Gone(p)

\* A receipt that arrived contradicts a durable one.
MeetConflict(p) ==
  /\ proc[p].pc = "missing"
  /\ LET j == First(p)
     IN  ~Refused(p, j) /\ 0 < block[j[1]].got /\ block[j[1]].got < TxCount[j[1]]
  /\ Fault
  /\ proc' = To(p, "conflict")
  /\ UNCHANGED <<chain, db, history>>

\* The transaction is refused: the lease is gone, or the follow-ups have no room.
SaveRefused(p) ==
  /\ proc[p].pc \in {"bulk", "missing"}
  /\ LET j == First(p)
     IN  \/ ~HoldsLease(p, j) /\ proc' = Gone(p)
         \/ HoldsLease(p, j) /\ block[j[1]].conflict /\ proc' = To(p, "conflict")
         \/ /\ ~Refused(p, j) /\ proc[p].follow
            /\ \E w \in Pruned(work) : ~HasRoom(w, LogJobs(j[1]))
            /\ proc' = [proc EXCEPT ![p].pc = "release", ![p].follow = TRUE, ![p].draining = TRUE]
  /\ UNCHANGED <<chain, db, history, faults>>

\* A read or a database call fails, or the shutdown signal interrupts it.
CallFails(p) ==
  /\ proc[p].pc \in {"mark", "bulk", "missing", "span"}
  /\ Fault
  /\ proc' = [proc EXCEPT ![p].pc = "release", ![p].follow = TRUE]
  /\ UNCHANGED <<chain, db, history>>

\* recordConflict
RecordConflict(p) ==
  /\ proc[p].pc = "conflict"
  /\ proc' = Gone(p)
  /\ UNCHANGED <<chain, history, faults>>
  /\ LET j == First(p)
         b == j[1]
         lowered == [lane EXCEPT !.through = IF @ >= b THEN b - 1 ELSE @]
     IN  IF ~HoldsLease(p, j) THEN UNCHANGED db
         ELSE /\ block' = [block EXCEPT ![b].conflict = TRUE, ![b].receipts = FALSE,
                                        ![b].all_logs = FALSE, ![b].transfer_logs = FALSE]
              /\ covered' = [covered EXCEPT ![b] = {}]
              /\ work' = [work EXCEPT ![j] = [NoRow EXCEPT !.state = "persistent_partial"]]
              /\ UNCHANGED cert
              /\ Progress(lowered, b)

\* claimLogSpan: other ready jobs of the component in the span, and the ready
\* jobs of the other component for the same blocks.
ClaimSpan(p) ==
  /\ proc[p].pc = "span"
  /\ LET j == First(p)
         near == {k \in Job : Ready(k) /\ k[2] = j[2] /\ j[1] < k[1] /\ k[1] < j[1] + Span}
         pair(js) == {k \in Job : Ready(k) /\ k[2] \in Logs \ {j[2]} /\ k[1] \in {i[1] : i \in js}}
     IN  \/ ~HoldsLease(p, j) /\ proc' = Gone(p) /\ UNCHANGED work
         \/ /\ HoldsLease(p, j)
            /\ \E js \in SUBSET near : \E others \in SUBSET pair(js \cup {j}) :
                 /\ work' = Claimed(p, js \cup others)
                 /\ proc' = [proc EXCEPT ![p].held = @ \cup Leases(js \cup others), ![p].pc = "plan"]
  /\ UNCHANGED <<chain, block, covered, cert, lane, history, faults>>

Held(p) == {h[1] : h \in proc[p].held}

\* The blocks are loaded and the range queries are answered. A Transfer job
\* needs no query where an exact all-log certificate is there, unless the
\* certified blocks together are over the Transfer cap.
Plan(p) ==
  /\ proc[p].pc = "plan"
  /\ LET blocks == {j[1] : j \in Held(p)}
         certified == {b \in blocks : "all_logs" \in cert[b]}
     IN  \E proven \in {certified, {}} :
           proc' = [proc EXCEPT ![p].pc = "persist", ![p].proven = proven,
                                ![p].todoLogs = {b \in blocks : ReceiptSetComplete(b)}]
  /\ UNCHANGED <<chain, db, history, faults>>

Lead(p, b) == IF <<b, "all_logs">> \in Held(p) THEN <<b, "all_logs">> ELSE <<b, "transfer_logs">>

\* persistLogPair: one transaction for the block's log jobs in hand. "answer"
\* is what the query that matters here said of the block's logs: exact, exact
\* in a range over the Transfer cap, or not.
PersistLogs(p) ==
  /\ proc[p].pc = "persist" /\ proc[p].todoLogs # {}
  /\ UNCHANGED <<chain, history>>
  /\ LET b == Min(proc[p].todoLogs)
         all == <<b, "all_logs">>
         transfer == <<b, "transfer_logs">>
         hasAll == all \in Held(p)
     IN \E answer \in {"exact", "capped", "inexact"} :
        LET allDone == hasAll /\ answer # "inexact"
            source == IF transfer \notin Held(p) THEN "none"
                      ELSE IF b \in proc[p].proven THEN "certificate"
                      ELSE IF ~hasAll THEN "query"
                      ELSE IF answer = "exact" THEN "response" ELSE "none"
            \* transferDerivationProven, on the certificate and the one written here
            proof == "all_logs" \in cert[b] \/ (source = "response" /\ allDone)
            ours == source # "none" /\ HoldsLease(p, transfer)
            transferDone == ours /\ (IF source \in {"certificate", "response"} THEN proof ELSE answer # "inexact")
            saved == {j \in {all, transfer} : (j = all /\ hasAll) \/ (j = transfer /\ ours)}
            done == {j \in saved : (j = all /\ allDone) \/ (j = transfer /\ transferDone)}
            processed == Max({lane.processed, b})
            clean == (hasAll => allDone) /\ (source # "none" => transferDone)
        IN  /\ ~Refused(p, Lead(p, b)) /\ ReceiptSetComplete(b)
            /\ IF answer = "exact" THEN NoFault ELSE Fault
            /\ cert' = [cert EXCEPT ![b] = @ \cup {j[2] : j \in done}]
            /\ block' = [block EXCEPT ![b].all_logs = @ \/ all \in done,
                                      ![b].transfer_logs = @ \/ transfer \in done]
            /\ covered' = [covered EXCEPT ![b] = @ \cup {j[2] : j \in done}]
            /\ work' \in Settled([j \in Job |-> IF j \in saved THEN Finished(work, j, j \in done)[j] ELSE work[j]],
                                 done # {})
            \* writeLaneProgress: the frontier itself waits for the flush
            /\ lane' = [lane EXCEPT !.processed = processed,
                          !.status = IF @ = "persistent_partial" THEN @
                                     ELSE IF ~clean \/ @ = "retrying" THEN "retrying"
                                     ELSE IF lane.through = processed THEN "caught_up" ELSE "indexing"]
            \* a companion whose lease was lost is dropped, one without proof is released
            /\ proc' = [proc EXCEPT ![p].todoLogs = @ \ {b},
                                    ![p].held = {h \in @ : h[1] \notin saved /\ ~(h[1] = transfer /\ source # "none")}]

\* The block's transaction is refused or fails: its leases are released later.
SkipLogs(p) ==
  /\ proc[p].pc = "persist" /\ proc[p].todoLogs # {}
  /\ LET b == Min(proc[p].todoLogs)
     IN  /\ IF Refused(p, Lead(p, b)) THEN NoFault ELSE Fault
         /\ proc' = [proc EXCEPT ![p].todoLogs = @ \ {b}]
  /\ UNCHANGED <<chain, db, history>>

EndBatch(p) ==
  /\ proc[p].pc = "persist" /\ proc[p].todoLogs = {}
  /\ proc' = [proc EXCEPT ![p].pc = IF proc[p].held = {} THEN "idle" ELSE "release", ![p].proven = {}]
  /\ UNCHANGED <<chain, db, history, faults>>

\* retry of every lease still in hand
Release(p) ==
  /\ proc[p].pc = "release"
  /\ UNCHANGED <<chain, block, covered, cert, history, faults>>
  /\ \E h \in proc[p].held :
       /\ LET j == h[1]
          IN  IF Refused(p, j) THEN UNCHANGED <<work, lane>>
              ELSE work' = Finished(work, j, FALSE) /\ Progress(lane, j[1])
       /\ proc' = IF proc[p].held = {h} THEN Gone(p) ELSE [proc EXCEPT ![p].held = @ \ {h}]

\* advanceFrontier, one page at a time under the ceiling read first
Flush(p) ==
  /\ proc[p].pc \in {"idle", "flush"} /\ lane.processed > 0
  /\ LET ceiling == IF proc[p].pc = "idle" THEN lane.processed ELSE proc[p].ceiling
     IN  /\ lane' \in Progressed(lane, Sealed, work, lane.processed, ceiling)
         /\ LET more == lane'.through = lane.through + Window /\ lane'.through < ceiling
            IN  proc' = [proc EXCEPT ![p].pc = IF more THEN "flush" ELSE "idle",
                                     ![p].ceiling = IF more THEN ceiling ELSE 0]
  /\ UNCHANGED <<chain, block, covered, cert, work, history, faults>>

-----------------------------------------------------------------------------
(* Faults *)

Crash(p) ==
  /\ proc[p] # Idle
  /\ Fault
  /\ proc' = [proc EXCEPT ![p] = Idle]
  /\ UNCHANGED <<chain, db, history>>

\* now() passes lease_until: a fault only for a lease that is still in hand.
LeaseExpires(j) ==
  /\ work[j].state = "leased" /\ work[j].live
  /\ work' = [work EXCEPT ![j].live = FALSE]
  /\ IF \E p \in Proc : HoldsLease(p, j) THEN Fault ELSE NoFault
  /\ UNCHANGED <<chain, block, covered, cert, lane, proc, history>>

-----------------------------------------------------------------------------
ChainLoop(p) == ChainTick(p) \/ ReadDeferred(p) \/ OfferDeferred(p) \/ ReadRecent(p)
                  \/ OfferRecent(p) \/ EndPass(p)
WorkLoop(p) == Claim(p) \/ MarkBulk(p) \/ ReadBulk(p) \/ ReadMissing(p) \/ SaveRefused(p)
                 \/ RecordConflict(p) \/ ClaimSpan(p) \/ Plan(p) \/ PersistLogs(p) \/ SkipLogs(p)
                 \/ EndBatch(p) \/ Release(p)
Trouble(p) == ChainHalts(p) \/ MeetConflict(p) \/ CallFails(p) \/ Crash(p)

Next == \/ \E p \in Proc : ChainLoop(p) \/ WorkLoop(p) \/ Flush(p) \/ Trouble(p)
        \/ \E j \in Job : LeaseExpires(j)

Spec == Init /\ [][Next]_vars

\* The loops go on, an expired lease of a dead process runs out. What the
\* network and the database fail to do is in "faults", which is bounded.
FairSpec ==
  /\ Spec
  /\ \A p \in Proc : WF_vars(ChainLoop(p)) /\ WF_vars(WorkLoop(p)) /\ WF_vars(Flush(p))
  /\ WF_vars(\E j \in Job : LeaseExpires(j) /\ NoFault)

-----------------------------------------------------------------------------
(* Properties *)

Row == [state : {"none", "pending", "leased", "retrying", "complete", "persistent_partial"},
        owner : Proc \cup {NoProc}, token : Token, live : BOOLEAN, again : BOOLEAN]

TypeOK ==
  /\ chain \in [first : Block, through : Block \cup {0}, halted : BOOLEAN]
  /\ block \in [Block -> [got : Nat, bulk : BOOLEAN, receipts : BOOLEAN, all_logs : BOOLEAN,
                          transfer_logs : BOOLEAN, conflict : BOOLEAN]]
  /\ covered \in [Block -> SUBSET Comp]
  /\ cert \in [Block -> SUBSET Logs]
  /\ work \in [Job -> Row]
  /\ lane \in [processed : Block \cup {0}, through : Block \cup {0},
               status : {"starting", "indexing", "caught_up", "retrying", "persistent_partial"}]
  /\ proc \in [Proc -> [draining : BOOLEAN, cursor : 1 .. N + 1, step : {"idle", "page", "defer", "recent"},
                        todo : SUBSET Block, mark : 0 .. N + 1, follow : BOOLEAN,
                        pc : {"idle", "mark", "bulk", "missing", "conflict", "span", "plan", "persist",
                              "release", "flush"},
                        held : SUBSET (Job \X Token), proven : SUBSET Block, todoLogs : SUBSET Block,
                        ceiling : Block \cup {0}]]
  /\ passed \in Block \cup {0} /\ outrun \in BOOLEAN /\ faults \in 0 .. MaxFaults

\* The frontier stands on evidence: of every block up to it all receipts are
\* stored, both log certificates are there and no conflict is open.
FrontierIsProven ==
  \A b \in Block : b <= lane.through =>
    b \in Persisted /\ block[b].got = TxCount[b] /\ cert[b] = Logs /\ ~block[b].conflict

\* Fencing: a leased row is changed by its holder's own step, or it expires; a
\* process that lost the lease while it waited for the network cannot touch it.
LeaseIsExclusive ==
  [][\A j \in Job : work[j].live /\ proc'[work[j].owner] = proc[work[j].owner]
       => work'[j] \in {work[j], [work[j] EXCEPT !.live = FALSE]}]_vars

\* The jobs that are not complete never exceed the table's capacity.
WithinCapacity == Outstanding(work) <= MaxWork

\* A log component with a certificate has no job left: none that a worker could
\* still claim, fail, and so keep the whole lane at "retrying".
CertifiedIsDone ==
  \A b \in Block : \A k \in cert[b] : work[<<b, k>>].state \in {"none", "complete"}

\* While no pass began with blocks already out of its tail, every block that a
\* full pass has offered keeps a job for its receipts until they are complete.
NothingForgotten ==
  ~outrun => \A b \in Persisted : b <= passed /\ ~block[b].conflict /\ ~block[b].receipts
               => work[<<b, "receipts">>].state \in {"pending", "leased", "retrying"}

Frontier == INSTANCE ContiguousFrontier WITH Number <- Block, sealed <- Sealed, frontier <- lane.through

\* The lane's row is a checkpoint over the sealed blocks: it never passes an
\* unsealed one, and falls only when a conflict withdraws a seal below it.
IsAFrontier == Frontier!Spec

\* Every block is settled in the end, over crashes, drains and refused
\* transactions: it is passed by the frontier, or a conflict stands in the way.
EveryBlockSettles ==
  \A b \in Block :
    (b \in Persisted /\ chain.first = 1)
      ~> (lane.through >= b \/ outrun \/ \E c \in Block : c <= b /\ block[c].conflict)
=============================================================================
