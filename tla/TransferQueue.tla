--------------------------- MODULE TransferQueue ---------------------------
(***************************************************************************)
(* The persistent transfer queue of the EVM bridge: one record per         *)
(* transfer under a localStorage key, read and rewritten in one            *)
(* synchronous call by every tab of the browser.  This module holds what   *)
(* the send and the receive side share: the stages, the table of allowed   *)
(* transitions and the two ways of writing a record.                       *)
(***************************************************************************)
EXTENDS Naturals

\* "none" stands for an id the queue has no record of.
Stage == {"none", "ready", "approval_required", "approving", "approved",
          "burning", "waiting_attestation", "ready_to_mint", "minting",
          "complete", "failed"}

AllowedTransitions ==
  [none                |-> {},
   ready               |-> {"approval_required", "burning", "failed"},
   approval_required   |-> {"approving", "failed"},
   approving           |-> {"approved", "approval_required", "failed"},
   approved            |-> {"burning", "failed"},
   burning             |-> {"waiting_attestation", "approved", "ready", "failed"},
   waiting_attestation |-> {"ready_to_mint", "failed"},
   ready_to_mint       |-> {"minting", "failed"},
   minting             |-> {"complete", "ready_to_mint", "failed"},
   complete            |-> {},
   failed              |-> {"ready", "approval_required", "approved",
                            "waiting_attestation", "ready_to_mint"}]

CanTransition(from, to) ==
  from # "none" /\ (from = to \/ to \in AllowedTransitions[from])

\* updateMainnetTransferRecord: patches whatever record is stored now and
\* looks at no stage; an id without a record is left alone.
Updated(queue, id, new) ==
  IF queue[id].stage = "none" THEN queue ELSE [queue EXCEPT ![id] = new]

\* transitionMainnetTransfer: the same write behind the table.  A refused
\* transition throws before anything is stored, and every caller either
\* ends there or catches it, so the queue stays as it was.
Transitioned(queue, id, new) ==
  IF CanTransition(queue[id].stage, new.stage)
  THEN [queue EXCEPT ![id] = new]
  ELSE queue
=============================================================================
