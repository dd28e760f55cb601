-------------------------- MODULE LifecycleContract --------------------------
(***************************************************************************)
(* What the lifecycle promises of one event, with no checklist and no      *)
(* handlers: an event may be confirmed only on evidence (complete          *)
(* financials and a signed letter), and while it is live, losing the       *)
(* evidence and losing Confirmed are one step.                             *)
(***************************************************************************)
VARIABLES stage, evidence, live

cvars == <<stage, evidence, live>>

Stage == {"pipeline", "confirmed", "regret", "cancelled"}

Init == stage = "pipeline" /\ evidence = FALSE /\ live = TRUE

Gather ==
  /\ ~evidence
  /\ evidence' = TRUE
  /\ UNCHANGED <<stage, live>>

\* Withdrawing evidence takes a live Confirmed event with it.
Withdraw ==
  /\ evidence
  /\ evidence' = FALSE
  /\ stage' = IF stage = "confirmed" /\ live THEN "pipeline" ELSE stage
  /\ UNCHANGED live

Confirm ==
  /\ stage = "pipeline" /\ evidence
  /\ stage' = "confirmed"
  /\ UNCHANGED <<evidence, live>>

\* Something other than the evidence blocks: approval, show date or contact.
Demote ==
  /\ stage = "confirmed" /\ live
  /\ stage' = "pipeline"
  /\ UNCHANGED <<evidence, live>>

\* Regret declines what was never confirmed; Cancelled ends either; only
\* Cancelled can be reopened, and then into the pipeline.
Close ==
  /\ \/ stage = "pipeline" /\ stage' \in {"regret", "cancelled"}
     \/ stage = "confirmed" /\ stage' = "cancelled"
  /\ UNCHANGED <<evidence, live>>

Reopen ==
  /\ stage = "cancelled"
  /\ stage' = "pipeline"
  /\ UNCHANGED <<evidence, live>>

Archive ==
  /\ live
  /\ live' = FALSE
  /\ UNCHANGED <<stage, evidence>>

Next == Gather \/ Withdraw \/ Confirm \/ Demote \/ Close \/ Reopen \/ Archive

Spec == Init /\ [][Next]_cvars

ContractTypeOK ==
  stage \in Stage /\ evidence \in BOOLEAN /\ live \in BOOLEAN

\* The promise: whoever looks at a live Confirmed event finds the evidence.
ConfirmedOnEvidence == stage = "confirmed" /\ live => evidence
=============================================================================
