---------------------------- MODULE DonePipeline ----------------------------
(***************************************************************************)
(* What run_plan does once its last ticket is back: the ledger's verdict,  *)
(* the role passes that may raise it and the mechanical guard that lowers  *)
(* it again, plan governance, the cross-ticket gate, the derivation of a   *)
(* missing acceptance proof, the approval and execution of its setup, the  *)
(* proof itself with its negotiation and auto-repair, and the live proof.  *)
(*                                                                         *)
(* Two copies of the verdict are kept apart: the RunResult the command     *)
(* returns and exits with, and run-summary.json, which later commands and  *)
(* the operator read.  What the LLM answers, what the operator chooses and *)
(* which command succeeds is open.  Narratives and reports are left out.   *)
(***************************************************************************)
EXTENDS RunLedger, Functions

CONSTANTS
  MaxSetup,     \* bound: the longest plan.acceptance_setup considered
  PgAttempts,   \* max_attempts of _retry_pg_evaluation
  ProofRetries, \* _max_retries of _negotiate_proof_retry
  RoleFaults    \* whether a role pass may raise

ASSUME PipelineConstants ==
  /\ MaxSetup \in Nat /\ PgAttempts \in Nat \ {0} /\ ProofRetries \in Nat
  /\ RoleFaults \in BOOLEAN

VARIABLES
  plan,     \* the facts of the plan the pipeline reads
  opts,     \* role_passes, auto_repair, and whether stdin is a terminal
  outcome,  \* ticket_results
  stage,    \* where the pipeline stands
  verdict,  \* dod_classification
  tries,    \* attempts of the retry loop in progress
  steps,    \* acceptance_setup steps still to run
  proof,    \* what _proof_cmd holds
  failing,  \* _accept_failure
  result,   \* run_result
  summary,  \* run-summary.json
  raised    \* history: a role pass raised

doneVars == <<plan, opts, outcome, stage, verdict, tries, steps, proof, failing,
              result, summary, raised>>
given == <<plan, opts, outcome>>

Plans == [legacy   : BOOLEAN,   \* operating_mode = "legacy_unclassified"
          proof    : {"none", "gap", "plan"},
          setup    : 0..MaxSetup,
          governed : BOOLEAN]   \* governing_goal or required_outcomes

\* A gap marker is written into local_proof_cmd only.
Loadable(p) == p.legacy => p.proof # "gap"

\* What run_plan knows of a ticket behind its loop: its disposition, what
\* became of its verify_cmd (skipped though specified, or never specified),
\* and how often the ledger recorded it.  A committed ticket is recorded by
\* _on_committed and again by the loop; the children of a last-resort split
\* have no callback, so the ticket they pass for is recorded once.  A ticket
\* that resume passed over or the run never came to, and the parent of a
\* split, has no result and stays PENDING.
Outcomes ==
  {o \in [disposition : Verdicts \cup {"PENDING", "ABSENT"},
          verify : {"passed", "failed", "skipped", "unspecified"},
          records : 0..2] :
     /\ o.disposition = "PASS" => o.verify # "failed" /\ o.records \in {1, 2}
     /\ o.disposition = "PASS" /\ o.records = 1 => o.verify # "passed"
     /\ o.disposition = "CODED_UNGOVERNED" => o.verify # "passed" /\ o.records = 2
     /\ o.disposition = "FAIL" =>
          o.verify \in {"skipped", "unspecified"} /\ o.records = 1
     /\ o.disposition = "SKIP" => o.verify = "unspecified" /\ o.records = 1
     /\ o.disposition \in {"PENDING", "ABSENT"} =>
          o.verify = "unspecified" /\ o.records = 0}

OutcomeOf(t) == {o \in Outcomes :
  o.disposition # IF t \in PlanTickets THEN "ABSENT" ELSE "PENDING"}

\* The ledger at the end of the run: every record counts as an execution.
FinalLedger ==
  [FreshLedger EXCEPT
     !.status = [t \in Tickets |-> outcome[t].disposition],
     !.executed = SumFunction([t \in Tickets |-> outcome[t].records])]

\* DOD_PARTIAL, DOD_NOT_MET and DOD_BLOCKED_BY_MISSING_EVIDENCE leave the
\* verdict alone, all three alike.
Classes == {"", "MET", "NOT_MET"}
Statuses5 == {"not_attempted", "unresolved_gap", "resolved", "resolved_operator",
              "passed", "failed"}
Approvals == {"", "interactive", "declined", "cli_flag", "env_var", "blocked"}
Proofs == {"none", "gap", "plan", "derived", "answered", "edited"}

Results == [done : BOOLEAN, class : Classes,
            consistent : BOOLEAN, attempted : BOOLEAN,
            proof : {"unset", "passed", "failed"},
            live : {"unset", "passed", "failed"},
            status : Statuses5, approval : Approvals]

\* Mutant: the plan's marker is taken over as it is.
Bug_InitialProofResolution == plan.proof

InitialProofResolution ==
  CASE plan.proof = "none" -> "not_attempted"
    [] plan.proof = "gap"  -> "unresolved_gap"
    [] OTHER               -> "resolved"

DoneInit ==
  /\ plan \in {p \in Plans : Loadable(p)}
  /\ opts \in [roles : BOOLEAN, autoRepair : BOOLEAN, tty : BOOLEAN]
  /\ outcome \in {f \in [Tickets -> Outcomes] : \A t \in Tickets : f[t] \in OutcomeOf(t)}
  /\ stage = "evaluate" /\ verdict = "" /\ tries = 0
  /\ steps = plan.setup /\ proof = plan.proof /\ failing = FALSE
  /\ result = [done |-> FALSE, class |-> "", consistent |-> TRUE,
               attempted |-> FALSE, proof |-> "unset", live |-> "unset",
               status |-> "not_attempted", approval |-> ""]
  /\ summary = result /\ raised = FALSE

Goto(s) == stage' = s

\* run_result is replaced and, with Save, run-summary.json rewritten.
Becomes(r) == result' = r
Save(r) == result' = r /\ summary' = r
Keep == UNCHANGED <<result, summary>>

---------------------------------------------------------------------------
(* The verdict of the ledger and of the role passes *)

Evaluate ==
  /\ stage = "evaluate"
  /\ Save([result EXCEPT !.done = DefinitionOfDoneMet(FinalLedger),
                         !.status = InitialProofResolution])
  /\ Goto(IF opts.roles THEN "dod" ELSE "consistency")
  /\ UNCHANGED <<given, verdict, tries, steps, proof, failing, raised>>

\* The LLM's DOD_MET raises the ledger's verdict; no other answer touches it.
DodPass ==
  /\ stage = "dod"
  /\ \E v \in Classes :
       /\ verdict' = v
       /\ IF v = "MET" /\ ~result.done
          THEN Save([result EXCEPT !.done = TRUE]) ELSE Keep
  /\ Goto("guard")
  /\ UNCHANGED <<given, tries, steps, proof, failing, raised>>

\* Mutant: a ticket that never specified a verify_cmd counts as well.
Bug_GuardReasonsAll(r) == \/ \E t \in Tickets : outcome[t].verify # "passed"
                          \/ r.proof = "failed" \/ r.status = "unresolved_gap"

GuardReasons(r) ==
  \/ \E t \in Tickets : outcome[t].verify \in {"failed", "skipped"}
  \/ r.proof = "failed"
  \/ r.status = "unresolved_gap"

\* A lost or failed mechanical proof lowers the verdict, whoever gave it.
ApplyDodMechanicalGuard ==
  /\ stage = "guard"
  /\ IF GuardReasons(result) /\ (result.done \/ verdict = "MET")
     THEN Save([result EXCEPT !.done = FALSE]) /\ verdict' = "NOT_MET"
     ELSE Keep /\ UNCHANGED verdict
  /\ Goto("governance")
  /\ UNCHANGED <<given, tries, steps, proof, failing, raised>>

\* Both evaluations are recorded; whether the plan's governance was met is
\* for the report, and no step behind this one reads it.
SettleGovernance ==
  /\ Save([result EXCEPT !.class = verdict])
  /\ Goto("consistency") /\ tries' = 0

\* The token is read from the DoD answer when the plan has governance fields.
PlanGovernance ==
  /\ stage = "governance"
  /\ \/ SettleGovernance
     \/ plan.governed /\ Goto("pgRetry") /\ Keep /\ UNCHANGED tries
  /\ UNCHANGED <<given, verdict, steps, proof, failing, raised>>

\* Mutant: an answer without a token is not counted as an attempt.
Bug_RetryPg ==
  /\ stage = "pgRetry"
  /\ \/ tries < PgAttempts /\ SettleGovernance
     \/ tries < PgAttempts /\ tries' = 1 - tries /\ Keep /\ UNCHANGED stage
     \/ tries = PgAttempts /\ SettleGovernance
  /\ UNCHANGED <<given, verdict, steps, proof, failing, raised>>

\* A focused question, asked again while the call fails or has no token.
RetryPgEvaluation ==
  /\ stage = "pgRetry"
  /\ \/ tries < PgAttempts /\ SettleGovernance
     \/ tries < PgAttempts /\ tries' = tries + 1 /\ Keep /\ UNCHANGED stage
     \/ tries = PgAttempts /\ SettleGovernance
  /\ UNCHANGED <<given, verdict, steps, proof, failing, raised>>

\* Whatever a role pass raises is logged, and the pipeline goes on behind
\* all of them.
RolePassRaises ==
  /\ RoleFaults /\ stage \in {"dod", "guard", "governance"}
  /\ Goto("consistency") /\ raised' = TRUE /\ Keep
  /\ UNCHANGED <<given, verdict, tries, steps, proof, failing>>

---------------------------------------------------------------------------
(* The cross-ticket gate and the derivation of the proof *)

Conflict(r) == [r EXCEPT !.consistent = FALSE, !.done = FALSE]

\* A check that raises counts as no conflict.
CrossTicketConsistency ==
  /\ stage = "consistency"
  /\ Keep \/ Save(Conflict(result))
  /\ Goto(IF proof = "gap" THEN "derive" ELSE "approval")
  /\ UNCHANGED <<given, verdict, tries, steps, proof, failing, raised>>

\* A coder may derive the missing proof from the code, may fail to, or raise.
DerivePostExecution ==
  /\ stage = "derive"
  /\ \/ /\ proof' = "derived" /\ Goto("approval")
        /\ Becomes([result EXCEPT !.status = "resolved"])
     \/ /\ Goto("question") /\ UNCHANGED proof
        /\ Becomes([result EXCEPT !.status = "unresolved_gap"])
     \/ Goto("question") /\ UNCHANGED <<proof, result>>
  /\ UNCHANGED <<given, verdict, tries, steps, failing, summary, raised>>

\* A --proof-answer, or one targeted question on a terminal, closes the gap.
ResolveViaQuestions ==
  /\ stage = "question"
  /\ \/ /\ proof' = "answered"
        /\ Becomes([result EXCEPT !.status = "resolved_operator"])
     \/ /\ UNCHANGED proof
        /\ Becomes([result EXCEPT !.status = "unresolved_gap"])
  /\ Goto("approval")
  /\ UNCHANGED <<given, verdict, tries, steps, failing, summary, raised>>

---------------------------------------------------------------------------
(* The acceptance proof *)

NeedsApproval == proof # "none" /\ plan.setup > 0

\* Heavy setup needs the operator's yes, a flag or an environment variable.
ApproveSetup ==
  /\ stage = "approval"
  /\ \/ proof = "none" /\ Goto("done") /\ Keep
     \/ proof # "none" /\ ~NeedsApproval /\ Goto("proof") /\ Keep
     \/ /\ NeedsApproval
        /\ \E a \in IF opts.tty THEN {"interactive", "declined"}
                    ELSE {"cli_flag", "env_var", "blocked"} :
             /\ Save([result EXCEPT !.approval = a])
             /\ Goto(IF a \in {"declined", "blocked"} THEN "refused" ELSE "setup")
  /\ UNCHANGED <<given, verdict, tries, steps, proof, failing, raised>>

\* Mutant: a proof that could not be run leaves the verdict alone.
Bug_ProofFailure(r, ran) ==
  [r EXCEPT !.proof = "failed", !.attempted = ran, !.status = "failed",
            !.done = @ /\ ~ran]

\* _record_proof_failure: blocking even when the proof itself never ran.
ProofFailure(r, ran) ==
  [r EXCEPT !.proof = "failed", !.attempted = ran, !.status = "failed",
            !.done = FALSE]

\* _record_proof_pass: the verdict itself is not touched.
ProofPass(r) == [r EXCEPT !.proof = "passed", !.attempted = TRUE,
                          !.status = "passed"]

\* The refusal is recorded in the result only; the summary was written
\* before it.
RecordRefusal ==
  /\ stage = "refused"
  /\ Becomes(ProofFailure(result, FALSE))
  /\ Goto("done")
  /\ UNCHANGED <<given, verdict, tries, steps, proof, failing, summary, raised>>

RunSetupStep ==
  /\ stage = "setup"
  /\ \/ /\ steps > 1 /\ steps' = steps - 1 /\ Keep /\ UNCHANGED stage
     \/ /\ steps = 1 /\ steps' = 0 /\ Keep /\ Goto("proof")
     \/ /\ Save(ProofFailure(result, FALSE))
        /\ Goto("done") /\ UNCHANGED steps
  /\ UNCHANGED <<given, verdict, tries, proof, failing, raised>>

\* A gap marker is a command that exits with an error.
CanPass(p) == p # "gap"

RunProof ==
  /\ stage = "proof"
  /\ \/ CanPass(proof) /\ failing' = FALSE /\ Goto("record")
     \/ /\ failing' = TRUE
        /\ Goto(IF plan.legacy THEN "record"
                ELSE IF opts.tty THEN "negotiate" ELSE "autoRepair")
  /\ UNCHANGED <<given, verdict, tries, steps, proof, result, summary, raised>>

\* The negotiation ends with command p; a new one changes the provenance.
LeaveNegotiation(p, new, fails) ==
  /\ proof' = p /\ failing' = fails /\ tries' = 0
  /\ Becomes(IF ~new THEN result
             ELSE [result EXCEPT !.status = IF p = "edited" THEN "resolved_operator"
                                            ELSE "resolved"])
  /\ Goto(IF fails THEN "autoRepair" ELSE "record")

\* The operator's menu: accept, let the coder derive another proof, or edit
\* it.  A retry counts whether or not it produced a new command.
NegotiateProofRetry ==
  /\ stage = "negotiate"
  /\ \/ LeaveNegotiation(proof, FALSE, TRUE)
     \/ \E p \in {"derived", "edited"}, fails \in BOOLEAN :
          /\ tries < ProofRetries
          /\ IF fails /\ tries + 1 < ProofRetries
             THEN /\ proof' = p /\ tries' = tries + 1
                  /\ Becomes([result EXCEPT !.status =
                       IF p = "edited" THEN "resolved_operator" ELSE "resolved"])
                  /\ UNCHANGED <<failing, stage>>
             ELSE LeaveNegotiation(p, TRUE, fails)
     \/ /\ tries < ProofRetries
        /\ tries' = tries + 1 /\ UNCHANGED <<proof, failing, stage, result>>
  /\ UNCHANGED <<given, verdict, steps, summary, raised>>

\* With auto_repair a gap gets one more derivation, run once.
AutoRepairProofGap ==
  /\ stage = "autoRepair"
  /\ \/ UNCHANGED <<proof, failing, result>>
     \/ /\ opts.autoRepair /\ proof = "gap" /\ proof' = "derived"
        /\ \/ failing' = TRUE /\ UNCHANGED result
           \/ failing' = FALSE /\ Becomes([result EXCEPT !.status = "resolved"])
  /\ Goto("record")
  /\ UNCHANGED <<given, verdict, tries, steps, summary, raised>>

\* A failure is written out at once; a pass stays in the returned result.
RecordProof ==
  /\ stage = "record"
  /\ IF failing THEN Save(ProofFailure(result, TRUE))
     ELSE Becomes(ProofPass(result)) /\ UNCHANGED summary
  /\ Goto("live")
  /\ UNCHANGED <<given, verdict, tries, steps, proof, failing, raised>>

\* A plan with external dependencies may declare a live proof.  With
\* LIVE_PROOF=1 it runs too, and never blocks.
RunLiveProof ==
  /\ stage = "live"
  /\ \/ UNCHANGED result
     \/ /\ ~plan.legacy
        /\ \E v \in {"passed", "failed"} : Becomes([result EXCEPT !.live = v])
  /\ Goto("done")
  /\ UNCHANGED <<given, verdict, tries, steps, proof, failing, summary, raised>>

DoneNext == \/ Evaluate \/ DodPass \/ ApplyDodMechanicalGuard \/ PlanGovernance
            \/ RetryPgEvaluation \/ RolePassRaises \/ CrossTicketConsistency
            \/ DerivePostExecution \/ ResolveViaQuestions \/ ApproveSetup
            \/ RecordRefusal \/ RunSetupStep \/ RunProof \/ NegotiateProofRetry
            \/ AutoRepairProofGap \/ RecordProof \/ RunLiveProof

DoneSpec == DoneInit /\ [][DoneNext]_doneVars

\* Every call is bounded by a timeout, and the operator answers in the end.
FairSpec == DoneSpec /\ WF_doneVars(DoneNext)

---------------------------------------------------------------------------
(* Properties *)

\* The variables have their types.
DoneTypeOK ==
  /\ plan \in Plans
  /\ opts \in [roles : BOOLEAN, autoRepair : BOOLEAN, tty : BOOLEAN]
  /\ outcome \in [Tickets -> Outcomes]
  /\ stage \in {"evaluate", "dod", "guard", "governance", "pgRetry",
                "consistency", "derive", "question", "approval", "refused",
                "setup", "proof", "negotiate", "autoRepair", "record", "live",
                "done"}
  /\ verdict \in Classes /\ proof \in Proofs
  /\ tries \in 0..(PgAttempts + ProofRetries) /\ steps \in 0..MaxSetup
  /\ failing \in BOOLEAN /\ raised \in BOOLEAN
  /\ result \in Results /\ summary \in Results

Finished == stage = "done"

Refused(r) == r.approval \in {"declined", "blocked"}

\* run-summary.json agrees with the returned verdict, or says itself that the
\* setup was not approved: that refusal is the one verdict not written to it.
SummaryKeepsVerdict ==
  summary.done = result.done \/ Refused(summary)

\* A run whose result is reported done has no conflicting defaults, and the
\* proof its plan declares was run and passed: not merely resolved, refused, or
\* abandoned in its setup; and its recorded provenance ends on what became of
\* it (Phase 7).  Unless a role pass raised, no LLM verdict carries a ticket
\* whose verify_cmd failed or was lost to a run reported done (Fix 39 and Fix
\* 72b).  The same of run-summary.json where its own approval is not a
\* refusal.  After a refused setup the file may go on saying done although the
\* proof never ran (Fix 52.b); then it names the refusal, and only the result
\* is not done.
DoneIsProved ==
  Finished =>
    /\ result.done => /\ result.consistent
                      /\ plan.proof # "none" => result.proof = "passed"
    /\ plan.proof # "none" => result.proof # "unset" /\ result.status = result.proof
    /\ opts.roles /\ ~raised /\ result.done =>
         \A t \in Tickets : outcome[t].verify \in {"passed", "unspecified"}
    /\ SummaryKeepsVerdict
    /\ Refused(summary) => ~result.done

\* The gates never block without cause: where the ledger or the LLM claims
\* done and the plan came with its proof, only a lost verify_cmd, a conflict
\* or a failed proof can keep the run from being reported done.  The ledger's
\* claim is the one the code computes, double records included: a run whose
\* tickets were all committed does not have it, and then the LLM's has to do.
NoGateWithoutCause ==
  Finished /\ ~result.done /\ plan.proof # "gap" =>
    \/ ~DefinitionOfDoneMet(FinalLedger) /\ result.class # "MET"
    \/ opts.roles /\ \E t \in Tickets : outcome[t].verify \in {"failed", "skipped"}
    \/ ~result.consistent \/ result.proof = "failed"

\* The pipeline ends.
Ends == <>Finished
=============================================================================
