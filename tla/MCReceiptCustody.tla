-------------------------- MODULE MCReceiptCustody --------------------------
(* Three capture contexts: enforced and cosigned, audit only, and an awaited
   witness left on the default persistence, whose derived disclosure does not
   verify.  The two paths differ in their steps only.  Both intents are
   aligned with the first action and neither with the second. *)
EXTENDS ReceiptCustody

Context(level, awaited, persistence) ==
    [ policy_enforcement_level |-> level, pep_receipt_before_action_enabled |-> TRUE,
      pep_invariant |-> NULL, witness_cosign_enabled |-> awaited,
      witness_awaited |-> awaited, witness_persistence |-> persistence,
      external_transparency |-> NULL, capture_timing |-> NULL ]

Released ==
    [PermittedRelease EXCEPT
       !.outcome = "released_after_hitl", !.human_release_actor = "treasurer",
       !.hitl_required = TRUE, !.hitl_status = "signed", !.release_consumed = TRUE,
       !.effect_class = "financial_void", !.approval_request_id = "approval-1"]

MCReleases == {PermittedRelease, Released}

MCContexts == { Context("enforce", TRUE, "postgres"), Context("audit_only", FALSE, NULL),
                Context("enforce", TRUE, NULL) }

Path(steps) ==
    LET body == [ session_id |-> "session-1", step_index |-> 0, partial_steps |-> steps,
                  capability_budget |-> NULL, permit_execution |-> NULL ]
    IN [ session_id |-> "session-1", step_index |-> 0, partial_steps |-> steps,
         capability_budget |-> NULL, permit_execution |-> NULL,
         partial_path_hash |-> body ]

Step(entry) == [entry_hash |-> entry, step_index |-> NULL]

MCSealedPath == Path(<<Step("entry-1")>>)
MCOtherPath == Path(<<Step("entry-2")>>)

MCAlignmentLevel(intent, args) == IF args = "args-1" THEN "aligned" ELSE "misaligned"
=============================================================================
