----------------------------- MODULE MCCapExport -----------------------------
(* Up to two hops.  A kind of hop is enforced or audit only, discloses it
   under its digest, beside it or not at all, and records its mode in the
   partial path or not.  A recorder keeps no path, a window of one step with
   entry hashes or absolute indices, or the whole session by position. *)
EXTENDS CapExport

Context(level) ==
    [ policy_enforcement_level |-> level, pep_receipt_before_action_enabled |-> TRUE,
      pep_invariant |-> NULL, witness_cosign_enabled |-> FALSE,
      witness_awaited |-> FALSE, witness_persistence |-> NULL,
      external_transparency |-> NULL, capture_timing |-> NULL ]

Kind(level, disclosure, recorded) ==
    [context |-> Context(level), disclosure |-> disclosure, recorded |-> recorded]

MCHopKinds == { Kind("enforce", "bound", TRUE), Kind("audit_only", "bound", FALSE),
                Kind("audit_only", "unbound", TRUE), Kind("enforce", "none", FALSE) }

Recorder(window, absolute, hashes) ==
    [window |-> window, absolute |-> absolute, hashes |-> hashes]

MCRecorders == { Recorder(0, FALSE, FALSE), Recorder(1, FALSE, TRUE),
                 Recorder(1, TRUE, FALSE), Recorder(2, FALSE, FALSE) }

\* A window of one step that names neither its hop nor its entry.
MCRelativeRecorders == { Recorder(1, FALSE, FALSE) }

\* Paths whose steps name their absolute index.
MCAbsoluteRecorders == { Recorder(1, TRUE, FALSE), Recorder(2, TRUE, TRUE) }

VerifyOption(members, constraint) ==
    [ requireMemberReceipts |-> members, requirePolicyProof |-> FALSE,
      requireConstraintClosure |-> constraint, requirePartialPathAlignment |-> TRUE,
      issuerPublicKey |-> TRUE, skipIntegritySignatureWithoutKey |-> FALSE ]

MCOptions == { VerifyOption(FALSE, FALSE) }
MCConstraintOptions == { VerifyOption(TRUE, TRUE) }

MCNoClosure == {NULL}
MCConstraintClosures ==
    { [session_id |-> "session-1", recomposition_result |-> r] : r \in {"PASS", "FAIL"} }

MCTool == {"read_file"}
MCNone == {}

\* No hop states an intent.
MCAlignmentLevel(intent, args) == "aligned"
==============================================================================
