-------------------------- MODULE OversightEvidence --------------------------
(***************************************************************************)
(* Documents about what a person oversaw: that what was shown to an        *)
(* approver is what the gate evaluated, the approval receipt built on it,  *)
(* and what was still permitted after a mandate was revoked.               *)
(***************************************************************************)
EXTENDS PackMembers

-----------------------------------------------------------------------------
(* What was shown and what was evaluated *)

HITL_BINDING_RESULTS == {"MATCH", "DIVERGENCE"}

\* stableStringify(preimage ?? {})
computeHitlPreimageDigest(preimage) == <<Default(preimage, "{}")>>

BindingResult(shown, evaluated) == IF shown = evaluated THEN "MATCH" ELSE "DIVERGENCE"

computeHitlBindingDigestFromFields(doc) ==
    Only(doc, {"session_id", "approval_request_id", "human_visible_digest",
               "gate_evaluation_digest", "binding_result"})

buildHitlPreimageBindingDocument(input) ==
    LET shown == computeHitlPreimageDigest(input.human_visible_preimage)
        evaluated == computeHitlPreimageDigest(input.gate_evaluation_preimage)
    IN Seal(computeHitlBindingDigestFromFields(
              Only(input, {"session_id", "approval_request_id"}) @@
              [human_visible_digest |-> shown, gate_evaluation_digest |-> evaluated,
               binding_result |-> BindingResult(shown, evaluated)]), "binding_digest")

bindingMatch(doc) == doc.human_visible_digest = doc.gate_evaluation_digest

verifyHitlPreimageBindingBundle(doc, requireMatch) ==
    /\ Present(doc, {"session_id", "human_visible_digest", "gate_evaluation_digest"})
    /\ doc.binding_result \in HITL_BINDING_RESULTS
    /\ doc.binding_result = BindingResult(doc.human_visible_digest, doc.gate_evaluation_digest)
    /\ doc.binding_digest = computeHitlBindingDigestFromFields(doc)
    /\ requireMatch => bindingMatch(doc)

-----------------------------------------------------------------------------
(* The receipt of an approval *)

HITL_APPROVAL_DECISIONS == {"APPROVE", "DENY"}
HITL_APPROVAL_CHANNELS == {"slack", "teams", "dashboard", "api"}

deriveApprovalReadiness(match, content, witnessed, normalized, linked) ==
    CASE ~(match /\ content /\ witnessed /\ normalized) -> "unverified"
      [] match /\ content /\ witnessed /\ normalized /\ ~linked -> "partial"
      [] match /\ content /\ witnessed /\ normalized /\ linked -> "asi09_ready"

buildApprovalAssertionsBlock(thirdParty, match, content, normalized, linked) ==
    [third_party_verifiable |-> thirdParty,
     preimage_binding_match |-> match,
     content_bound |-> content /\ match,
     approval_readiness |-> deriveApprovalReadiness(match, content, thirdParty, normalized, linked)]

AssertionFlags == {"third_party_verifiable", "preimage_binding_match", "content_bound"}

\* A part that is missing is read as one without fields.
Block(x, names) == IF x = NULL THEN [f \in names |-> NULL] ELSE x

ChainBindingFields ==
    {"session_id", "required_entry_hash", "release_entry_hash", "content_digest", "normalization_bound"}

buildHitlApprovalReceiptPreimage(input) ==
    [Without(input, {"approval_digest"}) EXCEPT
       !.session_chain_binding = Flags(@, {"normalization_bound"}),
       !.approval_assertions = Flags(@, AssertionFlags)]

chainLinked(binding) == Present(binding, {"required_entry_hash", "release_entry_hash"})

buildHitlApprovalReceiptDocument(input) ==
    LET member == input.hitl_preimage_binding
        binding == input.session_chain_binding
    IN Seal(buildHitlApprovalReceiptPreimage(
              [input EXCEPT !.approval_assertions =
                 buildApprovalAssertionsBlock(
                   @.third_party_verifiable = TRUE, member.binding_result = "MATCH",
                   input.content_digest = member.gate_evaluation_digest,
                   binding.normalization_bound = TRUE, chainLinked(binding))]), "approval_digest")

\* approval_readiness is compared with itself; what it says is held against the
\* parts it rests on.
verifyHitlApprovalReceipt(doc, requireMatch, requireChainLink) ==
    LET member == doc.hitl_preimage_binding
        binding == Block(doc.session_chain_binding, ChainBindingFields)
        said == Block(doc.approval_assertions, AssertionFlags \cup {"approval_readiness"})
        ready == said.approval_readiness
    IN /\ Present(doc, {"organization_id", "session_id", "approval_request_id", "approved_at",
                        "generated_at", "tool_name", "content_digest", "approver_identity_digest"})
       /\ doc.decision \in HITL_APPROVAL_DECISIONS
       /\ doc.channel \in HITL_APPROVAL_CHANNELS
       /\ member # NULL /\ verifyHitlPreimageBindingBundle(member, requireMatch)
       /\ doc.content_digest = member.gate_evaluation_digest
       /\ binding.session_id = doc.session_id /\ binding.content_digest = doc.content_digest
       /\ binding.normalization_bound = TRUE
       /\ doc.approval_digest = buildHitlApprovalReceiptPreimage(doc)
       /\ said.third_party_verifiable = TRUE
       /\ ready \in {"asi09_ready", "partial"} =>
            /\ said.preimage_binding_match = TRUE /\ said.content_bound = TRUE
            /\ bindingMatch(member)
       /\ ready = "asi09_ready" \/ requireChainLink => chainLinked(binding)

-----------------------------------------------------------------------------
(* What was permitted after a revocation *)

REVOCATION_HORIZON_ATTESTATIONS == {"WITHIN_SLA", "VIOLATION"}

\* Mutant: an attestation is left out where nothing was permitted at all.
MutantRevocationAttestation(input) ==
    LET revoked == input.revoke_signal_timestamp_ms
        last == input.last_permitted_action_timestamp_ms
        observed == input.horizon_ms_observed
    IN IF last = NULL THEN NULL
       ELSE IF NULL \notin {revoked, observed} /\ last > revoked /\ last - revoked <= observed
            THEN "VIOLATION" ELSE "WITHIN_SLA"

\* Mutant: an action of the moment of the revocation counts as one after it.
MutantLateAction(input) ==
    LET revoked == input.revoke_signal_timestamp_ms
        last == input.last_permitted_action_timestamp_ms
        observed == input.horizon_ms_observed
    IN IF NULL \notin {revoked, last, observed} /\ last >= revoked /\ last - revoked <= observed
       THEN "VIOLATION" ELSE "WITHIN_SLA"

\* Only the last permitted action is looked at, and only within the window that
\* was observed.
RevocationAttestation(input) ==
    LET revoked == input.revoke_signal_timestamp_ms
        last == input.last_permitted_action_timestamp_ms
        observed == input.horizon_ms_observed
    IN IF NULL \notin {revoked, last, observed} /\ last > revoked /\ last - revoked <= observed
       THEN "VIOLATION" ELSE "WITHIN_SLA"

HorizonFields ==
    {"session_id", "revoke_signal_entry_hash", "last_permitted_action_entry_hash", "horizon_ms",
     "horizon_ms_observed", "revoke_signal_timestamp_ms", "last_permitted_action_timestamp_ms"}

\* Mutant: an action at the very end of the window is not in it.
MutantEvaluateRevocationHorizon(input) ==
    LET revoked == input.revoke_signal_timestamp_ms
        last == input.last_permitted_action_timestamp_ms
        observed == input.horizon_ms_observed
        attestation == IF /\ NULL \notin {revoked, last, observed}
                          /\ last > revoked /\ last - revoked < observed
                       THEN "VIOLATION" ELSE "WITHIN_SLA"
    IN [attestation |-> attestation,
        horizon_digest |-> Spread(Only(input, HorizonFields), [attestation |-> attestation])]

evaluateRevocationHorizon(input) ==
    LET attestation == RevocationAttestation(input)
    IN [attestation |-> attestation,
        horizon_digest |-> Spread(Only(input, HorizonFields), [attestation |-> attestation])]

buildRevocationHorizonDocument(input) ==
    [f \in HorizonFields \cup {"attestation", "horizon_digest"} |->
       IF f \in HorizonFields THEN input[f] ELSE evaluateRevocationHorizon(input)[f]]

verifyRevocationHorizonBundle(doc, requireWithinSla) ==
    LET evaluated == evaluateRevocationHorizon(doc)
    IN /\ Present(doc, {"session_id", "revoke_signal_entry_hash", "horizon_ms", "horizon_ms_observed"})
       /\ doc.horizon_ms > 0 /\ doc.horizon_ms_observed >= 0
       /\ doc.attestation \in REVOCATION_HORIZON_ATTESTATIONS
       /\ doc.attestation = evaluated.attestation
       /\ doc.horizon_digest = evaluated.horizon_digest
       /\ requireWithinSla => evaluated.attestation = "WITHIN_SLA"
=============================================================================
