-------------------------- MODULE ConductEvidence ---------------------------
(***************************************************************************)
(* Documents about what agents did: the conduct manifest of a session, the *)
(* flight recorder, receipts imported from AGT and bound to AP2 mandates,  *)
(* the behavioural SBOM, the declared and the observed agents, the tool    *)
(* manifest and memory bound to a receipt, and the MCP attestation bind.   *)
(* A builder is given every field it copies; what it derives is computed.  *)
(***************************************************************************)
EXTENDS EvidenceDocument

-----------------------------------------------------------------------------
(* Traceable conduct manifest *)

buildTraceableConductManifestDocument(input) == Seal(input, "manifest_digest")

verifyTraceableConductManifest(doc) ==
    /\ Present(doc, {"organization_id", "session_id"})
    /\ Items(doc.material_entry_hashes) # {}
    /\ Sealed(doc, "manifest_digest")

-----------------------------------------------------------------------------
(* Flight recorder *)

FLIGHT_RECORDER_EXPORT_PROFILES == {"hash_only", "metadata_only"}

receiptProfileToCategory(profile) ==
    CASE profile = "DENIED" -> "refusal"
      [] profile \in {"HITL_RELEASED", "HITL_PENDING"} -> "human_oversight"
      [] profile = "PERMITTED" -> "agent_action"
      [] profile = "GOVERNANCE" -> "governance"
      [] OTHER -> "policy_decision"

\* Without a session of its own a receipt is put in the exported one.
buildFlightRecorderEventFromReceipt(receipt, sequence, sessionId) ==
    LET profile == Default(receipt.receipt_profile, "PERMITTED") IN
    [sequence |-> sequence, entry_hash |-> receipt.entry_hash, receipt_profile |-> profile,
     event_category |-> receiptProfileToCategory(profile),
     action |-> Default(receipt.tool_name, profile),
     authorization_decision |-> Default(receipt.decision, profile),
     session_binding |-> Default(receipt.session_id, sessionId)]

\* normalizeEvents sorts by sequence: the digest does not see the order.
buildFlightRecorderExportPreimage(input) ==
    [Without(input, {"crosswalk_gaps"}) EXCEPT
       !.export_profile = Default(@, "hash_only"),
       !.events = {@[k] : k \in DOMAIN @}]
    @@ [crosswalk_gaps |-> Items(input.crosswalk_gaps)]

buildFlightRecorderExportDocument(input) ==
    [input EXCEPT !.export_profile = Default(@, "hash_only")]
    @@ [event_count |-> Len(input.events),
        export_digest |-> buildFlightRecorderExportPreimage(input)]

verifyEventsIso24970(events, sessionId) ==
    /\ events # <<>>
    /\ \A k \in DOMAIN events :
         /\ events[k].sequence = k
         /\ Present(events[k], {"entry_hash", "event_category", "action",
                                "authorization_decision"})
         /\ events[k].session_binding = sessionId

\* The count is computed again and not compared.
verifyFlightRecorderExport(doc) ==
    LET events == List(doc.events) IN
    /\ Present(doc, {"organization_id", "session_id", "quarterly_review_hook"})
    /\ Default(doc.export_profile, "hash_only") \in FLIGHT_RECORDER_EXPORT_PROFILES
    /\ verifyEventsIso24970(events, doc.session_id)
    /\ doc.export_digest =
         buildFlightRecorderExportPreimage(
           [Without(doc, {"event_count", "export_digest"}) EXCEPT !.events = events])

-----------------------------------------------------------------------------
(* AGT audit entries *)

AgtSourceSchemas == {"mcp-gateway", "agent365", "agt-offline"}

normalizeAgtToAp2Conduct(audit) ==
    [coverage |-> "mandate_correlation_only",
     tool_hop_digests |-> <<Only(audit, {"agent_id", "tool_name", "allowed", "mcp_server"})>>,
     policy_digest |-> audit.policy_reference]

buildNormalizedAp2ConductDigest(audit) ==
    [correlation_id |-> audit.correlation_id, conduct |-> normalizeAgtToAp2Conduct(audit)]

buildAgtConductReceiptDocument(input) ==
    Seal(input @@ [normalized_ap2_conduct_digest |->
                     buildNormalizedAp2ConductDigest(input.agt_audit)],
         "receipt_digest")

verifyAgtConductReceipt(doc) ==
    /\ Present(doc, {"organization_id", "session_id", "agt_audit"})
    /\ doc.source_schema \in AgtSourceSchemas
    /\ Present(doc.agt_audit, {"correlation_id", "agent_id", "tool_name"})
    /\ doc.normalized_ap2_conduct_digest = buildNormalizedAp2ConductDigest(doc.agt_audit)
    /\ Sealed(doc, "receipt_digest")

-----------------------------------------------------------------------------
(* AP2 conduct receipts and the threats they answer in a dispute *)

AP2_DISPUTE_THREAT_IDS ==
    {"T-39", "T-40", "T-41", "T-42", "T-43", "T-44", "T-45", "T-46", "T-47"}

Grade(mitigated, partial) ==
    CASE mitigated -> "mitigated" [] ~mitigated /\ partial -> "partial" [] OTHER -> "unmitigated"

\* c: a document's conduct, mandate_refs, receipt_entry_hashes, profile.
evaluateAp2DisputeThreats(c) ==
    LET hops == c.conduct.tool_hop_digests
        full == c.conduct.coverage = "full_conduct" /\ hops # <<>>
        correlated == At(c.mandate_refs, "correlation_id") # NULL
        receipts == Items(c.receipt_entry_hashes) # {}
        bound(f) == c.conduct[f] # NULL
        mandates == correlated /\ Present(c.mandate_refs, {"intent", "cart", "payment"})
    IN [t \in AP2_DISPUTE_THREAT_IDS |->
          CASE t = "T-39" -> Grade(full, correlated)
            [] t = "T-40" -> Grade(receipts /\ c.liability_receipt_profile # NULL, receipts)
            [] t = "T-41" -> Grade(full /\ bound("model_ref_digest"), full)
            [] t = "T-42" -> Grade(mandates, correlated)
            [] t = "T-43" -> Grade(correlated /\ full, correlated)
            [] t = "T-44" -> Grade(FALSE, receipts)
            [] t \in {"T-45", "T-47"} -> Grade(full /\ bound("policy_digest"), full)
            [] t = "T-46" -> Grade(bound("hitl_approval_digest"), TRUE)]

deriveDisputeReadiness(rows) ==
    CASE \A t \in {"T-39", "T-40", "T-41"} : rows[t] = "mitigated" -> "complete"
      [] \E t \in AP2_DISPUTE_THREAT_IDS : rows[t] = "mitigated" -> "partial"
      [] OTHER -> "mandate_only"

buildAp2DisputeEvidenceBlock(c) ==
    LET rows == evaluateAp2DisputeThreats(c)
    IN [threat_evaluation |-> rows, dispute_readiness |-> deriveDisputeReadiness(rows)]

buildAp2ConductReceiptDocument(input) ==
    Seal(Without(input, {"disputed"})
           @@ [dispute_evidence |->
                 IF input.disputed THEN buildAp2DisputeEvidenceBlock(input) ELSE NULL],
         "conduct_digest")

\* A coverage the schema does not know is read as the weaker one (parseConduct).
parseConduct(conduct) ==
    [conduct EXCEPT !.coverage = IF @ = "full_conduct" THEN @ ELSE "mandate_correlation_only"]

verifyAp2ConductReceipt(doc) ==
    /\ Present(doc, {"session_id", "organization_id", "conduct", "mandate_refs"})
    /\ doc.mandate_refs.correlation_id # NULL
    /\ doc.conduct_digest =
         [Without(doc, {"conduct_digest"}) EXCEPT !.conduct = parseConduct(@)]
    /\ doc.conduct.coverage = "full_conduct" => doc.conduct.tool_hop_digests # <<>>
    /\ doc.dispute_evidence # NULL =>
         LET block == buildAp2DisputeEvidenceBlock(doc) IN
         /\ doc.dispute_evidence.threat_evaluation = block.threat_evaluation
         /\ doc.dispute_evidence.dispute_readiness = block.dispute_readiness

-----------------------------------------------------------------------------
(* Behavioural SBOM: agents with receipts, enrolled or configured *)

BEHAVIORAL_GAP_CLASSES ==
    {"receipted_enrolled", "receipted_not_enrolled", "discovered_not_enrolled",
     "configured_not_receipted"}

\* Mutant: an agent of any status passes as enrolled.
MutantClassifyBehavioralAgentGap(agent) ==
    CASE agent.configured /\ agent.receipt_count = 0 -> "configured_not_receipted"
      [] agent.receipt_count > 0 -> "receipted_enrolled"
      [] OTHER -> NULL

classifyBehavioralAgentGap(agent) ==
    LET receipted == agent.receipt_count > 0 IN
    CASE agent.configured /\ ~receipted -> "configured_not_receipted"
      [] receipted /\ agent.registry_status = "enrolled" -> "receipted_enrolled"
      [] receipted /\ agent.registry_status = "discovered" -> "discovered_not_enrolled"
      [] receipted /\ agent.registry_status \notin {"enrolled", "discovered"} -> "receipted_not_enrolled"
      [] OTHER -> NULL

\* A configured agent without a row of its own gets one with no receipts.
mergeConfiguredSlice(agents, configured) ==
    {[a EXCEPT !.configured = @ \/ a.agent_id \in configured] : a \in agents}
      \cup {[agent_id |-> c, registry_status |-> NULL, receipt_count |-> 0, configured |-> TRUE] :
              c \in configured \ {a.agent_id : a \in agents}}

evaluateBehavioralSbom(input) ==
    LET agents == mergeConfiguredSlice(Items(input.behavioral_agents), Items(input.configured_agents))
        gap(class) == {a.agent_id : a \in {b \in agents : classifyBehavioralAgentGap(b) = class}}
        summary == [c \in BEHAVIORAL_GAP_CLASSES |-> Cardinality(gap(c))]
        gaps == UNION {{[agent_id |-> a, gap_class |-> c] : a \in gap(c)} :
                         c \in BEHAVIORAL_GAP_CLASSES \ {"receipted_enrolled"}}
        root == [organization_id |-> input.organization_id, ids |-> {a.agent_id : a \in agents}]
    IN [behavioral_agents |-> agents, gap_summary |-> summary, agents_with_gaps |-> gaps,
        sbom_root |-> root,
        sbom_digest |-> [organization_id |-> input.organization_id, generated_at |-> input.generated_at,
                         gap_summary |-> summary, agents_with_gaps |-> gaps, sbom_root |-> root]]

buildBehavioralSbomDocument(input) == evaluateBehavioralSbom(input) @@ input

\* Gaps, root and digest are computed again from the agents listed.
verifyBehavioralSbomBundle(doc, requireNoGaps) ==
    /\ doc.organization_id # NULL
    /\ LET evaluated == evaluateBehavioralSbom(doc) IN
       /\ \A f \in {"gap_summary", "agents_with_gaps", "sbom_root", "sbom_digest"} :
            doc[f] = evaluated[f]
       /\ requireNoGaps => evaluated.agents_with_gaps = {}

-----------------------------------------------------------------------------
(* Declared and observed agents of a period *)

AgentStatuses == {"enrolled", "discovered", "blocked", "deprecated"}

\* The digest of an agent's id is computed again, whatever the row says.
WithIdDigests(rows) == {(("agent_id_digest" :> r.agent_id) @@ r) : r \in rows}

buildDeclaredAgentRosterPreimage(input) ==
    [input EXCEPT !.agents = WithIdDigests(@)] @@ [declared_count |-> Cardinality(input.agents)]

buildDeclaredAgentRosterDocument(input) ==
    Seal(buildDeclaredAgentRosterPreimage(input), "roster_digest")

verifyDeclaredAgentRoster(doc) ==
    /\ Present(doc, {"organization_id", "period_label"})
    /\ Items(doc.agents) # {}
    /\ \A a \in doc.agents : Present(a, {"agent_id", "agent_id_digest"}) /\ a.status \in AgentStatuses
    /\ doc.roster_digest =
         buildDeclaredAgentRosterPreimage(Without(doc, {"roster_digest", "declared_count"}))

buildObservedAgentConductSetPreimage(input) ==
    [input EXCEPT !.observed_agents = WithIdDigests(@)]
    @@ [observed_count |-> Cardinality(input.observed_agents)]

buildObservedAgentConductSetDocument(input) ==
    Seal(buildObservedAgentConductSetPreimage(input), "observed_set_digest")

verifyObservedAgentConductSet(doc) ==
    /\ Present(doc, {"organization_id", "period_label", "observation_window"})
    /\ Present(doc.observation_window, {"start", "end"})
    /\ Items(doc.observed_agents) # {}
    /\ \A a \in doc.observed_agents : Present(a, {"agent_id", "agent_id_digest"})
    /\ doc.observed_set_digest =
         buildObservedAgentConductSetPreimage(
           Without(doc, {"observed_set_digest", "observed_count"}))

-----------------------------------------------------------------------------
(* Tool manifest and memory bound to a receipt: a digest or why there is none *)

Bound(input, whenPresent, whenAbsent) ==
    IF input.present = TRUE
    THEN Spread(Only(input, whenPresent), [present |-> TRUE])
    ELSE Spread(Only(input, whenAbsent), [present |-> FALSE])

ToolManifestPresent ==
    {"manifest_fingerprint", "tool_composite_hash", "mcp_server_id", "tool_name",
     "captured_at", "session_id"}
ToolManifestAbsent == {"absent_reason", "mcp_server_id", "tool_name", "session_id"}

buildToolManifestFingerprintPreimage(input) ==
    Bound([input EXCEPT !.absent_reason = Default(@, "manifest_unpinned")],
          ToolManifestPresent, ToolManifestAbsent)

buildToolManifestFingerprintDocument(input) ==
    [f \in DOMAIN input |-> At(buildToolManifestFingerprintPreimage(input) @@ [g \in DOMAIN input |-> NULL], f)]
    @@ [bind_digest |-> buildToolManifestFingerprintPreimage(input)]

verifyToolManifestFingerprint(doc) ==
    /\ doc.bind_digest = buildToolManifestFingerprintPreimage(Without(doc, {"bind_digest"}))
    /\ IF doc.present = TRUE THEN Present(doc, {"manifest_fingerprint", "tool_composite_hash"})
       ELSE doc.absent_reason # NULL

computeMemoryRootFromContentHashes(contentHashes) == {h \in contentHashes : h # NULL}

MemoryPresent ==
    {"memory_root_hash", "vector_store_id", "commitment_kind", "captured_at", "session_id",
     "tool_name", "entry_count"}
MemoryAbsent == {"absent_reason", "session_id", "tool_name"}

buildMemoryCommitmentPreimage(input) ==
    Bound([input EXCEPT !.absent_reason = Default(@, "no_episodic_store_bound"),
                        !.commitment_kind = Default(@, "episodic_store")],
          MemoryPresent, MemoryAbsent)

buildMemoryCommitmentDocument(input) ==
    [f \in DOMAIN input |-> At(buildMemoryCommitmentPreimage(input) @@ [g \in DOMAIN input |-> NULL], f)]
    @@ [commitment_digest |-> buildMemoryCommitmentPreimage(input)]

verifyMemoryCommitment(doc) ==
    /\ doc.commitment_digest = buildMemoryCommitmentPreimage(Without(doc, {"commitment_digest"}))
    /\ IF doc.present = TRUE THEN doc.memory_root_hash # NULL ELSE doc.absent_reason # NULL

-----------------------------------------------------------------------------
(* MCP tool call attestation, decision and outcome, bound together *)

buildSepToolCallAttestation(call, secret) == Seal(call, "signature") @@ [key |-> secret]

verifySepAttestationSignature(wire, secret) ==
    wire.key = secret /\ wire.signature = Without(wire, {"signature", "key"})

buildSepDecisionRecord(attestation, decision) ==
    Seal(decision @@ [attestation_digest |-> attestation], "record_digest")

buildSepOutcomeRecord(attestation, decision, outcome) ==
    Seal(outcome @@ [attestation_digest |-> attestation, backLink |-> decision.record_digest],
         "record_digest")

recomputeSepRecordDigest(record) == Without(record, {"record_digest"})

verifySepInstanceBinding(attestation, decision, outcome) ==
    decision.attestation_digest = attestation /\ outcome.attestation_digest = attestation

verifySepBackLink(decision, outcome) == outcome.backLink = decision.record_digest

deriveAttestationReadiness(instance, backLink, signature, digests) ==
    CASE instance /\ backLink /\ signature /\ digests -> "governed_proxy_ready"
      [] instance /\ backLink /\ ~signature /\ digests -> "partial"
      [] OTHER -> "unverified"

\* wire and wire_bytes are two fields of the artifacts; the digest is of the bytes.
buildMcpSepAttestationBindDocument(input, secret) ==
    LET a == input.sep_artifacts
        digests == [attestation_digest |-> a.wire_bytes,
                    decision_record_digest |-> a.decision.record_digest,
                    outcome_record_digest |-> a.outcome.record_digest]
        instance == verifySepInstanceBinding(a.wire_bytes, a.decision, a.outcome)
        backLink == verifySepBackLink(a.decision, a.outcome)
        signature == secret # NULL /\ verifySepAttestationSignature(a.wire, secret)
        consistent == \A r \in {a.decision, a.outcome} :
                        recomputeSepRecordDigest(r) = r.record_digest
    IN Seal(Without(input, {"normalization_bound", "third_party_verifiable"}) @@ digests
              @@ [session_binding |->
                    digests @@ Only(input, {"session_id", "normalization_bound"}),
                  bind_assertions |->
                    [third_party_verifiable |-> input.third_party_verifiable,
                     instance_binding_valid |-> instance, back_link_valid |-> backLink,
                     signature_valid |-> signature,
                     attestation_readiness |->
                       deriveAttestationReadiness(instance, backLink, signature, consistent)]],
            "bind_digest")

\* Without the secret the document's own word on the signature is taken.
verifyMcpSepAttestationBind(doc, secret) ==
    /\ Present(doc, {"organization_id", "session_id", "tool_name", "sep_artifacts",
                     "session_binding", "bind_assertions"})
    /\ Present(doc.sep_artifacts, {"wire", "wire_bytes", "decision", "outcome"})
    /\ LET a == doc.sep_artifacts
           b == doc.bind_assertions
       IN /\ doc.attestation_digest = a.wire_bytes
          /\ \A r \in {a.decision, a.outcome} : recomputeSepRecordDigest(r) = r.record_digest
          /\ doc.decision_record_digest = a.decision.record_digest
          /\ doc.outcome_record_digest = a.outcome.record_digest
          /\ verifySepInstanceBinding(a.wire_bytes, a.decision, a.outcome)
          /\ verifySepBackLink(a.decision, a.outcome)
          /\ IF secret # NULL THEN verifySepAttestationSignature(a.wire, secret)
             ELSE b.signature_valid = TRUE
          /\ b.third_party_verifiable = TRUE
          /\ b.attestation_readiness = "governed_proxy_ready" =>
               /\ \A f \in {"instance_binding_valid", "back_link_valid", "signature_valid"} : b[f] = TRUE
               /\ doc.session_binding.normalization_bound = TRUE
          /\ b.attestation_readiness = "partial" =>
               b.instance_binding_valid = TRUE /\ b.back_link_valid = TRUE
    /\ Without(doc.session_binding, {"normalization_bound"}) =
         Only(doc, {"session_id", "attestation_digest", "decision_record_digest",
                    "outcome_record_digest"})
    /\ Sealed(doc, "bind_digest")
=============================================================================
