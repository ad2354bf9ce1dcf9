-------------------------- MODULE BoundaryEvidence --------------------------
(***************************************************************************)
(* What was intercepted, over which surfaces a session acted, which        *)
(* channels its context came from, and the boundary composed of both.      *)
(* Rows keep their order; a builder that sorts them does so by SortedBy.   *)
(***************************************************************************)
EXTENDS EvidenceDocument

-----------------------------------------------------------------------------
(* The decision of an intercepting gateway, from its vendor's payload *)

INTERCEPT_VENDOR_ADAPTER_IDS == {"portkey", "agent365", "air_security", "unity_gateway", "generic"}
INTERCEPT_DECISION_VALUES == {"ALLOW", "DENY", "QUARANTINE", "ESCALATE"}

\* Whatever is not one of the three is an ALLOW.
mapGatewayPermitDenyToIntercept(decision) ==
    CASE decision = "deny" -> "DENY"
      [] decision = "quarantine" -> "QUARANTINE"
      [] decision = "escalate" -> "ESCALATE"
      [] OTHER -> "ALLOW"

mapInterceptDecisionToGatewayPermitDeny(decision) ==
    IF decision \in {"DENY", "QUARANTINE"} THEN "deny" ELSE "permit"

\* guardrail and hook_results: [verdict, deny].
mapPortkeyWebhookDecision(raw) ==
    LET fails(check) == check.verdict = FALSE /\ check.deny = TRUE
    IN IF \/ Get(raw, "decision") = "deny" \/ Get(raw, "allowed") = FALSE
          \/ First(raw, <<"response_status", "status_code">>) = 446
          \/ Get(raw, "guardrail") # NULL /\ fails(raw.guardrail)
          \/ \E h \in Items(Get(raw, "hook_results")) : fails(h)
       THEN "DENY" ELSE "ALLOW"

resolveVendorAdapterFromGatewaySource(source) ==
    IF source \in INTERCEPT_VENDOR_ADAPTER_IDS THEN source ELSE "generic"

buildInterceptContextDigest(raw, addon, reasons) ==
    [session_id |-> First(raw, <<"session_id", "correlation_id">>),
     correlation_id |-> First(raw, <<"correlation_id", "session_id">>),
     addon |-> addon, reasons |-> reasons, tag |-> Get(raw, "data_classification_tag")]

\* The digest of the policy's name, none without a name.
buildPolicyDigest(policyReference) == policyReference

buildToolCallFacts(tool, arguments, agent, subject) ==
    [tool_name_digest |-> tool, arguments_digest |-> arguments,
     agent_identity_digest |-> [agent |-> agent, subject |-> subject]]

normalizeAirSecurityDecision(raw) ==
    LET stated == First(raw, <<"decision", "verdict">>) IN
    [vendor_adapter_id |-> "air_security",
     vendor_decision_id |-> First(raw, <<"decision_id", "id", "timestamp">>),
     decision |-> CASE stated \in {"deny", "blocked", "block"} -> "DENY"
                    [] stated \in {"quarantine", "quarantined"} -> "QUARANTINE"
                    [] stated \in {"escalate", "escalated"} -> "ESCALATE"
                    [] OTHER -> "ALLOW",
     evaluated_at |-> First(raw, <<"evaluated_at", "timestamp">>),
     tool_call_facts |->
       buildToolCallFacts(Default(First(raw, <<"tool_name", "tool">>), "mcp.tools.call"),
                          First(raw, <<"arguments_digest", "arguments">>),
                          Default(First(raw, <<"agent_id", "agentId">>), "air-agent"),
                          Get(raw, "user_id")),
     intercept_context_digest |->
       buildInterceptContextDigest(raw, First(raw, <<"addon", "add_on">>),
                                   First(raw, <<"reasons", "reason">>)),
     policy_digest |->
       buildPolicyDigest(Default(First(raw, <<"policy_id", "policy_reference">>),
                                 "air_security/default")),
     gateway_event_hash |-> NULL]

normalizePortkeyDecision(raw) ==
    LET metadata == Default(Get(raw, "metadata"), [none |-> NULL]) IN
    [vendor_adapter_id |-> "portkey",
     vendor_decision_id |-> First(raw, <<"trace_id", "request_id", "id", "timestamp">>),
     decision |-> mapPortkeyWebhookDecision(raw),
     evaluated_at |-> First(raw, <<"evaluated_at", "timestamp", "created_at">>),
     tool_call_facts |->
       buildToolCallFacts(Default(First(raw, <<"function_name", "functionName", "tool_name">>),
                                  "llm.completion"),
                          NULL,
                          Default(Default(First(metadata, <<"agentId", "agent_id">>),
                                          First(raw, <<"virtual_key_id", "virtualKeyId">>)),
                                  "portkey-agent"),
                          Default(First(metadata, <<"userId", "user_id">>), Get(raw, "tenant_id"))),
     intercept_context_digest |-> buildInterceptContextDigest(raw, Get(raw, "guardrail"), NULL),
     policy_digest |->
       buildPolicyDigest(Default(First(raw, <<"policy_id", "config_id">>),
                                 "portkey/guardrail-default")),
     gateway_event_hash |-> NULL]

\* The event hash is over the whole payload of the gateway.
normalizeGatewayDecisionToEnvelope(raw, vendor) ==
    [vendor_adapter_id |->
       Default(vendor, resolveVendorAdapterFromGatewaySource(
                         First(raw, <<"gateway_source", "gatewaySource">>))),
     vendor_decision_id |-> First(raw, <<"gateway_decision_id", "gatewayDecisionId">>),
     decision |-> mapGatewayPermitDenyToIntercept(Get(raw, "decision")),
     evaluated_at |-> Get(raw, "evaluated_at"),
     tool_call_facts |->
       buildToolCallFacts(Default(Get(raw, "tool_name"), "unknown.tool"), NULL,
                          Default(Get(raw, "agent_id"), "gateway-agent"), Get(raw, "subject_id")),
     intercept_context_digest |-> buildInterceptContextDigest(raw, NULL, NULL),
     policy_digest |->
       buildPolicyDigest(First(raw, <<"policy_reference", "policyReference">>)),
     gateway_event_hash |-> raw]

\* An audit entry without a decision id is read as the gateway's decision it records.
coerceInterceptDecisionEnvelope(raw, vendor) ==
    LET schema == Get(raw, "schema") IN
    CASE schema = "air_security" \/ vendor = "air_security" -> normalizeAirSecurityDecision(raw)
      [] ~(schema = "air_security" \/ vendor = "air_security")
         /\ (schema = "portkey" \/ vendor = "portkey") -> normalizePortkeyDecision(raw)
      [] OTHER ->
           CASE schema = "gateway" \/ Get(raw, "gateway_decision_id") # NULL ->
                  normalizeGatewayDecisionToEnvelope(raw, vendor)
             [] ~(schema = "gateway" \/ Get(raw, "gateway_decision_id") # NULL)
                /\ First(raw, <<"virtual_key_id", "virtualKeyId">>) # NULL ->
                  normalizePortkeyDecision(raw)
             [] OTHER ->
                  normalizeGatewayDecisionToEnvelope(
                    [gateway_decision_id |-> First(raw, <<"correlation_id", "agent_id">>),
                     gateway_source |-> "air_security",
                     decision |-> IF Get(raw, "allowed") = FALSE THEN "deny" ELSE "permit",
                     evaluated_at |-> "now", agent_id |-> Get(raw, "agent_id"),
                     tool_name |-> Get(raw, "tool_name")],
                    Default(vendor, "agent365"))

EnvelopeFields ==
    {"vendor_adapter_id", "vendor_decision_id", "decision", "evaluated_at", "tool_call_facts",
     "intercept_context_digest", "policy_digest", "gateway_event_hash"}

buildInterceptDecisionEnvelopeDigest(envelope) == envelope

recomputeDecisionDigestFromAttestation(doc) ==
    buildInterceptDecisionEnvelopeDigest(Only(doc, EnvelopeFields))

deriveInterceptReadiness(matches, policyBound, thirdParty, normalizationBound, gatewayLinked) ==
    CASE matches /\ thirdParty /\ normalizationBound /\ policyBound /\ gatewayLinked ->
           "intercept_notary_ready"
      [] matches /\ thirdParty /\ normalizationBound /\ ~(policyBound /\ gatewayLinked) -> "partial"
      [] OTHER -> "unverified"

buildAttestationAssertionsBlock(input, matches, policyPresent, normalizationBound, gatewayPresent) ==
    LET policyBound == input.policy_bound # FALSE /\ policyPresent IN
    [third_party_verifiable |-> input.third_party_verifiable, decision_digest_matches |-> matches,
     policy_bound |-> policyBound,
     intercept_readiness |->
       deriveInterceptReadiness(matches, policyBound, input.third_party_verifiable = TRUE,
                                normalizationBound, gatewayPresent)]

buildInterceptDecisionAttestationFromEnvelope(envelope, input) ==
    LET digest == buildInterceptDecisionEnvelopeDigest(envelope) IN
    Seal(envelope @@ Only(input, {"organization_id", "session_id", "generated_at", "witness_anchor"})
           @@ [decision_digest |-> digest,
               attestation_assertions |->
                 buildAttestationAssertionsBlock(
                   Default(input.attestation_assertions,
                           [third_party_verifiable |-> TRUE, policy_bound |-> TRUE]),
                   TRUE, envelope.policy_digest # NULL, TRUE, envelope.gateway_event_hash # NULL),
               session_binding |->
                 [session_id |-> input.session_id, decision_digest |-> digest,
                  gateway_event_hash |-> envelope.gateway_event_hash, normalization_bound |-> TRUE]],
         "attestation_digest")

\* The readiness is read from the document; what it needs is asked of the rest.
\* That a notary-ready decision has a gateway event is left to the option.
verifyInterceptDecisionAttestation(doc, requireGatewayLink) ==
    /\ Present(doc, {"organization_id", "session_id", "vendor_decision_id", "evaluated_at",
                     "generated_at", "decision_digest", "attestation_digest",
                     "intercept_context_digest", "tool_call_facts", "session_binding",
                     "attestation_assertions"})
    /\ doc.vendor_adapter_id \in INTERCEPT_VENDOR_ADAPTER_IDS
    /\ doc.decision \in INTERCEPT_DECISION_VALUES
    /\ Present(doc.tool_call_facts, {"tool_name_digest", "agent_identity_digest"})
    /\ LET matches == doc.decision_digest = recomputeDecisionDigestFromAttestation(doc)
           binding == doc.session_binding
           bound == \A f \in {"session_id", "decision_digest", "gateway_event_hash"} :
                      binding[f] = doc[f]
           a == doc.attestation_assertions
       IN /\ matches /\ bound
          /\ a.third_party_verifiable = TRUE
          /\ a.intercept_readiness \in {"intercept_notary_ready", "partial"} =>
               a.decision_digest_matches = TRUE /\ binding.normalization_bound = TRUE
          /\ a.intercept_readiness = "intercept_notary_ready" =>
               a.policy_bound = TRUE /\ doc.policy_digest # NULL
          /\ requireGatewayLink => doc.gateway_event_hash # NULL
    /\ Sealed(doc, "attestation_digest")

-----------------------------------------------------------------------------
(* Surfaces a session declared and acted on *)

\* Mutant: of the rows of one surface the last counts.
MutantRowSum(rows, f) == Last(rows)[f]

RowSum(rows, f) == FoldSeq(LAMBDA r, n : r[f] + n, 0, rows)

\* Rows without a surface are dropped.
BySurface(rows) == SortedBy(SelectSeq(List(rows), LAMBDA r : r.surface # NULL), "surface")

\* observed and declared: a number for each surface.
judgeSurfaces(declared, observed) ==
    LET undeclared == DOMAIN observed \ DOMAIN declared
        overflow == {s \in DOMAIN observed \cap DOMAIN declared : observed[s] > declared[s]}
    IN [completeness_result |->
          CASE undeclared # {} -> "UNDECLARED_SURFACE"
            [] undeclared = {} /\ overflow # {} -> "SURFACE_OVERFLOW"
            [] OTHER -> "COMPLETE",
        overflow_surfaces |-> overflow, undeclared_surfaces |-> undeclared]

DigestFindings(found, session, observed) ==
    Spread(found, [completeness_digest |->
                     Spread(found, [session_id |-> session, observations |-> observed])])

\* rows: what the root is of; declared: the rows that count.
judgeRows(session, rows, declared, observed) ==
    DigestFindings(
      Spread(judgeSurfaces([s \in DOMAIN declared |-> Last(declared[s]).declared_count], observed),
             [surface_completeness_root |-> [session_id |-> session, execution_surfaces |-> rows]]),
      session, observed)

SumRows(seen) == [s \in DOMAIN seen |-> RowSum(seen[s], "observed_count")]

\* The last declaration of a surface counts, observations of it add up.  A row
\* without a surface counts for nothing and stays in the root.
evaluateExecutionSurfaceCompleteness(input) ==
    judgeRows(input.session_id, SortedBy(List(input.execution_surfaces), "surface"),
              BySurface(input.execution_surfaces), SumRows(BySurface(input.observations)))

\* An observation without a surface is written out as one of "undefined".
NameSurface(row) == [row EXCEPT !.surface = Default(@, "undefined")]

buildExecutionSurfaceCompletenessDocument(input) ==
    evaluateExecutionSurfaceCompleteness(input) @@
    [observations |-> [k \in DOMAIN List(input.observations) |-> NameSurface(input.observations[k])]]
    @@ input

\* The verifier parses the rows first: what has no surface is in no root of its.
evaluateParsedSurfaces(doc) ==
    judgeRows(doc.session_id, BySurface(doc.execution_surfaces),
              BySurface(doc.execution_surfaces), SumRows(BySurface(doc.observations)))

\* The root and the lists the document states are not compared: the digest is of
\* those computed again.
verifyExecutionSurfaceCompletenessBundle(doc, requireComplete) ==
    /\ doc.session_id # NULL
    /\ SelectSeq(List(doc.execution_surfaces), LAMBDA r : r.surface # NULL) # <<>>
    /\ SelectSeq(List(doc.observations), LAMBDA r : r.surface # NULL) # <<>>
    /\ \E evaluated \in {evaluateParsedSurfaces(doc)} :
       /\ doc.completeness_digest = evaluated.completeness_digest
       /\ doc.completeness_result = evaluated.completeness_result
       /\ requireComplete => evaluated.completeness_result = "COMPLETE"

-----------------------------------------------------------------------------
(* Channels the context of a decision came from *)

CHANNEL_SOURCE_CLASSIFICATIONS == {"delegated_authority", "environmental", "system"}

resolveSourceContentBinding(source) == Default(source.content_binding, "digest_only")

\* carrier_channel_ready: no delegated source is known by its digest alone.
buildChannelProvenanceContentBindingReport(sources) ==
    LET loose == {k \in DOMAIN sources :
                    /\ sources[k].classification = "delegated_authority"
                    /\ resolveSourceContentBinding(sources[k]) = "digest_only"}
    IN [digest_only_delegated_source_ids |-> {sources[k].source_id : k \in loose},
        carrier_channel_ready |-> loose = {}]

computeClassificationDigest(sources, classification) ==
    LET rows == SortedBy(Where(sources, "classification", classification), "content_digest")
    IN [classification |-> classification, digests |-> [d \in DOMAIN rows |-> Len(rows[d])]]

ClassificationDigests(sources) ==
    [delegated_digest |-> computeClassificationDigest(sources, "delegated_authority"),
     environmental_digest |-> computeClassificationDigest(sources, "environmental"),
     system_digest |-> computeClassificationDigest(sources, "system")]

computeChannelProvenanceDigest(input) ==
    ClassificationDigests(input.sources) @@
    [session_id |-> input.session_id, decision_id |-> input.decision_id,
     sources |-> SortedBy(input.sources, "source_id")]

buildChannelProvenanceManifest(input) ==
    input @@ ClassificationDigests(input.sources)
          @@ [channel_provenance_digest |-> computeChannelProvenanceDigest(input)]

\* Sources of an unknown class or without a digest are passed over.
parseSources(sources) ==
    SelectSeq(List(sources), LAMBDA s : /\ s.source_id # NULL /\ s.content_digest # NULL
                                        /\ s.classification \in CHANNEL_SOURCE_CLASSIFICATIONS)

verifyChannelProvenanceBundle(doc, requireEnvironmental) ==
    LET sources == parseSources(doc.sources) IN
    /\ doc.session_id # NULL
    /\ sources # <<>>
    /\ \A f \in DOMAIN ClassificationDigests(sources) : doc[f] = ClassificationDigests(sources)[f]
    /\ doc.channel_provenance_digest =
         computeChannelProvenanceDigest([Only(doc, {"session_id", "decision_id", "sources"})
                                           EXCEPT !.sources = sources])
    /\ requireEnvironmental => Where(sources, "classification", "environmental") # <<>>

-----------------------------------------------------------------------------
(* The boundary a session promised, over its surfaces and channels *)

BOUNDARY_SCOPES == {"session_governed", "decision_window"}

\* surfaces and channel_source_ids of a declared boundary are sorted sets.
\* evaluated: the verdict on its surfaces; channelDigest: that of its channels.
judgeBoundary(input, requireChannel, evaluated, channelDigest) ==
    LET surfaceDoc == input.execution_surface_completeness
        channelDoc == input.channel_provenance
        boundary == input.declared_boundary
        declaredSurfaces == {List(surfaceDoc.execution_surfaces)[k].surface :
                               k \in DOMAIN List(surfaceDoc.execution_surfaces)} \ {NULL}
        mismatch == boundary.surfaces \ declaredSurfaces
        channelIds == {List(At(channelDoc, "sources"))[k].source_id :
                         k \in DOMAIN List(At(channelDoc, "sources"))}
        missing == Items(boundary.channel_source_ids) \ channelIds
        aligned == /\ surfaceDoc.session_id = input.session_id
                   /\ channelDoc # NULL => channelDoc.session_id = input.session_id
        channelOk == IF channelDoc = NULL THEN ~requireChannel
                     ELSE channelDigest # NULL /\ channelDoc.channel_provenance_digest = channelDigest
        matches == boundary.surfaces # {} /\ boundary.surfaces = declaredSurfaces
        result == CASE ~aligned -> "COMPOSITION_MISMATCH"
                    [] aligned /\ ~matches -> "BOUNDARY_MISMATCH"
                    [] OTHER ->
                         CASE evaluated.completeness_result # "COMPLETE" -> "SURFACE_GAP"
                           [] evaluated.completeness_result = "COMPLETE"
                              /\ (~channelOk \/ missing # {}) -> "CHANNEL_GAP"
                           [] OTHER -> "COMPLETE"
        surfaceRoot == Default(surfaceDoc.surface_completeness_root, evaluated.surface_completeness_root)
        stated == [session_id |-> input.session_id, boundary_scope |-> input.boundary_scope,
                   declared_boundary |-> input.declared_boundary,
                   channel_provenance_digest |-> channelDigest,
                   surface_completeness_root |-> surfaceRoot]
        found == [boundary_result |-> result, boundary_mismatch_surfaces |-> mismatch,
                  missing_channel_source_ids |-> missing, peb_root |-> stated]
    IN [session_ids_aligned |-> aligned, boundary_result |-> result, peb_root |-> stated, findings |-> found,
        peb_digest |-> Spread(Spread(Only(evaluated, {"completeness_result", "completeness_digest"}),
                                     stated), found)]

evaluateProvableExecutionBoundary(input, requireChannel) ==
    judgeBoundary(input, requireChannel,
                  evaluateExecutionSurfaceCompleteness(input.execution_surface_completeness),
                  IF At(input.channel_provenance, "sources") = NULL THEN NULL
                  ELSE computeChannelProvenanceDigest(input.channel_provenance))

\* Whether a channel manifest was required is the caller's and not in the document.
buildProvableExecutionBoundaryDocument(input, requireChannel) ==
    LET evaluated == evaluateProvableExecutionBoundary(input, requireChannel)
    IN evaluated.findings @@ Only(evaluated, {"peb_digest"}) @@ evaluated.peb_root @@ input

\* options: requireComplete, requireChannelProvenance, and for the documents
\* inside it requireEnvironmentalSource and requireSurfaceComplete
verifyProvableExecutionBoundaryBundle(doc, options) ==
    /\ Present(doc, {"session_id", "declared_boundary", "execution_surface_completeness",
                     "boundary_result", "peb_root", "peb_digest"})
    /\ doc.boundary_scope \in BOUNDARY_SCOPES
    /\ Items(doc.declared_boundary.surfaces) # {}
    /\ \E evaluated \in {evaluateProvableExecutionBoundary(doc, options.requireChannelProvenance)} :
       /\ doc.peb_root = evaluated.peb_root
       /\ doc.peb_digest = evaluated.peb_digest
       /\ doc.boundary_result = evaluated.boundary_result
       /\ evaluated.session_ids_aligned
       /\ options.requireComplete => evaluated.boundary_result = "COMPLETE"
    /\ IF doc.channel_provenance # NULL
       THEN verifyChannelProvenanceBundle(doc.channel_provenance, options.requireEnvironmentalSource)
       ELSE ~options.requireChannelProvenance
    /\ verifyExecutionSurfaceCompletenessBundle(doc.execution_surface_completeness,
                                                options.requireSurfaceComplete)
=============================================================================
