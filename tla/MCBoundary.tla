------------------------------ MODULE MCBoundary ------------------------------
(* Two documents of every kind of ConductEvidence, EgressEvidence,         *)
(* BoundaryEvidence and CustodianEvidence, for MCEvidence.  A tag stands   *)
(* for each value that is only copied, so that every field tells the two   *)
(* apart.                                                                  *)
EXTENDS ConductEvidence, EgressEvidence, BoundaryEvidence, CustodianEvidence

A == "a"
B == "b"

Of(t, names) == [f \in names |-> t]

Session(t) == Of(t, {"organization_id", "session_id", "generated_at"})

Conduct ==
    {"conduct_manifest", "flight_recorder", "agt_conduct", "ap2_conduct", "behavioral_sbom",
     "declared_roster", "observed_agents", "tool_manifest", "memory_commitment", "sep_bind"}

Call(t) == Of(t, {"instance_id", "tool_name", "arguments"})
Decision(t) == buildSepDecisionRecord(Call(t), Of(t, {"decision"}))

Manifest(t) ==
    buildTraceableConductManifestDocument(
      Session(t) @@ [material_entry_hashes |-> {t}, policy_digest |-> t])

FlightRecorder(t) ==
    buildFlightRecorderExportDocument(
      Session(t) @@ Of(t, {"quarterly_review_hook"}) @@
      [export_profile |-> NULL, crosswalk_gaps |-> {},
       events |-> [n \in 1..2 |->
          buildFlightRecorderEventFromReceipt(
            [entry_hash |-> <<t, n>>, receipt_profile |-> IF n = 1 THEN NULL ELSE "DENIED",
             tool_name |-> t, decision |-> t, session_id |-> NULL], n, t)]])

AgtConduct(t) ==
    buildAgtConductReceiptDocument(
      Session(t) @@
      [source_schema |-> IF t = A THEN "mcp-gateway" ELSE "agent365",
       agt_audit |-> Of(t, {"correlation_id", "agent_id", "tool_name", "allowed",
                            "mcp_server", "policy_reference"})])

Ap2Conduct(t) ==
    buildAp2ConductReceiptDocument(
      Session(t) @@
      [disputed |-> TRUE, liability_receipt_profile |-> t, receipt_entry_hashes |-> {t},
       mandate_refs |-> Of(t, {"correlation_id", "intent", "cart", "payment"}),
       conduct |-> [coverage |-> IF t = A THEN "full_conduct" ELSE "mandate_correlation_only",
                    tool_hop_digests |-> <<t>>, model_ref_digest |-> t,
                    policy_digest |-> t, hitl_approval_digest |-> NULL]])

DeclaredRoster(t) ==
    buildDeclaredAgentRosterDocument(
      Of(t, {"organization_id", "period_label"}) @@
      [agents |-> {[agent_id |-> t, status |-> "enrolled"]}])

ObservedAgents(t) ==
    buildObservedAgentConductSetDocument(
      Of(t, {"organization_id", "period_label"}) @@
      [observation_window |-> Of(t, {"start", "end"}),
       observed_agents |-> {[agent_id |-> t, receipt_count |-> 1]}])

ToolManifest(t) ==
    buildToolManifestFingerprintDocument(
      Of(t, ToolManifestPresent \ {"present"}) @@
      [present |-> t = A, absent_reason |-> NULL])

IssueConduct(k, t) ==
    CASE k = "conduct_manifest" -> Manifest(t)
      [] k = "flight_recorder" -> FlightRecorder(t)
      [] k = "agt_conduct" -> AgtConduct(t)
      [] k = "ap2_conduct" -> Ap2Conduct(t)
      [] k = "behavioral_sbom" ->
           buildBehavioralSbomDocument(
             Of(t, {"organization_id", "generated_at"}) @@
             [configured_agents |-> {t, "other"},
              behavioral_agents |-> {[agent_id |-> t, registry_status |-> "enrolled",
                                      receipt_count |-> 2, configured |-> FALSE],
                                     [agent_id |-> "third", registry_status |-> "blocked",
                                      receipt_count |-> 1, configured |-> FALSE]}])
      [] k = "declared_roster" -> DeclaredRoster(t)
      [] k = "observed_agents" -> ObservedAgents(t)
      [] k = "tool_manifest" -> ToolManifest(t)
      [] k = "memory_commitment" ->
           buildMemoryCommitmentDocument(
             Of(t, MemoryPresent \ {"memory_root_hash"}) @@
             [present |-> t = A, absent_reason |-> NULL,
              memory_root_hash |-> computeMemoryRootFromContentHashes({t, NULL})])
      [] k = "sep_bind" ->
           buildMcpSepAttestationBindDocument(
             Session(t) @@ Of(t, {"tool_name"}) @@
             [normalization_bound |-> TRUE, third_party_verifiable |-> TRUE,
              sep_artifacts |->
                [wire |-> buildSepToolCallAttestation(Call(t), "secret"), wire_bytes |-> Call(t),
                 decision |-> Decision(t),
                 outcome |-> buildSepOutcomeRecord(Call(t), Decision(t), Of(t, {"outcome"}))]],
             "secret")

VerifyConduct(k, d, o) ==
    CASE k = "conduct_manifest" -> verifyTraceableConductManifest(d)
      [] k = "flight_recorder" -> verifyFlightRecorderExport(d)
      [] k = "agt_conduct" -> verifyAgtConductReceipt(d)
      [] k = "ap2_conduct" -> verifyAp2ConductReceipt(d)
      [] k = "behavioral_sbom" -> verifyBehavioralSbomBundle(d, FALSE)
      [] k = "declared_roster" -> verifyDeclaredAgentRoster(d)
      [] k = "observed_agents" -> verifyObservedAgentConductSet(d)
      [] k = "tool_manifest" -> verifyToolManifestFingerprint(d)
      [] k = "memory_commitment" -> verifyMemoryCommitment(d)
      [] k = "sep_bind" -> verifyMcpSepAttestationBind(d, IF o = "strict" THEN "secret" ELSE NULL)

\* The document under the digest of what it now holds.
Sealing(d, name) == [d EXCEPT ![name] = Without(d, {name})]

ResealConduct(k, d) ==
    CASE k = "flight_recorder" ->
           [d EXCEPT !.export_digest = buildFlightRecorderExportPreimage(
              [Without(d, {"event_count", "export_digest"}) EXCEPT !.events = List(@)])]
      [] k = "behavioral_sbom" -> [d EXCEPT !.sbom_digest = evaluateBehavioralSbom(d).sbom_digest]
      [] k = "tool_manifest" ->
           [d EXCEPT !.bind_digest = buildToolManifestFingerprintPreimage(Without(d, {"bind_digest"}))]
      [] k = "memory_commitment" ->
           [d EXCEPT !.commitment_digest = buildMemoryCommitmentPreimage(Without(d, {"commitment_digest"}))]
      [] k = "declared_roster" -> 
           IF d.agents = NULL THEN d ELSE
           [d EXCEPT !.roster_digest = buildDeclaredAgentRosterPreimage(Without(d, {"roster_digest", "declared_count"}))]
      [] k = "observed_agents" -> 
           IF d.observed_agents = NULL THEN d ELSE
           [d EXCEPT !.observed_set_digest = buildObservedAgentConductSetPreimage(Without(d, {"observed_set_digest", "observed_count"}))]
      [] k = "conduct_manifest" -> Sealing(d, "manifest_digest")
      [] k = "agt_conduct" -> Sealing(d, "receipt_digest")
      [] k = "ap2_conduct" -> Sealing(d, "conduct_digest")
      [] k = "sep_bind" -> Sealing(d, "bind_digest")

PartsConduct(k) ==
    CASE k = "agt_conduct" -> {"agt_audit"}
      [] k = "ap2_conduct" -> {"mandate_refs", "conduct", "dispute_evidence"}
      [] k = "observed_agents" -> {"observation_window"}
      [] k = "sep_bind" -> {"sep_artifacts", "session_binding", "bind_assertions"}
      [] OTHER -> {}

PromisedConduct(k, d) ==
    CASE k = "flight_recorder" -> Without(d, {"event_count"})
      [] k = "behavioral_sbom" -> Only(d, {"organization_id", "generated_at", "gap_summary", "agents_with_gaps"})
      [] k = "declared_roster" -> Without(d, {"declared_count"})
      [] k = "tool_manifest" ->
           Only(d, IF d.present = TRUE THEN ToolManifestPresent ELSE ToolManifestAbsent)
      [] k = "memory_commitment" ->
           Only(d, IF d.present = TRUE THEN MemoryPresent ELSE MemoryAbsent)
      [] k = "observed_agents" -> Without(d, {"observed_count"})
      [] OTHER -> d

ListsConduct(k) == IF k = "flight_recorder" THEN {"events"} ELSE {}

EarnedConduct(k, d) ==
    CASE k = "ap2_conduct" ->
           d.dispute_evidence # NULL /\ d.dispute_evidence.dispute_readiness = "complete" =>
             /\ d.conduct.coverage = "full_conduct" /\ d.conduct.tool_hop_digests # <<>>
             /\ d.conduct.model_ref_digest # NULL
      [] k = "behavioral_sbom" ->
           d.agents_with_gaps = {} =>
             \A a \in Items(d.behavioral_agents) :
               {"registry_status", "receipt_count"} \subseteq DOMAIN a /\ a.receipt_count > 0 =>
                 a.registry_status = "enrolled"
      [] k = "sep_bind" ->
           d.sep_artifacts.outcome.backLink = d.sep_artifacts.decision.record_digest
      [] OTHER -> TRUE

-----------------------------------------------------------------------------
(* Egress, boundary and custody *)

Boundary ==
    {"egress_v1", "egress_v2", "attribution", "collector", "intercept", "surfaces", "channels",
     "boundary", "permitted", "denied", "diversity", "monitor", "guardian", "host_bind",
     "constraint_closure"}

-----------------------------------------------------------------------------
(* Egress *)

Egress(t) ==
    Of(t, {"session_id", "generated_at", "proof_strength_disclosure_digest"}) @@
    [attestation_mode |-> IF t = A THEN "egress_proxy_split" ELSE "intercept_enforced",
     mcp_pep_bound |-> t = B, observed_channels |-> <<t, "https">>,
     limitations |-> IF t = A THEN NULL ELSE <<t, "dns">>]

NoContext ==
    Of(NULL, {"session_id", "attribution_timing", "intent_receipt_digest", "registry_manifest_digest",
              "proxy_instance_id", "generated_at"})

Log(t) == Of(t, {"session_id", "time"})

\* a: an access log of Envoy; b: a transaction of Zscaler, with an intent.
Attribution(t) ==
    IF t = A
    THEN buildEgressProxyAttributionFromVendor(
           Log(t) @@ Of(t, {"authority", "upstream_cluster", "trace_id"}), NoContext, NULL)
    ELSE buildEgressProxyAttributionFromVendor(
           Log(t) @@ Of(t, {"zia_transaction_id", "hostname", "action", "intent_receipt_digest"}),
           NoContext, NULL)

Envelope(t) ==
    Of(t, {"collector_id", "iss", "kid", "jti"}) @@
    [aud |-> NULL, feed_schema |-> NULL, feed_digest |-> computeFeedDigest(Attribution(t)),
     iat |-> 10, exp |-> IF t = A THEN 12 ELSE 20]

-----------------------------------------------------------------------------
(* Boundary *)

\* a: a hook of Portkey; b: a decision of the gateway itself.
Intercepted(t) ==
    IF t = A
    THEN [schema |-> "portkey", trace_id |-> t, timestamp |-> t, function_name |-> t,
          guardrail |-> [verdict |-> FALSE, deny |-> TRUE], virtual_key_id |-> t]
    ELSE [schema |-> "gateway", gateway_decision_id |-> t, gateway_source |-> "unity_gateway",
          decision |-> "escalate", evaluated_at |-> t, tool_name |-> t, agent_id |-> t,
          policy_reference |-> t]

Surface(s, n) == [surface |-> s, declared_count |-> n]
Seen(s, n) == [surface |-> s, observed_count |-> n]

\* b acted more often than it declared.
Surfaces(t) ==
    [session_id |-> t, evaluated_at_edge |-> t,
     execution_surfaces |-> <<Surface("mcp", 1), Surface("api", 2), Surface("mcp", 2)>>,
     observations |-> <<Seen("mcp", 1), Seen("api", 1), Seen("mcp", IF t = A THEN 1 ELSE 2)>>]

Source(id, class, t) ==
    [source_id |-> id, classification |-> class, content_digest |-> t, content_binding |-> NULL]

Channels(t) ==
    [session_id |-> t, decision_id |-> t, generated_at |-> t,
     sources |-> <<Source("user", "delegated_authority", t), Source("page", "environmental", t)>>]

DeclaredBoundary(t) ==
    [session_id |-> t, boundary_scope |-> IF t = A THEN "session_governed" ELSE "decision_window",
     declared_boundary |-> [surfaces |-> {"mcp", "api"}, channel_source_ids |-> {"user"}],
     execution_surface_completeness |-> buildExecutionSurfaceCompletenessDocument(Surfaces(t)),
     channel_provenance |-> IF t = A THEN buildChannelProvenanceManifest(Channels(t)) ELSE NULL]

-----------------------------------------------------------------------------
(* Custodian *)

GatewayDecision(t) == [gateway_decision_id |-> t, decision |-> "permit"]

Receipt(t, denied) ==
    LET fields ==
          [receipt_profile |-> IF denied THEN "DENIED" ELSE "PERMITTED", tool_name |-> t,
           outcome |-> IF denied THEN "blocked" ELSE "executed",
           decision |-> IF denied THEN "deny" ELSE "permit", pre_execution |-> denied,
           execution_occurred |-> ~denied, blocked_reason |-> IF denied THEN t ELSE NULL,
           gateway_attestation |->
             IF denied THEN NULL
             ELSE [gateway_decision_id |-> t, gateway_source |-> "guardian",
                   gateway_event_hash |-> computeGatewayEventHash(GatewayDecision(t))]]
    IN fields @@
       [entry_hash |-> fields,
        refusal_alignment |->
          IF denied THEN [scitt_event_type |-> "refusal", kovera_receipt_profile |-> "DENIED",
                          evidence_hash |-> fields]
          ELSE NULL]

\* What the caller of the verifier holds of the receipt: the gateway's decision
\* with the id it names and the fragment the gateway signed.
ProveOptions(receipt, strict) ==
    LET id == At(receipt.gateway_attestation, "gateway_decision_id") IN
    IF id = NULL THEN NoProveOptions
    ELSE [NoProveOptions EXCEPT !.gatewayDecision = GatewayDecision(id),
            !.gatewayFragment = [receipt_digest |-> Receipt(id, FALSE).entry_hash, party |-> "gateway"],
            !.requireWitnessCosign = strict]

Inclusion(log, operator, t) ==
    [log_id |-> log, operator_id |-> operator, org_id |-> "org", entry_index |-> 1, root_hash |-> t]

Diversity(t) ==
    buildWitnessDiversityBlock({Inclusion("log1", "op1", t),
                                Inclusion("log2", IF t = A THEN "op2" ELSE "op1", t)})

LogEntries(t) == IF t = A THEN <<"e0", "e1">> ELSE <<"e0", "e1", "e2">>

Monitor(t) ==
    buildTransparencyLogMonitorAttestationDocument(
      [log_id |-> t, generated_at |-> t, monitor_state |-> IF t = A THEN "healthy" ELSE "degraded",
       consistency_proof |-> [from_index |-> 0, to_index |-> Len(LogEntries(t)) - 1,
                              entry_count |-> Len(LogEntries(t)), root_hash |-> LogEntries(t)],
       monitor_assertions |-> [consistency_verified |-> TRUE]])

Member(id, receipt) ==
    [member_id |-> id, entry_hash |-> receipt.entry_hash, receipt_profile |-> receipt.receipt_profile,
     receipt |-> receipt]

GuardianWith(t, monitor) ==
    buildIndependentGuardianBundleDocument(
      Of(t, {"organization_id", "bundle_id", "exported_at", "verify_manifest"}) @@
      [bundle_mode |-> IF t = A THEN "dual_profile" ELSE "custodian_only",
       members |-> {Member("permitted", Receipt(t, FALSE))}
                   \cup (IF t = A THEN {Member("denied", Receipt(t, TRUE))} ELSE {}),
       witness_diversity |-> IF t = A THEN Diversity(t) ELSE NULL,
       monitor_attestation |-> monitor])

Guardian(t) == GuardianWith(t, IF t = A THEN Monitor(t) ELSE NULL)

\* The contexts are those of the receipts the members hold.
GuardianOptions(d, strict) ==
    LET members == {m \in Items(d.members) : m.receipt # NULL} IN
    [memberContexts |->
       [id \in {m.member_id : m \in members} |->
          ProveOptions((CHOOSE m \in members : m.member_id = id).receipt, FALSE)],
     requireCustodianWitness |-> strict, requireWitnessDiversity |-> FALSE,
     requireMonitorAttestation |-> FALSE,
     entryDigests |-> IF At(d.monitor_attestation, "log_id") = NULL THEN NULL
                      ELSE LogEntries(d.monitor_attestation.log_id)]

HostReport(t) ==
    [schema |-> IF t = A THEN "microsoft_agt" ELSE "agent_hooks", report_id |-> t,
     evaluated_at |-> t, host_version |-> t, enforcement_profile_digest |-> t,
     enforcement_profile |-> t,
     scenarios |-> IF t = A THEN <<"ok", "passed">> ELSE <<"ok", "failed", "skipped">>]

HostBind(t) ==
    LET agt == AgtConduct(t) IN
    buildHostConformanceBindFromReport(
      coerceHostConformanceReport(HostReport(t), NULL),
      Session(t) @@
      [member_documents |-> [agt_conduct_receipt |-> agt,
                             independent_guardian_bundle |-> Guardian(t)],
       composed_members |->
         [agt_conduct_receipt |-> [member_digest |-> agt.receipt_digest, verify_ok |-> TRUE],
          independent_guardian_bundle |->
            [member_digest |-> Guardian(t).bundle_digest, verify_ok |-> TRUE]]])

\* b ends in a state that breaks what was promised.
Closure(t) ==
    [session_id |-> t, evaluated_at_edge |-> NULL,
     genesis_constraints |-> {[id |-> "spend", op |-> "lte", value |-> 2],
                              [id |-> "region", op |-> "in", value |-> {1, 2}]},
     terminal_state |-> [spend |-> IF t = A THEN 1 ELSE 3, region |-> 2]]

-----------------------------------------------------------------------------

IssueBoundary(k, t) ==
    CASE k = "egress_v1" -> buildEgressAttestationDocument(Egress(t))
      [] k = "egress_v2" ->
           buildEgressAttestationV2Document(
             Egress(t) @@ Of(t, {"run_id", "intent_receipt_digest", "registry_manifest_digest"}) @@
             [attribution_timing |-> IF t = A THEN "pre_fetch" ELSE "runtime_only"])
      [] k = "attribution" -> Attribution(t)
      [] k = "collector" -> buildEgressProxyCollectorEnvelopeDocument(Envelope(t), "collector key")
      [] k = "intercept" ->
           buildInterceptDecisionAttestationFromEnvelope(
             coerceInterceptDecisionEnvelope(Intercepted(t), NULL),
             Session(t) @@ [witness_anchor |-> t, attestation_assertions |-> NULL])
      [] k = "surfaces" -> buildExecutionSurfaceCompletenessDocument(Surfaces(t))
      [] k = "channels" -> buildChannelProvenanceManifest(Channels(t))
      [] k = "boundary" -> buildProvableExecutionBoundaryDocument(DeclaredBoundary(t), t = A)
      [] k = "permitted" -> Receipt(t, FALSE)
      [] k = "denied" -> Receipt(t, TRUE)
      [] k = "diversity" -> Diversity(t)
      [] k = "monitor" -> Monitor(t)
      [] k = "guardian" -> Guardian(t)
      [] k = "host_bind" -> HostBind(t)
      [] k = "constraint_closure" -> buildConstraintClosureDocument(Closure(t))

CollectorOptions(strict) ==
    [feed |-> NULL, key |-> "collector key", iss |-> NULL, now |-> IF strict THEN 11 ELSE NULL,
     skip |-> FALSE]

\* b has no channels and its surfaces overflow.
BoundaryOptions(strict) ==
    [requireComplete |-> FALSE, requireChannelProvenance |-> FALSE,
     requireEnvironmentalSource |-> strict, requireSurfaceComplete |-> FALSE]

VerifyBoundary(k, d, o) ==
    LET strict == o = "strict" IN
    CASE k \in {"egress_v1", "egress_v2"} -> verifyEgressAttestationBundle(d)
      [] k = "attribution" -> verifyEgressProxyAttributionBundle(d)
      [] k = "collector" -> verifyEgressProxyCollectorEnvelope(d, CollectorOptions(strict))
      [] k = "intercept" -> verifyInterceptDecisionAttestation(d, FALSE)
      [] k = "surfaces" -> verifyExecutionSurfaceCompletenessBundle(d, FALSE)
      [] k = "channels" -> verifyChannelProvenanceBundle(d, strict)
      [] k = "boundary" -> verifyProvableExecutionBoundaryBundle(d, BoundaryOptions(strict))
      [] k = "permitted" -> verifyEvidenceCustodianBundle(d, ProveOptions(d, strict))
      [] k = "denied" -> validateDeniedReceiptProfile(d) /\ verifyProveBundle(d, NoProveOptions)
      [] k = "diversity" -> verifyWitnessDiversityBlock(d, FALSE)
      [] k = "monitor" ->
           verifyTransparencyLogMonitorAttestation(
             d, IF d.log_id = NULL THEN NULL ELSE LogEntries(d.log_id), FALSE)
      [] k = "guardian" -> verifyIndependentGuardianBundle(d, GuardianOptions(d, strict))
      [] k = "host_bind" ->
           verifyHostConformanceBind(
             d, IF At(d.member_documents, "independent_guardian_bundle") = NULL THEN NULL
                ELSE GuardianOptions(d.member_documents.independent_guardian_bundle, strict))
      [] k = "constraint_closure" -> verifyConstraintClosureBundle(d, FALSE)

ResealBoundary(k, d) ==
    CASE k \in {"egress_v1", "egress_v2", "intercept", "monitor"} ->
           Sealing(d, "attestation_digest")
      [] k = "attribution" -> Sealing(d, "attribution_digest")
      [] k = "host_bind" ->
           [d EXCEPT !.bind_digest = Without(d, {"bind_digest", "member_documents"})]
      [] k = "surfaces" ->
           [d EXCEPT !.completeness_digest =
              evaluateExecutionSurfaceCompleteness(d).completeness_digest]
      [] k = "channels" ->
           IF d.sources = NULL THEN d
           ELSE [d EXCEPT !.channel_provenance_digest = computeChannelProvenanceDigest(d)]
      [] k \in {"permitted", "denied"} ->
           [d EXCEPT !.entry_hash = Without(d, {"entry_hash", "refusal_alignment"})]
      [] k = "guardian" ->
           IF d.members = NULL THEN d
           ELSE [d EXCEPT !.bundle_digest =
                   buildIndependentGuardianBundlePreimage(Without(d, {"bundle_digest"}))]
      [] k = "constraint_closure" ->
           IF d.terminal_state = NULL THEN d
           ELSE [d EXCEPT !.closure_digest = evaluateConstraintClosure(d).closure_digest]
      [] OTHER -> d

PartsBoundary(k) ==
    CASE k = "intercept" -> {"tool_call_facts", "attestation_assertions", "session_binding"}
      [] k = "boundary" -> {"declared_boundary", "execution_surface_completeness", "channel_provenance"}
      [] k = "permitted" -> {"gateway_attestation"}
      [] k = "denied" -> {"refusal_alignment"}
      [] k = "monitor" -> {"consistency_proof"}
      [] k = "guardian" -> {"witness_diversity", "monitor_attestation"}
      [] k = "host_bind" ->
           {"host_session_binding", "conformance_assertions", "composed_members", "member_documents"}
      [] k = "collector" -> {"signature"}
      [] OTHER -> {}

ListsBoundary(k) ==
    CASE k \in {"egress_v1", "egress_v2", "attribution"} -> {"observed_channels"}
      [] k = "surfaces" -> {"execution_surfaces", "observations"}
      [] k = "channels" -> {"sources"}
      [] OTHER -> {}

\* Where a verifier computes a result again, the result and what it is of; the
\* rest of what such a document states is not vouched for.
PromisedBoundary(k, d) ==
    CASE k = "surfaces" -> Only(d, {"session_id", "completeness_result"})
      [] k = "channels" -> Without(d, {"generated_at", "sources"})
      [] k = "boundary" -> Only(d, {"session_id", "boundary_scope", "boundary_result", "peb_root"})
      [] k = "denied" -> Without(d, {"refusal_alignment"})
      [] k = "diversity" -> Only(d, {"diversity_met"})
      [] k = "guardian" -> Without(d, {"members"})
      [] k = "host_bind" -> Without(d, {"member_documents"})
      [] k = "constraint_closure" ->
           Without(d, {"evaluated_at_edge", "failed_constraints", "terminal_state_digest"})
      [] OTHER -> d

Total(rows, s, f) == FoldSeq(LAMBDA r, n : IF r.surface = s THEN r[f] + n ELSE n, 0, rows)

EarnedBoundary(k, d) ==
    CASE k = "surfaces" ->
           d.completeness_result = "COMPLETE" =>
             \A r \in {d.observations[n] : n \in DOMAIN d.observations} :
               \E c \in DOMAIN d.execution_surfaces :
                 /\ d.execution_surfaces[c].surface = r.surface
                 /\ Total(d.observations, r.surface, "observed_count")
                      <= d.execution_surfaces[c].declared_count
      [] k = "boundary" ->
           d.boundary_result = "COMPLETE" =>
             d.execution_surface_completeness.completeness_result = "COMPLETE"
      [] k = "constraint_closure" ->
           d.recomposition_result = "PASS" =>
             \A c \in d.genesis_constraints :
               c.id # NULL => compareConstraint(c.op, d.terminal_state[c.id], c.value)
      [] k = "guardian" -> 
           \A m \in d.members :
             /\ ReceiptSound(m.receipt)
             /\ m.receipt_profile = "PERMITTED" => m.entry_hash = m.receipt.entry_hash
      [] k = "host_bind" ->
           d.conformance_assertions.conformance_readiness = "hooks_conformance_ready" =>
             /\ d.scenarios_failed = 0
             /\ d.member_documents.agt_conduct_receipt.receipt_digest
                  = d.host_session_binding.agt_receipt_digest
      [] OTHER -> TRUE
=============================================================================
