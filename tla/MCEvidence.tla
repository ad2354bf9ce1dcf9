------------------------------ MODULE MCEvidence ------------------------------
(* Two documents of every kind in the hands of custody: those of the other  *)
(* MC modules and two packs of every kind.  Pack a is exported with its     *)
(* members; pack b with a witness's word for each of them and with all but  *)
(* one.  A pack names a member by a token, <<schema, tag>>, where no        *)
(* verifier compares it with the digest of what is bundled.                 *)
EXTENDS EvidenceCustody, MCDelegation, UnderwritingPacks

MCAlignmentLevel(intent, args) == "aligned"

Packs ==
    {"verifiable_denial", "cross_platform", "deployer_custody", "license_custody", "anchor_coverage",
     "independence", "census", "timeline", "model_change", "monitoring", "carrier", "mga_kit",
     "evidence_set", "executive_binding", "cross_org"}

Name(s, t) == <<s, t>>

Rows(t, schemas) == [s \in schemas |-> [member_digest |-> Name(s, t), verify_ok |-> TRUE]]

Witnessed(s, digest) ==
    LET input == [member_schema |-> s, member_digest |-> digest, verify_ok |-> TRUE,
                  verify_result_schema |-> s, verified_at |-> 1]
    IN buildMemberVerifyAttestationDocument(
         input, [receipt_digest |-> buildMemberVerifyAttestationPreimage(input), party |-> "witness",
                 witnessed |-> TRUE, ok |-> TRUE])

\* What the exporter attaches to a pack whose members are rows; s is not bundled.
Exported(pack, rows, documents, t, s) ==
    pack @@
    [member_documents |-> [r \in DOMAIN documents |-> IF t = B /\ r = s THEN NULL ELSE documents[r]],
     member_verify_attestations |->
       IF t = A THEN NULL
       ELSE [r \in DOMAIN documents |-> Witnessed(r, rows[r].member_digest)]]

-----------------------------------------------------------------------------
(* Members *)

DeniedReceipt(t) ==
    Cap!SealReceipt(
      Of(t, {"session_id", "entry_hash", "args_digest"}) @@
      Of(NULL, {"privacy", "intent_context", "intent_alignment", "causal_lineage", "gateway_attestation",
                "partial_path", "governance", "proof_strength_disclosure_digest", "receipt_digest",
                "signature"})
      @@ [schema |-> "liability-receipt/v1", release |-> Cap!PermittedRelease,
          signature_alg |-> "none"], "current")

ReceiptSet(t) ==
    LET members == <<[step_index |-> 0, receipt_digest |-> DeniedReceipt(t).receipt_digest,
                      entry_hash |-> t, proof_strength_disclosure_digest |-> NULL]>>
    IN [session_id |-> t, declared_count |-> 1, members |-> members,
        set_root |-> Cap!computeSetCompletenessRoot(t, 1, members),
        terminal_receipt_digest |-> IF t = A THEN DeniedReceipt(t).receipt_digest ELSE NULL]

WitnessPath(t) ==
    LET path == Of(t, {"independent_verify_base"}) @@
                [witness_cosign_enabled |-> t = A, samples_ok |-> IF t = A THEN NULL ELSE 2,
                 sample_entry_hashes |-> {t}]
    IN path @@ [witness_custody_path_digest |-> buildWitnessCustodyPathDigest(path)]

CustodyManifest(t) ==
    Of(t, {"incident_custody_pack_format_version", "product", "sku", "schema", "incident_ref",
           "freeze_anchor_entry_hash"}) @@ [file_integrity |-> Of(t, CustodyFiles)]

-----------------------------------------------------------------------------
(* Conduct *)

Denial(t) ==
    LET documents == [liability_receipt |-> DeniedReceipt(t), set_completeness |-> ReceiptSet(t),
                      shutdown_drill |-> ShutdownDrill(t)]
        all == Rows(t, {"liability_receipt", "set_completeness", "shutdown_drill"})
        rows == IF t = A THEN all ELSE [all EXCEPT !.shutdown_drill = NULL]
        pack == buildVerifiableDenialEvidencePackDocument(
                  Session(t) @@
                  [enforcement_plane |-> IF t = A THEN "runtime_pep" ELSE "kill_switch",
                   composed_members |-> rows,
                   denial_assertions |->
                     [pre_execution |-> TRUE, execution_occurred |-> FALSE,
                      third_party_verifiable |-> TRUE, completeness_bound |-> FALSE,
                      silence_window_observed |-> FALSE]])
    \* a row that is NULL is not there
    IN Exported([pack EXCEPT !.composed_members = rows], all, documents, t, "set_completeness")

\* The sessions of b are not bound to one another.
CrossPlatform(t) ==
    LET documents == [agt_conduct |-> AgtConduct(t),
                      ap2_conduct |-> Ap2Conduct(t), conduct_manifest |-> Manifest(t)]
        rows == [s \in {"agt_conduct", "ap2_conduct", "conduct_manifest"} |->
                   [member_digest |-> Name(s, t), verify_ok |-> TRUE, vendor_plane |-> s]]
        pack == buildCrossPlatformConductPackDocument(
                  Of(t, {"organization_id", "generated_at"}) @@
                  [composed_members |-> rows,
                   vendor_session_binding |->
                     [agt_receipt_digest |-> Name("agt_conduct", t),
                      ap2_conduct_digest |-> Name("ap2_conduct", t),
                      conduct_manifest_digest |-> Name("conduct_manifest", t),
                      correlation_id |-> t, normalization_bound |-> t = A],
                   cross_platform_assertions |->
                     [agt_normalized_to_ap2 |-> TRUE, session_correlation_bound |-> TRUE,
                      multi_vendor_conduct_unified |-> FALSE, third_party_verifiable |-> TRUE]])
    IN Exported(pack, rows, documents, t, "ap2_conduct")

DeployerCustody(t) ==
    LET path == WitnessPath(t)
        documents == [flight_recorder |-> FlightRecorder(t),
                      conduct_manifest |-> Manifest(t), witness_path |-> path]
        pack == buildDeployerLogCustodyPackDocument(
                  Of(t, {"organization_id", "session_id", "traceable_conduct_manifest_digest"}) @@
                  [generated_at |-> Day(t), retention_until |-> NULL,
                   composed_members |-> Rows(t, {"flight_recorder", "conduct_manifest"}),
                   eu_ai_act_mapping |-> [article_12_logging_capability |-> TRUE,
                                          article_26_deployer_retention_months |-> NULL],
                   custody_assertions |-> [f \in CustodyFlags |-> t = A],
                   witness_custody_path |-> Only(path, WitnessPathFields)])
    IN Exported(pack, pack.composed_members, documents, t, "witness_path")

LicenseCustody(t) ==
    LET documents == [deployer_pack |-> DeployerCustody(t),
                      license_bundle |-> LicenseBundle(t)]
        rows == Rows(t, {"deployer_pack", "license_bundle"})
        pack == buildLicenseSurvivableCustodyPackDocument(
                  Session(t) @@
                  [composed_members |-> rows,
                   custody_survival_assertions |->
                     [f \in SurvivalFlags |-> f # "license_survivable"],
                   post_termination_verify |->
                     Of(t, {"offline_cli", "portal_base"}) @@
                     [no_backend_required |-> TRUE, bundle_schema |-> "license_survivable_custody_pack"]])
    IN Exported(pack, rows, documents, t, "license_bundle")

-----------------------------------------------------------------------------
(* Independence *)

\* The delegation of b is there and did not verify, its memory is not there.
Anchors(t) ==
    Of(t, {"input_provenance_entry_hash", "delegation_chain_digest", "tool_manifest_fingerprint_digest"})
    @@ [witness_samples_ok |-> 1, delegation_chain_verify_ok |-> t = A,
        memory_commitment_verify_ok |-> TRUE, memory_commitment_digest |-> IF t = A THEN t ELSE NULL,
        tool_manifest_verify_ok |-> TRUE, hitl_present |-> FALSE,
        hitl_receipt_digest |-> IF t = A THEN t ELSE NULL]

AnchorCoverage(t) ==
    buildAnchorCoverageForensicPackDocument(
      Session(t) @@
      [composed_anchor_evidence |->
         Only(Anchors(t), {"delegation_chain_digest", "memory_commitment_digest",
                           "tool_manifest_fingerprint_digest"}),
       anchor_coverage_evaluation |-> evaluateAnchorCoverageFromMetrics(Anchors(t))])

\* b has none but the operator to vouch for it, and says so.
Independence(t) ==
    LET documents == [guardian |-> GuardianWith(t, NULL), anchor_coverage |-> AnchorCoverage(t),
                      witness_path |-> WitnessPath(t)]
        rows == [s \in {"guardian", "anchor_coverage", "witness_path"} |->
                   [member_digest |-> Name(s, t), verify_ok |-> t = A]]
        pack == buildIndependenceWitnessPackDocument(
                  Session(t) @@
                  [composed_members |-> rows,
                   independence_assertions |->
                     [f \in IndependenceFlags |->
                        f \in {"operator_self_sign_excluded", "third_party_verifiable"}],
                   independence_verify |->
                     Of(t, {"offline_cli"}) @@
                     [no_operator_login_required |-> TRUE, bundle_schema |-> "independence_witness_pack"],
                   witness_diversity |-> IF t = A THEN Diversity(t) ELSE NULL])
    IN pack @@ [member_documents |-> IF t = A THEN documents ELSE NULL,
                member_verify_attestations |-> NULL]

\* An agent nobody declared was seen in b.
Delta(t) ==
    IF t = A
    THEN computeCensusDeltaFromMembers(DeclaredRoster(t),
                                       ObservedAgents(t))
    ELSE [shadow_agent_ids |-> {"shadow"}, dormant_roster_ids |-> NULL, matched_agent_ids |-> {t},
          shadow_count |-> NULL, dormant_count |-> NULL, matched_count |-> NULL]

Census(t) ==
    LET documents == [declared_roster |-> DeclaredRoster(t),
                      observed_set |-> ObservedAgents(t),
                      conduct_manifest |-> Manifest(t)]
        rows == Rows(t, {"declared_roster", "observed_set", "conduct_manifest"})
        pack == buildAgentCensusCompletenessPackDocument(
                  Of(t, {"organization_id", "period_label", "generated_at"}) @@
                  [composed_members |-> rows,
                   census_delta |-> Delta(t),
                   census_session_binding |->
                     Of(t, {"period_label"}) @@
                     [declared_roster_digest |-> Name("declared_roster", t),
                      observed_set_digest |-> Name("observed_set", t),
                      delta_digest |-> buildDeltaDigest(Delta(t)), normalization_bound |-> TRUE],
                   census_assertions |->
                     [roster_observed_delta_bound |-> TRUE, shadow_agents_detected |-> FALSE,
                      third_party_verifiable |-> TRUE]])
    IN Exported(pack, rows, documents, t, "observed_set")

-----------------------------------------------------------------------------
(* Governance *)

\* b missed the deadline.
Timeline(t) ==
    LET documents == [notification_timeline |-> NotificationTimeline(t),
                      custody_manifest |-> CustodyManifest(t), conduct_manifest |-> Manifest(t)]
        rows == Rows(t, {"notification_timeline", "custody_manifest", "conduct_manifest"})
        timeline == Name("notification_timeline", t)
        pack == buildIncidentNotificationTimelinePackDocument(
                  Of(t, {"organization_id", "incident_id", "generated_at"}) @@
                  [composed_members |-> rows,
                   timeline_session_binding |->
                     Of(t, {"incident_id"}) @@
                     [timeline_digest |-> timeline,
                      custody_manifest_digest |-> Name("custody_manifest", t),
                      conduct_manifest_digest |-> Name("conduct_manifest", t),
                      normalization_bound |-> TRUE],
                   notification_timeline |->
                     Of(t, {"milestones_digest"}) @@ [timeline_digest |-> timeline, milestone_count |-> 2],
                   timeline_assertions |->
                     [nca_deadline_met |-> t = A, milestones_chronological |-> TRUE,
                      nca_notification_at |-> Day(t), custody_evidence_bound |-> FALSE,
                      third_party_verifiable |-> TRUE]])
    IN Exported(pack, rows, documents, t, "custody_manifest")

\* a gives a notice of three days, b of one.
ModelChange(t) ==
    LET documents == [vendor_change |-> VendorChange(t),
                      policy_at_change |-> PolicyAtChange(t),
                      conduct_manifest |-> Manifest(t)]
        rows == Rows(t, {"vendor_change", "policy_at_change", "conduct_manifest"})
        notification == Of(t, {"vendor_id", "notification_statement"}) @@
                        [notified_at |-> Day(t), notification_channel |-> IF t = A THEN t ELSE "vendor_portal"]
        pack == buildModelChangeNotificationPackDocument(
                  Of(t, {"organization_id", "change_id", "generated_at"}) @@
                  [composed_members |-> rows,
                   vendor_model_change |->
                     [change_digest |-> Name("vendor_change", t),
                      effective_at |-> IF t = A THEN Day(t) + 3 ELSE Day(t) + 1],
                   vendor_notification |-> notification,
                   change_session_binding |->
                     Of(t, {"change_id"}) @@
                     [change_digest |-> Name("vendor_change", t),
                      policy_at_change_digest |-> Name("policy_at_change", t),
                      notification_digest |->
                        buildVendorNotificationDigest(t, notification, Name("vendor_change", t)),
                      normalization_bound |-> TRUE],
                   notification_assertions |->
                     [vendor_notified |-> TRUE, lead_time_met |-> FALSE, fingerprints_bound |-> FALSE,
                      third_party_verifiable |-> TRUE]])
    IN Exported(pack, rows, documents, t, "policy_at_change")

\* b leaves an obligation unmet.
Monitoring(t) ==
    LET documents == [monitoring_snapshot |-> MonitoringSnapshot(t),
                      census_pack |-> Census(t), conduct_manifest |-> Manifest(t)]
        rows == Rows(t, {"monitoring_snapshot", "census_pack", "conduct_manifest"})
        snapshot == Name("monitoring_snapshot", t)
        pack == buildPostMarketMonitoringExportPackDocument(
                  Of(t, {"organization_id", "period_label", "generated_at"}) @@
                  [composed_members |-> rows,
                   monitoring_session_binding |->
                     Of(t, {"period_label"}) @@
                     [snapshot_digest |-> snapshot, census_pack_digest |-> Name("census_pack", t),
                      conduct_manifest_digest |-> Name("conduct_manifest", t),
                      normalization_bound |-> TRUE],
                   post_market_monitoring_snapshot |->
                     [snapshot_digest |-> snapshot, obligation_count |-> 3, obligations_met_count |-> 2,
                      obligations_partial_count |-> IF t = A THEN 1 ELSE 0],
                   monitoring_assertions |->
                     [f \in MonitoringFlags |->
                        f \in {"period_complete", "iso42001_shape_valid", "third_party_verifiable"}]])
    IN Exported(pack, rows, documents, t, "census_pack")

-----------------------------------------------------------------------------
(* Underwriting *)

Executive(t) ==
    Of(t, ExecutiveFields \ {"attested_at"}) @@ [attested_at |-> Day(t)]

\* Nobody watches the agents of b and its drill is out of date.
Controls(t) ==
    Executive(t) @@
    [hitl_coverage_pct |-> IF t = A THEN 60 ELSE NULL, sbom_tool_count |-> 1,
     receipt_sample_count |-> IF t = A THEN 1 ELSE 0, witness_samples_ok |-> IF t = A THEN 1 ELSE NULL,
     prove_bundle_samples_ok |-> 1, kill_switch_profile_ok |-> FALSE,
     kill_switch_drill_freshness_digest |-> IF t = A THEN t ELSE NULL]

Carrier(t) ==
    buildCarrierUnderwritingEvidencePackDocument(
      Of(t, {"organization_id", "period_start", "period_end", "generated_at"}) @@
      [lookback_days |-> IF t = A THEN NULL ELSE 30,
       six_control_evaluation |-> evaluateSixControlsFromMetrics(Controls(t)),
       composed_evidence |-> Only(Controls(t), {"kill_switch_drill_freshness_digest"}),
       accountable_executive_attestation |-> Executive(t)])

MgaKit(t) ==
    LET documents == [carrier_pack |-> Carrier(t), shutdown_drill |-> ShutdownDrill(t),
                      adversarial_pack |-> AdversarialPack(t)]
        all == Rows(t, {"carrier_pack", "shutdown_drill", "adversarial_pack"})
        rows == IF t = A THEN all ELSE [all EXCEPT !.adversarial_pack = NULL]
        pack == buildCarrierMgaAcceptanceKitDocument(
                  Of(t, {"organization_id", "generated_at"}) @@
                  [composed_members |-> rows,
                   submission_cadence |->
                     Of(t, {"period_label", "next_resubmission_due"}) @@
                     [cadence |-> IF t = A THEN "quarterly" ELSE "annual",
                      kill_switch_drill_max_age_days |-> IF t = A THEN NULL ELSE 30,
                      carrier_pack_digest |-> Name("carrier_pack", t),
                      kill_switch_drill_digest |-> Name("shutdown_drill", t),
                      drill_fresh_for_submission |-> t = A],
                   mga_acceptance_assertions |->
                     [f \in MgaFlags |-> f # "kill_switch_drill_fresh"],
                   chain_composition_disclosure |->
                     IF t = A THEN NULL
                     ELSE Of(t, {"chain_enforcement_mode", "owasp_asi_gl3_hint", "carrier_footnote"}) @@
                          [uniformly_enforced |-> TRUE, egress_attestation_schema |-> NULL]])
    IN Exported([pack EXCEPT !.composed_members = rows], all, documents, t, "shutdown_drill")

EvidenceSet(t) ==
    LET documents == [census_pack |-> Census(t), carrier_pack |-> Carrier(t),
                      cross_platform_pack |-> CrossPlatform(t)]
        rows == Rows(t, {"census_pack", "carrier_pack", "cross_platform_pack"})
        set == buildAttestedEvidenceSetDocument(
                 Of(t, {"organization_id", "period_label", "generated_at"}) @@ [members |-> rows])
    IN Exported(set, rows, documents, t, "carrier_pack")

\* b was attested long after it was generated.
ExecutiveBinding(t) ==
    buildExecutiveAttestationBindingPackDocument(
      Of(t, {"organization_id", "attestation_period_label"}) @@
      [generated_at |-> 1,
       accountable_executive_attestation |-> Executive(t),
       attested_evidence_set |->
         [evidence_set_digest |-> Name("evidence_set", t),
          members |-> Rows(t, {"census_pack", "carrier_pack", "cross_platform_pack"})],
       attestation_binding |-> [scope_statement |-> t],
       binding_assertions |->
         [f \in BindingFlags |-> f = "third_party_verifiable"]])
    @@ [member_documents |-> [attested_evidence_set |-> EvidenceSet(t)]]

-----------------------------------------------------------------------------
(* Delegation *)

\* Bundled with its steps and what was approved; b goes without the manifest.
CrossOrg(t) ==
    LET steps == Steps(t)
        named == [s \in {STEP_MEMBERS[i] : i \in DOMAIN steps} |->
                    CHOOSE r \in Range(steps) : STEP_MEMBERS[r.hop_index + 1] = s]
        documents == named @@ [hitl_preimage |-> Preimage(t)] @@
                     (IF t = A THEN [conduct_manifest |-> Manifest(t)] ELSE <<>>)
        rows == [s \in DOMAIN documents |->
                   [member_digest |-> IF s \in DOMAIN named THEN named[s].receipt_digest ELSE Name(s, t),
                    verify_ok |-> TRUE]]
        attested == DOMAIN documents \ DOMAIN named
        pack == buildCrossOrgDelegationChainPackDocument(
                  Of(t, {"organization_id", "chain_id", "generated_at"}) @@
                  [composed_members |-> rows,
                   chain_session_binding |->
                     [chain_id |-> t, root_receipt_digest |-> steps[1].receipt_digest,
                      leaf_receipt_digest |-> steps[Hops(t)].receipt_digest, hop_count |-> Hops(t),
                      normalization_bound |-> t = A]], steps)
    IN pack @@
       [member_documents |-> documents,
        member_verify_attestations |-> [s \in attested |-> Witnessed(s, rows[s].member_digest)]]

-----------------------------------------------------------------------------

IssuePack(k, t) ==
    CASE k = "verifiable_denial" -> Denial(t)
      [] k = "cross_platform" -> CrossPlatform(t)
      [] k = "deployer_custody" -> DeployerCustody(t)
      [] k = "license_custody" -> LicenseCustody(t)
      [] k = "anchor_coverage" -> AnchorCoverage(t)
      [] k = "independence" -> Independence(t)
      [] k = "census" -> Census(t)
      [] k = "timeline" -> Timeline(t)
      [] k = "model_change" -> ModelChange(t)
      [] k = "monitoring" -> Monitoring(t)
      [] k = "carrier" -> Carrier(t)
      [] k = "mga_kit" -> MgaKit(t)
      [] k = "evidence_set" -> EvidenceSet(t)
      [] k = "executive_binding" -> ExecutiveBinding(t)
      [] k = "cross_org" -> CrossOrg(t)

\* The contexts are those of the receipts the bundled guardian holds.
IndependenceOptions(d, strict) ==
    LET guardian == At(d.member_documents, "guardian") IN
    [memberContexts |->
       IF guardian = NULL THEN <<>> ELSE GuardianOptions(guardian, strict).memberContexts,
     requireCustodianWitness |-> strict,
     requireWitnessDiversity |-> strict /\ d.witness_diversity # NULL]

VerifyPack(k, d, o) ==
    CASE k = "verifiable_denial" -> verifyVerifiableDenialEvidencePack(d)
      [] k = "cross_platform" -> verifyCrossPlatformConductPack(d)
      [] k = "deployer_custody" -> verifyDeployerLogCustodyPack(d)
      [] k = "license_custody" -> verifyLicenseSurvivableCustodyPack(d)
      [] k = "anchor_coverage" -> verifyAnchorCoverageForensicPack(d)
      [] k = "independence" -> verifyIndependenceWitnessPack(d, IndependenceOptions(d, o = "strict"))
      [] k = "census" -> verifyAgentCensusCompletenessPack(d)
      [] k = "timeline" -> verifyIncidentNotificationTimelinePack(d)
      [] k = "model_change" -> verifyModelChangeNotificationPack(d)
      [] k = "monitoring" -> verifyPostMarketMonitoringExportPack(d)
      [] k = "carrier" -> verifyCarrierUnderwritingEvidencePack(d)
      [] k = "mga_kit" -> verifyCarrierMgaAcceptanceKit(d)
      [] k = "evidence_set" -> verifyAttestedEvidenceSet(d)
      [] k = "executive_binding" -> verifyExecutiveAttestationBindingPack(d)
      [] k = "cross_org" -> verifyCrossOrgDelegationChainPack(d)

OptionsPack(k) == IF k = "independence" THEN {"plain", "strict"} ELSE {"plain"}

\* The records a pack states beside its members.
Stated(k) ==
    CASE k = "verifiable_denial" -> {"denial_assertions"}
      [] k = "cross_platform" -> {"vendor_session_binding", "cross_platform_assertions"}
      [] k = "deployer_custody" -> {"eu_ai_act_mapping", "custody_assertions", "witness_custody_path"}
      [] k = "license_custody" -> {"custody_survival_assertions", "post_termination_verify"}
      [] k = "anchor_coverage" -> {"composed_anchor_evidence", "anchor_coverage_evaluation"}
      [] k = "independence" -> {"independence_assertions", "independence_verify"}
      [] k = "census" -> {"census_delta", "census_session_binding", "census_assertions"}
      [] k = "timeline" -> {"timeline_session_binding", "notification_timeline", "timeline_assertions"}
      [] k = "model_change" ->
           {"change_session_binding", "vendor_model_change", "vendor_notification",
            "notification_assertions"}
      [] k = "monitoring" ->
           {"monitoring_session_binding", "post_market_monitoring_snapshot", "monitoring_assertions"}
      [] k = "carrier" ->
           {"six_control_evaluation", "composed_evidence", "accountable_executive_attestation"}
      [] k = "mga_kit" -> {"submission_cadence", "mga_acceptance_assertions"}
      [] k = "evidence_set" -> {"members"}
      [] k = "executive_binding" ->
           {"accountable_executive_attestation", "attested_evidence_set", "attestation_binding",
            "binding_assertions"}
      [] k = "cross_org" -> {"chain_assertions", "chain_session_binding"}

Attached == {"member_documents", "member_verify_attestations"}

PartsPack(k) ==
    Stated(k) \cup
    (CASE k \in {"anchor_coverage", "carrier"} -> {}
       [] k = "executive_binding" -> {"member_documents"}
       [] k = "evidence_set" -> Attached
       [] OTHER -> Attached \cup {"composed_members"})

ListsPack(k) == IF k = "cross_org" THEN {"delegation_steps"} ELSE {}

\* A pack sealed by one who claims what it holds.
ResealPack(k, d) ==
    IF ~Present(d, Stated(k)) THEN d ELSE
    CASE k = "verifiable_denial" ->
           [d EXCEPT !.pack_digest = buildVerifiableDenialEvidencePackPreimage(d)]
      [] k = "cross_platform" -> [d EXCEPT !.pack_digest = buildCrossPlatformConductPackPreimage(d)]
      [] k = "deployer_custody" -> [d EXCEPT !.pack_digest = extractComposedPackSurface(d)]
      [] k = "license_custody" ->
           [d EXCEPT !.pack_digest = buildLicenseSurvivableCustodyPackPreimage(d)]
      [] k \in {"anchor_coverage", "carrier"} -> Sealing(d, "pack_digest")
      [] k = "independence" -> [d EXCEPT !.pack_digest = buildIndependenceWitnessPackPreimage(d)]
      [] k = "census" ->
           LET counted == [d EXCEPT !.census_assertions = Only(d.census_delta, DeltaCounts) @@ @]
           IN [counted EXCEPT !.pack_digest = buildAgentCensusCompletenessPackPreimage(counted)]
      [] k = "timeline" -> [d EXCEPT !.pack_digest = buildIncidentNotificationTimelinePackPreimage(d)]
      [] k = "model_change" -> [d EXCEPT !.pack_digest = buildModelChangeNotificationPackPreimage(d)]
      [] k = "monitoring" -> [d EXCEPT !.pack_digest = buildPostMarketMonitoringExportPackPreimage(d)]
      [] k = "mga_kit" -> [d EXCEPT !.pack_digest = buildCarrierMgaAcceptanceKitPreimage(d)]
      [] k = "evidence_set" ->
           [d EXCEPT !.evidence_set_digest =
              buildAttestedEvidenceSetPreimage(
                Without(d, {"evidence_set_digest", "member_count"} \cup Attached))]
      [] k = "executive_binding" ->
           [d EXCEPT !.pack_digest = buildExecutiveAttestationBindingPackPreimage(d)]
      [] k = "cross_org" -> [d EXCEPT !.pack_digest = buildCrossOrgDelegationChainPackPreimage(d)]

-----------------------------------------------------------------------------

\* What a verifier computes again whatever the pack states, by the part it is in.
Computed(k, part) ==
    CASE k = "census" /\ part = "census_assertions" -> DeltaCounts
      [] k = "model_change" /\ part = "vendor_notification" -> {"required", "lead_time_hours"}
      [] k = "model_change" /\ part = "notification_assertions" ->
           {"lead_time_hours", "min_lead_time_hours"}
      [] k = "executive_binding" /\ part = "accountable_executive_attestation" -> {"required"}
      [] k = "executive_binding" /\ part = "attested_evidence_set" -> {"member_count"}
      [] OTHER -> {}

\* The order of a chain is that of its hops.
PromisedPack(k, d) ==
    LET surface == Without(d, Attached) IN
    [f \in DOMAIN surface |->
       IF f = "delegation_steps" THEN OrderedBy(List(surface[f]), "hop_index") ELSE
       IF surface[f] # NULL /\ Computed(k, f) # {} THEN Without(surface[f], Computed(k, f)) ELSE surface[f]]

\* A member is at hand, or a witness signed that it verified.
Backed(d, s) ==
    LET document == At(d.member_documents, s)
        word == At(d.member_verify_attestations, s)
    IN \/ document # NULL
       \/ word # NULL /\ d.composed_members[s].member_digest = word.member_digest
                      /\ word.witness_cosign.receipt_digest = word.attestation_digest

AllBacked(d, schemas) == \A s \in schemas : Backed(d, s)

\* The receipt a step row names is bundled, unless the row does not say that it
\* verified.
HopBacked(d, s) ==
    LET rows == Entries(d.composed_members)
        docs == Entries(d.member_documents)
    IN s \in DOMAIN rows /\ rows[s].verify_ok = TRUE =>
         \E r \in StepRows(docs) : docs[r].receipt_digest = rows[s].member_digest

Passes(rows, n) == countStatus(Entries(rows), "pass") >= n

\* What a pack that calls itself ready, complete, bound ... rests on.
EarnedPack(k, d) ==
    CASE k = "verifiable_denial" ->
           /\ AllBacked(d, {"liability_receipt", "set_completeness"})
           /\ d.denial_assertions.denial_readiness = "complete" => Backed(d, "shutdown_drill")
      [] k = "cross_platform" ->
           /\ AllBacked(d, {"agt_conduct", "ap2_conduct", "conduct_manifest"})
           /\ d.cross_platform_assertions.cross_platform_readiness = "unified" =>
                d.vendor_session_binding.normalization_bound = TRUE
      [] k = "deployer_custody" ->
           /\ \A s \in {"flight_recorder", "conduct_manifest", "witness_path"} :
                \/ Backed(d, s)
                \/ d.composed_members[s].member_digest = NULL /\ At(d.member_verify_attestations, s) # NULL
           /\ d.witness_custody_path.witness_custody_path_digest.sample_entry_hashes
                = Items(d.witness_custody_path.sample_entry_hashes)
      [] k = "license_custody" -> AllBacked(d, {"deployer_pack", "license_bundle"})
      [] k = "anchor_coverage" ->
           d.attribution_readiness = "attribution_ready" => Passes(d.anchor_coverage_evaluation, 4)
      [] k = "independence" ->
           d.independence_assertions.independence_readiness = "independent" =>
             AllBacked(d, {"guardian", "anchor_coverage", "witness_path"})
      [] k = "census" ->
           /\ d.census_assertions.census_readiness = "partial" =>
                Backed(d, "declared_roster") \/ Backed(d, "observed_set")
           /\ d.census_assertions.census_readiness = "roster_only" => Backed(d, "declared_roster")
           /\ d.census_assertions.census_readiness = "shadow_gap" => Backed(d, "observed_set")
           /\ d.census_assertions.census_readiness = "complete" =>
                /\ AllBacked(d, {"declared_roster", "observed_set"})
                /\ Default(Get(d.census_delta, "shadow_count"), 0) = 0
      [] k = "timeline" ->
           d.timeline_assertions.timeline_readiness = "nca_compliant" =>
             AllBacked(d, {"notification_timeline", "custody_manifest"})
      [] k = "model_change" ->
           /\ AllBacked(d, ChangeMembers)
           /\ d.notification_assertions.notification_readiness = "procurement_ready" =>
                24 * (d.vendor_model_change.effective_at - d.vendor_notification.notified_at) >= 48
      [] k = "monitoring" -> AllBacked(d, MonitoringMembers)
      [] k = "carrier" ->
           d.overall_readiness = "ready" => Passes(d.six_control_evaluation, 5)
      [] k = "mga_kit" ->
           AllBacked(d, {s \in {"carrier_pack", "shutdown_drill", "adversarial_pack"} :
                           s \in DOMAIN Entries(d.composed_members)})
      [] k = "evidence_set" ->
           \A s \in DOMAIN Entries(d.members) :
             d.members[s].verify_ok = TRUE =>
               \/ At(d.member_documents, s) # NULL
               \/ LET word == At(d.member_verify_attestations, SchemaOf(s))
                  IN word # NULL /\ word.member_digest = d.members[s].member_digest
      [] k = "executive_binding" ->
           d.binding_assertions.binding_readiness = "bound" =>
             d.attestation_binding.attestation_digest
               = d.accountable_executive_attestation.attestation_digest
      [] k = "cross_org" ->
           HopBacked(d, "step1") \/ attestationForSchema(Entries(d.member_verify_attestations), "step1") # NULL

-----------------------------------------------------------------------------
(* Every kind *)

MCKinds == Conduct \cup Boundary \cup Governance \cup Readiness \cup Delegated \cup Logs \cup Packs

MCIssue(k, t) ==
    CASE k \in Conduct -> IssueConduct(k, t)
      [] k \in Boundary -> IssueBoundary(k, t)
      [] k \in Governance -> IssueGovernance(k, t)
      [] k \in Readiness -> IssueReadiness(k, t)
      [] k \in Delegated -> IssueDelegated(k, t)
      [] k \in Logs -> IssueLog(k, t)
      [] k \in Packs -> IssuePack(k, t)

MCVerifies(k, d, o) ==
    CASE k \in Conduct -> VerifyConduct(k, d, o)
      [] k \in Boundary -> VerifyBoundary(k, d, o)
      [] k \in Governance -> VerifyGovernance(k, d, o)
      [] k \in Readiness -> VerifyReadiness(k, d, o)
      [] k \in Delegated -> VerifyDelegated(k, d, o)
      [] k \in Logs -> VerifyLog(k, d, o)
      [] k \in Packs -> VerifyPack(k, d, o)

MCReseal(k, d) ==
    CASE k \in Conduct -> ResealConduct(k, d)
      [] k \in Boundary -> ResealBoundary(k, d)
      [] k \in Governance -> ResealGovernance(k, d)
      [] k \in Readiness -> ResealReadiness(k, d)
      [] k \in Delegated -> ResealDelegated(k, d)
      [] k \in Logs -> ResealLog(k, d)
      [] k \in Packs -> ResealPack(k, d)

MCParts(k) ==
    CASE k \in Conduct -> PartsConduct(k)
      [] k \in Boundary -> PartsBoundary(k)
      [] k \in Governance -> PartsGovernance(k)
      [] k \in Readiness -> PartsReadiness(k)
      [] k \in Delegated -> PartsDelegated(k)
      [] k \in Logs -> PartsLog(k)
      [] k \in Packs -> PartsPack(k)

MCPromised(k, d) ==
    CASE k \in Conduct -> PromisedConduct(k, d)
      [] k \in Boundary -> PromisedBoundary(k, d)
      [] k \in Governance -> PromisedGovernance(k, d)
      [] k \in Readiness -> PromisedReadiness(k, d)
      [] k \in Delegated -> PromisedDelegated(k, d)
      [] k \in Logs -> PromisedLog(k, d)
      [] k \in Packs -> PromisedPack(k, d)

MCEarned(k, d) ==
    CASE k \in Conduct -> EarnedConduct(k, d)
      [] k \in Boundary -> EarnedBoundary(k, d)
      [] k \in Governance -> EarnedGovernance(k, d)
      [] k \in Readiness -> EarnedReadiness(k, d)
      [] k \in Delegated -> EarnedDelegated(k, d)
      [] k \in Logs -> EarnedLog(k, d)
      [] k \in Packs -> EarnedPack(k, d)

MCLists(k) ==
    CASE k \in Conduct -> ListsConduct(k)
      [] k \in Boundary -> ListsBoundary(k)
      [] k \in Governance -> ListsGovernance(k)
      [] k \in Readiness -> ListsReadiness(k)
      [] k \in Delegated -> ListsDelegated(k)
      [] k \in Logs -> ListsLog(k)
      [] k \in Packs -> ListsPack(k)

MCOptions(k) == IF k \in Packs THEN OptionsPack(k) ELSE {"plain", "strict"}

-----------------------------------------------------------------------------

\* Refuted: a pack of a delegation chain that is accepted comes with the receipt
\* of every hop it calls verified (crossOrgDelegationChainPackVerify.ts:376,
\* "proves every hop across org boundaries").
EveryHopProved ==
    (kind = "cross_org" /\ verdict = TRUE) => \A s \in Range(STEP_MEMBERS) : HopBacked(held, s)
=============================================================================
