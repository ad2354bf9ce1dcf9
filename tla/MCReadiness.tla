----------------------------- MODULE MCReadiness -----------------------------
(* Two documents of every kind of GovernanceEvidence and ReadinessEvidence, *)
(* for MCEvidence.                                                          *)
EXTENDS MCBoundary, GovernanceEvidence, ReadinessEvidence

(* Governance *)

Governance ==
    {"adaptation_envelope", "envelope_scitt", "modification_signal", "modification_scitt",
     "adaptation_lifecycle", "vendor_change", "policy_at_change", "monitoring_snapshot",
     "notification_timeline"}

Day(t) == IF t = A THEN 1 ELSE 3
Role(t) == IF t = A THEN "provider" ELSE "deployer"

Bounds(t) == Of(t, BOUND_DIGEST_FIELDS)

Declared(t) ==
    buildDeclaredAdaptationEnvelopeDocument(
      Of(t, {"organization_id", "system_id", "declared_at", "envelope_entry_hash", "valid_from"}) @@
      [operator_role |-> Role(t), bounds |-> Bounds(t), monitored_metrics |-> {t, NULL},
       regulatory_framings |-> {"eu_art_43_4_envelope", "eu_art_26_monitoring", "unknown"},
       drift_thresholds |->
         {[metric_id |-> t, max_delta |-> 1, max_absolute |-> Day(t), breach_action |-> "other"]},
       reversion_rules |-> NULL, human_review_gates |-> {[gate_id |-> t], [gate_id |-> NULL]}])

Runtime(t) == [observed_at |-> t, bounds |-> Bounds("other"), metric_values |-> (t :> 9)]

Signal(t) ==
    LET drift == evaluateAdaptationEnvelopeDrift(Declared(t), Runtime(t)) IN
    buildSubstantialModificationSignalDocument(
      Of(t, {"organization_id", "system_id", "generated_at", "signal_entry_hash",
             "drift_witness_entry_hash"}) @@
      [operator_role |-> Role(t), envelope_digest |-> Declared(t).envelope_digest,
       runtime_snapshot_digest |-> Runtime(t), drift_status |-> drift.status,
       breaches |-> drift.breaches, contributing_entry_hashes |-> {t, NULL},
       regulatory_framing |->
         buildSubstantialModificationSignalFraming(Role(t), Cardinality(drift.breaches),
                                                   Declared(t).regulatory_framings),
       composed_members |->
         {[member_schema |-> "declared_adaptation_envelope", member_digest |-> t],
          [member_schema |-> "drift_witness", member_digest |-> t],
          [member_schema |-> "nothing", member_digest |-> NULL]}])

\* A period that ends inside the envelope and one that ends in a breach.
Lifecycle(t) ==
    buildAdaptationLifecycleExportDocument(
      Of(t, {"organization_id", "system_id", "generated_at"}) @@
      [lifecycle_window |-> Of(t, {"started_at", "ended_at"}),
       drift_witness_timeline |->
         [n \in 1..2 |-> [sequence_index |-> 3 - n, observed_at |-> t,
                          runtime_snapshot_digest |-> <<t, n>>, witness_entry_hash |-> <<t, n>>,
                          drift_status |-> IF t = A THEN "inside_envelope" ELSE "breach"]],
       ordered_witness_entry_hashes |-> {}, lifecycle_assertions |-> TRUE,
       composed_members |->
         {[member_schema |-> s, member_digest |-> t, verify_ok |-> TRUE] : s \in LIFECYCLE_REQUIRED_MEMBERS},
       member_documents |->
         [declared_adaptation_envelope |-> Declared(t),
          substantial_modification_signal |-> IF t = A THEN NULL ELSE Signal(t)]],
      TRUE, t = B)

Milestone(t, type, at) == [milestone_type |-> type, occurred_at |-> at, entry_hash |-> t]

VendorChange(t) ==
    buildVendorModelChangeDocument(
      Of(t, {"organization_id", "vendor_id", "change_id", "effective_at", "change_type",
             "guardrail_policy_digest_before"}) @@
      [model_fingerprint_before |-> <<t, 1>>,
       model_fingerprint_after |-> <<t, 2>>])

PolicyAtChange(t) ==
    buildPolicyAtChangeSnapshotDocument(
      Of(t, {"organization_id", "change_id", "policy_version_hash", "generated_at"}))

MonitoringSnapshot(t) ==
    buildPostMarketMonitoringSnapshotDocument(
      Of(t, {"organization_id", "period_label", "period_start", "period_end"}) @@
      [monitoring_metrics |-> [m \in MonitoringMetrics |-> IF t = A THEN NULL ELSE 1],
       art72_obligations |->
         {[obligation |-> <<t, n>>, status |-> IF n = 3 THEN "gap" ELSE "met"] : n \in 1..3}])

NotificationTimeline(t) ==
    buildIncidentNotificationTimelineDocument(
      Of(t, {"organization_id", "incident_id"}) @@
      [serious_incident_awareness_at |-> Day(t),
       milestones |-> <<Milestone(t, "nca_notification", Day(t) + 5),
                        Milestone(t, "awareness", Day(t))>>])

IssueGovernance(k, t) ==
    CASE k = "adaptation_envelope" -> Declared(t)
      [] k = "envelope_scitt" -> applyAdaptationEnvelopeScittAlignment(Declared(t), NULL)
      [] k = "modification_signal" -> Signal(t)
      [] k = "modification_scitt" -> applySubstantialModificationScittAlignment(Signal(t), t)
      [] k = "adaptation_lifecycle" -> Lifecycle(t)
      [] k = "vendor_change" -> VendorChange(t)
      [] k = "policy_at_change" -> PolicyAtChange(t)
      [] k = "monitoring_snapshot" -> MonitoringSnapshot(t)
      [] k = "notification_timeline" -> NotificationTimeline(t)

VerifyGovernance(k, d, o) ==
    CASE k = "adaptation_envelope" -> verifyDeclaredAdaptationEnvelopeBundle(d, o = "strict")
      [] k = "envelope_scitt" ->
           /\ verifyDeclaredAdaptationEnvelopeBundle(Without(d, {"scitt_alignment"}), o = "strict")
           /\ validateAdaptationEnvelopeScittAlignment(d.scitt_alignment)
      [] k = "modification_signal" ->
           verifySubstantialModificationSignalBundle(d, o = "strict", o = "strict")
      [] k = "modification_scitt" ->
           /\ verifySubstantialModificationSignalBundle(Without(d, {"scitt_alignment"}), FALSE, FALSE)
           /\ validateSubstantialModificationScittAlignment(d.scitt_alignment)
      [] k = "adaptation_lifecycle" -> verifyAdaptationLifecycleExportBundle(d, o = "strict")
      [] k = "vendor_change" -> verifyVendorModelChange(d)
      [] k = "policy_at_change" -> verifyPolicyAtChangeSnapshot(d)
      [] k = "monitoring_snapshot" -> verifyPostMarketMonitoringSnapshot(d)
      [] k = "notification_timeline" -> verifyIncidentNotificationTimeline(d)

ResealGovernance(k, d) ==
    CASE k \in {"adaptation_envelope", "envelope_scitt"} ->
           [d EXCEPT !.envelope_digest = buildDeclaredAdaptationEnvelopePreimage(
              Without(d, {"envelope_digest", "scitt_alignment"}))]
      [] k \in {"modification_signal", "modification_scitt"} ->
           [d EXCEPT !.signal_digest = buildSubstantialModificationSignalPreimage(
              Without(d, {"signal_digest", "scitt_alignment"}))]
      [] k = "adaptation_lifecycle" ->
           [d EXCEPT !.lifecycle_export_digest = buildAdaptationLifecycleExportPreimage(
              Without(d, {"lifecycle_export_digest"}))]
      [] k = "vendor_change" ->
           [d EXCEPT !.change_digest = buildVendorModelChangePreimage(Without(d, {"change_digest"}))]
      [] k = "policy_at_change" -> Sealing(d, "policy_at_change_digest")
      [] k = "monitoring_snapshot" ->
           [d EXCEPT !.snapshot_digest =
              buildPostMarketMonitoringSnapshotPreimage(Without(d, {"snapshot_digest"}))]
      [] k = "notification_timeline" ->
           [d EXCEPT !.timeline_digest =
              buildIncidentNotificationTimelinePreimage(Without(d, {"timeline_digest"}))]

PartsGovernance(k) ==
    CASE k \in {"adaptation_envelope", "envelope_scitt"} -> {"bounds"}
      [] k = "modification_signal" -> {"regulatory_framing"}
      [] k = "adaptation_lifecycle" -> {"lifecycle_window", "lifecycle_assertions", "member_documents"}
      [] k = "monitoring_snapshot" -> {"monitoring_metrics"}
      [] OTHER -> {}

PromisedGovernance(k, d) ==
    CASE k \in {"adaptation_envelope", "envelope_scitt"} ->
           Without(d, {"envelope_entry_hash", "scitt_alignment", "drift_thresholds",
                       "human_review_gates", "monitored_metrics", "reversion_rules"})
      [] k \in {"modification_signal", "modification_scitt"} ->
           Without(d, {"signal_entry_hash", "scitt_alignment", "composed_members",
                       "contributing_entry_hashes"})
      [] k = "adaptation_lifecycle" ->
           [Without(d, {"member_documents", "drift_witness_timeline_digest"}) EXCEPT
              !.drift_witness_timeline = normalizeAdaptationDriftWitnessTimeline(List(@))]
      [] k = "vendor_change" ->
           Without(d, {"model_fingerprint_digest_before", "model_fingerprint_digest_after"})
      [] k = "monitoring_snapshot" -> Without(d, {"monitoring_metrics"})
      [] k = "notification_timeline" -> [d EXCEPT !.milestones = OrderedBy(List(@), "occurred_at")]
      [] OTHER -> d

ListsGovernance(k) ==
    CASE k = "adaptation_lifecycle" -> {"drift_witness_timeline"}
      [] k = "notification_timeline" -> {"milestones"}
      [] OTHER -> {}

BreachesNamed(signal) ==
    signal.regulatory_framing.breached = TRUE /\ signal.drift_status = "breach" => signal.breaches # {}

EarnedGovernance(k, d) ==
    CASE k = "adaptation_lifecycle" ->
           LET envelope == d.member_documents.declared_adaptation_envelope
           IN envelope.envelope_digest =
                buildDeclaredAdaptationEnvelopePreimage(Without(envelope, {"envelope_digest"}))
      [] k = "monitoring_snapshot" ->
           LET rows == Items(d.art72_obligations)
           IN d.obligations_gap_count = 0 /\ IsFiniteSet(rows) => \A r \in rows : r.status # "gap"
      [] k = "modification_signal" -> BreachesNamed(d)
      [] k = "modification_scitt" -> BreachesNamed(Without(d, {"scitt_alignment"}))
      [] OTHER -> TRUE

-----------------------------------------------------------------------------
(* Readiness *)

Readiness ==
    {"addon_vetting", "adversarial_pack", "retest_receipt", "shutdown_drill", "resurrection_batch",
     "license_bundle", "conformity_closure", "quarterly_review", "autonomy_tier", "aeg_integrity",
     "insurance_signal"}

\* An air_security report without a fingerprint and an internal review with one.
VettingReport(t) ==
    IF t = A
    THEN [decision_id |-> t, status |-> "ok", vetted_at |-> 2, addon_id |-> t]
    ELSE [review_id |-> t, verdict |-> t, reviewed_at |-> 1, manifest_digest |-> <<t>>,
          vetting_vendor_id |-> "internal_review", policy_digest |-> t]

AddonEnvelope(t) == coerceAddonVettingEnvelope(VettingReport(t), NULL)

Findings(t) ==
    {[finding_digest |-> <<t, 1>>, severity |-> "high", status |-> "remediated",
      remediation_receipt_digest |-> t],
     [finding_digest |-> <<t, 2>>, severity |-> "low", status |-> "open",
      remediation_receipt_digest |-> NULL]}

Campaign(t) ==
    Of(t, {"campaign_id", "vendor_id_digest"}) @@
    [executed_at |-> Day(t) + 5, finding_count |-> 2, severity_counts |-> evaluateSeverityCounts(Findings(t)),
     methodology_ref |-> IF t = A THEN "mitre-atlas" ELSE "custom"]

Run(t, n) == [suite_id |-> <<t, n>>, run_digest |-> <<t, n>>, ran_at |-> Day(t) + n,
              checks_passed |-> n, checks_total |-> n]

\* B's event names no target of its own.
KillSwitch(t) ==
    [ledger_attestation |->
       [entryHash |-> t, prevHash |-> IF t = A THEN NULL ELSE t, policyId |-> NULL,
        attestationSignature |->
          computeKillSwitchAttestationSignature(t, IF t = A THEN NULL ELSE t, "secret")],
     eventType |-> "AEGIS_GOVERNANCE_STATUS", agent_id |-> t, test_type |-> "live_kill_switch_test",
     payload |-> [newStatus |-> "BLOCKED", targetAgentId |-> IF t = A THEN t ELSE NULL,
                  at |-> Day(t) + 1]]

Batch(t) ==
    buildEvidenceResurrectionBatchDocument(
      Of(t, {"organization_id", "batch_id", "started_at", "completed_at"}) @@
      [decision_count |-> 1, receipt_count |-> 1, receipt_entry_hashes |-> {t}, receipt_ids |-> {t},
       errors |-> NULL, dedupe_key |-> NULL, attestation_mode |-> NULL])

Closed(t) ==
    buildConformityClosureDocument(
      Of(t, {"organization_id", "obligation_id", "closed_at", "closure_entry_hash"}) @@
      [live_signal_count |-> Day(t), signal_threshold |-> Day(t), gap_score_after |-> NULL,
       lookback_days |-> NULL, contributing_entry_hashes |-> {t}])

AdversarialPack(t) ==
    buildAdversarialTestEvidencePackDocument(
      Of(t, {"organization_id", "generated_at"}) @@
      [test_campaign |-> Campaign(t), remediation_links |-> Findings(t),
       campaign_session_binding |->
         [campaign_id |-> t, findings_manifest_digest |-> buildFindingsManifestDigest(Findings(t)),
          campaign_digest |-> buildTestCampaignDigest(Campaign(t)), normalization_bound |-> TRUE],
       cadence |-> [cadence_days_target |-> IF t = A THEN NULL ELSE 8],
       underwriting_assertions |-> TRUE], 1)

ShutdownDrill(t) ==
    buildShutdownDrillBundleDocument(
      Of(t, {"organization_id", "drill_id", "target_agent_id", "session_scope", "exported_at"}) @@
      [last_permit |-> [entry_hash |-> t, receipt_profile |-> "PERMITTED", observed_at |-> Day(t)],
       kill_switch_attestation |-> KillSwitch(t),
       silence_window |-> [started_at |-> Day(t) + 2, ended_at |-> Day(t) + 5, duration_ms |-> 3,
                           permit_receipt_count |-> 0, permit_entry_hashes_observed |-> {}],
       witness |-> [required |-> t = A, witness_entry_hash |-> t],
       enforcement_decay |->
         IF t = A THEN buildShutdownDrillEnforcementDecay(t, [chain_enforcement_mode |-> "hard",
                                                             weakest_link_index |-> NULL])
         ELSE NULL])

LicenseBundle(t) ==
    buildLicenseSurvivableBundleDocument(
      Of(t, {"organization_id", "bundle_id", "exported_at", "verify_manifest"}) @@
      [batch_manifest |-> Batch(t), attestation_mode |-> NULL,
       receipts |-> {[entry_hash |-> t, receipt |-> t,
                      attestation_mode |-> EVIDENCE_RESURRECTION_ATTESTATION_MODE]}])

IssueReadiness(k, t) ==
    CASE k = "addon_vetting" ->
           buildAddonVettingProvenanceFromEnvelope(
             AddonEnvelope(t),
             Session(t) @@ [action_executed_at |-> Day(t) + 3, liability_receipt_digest |-> t,
                            tool_manifest_fingerprint |->
                              [ToolManifest(t) EXCEPT
                                 !.manifest_fingerprint = AddonEnvelope(t).manifest_fingerprint_digest,
                                 !.bind_digest.manifest_fingerprint =
                                   AddonEnvelope(t).manifest_fingerprint_digest]])
      [] k = "adversarial_pack" -> AdversarialPack(t)
      [] k = "retest_receipt" ->
           buildQuarterlyRetestReceiptDocument(
             Of(t, {"organization_id", "period_label", "generated_at"}) @@
             [test_runs |-> {Run(t, n) : n \in 1..2},
              cadence_assertions |->
                [previous_run_at |-> 1, all_suites_green |-> TRUE, third_party_verifiable |-> TRUE],
              retest_session_binding |->
                [period_label |-> t, latest_run_digest |-> <<t, 2>>, normalization_bound |-> TRUE]])
      [] k = "shutdown_drill" -> ShutdownDrill(t)
      [] k = "resurrection_batch" -> Batch(t)
      [] k = "license_bundle" -> LicenseBundle(t)
      [] k = "conformity_closure" -> Closed(t)
      [] k = "quarterly_review" ->
           Of(t, {"organization_id", "quarter"}) @@
           [lookback_days |-> 90, posture |-> [summary |-> t], closures |-> {Closed(t)}]
      [] k = "autonomy_tier" ->
           [evidence_portfolio |->
              [autonomy |-> IF t = A THEN [score |-> 390, tierId |-> "observer"]
                            ELSE [score |-> 850, tierId |-> NULL]],
            declared_csa_tier |-> IF t = A THEN NULL ELSE "T3",
            declared_vera_tier_id |-> IF t = A THEN NULL ELSE "autonomous"]
      [] k = "aeg_integrity" ->
           LET manifest ==
                 Of(t, {"session_id", "decision_id", "receipt_digest"}) @@
                 [edge |-> Day(t) + 1,
                  checks_evaluated |->
                    {[check |-> "scope_compliance", result |-> IF t = A THEN "PASS" ELSE "FAIL",
                      source |-> IF t = A THEN NULL ELSE "B"]}]
           IN manifest @@ [aeg_integrity_digest |-> computeAegIntegrityDigest(manifest)]
      [] k = "insurance_signal" ->
           buildInsuranceSignalDigestDocument(
             Of(t, {"organization_id", "period_start", "period_end", "digest_entry_hash"}) @@
             [lookback_days |-> 30 * Day(t), contributing_entry_hashes |-> IF t = A THEN NULL ELSE {t},
              metrics |-> [m \in SignalCounts |-> IF m = "receipt_count" THEN Day(t) ELSE NULL]])

VerifyReadiness(k, d, o) ==
    CASE k = "addon_vetting" -> verifyAddonVettingProvenance(d)
      [] k = "adversarial_pack" -> verifyAdversarialTestEvidencePack(d)
      [] k = "retest_receipt" -> verifyQuarterlyRetestReceipt(d)
      [] k = "shutdown_drill" -> verifyShutdownDrillBundle(d, IF o = "strict" THEN "secret" ELSE NULL)
      [] k = "resurrection_batch" -> verifyEvidenceResurrectionBatchBundle(d, o = "strict")
      [] k = "license_bundle" -> verifyLicenseSurvivableBundle(d)
      [] k = "conformity_closure" -> verifyConformityClosureBundle(d, o = "strict")
      [] k = "quarterly_review" -> verifyQuarterlyReviewExport(d)
      [] k = "autonomy_tier" -> verifyAutonomyTierAttestationBundle(d, NULL)
      [] k = "aeg_integrity" -> verifyAegIntegrityBundle(d, o = "strict")
      [] k = "insurance_signal" -> verifyInsuranceSignalDigest(d)

ResealReadiness(k, d) ==
    CASE k = "addon_vetting" ->
           [d EXCEPT !.bind_digest = buildAddonVettingProvenancePreimage(Without(d, {"bind_digest"}))]
      [] k \in {"adversarial_pack", "retest_receipt"} -> Sealing(d, "pack_digest")
      [] k = "shutdown_drill" ->
           [d EXCEPT !.bundle_digest = buildShutdownDrillBundlePreimage(Without(d, {"bundle_digest"}))]
      [] k = "resurrection_batch" ->
           [d EXCEPT !.manifest_digest = buildEvidenceResurrectionBatchPreimage(Without(d, {"manifest_digest"}))]
      [] k = "license_bundle" ->
           [d EXCEPT !.bundle_digest = buildLicenseSurvivableBundlePreimage(Without(d, {"bundle_digest"}))]
      [] k = "conformity_closure" ->
           [d EXCEPT !.closure_digest = buildConformityClosurePreimage(Without(d, {"closure_digest"}))]
      [] k = "aeg_integrity" -> Sealing(d, "aeg_integrity_digest")
      [] k = "insurance_signal" ->
           IF d.metrics = NULL THEN d ELSE
           [d EXCEPT !.metrics_digest = buildInsuranceSignalMetricsPreimage(Without(d, {"metrics_digest"}))]
      [] OTHER -> d

PartsReadiness(k) ==
    CASE k = "addon_vetting" -> {"provenance_session_binding", "provenance_assertions"}
      [] k = "adversarial_pack" -> {"test_campaign", "cadence", "underwriting_assertions"}
      [] k = "retest_receipt" -> {"cadence_assertions", "retest_session_binding"}
      [] k = "shutdown_drill" ->
           {"last_permit", "kill_switch_attestation", "silence_window", "witness", "enforcement_decay"}
      [] k = "license_bundle" -> {"batch_manifest"}
      [] k = "autonomy_tier" -> {"evidence_portfolio"}
      [] k = "insurance_signal" -> {"metrics"}
      [] OTHER -> {}

PromisedReadiness(k, d) ==
    CASE k = "adversarial_pack" -> d
      [] k = "shutdown_drill" ->
           [Without(d, {"kill_switch_attestation"}) EXCEPT
              !.kill_switch_entry_hash = killSwitchEntryHash(d.kill_switch_attestation)]
      [] k = "license_bundle" -> [d EXCEPT !.receipts = {Without(r, {"receipt"}) : r \in Items(@)}]
      [] k = "conformity_closure" -> Without(d, {"closure_entry_hash"})
      [] k \in {"quarterly_review", "autonomy_tier"} -> Only(d, {})
      [] k = "insurance_signal" -> Without(d, {"digest_entry_hash"})
      [] OTHER -> d

ListsReadiness(k) == {}

\* Sealed by whom it may be: a vetting that covers the action, no serious finding
\* left open, a silence after the kill, closures their signals carry, the tier of
\* the score.
EarnedReadiness(k, d) ==
    CASE k = "addon_vetting" ->
           /\ d.vetting_verdict = "APPROVED"
           /\ ~(d.action_executed_at < d.vetting_evaluated_at)
           /\ LET cadence == Default(d.re_vet_cadence_days, 7)
              IN d.action_executed_at - d.vetting_evaluated_at <= IF cadence > 1 THEN cadence ELSE 1
      [] k = "adversarial_pack" -> OpenSerious(d.remediation_links) = {}
      [] k = "retest_receipt" -> \A r \in d.test_runs : r.checks_passed = r.checks_total
      [] k = "shutdown_drill" ->
           /\ d.last_permit.observed_at <= d.kill_switch_attestation.payload.at
           /\ d.kill_switch_attestation.payload.at <= d.silence_window.started_at
           /\ Items(d.silence_window.permit_entry_hashes_observed) = {}
      [] k = "quarterly_review" -> 
           \A c \in d.closures :
             LET live == Count(c.live_signal_count)
                 threshold == Count(c.signal_threshold)
             IN {live, threshold} \subseteq Int => live >= threshold
      [] k = "autonomy_tier" ->
           d.declared_csa_tier # NULL =>
             /\ CSA_AUTONOMY_TIERS[d.declared_csa_tier].minScore <= d.evidence_portfolio.autonomy.score
             /\ d.evidence_portfolio.autonomy.score <= CSA_AUTONOMY_TIERS[d.declared_csa_tier].maxScore
      [] k = "aeg_integrity" ->
           LET failures == {c \in Items(d.checks_evaluated) :
                              c.check \in AEG_INTEGRITY_CHECKS /\ c.result = "FAIL"}
           IN failures # {} => \E c \in failures : c.source \in AEG_STRUCTURAL_SOURCES
      [] OTHER -> TRUE
=============================================================================
