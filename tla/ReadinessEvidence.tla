--------------------------- MODULE ReadinessEvidence ---------------------------
(***************************************************************************)
(* Documents that say an organization is ready for a review: add-ons       *)
(* vetted, tests run and repeated, a shutdown drilled, decisions           *)
(* resurrected into receipts, obligations closed.  Times are days, in a    *)
(* drill seconds; scores of autonomy are tenths.                           *)
(***************************************************************************)
EXTENDS ConductEvidence

\* Number(x) || 0
Count(x) == Default(x, 0)

AtLeastOne(n) == IF n > 1 THEN n ELSE 1

-----------------------------------------------------------------------------
(* Vetting of an add-on, as each vendor reports it *)

ADDON_VETTING_VENDOR_IDS == {"air_security", "internal_review", "marketplace_curator", "hash_only"}
ADDON_VETTING_VERDICTS == {"APPROVED", "DENIED", "QUARANTINED"}
DEFAULT_ADDON_VETTING_CADENCE_DAYS == 7

\* A word that is none of the known refusals is an approval.
mapVettingVerdict(raw) ==
    CASE raw \in {"DENY", "DENIED", "BLOCK"} -> "DENIED"
      [] raw \in {"QUARANTINE", "QUARANTINED", "HOLD"} -> "QUARANTINED"
      [] OTHER -> "APPROVED"

Vetting(vendor, id, verdict, at, manifest, version, addon, raw, cadence) ==
    [vetting_vendor_id |-> vendor, vendor_vetting_id |-> id,
     vetting_verdict |-> mapVettingVerdict(verdict), evaluated_at |-> at,
     manifest_fingerprint_digest |-> manifest, manifest_version_id |-> Default(version, "1"),
     addon_id_digest |-> addon, policy_digest |-> Get(raw, "policy_digest"),
     re_vet_cadence_days |-> cadence]

normalizeAirSecurityAddonVetting(raw) ==
    LET addon == Default(First(raw, <<"addon_id">>), "unknown-addon")
        version == First(raw, <<"manifest_version_id", "manifest_version">>)
        fingerprint == First(raw, <<"manifest_fingerprint_digest", "manifest_digest">>)
    IN Vetting("air_security", First(raw, <<"vetting_id", "decision_id", "id">>),
               First(raw, <<"verdict", "decision", "status">>),
               First(raw, <<"evaluated_at", "vetted_at", "checked_at">>),
               IF fingerprint # NULL THEN fingerprint ELSE <<"addon", addon, Default(version, "1")>>,
               version, addon, raw,
               Default(First(raw, <<"re_vet_cadence_days", "cadence_days">>), 7))

normalizeInternalReviewAddonVetting(raw) ==
    Vetting("internal_review", First(raw, <<"review_id", "vetting_id">>),
            First(raw, <<"verdict", "status">>), First(raw, <<"reviewed_at", "evaluated_at">>),
            First(raw, <<"manifest_fingerprint_digest", "manifest_digest">>),
            First(raw, <<"manifest_version_id", "manifest_version">>),
            Default(First(raw, <<"addon_id", "package_id">>), "internal-addon"), raw,
            Default(Get(raw, "re_vet_cadence_days"), 30))

normalizeMarketplaceCuratorAddonVetting(raw) ==
    LET listing == Default(Get(raw, "listing_id"), "marketplace-listing") IN
    Vetting("marketplace_curator",
            Default(First(raw, <<"curator_vetting_id", "vetting_id">>), listing),
            First(raw, <<"verdict", "approval_status">>), First(raw, <<"curated_at", "evaluated_at">>),
            First(raw, <<"manifest_fingerprint_digest", "listing_manifest_digest">>),
            First(raw, <<"manifest_version_id", "version">>), listing, raw,
            Default(Get(raw, "re_vet_cadence_days"), 14))

\* The schema or the hint names the vendor; without either it is the first.
coerceAddonVettingEnvelope(raw, hint) ==
    LET vendor == First([schema |-> Get(raw, "schema"), hint |-> hint,
                         stated |-> Get(raw, "vetting_vendor_id")], <<"schema", "hint", "stated">>)
    IN CASE vendor = "internal_review" -> normalizeInternalReviewAddonVetting(raw)
         [] vendor = "marketplace_curator" -> normalizeMarketplaceCuratorAddonVetting(raw)
         [] OTHER -> normalizeAirSecurityAddonVetting(raw)

buildAddonVettingAttestationDigest(envelope) == envelope

\* Whole days; none when the action came first.
computeDaysBetweenVettingAndAction(evaluatedAt, executedAt) ==
    IF NULL \in {evaluatedAt, executedAt} THEN NULL
    ELSE IF executedAt < evaluatedAt THEN NULL ELSE executedAt - evaluatedAt

evaluateVettingCoverage(verdict, evaluatedAt, executedAt, cadence) ==
    LET days == computeDaysBetweenVettingAndAction(evaluatedAt, executedAt)
        met == days # NULL /\ days <= AtLeastOne(Default(cadence, DEFAULT_ADDON_VETTING_CADENCE_DAYS))
    IN [re_vet_cadence_met |-> met, vetting_covers_execution |-> verdict = "APPROVED" /\ met]

deriveProvenanceReadiness(coverage, approved, thirdParty, bound, manifestMatches) ==
    CASE /\ coverage.vetting_covers_execution /\ coverage.re_vet_cadence_met
         /\ approved /\ thirdParty /\ bound /\ manifestMatches -> "provenance_ready"
      [] ~(coverage.re_vet_cadence_met /\ coverage.vetting_covers_execution) -> "stale"
      [] OTHER -> "partial"

buildProvenanceAssertionsBlock(d, thirdParty, manifestMatches) ==
    LET coverage == evaluateVettingCoverage(d.vetting_verdict, d.vetting_evaluated_at,
                                            d.action_executed_at, d.re_vet_cadence_days)
    IN coverage @@
       [third_party_verifiable |-> thirdParty,
        provenance_readiness |->
          deriveProvenanceReadiness(coverage, d.vetting_verdict = "APPROVED", thirdParty,
                                    d.provenance_session_binding.normalization_bound,
                                    manifestMatches)]

\* The embedded manifest fingerprint is not under the digest.
buildAddonVettingProvenancePreimage(input) ==
    [Without(input, {"tool_manifest_fingerprint"}) EXCEPT
       !.re_vet_cadence_days = Default(@, DEFAULT_ADDON_VETTING_CADENCE_DAYS)]

ManifestMatches(member, fingerprint) ==
    At(member, "manifest_fingerprint") \in {NULL, fingerprint}

\* input: organization_id, session_id, generated_at, action_executed_at,
\* liability_receipt_digest, tool_manifest_fingerprint.
buildAddonVettingProvenanceFromEnvelope(envelope, input) ==
    LET attestation == buildAddonVettingAttestationDigest(envelope)
        fields ==
          Without(envelope, {"evaluated_at"}) @@ input @@
          [vetting_evaluated_at |-> envelope.evaluated_at, vetting_attestation_digest |-> attestation,
           provenance_session_binding |->
             [session_id |-> input.session_id, action_executed_at |-> input.action_executed_at,
              manifest_fingerprint_digest |-> envelope.manifest_fingerprint_digest,
              vetting_attestation_digest |-> attestation, normalization_bound |-> TRUE]]
        matches == ManifestMatches(input.tool_manifest_fingerprint, envelope.manifest_fingerprint_digest)
    IN Seal(buildAddonVettingProvenancePreimage(
              fields @@ [provenance_assertions |-> buildProvenanceAssertionsBlock(fields, TRUE, matches)]),
            "bind_digest")
       @@ [tool_manifest_fingerprint |-> input.tool_manifest_fingerprint]

recomputeVettingAttestationDigestFromDocument(doc) ==
    buildAddonVettingAttestationDigest(
      Only(doc, {"vetting_vendor_id", "vendor_vetting_id", "vetting_verdict",
                 "manifest_fingerprint_digest", "manifest_version_id", "addon_id_digest", "policy_digest"})
      @@ [evaluated_at |-> doc.vetting_evaluated_at,
          re_vet_cadence_days |-> Default(doc.re_vet_cadence_days, DEFAULT_ADDON_VETTING_CADENCE_DAYS)])

verifyAddonVettingProvenance(doc) ==
    LET member == doc.tool_manifest_fingerprint
        binding == doc.provenance_session_binding
        assertions == doc.provenance_assertions
        coverage == evaluateVettingCoverage(doc.vetting_verdict, doc.vetting_evaluated_at,
                                            doc.action_executed_at, doc.re_vet_cadence_days)
        bound == {"session_id", "manifest_fingerprint_digest", "vetting_attestation_digest",
                  "action_executed_at"}
    IN /\ Present(doc, {"organization_id", "session_id", "vendor_vetting_id", "manifest_version_id",
                        "vetting_evaluated_at", "action_executed_at", "generated_at", "addon_id_digest",
                        "provenance_session_binding", "provenance_assertions"})
       /\ doc.vetting_vendor_id \in ADDON_VETTING_VENDOR_IDS
       /\ doc.vetting_verdict \in ADDON_VETTING_VERDICTS
       /\ doc.vetting_attestation_digest = recomputeVettingAttestationDigestFromDocument(doc)
       /\ Present(binding, bound) /\ \A f \in bound : binding[f] = doc[f]
       /\ binding.normalization_bound = TRUE
       /\ ManifestMatches(member, doc.manifest_fingerprint_digest)
       /\ member # NULL => verifyToolManifestFingerprint(member)
       /\ assertions.third_party_verifiable = TRUE
       /\ assertions.provenance_readiness = "provenance_ready"
       /\ assertions.vetting_covers_execution = TRUE /\ assertions.re_vet_cadence_met = TRUE
       /\ coverage.vetting_covers_execution /\ coverage.re_vet_cadence_met
       /\ doc.bind_digest = buildAddonVettingProvenancePreimage(Without(doc, {"bind_digest"}))

-----------------------------------------------------------------------------
(* Adversarial tests and what became of their findings *)

METHODOLOGIES == {"owasp-llm-top10", "mitre-atlas", "aiuc1-b005", "custom"}
DEFAULT_ADVERSARIAL_CADENCE_DAYS == 90

computeDaysSincePrevious(previousAt, currentAt) ==
    computeDaysBetweenVettingAndAction(previousAt, currentAt)

\* links: {[finding_digest, severity, status, remediation_receipt_digest]}
buildFindingsManifestDigest(links) == {l.finding_digest : l \in links} \ {NULL}

evaluateSeverityCounts(links) ==
    [s \in {"critical", "high", "medium", "low"} |-> Cardinality({l \in links : l.severity = s})]

OpenSerious(links) == {l \in links : l.severity \in {"critical", "high"} /\ l.status = "open"}

evaluateRemediationsLinked(links) == OpenSerious(links) = {}

CampaignFacts == {"campaign_id", "vendor_id_digest", "executed_at", "methodology_ref", "finding_count",
                  "severity_counts"}
buildTestCampaignDigest(campaign) == Only(campaign, CampaignFacts)

deriveTestingReadiness(testsBound, linked, cadenceMet, thirdParty) ==
    CASE testsBound /\ linked /\ cadenceMet /\ thirdParty -> "underwriting_ready"
      [] testsBound /\ (linked \/ cadenceMet) -> "partial"
      [] OTHER -> "unverified"

buildUnderwritingAssertionsBlock(thirdParty, links, campaign, cadenceMet) ==
    LET bound == campaign.campaign_digest = buildTestCampaignDigest(campaign)
        linked == evaluateRemediationsLinked(links)
    IN [tests_bound |-> bound, remediations_linked |-> linked, cadence_met |-> cadenceMet,
        third_party_verifiable |-> thirdParty,
        open_critical_high_count |-> Cardinality(OpenSerious(links)),
        testing_readiness |-> deriveTestingReadiness(bound, linked, cadenceMet, thirdParty)]

buildAdversarialTestEvidencePackPreimage(input) == input

\* The campaign's digest is of the counts its vendor states, and is sealed beside
\* the counts of the links.
buildAdversarialTestEvidencePackDocument(input, previousAt) ==
    LET links == input.remediation_links
        campaign ==
          [finding_count |-> Cardinality(links), severity_counts |-> evaluateSeverityCounts(links),
           findings_manifest_digest |-> buildFindingsManifestDigest(links),
           campaign_digest |-> buildTestCampaignDigest(input.test_campaign)] @@ input.test_campaign
        days == computeDaysSincePrevious(previousAt, campaign.executed_at)
        target == Default(input.cadence.cadence_days_target, DEFAULT_ADVERSARIAL_CADENCE_DAYS)
    IN Seal(buildAdversarialTestEvidencePackPreimage(
              [input EXCEPT !.test_campaign = campaign,
                 !.cadence = [@ EXCEPT !.cadence_days_target = target] @@ [days_since_previous |-> days],
                 !.underwriting_assertions =
                   buildUnderwritingAssertionsBlock(@, links, campaign, days # NULL /\ days <= target)]),
            "pack_digest")

\* The days since the last campaign are taken from the document; none count as 0.
verifyAdversarialTestEvidencePack(doc) ==
    LET links == Items(doc.remediation_links)
        campaign == doc.test_campaign
        binding == doc.campaign_session_binding
        assertions == doc.underwriting_assertions
        target == Default(doc.cadence.cadence_days_target, DEFAULT_ADVERSARIAL_CADENCE_DAYS)
        cadenceMet == Count(doc.cadence.days_since_previous) <= target
        expected == buildTestCampaignDigest([campaign EXCEPT !.finding_count = Default(@, Cardinality(links))])
    IN /\ Present(doc, {"organization_id", "test_campaign", "campaign_session_binding", "cadence",
                        "underwriting_assertions"})
       /\ campaign.campaign_id # NULL /\ campaign.methodology_ref \in METHODOLOGIES
       /\ links # {} /\ \A l \in links : l.finding_digest # NULL
       /\ campaign.findings_manifest_digest = buildFindingsManifestDigest(links)
       /\ campaign.campaign_digest = expected
       /\ campaign.finding_count = Cardinality(links)
       /\ campaign.severity_counts = evaluateSeverityCounts(links)
       /\ binding.campaign_id = campaign.campaign_id
       /\ binding.findings_manifest_digest = campaign.findings_manifest_digest
       /\ binding.campaign_digest = expected /\ binding.normalization_bound = TRUE
       /\ assertions.third_party_verifiable = TRUE /\ assertions.tests_bound = TRUE
       /\ assertions.testing_readiness = "underwriting_ready"
       /\ assertions.remediations_linked = TRUE /\ evaluateRemediationsLinked(links)
       /\ assertions.cadence_met = TRUE /\ cadenceMet
       /\ doc.pack_digest = buildAdversarialTestEvidencePackPreimage(Without(doc, {"pack_digest"}))

-----------------------------------------------------------------------------
(* Quarterly re-test *)

MAX_QUARTERLY_RETEST_CADENCE_DAYS == 92

\* runs: {[suite_id, run_digest, ran_at, checks_passed, checks_total]}
evaluateTestRunsAllGreen(runs) ==
    /\ runs # {}
    /\ \A r \in runs : Count(r.checks_total) > 0 /\ r.checks_passed = r.checks_total

LatestRun(runs) == CHOOSE r \in runs : \A s \in runs : s.ran_at <= r.ran_at

deriveRetestReadiness(withinQuarter, allGreen, runsPresent, thirdParty) ==
    CASE ~withinQuarter -> "stale"
      [] withinQuarter /\ runsPresent /\ allGreen /\ thirdParty -> "cert_maintenance_ready"
      [] OTHER -> IF runsPresent THEN "partial" ELSE "stale"

buildCadenceAssertionsBlock(input, runs) ==
    LET latest == IF runs = {} THEN NULL ELSE LatestRun(runs)
        days == computeDaysSincePrevious(input.previous_run_at, At(latest, "ran_at"))
        within == days # NULL /\ days <= MAX_QUARTERLY_RETEST_CADENCE_DAYS
        green == evaluateTestRunsAllGreen(runs) /\ input.all_suites_green # FALSE
    IN [days_since_previous |-> days, cadence_within_quarter |-> within, all_suites_green |-> green,
        third_party_verifiable |-> input.third_party_verifiable,
        max_cadence_days |-> MAX_QUARTERLY_RETEST_CADENCE_DAYS, suite_count |-> Cardinality(runs),
        retest_readiness |->
          deriveRetestReadiness(within, green, runs # {}, input.third_party_verifiable)]

buildQuarterlyRetestReceiptDocument(input) ==
    Seal([input EXCEPT !.cadence_assertions = buildCadenceAssertionsBlock(@, input.test_runs)],
         "pack_digest")

verifyQuarterlyRetestReceipt(doc) ==
    LET runs == Items(doc.test_runs)
        binding == doc.retest_session_binding
        assertions == doc.cadence_assertions
        within == Count(assertions.days_since_previous) <= MAX_QUARTERLY_RETEST_CADENCE_DAYS
    IN /\ Present(doc, {"organization_id", "period_label", "cadence_assertions", "retest_session_binding"})
       /\ runs # {} /\ \A r \in runs : r.run_digest # NULL
       /\ assertions.third_party_verifiable = TRUE
       /\ assertions.retest_readiness = "cert_maintenance_ready"
       /\ assertions.all_suites_green = TRUE /\ evaluateTestRunsAllGreen(runs)
       /\ assertions.cadence_within_quarter = TRUE /\ within
       /\ binding.period_label = doc.period_label
       /\ binding.latest_run_digest = LatestRun(runs).run_digest
       /\ binding.normalization_bound = TRUE
       /\ Sealed(doc, "pack_digest")

-----------------------------------------------------------------------------
(* Shutdown drill *)

DEFAULT_KILL_SWITCH_POLICY_ID == "aegis"
LAST_PERMIT_PROFILES == {"PERMITTED", "HITL_RELEASED"}
POST_KILL_SWITCH_EFFECTIVE_MODES == {"blocked"}

\* The signature covers the entry hash and the one before it, not the payload.
computeKillSwitchAttestationSignature(entryHash, prevHash, secret) ==
    <<"LEDGER_ATTEST", entryHash, Default(prevHash, "GENESIS"), secret>>

\* secret NULL: the signature is only looked for.
verifyKillSwitchAttestationBundle(doc, secret) ==
    LET ledger == doc.ledger_attestation
        policy == Default(At(ledger, "policyId"), DEFAULT_KILL_SWITCH_POLICY_ID)
    IN /\ At(ledger, "entryHash") # NULL
       /\ Default(doc.eventType, "AEGIS_GOVERNANCE_STATUS") = "AEGIS_GOVERNANCE_STATUS"
       /\ At(doc.payload, "newStatus") = "BLOCKED"
       /\ policy = DEFAULT_KILL_SWITCH_POLICY_ID
       /\ Default(At(doc.payload, "targetAgentId"), doc.agent_id) # NULL
       /\ ledger.attestationSignature # NULL
       /\ secret # NULL =>
            ledger.attestationSignature =
              computeKillSwitchAttestationSignature(ledger.entryHash, ledger.prevHash, secret)
       /\ doc.test_type = "live_kill_switch_test"

\* chain: the rollup of the session before the drill.
buildShutdownDrillEnforcementDecay(sessionId, chain) ==
    [session_id |-> sessionId,
     pre_drill_chain_enforcement_mode |-> Default(At(chain, "chain_enforcement_mode"), "unknown"),
     pre_drill_weakest_link_index |-> At(chain, "weakest_link_index"),
     post_kill_switch_effective_mode |-> "blocked"]

validateShutdownDrillEnforcementDecay(decay, sessionScope) ==
    decay # NULL =>
      /\ decay.post_kill_switch_effective_mode \in POST_KILL_SWITCH_EFFECTIVE_MODES
      /\ decay.pre_drill_chain_enforcement_mode # NULL
      /\ NULL \notin {sessionScope, decay.session_id} => decay.session_id = sessionScope

killSwitchEntryHash(attestation) == At(At(attestation, "ledger_attestation"), "entryHash")

\* Of the attestation only its entry hash is under the digest.
buildShutdownDrillBundlePreimage(input) ==
    Spread(Without(input, {"kill_switch_attestation"}),
           [kill_switch_entry_hash |-> killSwitchEntryHash(input.kill_switch_attestation)])

buildShutdownDrillBundleDocument(input) ==
    Seal(buildShutdownDrillBundlePreimage(input), "bundle_digest")
    @@ [kill_switch_attestation |-> input.kill_switch_attestation]

buildKillSwitchDrillFreshnessDigest(doc) ==
    Only(doc, {"organization_id", "drill_id", "bundle_digest"})

SilenceWindowValid(silence) ==
    LET lasted == silence.ended_at - silence.started_at IN
    /\ silence.ended_at > silence.started_at
    /\ silence.duration_ms \in (lasted - 1)..(lasted + 1)

\* The last permit, the kill and the silence, in this order, and no permit in it.
verifyShutdownDrillBundle(doc, secret) ==
    LET last == doc.last_permit
        silence == doc.silence_window
        kill == doc.kill_switch_attestation
    IN /\ Present(doc, {"organization_id", "target_agent_id", "last_permit", "silence_window",
                        "kill_switch_attestation"})
       /\ Present(last, {"entry_hash", "observed_at"}) /\ last.receipt_profile \in LAST_PERMIT_PROFILES
       /\ verifyKillSwitchAttestationBundle(kill, secret)
       /\ Default(kill.payload.targetAgentId, kill.agent_id) = doc.target_agent_id
       /\ Present(silence, {"started_at", "ended_at", "duration_ms"}) /\ SilenceWindowValid(silence)
       /\ Count(silence.permit_receipt_count) = 0 /\ Items(silence.permit_entry_hashes_observed) = {}
       /\ At(doc.witness, "required") = TRUE => doc.witness.witness_entry_hash # NULL
       /\ kill.payload.at # NULL
       /\ last.observed_at <= kill.payload.at /\ kill.payload.at <= silence.started_at
       /\ validateShutdownDrillEnforcementDecay(doc.enforcement_decay, doc.session_scope)
       /\ doc.bundle_digest = buildShutdownDrillBundlePreimage(Without(doc, {"bundle_digest"}))

-----------------------------------------------------------------------------
(* Decisions resurrected into receipts, and receipts that outlive a licence *)

EVIDENCE_RESURRECTION_ATTESTATION_MODE == "resurrected"
EVIDENCE_RESURRECTION_DEDUPE_KEY == "gateway_decision_id"

buildEvidenceResurrectionBatchPreimage(input) ==
    [input EXCEPT !.decision_count = Count(@), !.receipt_count = Count(@),
       !.receipt_entry_hashes = Items(@), !.receipt_ids = Items(@), !.errors = Items(@),
       !.dedupe_key = EVIDENCE_RESURRECTION_DEDUPE_KEY,
       !.attestation_mode = EVIDENCE_RESURRECTION_ATTESTATION_MODE]

buildEvidenceResurrectionBatchDocument(input) ==
    Seal(buildEvidenceResurrectionBatchPreimage(input), "manifest_digest")

verifyEvidenceResurrectionBatchBundle(doc, requireReceiptHashes) ==
    /\ Present(doc, {"organization_id", "batch_id", "started_at", "completed_at"})
    /\ doc.dedupe_key = EVIDENCE_RESURRECTION_DEDUPE_KEY
    /\ doc.attestation_mode = EVIDENCE_RESURRECTION_ATTESTATION_MODE
    /\ requireReceiptHashes => Cardinality(Items(doc.receipt_entry_hashes)) = Count(doc.receipt_count)
    /\ doc.manifest_digest = buildEvidenceResurrectionBatchPreimage(Without(doc, {"manifest_digest"}))

\* A receipt's own body is not under the digest.
buildLicenseSurvivableBundlePreimage(input) ==
    [input EXCEPT !.receipts = {Without(r, {"receipt"}) : r \in Items(@)},
                  !.attestation_mode = EVIDENCE_RESURRECTION_ATTESTATION_MODE]

buildLicenseSurvivableBundleDocument(input) ==
    [buildLicenseSurvivableBundlePreimage(input) EXCEPT !.receipts = input.receipts]
    @@ [bundle_digest |-> buildLicenseSurvivableBundlePreimage(input)]

verifyLicenseSurvivableBundle(doc) ==
    /\ Present(doc, {"organization_id", "bundle_id", "exported_at", "verify_manifest", "batch_manifest"})
    /\ doc.attestation_mode = EVIDENCE_RESURRECTION_ATTESTATION_MODE
    /\ verifyEvidenceResurrectionBatchBundle(doc.batch_manifest, FALSE)
    /\ Items(doc.receipts) # {}
    /\ \A r \in doc.receipts : r.attestation_mode = EVIDENCE_RESURRECTION_ATTESTATION_MODE
    /\ doc.bundle_digest = buildLicenseSurvivableBundlePreimage(Without(doc, {"bundle_digest"}))

-----------------------------------------------------------------------------
(* Obligations closed, and the review of a quarter *)

\* No gap is left when an obligation is closed.
buildConformityClosurePreimage(input) ==
    [Without(input, {"closure_entry_hash"}) EXCEPT
       !.contributing_entry_hashes = Items(@), !.gap_score_after = 0, !.lookback_days = Default(@, 90)]

buildConformityClosureDocument(input) ==
    Seal(buildConformityClosurePreimage(input), "closure_digest")
    @@ [closure_entry_hash |-> input.closure_entry_hash]

evaluateConformityClosureSignals(live, threshold) ==
    [canClose |-> Count(live) >= AtLeastOne(Count(threshold))]

verifyConformityClosureBundle(doc, requireClosureEntryHash) ==
    LET threshold == AtLeastOne(Count(doc.signal_threshold)) IN
    /\ Present(doc, {"organization_id", "obligation_id", "closed_at"})
    /\ evaluateConformityClosureSignals(doc.live_signal_count, threshold).canClose
    /\ doc.gap_score_after = 0
    /\ doc.closure_digest =
         buildConformityClosurePreimage([Without(doc, {"closure_digest"}) EXCEPT !.signal_threshold = threshold])
    /\ requireClosureEntryHash => doc.closure_entry_hash # NULL

LookbackValid(days) == days # NULL /\ days \in 7..365

\* The export has no digest of its own: its closures do.
verifyQuarterlyReviewExport(doc) ==
    /\ Present(doc, {"organization_id", "quarter"})
    /\ LookbackValid(doc.lookback_days)
    /\ At(doc.posture, "summary") # NULL
    /\ Items(doc.closures) # {}
    /\ \A c \in doc.closures : verifyConformityClosureBundle(c, FALSE)

-----------------------------------------------------------------------------
(* Tier of autonomy, integrity of an edge and an insurer's signals *)

\* Scores from 0 to 100 in tenths; a tier's bounds are whole.
CSA_AUTONOMY_TIERS ==
    [T0 |-> [veraId |-> "observer", minScore |-> 0, maxScore |-> 390],
     T1 |-> [veraId |-> "copilot", minScore |-> 400, maxScore |-> 640],
     T2 |-> [veraId |-> "delegated", minScore |-> 650, maxScore |-> 840],
     T3 |-> [veraId |-> "autonomous", minScore |-> 850, maxScore |-> 1000]]

resolveCsaAutonomyTier(score) ==
    LET rounded == 10 * ((score + 5) \div 10)
        s == IF rounded > 1000 THEN 1000 ELSE rounded
    IN CHOOSE t \in DOMAIN CSA_AUTONOMY_TIERS :
         CSA_AUTONOMY_TIERS[t].minScore <= s /\ s <= CSA_AUTONOMY_TIERS[t].maxScore

\* A score between two tiers rounds into one whose bounds it then fails.
verifyAutonomyTierAttestationBundle(doc, expectedCsaTier) ==
    LET autonomy == At(doc.evidence_portfolio, "autonomy")
        tier == resolveCsaAutonomyTier(autonomy.score)
        bounds == CSA_AUTONOMY_TIERS[tier]
        vera == Default(doc.declared_vera_tier_id, autonomy.tierId)
    IN /\ At(autonomy, "score") # NULL
       /\ bounds.minScore <= autonomy.score /\ autonomy.score <= bounds.maxScore
       /\ autonomy.tierId \in {NULL, bounds.veraId}
       /\ IF doc.declared_csa_tier # NULL THEN doc.declared_csa_tier = tier
          ELSE vera \in {NULL, bounds.veraId}
       /\ expectedCsaTier \in {NULL, tier}

AEG_INTEGRITY_CHECKS ==
    {"delegation_completeness", "authority_attribution", "scope_compliance",
     "provenance_preservation", "recomposition_authorization", "termination_comparison"}
AEG_CHECK_RESULTS == {"PASS", "FAIL", "SKIP"}
AEG_STRUCTURAL_SOURCES == {"A", "B", "C"}

\* manifest: session_id, edge, decision_id, the two digests, checks_evaluated.
computeAegIntegrityDigest(manifest) == manifest

\* Checks it does not know are dropped, and sources it does not know forgotten.
parseChecks(checks) ==
    {[check |-> c.check, result |-> c.result,
      source |-> IF c.source \in AEG_STRUCTURAL_SOURCES THEN c.source ELSE NULL] :
       c \in {d \in Items(checks) : d.check \in AEG_INTEGRITY_CHECKS /\ d.result \in AEG_CHECK_RESULTS}}

verifyAegIntegrityBundle(doc, requireFailureAttribution) ==
    LET checks == parseChecks(doc.checks_evaluated)
        failures == {c \in checks : c.result = "FAIL"}
    IN /\ doc.session_id # NULL
       /\ doc.edge # NULL /\ doc.edge \in 2..5
       /\ checks # {}
       /\ requireFailureAttribution => \A c \in failures : c.source # NULL
       /\ failures # {} => \E c \in failures : c.source # NULL
       /\ doc.aeg_integrity_digest =
            computeAegIntegrityDigest([Without(doc, {"aeg_integrity_digest"}) EXCEPT !.checks_evaluated = checks])

SignalCounts == {"receipt_count", "denied_receipt_count", "witness_samples_ok", "containment_events"}

\* Where the ledger holds the digest is not under it.
buildInsuranceSignalMetricsPreimage(input) ==
    [Without(input, {"digest_entry_hash"}) EXCEPT
       !.metrics = [m \in DOMAIN @ |-> IF m \in SignalCounts THEN Count(@[m]) ELSE @[m]],
       !.contributing_entry_hashes = Items(@)]

\* Mutant: the counts are sealed as they came.
MutantBuildInsuranceSignalDigestDocument(input) ==
    Seal(Without(input, {"digest_entry_hash"}), "metrics_digest")
    @@ [digest_entry_hash |-> input.digest_entry_hash]

buildInsuranceSignalDigestDocument(input) ==
    Seal(buildInsuranceSignalMetricsPreimage(input), "metrics_digest")
    @@ [digest_entry_hash |-> input.digest_entry_hash]

verifyInsuranceSignalDigest(doc) ==
    /\ Present(doc, {"organization_id", "period_start", "period_end", "metrics"})
    /\ LookbackValid(doc.lookback_days)
    /\ doc.metrics_digest = buildInsuranceSignalMetricsPreimage(Without(doc, {"metrics_digest"}))
=============================================================================
