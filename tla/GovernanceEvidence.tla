-------------------------- MODULE GovernanceEvidence --------------------------
(***************************************************************************)
(* Documents about a system under change and under supervision: the        *)
(* envelope it declares to adapt in, the signal that it left it, the       *)
(* lifecycle of both, a vendor's change of model, the monitoring of a      *)
(* period and the notifications of an incident.  Times are days.           *)
(***************************************************************************)
EXTENDS EvidenceDocument

-----------------------------------------------------------------------------
(* Declared adaptation envelope *)

ADAPTATION_OPERATOR_ROLES == {"provider", "deployer"}
ADAPTATION_REGULATORY_FRAMINGS ==
    {"eu_art_43_4_envelope", "eu_art_26_monitoring", "naic_exhibit_c_drift",
     "owasp_level_3_governance"}
ADAPTATION_BREACH_ACTIONS == {"signal_substantial_modification", "alert_only", "auto_revert"}
BOUND_DIGEST_FIELDS ==
    {"policy_hash", "tool_catalog_fingerprint", "memory_root_hash", "mcp_manifest_fingerprint",
     "tool_allowlist_digest"}

sortFramings(framings) == framings \cap ADAPTATION_REGULATORY_FRAMINGS

\* [metric_id, max_delta, max_absolute, breach_action]
normalizeThresholds(thresholds) ==
    {[t EXCEPT !.breach_action = IF @ \in ADAPTATION_BREACH_ACTIONS THEN @ ELSE "alert_only"] :
       t \in {u \in thresholds : u.metric_id # NULL}}

normalizeReviewGates(gates) == {g \in gates : g.gate_id # NULL}

NoReversion ==
    [auto_revert_on_breach |-> FALSE, revert_to_baseline_entry_hash |-> NULL,
     human_review_gate_id |-> NULL]

\* The entry hash of the envelope is not under its digest.
buildDeclaredAdaptationEnvelopePreimage(input) ==
    [Without(input, {"envelope_entry_hash"}) EXCEPT
       !.regulatory_framings = sortFramings(Items(@)),
       !.monitored_metrics = Items(@) \ {NULL},
       !.drift_thresholds = normalizeThresholds(Items(@)),
       !.reversion_rules = Default(@, NoReversion),
       !.human_review_gates = normalizeReviewGates(Items(@))]

buildDeclaredAdaptationEnvelopeDocument(input) ==
    Seal(buildDeclaredAdaptationEnvelopePreimage(input), "envelope_digest")
    @@ [envelope_entry_hash |-> input.envelope_entry_hash]

\* A deployer that claims the provider's article must state its own too.
validateAdaptationOperatorFraming(role, framings) ==
    LET known == sortFramings(framings) IN
    /\ role = "deployer" /\ "eu_art_43_4_envelope" \in known => "eu_art_26_monitoring" \in known
    /\ role = "provider" => known # {}

\* snapshot: [observed_at, bounds, metric_values].  A bound or metric only one
\* side states is passed over; max_delta is not looked at.
evaluateAdaptationEnvelopeDrift(envelope, snapshot) ==
    LET observed(f) == At(At(snapshot, "bounds"), f)
        value(m) == Get(snapshot.metric_values, m)
        bounds == {f \in BOUND_DIGEST_FIELDS : envelope.bounds[f] # NULL /\ observed(f) # NULL}
        metrics == {t \in Items(envelope.drift_thresholds) :
                      t.metric_id # NULL /\ value(t.metric_id) # NULL}
        breaches ==
          {[kind |-> "bound_mismatch", of |-> f] : f \in {g \in bounds : observed(g) # envelope.bounds[g]}}
          \cup {[kind |-> "metric_threshold", of |-> t.metric_id] :
                  t \in {u \in metrics : u.max_absolute # NULL /\ value(u.metric_id) > u.max_absolute}}
        insufficient == envelope.bounds = NULL \/ At(snapshot, "observed_at") = NULL
    IN CASE insufficient -> [status |-> "insufficient_snapshot", breaches |-> {}]
         [] ~insufficient /\ bounds = {} /\ metrics = {} ->
              [status |-> "insufficient_snapshot", breaches |-> {}]
         [] OTHER -> [status |-> IF breaches # {} THEN "breach" ELSE "inside_envelope",
                      breaches |-> breaches]

verifyDeclaredAdaptationEnvelopeBundle(doc, requireEnvelopeEntryHash) ==
    LET framings == Items(doc.regulatory_framings) IN
    /\ Present(doc, {"organization_id", "system_id", "declared_at", "bounds"})
    /\ doc.operator_role \in ADAPTATION_OPERATOR_ROLES
    /\ framings # {} /\ framings \subseteq ADAPTATION_REGULATORY_FRAMINGS
    /\ validateAdaptationOperatorFraming(doc.operator_role, framings)
    /\ Present(doc.bounds, {"policy_hash", "tool_catalog_fingerprint"})
    /\ doc.envelope_digest =
         buildDeclaredAdaptationEnvelopePreimage(Without(doc, {"envelope_digest"}))
    /\ requireEnvelopeEntryHash => doc.envelope_entry_hash # NULL

-----------------------------------------------------------------------------
(* What a transparency service is told of an envelope and of a breach *)

ScittAlignment(profile, record) ==
    [profile |-> profile, record |-> record, evidence_custodian_role |-> "transparency_service"]

applyAdaptationEnvelopeScittAlignment(doc, entryHash) ==
    doc @@ [scitt_alignment |->
      ScittAlignment("SCITT-adaptation-envelope",
        Only(doc, {"system_id", "organization_id", "operator_role", "declared_at", "envelope_digest"})
        @@ [entry_hash |-> Default(entryHash, doc.envelope_entry_hash),
            policy_hash |-> At(doc.bounds, "policy_hash"),
            tool_catalog_fingerprint |-> At(doc.bounds, "tool_catalog_fingerprint")])]

applySubstantialModificationScittAlignment(doc, entryHash) ==
    doc @@ [scitt_alignment |->
      ScittAlignment("SCITT-adaptation-breach",
        Only(doc, {"system_id", "organization_id", "operator_role", "envelope_digest", "drift_status",
                   "signal_digest", "drift_witness_entry_hash"})
        @@ [entry_hash |-> Default(entryHash, doc.signal_entry_hash)])]

\* The alignment is judged by itself, not against the document it is of.
AlignmentValid(alignment, profile, fields) ==
    /\ alignment # NULL
    /\ alignment.profile = profile
    /\ alignment.record # NULL /\ Present(alignment.record, fields)
    /\ alignment.evidence_custodian_role = "transparency_service"

validateAdaptationEnvelopeScittAlignment(alignment) ==
    AlignmentValid(alignment, "SCITT-adaptation-envelope", {"system_id", "envelope_digest"})

validateSubstantialModificationScittAlignment(alignment) ==
    /\ AlignmentValid(alignment, "SCITT-adaptation-breach",
                      {"system_id", "envelope_digest", "signal_digest"})
    /\ alignment.record.drift_status = "breach"

-----------------------------------------------------------------------------
(* Signal of a substantial modification *)

\* signals: what the framing says, by the operator's role.
buildSubstantialModificationSignalFraming(role, breachCount, framings) ==
    [pack_kind |-> IF role = "deployer" THEN "deployer" ELSE "provider",
     breached |-> breachCount > 0,
     signals |-> (IF role = "deployer"
                  THEN {"eu_art_26_monitoring_signal"} \cup (framings \cap {"naic_exhibit_c_drift"})
                  ELSE {"eu_art_43_4_signal", "eu_art_25_provider_context"})
                 \cup (framings \cap {"owasp_level_3_governance"})]

validateSubstantialModificationSignalFraming(role, framing) ==
    /\ role \in ADAPTATION_OPERATOR_ROLES
    /\ framing # NULL
    /\ framing.pack_kind = role
    /\ role = "deployer" => "eu_art_43_4_signal" \notin Items(framing.signals)
    /\ role = "provider" => "eu_art_26_monitoring_signal" \notin Items(framing.signals)

normalizeComposedMembers(members) ==
    {m \in members : m.member_schema # NULL /\ m.member_digest # NULL}

buildSubstantialModificationSignalPreimage(input) ==
    [Without(input, {"signal_entry_hash"}) EXCEPT
       !.drift_status = "breach", !.breaches = Items(@),
       !.contributing_entry_hashes = Items(@) \ {NULL},
       !.composed_members = normalizeComposedMembers(Items(@))]

buildSubstantialModificationSignalDocument(input) ==
    Seal(buildSubstantialModificationSignalPreimage(input), "signal_digest")
    @@ [signal_entry_hash |-> input.signal_entry_hash]

\* The framing's word on the breach is not compared with the breaches.
verifySubstantialModificationSignalBundle(doc, requireSignalEntryHash, requireContributing) ==
    /\ Present(doc, {"organization_id", "system_id", "envelope_digest", "runtime_snapshot_digest",
                     "generated_at"})
    /\ doc.drift_status = "breach" /\ Items(doc.breaches) # {}
    /\ validateSubstantialModificationSignalFraming(doc.operator_role, doc.regulatory_framing)
    /\ Cardinality(Items(doc.composed_members)) >= 2
    /\ doc.signal_digest =
         buildSubstantialModificationSignalPreimage(Without(doc, {"signal_digest"}))
    /\ requireSignalEntryHash => doc.signal_entry_hash # NULL
    /\ requireContributing => Items(doc.contributing_entry_hashes) # {}

-----------------------------------------------------------------------------
(* Lifecycle: the envelope, the witnessed drift and the signal *)

LIFECYCLE_REQUIRED_MEMBERS == {"declared_adaptation_envelope", "adaptation_drift_witness_timeline"}

\* An entry without an index of its own has its place; entries without a time or
\* a snapshot are dropped.
normalizeAdaptationDriftWitnessTimeline(entries) ==
    LET indexed == [k \in DOMAIN entries |-> [entries[k] EXCEPT !.sequence_index = Default(@, k - 1)]]
    IN OrderedBy(SelectSeq(indexed, LAMBDA e : Present(e, {"observed_at", "runtime_snapshot_digest"})),
                 "sequence_index")

buildAdaptationDriftWitnessTimelineDigest(entries) == normalizeAdaptationDriftWitnessTimeline(entries)

deriveLifecycleReadiness(envelopeOk, timeline, signalOk, thirdParty) ==
    CASE ~envelopeOk -> "incomplete"
      [] envelopeOk /\ timeline = <<>> -> "partial"
      [] OTHER -> IF thirdParty /\ (Last(timeline).drift_status = "breach" => signalOk)
                  THEN "export_ready" ELSE "partial"

buildLifecycleAssertionsBlock(thirdParty, envelopeOk, timeline, signalPresent, signalOk) ==
    [third_party_verifiable |-> thirdParty, envelope_member_verified |-> envelopeOk,
     drift_timeline_present |-> timeline # <<>>, breach_signal_present |-> signalPresent,
     breach_signal_verified |-> signalOk,
     lifecycle_readiness |->
       deriveLifecycleReadiness(envelopeOk, timeline, signalPresent /\ signalOk, thirdParty)]

\* The members themselves are not under the digest.  No hashes stated: those of
\* the timeline.
buildAdaptationLifecycleExportPreimage(input) ==
    LET timeline == normalizeAdaptationDriftWitnessTimeline(List(input.drift_witness_timeline))
        witnesses == {timeline[k].witness_entry_hash : k \in DOMAIN timeline} \ {NULL}
    IN [Without(input, {"member_documents", "disclaimer"}) EXCEPT
          !.drift_witness_timeline = timeline,
          !.drift_witness_timeline_digest =
             buildAdaptationDriftWitnessTimelineDigest(List(input.drift_witness_timeline)),
          !.ordered_witness_entry_hashes = IF Items(@) # {} THEN Items(@) \ {NULL} ELSE witnesses,
          !.composed_members = Items(@)]

\* input.lifecycle_assertions: whether third parties can verify.  The caller says
\* which members verified.
buildAdaptationLifecycleExportDocument(input, envelopeOk, signalOk) ==
    LET signal == input.member_documents.substantial_modification_signal
        timeline == normalizeAdaptationDriftWitnessTimeline(input.drift_witness_timeline)
        preimage ==
          buildAdaptationLifecycleExportPreimage(
            ("drift_witness_timeline_digest" :> NULL) @@
            [input EXCEPT !.lifecycle_assertions =
               buildLifecycleAssertionsBlock(@, envelopeOk, timeline, signal # NULL, signalOk)])
    IN Seal(preimage, "lifecycle_export_digest") @@ [member_documents |-> input.member_documents]

\* The envelope and the signal are verified again; the composed references are
\* believed, and the readiness too.
verifyAdaptationLifecycleExportBundle(doc, requireBreachSignalWhenBreach) ==
    LET members == doc.member_documents
        entries == List(doc.drift_witness_timeline)
        timeline == normalizeAdaptationDriftWitnessTimeline(entries)
        signal == At(members, "substantial_modification_signal")
        signalOk == signal # NULL => verifySubstantialModificationSignalBundle(signal, FALSE, FALSE)
        breachArc == timeline # <<>> /\ Last(timeline).drift_status = "breach"
    IN /\ Present(doc, {"organization_id", "system_id", "lifecycle_window", "lifecycle_assertions"})
       /\ Present(doc.lifecycle_window, {"started_at", "ended_at"})
       /\ At(members, "declared_adaptation_envelope") # NULL
       /\ verifyDeclaredAdaptationEnvelopeBundle(members.declared_adaptation_envelope, FALSE)
       /\ doc.drift_witness_timeline_digest = buildAdaptationDriftWitnessTimelineDigest(entries)
       /\ \A schema \in LIFECYCLE_REQUIRED_MEMBERS :
            \E m \in Items(doc.composed_members) : m.member_schema = schema /\ m.verify_ok = TRUE
       /\ (breachArc /\ requireBreachSignalWhenBreach) => signal # NULL /\ signalOk
       /\ doc.lifecycle_export_digest =
            buildAdaptationLifecycleExportPreimage(Without(doc, {"lifecycle_export_digest"}))
       /\ doc.lifecycle_assertions.lifecycle_readiness \in {"export_ready", "partial", "incomplete"}

-----------------------------------------------------------------------------
(* A vendor's change of model, and the policy at that time *)

buildModelFingerprintDigest(fingerprint) == <<"model-fingerprint", fingerprint>>

buildVendorModelChangePreimage(input) ==
    Spread(input,
      [model_fingerprint_digest_before |-> buildModelFingerprintDigest(input.model_fingerprint_before),
       model_fingerprint_digest_after |-> buildModelFingerprintDigest(input.model_fingerprint_after)])

buildVendorModelChangeDocument(input) == Seal(buildVendorModelChangePreimage(input), "change_digest")

\* The fingerprint digests the document states are computed again and not compared.
verifyVendorModelChange(doc) ==
    /\ Present(doc, {"organization_id", "vendor_id", "change_id", "effective_at",
                     "model_fingerprint_before", "model_fingerprint_after"})
    /\ doc.model_fingerprint_before # doc.model_fingerprint_after
    /\ doc.change_digest =
         buildVendorModelChangePreimage([Without(doc, {"change_digest"}) EXCEPT
                                           !.change_type = Default(@, "model_version")])

\* Hours from a notification to the change; none without both times.
MIN_VENDOR_NOTIFICATION_LEAD_HOURS == 48
computeLeadTimeHours(notifiedAt, effectiveAt) ==
    IF NULL \in {notifiedAt, effectiveAt} THEN NULL ELSE 24 * (effectiveAt - notifiedAt)

buildPolicyAtChangeSnapshotDocument(input) == Seal(input, "policy_at_change_digest")

verifyPolicyAtChangeSnapshot(doc) ==
    /\ Present(doc, {"organization_id", "change_id", "policy_version_hash"})
    /\ Sealed(doc, "policy_at_change_digest")

-----------------------------------------------------------------------------
(* Monitoring of a period *)

MonitoringMetrics ==
    {"agents_under_monitoring", "material_sessions_observed", "hitl_interventions", "denied_actions",
     "serious_incidents_in_period", "shadow_agents_detected"}

countObligationsByStatus(rows, status) == Cardinality({r \in rows : r.status = status})

\* A partly met obligation does not keep an export from being ready.
deriveMonitoringReadiness(obligations, membersVerified) ==
    IF ~membersVerified \/ countObligationsByStatus(obligations, "gap") > 0
    THEN "insufficient" ELSE "export_ready"

ObligationCounts(rows) ==
    [obligation_count |-> Cardinality(rows),
     obligations_met_count |-> countObligationsByStatus(rows, "met"),
     obligations_partial_count |-> countObligationsByStatus(rows, "partial"),
     obligations_gap_count |-> countObligationsByStatus(rows, "gap")]

buildPostMarketMonitoringSnapshotPreimage(input) ==
    Spread([input EXCEPT !.art72_obligations = Items(@),
              !.monitoring_metrics = [m \in MonitoringMetrics |-> Default(At(@, m), 0)]],
           ObligationCounts(Items(input.art72_obligations)))

buildPostMarketMonitoringSnapshotDocument(input) ==
    Seal(buildPostMarketMonitoringSnapshotPreimage(input), "snapshot_digest")

verifyPostMarketMonitoringSnapshot(doc) ==
    LET counts == ObligationCounts(Items(doc.art72_obligations)) IN
    /\ Present(doc, {"organization_id", "period_label", "period_start", "period_end"})
    /\ counts.obligation_count >= 3
    /\ \A f \in DOMAIN counts : doc[f] = counts[f]
    /\ doc.snapshot_digest = buildPostMarketMonitoringSnapshotPreimage(Without(doc, {"snapshot_digest"}))

-----------------------------------------------------------------------------
(* Notifications of an incident *)

NCA_NOTIFICATION_DEADLINE_DAYS == 15

computeNcaNotificationDeadline(awarenessAt) ==
    IF awarenessAt = NULL THEN NULL ELSE awarenessAt + NCA_NOTIFICATION_DEADLINE_DAYS

buildMilestonesDigest(milestones) == OrderedBy(milestones, "occurred_at")

\* Asked of the sorted list, so that it is their number that counts.
areMilestonesChronological(milestones) ==
    LET sorted == OrderedBy(milestones, "occurred_at") IN
    /\ Len(milestones) >= 2
    /\ \A k \in 2..Len(sorted) : sorted[k - 1].occurred_at <= sorted[k].occurred_at

findMilestoneAtOrBefore(milestones, type) ==
    LET of == Where(milestones, "milestone_type", type) IN IF of = <<>> THEN NULL ELSE Head(of)

\* The first notification of the list, in the order it is given.
evaluateTimelineCompliance(milestones, awarenessAt, deadlineAt) ==
    LET at == At(findMilestoneAtOrBefore(milestones, "nca_notification"), "occurred_at") IN
    [nca_deadline_met |-> at # NULL /\ deadlineAt # NULL /\ at <= deadlineAt,
     milestones_chronological |-> areMilestonesChronological(milestones),
     nca_notification_at |-> at,
     hours_to_nca_notification |-> computeLeadTimeHours(awarenessAt, at)]

deriveTimelineReadiness(compliance, hasCustody) ==
    CASE compliance.nca_deadline_met /\ compliance.milestones_chronological /\ hasCustody ->
           "nca_compliant"
      [] compliance.nca_notification_at # NULL /\ ~compliance.nca_deadline_met -> "deadline_missed"
      [] OTHER -> "partial"

buildIncidentNotificationTimelinePreimage(input) ==
    LET milestones == List(input.milestones) IN
    Spread([input EXCEPT !.milestones = OrderedBy(milestones, "occurred_at")],
           [nca_notification_deadline_at |->
              computeNcaNotificationDeadline(input.serious_incident_awareness_at),
            milestone_count |-> Len(milestones),
            milestones_digest |-> buildMilestonesDigest(milestones)])

buildIncidentNotificationTimelineDocument(input) ==
    Seal(buildIncidentNotificationTimelinePreimage(input), "timeline_digest")

verifyIncidentNotificationTimeline(doc) ==
    LET milestones == List(doc.milestones)
        deadline == computeNcaNotificationDeadline(doc.serious_incident_awareness_at)
    IN /\ Present(doc, {"organization_id", "incident_id", "serious_incident_awareness_at"})
       /\ doc.nca_notification_deadline_at = deadline
       /\ doc.milestones_digest = buildMilestonesDigest(milestones)
       /\ doc.milestone_count = Len(milestones)
       /\ evaluateTimelineCompliance(milestones, doc.serious_incident_awareness_at,
                                     deadline).milestones_chronological
       /\ doc.timeline_digest =
            buildIncidentNotificationTimelinePreimage(Without(doc, {"timeline_digest"}))

buildIncidentCustodyManifestDigest(manifest) ==
    Only(manifest, {"schema", "incident_ref", "freeze_anchor_entry_hash", "file_integrity"})
=============================================================================
