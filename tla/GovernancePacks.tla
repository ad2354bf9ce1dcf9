---------------------------- MODULE GovernancePacks ----------------------------
(***************************************************************************)
(* Packs for a supervisor or a buyer: the notifications of an incident, a  *)
(* vendor's notice of a model change and the export of post-market         *)
(* monitoring.  Each carries a summary of its first member and the digests *)
(* that bind the members to it.                                            *)
(***************************************************************************)
EXTENDS IndependencePacks, GovernanceEvidence

-----------------------------------------------------------------------------
(* Notifications of an incident *)

CustodyFiles == {"freeze_receipt", "receipt_index", "legal_holds"}

validateIncidentCustodyPackManifest(manifest) ==
    /\ Present(manifest, {"incident_custody_pack_format_version", "product", "sku", "schema",
                          "incident_ref", "freeze_anchor_entry_hash", "file_integrity"})
    /\ \A file \in CustodyFiles : manifest.file_integrity[file] # NULL

TimelineFlags ==
    {"nca_deadline_met", "milestones_chronological", "custody_evidence_bound", "third_party_verifiable"}

\* Whether the deadline was met is the caller's word, here and in the verifier.
StatedCompliance(assertions) ==
    [nca_deadline_met |-> assertions.nca_deadline_met = TRUE,
     milestones_chronological |-> assertions.milestones_chronological = TRUE,
     nca_notification_at |-> assertions.nca_notification_at]

buildTimelineAssertionsBlock(input, members) ==
    LET custody == "custody_manifest" \in Asserted(members) IN
    [input EXCEPT !.custody_evidence_bound = @ \/ custody]
    @@ [timeline_readiness |-> deriveTimelineReadiness(StatedCompliance(input), custody)]

buildIncidentNotificationTimelinePackPreimage(doc) ==
    [extractComposedPackSurface(doc) EXCEPT
       !.timeline_assertions = Flags(@, TimelineFlags),
       !.notification_timeline.milestone_count = Default(@, 0),
       !.timeline_session_binding = Flags(@, {"normalization_bound"})]

buildIncidentNotificationTimelinePackDocument(input) ==
    Seal(buildIncidentNotificationTimelinePackPreimage(
           [input EXCEPT !.timeline_assertions =
              buildTimelineAssertionsBlock(@, input.composed_members)]), "pack_digest")

timelineMemberOk(schema, embedded) ==
    CASE schema = "notification_timeline" -> verifyIncidentNotificationTimeline(embedded)
      [] schema = "custody_manifest" -> validateIncidentCustodyPackManifest(embedded)
      [] schema = "conduct_manifest" -> verifyTraceableConductManifest(embedded)
      [] OTHER -> FALSE

verifyIncidentNotificationTimelinePack(doc) ==
    \E m \in {resolveComposedMemberVerifyState(
               doc, [s \in DOMAIN Entries(doc.member_documents) |->
                       timelineMemberOk(s, doc.member_documents[s])])} :
    LET binding == doc.timeline_session_binding
        summary == doc.notification_timeline
        assertions == doc.timeline_assertions
        derived == deriveTimelineReadiness(StatedCompliance(assertions), "custody_manifest" \in m.ok)
    IN /\ Present(doc, {"organization_id", "incident_id", "timeline_session_binding",
                        "notification_timeline", "timeline_assertions"})
       /\ ProvenMembers(m, 2)
       /\ BoundToMembers(binding, [timeline_digest |-> "notification_timeline",
                                   custody_manifest_digest |-> "custody_manifest",
                                   conduct_manifest_digest |-> "conduct_manifest"], m.rows)
       /\ binding.incident_id = doc.incident_id
       /\ summary.milestones_digest # NULL /\ summary.timeline_digest = binding.timeline_digest
       /\ {"notification_timeline", "custody_manifest", "conduct_manifest"} \subseteq m.ok
       /\ assertions.third_party_verifiable = TRUE
       /\ derived = "nca_compliant" =>
            assertions.custody_evidence_bound = TRUE /\ binding.normalization_bound = TRUE
       /\ derived = "deadline_missed" => assertions.nca_deadline_met = FALSE
       /\ assertions.timeline_readiness = derived
       /\ doc.pack_digest = buildIncidentNotificationTimelinePackPreimage(doc)

-----------------------------------------------------------------------------
(* A vendor's notice of a model change *)

buildVendorNotificationDigest(organizationId, notification, changeDigest) ==
    Only(notification, {"vendor_id", "notified_at", "notification_channel", "notification_statement"})
    @@ [organization_id |-> organizationId, change_digest |-> changeDigest]

LeadTime(notification, change) == computeLeadTimeHours(notification.notified_at, change.effective_at)
LeadTimeMet(hours) == hours # NULL /\ hours >= MIN_VENDOR_NOTIFICATION_LEAD_HOURS

deriveNotificationReadiness(leadTimeMet, vendorNotified, membersVerified, fingerprintsBound) ==
    CASE vendorNotified /\ leadTimeMet /\ membersVerified /\ fingerprintsBound -> "procurement_ready"
      [] vendorNotified /\ ~(leadTimeMet /\ membersVerified /\ fingerprintsBound)
           /\ (membersVerified \/ fingerprintsBound) -> "partial"
      [] OTHER -> "unverified"

ChangeMembers == {"vendor_change", "policy_at_change", "conduct_manifest"}

\* The caller may say that the lead time was met when it was not.
buildNotificationAssertionsBlock(input, hours, members, bound) ==
    LET met == LeadTimeMet(hours) \/ input.lead_time_met
        fingerprints == bound \/ input.fingerprints_bound
    IN [input EXCEPT !.lead_time_met = met, !.fingerprints_bound = fingerprints] @@
       [notification_readiness |->
          deriveNotificationReadiness(met, input.vendor_notified,
                                      ChangeMembers \subseteq Asserted(members), fingerprints),
        lead_time_hours |-> hours, min_lead_time_hours |-> MIN_VENDOR_NOTIFICATION_LEAD_HOURS]

NotificationFlags == {"vendor_notified", "lead_time_met", "fingerprints_bound", "third_party_verifiable"}

\* The lead time is computed here and not read from the pack.
buildModelChangeNotificationPackPreimage(doc) ==
    LET hours == LeadTime(doc.vendor_notification, doc.vendor_model_change)
    IN [extractComposedPackSurface(doc) EXCEPT
          !.vendor_notification =
             [required |-> TRUE, lead_time_hours |-> hours,
              notification_channel |-> Default(@.notification_channel, "vendor_portal")] @@ @,
          !.notification_assertions =
             [lead_time_hours |-> hours, min_lead_time_hours |-> MIN_VENDOR_NOTIFICATION_LEAD_HOURS]
             @@ Flags(@, NotificationFlags),
          !.change_session_binding = Flags(@, {"normalization_bound"})]

buildVendorNotificationBlock(input, organizationId, change) ==
    input @@ [required |-> TRUE, lead_time_hours |-> LeadTime(input, change),
              notification_digest |->
                buildVendorNotificationDigest(organizationId, input, change.change_digest)]

buildModelChangeNotificationPackDocument(input) ==
    LET change == input.vendor_model_change
        binding == input.change_session_binding
        block == buildVendorNotificationBlock(input.vendor_notification, input.organization_id, change)
        bound == /\ binding.notification_digest = block.notification_digest
                 /\ binding.change_digest = change.change_digest
    IN Seal(buildModelChangeNotificationPackPreimage(
              [input EXCEPT
                 !.vendor_notification = block,
                 !.notification_assertions =
                   buildNotificationAssertionsBlock(@, block.lead_time_hours,
                                                    input.composed_members, bound)]), "pack_digest")

changeMemberOk(schema, embedded) ==
    CASE schema = "vendor_change" -> verifyVendorModelChange(embedded)
      [] schema = "policy_at_change" -> verifyPolicyAtChangeSnapshot(embedded)
      [] schema = "conduct_manifest" -> verifyTraceableConductManifest(embedded)
      [] OTHER -> FALSE

\* The readiness is the pack's own: what it entails is asked of it.
verifyModelChangeNotificationPack(doc) ==
    \E m \in {resolveComposedMemberVerifyState(
               doc, [s \in DOMAIN Entries(doc.member_documents) |->
                       changeMemberOk(s, doc.member_documents[s])])} :
    LET binding == doc.change_session_binding
        change == doc.vendor_model_change
        notification == doc.vendor_notification
        assertions == doc.notification_assertions
    IN /\ Present(doc, {"organization_id", "change_id", "change_session_binding", "vendor_model_change",
                        "vendor_notification", "notification_assertions"})
       /\ ProvenMembers(m, 3)
       /\ BoundToMembers(binding, [change_digest |-> "vendor_change",
                                   policy_at_change_digest |-> "policy_at_change"], m.rows)
       /\ binding.change_digest = change.change_digest /\ binding.change_id = doc.change_id
       /\ binding.notification_digest = notification.notification_digest
       /\ notification.notification_digest =
            buildVendorNotificationDigest(doc.organization_id,
              [notification EXCEPT !.notification_channel = Default(@, "vendor_portal")],
              change.change_digest)
       /\ ChangeMembers \subseteq m.ok
       /\ assertions.third_party_verifiable = TRUE
       /\ assertions.notification_readiness = "procurement_ready" =>
            /\ \A f \in NotificationFlags : assertions[f] = TRUE
            /\ LeadTimeMet(LeadTime(notification, change))
            /\ binding.normalization_bound = TRUE
       /\ assertions.notification_readiness = "partial" => assertions.vendor_notified = TRUE
       /\ doc.pack_digest = buildModelChangeNotificationPackPreimage(doc)

-----------------------------------------------------------------------------
(* The export of post-market monitoring *)

MonitoringMembers == {"monitoring_snapshot", "census_pack", "conduct_manifest"}

MonitoringFlags ==
    {"period_complete", "conduct_evidence_bound", "census_inventory_bound", "iso42001_shape_valid",
     "third_party_verifiable"}

buildMonitoringAssertionsBlock(input, members, gaps, partial) ==
    LET ok == Asserted(members)
        ready == MonitoringMembers \subseteq ok /\ gaps = 0
    IN [input EXCEPT !.conduct_evidence_bound = @ \/ "conduct_manifest" \in ok,
                     !.census_inventory_bound = @ \/ "census_pack" \in ok,
                     !.iso42001_shape_valid = @ /\ "monitoring_snapshot" \in ok] @@
       [monitoring_readiness |->
          CASE ready -> "export_ready"
            [] /\ ~ready /\ "monitoring_snapshot" \in ok
               /\ ok \cap {"census_pack", "conduct_manifest"} # {} -> "partial"
            [] OTHER -> "insufficient",
        obligation_gap_count |-> gaps, obligation_partial_count |-> partial]

\* The assertions about a period of monitoring, and its summary, as the digest has them.
MonitoringForm(x) ==
    [Flags(x, MonitoringFlags) EXCEPT !.obligation_gap_count = Default(@, 0),
                                      !.obligation_partial_count = Default(@, 0)]

SummaryForm(x) ==
    [x EXCEPT !.obligation_count = Default(@, 0), !.obligations_met_count = Default(@, 0),
              !.obligations_partial_count = Default(@, 0)]

buildPostMarketMonitoringExportPackPreimage(doc) ==
    [extractComposedPackSurface(doc) EXCEPT
       !.monitoring_assertions = MonitoringForm(@),
       !.post_market_monitoring_snapshot = SummaryForm(@),
       !.monitoring_session_binding = Flags(@, {"normalization_bound"})]

\* More obligations met than there are leave no gap.
buildPostMarketMonitoringExportPackDocument(input) ==
    LET s == input.post_market_monitoring_snapshot
        done == s.obligations_met_count + s.obligations_partial_count
        gaps == IF done > s.obligation_count THEN 0 ELSE s.obligation_count - done
    IN Seal(buildPostMarketMonitoringExportPackPreimage(
              [input EXCEPT !.monitoring_assertions =
                 buildMonitoringAssertionsBlock(@, input.composed_members, gaps,
                                                s.obligations_partial_count)]), "pack_digest")

monitoringMemberOk(schema, embedded) ==
    CASE schema = "monitoring_snapshot" -> verifyPostMarketMonitoringSnapshot(embedded)
      [] schema = "census_pack" -> verifyAgentCensusCompletenessPack(embedded)
      [] schema = "conduct_manifest" -> verifyTraceableConductManifest(embedded)
      [] OTHER -> FALSE

\* How many gaps there are is the pack's word: it is not counted again.
verifyPostMarketMonitoringExportPack(doc) ==
    \E m \in {resolveComposedMemberVerifyState(
               doc, [s \in DOMAIN Entries(doc.member_documents) |->
                       monitoringMemberOk(s, doc.member_documents[s])])} :
    LET binding == doc.monitoring_session_binding
        summary == doc.post_market_monitoring_snapshot
        assertions == doc.monitoring_assertions
    IN /\ Present(doc, {"organization_id", "period_label", "monitoring_session_binding",
                        "post_market_monitoring_snapshot", "monitoring_assertions"})
       /\ ProvenMembers(m, 3)
       /\ BoundToMembers(binding, [snapshot_digest |-> "monitoring_snapshot",
                                   census_pack_digest |-> "census_pack",
                                   conduct_manifest_digest |-> "conduct_manifest"], m.rows)
       /\ binding.period_label = doc.period_label
       /\ summary.snapshot_digest = binding.snapshot_digest
       /\ MonitoringMembers \subseteq m.ok
       /\ assertions.third_party_verifiable = TRUE
       /\ assertions.monitoring_readiness = "export_ready" =>
            /\ \A f \in MonitoringFlags : assertions[f] = TRUE
            /\ Default(assertions.obligation_gap_count, 0) = 0
            /\ binding.normalization_bound = TRUE
       /\ doc.pack_digest = buildPostMarketMonitoringExportPackPreimage(doc)
=============================================================================
