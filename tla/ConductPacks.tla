------------------------------ MODULE ConductPacks ------------------------------
(***************************************************************************)
(* Composed packs about what agents did and who holds the evidence of it:  *)
(* a denial, conduct on the platforms of several vendors, logs in the      *)
(* deployer's custody and custody that outlives a licence.  Every pack has *)
(* the same life: the builder goes by what its member rows say of          *)
(* themselves, the verifier verifies the members again (PackMembers).      *)
(***************************************************************************)
EXTENDS PackMembers, CustodianEvidence, ReadinessEvidence

CONSTANT AlignmentLevel(_, _)

\* Liability receipts and the manifest of their set.
Cap == INSTANCE CompositionClosure

-----------------------------------------------------------------------------
(* A denial a third party can verify *)

ENFORCEMENT_PLANES == {"ai_agent_gateway", "runtime_pep", "kill_switch", "gateway_attestation"}

deriveDenialReadiness(ok) ==
    CASE {"liability_receipt", "set_completeness", "shutdown_drill"} \subseteq ok -> "complete"
      [] {"liability_receipt", "set_completeness"} \subseteq ok /\ "shutdown_drill" \notin ok -> "partial"
      [] OTHER -> "denial_only"

DenialFlags == {"pre_execution", "execution_occurred", "third_party_verifiable",
                "completeness_bound", "silence_window_observed"}

\* A member that says it verified binds what it is about, whatever the exporter says.
buildDenialAssertionsBlock(input, members) ==
    LET ok == Asserted(members) IN
    [input EXCEPT !.completeness_bound = @ \/ "set_completeness" \in ok,
                  !.silence_window_observed = @ \/ "shutdown_drill" \in ok]
    @@ [denial_readiness |-> deriveDenialReadiness(ok)]

buildVerifiableDenialEvidencePackPreimage(doc) ==
    [extractComposedPackSurface(doc) EXCEPT !.denial_assertions = Flags(@, DenialFlags)]

buildVerifiableDenialEvidencePackDocument(input) ==
    Seal(buildVerifiableDenialEvidencePackPreimage(
           [input EXCEPT !.denial_assertions =
              buildDenialAssertionsBlock(@, input.composed_members)]), "pack_digest")

\* A manifest that comes without its terminal receipt.
verifySetCompletenessAlone(manifest) ==
    /\ manifest.declared_count >= 1
    /\ Cap!checkContiguousSteps(manifest.members, manifest.declared_count)
    /\ manifest.set_root = Cap!computeSetCompletenessRoot(manifest.session_id,
                             manifest.declared_count, manifest.members)
    /\ manifest.terminal_receipt_digest # NULL =>
         \E n \in DOMAIN manifest.members :
           manifest.members[n].receipt_digest = manifest.terminal_receipt_digest

\* That the receipt is of a denial is not asked.
denialMemberOk(schema, embedded) ==
    CASE schema = "liability_receipt" ->
           Cap!verifyReceipt(embedded, [skipIntegritySignatureWithoutKey |-> TRUE,
                                        issuerPublicKey |-> FALSE])
      [] schema = "set_completeness" -> verifySetCompletenessAlone(embedded)
      [] schema = "shutdown_drill" -> verifyShutdownDrillBundle(embedded, NULL)
      [] OTHER -> FALSE

verifyVerifiableDenialEvidencePack(doc) ==
    \E m \in {resolveComposedMemberVerifyState(
               doc, [s \in DOMAIN Entries(doc.member_documents) |->
                       denialMemberOk(s, doc.member_documents[s])])} :
    LET derived == deriveDenialReadiness(m.ok)
        assertions == doc.denial_assertions
    IN /\ Present(doc, {"organization_id", "session_id", "denial_assertions"})
       /\ doc.enforcement_plane \in ENFORCEMENT_PLANES
       /\ ProvenMembers(m, 1)
       /\ assertions.pre_execution = TRUE /\ assertions.execution_occurred # TRUE
       /\ assertions.third_party_verifiable = TRUE
       /\ derived \in {"complete", "partial"} => assertions.completeness_bound = TRUE
       /\ {"liability_receipt", "set_completeness"} \subseteq m.ok
       /\ "shutdown_drill" \in DOMAIN m.rows => "shutdown_drill" \in m.ok
       /\ assertions.denial_readiness = derived
       /\ doc.pack_digest = buildVerifiableDenialEvidencePackPreimage(doc)

-----------------------------------------------------------------------------
(* The same conduct as two vendors report it *)

deriveCrossPlatformReadiness(ok, normalizationBound) ==
    LET unified == {"agt_conduct", "ap2_conduct", "conduct_manifest"} \subseteq ok /\ normalizationBound
    IN CASE unified -> "unified"
         [] ~unified /\ ok \cap {"agt_conduct", "ap2_conduct"} # {} -> "partial"
         [] OTHER -> "single_vendor"

CrossPlatformFlags == {"agt_normalized_to_ap2", "session_correlation_bound",
                       "multi_vendor_conduct_unified", "third_party_verifiable"}

\* Mutant: the readiness is graded before the sessions are found unbound.
MutantBuildCrossPlatformAssertionsBlock(input, members, normalizationBound) ==
    [input EXCEPT !.session_correlation_bound = @ /\ normalizationBound]
    @@ [cross_platform_readiness |-> deriveCrossPlatformReadiness(Asserted(members), TRUE)]

buildCrossPlatformAssertionsBlock(input, members, normalizationBound) ==
    LET rows == Entries(members)
        planes == {rows[s].vendor_plane : s \in DOMAIN rows} \ {NULL}
    IN [input EXCEPT !.session_correlation_bound = @ /\ normalizationBound,
                     !.multi_vendor_conduct_unified = @ \/ Cardinality(planes) >= 2]
       @@ [cross_platform_readiness |->
             deriveCrossPlatformReadiness(Asserted(members), normalizationBound)]

buildCrossPlatformConductPackPreimage(doc) ==
    [extractComposedPackSurface(doc) EXCEPT
       !.cross_platform_assertions = Flags(@, CrossPlatformFlags),
       !.vendor_session_binding = Flags(@, {"normalization_bound"})]

buildCrossPlatformConductPackDocument(input) ==
    Seal(buildCrossPlatformConductPackPreimage(
           [input EXCEPT !.cross_platform_assertions =
              buildCrossPlatformAssertionsBlock(@, input.composed_members,
                input.vendor_session_binding.normalization_bound)]), "pack_digest")

crossPlatformMemberOk(schema, embedded) ==
    CASE schema = "agt_conduct" -> verifyAgtConductReceipt(embedded)
      [] schema = "ap2_conduct" -> verifyAp2ConductReceipt(embedded)
      [] schema = "conduct_manifest" -> verifyTraceableConductManifest(embedded)
      [] OTHER -> FALSE

verifyCrossPlatformConductPack(doc) ==
    \E m \in {resolveComposedMemberVerifyState(
               doc, [s \in DOMAIN Entries(doc.member_documents) |->
                       crossPlatformMemberOk(s, doc.member_documents[s])])} :
    LET binding == doc.vendor_session_binding
        derived == deriveCrossPlatformReadiness(m.ok, binding.normalization_bound = TRUE)
        assertions == doc.cross_platform_assertions
    IN /\ Present(doc, {"organization_id", "cross_platform_assertions", "vendor_session_binding"})
       /\ ProvenMembers(m, 3)
       /\ BoundToMembers(binding, [agt_receipt_digest |-> "agt_conduct",
                                   ap2_conduct_digest |-> "ap2_conduct",
                                   conduct_manifest_digest |-> "conduct_manifest"], m.rows)
       /\ binding.correlation_id # NULL
       /\ assertions.third_party_verifiable = TRUE
       /\ derived = "unified" =>
            \A f \in CrossPlatformFlags : assertions[f] = TRUE
       /\ {"agt_conduct", "ap2_conduct", "conduct_manifest"} \subseteq m.ok
       /\ assertions.cross_platform_readiness = derived
       /\ doc.pack_digest = buildCrossPlatformConductPackPreimage(doc)

-----------------------------------------------------------------------------
(* Logs in the deployer's custody *)

DEPLOYER_RETENTION_MONTHS == 6

\* Times are months here.
computeRetentionUntil(generatedAt) == generatedAt + DEPLOYER_RETENTION_MONTHS

WitnessPathFields ==
    {"witness_cosign_enabled", "samples_ok", "independent_verify_base", "sample_entry_hashes"}

buildWitnessCustodyPathDigest(path) ==
    [Only(path, WitnessPathFields) EXCEPT !.witness_cosign_enabled = @ = TRUE,
                                          !.samples_ok = Default(@, 0),
                                          !.independent_verify_base = Default(@, "verify.aevesa.com"),
                                          !.sample_entry_hashes = Items(@)]

WitnessPathTaken(path) == path.witness_cosign_enabled = TRUE \/ Default(path.samples_ok, 0) > 0

deriveCustodyReadiness(ok) ==
    LET required == ok \cap {"flight_recorder", "conduct_manifest"}
        ready == Cardinality(required) = 2 /\ "witness_path" \in ok
    IN CASE ready -> "ready"
         [] ~ready /\ required # {} -> "partial"
         [] OTHER -> "insufficient"

CustodyFlags ==
    {"deployer_controlled", "vendor_admin_plane_independent", "independent_verify_path",
     "license_survivable"}

buildDeployerLogCustodyPackPreimage(input) ==
    LET mapped(x) == [Flags(x, {"article_12_logging_capability"}) EXCEPT
                        !.article_26_deployer_retention_months = Default(@, DEPLOYER_RETENTION_MONTHS)]
    IN [extractComposedPackSurface(input) EXCEPT
          !.custody_assertions = Flags(@, CustodyFlags),
          !.eu_ai_act_mapping = mapped(@),
          !.witness_custody_path = buildWitnessCustodyPathDigest(@)
            @@ [witness_custody_path_digest |-> buildWitnessCustodyPathDigest(@)]]

\* The builder adds the witness path to the members if nobody named it.
buildDeployerLogCustodyPackDocument(input) ==
    LET path == input.witness_custody_path
        members == Entries(input.composed_members)
                   @@ ("witness_path" :> [member_digest |-> buildWitnessCustodyPathDigest(path),
                                          verify_ok |-> WitnessPathTaken(path)])
    IN Seal(buildDeployerLogCustodyPackPreimage(
              [input EXCEPT !.composed_members = members,
                            !.retention_until = Default(@, computeRetentionUntil(input.generated_at))]
              @@ [custody_readiness |-> deriveCustodyReadiness(Asserted(members))]), "pack_digest")

verifyWitnessPath(path) ==
    path.witness_custody_path_digest = buildWitnessCustodyPathDigest(path) /\ WitnessPathTaken(path)

deployerMemberOk(schema, embedded) ==
    CASE schema = "flight_recorder" -> verifyFlightRecorderExport(embedded)
      [] schema = "conduct_manifest" -> verifyTraceableConductManifest(embedded)
      [] schema = "witness_path" -> verifyWitnessPath(embedded)
      [] OTHER -> FALSE

\* The digests of the members are not asked for here.
verifyDeployerLogCustodyPack(doc) ==
    \E m \in {resolveComposedMemberVerifyState(
               doc, [s \in DOMAIN Entries(doc.member_documents) |->
                       deployerMemberOk(s, doc.member_documents[s])])} :
    LET all == {"flight_recorder", "conduct_manifest", "witness_path"}
    IN /\ Present(doc, {"organization_id", "session_id", "retention_until", "eu_ai_act_mapping",
                        "custody_assertions", "traceable_conduct_manifest_digest", "witness_custody_path"})
       /\ doc.eu_ai_act_mapping.article_12_logging_capability \in BOOLEAN
       /\ doc.eu_ai_act_mapping.article_26_deployer_retention_months = DEPLOYER_RETENTION_MONTHS
       /\ doc.custody_assertions.deployer_controlled \in BOOLEAN
       /\ doc.custody_assertions.independent_verify_path \in BOOLEAN
       /\ doc.witness_custody_path.witness_custody_path_digest
            = buildWitnessCustodyPathDigest(doc.witness_custody_path)
       /\ all \subseteq DOMAIN m.rows /\ all \subseteq m.ok
       /\ m.memberProofPresent
       /\ doc.custody_readiness \in {"ready", "partial"}
       /\ doc.pack_digest = extractComposedPackSurface(doc)

-----------------------------------------------------------------------------
(* Custody that outlives the licence *)

derivePostTerminationReadiness(ok) ==
    CASE {"deployer_pack", "license_bundle"} \subseteq ok -> "complete"
      [] Cardinality(ok \cap {"deployer_pack", "license_bundle"}) = 1 -> "partial"
      [] OTHER -> "custody_only"

SurvivalFlags ==
    {"deployer_controlled", "vendor_admin_plane_independent", "license_survivable",
     "post_termination_verify", "third_party_verifiable"}

buildCustodySurvivalAssertionsBlock(input, members) ==
    LET ok == Asserted(members) IN
    [input EXCEPT !.license_survivable = @ \/ "license_bundle" \in ok]
    @@ [post_termination_readiness |-> derivePostTerminationReadiness(ok),
        deployer_custody_bound |-> "deployer_pack" \in ok]

buildLicenseSurvivableCustodyPackPreimage(doc) ==
    [extractComposedPackSurface(doc) EXCEPT
       !.custody_survival_assertions = Flags(@, SurvivalFlags \cup {"deployer_custody_bound"}),
       !.post_termination_verify = Flags(@, {"no_backend_required"})]

buildLicenseSurvivableCustodyPackDocument(input) ==
    Seal(buildLicenseSurvivableCustodyPackPreimage(
           [input EXCEPT !.custody_survival_assertions =
              buildCustodySurvivalAssertionsBlock(@, input.composed_members)]), "pack_digest")

licenseMemberOk(schema, embedded) ==
    CASE schema = "deployer_pack" -> verifyDeployerLogCustodyPack(embedded)
      [] schema = "license_bundle" -> verifyLicenseSurvivableBundle(embedded)
      [] OTHER -> FALSE

verifyLicenseSurvivableCustodyPack(doc) ==
    \E m \in {resolveComposedMemberVerifyState(
               doc, [s \in DOMAIN Entries(doc.member_documents) |->
                       licenseMemberOk(s, doc.member_documents[s])])} :
    LET assertions == doc.custody_survival_assertions
        manifest == doc.post_termination_verify
    IN /\ Present(doc, {"organization_id", "session_id", "custody_survival_assertions",
                        "post_termination_verify"})
       /\ Present(manifest, {"offline_cli", "portal_base"})
       /\ manifest.no_backend_required = TRUE
       /\ manifest.bundle_schema = "license_survivable_custody_pack"
       /\ ProvenMembers(m, 2)
       /\ \A f \in SurvivalFlags : assertions[f] = TRUE
       /\ {"deployer_pack", "license_bundle"} \subseteq m.ok
       /\ assertions.post_termination_readiness = derivePostTerminationReadiness(m.ok)
       /\ doc.pack_digest = buildLicenseSurvivableCustodyPackPreimage(doc)
=============================================================================
