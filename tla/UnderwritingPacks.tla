--------------------------- MODULE UnderwritingPacks ---------------------------
(***************************************************************************)
(* Packs for an insurer: the six controls with the executive who answers   *)
(* for them, the kit a broker submits, and the evidence a named executive  *)
(* attests to.  Times are days.                                            *)
(***************************************************************************)
EXTENDS GovernancePacks

-----------------------------------------------------------------------------
(* The executive's attestation *)

ExecutiveFields ==
    {"executive_id", "executive_display_name", "role_title", "attested_at", "attestation_statement"}

buildAccountableExecutiveAttestationDigest(organizationId, executive) ==
    Only(executive, ExecutiveFields) @@ [organization_id |-> organizationId]

buildAccountableExecutiveAttestationBlock(organizationId, executive) ==
    Only(executive, ExecutiveFields) @@
    [required |-> TRUE,
     attestation_digest |-> buildAccountableExecutiveAttestationDigest(organizationId, executive)]

ExecutiveDigestValid(organizationId, attestation) ==
    attestation.attestation_digest
      = buildAccountableExecutiveAttestationDigest(organizationId, attestation)

-----------------------------------------------------------------------------
(* The six controls *)

CARRIER_SIX_CONTROL_IDS ==
    {"human_kill_switch", "hitl_inventory", "data_provenance", "accountable_executive",
     "deepfake_resistant_auth", "stack_enforcement"}

\* One control of six may be partly met or not known in a pack that is ready.
deriveOverallReadiness(rows) ==
    LET pass == countStatus(rows, "pass")
        fail == countStatus(rows, "fail")
    IN CASE fail = 0 /\ pass >= 5 -> "ready"
         [] fail >= 3 -> "insufficient"
         [] ~(fail = 0 /\ pass >= 5) /\ fail < 3 -> "partial"

\* Both counts, one of them, none.
BothOrOne(both, one) == IF both THEN "pass" ELSE IF one THEN "partial" ELSE "fail"

\* A metric that is not known is not a failure; that of people at the controls
\* counts for two of them.
evaluateSixControlsFromMetrics(m) ==
    LET hitl == m.hitl_coverage_pct
        atLeast(pct) == hitl # NULL /\ hitl >= pct
        known(pass, partial) == IF pass THEN "pass" ELSE IF partial THEN "partial" ELSE "unknown"
        sbom == Count(m.sbom_tool_count) > 0
        receipts == Count(m.receipt_sample_count) > 0
        witness == Count(m.witness_samples_ok) > 0
        prove == Count(m.prove_bundle_samples_ok) > 0
        killSwitch == m.kill_switch_profile_ok = TRUE \/ m.kill_switch_drill_freshness_digest # NULL
        executive == Present(m, ExecutiveFields \ {"role_title"})
        row(status) == [status |-> status]
    IN [human_kill_switch |-> row(IF killSwitch THEN "pass" ELSE "fail"),
        hitl_inventory |-> row(known(atLeast(50), atLeast(1))),
        data_provenance |-> row(BothOrOne(sbom /\ receipts, sbom \/ receipts)),
        accountable_executive |-> row(IF executive THEN "pass" ELSE "fail"),
        deepfake_resistant_auth |-> row(known(atLeast(25) \/ witness, hitl # NULL)),
        stack_enforcement |-> row(BothOrOne(prove /\ witness, prove \/ witness \/ receipts))]

\* Mutant: a period that is not given is left out instead of the default.
MutantBuildCarrierUnderwritingPackPreimage(input) ==
    IF input.lookback_days = NULL THEN Without(input, {"lookback_days"}) ELSE input

\* The counts are sealed; nobody compares them with the rows again.
buildCarrierUnderwritingPackPreimage(input) ==
    [input EXCEPT
       !.lookback_days = Default(@, 90),
       !.composed_evidence = @ @@
         [controls_pass_count |-> countStatus(input.six_control_evaluation, "pass"),
          controls_fail_count |-> countStatus(input.six_control_evaluation, "fail"),
          controls_partial_count |-> countStatus(input.six_control_evaluation, "partial")]]

buildCarrierUnderwritingEvidencePackDocument(input) ==
    Seal(buildCarrierUnderwritingPackPreimage(
           [input EXCEPT !.accountable_executive_attestation =
              buildAccountableExecutiveAttestationBlock(input.organization_id, @)]
           @@ [overall_readiness |-> deriveOverallReadiness(input.six_control_evaluation)]),
         "pack_digest")

verifyCarrierUnderwritingEvidencePack(doc) ==
    LET rows == Entries(doc.six_control_evaluation)
        attestation == doc.accountable_executive_attestation
        fail == countStatus(rows, "fail")
    IN /\ Present(doc, {"organization_id", "period_start", "period_end",
                        "accountable_executive_attestation"})
       /\ LookbackValid(doc.lookback_days)
       /\ DOMAIN rows = CARRIER_SIX_CONTROL_IDS
       /\ attestation.required = TRUE /\ attestation.attestation_statement # NULL
       /\ ExecutiveDigestValid(doc.organization_id, attestation)
       /\ CASE doc.overall_readiness = "ready" -> fail = 0 /\ countStatus(rows, "pass") >= 5
            [] doc.overall_readiness = "insufficient" -> fail >= 3
            [] doc.overall_readiness = "partial" -> fail < 3
            [] OTHER -> FALSE
       /\ Sealed(doc, "pack_digest")

-----------------------------------------------------------------------------
(* The kit a broker submits *)

CARRIER_MGA_REQUIRED_MEMBER_SCHEMAS == {"carrier_pack", "shutdown_drill"}
CARRIER_MGA_OPTIONAL_MEMBER_SCHEMAS == {"adversarial_pack"}
CADENCES == {"quarterly", "annual"}

deriveMgaAcceptanceReadiness(ok, assertions, drillFresh) ==
    LET ready == /\ CARRIER_MGA_REQUIRED_MEMBER_SCHEMAS \subseteq ok /\ drillFresh
                 /\ assertions.six_controls_ready = TRUE
                 /\ assertions.executive_attestation_bound = TRUE
                 /\ assertions.broker_submission_ready = TRUE
    IN CASE ready -> "ready"
         [] ~ready /\ ok \cap CARRIER_MGA_REQUIRED_MEMBER_SCHEMAS # {} -> "partial"
         [] OTHER -> "insufficient"

MgaFlags == {"six_controls_ready", "kill_switch_drill_fresh", "executive_attestation_bound",
             "broker_submission_ready"}

buildMgaAcceptanceAssertionsBlock(input, members, drillFresh) ==
    LET ok == Asserted(members) IN
    [input EXCEPT
       !.six_controls_ready = @ /\ "carrier_pack" \in ok,
       !.executive_attestation_bound = @ /\ "carrier_pack" \in ok,
       !.kill_switch_drill_fresh = drillFresh \/ ("shutdown_drill" \in ok /\ @)]
    @@ [mga_acceptance_readiness |-> deriveMgaAcceptanceReadiness(ok, input, drillFresh)]

\* The cadence of a kit, and its disclosure of the chain, as the digest has them.
CadenceForm(x) ==
    [Flags(x, {"drill_fresh_for_submission"}) EXCEPT !.kill_switch_drill_max_age_days = Default(@, 90)]

DisclosureForm(x) ==
    [Flags(x, {"uniformly_enforced"}) EXCEPT
       !.egress_attestation_schema = Default(@, "egress_attestation_v2")]

buildCarrierMgaAcceptanceKitPreimage(doc) ==
    [extractComposedPackSurface(doc) EXCEPT
       !.mga_acceptance_assertions = Flags(@, MgaFlags),
       !.submission_cadence = CadenceForm(@),
       !.chain_composition_disclosure = IF @ = NULL THEN NULL ELSE DisclosureForm(@)]

buildCarrierMgaAcceptanceKitDocument(input) ==
    Seal(buildCarrierMgaAcceptanceKitPreimage(
           [input EXCEPT !.mga_acceptance_assertions =
              buildMgaAcceptanceAssertionsBlock(@, input.composed_members,
                input.submission_cadence.drill_fresh_for_submission = TRUE)]), "pack_digest")

mgaMemberOk(schema, embedded) ==
    CASE schema = "carrier_pack" -> verifyCarrierUnderwritingEvidencePack(embedded)
      [] schema = "shutdown_drill" -> verifyShutdownDrillBundle(embedded, NULL)
      [] schema = "adversarial_pack" -> verifyAdversarialTestEvidencePack(embedded)
      [] OTHER -> FALSE

\* For the tests of an adversary no witness's word will do.  Whether the drill is
\* fresh is the submitter's word: its age is not computed from the drill.
verifyCarrierMgaAcceptanceKit(doc) ==
    LET docs == Entries(doc.member_documents)
        m == resolveComposedMemberVerifyState(
               doc, [s \in DOMAIN docs |-> mgaMemberOk(s, docs[s])])
        cadence == doc.submission_cadence
        disclosure == doc.chain_composition_disclosure
        assertions == doc.mga_acceptance_assertions
        derived == deriveMgaAcceptanceReadiness(m.ok, assertions,
                                                cadence.drill_fresh_for_submission = TRUE)
    IN /\ Present(doc, {"organization_id", "submission_cadence", "mga_acceptance_assertions"})
       /\ ProvenMembers(m, 2)
       /\ DOMAIN m.rows \subseteq
            CARRIER_MGA_REQUIRED_MEMBER_SCHEMAS \cup CARRIER_MGA_OPTIONAL_MEMBER_SCHEMAS
       /\ Present(cadence, {"period_label", "next_resubmission_due"})
       /\ cadence.cadence \in CADENCES /\ Count(cadence.kill_switch_drill_max_age_days) > 0
       /\ BoundToMembers(cadence, [carrier_pack_digest |-> "carrier_pack",
                                   kill_switch_drill_digest |-> "shutdown_drill"], m.rows)
       /\ "adversarial_pack" \in DOMAIN m.rows =>
            "adversarial_pack" \in DOMAIN docs /\ mgaMemberOk("adversarial_pack", docs.adversarial_pack)
       /\ CARRIER_MGA_REQUIRED_MEMBER_SCHEMAS \subseteq m.ok /\ m.memberVerifyRecomputed
       /\ assertions.broker_submission_ready = TRUE
       /\ derived = "ready" => \A f \in MgaFlags : assertions[f] = TRUE
       /\ assertions.mga_acceptance_readiness = derived
       /\ disclosure # NULL =>
            Present(disclosure, {"chain_enforcement_mode", "owasp_asi_gl3_hint", "carrier_footnote"})
       /\ doc.pack_digest = buildCarrierMgaAcceptanceKitPreimage(doc)

-----------------------------------------------------------------------------
(* The evidence an executive attests to *)

buildAttestedEvidenceSetPreimage(input) ==
    Spread([input EXCEPT !.members = Entries(@)],
           [member_count |-> Cardinality(DOMAIN Entries(input.members))])

buildAttestedEvidenceSetDocument(input) ==
    Seal(buildAttestedEvidenceSetPreimage(input), "evidence_set_digest")

evidenceSetMemberOk(schema, embedded) ==
    CASE schema = "census_pack" -> verifyAgentCensusCompletenessPack(embedded)
      [] schema = "carrier_pack" -> verifyCarrierUnderwritingEvidencePack(embedded)
      [] schema = "cross_platform_pack" -> verifyCrossPlatformConductPack(embedded)
      [] OTHER -> FALSE

\* What the set says of its members against what was attached of them.
EvidenceSetMembers(doc) ==
    resolveComposedMemberVerifyState(
      [composed_members |-> doc.members, member_documents |-> doc.member_documents,
       member_verify_attestations |-> doc.member_verify_attestations],
      [s \in DOMAIN Entries(doc.member_documents) |->
         evidenceSetMemberOk(s, doc.member_documents[s])])

\* Mutant: that there is a digest is enough.
MutantVerifyAttestedEvidenceSet(doc) ==
    \E m \in {EvidenceSetMembers(doc)} :
       /\ Present(doc, {"organization_id", "period_label", "evidence_set_digest"})
       /\ DOMAIN m.rows # {} /\ composedMemberDigestsValid(m.rows)
       /\ m.asserted # {} => m.memberProofPresent /\ m.memberVerifyRecomputed

verifyAttestedEvidenceSet(doc) ==
    \E m \in {EvidenceSetMembers(doc)} :
       /\ Present(doc, {"organization_id", "period_label"})
       /\ DOMAIN m.rows # {} /\ composedMemberDigestsValid(m.rows)
       /\ doc.member_count = Cardinality(DOMAIN m.rows)
       /\ m.asserted # {} => m.memberProofPresent /\ m.memberVerifyRecomputed
       /\ doc.evidence_set_digest =
            buildAttestedEvidenceSetPreimage(
              Without(doc, {"evidence_set_digest", "member_count", "member_documents",
                            "member_verify_attestations"}))

-----------------------------------------------------------------------------
(* The executive bound to the evidence *)

buildAttestationBindingDigest(attestation, set, scope) ==
    [attestation_digest |-> attestation, evidence_set_digest |-> set, scope_statement |-> scope]

buildAttestationBindingBlock(attestation, set, scope) ==
    buildAttestationBindingDigest(attestation, set, scope) @@
    [binding_digest |-> buildAttestationBindingDigest(attestation, set, scope),
     binding_valid |-> NULL \notin {attestation, set, scope}]

NamedExecutive(executive) == Present(executive, {"executive_display_name", "attestation_digest"})

deriveBindingReadiness(named, members, verified, bindingValid) ==
    LET bound == named /\ members # {} /\ members = verified /\ bindingValid
    IN CASE bound -> "bound"
         [] ~bound /\ named /\ members # {} -> "partial"
         [] OTHER -> "unbound"

\* Fresh: attested no later than a day after the pack was generated.
buildBindingAssertionsBlock(input, executive, rows, bindingValid, generatedAt) ==
    LET named == NamedExecutive(executive)
        ok == Asserted(rows)
    IN [input EXCEPT
          !.named_executive_present = @ \/ named,
          !.evidence_set_complete = @ \/ (Cardinality(ok) >= 2 /\ ok = DOMAIN rows),
          !.attestation_fresh = IF NULL \in {executive.attested_at, generatedAt} THEN @
                                ELSE executive.attested_at <= generatedAt + 1] @@
       [binding_readiness |-> deriveBindingReadiness(named, DOMAIN rows, ok, bindingValid),
        member_count |-> Cardinality(DOMAIN rows), verified_member_count |-> Cardinality(ok)]

BindingFlags == {"named_executive_present", "evidence_set_complete", "attestation_fresh",
                 "third_party_verifiable"}

buildExecutiveAttestationBindingPackPreimage(doc) ==
    LET rows == Entries(doc.attested_evidence_set.members)
        orElse(n, d) == IF Count(n) = 0 THEN d ELSE n
        counted(x) == [Flags(x, BindingFlags) EXCEPT
                         !.member_count = orElse(@, Cardinality(DOMAIN rows)),
                         !.verified_member_count = orElse(@, Cardinality(Asserted(rows)))]
    IN [Without(doc, {"pack_digest", "member_documents"}) EXCEPT
          !.accountable_executive_attestation = [required |-> TRUE] @@ @,
          !.attested_evidence_set = [members |-> rows, member_count |-> Cardinality(DOMAIN rows)] @@ @,
          !.binding_assertions = counted(@)]

buildExecutiveAttestationBindingPackDocument(input) ==
    LET executive == buildAccountableExecutiveAttestationBlock(
                       input.organization_id, input.accountable_executive_attestation)
        binding == buildAttestationBindingBlock(executive.attestation_digest,
                     input.attested_evidence_set.evidence_set_digest, input.attestation_binding.scope_statement)
    IN Seal(buildExecutiveAttestationBindingPackPreimage(
              [input EXCEPT
                 !.accountable_executive_attestation = executive,
                 !.attestation_binding = binding,
                 !.binding_assertions =
                   buildBindingAssertionsBlock(@, executive, Entries(input.attested_evidence_set.members),
                                               binding.binding_valid, input.generated_at)]),
            "pack_digest")

\* The set bundled beside the pack is verified; that it is the set the pack names
\* is not asked.
verifyExecutiveAttestationBindingPack(doc) ==
    LET executive == doc.accountable_executive_attestation
        rows == Entries(doc.attested_evidence_set.members)
        asserted == Asserted(rows)
        binding == doc.attestation_binding
        set == At(doc.member_documents, "attested_evidence_set")
        recomputed == asserted # {} /\ set # NULL /\ verifyAttestedEvidenceSet(set)
        derived == deriveBindingReadiness(NamedExecutive(executive), DOMAIN rows,
                     IF recomputed THEN asserted ELSE {}, binding.binding_valid = TRUE)
        assertions == doc.binding_assertions
    IN /\ Present(doc, {"organization_id", "attestation_period_label", "accountable_executive_attestation",
                        "attested_evidence_set", "attestation_binding", "binding_assertions"})
       /\ executive.executive_display_name # NULL
       /\ ExecutiveDigestValid(doc.organization_id, executive)
       /\ Cardinality(DOMAIN rows) >= 2 /\ composedMemberDigestsValid(rows)
       /\ Present(binding, {"attestation_digest", "evidence_set_digest", "scope_statement"})
       /\ binding.binding_digest = buildAttestationBindingDigest(binding.attestation_digest,
                                     binding.evidence_set_digest, binding.scope_statement)
       /\ binding.attestation_digest = executive.attestation_digest
       /\ binding.evidence_set_digest = doc.attested_evidence_set.evidence_set_digest
       /\ assertions.third_party_verifiable = TRUE
       /\ derived \in {"bound", "partial"} => assertions.named_executive_present = TRUE
       /\ derived = "bound" => assertions.evidence_set_complete = TRUE
       /\ asserted # {} => recomputed
       /\ assertions.binding_readiness = derived
       /\ doc.pack_digest = buildExecutiveAttestationBindingPackPreimage(
                              [doc EXCEPT !.attestation_binding =
                                 [binding EXCEPT !.binding_valid = @ = TRUE]])
=============================================================================
