--------------------------- MODULE IndependencePacks ---------------------------
(***************************************************************************)
(* Packs about how complete the evidence is and who vouches for it: the    *)
(* anchors an attribution rests on, the witnesses that are not the         *)
(* operator, and the census of declared against observed agents.           *)
(***************************************************************************)
EXTENDS ConductPacks

-----------------------------------------------------------------------------
(* Anchors of an attribution *)

ATTRIBUTION_ANCHOR_IDS ==
    {"input_provenance", "authenticated_delegation", "internal_state_probe",
     "execution_context", "human_oversight"}

\* Rows by id: how many have the status.
countStatus(rows, status) == Cardinality({id \in DOMAIN rows : rows[id].status = status})

deriveAttributionReadiness(rows) ==
    LET pass == countStatus(rows, "pass")
        fail == countStatus(rows, "fail")
    IN CASE fail = 0 /\ pass >= 4 -> "attribution_ready"
         [] fail >= 3 -> "insufficient"
         [] ~(fail = 0 /\ pass >= 4) /\ fail < 3 -> "partial"

\* An anchor whose digest verified, is only there, or is not.
AnchorStatus(ok, digest) ==
    CASE ok = TRUE /\ digest # NULL -> "pass"
      [] ok # TRUE /\ digest # NULL -> "partial"
      [] digest = NULL -> "fail"

\* For want of a person nothing fails: a path of low risk may need none.
evaluateAnchorCoverageFromMetrics(m) ==
    LET provenance == m.input_provenance_entry_hash
        row(status, digest) == [status |-> status, member_digest |-> digest]
    IN [input_provenance |->
          row(AnchorStatus(Default(m.witness_samples_ok, 0) > 0, provenance), provenance),
        authenticated_delegation |->
          row(AnchorStatus(m.delegation_chain_verify_ok, m.delegation_chain_digest),
              m.delegation_chain_digest),
        internal_state_probe |->
          row(AnchorStatus(m.memory_commitment_verify_ok, m.memory_commitment_digest),
              m.memory_commitment_digest),
        execution_context |->
          row(AnchorStatus(m.tool_manifest_verify_ok, m.tool_manifest_fingerprint_digest),
              m.tool_manifest_fingerprint_digest),
        human_oversight |->
          row(IF m.hitl_present = TRUE \/ m.hitl_receipt_digest # NULL THEN "pass" ELSE "unknown",
              m.hitl_receipt_digest)]

\* The counts are sealed; nobody compares them with the rows again.
buildAnchorCoverageForensicPackPreimage(input) ==
    [Without(input, {"pack_digest", "member_documents"}) EXCEPT
       !.composed_anchor_evidence = @ @@
         [anchors_pass_count |-> countStatus(input.anchor_coverage_evaluation, "pass"),
          anchors_fail_count |-> countStatus(input.anchor_coverage_evaluation, "fail"),
          anchors_partial_count |-> countStatus(input.anchor_coverage_evaluation, "partial")]]

buildAnchorCoverageForensicPackDocument(input) ==
    Seal(buildAnchorCoverageForensicPackPreimage(
           input @@ [attribution_readiness |->
                       deriveAttributionReadiness(input.anchor_coverage_evaluation)]), "pack_digest")

\* The members of this pack are named and not verified.  A pack may call itself
\* partial that could call itself ready.
verifyAnchorCoverageForensicPack(doc) ==
    LET rows == Entries(doc.anchor_coverage_evaluation)
        composed == doc.composed_anchor_evidence
        fail == countStatus(rows, "fail")
    IN /\ Present(doc, {"organization_id", "session_id", "composed_anchor_evidence"})
       /\ DOMAIN rows = ATTRIBUTION_ANCHOR_IDS
       /\ \E f \in {"delegation_chain_digest", "memory_commitment_digest",
                     "tool_manifest_fingerprint_digest"} : composed[f] # NULL
       /\ CASE doc.attribution_readiness = "attribution_ready" ->
                 fail = 0 /\ countStatus(rows, "pass") >= 4
            [] doc.attribution_readiness = "insufficient" -> fail >= 3
            [] doc.attribution_readiness = "partial" -> fail < 3
            [] OTHER -> FALSE
       /\ doc.pack_digest = Without(doc, {"pack_digest", "member_documents"})

-----------------------------------------------------------------------------
(* Witnesses that are not the operator *)

deriveIndependenceReadiness(ok) ==
    CASE {"guardian", "anchor_coverage", "witness_path"} \subseteq ok -> "independent"
      [] ~({"guardian", "anchor_coverage", "witness_path"} \subseteq ok)
           /\ ok \cap {"guardian", "anchor_coverage"} # {} -> "partial"
      [] OTHER -> "operator_only"

IndependenceFlags ==
    {"witness_cosign_present", "anchor_coverage_sufficient", "custodian_path_verified",
     "operator_self_sign_excluded", "third_party_verifiable"}

buildIndependenceAssertionsBlock(input, members) ==
    LET ok == Asserted(members) IN
    [input EXCEPT !.witness_cosign_present = @ \/ "guardian" \in ok,
                  !.anchor_coverage_sufficient = @ \/ "anchor_coverage" \in ok,
                  !.custodian_path_verified = @ \/ "witness_path" \in ok]
    @@ [independence_readiness |-> deriveIndependenceReadiness(ok)]

buildIndependenceWitnessPackPreimage(doc) ==
    [extractComposedPackSurface(doc) EXCEPT
       !.independence_assertions = Flags(@, IndependenceFlags),
       !.independence_verify = Flags(@, {"no_operator_login_required"})]

buildIndependenceWitnessPackDocument(input) ==
    Seal(buildIndependenceWitnessPackPreimage(
           [input EXCEPT !.independence_assertions =
              buildIndependenceAssertionsBlock(@, input.composed_members)]), "pack_digest")

\* The entries of a log are not handed on: a guardian's bundle with a monitor's
\* attestation does not verify in here.
independenceMemberOk(schema, embedded, o) ==
    CASE schema = "guardian" ->
           verifyIndependentGuardianBundle(embedded,
             [memberContexts |-> o.memberContexts, requireCustodianWitness |-> o.requireCustodianWitness,
              requireWitnessDiversity |-> FALSE, requireMonitorAttestation |-> FALSE,
              entryDigests |-> NULL])
      [] schema = "anchor_coverage" -> verifyAnchorCoverageForensicPack(embedded)
      [] schema = "witness_path" -> verifyWitnessPath(embedded)
      [] OTHER -> FALSE

\* o: memberContexts, requireCustodianWitness, requireWitnessDiversity.
verifyIndependenceWitnessPack(doc, o) ==
    \E m \in {resolveComposedMemberVerifyState(
               doc, [s \in DOMAIN Entries(doc.member_documents) |->
                       independenceMemberOk(s, doc.member_documents[s], o)])} :
    LET assertions == doc.independence_assertions
        manifest == doc.independence_verify
        derived == deriveIndependenceReadiness(m.ok)
    IN /\ Present(doc, {"organization_id", "session_id", "independence_assertions", "independence_verify"})
       /\ Cardinality(DOMAIN m.rows) >= 3 /\ composedMemberDigestsValid(m.rows)
       /\ manifest.offline_cli # NULL /\ manifest.no_operator_login_required = TRUE
       /\ manifest.bundle_schema = "independence_witness_pack"
       /\ assertions.operator_self_sign_excluded = TRUE /\ assertions.third_party_verifiable = TRUE
       /\ derived = "independent" => \A f \in IndependenceFlags : assertions[f] = TRUE
       /\ m.asserted # {} => m.memberProofPresent /\ m.memberVerifyRecomputed
       /\ assertions.independence_readiness = derived
       /\ IF doc.witness_diversity = NULL THEN ~o.requireWitnessDiversity
          ELSE verifyWitnessDiversityBlock(doc.witness_diversity, o.requireWitnessDiversity)
       /\ doc.pack_digest = buildIndependenceWitnessPackPreimage(doc)

-----------------------------------------------------------------------------
(* The census: who was declared, who was seen *)

\* Ids that differ in case only are one id.
computeCensusDelta(declared, observed) ==
    [shadow_agent_ids |-> observed \ declared,
     dormant_roster_ids |-> declared \ observed,
     matched_agent_ids |-> declared \cap observed,
     shadow_count |-> Cardinality(observed \ declared),
     dormant_count |-> Cardinality(declared \ observed),
     matched_count |-> Cardinality(declared \cap observed)]

computeCensusDeltaFromMembers(roster, set) ==
    computeCensusDelta({a.agent_id : a \in Items(roster.agents)},
                       {a.agent_id : a \in Items(set.observed_agents)})

\* The counts stand beside the lists and are not under their digest.
DeltaIds == {"shadow_agent_ids", "dormant_roster_ids", "matched_agent_ids"}
DeltaCounts == {"shadow_count", "dormant_count", "matched_count"}

buildDeltaDigest(delta) == [f \in DeltaIds |-> Items(delta[f])]

deriveCensusReadiness(delta, ok) ==
    LET roster == "declared_roster" \in ok
        observed == "observed_set" \in ok
    IN CASE roster /\ ~observed -> "roster_only"
         [] observed /\ delta.shadow_count > 0 -> "shadow_gap"
         [] roster /\ observed /\ delta.shadow_count = 0 /\ delta.matched_count > 0
              /\ delta.dormant_count = 0 -> "complete"
         [] OTHER -> "partial"

CensusFlags == {"roster_observed_delta_bound", "shadow_agents_detected", "third_party_verifiable"}

buildCensusAssertionsBlock(input, delta, members) ==
    [input EXCEPT !.shadow_agents_detected = @ \/ delta.shadow_count > 0]
    @@ [census_readiness |-> deriveCensusReadiness(delta, Asserted(members))]
    @@ Only(delta, DeltaCounts)

buildCensusDeltaBlock(delta) == delta @@ [delta_digest |-> buildDeltaDigest(delta)]

buildAgentCensusCompletenessPackPreimage(doc) ==
    [extractComposedPackSurface(doc) EXCEPT
       !.census_assertions = Flags(@, CensusFlags),
       !.census_session_binding = Flags(@, {"normalization_bound"})]

buildAgentCensusCompletenessPackDocument(input) ==
    LET raw == input.census_delta
        delta ==
          IF raw.shadow_count # NULL THEN raw
          ELSE computeCensusDelta(Items(raw.dormant_roster_ids) \cup Items(raw.matched_agent_ids),
                                  Items(raw.shadow_agent_ids) \cup Items(raw.matched_agent_ids))
    IN Seal(buildAgentCensusCompletenessPackPreimage(
              [input EXCEPT
                 !.census_delta = buildCensusDeltaBlock(delta),
                 !.census_assertions = buildCensusAssertionsBlock(@, delta, input.composed_members)]),
            "pack_digest")

censusMemberOk(schema, embedded) ==
    CASE schema = "declared_roster" -> verifyDeclaredAgentRoster(embedded)
      [] schema = "observed_set" -> verifyObservedAgentConductSet(embedded)
      [] schema = "conduct_manifest" -> verifyTraceableConductManifest(embedded)
      [] OTHER -> FALSE

\* The lists are taken as the pack states them, not from the members again.
verifyAgentCensusCompletenessPack(doc) ==
    \E m \in {resolveComposedMemberVerifyState(
               doc, [s \in DOMAIN Entries(doc.member_documents) |->
                       censusMemberOk(s, doc.member_documents[s])])} :
    LET binding == doc.census_session_binding
        delta == [f \in DOMAIN doc.census_delta \cup DeltaCounts |->
                    IF f \in DeltaCounts THEN Default(Get(doc.census_delta, f), 0) ELSE doc.census_delta[f]]
        assertions == doc.census_assertions
        derived == deriveCensusReadiness(delta, m.ok)
        bothBound == /\ assertions.roster_observed_delta_bound = TRUE
                     /\ {"declared_roster", "observed_set"} \subseteq m.ok
                     /\ binding.normalization_bound = TRUE
    IN /\ Present(doc, {"organization_id", "period_label", "census_session_binding", "census_delta",
                        "census_assertions"})
       /\ Cardinality(DOMAIN m.rows) >= 2 /\ composedMemberDigestsValid(m.rows)
       /\ BoundToMembers(binding, [declared_roster_digest |-> "declared_roster",
                                   observed_set_digest |-> "observed_set"], m.rows)
       /\ delta.delta_digest = buildDeltaDigest(delta)
       /\ binding.delta_digest = delta.delta_digest
       /\ assertions.third_party_verifiable = TRUE /\ binding.period_label # NULL
       /\ derived = "complete" => bothBound /\ assertions.shadow_agents_detected = FALSE
       /\ derived = "shadow_gap" => bothBound /\ assertions.shadow_agents_detected = TRUE
       /\ derived = "partial" => m.ok \cap {"declared_roster", "observed_set"} # {}
       /\ m.asserted # {} => m.memberProofPresent /\ m.memberVerifyRecomputed
       /\ assertions.census_readiness = derived
       /\ doc.pack_digest = buildAgentCensusCompletenessPackPreimage(
                              [doc EXCEPT !.census_delta = delta,
                                          !.census_assertions = Only(delta, DeltaCounts) @@ @])
=============================================================================
