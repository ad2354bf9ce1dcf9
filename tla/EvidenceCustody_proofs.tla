----------------------- MODULE EvidenceCustody_proofs ------------------------
(***************************************************************************)
(* What EvidenceCustody promises, for whatever is issued and whatever      *)
(* custody does to it.  ClaimsEarned: what an accepted document claims is  *)
(* so; for each kind a lemma says that its verifier recomputes the claim,  *)
(* or compares it with evidence in the document.  SealedTogether: what is  *)
(* vouched for was issued together; for each kind a lemma says that the    *)
(* digest its verifier computes again covers it field by field (Sealed) or *)
(* in normal form (Normal).  TypeCorrect: types.  The verifiers are the    *)
(* modelled ones; the documents the MC modules issue play no part.         *)
(***************************************************************************)
EXTENDS MCEvidence, FiniteSetTheorems, WellFoundedInduction, TLAPS

-----------------------------------------------------------------------------
(* What the verifier of each kind establishes *)

\* The verdict on surfaces does not depend on what their root is of.
LEMMA ParsedResult ==
    ASSUME NEW d
    PROVE  evaluateExecutionSurfaceCompleteness(d).completeness_result
             = evaluateParsedSurfaces(d).completeness_result
BY DEF evaluateExecutionSurfaceCompleteness, evaluateParsedSurfaces, judgeRows, DigestFindings, judgeSurfaces,
       Spread

\* A boundary judged COMPLETE has surfaces judged COMPLETE: judgeBoundary reports a gap first.
LEMMA BoundaryFollows ==
    ASSUME NEW d, NEW o, verifyProvableExecutionBoundaryBundle(d, o)
    PROVE  EarnedBoundary("boundary", d)
<1> DEFINE surfaces == d.execution_surface_completeness
           found == evaluateExecutionSurfaceCompleteness(surfaces)
           channel == IF At(d.channel_provenance, "sources") = NULL THEN NULL
                      ELSE computeChannelProvenanceDigest(d.channel_provenance)
<1>1. ASSUME d.boundary_result = "COMPLETE" PROVE surfaces.completeness_result = "COMPLETE"
  <2>1. judgeBoundary(d, o.requireChannelProvenance, found, channel).boundary_result = "COMPLETE"
    BY <1>1 DEF verifyProvableExecutionBoundaryBundle, evaluateProvableExecutionBoundary
  <2>2. found.completeness_result = "COMPLETE"
    <3> SUFFICES ASSUME found.completeness_result # "COMPLETE"
                 PROVE  judgeBoundary(d, o.requireChannelProvenance, found, channel).boundary_result
                          \in {"COMPOSITION_MISMATCH", "BOUNDARY_MISMATCH", "SURFACE_GAP"}
      BY <2>1
    <3> HIDE DEF found, channel
    <3> QED BY DEF judgeBoundary
  <2>3. surfaces.completeness_result = evaluateParsedSurfaces(surfaces).completeness_result
    BY DEF verifyProvableExecutionBoundaryBundle, verifyExecutionSurfaceCompletenessBundle
  <2>4. found.completeness_result = evaluateParsedSurfaces(surfaces).completeness_result
    BY ParsedResult
  <2> QED BY <2>2, <2>3, <2>4
<1> QED BY <1>1 DEF EarnedBoundary

\* A PASS means every constraint that has an id holds of the terminal state.
LEMMA ClosureHolds ==
    ASSUME NEW d, verifyConstraintClosureBundle(d, FALSE)
    PROVE  EarnedBoundary("constraint_closure", d)
<1>1. ASSUME d.recomposition_result = "PASS", NEW c \in d.genesis_constraints, c.id # NULL
      PROVE  compareConstraint(c.op, d.terminal_state[c.id], c.value)
  <2>1. evaluateConstraintClosure(d).recomposition_result = "PASS"
    BY <1>1 DEF verifyConstraintClosureBundle
  <2>2. c \in Items(d.genesis_constraints)
    BY <1>1 DEF verifyConstraintClosureBundle, Items
  <2>3. compareConstraint(c.op, Get(d.terminal_state, c.id), c.value)
    BY <1>1, <2>1, <2>2 DEF evaluateConstraintClosure, Seal
  <2> QED BY <2>3 DEF Get, compareConstraint
<1> QED BY <1>1 DEF EarnedBoundary

\* A host that claims to be ready failed no scenario, and its session is bound to the
\* receipt it bundles.
LEMMA ConformanceHolds ==
    ASSUME NEW d, NEW o, verifyHostConformanceBind(d, o)
    PROVE  EarnedBoundary("host_bind", d)
<1>1. ASSUME d.conformance_assertions.conformance_readiness = "hooks_conformance_ready"
      PROVE  d.scenarios_failed = 0
  BY <1>1 DEF verifyHostConformanceBind, AllScenariosPassed
<1>2. ASSUME d.conformance_assertions.conformance_readiness = "hooks_conformance_ready"
      PROVE  d.member_documents.agt_conduct_receipt.receipt_digest
               = d.host_session_binding.agt_receipt_digest
  <2>1. d.member_documents["agt_conduct_receipt"] # NULL
    BY <1>2 DEF verifyHostConformanceBind
  <2>2. d.host_session_binding.agt_receipt_digest
          = resolveHostMemberDocumentDigest("agt_conduct_receipt", d.member_documents)
    BY DEF verifyHostConformanceBind
  <2> QED BY <2>1, <2>2 DEF resolveHostMemberDocumentDigest
<1> QED BY <1>1, <1>2 DEF EarnedBoundary

\* Complete dispute evidence stands on full conduct, tool hops and a model reference.
LEMMA Ap2DisputeHolds ==
    ASSUME NEW d, verifyAp2ConductReceipt(d)
    PROVE  EarnedConduct("ap2_conduct", d)
<1>1. ASSUME d.dispute_evidence # NULL, d.dispute_evidence.dispute_readiness = "complete"
      PROVE  d.conduct.coverage = "full_conduct" /\ d.conduct.tool_hop_digests # <<>>
             /\ d.conduct.model_ref_digest # NULL
  <2> DEFINE rows == evaluateAp2DisputeThreats(d)
  <2>1. deriveDisputeReadiness(rows) = "complete"
    BY <1>1 DEF verifyAp2ConductReceipt, buildAp2DisputeEvidenceBlock
  <2>2. \A t \in {"T-39", "T-40", "T-41"} : rows[t] = "mitigated"
    BY <2>1 DEF deriveDisputeReadiness, AP2_DISPUTE_THREAT_IDS
  <2>3. rows["T-41"] = Grade((d.conduct.coverage = "full_conduct" /\ d.conduct.tool_hop_digests # <<>>)
                                /\ d.conduct["model_ref_digest"] # NULL,
                             d.conduct.coverage = "full_conduct" /\ d.conduct.tool_hop_digests # <<>>)
    BY DEF evaluateAp2DisputeThreats, AP2_DISPUTE_THREAT_IDS
  <2> QED BY <2>2, <2>3 DEF Grade
<1> QED BY <1>1 DEF EarnedConduct

\* The outcome of a SEP bind links back to the record of its decision.
LEMMA BackLinkHolds ==
    ASSUME NEW d, NEW s, verifyMcpSepAttestationBind(d, s)
    PROVE  EarnedConduct("sep_bind", d)
BY DEF EarnedConduct, verifyMcpSepAttestationBind, verifySepBackLink

\* A ready approval binds the content a person saw.
LEMMA ApprovalHolds ==
    ASSUME NEW d, NEW m, NEW c, verifyHitlApprovalReceipt(d, m, c)
    PROVE  EarnedDelegated("hitl_approval", d)
<1>1. ASSUME At(d.approval_assertions, "approval_readiness") = "asi09_ready"
      PROVE  d.hitl_preimage_binding.human_visible_digest = d.content_digest
  <2>1. Block(d.approval_assertions, AssertionFlags \cup {"approval_readiness"}).approval_readiness
          = "asi09_ready"
    BY <1>1 DEF Block, At
  <2>2. bindingMatch(d.hitl_preimage_binding)
        /\ d.content_digest = d.hitl_preimage_binding.gate_evaluation_digest
    BY <2>1 DEF verifyHitlApprovalReceipt
  <2> QED BY <2>2 DEF bindingMatch
<1> QED BY <1>1 DEF EarnedDelegated

\* An SBOM without gaps has no agent that acted and is not enrolled.
LEMMA EnrolmentHolds ==
    ASSUME NEW d, NEW r, verifyBehavioralSbomBundle(d, r)
    PROVE  EarnedConduct("behavioral_sbom", d)
<1> DEFINE configured == Items(d.configured_agents)
           agents == mergeConfiguredSlice(Items(d.behavioral_agents), configured)
           gap(class) == {a.agent_id : a \in {b \in agents : classifyBehavioralAgentGap(b) = class}}
           gaps == UNION {{[agent_id |-> a, gap_class |-> c] : a \in gap(c)} :
                            c \in BEHAVIORAL_GAP_CLASSES \ {"receipted_enrolled"}}
<1>1. d.agents_with_gaps = gaps
  BY DEF verifyBehavioralSbomBundle, evaluateBehavioralSbom
<1>2. ASSUME NEW a \in Items(d.behavioral_agents), a.receipt_count > 0,
             {"registry_status", "receipt_count"} \subseteq DOMAIN a, a.registry_status # "enrolled"
      PROVE  gaps # {}
  <2> DEFINE b == [a EXCEPT !.configured = @ \/ a.agent_id \in configured]
  <2>1. b \in agents
    BY <1>2 DEF mergeConfiguredSlice
  <2>2. b.receipt_count > 0 /\ b.registry_status # "enrolled"
    BY <1>2
  <2> HIDE DEF b, agents
  <2>3. classifyBehavioralAgentGap(b) \in {"discovered_not_enrolled", "receipted_not_enrolled"}
    BY <2>2 DEF classifyBehavioralAgentGap
  <2> DEFINE class == classifyBehavioralAgentGap(b)
  <2>4. b.agent_id \in gap(class)
    BY <2>1
  <2>5. class \in BEHAVIORAL_GAP_CLASSES \ {"receipted_enrolled"}
    BY <2>3 DEF BEHAVIORAL_GAP_CLASSES
  <2> HIDE DEF gap, class
  <2>6. [agent_id |-> b.agent_id, gap_class |-> class] \in gaps
    BY <2>4, <2>5
  <2> HIDE DEF gaps
  <2> QED BY <2>6
<1> HIDE DEF gaps
<1> QED BY <1>1, <1>2 DEF EarnedConduct

\* Every run of a retest passed all of its checks.
LEMMA RetestHolds ==
    ASSUME NEW d, verifyQuarterlyRetestReceipt(d)
    PROVE  EarnedReadiness("retest_receipt", d)
BY DEF EarnedReadiness, verifyQuarterlyRetestReceipt, evaluateTestRunsAllGreen, Items

\* An adversarial pack leaves no serious finding open.
LEMMA AdversarialHolds ==
    ASSUME NEW d, verifyAdversarialTestEvidencePack(d)
    PROVE  EarnedReadiness("adversarial_pack", d)
<1>1. d.remediation_links # NULL /\ evaluateRemediationsLinked(d.remediation_links)
  BY DEF verifyAdversarialTestEvidencePack, Items
<1> QED BY <1>1 DEF EarnedReadiness, evaluateRemediationsLinked

\* The last permit came before the kill, the kill before the silence, and nothing in it.
LEMMA DrillHolds ==
    ASSUME NEW d, NEW secret, verifyShutdownDrillBundle(d, secret)
    PROVE  EarnedReadiness("shutdown_drill", d)
BY DEF EarnedReadiness, verifyShutdownDrillBundle

\* A declared autonomy tier is one whose range holds the score.
LEMMA TierHolds ==
    ASSUME NEW d, verifyAutonomyTierAttestationBundle(d, NULL)
    PROVE  EarnedReadiness("autonomy_tier", d)
BY DEF EarnedReadiness, verifyAutonomyTierAttestationBundle, At

\* The envelope a lifecycle export carries has the digest of its own content.
LEMMA LifecycleHolds ==
    ASSUME NEW d, NEW b, verifyAdaptationLifecycleExportBundle(d, b)
    PROVE  EarnedGovernance("adaptation_lifecycle", d)
BY DEF EarnedGovernance, verifyAdaptationLifecycleExportBundle, At,
       verifyDeclaredAdaptationEnvelopeBundle

\* A drift called a breach names what it breached.
LEMMA SignalHolds ==
    ASSUME NEW s, NEW e, NEW c, verifySubstantialModificationSignalBundle(s, e, c)
    PROVE  BreachesNamed(s)
BY DEF BreachesNamed, verifySubstantialModificationSignalBundle, Items

\* A snapshot that counts no gaps has none among its obligations.
LEMMA SnapshotHolds ==
    ASSUME NEW d, verifyPostMarketMonitoringSnapshot(d)
    PROVE  EarnedGovernance("monitoring_snapshot", d)
<1> DEFINE rows == Items(d.art72_obligations)
           gaps == {r \in rows : r.status = "gap"}
<1>1. d.obligations_gap_count = Cardinality(gaps)
  BY DEF verifyPostMarketMonitoringSnapshot, ObligationCounts, countObligationsByStatus
<1>2. ASSUME d.obligations_gap_count = 0, IsFiniteSet(rows), NEW r \in rows
      PROVE  r.status # "gap"
  <2>1. IsFiniteSet(gaps)
    BY <1>2, FS_Subset
  <2>2. gaps = {}
    BY <1>1, <1>2, <2>1, FS_EmptySet
  <2> QED BY <2>2
<1> QED BY <1>2 DEF EarnedGovernance

\* A refusal said to be included in a log has a proof of its own receipt.
LEMMA RefusalWitnessHolds ==
    ASSUME NEW d, verifyScittRefusalWitnessBundle(d)
    PROVE  EarnedLog("refusal_witness", d)
<1> DEFINE proof == Default(Default(d.rekorInclusionProof,
                                    At(d.externalTransparencyService, "rekor_inclusion_proof")),
                            d.rekorWitness.rekor_inclusion_proof)
<1>1. ASSUME At(d.proofStrengthDisclosure, "external_transparency") = INCLUSION_VERIFIED,
             d.rekorWitness # NULL
      PROVE  proof # NULL /\ proof.entry_body.digest = d.receiptDigest
  <2>1. d.receiptDigest # NULL
    BY DEF verifyScittRefusalWitnessBundle, Present
  <2>2. proof # NULL /\ \E i : verifyRekorCryptoInclusionProof(proof, i, d.receiptDigest)
    BY <1>1 DEF verifyScittRefusalWitnessBundle, verifyExternalRekorWitnessWithInclusion,
                resolveRequireRekorInclusionProof
  <2> QED BY <2>1, <2>2 DEF verifyRekorCryptoInclusionProof
<1>2. proof \in {d.rekorInclusionProof, d.rekorWitness.rekor_inclusion_proof,
                 At(d.externalTransparencyService, "rekor_inclusion_proof")}
  BY DEF Default
<1> HIDE DEF proof
<1> QED BY <1>1, <1>2 DEF EarnedLog

\* The root of a monitor's consistency proof is that of the entries it shows.
LEMMA MonitorStatusHolds ==
    ASSUME NEW d, verifyTransparencyLogMonitorStatus(d, List(d.entryDigests))
    PROVE  EarnedLog("monitor_status", d)
BY DEF EarnedLog, verifyTransparencyLogMonitorStatus, verifyWitnessConsistencyProof

\* An incident closes when both sides tell the same tools in the same order.
LEMMA IncidentHolds ==
    ASSUME NEW d,
           evaluateCompletenessOracle(capWitnessFromAttachRef(d), parseOrchestratorClaim(d)).verdict
             = "COMPLETE"
    PROVE  EarnedLog("incident", d)
<1> DEFINE seen == OrderedBy(capWitnessFromAttachRef(d).hops, "index")
           told == OrderedBy(parseOrchestratorClaim(d).hops, "index")
<1>1. completenessVerdict(seen, told) = "COMPLETE"
  BY DEF evaluateCompletenessOracle
<1> HIDE DEF seen, told
<1>2. Len(seen) = Len(told) /\ \A i \in DOMAIN seen \cap DOMAIN told : Alike(seen[i], told[i])
  BY <1>1 DEF completenessVerdict
<1>3. \A i \in DOMAIN seen \cap DOMAIN told : told[i].tool_name = seen[i].tool_name
  BY <1>2 DEF Alike
<1> USE DEF seen, told
<1> QED BY <1>2, <1>3 DEF EarnedLog, SameTools

\* The members that stand for the steps of a chain.
LEMMA StepMembersRange == Range(STEP_MEMBERS) = {"step1", "step2", "step3"}
BY DEF Range, STEP_MEMBERS

\* A member counted as verified is bundled, or a witness cosigned its verification; where
\* the row states no digest the word may be of any member.
LEMMA MemberBacked ==
    ASSUME NEW d, NEW verifies, NEW m, m = resolveComposedMemberVerifyState(d, verifies),
           NEW s \in m.ok, s \notin {"step1", "step2", "step3"}
    PROVE  \/ Backed(d, s)
           \/ d.composed_members[s].member_digest = NULL /\ At(d.member_verify_attestations, s) # NULL
<1> DEFINE rows == Entries(d.composed_members)
           docs == Entries(d.member_documents)
           words == Entries(d.member_verify_attestations)
<1>1. SchemaOf(s) = s
  BY StepMembersRange DEF SchemaOf
<1>2. CASE s \in DOMAIN docs
  BY <1>2 DEF Backed, Entries, At
<1>3. CASE s \notin DOMAIN docs
  <2>1. /\ s \in DOMAIN rows
        /\ attestationForSchema(words, s) # NULL
        /\ verifyMemberVerifyAttestation(attestationForSchema(words, s), s, rows[s].member_digest)
    BY <1>1, <1>3 DEF resolveComposedMemberVerifyState
  <2>2. s \in DOMAIN words /\ attestationForSchema(words, s) = words[s]
    BY <1>1, <2>1 DEF attestationForSchema
  <2>3. words[s] = At(d.member_verify_attestations, s) /\ words[s] # NULL
    BY <2>2 DEF Entries, At
  <2>4. rows[s] = d.composed_members[s]
    BY <2>1 DEF Entries
  <2>5. /\ d.composed_members[s].member_digest \in {NULL, words[s].member_digest}
        /\ words[s].witness_cosign.receipt_digest = words[s].attestation_digest
    BY <2>1, <2>2, <2>4 DEF verifyMemberVerifyAttestation, verifyWitnessCosignStructure
  <2> QED BY <2>3, <2>5 DEF Backed
<1> QED BY <1>2, <1>3

\* Where every row must state a digest, the witness's word is of that digest.
LEMMA ProvenMemberBacked ==
    ASSUME NEW d, NEW verifies, NEW m, m = resolveComposedMemberVerifyState(d, verifies),
           composedMemberDigestsValid(m.rows),
           NEW s \in m.ok, s \notin {"step1", "step2", "step3"}
    PROVE  Backed(d, s)
<1>1. m.rows = Entries(d.composed_members) /\ s \in DOMAIN m.rows
  BY DEF resolveComposedMemberVerifyState
<1>2. m.rows[s].member_digest # NULL
  BY <1>1 DEF composedMemberDigestsValid
<1>3. m.rows[s] = d.composed_members[s]
  BY <1>1 DEF Entries
<1> QED BY <1>2, <1>3, MemberBacked

\* A denial has its receipt and its session's set backed, a complete one the drill too.
LEMMA DenialBacked ==
    ASSUME NEW d, verifyVerifiableDenialEvidencePack(d)
    PROVE  EarnedPack("verifiable_denial", d)
<1> DEFINE verifies == [s \in DOMAIN Entries(d.member_documents) |->
                          denialMemberOk(s, d.member_documents[s])]
           m == resolveComposedMemberVerifyState(d, verifies)
<1>1. /\ composedMemberDigestsValid(m.rows)
      /\ {"liability_receipt", "set_completeness"} \subseteq m.ok
      /\ d.denial_assertions.denial_readiness = deriveDenialReadiness(m.ok)
  BY DEF verifyVerifiableDenialEvidencePack, ProvenMembers
<1> HIDE DEF verifies
<1>2. \A s \in m.ok : s \notin {"step1", "step2", "step3"} => Backed(d, s)
  BY <1>1, ProvenMemberBacked
<1> HIDE DEF m
<1>3. d.denial_assertions.denial_readiness = "complete" => "shutdown_drill" \in m.ok
  BY <1>1 DEF deriveDenialReadiness
<1> QED BY <1>1, <1>2, <1>3 DEF EarnedPack, AllBacked

\* A unified conduct pack has its three members backed and its sessions bound.
LEMMA CrossPlatformBacked ==
    ASSUME NEW d, verifyCrossPlatformConductPack(d)
    PROVE  EarnedPack("cross_platform", d)
<1> DEFINE verifies == [s \in DOMAIN Entries(d.member_documents) |->
                          crossPlatformMemberOk(s, d.member_documents[s])]
           m == resolveComposedMemberVerifyState(d, verifies)
           bound == d.vendor_session_binding.normalization_bound = TRUE
<1>1. /\ composedMemberDigestsValid(m.rows)
      /\ {"agt_conduct", "ap2_conduct", "conduct_manifest"} \subseteq m.ok
      /\ d.cross_platform_assertions.cross_platform_readiness = deriveCrossPlatformReadiness(m.ok, bound)
  BY DEF verifyCrossPlatformConductPack, ProvenMembers
<1> HIDE DEF verifies
<1>2. \A s \in m.ok : s \notin {"step1", "step2", "step3"} => Backed(d, s)
  BY <1>1, ProvenMemberBacked
<1> HIDE DEF m
<1>3. d.cross_platform_assertions.cross_platform_readiness = "unified" => bound
  BY <1>1 DEF deriveCrossPlatformReadiness
<1> QED BY <1>1, <1>2, <1>3 DEF EarnedPack, AllBacked

\* A custody pack's members are backed, and its path's digest is over its samples.
LEMMA DeployerBacked ==
    ASSUME NEW d, verifyDeployerLogCustodyPack(d)
    PROVE  EarnedPack("deployer_custody", d)
<1> DEFINE verifies == [s \in DOMAIN Entries(d.member_documents) |->
                          deployerMemberOk(s, d.member_documents[s])]
           m == resolveComposedMemberVerifyState(d, verifies)
           path == d.witness_custody_path
<1>1. /\ {"flight_recorder", "conduct_manifest", "witness_path"} \subseteq m.ok
      /\ path.witness_custody_path_digest = buildWitnessCustodyPathDigest(path)
  BY DEF verifyDeployerLogCustodyPack
<1> HIDE DEF verifies
<1>2. \A s \in m.ok : s \notin {"step1", "step2", "step3"} =>
        \/ Backed(d, s)
        \/ d.composed_members[s].member_digest = NULL /\ At(d.member_verify_attestations, s) # NULL
  BY MemberBacked
<1> HIDE DEF m
<1>3. path.witness_custody_path_digest.sample_entry_hashes = Items(path.sample_entry_hashes)
  BY <1>1 DEF buildWitnessCustodyPathDigest, Only, WitnessPathFields
<1> QED BY <1>1, <1>2, <1>3 DEF EarnedPack

\* A pack that survives a licence has pack and licence bundle backed.
LEMMA LicenseBacked ==
    ASSUME NEW d, verifyLicenseSurvivableCustodyPack(d)
    PROVE  EarnedPack("license_custody", d)
<1> DEFINE verifies == [s \in DOMAIN Entries(d.member_documents) |->
                          licenseMemberOk(s, d.member_documents[s])]
           m == resolveComposedMemberVerifyState(d, verifies)
<1>1. /\ composedMemberDigestsValid(m.rows)
      /\ {"deployer_pack", "license_bundle"} \subseteq m.ok
  BY DEF verifyLicenseSurvivableCustodyPack, ProvenMembers
<1> HIDE DEF verifies
<1>2. \A s \in m.ok : s \notin {"step1", "step2", "step3"} => Backed(d, s)
  BY <1>1, ProvenMemberBacked
<1> HIDE DEF m
<1> QED BY <1>1, <1>2 DEF EarnedPack, AllBacked

\* A pack ready for attribution passes at least four of its anchors.
LEMMA AnchorsPass ==
    ASSUME NEW d, verifyAnchorCoverageForensicPack(d)
    PROVE  EarnedPack("anchor_coverage", d)
BY DEF EarnedPack, Passes, verifyAnchorCoverageForensicPack

\* An independent pack has guardian, anchors and witness path backed.
LEMMA IndependenceBacked ==
    ASSUME NEW d, NEW o, verifyIndependenceWitnessPack(d, o)
    PROVE  EarnedPack("independence", d)
<1> DEFINE verifies == [s \in DOMAIN Entries(d.member_documents) |->
                          independenceMemberOk(s, d.member_documents[s], o)]
           m == resolveComposedMemberVerifyState(d, verifies)
<1>1. /\ composedMemberDigestsValid(m.rows)
      /\ d.independence_assertions.independence_readiness = deriveIndependenceReadiness(m.ok)
  BY DEF verifyIndependenceWitnessPack
<1> HIDE DEF verifies
<1>2. \A s \in m.ok : s \notin {"step1", "step2", "step3"} => Backed(d, s)
  BY <1>1, ProvenMemberBacked
<1> HIDE DEF m
<1>3. d.independence_assertions.independence_readiness = "independent" =>
        {"guardian", "anchor_coverage", "witness_path"} \subseteq m.ok
  BY <1>1 DEF deriveIndependenceReadiness
<1> QED BY <1>1, <1>2, <1>3 DEF EarnedPack, AllBacked

\* A complete census has roster and observations backed and no shadow agents.
LEMMA CensusBacked ==
    ASSUME NEW d, verifyAgentCensusCompletenessPack(d)
    PROVE  EarnedPack("census", d)
<1> DEFINE verifies == [s \in DOMAIN Entries(d.member_documents) |->
                          censusMemberOk(s, d.member_documents[s])]
           m == resolveComposedMemberVerifyState(d, verifies)
           delta == [f \in DOMAIN d.census_delta \cup DeltaCounts |->
                       IF f \in DeltaCounts THEN Default(Get(d.census_delta, f), 0) ELSE d.census_delta[f]]
           readiness == d.census_assertions.census_readiness
<1>1. /\ composedMemberDigestsValid(m.rows)
      /\ readiness = deriveCensusReadiness(delta, m.ok)
      /\ readiness = "partial" => m.ok \cap {"declared_roster", "observed_set"} # {}
  BY DEF verifyAgentCensusCompletenessPack
<1> HIDE DEF verifies
<1>2. \A s \in m.ok : s \notin {"step1", "step2", "step3"} => Backed(d, s)
  BY <1>1, ProvenMemberBacked
<1> HIDE DEF m
<1>3. delta.shadow_count = Default(Get(d.census_delta, "shadow_count"), 0)
  BY DEF DeltaCounts
<1> HIDE DEF delta
<1>4. /\ readiness = "roster_only" => "declared_roster" \in m.ok
      /\ readiness = "shadow_gap" => "observed_set" \in m.ok
      /\ readiness = "complete" => {"declared_roster", "observed_set"} \subseteq m.ok
                                    /\ delta.shadow_count = 0
  BY <1>1 DEF deriveCensusReadiness
<1> QED BY <1>1, <1>2, <1>3, <1>4 DEF EarnedPack, AllBacked

\* A notification timeline's pack has timeline, custody and conduct backed.
LEMMA TimelineBacked ==
    ASSUME NEW d, verifyIncidentNotificationTimelinePack(d)
    PROVE  EarnedPack("timeline", d)
<1> DEFINE verifies == [s \in DOMAIN Entries(d.member_documents) |->
                          timelineMemberOk(s, d.member_documents[s])]
           m == resolveComposedMemberVerifyState(d, verifies)
<1>1. /\ composedMemberDigestsValid(m.rows)
      /\ {"notification_timeline", "custody_manifest", "conduct_manifest"} \subseteq m.ok
  BY DEF verifyIncidentNotificationTimelinePack, ProvenMembers
<1> HIDE DEF verifies
<1>2. \A s \in m.ok : s \notin {"step1", "step2", "step3"} => Backed(d, s)
  BY <1>1, ProvenMemberBacked
<1> HIDE DEF m
<1> QED BY <1>1, <1>2 DEF EarnedPack, AllBacked

\* A procurement-ready change was announced two days ahead.
LEMMA ModelChangeBacked ==
    ASSUME NEW d, verifyModelChangeNotificationPack(d)
    PROVE  EarnedPack("model_change", d)
<1> DEFINE verifies == [s \in DOMAIN Entries(d.member_documents) |->
                          changeMemberOk(s, d.member_documents[s])]
           m == resolveComposedMemberVerifyState(d, verifies)
           ready == d.notification_assertions.notification_readiness = "procurement_ready"
<1>1. /\ composedMemberDigestsValid(m.rows)
      /\ ChangeMembers \subseteq m.ok
      /\ ready => LeadTimeMet(LeadTime(d.vendor_notification, d.vendor_model_change))
  BY DEF verifyModelChangeNotificationPack, ProvenMembers
<1> HIDE DEF verifies
<1>2. \A s \in m.ok : s \notin {"step1", "step2", "step3"} => Backed(d, s)
  BY <1>1, ProvenMemberBacked
<1> HIDE DEF m
<1>3. AllBacked(d, ChangeMembers)
  BY <1>1, <1>2 DEF AllBacked, ChangeMembers
<1>4. ready => 24 * (d.vendor_model_change.effective_at - d.vendor_notification.notified_at) >= 48
  BY <1>1 DEF LeadTimeMet, LeadTime, computeLeadTimeHours, MIN_VENDOR_NOTIFICATION_LEAD_HOURS
<1> QED BY <1>3, <1>4 DEF EarnedPack

\* A monitoring pack has all its members backed.
LEMMA MonitoringBacked ==
    ASSUME NEW d, verifyPostMarketMonitoringExportPack(d)
    PROVE  EarnedPack("monitoring", d)
<1> DEFINE verifies == [s \in DOMAIN Entries(d.member_documents) |->
                          monitoringMemberOk(s, d.member_documents[s])]
           m == resolveComposedMemberVerifyState(d, verifies)
<1>1. composedMemberDigestsValid(m.rows) /\ MonitoringMembers \subseteq m.ok
  BY DEF verifyPostMarketMonitoringExportPack, ProvenMembers
<1> HIDE DEF verifies
<1>2. \A s \in m.ok : s \notin {"step1", "step2", "step3"} => Backed(d, s)
  BY <1>1, ProvenMemberBacked
<1> HIDE DEF m
<1> QED BY <1>1, <1>2 DEF EarnedPack, AllBacked, MonitoringMembers

\* A submission that is ready passes at least five of the six controls.
LEMMA ControlsPass ==
    ASSUME NEW d, verifyCarrierUnderwritingEvidencePack(d)
    PROVE  EarnedPack("carrier", d)
BY DEF EarnedPack, Passes, verifyCarrierUnderwritingEvidencePack

\* Every member of an acceptance kit is backed.
LEMMA MgaKitBacked ==
    ASSUME NEW d, verifyCarrierMgaAcceptanceKit(d)
    PROVE  EarnedPack("mga_kit", d)
<1> DEFINE docs == Entries(d.member_documents)
           verifies == [s \in DOMAIN docs |-> mgaMemberOk(s, docs[s])]
           m == resolveComposedMemberVerifyState(d, verifies)
<1>1. composedMemberDigestsValid(m.rows) /\ m.memberVerifyRecomputed
  BY DEF verifyCarrierMgaAcceptanceKit, ProvenMembers
<1> HIDE DEF verifies
<1>2. m.rows = Entries(d.composed_members) /\ (m.memberVerifyRecomputed => m.ok = DOMAIN m.rows)
  BY DEF resolveComposedMemberVerifyState
<1>3. \A s \in m.ok : s \notin {"step1", "step2", "step3"} => Backed(d, s)
  BY <1>1, ProvenMemberBacked
<1> HIDE DEF m
<1> QED BY <1>1, <1>2, <1>3 DEF EarnedPack, AllBacked

\* A row of a set asserted as verified is bundled, or its witness names the row's digest.
LEMMA EvidenceSetBacked ==
    ASSUME NEW d, verifyAttestedEvidenceSet(d)
    PROVE  EarnedPack("evidence_set", d)
<1> DEFINE m == EvidenceSetMembers(d)
           rows == Entries(d.members)
           docs == Entries(d.member_documents)
           words == Entries(d.member_verify_attestations)
<1>1. /\ composedMemberDigestsValid(m.rows)
      /\ m.asserted # {} => m.memberVerifyRecomputed
  BY DEF verifyAttestedEvidenceSet
<1>2. /\ m.rows = rows
      /\ m.asserted = {s \in DOMAIN rows : rows[s].verify_ok = TRUE}
      /\ m.memberVerifyRecomputed => m.ok = DOMAIN rows
      /\ \A s \in m.ok \ DOMAIN docs :
           /\ s \in DOMAIN rows
           /\ attestationForSchema(words, s) # NULL
           /\ verifyMemberVerifyAttestation(attestationForSchema(words, s), SchemaOf(s),
                                            rows[s].member_digest)
  BY DEF EvidenceSetMembers, resolveComposedMemberVerifyState
<1> HIDE DEF m
<1>3. ASSUME NEW s \in DOMAIN rows, d.members[s].verify_ok = TRUE
      PROVE  \/ At(d.member_documents, s) # NULL
             \/ /\ At(d.member_verify_attestations, SchemaOf(s)) # NULL
                /\ At(d.member_verify_attestations, SchemaOf(s)).member_digest = d.members[s].member_digest
  <2>1. rows[s] = d.members[s]
    BY DEF Entries
  <2>2. s \in m.ok
    BY <1>1, <1>2, <1>3, <2>1
  <2>3. CASE s \in DOMAIN docs
    BY <2>3 DEF Entries, At
  <2>4. CASE s \notin DOMAIN docs
    <3>1. /\ attestationForSchema(words, s) # NULL
          /\ verifyMemberVerifyAttestation(attestationForSchema(words, s), SchemaOf(s),
                                           rows[s].member_digest)
      BY <1>2, <2>2, <2>4
    <3>2. SchemaOf(s) \in DOMAIN words /\ attestationForSchema(words, s) = words[SchemaOf(s)]
      BY <3>1 DEF attestationForSchema
    <3>3. words[SchemaOf(s)] = At(d.member_verify_attestations, SchemaOf(s)) /\ words[SchemaOf(s)] # NULL
      BY <3>2 DEF Entries, At
    <3>4. rows[s].member_digest \in {NULL, words[SchemaOf(s)].member_digest}
      BY <3>1, <3>2 DEF verifyMemberVerifyAttestation
    <3>5. rows[s].member_digest # NULL
      BY <1>1, <1>2 DEF composedMemberDigestsValid
    <3> QED BY <2>1, <3>3, <3>4, <3>5
  <2> QED BY <2>3, <2>4
<1> QED BY <1>3 DEF EarnedPack

\* A binding said to be bound names the attestation it carries.
LEMMA ExecutiveBound ==
    ASSUME NEW d, verifyExecutiveAttestationBindingPack(d)
    PROVE  EarnedPack("executive_binding", d)
BY DEF EarnedPack, verifyExecutiveAttestationBindingPack

\* A vetted add-on acted after it was vetted and within the cadence.
LEMMA VettingHolds ==
    ASSUME NEW d, verifyAddonVettingProvenance(d)
    PROVE  EarnedReadiness("addon_vetting", d)
<1> DEFINE days == computeDaysBetweenVettingAndAction(d.vetting_evaluated_at, d.action_executed_at)
           cadence == Default(d.re_vet_cadence_days, 7)
<1>1. d.vetting_verdict = "APPROVED" /\ days # NULL /\ days <= AtLeastOne(cadence)
  BY DEF verifyAddonVettingProvenance, evaluateVettingCoverage, DEFAULT_ADDON_VETTING_CADENCE_DAYS
<1>2. /\ ~(d.action_executed_at < d.vetting_evaluated_at)
      /\ days = d.action_executed_at - d.vetting_evaluated_at
  BY <1>1 DEF computeDaysBetweenVettingAndAction
<1> HIDE DEF days
<1> QED BY <1>1, <1>2 DEF EarnedReadiness, AtLeastOne

\* A closed conformity has as many live signals as its threshold asks for.
LEMMA ReviewHolds ==
    ASSUME NEW d, verifyQuarterlyReviewExport(d)
    PROVE  EarnedReadiness("quarterly_review", d)
<1>1. ASSUME NEW c \in d.closures, Count(c.live_signal_count) \in Int, Count(c.signal_threshold) \in Int
      PROVE  Count(c.live_signal_count) >= Count(c.signal_threshold)
  <2> DEFINE live == Count(c.live_signal_count)
             threshold == Count(c.signal_threshold)
  <2>1. live >= AtLeastOne(Count(AtLeastOne(threshold)))
    BY DEF verifyQuarterlyReviewExport, verifyConformityClosureBundle, evaluateConformityClosureSignals
  <2>2. AtLeastOne(Count(AtLeastOne(threshold))) >= threshold
    BY <1>1 DEF AtLeastOne, Count, Default
  <2>3. AtLeastOne(Count(AtLeastOne(threshold))) \in Int
    BY <1>1 DEF AtLeastOne, Count, Default
  <2> HIDE DEF live, threshold
  <2>4. live \in Int /\ threshold \in Int
    BY <1>1 DEF live, threshold
  <2>5. live >= threshold
    BY <2>1, <2>2, <2>3, <2>4
  <2> QED BY <2>5 DEF live, threshold
<1> QED BY <1>1 DEF EarnedReadiness

\* Where an integrity check failed, some failure has a structural source.
LEMMA IntegrityHolds ==
    ASSUME NEW d, NEW r, verifyAegIntegrityBundle(d, r)
    PROVE  EarnedReadiness("aeg_integrity", d)
<1> DEFINE failures == {c \in Items(d.checks_evaluated) :
                          c.check \in AEG_INTEGRITY_CHECKS /\ c.result = "FAIL"}
           parsed == {c \in parseChecks(d.checks_evaluated) : c.result = "FAIL"}
<1>1. ASSUME NEW c \in failures PROVE parsed # {}
  <2> DEFINE row == [check |-> c.check, result |-> c.result,
                     source |-> IF c.source \in AEG_STRUCTURAL_SOURCES THEN c.source ELSE NULL]
  <2>1. row \in parseChecks(d.checks_evaluated)
    BY <1>1 DEF parseChecks, AEG_CHECK_RESULTS
  <2>2. row.result = "FAIL"
    BY <1>1
  <2> QED BY <2>1, <2>2
<1>2. parsed # {} => \E c \in parsed : c.source # NULL
  BY DEF verifyAegIntegrityBundle
<1>3. ASSUME NEW c \in parsed, c.source # NULL
      PROVE  \E x \in failures : x.source \in AEG_STRUCTURAL_SOURCES
  BY <1>3 DEF parseChecks
<1> HIDE DEF failures, parsed
<1>4. failures # {} => \E x \in failures : x.source \in AEG_STRUCTURAL_SOURCES
  BY <1>1, <1>2, <1>3
<1> USE DEF failures
<1> QED BY <1>4 DEF EarnedReadiness

\* An attestation is the one that follows from the observed horizon.
LEMMA HorizonHolds ==
    ASSUME NEW d, NEW w, verifyRevocationHorizonBundle(d, w)
    PROVE  EarnedDelegated("revocation_horizon", d)
<1>1. d.horizon_ms_observed # NULL
  BY DEF verifyRevocationHorizonBundle, Present
<1>2. d.attestation = RevocationAttestation(d)
  BY DEF verifyRevocationHorizonBundle, evaluateRevocationHorizon
<1> QED BY <1>1, <1>2 DEF EarnedDelegated, RevocationAttestation

\* Every receipt in a guardian's hands is sound, and a permitted member names its entry.
LEMMA GuardianHolds ==
    ASSUME NEW d, NEW strict, verifyIndependentGuardianBundle(d, GuardianOptions(d, strict))
    PROVE  EarnedBoundary("guardian", d)
<1> DEFINE o == GuardianOptions(d, strict)
<1>1. ASSUME NEW member \in Items(d.members)
      PROVE  /\ ReceiptSound(member.receipt)
             /\ member.receipt_profile = "PERMITTED" => member.entry_hash = member.receipt.entry_hash
  <2> DEFINE context == resolveMemberContext(member, o.memberContexts)
             options == [context EXCEPT !.entryHash = Default(@, member.entry_hash)]
  <2>1. member.entry_hash # NULL /\ verifyMember(member, o.memberContexts, o.requireCustodianWitness)
    BY DEF verifyIndependentGuardianBundle, Present
  <2>2. "entryHash" \in DOMAIN context /\ context.entryHash = NULL
    BY DEF resolveMemberContext, GuardianOptions, ProveOptions, NoProveOptions
  <2>3. options.entryHash = member.entry_hash
    BY <2>2 DEF Default
  <2>4. "entryHash" \in DOMAIN options
    BY <2>2
  <2> HIDE DEF context, options
  <2>5. ReceiptSound(member.receipt)
    BY <2>1 DEF verifyMember, verifyEvidenceCustodianBundle, verifyProveBundle, options, context
  <2>6. ASSUME member.receipt_profile = "PERMITTED"
        PROVE  member.entry_hash = member.receipt.entry_hash
    <3> DEFINE given == [options EXCEPT !.requireWitnessCosign = o.requireCustodianWitness]
    <3>1. verifyEvidenceCustodianBundle(member.receipt, given)
      BY <2>1, <2>6 DEF verifyMember, options, context
    <3>2. given.entryHash = member.entry_hash
      BY <2>3, <2>4
    <3> HIDE DEF given
    <3>3. ExpectedEntryHash(member.receipt, given) = member.receipt.entry_hash
      BY <3>1 DEF verifyEvidenceCustodianBundle, verifyProveBundle, GatewayBound
    <3> QED BY <2>1, <3>2, <3>3 DEF ExpectedEntryHash, Default
  <2> QED BY <2>5, <2>6
<1>2. d.members # NULL
  BY DEF verifyIndependentGuardianBundle, Items
<1>3. Items(d.members) = d.members
  BY <1>2 DEF Items
<1> QED BY <1>1, <1>3 DEF EarnedBoundary

\* There is no endless descent among the natural numbers.
LEMMA LessIsWellFounded == IsWellFoundedOn({p \in Nat \X Nat : p[1] < p[2]}, Nat)
BY NatLessThanWellFounded DEF OpToRel

\* Induction on a set of numbers: the least one missing has a predecessor that is not.
LEMMA SetInduction ==
    ASSUME NEW S, 0 \in S, \A n \in Nat : n \in S => n + 1 \in S
    PROVE  \A n \in Nat : n \in S
<1> DEFINE less == {p \in Nat \X Nat : p[1] < p[2]}
           missing == {n \in Nat : n \notin S}
<1> SUFFICES ASSUME missing # {} PROVE FALSE
  OBVIOUS
<1>1. PICK m \in missing : \A n \in missing : <<n, m>> \notin less
  <2>1. IsWellFoundedOn(less, Nat) /\ missing \subseteq Nat
    BY LessIsWellFounded
  <2> HIDE DEF less, missing
  <2> QED BY <2>1, WFMin
<1>2. m \in Nat /\ m # 0 /\ m - 1 \in Nat
  OBVIOUS
<1>3. <<m - 1, m>> \in less
  BY <1>2
<1>4. m - 1 \in S
  BY <1>1, <1>2, <1>3
<1> QED BY <1>2, <1>4

\* What hop j was given is in what hop i gave, for the hops from i to j.
Within(links, i, j) ==
    i..j \subseteq DOMAIN links =>
      /\ Items(links[j].effective_scopes) \subseteq Items(links[i].effective_scopes)
      /\ Items(links[j].effective_tools) \subseteq Items(links[i].effective_tools)
      /\ (\A n \in i..j : Default(links[n].remaining_budget_cents, 0) \in Int) =>
           Default(links[j].remaining_budget_cents, 0) <= Default(links[i].remaining_budget_cents, 0)

\* Narrowing from hop to hop is narrowing along the chain, however long: scopes, tools and,
\* where budgets are numbers, what is left to spend.
LEMMA ChainNarrows ==
    ASSUME NEW links, \A i \in DOMAIN links \ {1} : Narrowed(links[i - 1], links[i])
    PROVE  Narrows(links)
<1>1. ASSUME NEW i \in Nat \ {0} PROVE \A n \in Nat : Within(links, i, i + n)
  <2> DEFINE S == {n \in Nat : Within(links, i, i + n)}
  <2>1. 0 \in S
    BY DEF Within
  <2>2. ASSUME NEW n \in Nat, Within(links, i, i + n) PROVE Within(links, i, i + (n + 1))
    <3> SUFFICES ASSUME i..(i + (n + 1)) \subseteq DOMAIN links
                 PROVE  Within(links, i, i + (n + 1))
      BY DEF Within
    <3> DEFINE j == i + n
    <3>1. j \in Nat /\ i + (n + 1) = j + 1 /\ i..j \subseteq i..(j + 1) /\ i \in i..j /\ j \in i..j
          /\ j + 1 \in i..(j + 1) /\ j + 1 # 1 /\ (j + 1) - 1 = j
      OBVIOUS
    <3> HIDE DEF j
    <3>2. i..j \subseteq DOMAIN links /\ j + 1 \in DOMAIN links
      BY <3>1
    <3>3. Narrowed(links[j], links[j + 1])
      BY <3>1, <3>2
    <3>4. Within(links, i, j)
      BY <2>2 DEF j
    <3>5. /\ Items(links[j + 1].effective_scopes) \subseteq Items(links[i].effective_scopes)
          /\ Items(links[j + 1].effective_tools) \subseteq Items(links[i].effective_tools)
      BY <3>2, <3>3, <3>4 DEF Within, Narrowed
    <3>6. ASSUME \A k \in i..(j + 1) : Default(links[k].remaining_budget_cents, 0) \in Int
          PROVE  Default(links[j + 1].remaining_budget_cents, 0)
                   <= Default(links[i].remaining_budget_cents, 0)
      <4> DEFINE left(k) == Default(links[k].remaining_budget_cents, 0)
      <4>1. left(j + 1) <= left(j)
        BY <3>3 DEF Narrowed
      <4>2. left(j) <= left(i)
        BY <3>1, <3>2, <3>4, <3>6 DEF Within
      <4>3. left(j + 1) \in Int /\ left(j) \in Int /\ left(i) \in Int
        BY <3>1, <3>6
      <4> HIDE DEF left
      <4>4. left(j + 1) <= left(i)
        BY <4>1, <4>2, <4>3
      <4> QED BY <4>4 DEF left
    <3>7. Within(links, i, j + 1)
      BY <3>5, <3>6 DEF Within
    <3> QED BY <3>1, <3>7
  <2>3. \A n \in Nat : n \in S => n + 1 \in S
    BY <2>2
  <2> HIDE DEF S
  <2>4. \A n \in Nat : n \in S
    BY <2>1, <2>3, SetInduction
  <2> QED BY <2>4 DEF S
<1>2. ASSUME NEW j \in DOMAIN links \cap Nat, NEW i \in 1..j PROVE Within(links, i, j)
  <2>1. i \in Nat \ {0} /\ j - i \in Nat /\ i + (j - i) = j
    OBVIOUS
  <2> QED BY <1>1, <2>1
<1> QED BY <1>2 DEF Narrows, Within

\* A delegation chain that verifies narrows from any hop to any later one.
LEMMA DelegationNarrows ==
    ASSUME NEW chain, NEW secret, verifyDelegationChain(chain, secret)
    PROVE  Narrows(chain.links)
<1>1. List(chain.links) # <<>>
  BY DEF verifyDelegationChain
<1>2. List(chain.links) = chain.links
  BY <1>1 DEF List
<1>3. \A i \in DOMAIN chain.links \ {1} : Narrowed(chain.links[i - 1], chain.links[i])
  BY <1>2 DEF verifyDelegationChain
<1> QED BY <1>3, ChainNarrows

\* Of the members that share the schema of a step the first one is found.
LEMMA FirstStep ==
    ASSUME NEW rows, "step1" \in DOMAIN rows
    PROVE  STEP_MEMBERS[Min({i \in DOMAIN STEP_MEMBERS : STEP_MEMBERS[i] \in DOMAIN rows})] = "step1"
<1> DEFINE present == {i \in DOMAIN STEP_MEMBERS : STEP_MEMBERS[i] \in DOMAIN rows}
<1>1. present \subseteq {1, 2, 3} /\ 1 \in present /\ STEP_MEMBERS[1] = "step1"
  BY DEF STEP_MEMBERS
<1> HIDE DEF present
<1> DEFINE least == Min(present)
<1>2. least \in present /\ \A y \in present : least <= y
  <2>1. \A y \in present : 1 <= y
    BY <1>1
  <2> QED BY <1>1, <2>1 DEF Min
<1> HIDE DEF least
<1>3. least = 1
  <2>1. least \in {1, 2, 3} /\ least <= 1
    BY <1>1, <1>2
  <2> QED BY <2>1
<1> QED BY <1>1, <1>3 DEF present, least

\* The receipt of the first hop is the one the pack names (finding 6 is about the others).
LEMMA FirstHopBacked ==
    ASSUME NEW d, verifyCrossOrgDelegationChainPack(d)
    PROVE  EarnedPack("cross_org", d)
<1> DEFINE rows == Entries(d.composed_members)
           docs == Entries(d.member_documents)
           words == Entries(d.member_verify_attestations)
           found == [s \in DOMAIN rows |-> memberDocumentForSchema(rows, docs, s)]
           members == [composed_members |-> d.composed_members, member_documents |-> found,
                       member_verify_attestations |-> d.member_verify_attestations]
           verifies == [s \in DOMAIN Entries(found) |-> recomputeMemberVerifyOk(s, found[s])]
           m == resolveComposedMemberVerifyState(members, verifies)
<1>1. m.asserted # {} => m.memberVerifyRecomputed
  BY DEF verifyCrossOrgDelegationChainPack
<1> HIDE DEF verifies
<1>2. /\ m.asserted = {s \in DOMAIN rows : rows[s].verify_ok = TRUE}
      /\ m.memberVerifyRecomputed => m.ok = DOMAIN rows
      /\ \A s \in m.ok \ DOMAIN Entries(found) : attestationForSchema(words, s) # NULL
  BY DEF resolveComposedMemberVerifyState
<1> HIDE DEF m
<1> SUFFICES ASSUME "step1" \in DOMAIN rows, rows["step1"].verify_ok = TRUE,
                    attestationForSchema(words, "step1") = NULL
             PROVE  \E r \in StepRows(docs) : docs[r].receipt_digest = rows["step1"].member_digest
  BY DEF EarnedPack, HopBacked
<1>3. "step1" \in DOMAIN Entries(found)
  BY <1>1, <1>2
<1>4. memberDocumentForSchema(rows, docs, "step1") # NULL
  <2> HIDE DEF found
  <2>1. found # NULL => DOMAIN Entries(found) = {s \in DOMAIN found : found[s] # NULL}
    BY DEF Entries
  <2>2. found = NULL => Entries(found) = <<>>
    BY DEF Entries
  <2>3. DOMAIN <<>> = {}
    OBVIOUS
  <2>4. "step1" \in DOMAIN found /\ found["step1"] # NULL
    BY <1>3, <2>1, <2>2, <2>3
  <2> USE DEF found
  <2> QED BY <2>4
<1>5. "step1" \in StepRows(rows)
  BY StepMembersRange DEF StepRows
<1> QED BY <1>4, <1>5, FirstStep DEF memberDocumentForSchema

-----------------------------------------------------------------------------
(* What each class of documents earns *)

\* What a conduct document claims is so when its verifier accepts it.
LEMMA ConductEarned ==
    ASSUME NEW k \in Conduct, NEW d, NEW o, VerifyConduct(k, d, o)
    PROVE  EarnedConduct(k, d)
<1>1. CASE k = "ap2_conduct"
  <2>1. verifyAp2ConductReceipt(d)
    BY <1>1 DEF VerifyConduct
  <2> QED BY <1>1, <2>1, Ap2DisputeHolds
<1>2. CASE k = "behavioral_sbom"
  <2>1. verifyBehavioralSbomBundle(d, FALSE)
    BY <1>2 DEF VerifyConduct
  <2> QED BY <1>2, <2>1, EnrolmentHolds
<1>3. CASE k = "sep_bind"
  <2>1. verifyMcpSepAttestationBind(d, IF o = "strict" THEN "secret" ELSE NULL)
    BY <1>3 DEF VerifyConduct
  <2> QED BY <1>3, <2>1, BackLinkHolds
<1>4. CASE k \notin {"ap2_conduct", "behavioral_sbom", "sep_bind"}
  BY <1>4 DEF EarnedConduct
<1> QED BY <1>1, <1>2, <1>3, <1>4

\* The same of documents about egress, boundary and custody, but for the surfaces' totals.
LEMMA BoundaryEarned ==
    ASSUME NEW k \in Boundary \ {"surfaces"}, NEW d, NEW o, VerifyBoundary(k, d, o)
    PROVE  EarnedBoundary(k, d)
<1>1. CASE k = "boundary"
  <2>1. verifyProvableExecutionBoundaryBundle(d, BoundaryOptions(o = "strict"))
    BY <1>1 DEF VerifyBoundary
  <2> QED BY <1>1, <2>1, BoundaryFollows
<1>2. CASE k = "constraint_closure"
  <2>1. verifyConstraintClosureBundle(d, FALSE)
    BY <1>2 DEF VerifyBoundary
  <2> QED BY <1>2, <2>1, ClosureHolds
<1>3. CASE k = "guardian"
  <2>1. verifyIndependentGuardianBundle(d, GuardianOptions(d, o = "strict"))
    BY <1>3 DEF VerifyBoundary
  <2> QED BY <1>3, <2>1, GuardianHolds
<1>4. CASE k = "host_bind"
  <2>1. \E options : verifyHostConformanceBind(d, options)
    BY <1>4 DEF VerifyBoundary
  <2> QED BY <1>4, <2>1, ConformanceHolds
<1>5. CASE k \notin {"surfaces", "boundary", "constraint_closure", "guardian", "host_bind"}
  BY <1>5 DEF EarnedBoundary
<1> QED BY <1>1, <1>2, <1>3, <1>4, <1>5

\* The same of governance documents.
LEMMA GovernanceEarned ==
    ASSUME NEW k \in Governance, NEW d, NEW o, VerifyGovernance(k, d, o)
    PROVE  EarnedGovernance(k, d)
<1>1. CASE k = "adaptation_lifecycle"
  <2>1. verifyAdaptationLifecycleExportBundle(d, o = "strict")
    BY <1>1 DEF VerifyGovernance
  <2> QED BY <1>1, <2>1, LifecycleHolds
<1>2. CASE k = "monitoring_snapshot"
  <2>1. verifyPostMarketMonitoringSnapshot(d)
    BY <1>2 DEF VerifyGovernance
  <2> QED BY <1>2, <2>1, SnapshotHolds
<1>3. CASE k = "modification_signal"
  <2>1. verifySubstantialModificationSignalBundle(d, o = "strict", o = "strict")
    BY <1>3 DEF VerifyGovernance
  <2>2. BreachesNamed(d)
    BY <2>1, SignalHolds
  <2> QED BY <1>3, <2>2 DEF EarnedGovernance
<1>4. CASE k = "modification_scitt"
  <2>1. verifySubstantialModificationSignalBundle(Without(d, {"scitt_alignment"}), FALSE, FALSE)
    BY <1>4 DEF VerifyGovernance
  <2>2. BreachesNamed(Without(d, {"scitt_alignment"}))
    BY <2>1, SignalHolds
  <2> QED BY <1>4, <2>2 DEF EarnedGovernance
<1>5. CASE k \notin {"adaptation_lifecycle", "monitoring_snapshot", "modification_signal",
                     "modification_scitt"}
  BY <1>5 DEF EarnedGovernance
<1> QED BY <1>1, <1>2, <1>3, <1>4, <1>5

\* The same of readiness documents.
LEMMA ReadinessEarned ==
    ASSUME NEW k \in Readiness, NEW d, NEW o, VerifyReadiness(k, d, o)
    PROVE  EarnedReadiness(k, d)
<1>1. CASE k = "addon_vetting"
  BY <1>1, VettingHolds DEF VerifyReadiness
<1>2. CASE k = "adversarial_pack"
  BY <1>2, AdversarialHolds DEF VerifyReadiness
<1>3. CASE k = "retest_receipt"
  BY <1>3, RetestHolds DEF VerifyReadiness
<1>4. CASE k = "shutdown_drill"
  <2>1. verifyShutdownDrillBundle(d, IF o = "strict" THEN "secret" ELSE NULL)
    BY <1>4 DEF VerifyReadiness
  <2> QED BY <1>4, <2>1, DrillHolds
<1>5. CASE k = "quarterly_review"
  BY <1>5, ReviewHolds DEF VerifyReadiness
<1>6. CASE k = "autonomy_tier"
  BY <1>6, TierHolds DEF VerifyReadiness
<1>7. CASE k = "aeg_integrity"
  <2>1. verifyAegIntegrityBundle(d, o = "strict")
    BY <1>7 DEF VerifyReadiness
  <2> QED BY <1>7, <2>1, IntegrityHolds
<1>8. CASE k \notin {"addon_vetting", "adversarial_pack", "retest_receipt", "shutdown_drill",
                     "quarterly_review", "autonomy_tier", "aeg_integrity"}
  BY <1>8 DEF EarnedReadiness
<1> QED BY <1>1, <1>2, <1>3, <1>4, <1>5, <1>6, <1>7, <1>8

\* The same of approvals, revocations and delegations.
LEMMA DelegatedEarned ==
    ASSUME NEW k \in Delegated, NEW d, NEW o, VerifyDelegated(k, d, o)
    PROVE  EarnedDelegated(k, d)
<1>1. CASE k = "hitl_approval"
  <2>1. verifyHitlApprovalReceipt(d, o = "strict" /\ d.decision = "APPROVE", o = "strict")
    BY <1>1 DEF VerifyDelegated
  <2> QED BY <1>1, <2>1, ApprovalHolds
<1>2. CASE k = "revocation_horizon"
  <2>1. verifyRevocationHorizonBundle(d, o = "strict" /\ d.attestation = "WITHIN_SLA")
    BY <1>2 DEF VerifyDelegated
  <2> QED BY <1>2, <2>1, HorizonHolds
<1>3. CASE k = "delegation_chain"
  <2>1. verifyDelegationChain(Unflat(d), "secret")
    BY <1>3 DEF VerifyDelegated
  <2>2. Narrows(Unflat(d).links)
    BY <2>1, DelegationNarrows
  <2> QED BY <1>3, <2>2 DEF EarnedDelegated
<1>4. CASE k = "delegation_accountability"
  <2> DEFINE options == [signingSecret |-> "secret", requireHopLimitEvidence |-> o = "strict",
                         requireCascadeRevokeWitness |-> o = "strict"]
  <2>1. verifyDelegationAccountabilityBundle(d, options)
    BY <1>4 DEF VerifyDelegated
  <2>2. verifyDelegationChain(d.delegation_chain, options.signingSecret)
    BY <2>1 DEF verifyDelegationAccountabilityBundle
  <2>3. Narrows(d.delegation_chain.links)
    BY <2>2, DelegationNarrows
  <2> QED BY <1>4, <2>3 DEF EarnedDelegated
<1>5. CASE k \notin {"hitl_approval", "revocation_horizon", "delegation_chain",
                     "delegation_accountability"}
  BY <1>5 DEF EarnedDelegated
<1> QED BY <1>1, <1>2, <1>3, <1>4, <1>5

\* The same of a log's documents.
LEMMA LogEarned ==
    ASSUME NEW k \in Logs, NEW d, NEW o, VerifyLog(k, d, o)
    PROVE  EarnedLog(k, d)
<1>1. CASE k = "refusal_witness"
  BY <1>1, RefusalWitnessHolds DEF VerifyLog
<1>2. CASE k = "monitor_status"
  BY <1>2, MonitorStatusHolds DEF VerifyLog
<1>3. CASE k = "incident"
  <2> DEFINE oracle == evaluateCompletenessOracle(capWitnessFromAttachRef(d), parseOrchestratorClaim(d))
  <2>1. oracle.closable \/ oracle.verdict = "COMPLETE"
    BY <1>3 DEF VerifyLog
  <2>2. oracle.closable => oracle.verdict = "COMPLETE"
    BY DEF evaluateCompletenessOracle
  <2> QED BY <1>3, <2>1, <2>2, IncidentHolds
<1>4. CASE k \notin {"refusal_witness", "monitor_status", "incident"}
  BY <1>4 DEF EarnedLog
<1> QED BY <1>1, <1>2, <1>3, <1>4

\* The same of composed packs.
LEMMA PackEarned ==
    ASSUME NEW k \in Packs, NEW d, NEW o, VerifyPack(k, d, o)
    PROVE  EarnedPack(k, d)
<1>1. CASE k = "verifiable_denial"
  BY <1>1, DenialBacked DEF VerifyPack
<1>2. CASE k = "cross_platform"
  BY <1>2, CrossPlatformBacked DEF VerifyPack
<1>3. CASE k = "deployer_custody"
  BY <1>3, DeployerBacked DEF VerifyPack
<1>4. CASE k = "license_custody"
  BY <1>4, LicenseBacked DEF VerifyPack
<1>5. CASE k = "anchor_coverage"
  BY <1>5, AnchorsPass DEF VerifyPack
<1>6. CASE k = "independence"
  <2>1. verifyIndependenceWitnessPack(d, IndependenceOptions(d, o = "strict"))
    BY <1>6 DEF VerifyPack
  <2> QED BY <1>6, <2>1, IndependenceBacked
<1>7. CASE k = "census"
  BY <1>7, CensusBacked DEF VerifyPack
<1>8. CASE k = "timeline"
  BY <1>8, TimelineBacked DEF VerifyPack
<1>9. CASE k = "model_change"
  BY <1>9, ModelChangeBacked DEF VerifyPack
<1>10. CASE k = "monitoring"
  BY <1>10, MonitoringBacked DEF VerifyPack
<1>11. CASE k = "carrier"
  BY <1>11, ControlsPass DEF VerifyPack
<1>12. CASE k = "mga_kit"
  BY <1>12, MgaKitBacked DEF VerifyPack
<1>13. CASE k = "evidence_set"
  BY <1>13, EvidenceSetBacked DEF VerifyPack
<1>14. CASE k = "executive_binding"
  BY <1>14, ExecutiveBound DEF VerifyPack
<1>15. CASE k = "cross_org"
  BY <1>15, FirstHopBacked DEF VerifyPack
<1> QED
  BY <1>1, <1>2, <1>3, <1>4, <1>5, <1>6, <1>7, <1>8,
     <1>9, <1>10, <1>11, <1>12, <1>13, <1>14, <1>15 DEF Packs

\* No kind of document is in two classes.
LEMMA ClassesDisjoint ==
    /\ Conduct \cap (Boundary \cup Governance \cup Readiness \cup Delegated \cup Logs \cup Packs) = {}
    /\ Boundary \cap (Conduct \cup Governance \cup Readiness \cup Delegated \cup Logs \cup Packs) = {}
    /\ Governance \cap (Conduct \cup Boundary \cup Readiness \cup Delegated \cup Logs \cup Packs) = {}
    /\ Readiness \cap (Conduct \cup Boundary \cup Governance \cup Delegated \cup Logs \cup Packs) = {}
    /\ Delegated \cap (Conduct \cup Boundary \cup Governance \cup Readiness \cup Logs \cup Packs) = {}
    /\ Logs \cap (Conduct \cup Boundary \cup Governance \cup Readiness \cup Delegated \cup Packs) = {}
    /\ Packs \cap (Conduct \cup Boundary \cup Governance \cup Readiness \cup Delegated \cup Logs) = {}
BY DEF Conduct, Boundary, Governance, Readiness, Delegated, Logs, Packs

\* A document of any of these kinds, whoever made it: accepted, its claims are earned.
LEMMA AcceptedIsEarned ==
    ASSUME NEW k \in MCKinds \ {"surfaces"}, NEW d, NEW o, MCVerifies(k, d, o)
    PROVE  MCEarned(k, d)
<1>1. CASE k \in Conduct
  <2>1. /\ k \notin Boundary /\ k \notin Governance /\ k \notin Readiness
        /\ k \notin Delegated /\ k \notin Logs /\ k \notin Packs
    BY <1>1, ClassesDisjoint
  <2>2. VerifyConduct(k, d, o)
    BY <1>1, <2>1 DEF MCVerifies
  <2>3. EarnedConduct(k, d)
    BY <1>1, <2>2, ConductEarned
  <2> QED BY <1>1, <2>1, <2>3 DEF MCEarned
<1>2. CASE k \in Boundary
  <2>1. /\ k \notin Conduct /\ k \notin Governance /\ k \notin Readiness
        /\ k \notin Delegated /\ k \notin Logs /\ k \notin Packs
    BY <1>2, ClassesDisjoint
  <2>2. VerifyBoundary(k, d, o)
    BY <1>2, <2>1 DEF MCVerifies
  <2>3. EarnedBoundary(k, d)
    BY <1>2, <2>2, BoundaryEarned
  <2> QED BY <1>2, <2>1, <2>3 DEF MCEarned
<1>3. CASE k \in Governance
  <2>1. /\ k \notin Conduct /\ k \notin Boundary /\ k \notin Readiness
        /\ k \notin Delegated /\ k \notin Logs /\ k \notin Packs
    BY <1>3, ClassesDisjoint
  <2>2. VerifyGovernance(k, d, o)
    BY <1>3, <2>1 DEF MCVerifies
  <2>3. EarnedGovernance(k, d)
    BY <1>3, <2>2, GovernanceEarned
  <2> QED BY <1>3, <2>1, <2>3 DEF MCEarned
<1>4. CASE k \in Readiness
  <2>1. /\ k \notin Conduct /\ k \notin Boundary /\ k \notin Governance
        /\ k \notin Delegated /\ k \notin Logs /\ k \notin Packs
    BY <1>4, ClassesDisjoint
  <2>2. VerifyReadiness(k, d, o)
    BY <1>4, <2>1 DEF MCVerifies
  <2>3. EarnedReadiness(k, d)
    BY <1>4, <2>2, ReadinessEarned
  <2> QED BY <1>4, <2>1, <2>3 DEF MCEarned
<1>5. CASE k \in Delegated
  <2>1. /\ k \notin Conduct /\ k \notin Boundary /\ k \notin Governance
        /\ k \notin Readiness /\ k \notin Logs /\ k \notin Packs
    BY <1>5, ClassesDisjoint
  <2>2. VerifyDelegated(k, d, o)
    BY <1>5, <2>1 DEF MCVerifies
  <2>3. EarnedDelegated(k, d)
    BY <1>5, <2>2, DelegatedEarned
  <2> QED BY <1>5, <2>1, <2>3 DEF MCEarned
<1>6. CASE k \in Logs
  <2>1. /\ k \notin Conduct /\ k \notin Boundary /\ k \notin Governance
        /\ k \notin Readiness /\ k \notin Delegated /\ k \notin Packs
    BY <1>6, ClassesDisjoint
  <2>2. VerifyLog(k, d, o)
    BY <1>6, <2>1 DEF MCVerifies
  <2>3. EarnedLog(k, d)
    BY <1>6, <2>2, LogEarned
  <2> QED BY <1>6, <2>1, <2>3 DEF MCEarned
<1>7. CASE k \in Packs
  <2>1. /\ k \notin Conduct /\ k \notin Boundary /\ k \notin Governance
        /\ k \notin Readiness /\ k \notin Delegated /\ k \notin Logs
    BY <1>7, ClassesDisjoint
  <2>2. VerifyPack(k, d, o)
    BY <1>7, <2>1 DEF MCVerifies
  <2>3. EarnedPack(k, d)
    BY <1>7, <2>2, PackEarned
  <2> QED BY <1>7, <2>1, <2>3 DEF MCEarned
<1> QED BY <1>1, <1>2, <1>3, <1>4, <1>5, <1>6, <1>7 DEF MCKinds

-----------------------------------------------------------------------------
(* Custody *)

\* The verifiers and the claims are those of the modules of the documents; what
\* is issued, sealed again, lost, mixed in or turned round is left open.
VerifiersAreModelled ==
    /\ Kinds \subseteq MCKinds
    /\ \A k, d, o : Verifies(k, d, o) = MCVerifies(k, d, o)
    /\ \A k, d : Earned(k, d) = MCEarned(k, d)

\* A verdict is one its verifier gives of what is held, with some options.
VerdictOfHeld == verdict # NULL => \E o : verdict = Verifies(kind, held, o)

\* What custody does to a document is of no consequence here.
LEMMA NextSplits == Next => (\E doc : Alter(doc)) \/ Reissue \/ (\E o : Verify(o))
BY DEF Next, Lose, LosePart, MixIn, MixInPart, Turn

\* A verdict stays the verdict of what is held.
LEMMA VerdictInvariant == Spec => [](VerdictOfHeld /\ kind \in Kinds)
<1> DEFINE Inv == VerdictOfHeld /\ kind \in Kinds
<1>1. Init => Inv
  BY DEF Init, VerdictOfHeld
<1>2. Inv /\ [Next]_vars => Inv'
  <2> SUFFICES ASSUME Inv, [Next]_vars PROVE Inv'
    OBVIOUS
  <2>1. CASE \E doc : Alter(doc)
    <3>1. kind' = kind /\ verdict' = verdict /\ verdict = NULL
      BY <2>1 DEF Alter
    <3> QED BY <3>1 DEF VerdictOfHeld
  <2>2. CASE Reissue
    BY <2>2 DEF Reissue, VerdictOfHeld
  <2>3. CASE \E o : Verify(o)
    BY <2>3 DEF Verify, VerdictOfHeld
  <2>4. CASE UNCHANGED vars
    BY <2>4 DEF vars, VerdictOfHeld
  <2> HIDE DEF Inv
  <2> QED BY <2>1, <2>2, <2>3, <2>4, NextSplits
<1> QED BY <1>1, <1>2, PTL DEF Spec

\* Whatever was issued, lost, mixed in, turned round and sealed again by whomever, and
\* whatever its verifier was asked for: what an accepted document claims is so
\* (verify* of liability/ recompute a claim from its evidence, or compare it).
THEOREM ClaimsEarned ==
    ASSUME VerifiersAreModelled
    PROVE  Spec => [](kind # "surfaces" => ClaimsAreEarned)
<1>1. VerdictOfHeld /\ kind \in Kinds => (kind # "surfaces" => ClaimsAreEarned)
  <2> SUFFICES ASSUME VerdictOfHeld, kind \in Kinds, kind # "surfaces", verdict = TRUE
               PROVE  Earned(kind, held)
    BY DEF ClaimsAreEarned
  <2>1. PICK o : verdict = Verifies(kind, held, o)
    BY NullAssumption DEF VerdictOfHeld
  <2>2. MCVerifies(kind, held, o)
    BY <2>1 DEF VerifiersAreModelled
  <2>3. kind \in MCKinds \ {"surfaces"}
    BY DEF VerifiersAreModelled
  <2>4. MCEarned(kind, held)
    BY <2>2, <2>3, AcceptedIsEarned
  <2> QED BY <2>4 DEF VerifiersAreModelled
<1> QED BY <1>1, VerdictInvariant, PTL

-----------------------------------------------------------------------------
(* What a digest binds *)

SealedConduct == {"conduct_manifest", "agt_conduct", "behavioral_sbom", "tool_manifest", "sep_bind"}

SealedBoundary ==
    {"attribution", "intercept", "boundary", "denied", "monitor", "guardian", "host_bind"}

SealedGovernance ==
    {"adaptation_envelope", "envelope_scitt", "modification_signal", "modification_scitt",
     "policy_at_change", "monitoring_snapshot", "notification_timeline"}

SealedReadiness == {"adversarial_pack", "retest_receipt", "shutdown_drill", "license_bundle"}

SealedPacks == {"anchor_coverage", "carrier"}

\* The kinds whose digest covers what their verifier vouches for field by field, with
\* nothing made up for a field that is missing.
SealedKinds ==
    SealedConduct \cup SealedBoundary \cup SealedGovernance \cup SealedReadiness \cup SealedPacks

NormalConduct == {"memory_commitment", "ap2_conduct"}

NormalBoundary == {"egress_v1", "egress_v2"}

NormalReadiness == {"resurrection_batch", "conformity_closure", "aeg_integrity", "insurance_signal"}

NormalDelegated == {"hitl_preimage", "hitl_approval", "revocation_horizon", "delegation_step"}

NormalPacks ==
    {"verifiable_denial", "cross_platform", "deployer_custody", "license_custody", "independence",
     "timeline", "monitoring", "mga_kit", "evidence_set"}

\* The kinds whose digest covers a normal form of what their verifier vouches for: a default
\* for a field that is missing, a yes or no for a flag, the members that are there.
NormalKinds ==
    NormalConduct \cup NormalBoundary \cup {"vendor_change"} \cup NormalReadiness
    \cup NormalDelegated \cup NormalPacks

\* The kinds whose digest covers, as it is or in normal form, what their verifier vouches for.
DigestKinds == SealedKinds \cup NormalKinds

\* The field that holds the digest.
SealOf(k) ==
    CASE k = "conduct_manifest" -> "manifest_digest"
      [] k = "behavioral_sbom" -> "sbom_digest"
      [] k \in {"tool_manifest", "sep_bind", "host_bind"} -> "bind_digest"
      [] k = "attribution" -> "attribution_digest"
      [] k \in {"intercept", "monitor"} -> "attestation_digest"
      [] k = "boundary" -> "peb_digest"
      [] k = "denied" -> "entry_hash"
      [] k \in {"guardian", "shutdown_drill", "license_bundle"} -> "bundle_digest"
      [] k \in {"adaptation_envelope", "envelope_scitt"} -> "envelope_digest"
      [] k \in {"modification_signal", "modification_scitt"} -> "signal_digest"
      [] k = "policy_at_change" -> "policy_at_change_digest"
      [] k = "monitoring_snapshot" -> "snapshot_digest"
      [] k = "notification_timeline" -> "timeline_digest"
      [] k \in {"adversarial_pack", "retest_receipt", "anchor_coverage", "carrier"} -> "pack_digest"
      [] k \in {"agt_conduct", "delegation_step"} -> "receipt_digest"
      [] k = "memory_commitment" -> "commitment_digest"
      [] k = "ap2_conduct" -> "conduct_digest"
      [] k \in {"egress_v1", "egress_v2"} -> "attestation_digest"
      [] k = "vendor_change" -> "change_digest"
      [] k = "resurrection_batch" -> "manifest_digest"
      [] k = "conformity_closure" -> "closure_digest"
      [] k = "aeg_integrity" -> "aeg_integrity_digest"
      [] k = "insurance_signal" -> "metrics_digest"
      [] k = "hitl_preimage" -> "binding_digest"
      [] k = "hitl_approval" -> "approval_digest"
      [] k = "revocation_horizon" -> "horizon_digest"
      [] k = "evidence_set" -> "evidence_set_digest"
      [] k \in {"verifiable_denial", "cross_platform", "deployer_custody", "license_custody",
                "independence", "timeline", "monitoring", "mga_kit"} -> "pack_digest"

\* A document of the kind has the fields its digest is computed from by name, and no
\* list of steps unless it is of a chain.
HasFields(k, d) ==
    /\ SealOf(k) \in DOMAIN d
    /\ k = "tool_manifest" => {"present"} \cup ToolManifestPresent \cup ToolManifestAbsent \subseteq DOMAIN d
    /\ k = "monitoring_snapshot" => "art72_obligations" \in DOMAIN d
    /\ k = "notification_timeline" => {"milestones", "serious_incident_awareness_at"} \subseteq DOMAIN d
    /\ k = "shutdown_drill" => "kill_switch_attestation" \in DOMAIN d
    /\ k \in SealedPacks \cup NormalPacks => "delegation_steps" \notin DOMAIN d
    /\ k = "memory_commitment" => {"present"} \cup MemoryPresent \cup MemoryAbsent \subseteq DOMAIN d
    /\ k = "hitl_preimage" =>
         DOMAIN d = {"session_id", "approval_request_id", "human_visible_digest",
                     "gate_evaluation_digest", "binding_result", "binding_digest"}
    /\ k = "revocation_horizon" => DOMAIN d = HorizonFields \cup {"attestation", "horizon_digest"}
    /\ k = "delegation_step" => DOMAIN d = StepFields \cup {"receipt_digest"}
    /\ k = "evidence_set" => "members" \in DOMAIN d

\* The digest in field n of d is a record that has what is vouched for.
Covers(n, d, vouched) ==
    /\ d[n] = [f \in DOMAIN d[n] |-> d[n][f]]
    /\ \A f \in DOMAIN vouched : vouched[f] = IF f = n THEN d[n] ELSE d[n][f]

\* No record is NULL.
NullIsNoRecord == \A S, r : NULL # [f \in S |-> r[f]]

\* A digest is there.
LEMMA CoveredNotNull == ASSUME NullIsNoRecord, NEW n, NEW d, NEW v, Covers(n, d, v) PROVE d[n] # NULL
BY DEF NullIsNoRecord, Covers

\* Two documents under one digest agree on whatever both are vouched for.
LEMMA CoveredAgree ==
    ASSUME NEW n, NEW d, NEW e, NEW v, NEW w, Covers(n, d, v), Covers(n, e, w), d[n] = e[n],
           DOMAIN v = DOMAIN w
    PROVE  \A f \in DOMAIN v : v[f] = w[f]
BY DEF Covers

\* A document sealed over the rest of itself is covered by its digest.
LEMMA SealedCovers == ASSUME NEW d, NEW n, Sealed(d, n) PROVE Covers(n, d, d)
BY DEF Sealed, Covers, Without

\* The digest of a tool manifest, field by field.
FieldByField(digest, input, present, absent) ==
    /\ digest = [f \in DOMAIN digest |-> digest[f]]
    /\ digest.present = (input.present = TRUE)
    /\ \A f \in IF input.present = TRUE THEN present ELSE absent : digest[f] = input[f]

\* What is bound is bound field by field, when the flag is not one of the fields.
LEMMA BoundField ==
    ASSUME NEW input, NEW present, NEW absent, "present" \notin present \cup absent
    PROVE  FieldByField(Bound(input, present, absent), input, present, absent)
<1>1. CASE input.present = TRUE
  <2>1. Bound(input, present, absent) = Spread(Only(input, present), [present |-> TRUE])
    BY <1>1 DEF Bound
  <2> QED BY <1>1, <2>1 DEF Spread, Only, FieldByField
<1>2. CASE input.present # TRUE
  <2>1. Bound(input, present, absent) = Spread(Only(input, absent), [present |-> FALSE])
    BY <1>2 DEF Bound
  <2> QED BY <1>2, <2>1 DEF Spread, Only, FieldByField
<1> QED BY <1>1, <1>2

\* The digest of a tool manifest covers the fields of its case.
LEMMA ManifestCovers ==
    ASSUME NEW x, verifyToolManifestFingerprint(x), HasFields("tool_manifest", x)
    PROVE  /\ x.bind_digest.present = (x.present = TRUE)
           /\ Covers("bind_digest", x, PromisedConduct("tool_manifest", x))
<1> DEFINE fields == IF x.present = TRUE THEN ToolManifestPresent ELSE ToolManifestAbsent
           rest == [Without(x, {"bind_digest"}) EXCEPT !.absent_reason = Default(@, "manifest_unpinned")]
           digest == Bound(rest, ToolManifestPresent, ToolManifestAbsent)
<1>1. x.bind_digest = digest
  BY DEF verifyToolManifestFingerprint, buildToolManifestFingerprintPreimage
<1>2. /\ "present" \notin ToolManifestPresent \cup ToolManifestAbsent
      /\ "bind_digest" \notin ToolManifestPresent \cup ToolManifestAbsent
  BY DEF ToolManifestPresent, ToolManifestAbsent
<1>3. rest.present = x.present
  BY DEF HasFields, Without
<1>4. \A f \in fields : rest[f] = x[f]
  <2> SUFFICES ASSUME NEW f \in fields PROVE rest[f] = x[f]
    OBVIOUS
  <2>1. f \in DOMAIN x /\ f # "bind_digest"
    BY <1>2 DEF HasFields
  <2>2. CASE f # "absent_reason"
    BY <2>1, <2>2 DEF Without
  <2>3. CASE f = "absent_reason"
    <3>1. x.present # TRUE
      BY <2>3 DEF ToolManifestPresent
    <3>2. x.absent_reason # NULL
      BY <3>1 DEF verifyToolManifestFingerprint
    <3> QED BY <2>1, <2>3, <3>2 DEF Without, Default
  <2> QED BY <2>2, <2>3
<1>5. FieldByField(digest, rest, ToolManifestPresent, ToolManifestAbsent)
  <2> HIDE DEF rest
  <2> QED BY <1>2, BoundField
<1>6. PromisedConduct("tool_manifest", x) = Only(x, fields)
  BY DEF PromisedConduct
<1> HIDE DEF rest, digest
<1>7. /\ digest = [f \in DOMAIN digest |-> digest[f]]
      /\ digest.present = (x.present = TRUE)
      /\ \A f \in fields : digest[f] = x[f]
  BY <1>3, <1>4, <1>5 DEF FieldByField
<1> QED BY <1>1, <1>2, <1>6, <1>7 DEF Covers, Only

\* What the digest of a conduct document covers.
LEMMA ConductCovered ==
    ASSUME NEW k \in SealedConduct, NEW d, NEW o, VerifyConduct(k, d, o), HasFields(k, d)
    PROVE  Covers(SealOf(k), d, PromisedConduct(k, d))
<1>1. CASE k = "conduct_manifest"
  <2>1. Sealed(d, "manifest_digest")
    BY <1>1 DEF VerifyConduct, verifyTraceableConductManifest
  <2> QED BY <1>1, <2>1, SealedCovers DEF SealOf, PromisedConduct
<1>2. CASE k = "agt_conduct"
  <2>1. Sealed(d, "receipt_digest")
    BY <1>2 DEF VerifyConduct, verifyAgtConductReceipt
  <2> QED BY <1>2, <2>1, SealedCovers DEF SealOf, PromisedConduct
<1>3. CASE k = "sep_bind"
  <2>1. Sealed(d, "bind_digest")
    BY <1>3 DEF VerifyConduct, verifyMcpSepAttestationBind
  <2> QED BY <1>3, <2>1, SealedCovers DEF SealOf, PromisedConduct
<1>4. CASE k = "behavioral_sbom"
  <2>1. SealOf(k) = "sbom_digest"
        /\ PromisedConduct(k, d)
             = Only(d, {"organization_id", "generated_at", "gap_summary", "agents_with_gaps"})
    BY <1>4 DEF SealOf, PromisedConduct
  <2>2. d.sbom_digest = [organization_id |-> d.organization_id, generated_at |-> d.generated_at,
                         gap_summary |-> d.gap_summary, agents_with_gaps |-> d.agents_with_gaps,
                         sbom_root |-> d.sbom_root]
    BY <1>4 DEF VerifyConduct, verifyBehavioralSbomBundle, evaluateBehavioralSbom
  <2> QED BY <2>1, <2>2 DEF Covers, Only
<1>5. CASE k = "tool_manifest"
  <2>1. verifyToolManifestFingerprint(d) /\ SealOf(k) = "bind_digest"
    BY <1>5 DEF VerifyConduct, SealOf
  <2> QED BY <1>5, <2>1, ManifestCovers
<1> QED BY <1>1, <1>2, <1>3, <1>4, <1>5 DEF SealedConduct

\* What the digest of a document about egress, boundary or custody covers.
LEMMA BoundaryCovered ==
    ASSUME NEW k \in SealedBoundary, NEW d, NEW o, VerifyBoundary(k, d, o), HasFields(k, d)
    PROVE  Covers(SealOf(k), d, PromisedBoundary(k, d))
<1>1. CASE k = "attribution"
  <2>1. SealOf(k) = "attribution_digest" /\ PromisedBoundary(k, d) = d
    BY <1>1 DEF SealOf, PromisedBoundary
  <2>2. d.attribution_digest = [Without(d, {"attribution_digest"}) EXCEPT !.observed_channels = List(@)]
        /\ List(d.observed_channels) # <<>>
    BY <1>1 DEF VerifyBoundary, verifyEgressProxyAttributionBundle, buildEgressProxyAttributionPreimage
  <2>3. List(d.observed_channels) = d.observed_channels
    BY <2>2 DEF List
  <2> QED BY <2>1, <2>2, <2>3 DEF Covers, Without
<1>2. CASE k = "intercept"
  <2>1. Sealed(d, "attestation_digest")
    BY <1>2 DEF VerifyBoundary, verifyInterceptDecisionAttestation
  <2> QED BY <1>2, <2>1, SealedCovers DEF SealOf, PromisedBoundary
<1>3. CASE k = "monitor"
  <2>1. Sealed(d, "attestation_digest")
    BY <1>3 DEF VerifyBoundary, verifyTransparencyLogMonitorAttestation
  <2> QED BY <1>3, <2>1, SealedCovers DEF SealOf, PromisedBoundary
<1>4. CASE k = "denied"
  <2>1. SealOf(k) = "entry_hash" /\ PromisedBoundary(k, d) = Without(d, {"refusal_alignment"})
    BY <1>4 DEF SealOf, PromisedBoundary
  <2>2. d.entry_hash = Without(d, {"entry_hash", "refusal_alignment"})
    BY <1>4 DEF VerifyBoundary, verifyProveBundle, ReceiptSound
  <2> QED BY <2>1, <2>2 DEF Covers, Without
<1>5. CASE k = "guardian"
  <2>1. SealOf(k) = "bundle_digest" /\ PromisedBoundary(k, d) = Without(d, {"members"})
    BY <1>5 DEF SealOf, PromisedBoundary
  <2>2. d.bundle_digest = buildIndependentGuardianBundlePreimage(Without(d, {"bundle_digest"}))
    BY <1>5 DEF VerifyBoundary, verifyIndependentGuardianBundle
  <2> QED BY <2>1, <2>2 DEF Covers, Without, buildIndependentGuardianBundlePreimage
<1>6. CASE k = "host_bind"
  <2>1. SealOf(k) = "bind_digest" /\ PromisedBoundary(k, d) = Without(d, {"member_documents"})
    BY <1>6 DEF SealOf, PromisedBoundary
  <2>2. d.bind_digest = Without(d, {"bind_digest", "member_documents"})
    BY <1>6 DEF VerifyBoundary, verifyHostConformanceBind
  <2> QED BY <2>1, <2>2 DEF Covers, Without
<1>7. CASE k = "boundary"
  <2> DEFINE found == evaluateExecutionSurfaceCompleteness(d.execution_surface_completeness)
             channel == IF At(d.channel_provenance, "sources") = NULL THEN NULL
                        ELSE computeChannelProvenanceDigest(d.channel_provenance)
             judged == judgeBoundary(d, FALSE, found, channel)
  <2>1. SealOf(k) = "peb_digest"
        /\ PromisedBoundary(k, d) = Only(d, {"session_id", "boundary_scope", "boundary_result", "peb_root"})
    BY <1>7 DEF SealOf, PromisedBoundary
  <2>2. d.peb_root = judged.peb_root /\ d.peb_digest = judged.peb_digest
        /\ d.boundary_result = judged.boundary_result
    BY <1>7 DEF VerifyBoundary, verifyProvableExecutionBoundaryBundle, evaluateProvableExecutionBoundary,
                BoundaryOptions
  <2> HIDE DEF found, channel
  <2>3. /\ judged.peb_digest = [f \in DOMAIN judged.peb_digest |-> judged.peb_digest[f]]
        /\ judged.peb_digest.session_id = d.session_id
        /\ judged.peb_digest.boundary_scope = d.boundary_scope
        /\ judged.peb_digest.boundary_result = judged.boundary_result
        /\ judged.peb_digest.peb_root = judged.peb_root
    BY DEF judgeBoundary, Spread, Only
  <2> HIDE DEF judged
  <2> QED BY <2>1, <2>2, <2>3 DEF Covers, Only
<1> QED BY <1>1, <1>2, <1>3, <1>4, <1>5, <1>6, <1>7 DEF SealedBoundary

\* The digest of an envelope covers the fields nothing is made up for.
LEMMA EnvelopeCovers ==
    ASSUME NEW x, NEW r, verifyDeclaredAdaptationEnvelopeBundle(x, r)
    PROVE  /\ x.envelope_digest = [f \in DOMAIN x.envelope_digest |-> x.envelope_digest[f]]
           /\ \A f \in DOMAIN x \ {"envelope_digest", "envelope_entry_hash", "drift_thresholds",
                                   "human_review_gates", "monitored_metrics", "reversion_rules"} :
                x.envelope_digest[f] = x[f]
<1>1. x.envelope_digest = buildDeclaredAdaptationEnvelopePreimage(Without(x, {"envelope_digest"}))
  BY DEF verifyDeclaredAdaptationEnvelopeBundle
<1>2. sortFramings(Items(x.regulatory_framings)) = x.regulatory_framings
  <2>1. /\ Items(x.regulatory_framings) # {}
        /\ Items(x.regulatory_framings) \subseteq ADAPTATION_REGULATORY_FRAMINGS
    BY DEF verifyDeclaredAdaptationEnvelopeBundle
  <2> QED BY <2>1 DEF Items, sortFramings
<1> DEFINE rest == Without(Without(x, {"envelope_digest"}), {"envelope_entry_hash"})
           digest == [rest EXCEPT
             !.regulatory_framings = sortFramings(Items(@)),
             !.monitored_metrics = Items(@) \ {NULL},
             !.drift_thresholds = normalizeThresholds(Items(@)),
             !.reversion_rules = Default(@, NoReversion),
             !.human_review_gates = normalizeReviewGates(Items(@))]
<1>3. x.envelope_digest = digest
  BY <1>1 DEF buildDeclaredAdaptationEnvelopePreimage
<1>4. \A f \in DOMAIN x \ {"envelope_digest", "envelope_entry_hash"} : f \in DOMAIN rest /\ rest[f] = x[f]
  BY DEF Without
<1> HIDE DEF rest
<1>5. digest = [f \in DOMAIN digest |-> digest[f]]
  OBVIOUS
<1>6. ASSUME NEW f \in DOMAIN rest \ {"regulatory_framings", "drift_thresholds", "human_review_gates",
                                      "monitored_metrics", "reversion_rules"}
      PROVE  digest[f] = rest[f]
  OBVIOUS
<1>7. "regulatory_framings" \in DOMAIN rest =>
        digest.regulatory_framings = sortFramings(Items(rest.regulatory_framings))
  OBVIOUS
<1> HIDE DEF digest
<1> QED BY <1>2, <1>3, <1>4, <1>5, <1>6, <1>7

\* So does the digest of a signal.
LEMMA SignalCovers ==
    ASSUME NEW x, NEW r, NEW c, verifySubstantialModificationSignalBundle(x, r, c)
    PROVE  /\ x.signal_digest = [f \in DOMAIN x.signal_digest |-> x.signal_digest[f]]
           /\ \A f \in DOMAIN x \ {"signal_digest", "signal_entry_hash", "composed_members",
                                   "contributing_entry_hashes"} :
                x.signal_digest[f] = x[f]
<1>1. x.signal_digest = buildSubstantialModificationSignalPreimage(Without(x, {"signal_digest"}))
  BY DEF verifySubstantialModificationSignalBundle
<1>2. x.drift_status = "breach" /\ Items(x.breaches) = x.breaches
  BY DEF verifySubstantialModificationSignalBundle, Items
<1> QED BY <1>1, <1>2 DEF buildSubstantialModificationSignalPreimage, Without

\* What the digest of a governance document covers.
LEMMA GovernanceCovered ==
    ASSUME NEW k \in SealedGovernance, NEW d, NEW o, VerifyGovernance(k, d, o), HasFields(k, d)
    PROVE  Covers(SealOf(k), d, PromisedGovernance(k, d))
<1>1. CASE k \in {"adaptation_envelope", "envelope_scitt"}
  <2> DEFINE bare == Without(d, {"scitt_alignment"})
  <2>1. /\ SealOf(k) = "envelope_digest"
        /\ PromisedGovernance(k, d)
             = Without(d, {"envelope_entry_hash", "scitt_alignment", "drift_thresholds",
                           "human_review_gates", "monitored_metrics", "reversion_rules"})
        /\ "envelope_digest" \in DOMAIN d
    BY <1>1 DEF SealOf, PromisedGovernance, HasFields
  <2>2. CASE k = "adaptation_envelope"
    <3>1. verifyDeclaredAdaptationEnvelopeBundle(d, o = "strict")
      BY <2>2 DEF VerifyGovernance
    <3>2. /\ d.envelope_digest = [f \in DOMAIN d.envelope_digest |-> d.envelope_digest[f]]
          /\ \A f \in DOMAIN d \ {"envelope_digest", "envelope_entry_hash", "drift_thresholds",
                                     "human_review_gates", "monitored_metrics", "reversion_rules"} :
               d.envelope_digest[f] = d[f]
      BY <3>1, EnvelopeCovers
    <3> QED BY <2>1, <3>2 DEF Covers, Without
  <2>3. CASE k = "envelope_scitt"
    <3>1. verifyDeclaredAdaptationEnvelopeBundle(bare, o = "strict")
      BY <2>3 DEF VerifyGovernance
    <3>2. /\ bare.envelope_digest = [f \in DOMAIN bare.envelope_digest |-> bare.envelope_digest[f]]
          /\ \A f \in DOMAIN bare \ {"envelope_digest", "envelope_entry_hash", "drift_thresholds",
                                     "human_review_gates", "monitored_metrics", "reversion_rules"} :
               bare.envelope_digest[f] = bare[f]
      BY <3>1, EnvelopeCovers
    <3>3. bare.envelope_digest = d.envelope_digest
          /\ \A f \in DOMAIN d \ {"scitt_alignment"} : f \in DOMAIN bare /\ bare[f] = d[f]
      BY <2>1 DEF Without
    <3> HIDE DEF bare
    <3> QED BY <2>1, <3>2, <3>3 DEF Covers, Without
  <2> QED BY <1>1, <2>2, <2>3
<1>2. CASE k \in {"modification_signal", "modification_scitt"}
  <2> DEFINE bare == Without(d, {"scitt_alignment"})
  <2>1. /\ SealOf(k) = "signal_digest"
        /\ PromisedGovernance(k, d)
             = Without(d, {"signal_entry_hash", "scitt_alignment", "composed_members",
                           "contributing_entry_hashes"})
        /\ "signal_digest" \in DOMAIN d
    BY <1>2 DEF SealOf, PromisedGovernance, HasFields
  <2>2. CASE k = "modification_signal"
    <3>1. verifySubstantialModificationSignalBundle(d, o = "strict", o = "strict")
      BY <2>2 DEF VerifyGovernance
    <3>2. /\ d.signal_digest = [f \in DOMAIN d.signal_digest |-> d.signal_digest[f]]
          /\ \A f \in DOMAIN d \ {"signal_digest", "signal_entry_hash", "composed_members",
                                     "contributing_entry_hashes"} :
               d.signal_digest[f] = d[f]
      BY <3>1, SignalCovers
    <3> QED BY <2>1, <3>2 DEF Covers, Without
  <2>3. CASE k = "modification_scitt"
    <3>1. verifySubstantialModificationSignalBundle(bare, FALSE, FALSE)
      BY <2>3 DEF VerifyGovernance
    <3>2. /\ bare.signal_digest = [f \in DOMAIN bare.signal_digest |-> bare.signal_digest[f]]
          /\ \A f \in DOMAIN bare \ {"signal_digest", "signal_entry_hash", "composed_members",
                                     "contributing_entry_hashes"} :
               bare.signal_digest[f] = bare[f]
      BY <3>1, SignalCovers
    <3>3. bare.signal_digest = d.signal_digest
          /\ \A f \in DOMAIN d \ {"scitt_alignment"} : f \in DOMAIN bare /\ bare[f] = d[f]
      BY <2>1 DEF Without
    <3> HIDE DEF bare
    <3> QED BY <2>1, <3>2, <3>3 DEF Covers, Without
  <2> QED BY <1>2, <2>2, <2>3
<1>3. CASE k = "policy_at_change"
  <2>1. Sealed(d, "policy_at_change_digest")
    BY <1>3 DEF VerifyGovernance, verifyPolicyAtChangeSnapshot
  <2> QED BY <1>3, <2>1, SealedCovers DEF SealOf, PromisedGovernance
<1>4. CASE k = "monitoring_snapshot"
  <2> DEFINE counts == ObligationCounts(Items(d.art72_obligations))
             rest == [Without(d, {"snapshot_digest"}) EXCEPT !.art72_obligations = Items(@),
                        !.monitoring_metrics = [m \in MonitoringMetrics |-> Default(At(@, m), 0)]]
  <2>1. /\ SealOf(k) = "snapshot_digest"
        /\ PromisedGovernance(k, d) = Without(d, {"monitoring_metrics"})
        /\ "art72_obligations" \in DOMAIN d
    BY <1>4 DEF SealOf, PromisedGovernance, HasFields
  <2>2. verifyPostMarketMonitoringSnapshot(d)
    BY <1>4 DEF VerifyGovernance
  <2>3. Without(d, {"snapshot_digest"}).art72_obligations = d.art72_obligations
    BY <2>1 DEF Without
  <2>4. d.snapshot_digest = Spread(rest, counts) /\ \A f \in DOMAIN counts : d[f] = counts[f]
    BY <2>2, <2>3 DEF verifyPostMarketMonitoringSnapshot, buildPostMarketMonitoringSnapshotPreimage
  <2>5. Items(d.art72_obligations) = d.art72_obligations
    <3>1. Cardinality(Items(d.art72_obligations)) >= 3
      BY <2>2 DEF verifyPostMarketMonitoringSnapshot, ObligationCounts
    <3>2. Items(d.art72_obligations) # {}
      BY <3>1, FS_EmptySet
    <3> QED BY <3>2 DEF Items
  <2>6. \A f \in DOMAIN d \ {"snapshot_digest", "monitoring_metrics"} : f \in DOMAIN rest /\ rest[f] = d[f]
    BY <2>5 DEF Without
  <2> HIDE DEF counts, rest
  <2> QED BY <2>1, <2>4, <2>6 DEF Covers, Without, Spread
<1>5. CASE k = "notification_timeline"
  <2> DEFINE milestones == List(d.milestones)
             deadline == computeNcaNotificationDeadline(d.serious_incident_awareness_at)
             rest == [Without(d, {"timeline_digest"}) EXCEPT
                        !.milestones = OrderedBy(milestones, "occurred_at")]
             stated == [nca_notification_deadline_at |-> deadline, milestone_count |-> Len(milestones),
                        milestones_digest |-> buildMilestonesDigest(milestones)]
  <2>1. /\ SealOf(k) = "timeline_digest"
        /\ PromisedGovernance(k, d) = [d EXCEPT !.milestones = OrderedBy(milestones, "occurred_at")]
        /\ {"milestones", "serious_incident_awareness_at"} \subseteq DOMAIN d
    BY <1>5 DEF SealOf, PromisedGovernance, HasFields
  <2>2. verifyIncidentNotificationTimeline(d)
    BY <1>5 DEF VerifyGovernance
  <2>3. /\ Without(d, {"timeline_digest"}).milestones = d.milestones
        /\ Without(d, {"timeline_digest"}).serious_incident_awareness_at = d.serious_incident_awareness_at
    BY <2>1 DEF Without
  <2>4. /\ d.timeline_digest = Spread(rest, stated)
        /\ d.nca_notification_deadline_at = deadline /\ d.milestone_count = Len(milestones)
        /\ d.milestones_digest = buildMilestonesDigest(milestones)
    BY <2>2, <2>3 DEF verifyIncidentNotificationTimeline, buildIncidentNotificationTimelinePreimage
  <2>5. \A f \in DOMAIN stated : d[f] = stated[f] /\ f # "milestones"
    BY <2>4
  <2>6. /\ \A f \in DOMAIN d \ {"timeline_digest", "milestones"} : f \in DOMAIN rest /\ rest[f] = d[f]
        /\ "milestones" \in DOMAIN rest /\ rest.milestones = OrderedBy(milestones, "occurred_at")
    BY <2>1 DEF Without
  <2> HIDE DEF stated, rest, milestones
  <2> QED BY <2>1, <2>4, <2>5, <2>6 DEF Covers, Spread
<1> QED BY <1>1, <1>2, <1>3, <1>4, <1>5 DEF SealedGovernance

\* What the digest of a readiness document covers.
LEMMA ReadinessCovered ==
    ASSUME NEW k \in SealedReadiness, NEW d, NEW o, VerifyReadiness(k, d, o), HasFields(k, d)
    PROVE  Covers(SealOf(k), d, PromisedReadiness(k, d))
<1>1. CASE k = "adversarial_pack"
  <2>1. Sealed(d, "pack_digest")
    BY <1>1 DEF VerifyReadiness, verifyAdversarialTestEvidencePack,
                buildAdversarialTestEvidencePackPreimage, Sealed
  <2> QED BY <1>1, <2>1, SealedCovers DEF SealOf, PromisedReadiness
<1>2. CASE k = "retest_receipt"
  <2>1. Sealed(d, "pack_digest")
    BY <1>2 DEF VerifyReadiness, verifyQuarterlyRetestReceipt
  <2> QED BY <1>2, <2>1, SealedCovers DEF SealOf, PromisedReadiness
<1>3. CASE k = "shutdown_drill"
  <2> DEFINE killed == [kill_switch_entry_hash |-> killSwitchEntryHash(d.kill_switch_attestation)]
             rest == Without(Without(d, {"bundle_digest"}), {"kill_switch_attestation"})
  <2>1. /\ SealOf(k) = "bundle_digest"
        /\ PromisedReadiness(k, d)
             = [Without(d, {"kill_switch_attestation"}) EXCEPT
                  !.kill_switch_entry_hash = killSwitchEntryHash(d.kill_switch_attestation)]
        /\ "kill_switch_attestation" \in DOMAIN d
    BY <1>3 DEF SealOf, PromisedReadiness, HasFields
  <2>2. Without(d, {"bundle_digest"}).kill_switch_attestation = d.kill_switch_attestation
    BY <2>1 DEF Without
  <2>3. d.bundle_digest = Spread(rest, killed)
    BY <1>3, <2>2 DEF VerifyReadiness, verifyShutdownDrillBundle, buildShutdownDrillBundlePreimage
  <2>4. \A f \in DOMAIN d \ {"bundle_digest", "kill_switch_attestation"} : f \in DOMAIN rest /\ rest[f] = d[f]
    BY DEF Without
  <2> HIDE DEF rest
  <2>5. /\ d.bundle_digest = [f \in DOMAIN d.bundle_digest |-> d.bundle_digest[f]]
        /\ \A f \in DOMAIN d \ {"bundle_digest", "kill_switch_attestation", "kill_switch_entry_hash"} :
             d.bundle_digest[f] = d[f]
        /\ d.bundle_digest.kill_switch_entry_hash = killSwitchEntryHash(d.kill_switch_attestation)
    BY <2>3, <2>4 DEF Spread
  <2> QED BY <2>1, <2>5 DEF Covers, Without
<1>4. CASE k = "license_bundle"
  <2> DEFINE receipts == {Without(r, {"receipt"}) : r \in Items(d.receipts)}
             rest == Without(d, {"bundle_digest"})
             digest == [rest EXCEPT !.receipts = {Without(r, {"receipt"}) : r \in Items(@)},
                          !.attestation_mode = EVIDENCE_RESURRECTION_ATTESTATION_MODE]
  <2>1. /\ SealOf(k) = "bundle_digest"
        /\ PromisedReadiness(k, d) = [d EXCEPT !.receipts = receipts]
    BY <1>4 DEF SealOf, PromisedReadiness
  <2>2. d.bundle_digest = digest /\ d.attestation_mode = EVIDENCE_RESURRECTION_ATTESTATION_MODE
    BY <1>4 DEF VerifyReadiness, verifyLicenseSurvivableBundle, buildLicenseSurvivableBundlePreimage
  <2>3. \A f \in DOMAIN d \ {"bundle_digest"} : f \in DOMAIN rest /\ rest[f] = d[f]
    BY DEF Without
  <2> HIDE DEF rest
  <2>4. /\ digest = [f \in DOMAIN digest |-> digest[f]]
        /\ \A f \in DOMAIN rest \ {"receipts", "attestation_mode"} : digest[f] = rest[f]
        /\ "receipts" \in DOMAIN rest =>
             digest.receipts = {Without(r, {"receipt"}) : r \in Items(rest.receipts)}
        /\ "attestation_mode" \in DOMAIN rest =>
             digest.attestation_mode = EVIDENCE_RESURRECTION_ATTESTATION_MODE
    OBVIOUS
  <2> HIDE DEF digest
  <2>5. "receipts" \in DOMAIN d => digest.receipts = receipts
    BY <2>3, <2>4
  <2> HIDE DEF receipts
  <2> QED BY <2>1, <2>2, <2>3, <2>4, <2>5 DEF Covers
<1> QED BY <1>1, <1>2, <1>3, <1>4 DEF SealedReadiness

\* What the digest of a pack without a list of members covers.
LEMMA PackCovered ==
    ASSUME NEW k \in SealedPacks, NEW d, NEW o, VerifyPack(k, d, o), HasFields(k, d)
    PROVE  Covers(SealOf(k), d, PromisedPack(k, d))
<1>1. /\ SealOf(k) = "pack_digest"
      /\ \A part : Computed(k, part) = {}
      /\ "delegation_steps" \notin DOMAIN d
  BY DEF SealedPacks, SealOf, Computed, HasFields
<1>2. PromisedPack(k, d) = Without(d, Attached)
  BY <1>1 DEF PromisedPack, Without
<1>3. CASE k = "carrier"
  <2>1. Sealed(d, "pack_digest")
    BY <1>3 DEF VerifyPack, verifyCarrierUnderwritingEvidencePack
  <2> QED BY <1>1, <1>2, <2>1 DEF Covers, Sealed, Without
<1>4. CASE k = "anchor_coverage"
  <2>1. d.pack_digest = Without(d, {"pack_digest", "member_documents"})
    BY <1>4 DEF VerifyPack, verifyAnchorCoverageForensicPack
  <2> QED BY <1>1, <1>2, <2>1 DEF Covers, Without, Attached
<1> QED BY <1>3, <1>4 DEF SealedPacks

\* Of every sealed kind the digest covers what an accepted document is vouched for.
LEMMA AcceptedIsCovered ==
    ASSUME NEW k \in SealedKinds, NEW d, NEW o, MCVerifies(k, d, o), HasFields(k, d)
    PROVE  Covers(SealOf(k), d, MCPromised(k, d))
<1>1. CASE k \in SealedConduct
  <2>1. k \in Conduct
    BY <1>1 DEF SealedConduct, Conduct
  <2>2. VerifyConduct(k, d, o) /\ MCPromised(k, d) = PromisedConduct(k, d)
    BY <2>1, ClassesDisjoint DEF MCVerifies, MCPromised
  <2> QED BY <1>1, <2>2, ConductCovered
<1>2. CASE k \in SealedBoundary
  <2>1. k \in Boundary
    BY <1>2 DEF SealedBoundary, Boundary
  <2>2. VerifyBoundary(k, d, o) /\ MCPromised(k, d) = PromisedBoundary(k, d)
    BY <2>1, ClassesDisjoint DEF MCVerifies, MCPromised
  <2> QED BY <1>2, <2>2, BoundaryCovered
<1>3. CASE k \in SealedGovernance
  <2>1. k \in Governance
    BY <1>3 DEF SealedGovernance, Governance
  <2>2. VerifyGovernance(k, d, o) /\ MCPromised(k, d) = PromisedGovernance(k, d)
    BY <2>1, ClassesDisjoint DEF MCVerifies, MCPromised
  <2> QED BY <1>3, <2>2, GovernanceCovered
<1>4. CASE k \in SealedReadiness
  <2>1. k \in Readiness
    BY <1>4 DEF SealedReadiness, Readiness
  <2>2. VerifyReadiness(k, d, o) /\ MCPromised(k, d) = PromisedReadiness(k, d)
    BY <2>1, ClassesDisjoint DEF MCVerifies, MCPromised
  <2> QED BY <1>4, <2>2, ReadinessCovered
<1>5. CASE k \in SealedPacks
  <2>1. k \in Packs
    BY <1>5 DEF SealedPacks, Packs
  <2>2. VerifyPack(k, d, o) /\ MCPromised(k, d) = PromisedPack(k, d)
    BY <2>1, ClassesDisjoint DEF MCVerifies, MCPromised
  <2> QED BY <1>5, <2>2, PackCovered
<1> QED BY <1>1, <1>2, <1>3, <1>4, <1>5 DEF SealedKinds

\* A kind's document is of its class.
LEMMA DigestClasses ==
    /\ (SealedConduct \cup NormalConduct) \subseteq Conduct
    /\ (SealedBoundary \cup NormalBoundary) \subseteq Boundary
    /\ (SealedGovernance \cup {"vendor_change"}) \subseteq Governance
    /\ (SealedReadiness \cup NormalReadiness) \subseteq Readiness
    /\ NormalDelegated \subseteq Delegated
    /\ (SealedPacks \cup NormalPacks) \subseteq Packs
BY DEF SealedConduct, NormalConduct, SealedBoundary, NormalBoundary, SealedGovernance, SealedReadiness, 
       NormalReadiness, NormalDelegated, SealedPacks, NormalPacks, Conduct, Boundary, Governance, 
       Readiness, Delegated, Packs

\* What is vouched for has the same fields in two documents that have the same fields,
\* of a tool manifest or a memory commitment when both are of the same case.
LEMMA SameFields ==
    ASSUME NEW k \in DigestKinds, NEW d, NEW e, DOMAIN d = DOMAIN e,
           k \in {"tool_manifest", "memory_commitment"} => ((d.present = TRUE) = (e.present = TRUE))
    PROVE  DOMAIN MCPromised(k, d) = DOMAIN MCPromised(k, e)
<1>1. CASE k \in SealedConduct \cup NormalConduct
  <2>1. k \in Conduct
    BY <1>1, DigestClasses
  <2>2. MCPromised(k, d) = PromisedConduct(k, d) /\ MCPromised(k, e) = PromisedConduct(k, e)
    BY <2>1, ClassesDisjoint DEF MCPromised
  <2>3. CASE k \in {"tool_manifest", "memory_commitment"}
    BY <2>2, <2>3 DEF PromisedConduct, Only
  <2>4. CASE k \notin {"tool_manifest", "memory_commitment"}
    BY <1>1, <2>2, <2>4 DEF SealedConduct, NormalConduct, PromisedConduct, Only
  <2> QED BY <2>3, <2>4
<1>2. CASE k \in SealedBoundary \cup NormalBoundary
  <2>1. k \in Boundary
    BY <1>2, DigestClasses
  <2>2. MCPromised(k, d) = PromisedBoundary(k, d) /\ MCPromised(k, e) = PromisedBoundary(k, e)
    BY <2>1, ClassesDisjoint DEF MCPromised
  <2> QED BY <1>2, <2>2 DEF SealedBoundary, NormalBoundary, PromisedBoundary, Only, Without
<1>3. CASE k \in SealedGovernance \cup {"vendor_change"}
  <2>1. k \in Governance
    BY <1>3, DigestClasses
  <2>2. MCPromised(k, d) = PromisedGovernance(k, d) /\ MCPromised(k, e) = PromisedGovernance(k, e)
    BY <2>1, ClassesDisjoint DEF MCPromised
  <2> QED BY <1>3, <2>2 DEF SealedGovernance, PromisedGovernance, Only, Without
<1>4. CASE k \in SealedReadiness \cup NormalReadiness
  <2>1. k \in Readiness
    BY <1>4, DigestClasses
  <2>2. MCPromised(k, d) = PromisedReadiness(k, d) /\ MCPromised(k, e) = PromisedReadiness(k, e)
    BY <2>1, ClassesDisjoint DEF MCPromised
  <2> QED BY <1>4, <2>2 DEF SealedReadiness, NormalReadiness, PromisedReadiness, Only, Without
<1>5. CASE k \in NormalDelegated
  <2>1. k \in Delegated
    BY <1>5, DigestClasses
  <2>2. MCPromised(k, d) = PromisedDelegated(k, d) /\ MCPromised(k, e) = PromisedDelegated(k, e)
    BY <2>1, ClassesDisjoint DEF MCPromised
  <2> QED BY <1>5, <2>2 DEF NormalDelegated, PromisedDelegated, Only, Without
<1>6. CASE k \in SealedPacks \cup NormalPacks
  <2>1. k \in Packs
    BY <1>6, DigestClasses
  <2>2. MCPromised(k, d) = PromisedPack(k, d) /\ MCPromised(k, e) = PromisedPack(k, e)
    BY <2>1, ClassesDisjoint DEF MCPromised
  <2> QED BY <2>2 DEF PromisedPack, Without
<1> QED BY <1>1, <1>2, <1>3, <1>4, <1>5, <1>6 DEF DigestKinds, SealedKinds, NormalKinds

\* A digest is no record custody reaches into and no list it turns round.
LEMMA SealApart == ASSUME NEW k \in DigestKinds PROVE SealOf(k) \notin MCParts(k) \cup MCLists(k)
<1>1. CASE k \in SealedConduct \cup NormalConduct
  <2>1. k \in Conduct
    BY <1>1, DigestClasses
  <2>2. MCParts(k) = PartsConduct(k) /\ MCLists(k) = ListsConduct(k)
    BY <2>1, ClassesDisjoint DEF MCParts, MCLists
  <2> QED BY <1>1, <2>2 DEF SealedConduct, NormalConduct, PartsConduct, ListsConduct, SealOf
<1>2. CASE k \in SealedBoundary \cup NormalBoundary
  <2>1. k \in Boundary
    BY <1>2, DigestClasses
  <2>2. MCParts(k) = PartsBoundary(k) /\ MCLists(k) = ListsBoundary(k)
    BY <2>1, ClassesDisjoint DEF MCParts, MCLists
  <2> QED BY <1>2, <2>2 DEF SealedBoundary, NormalBoundary, PartsBoundary, ListsBoundary, SealOf
<1>3. CASE k \in SealedGovernance \cup {"vendor_change"}
  <2>1. k \in Governance
    BY <1>3, DigestClasses
  <2>2. MCParts(k) = PartsGovernance(k) /\ MCLists(k) = ListsGovernance(k)
    BY <2>1, ClassesDisjoint DEF MCParts, MCLists
  <2> QED BY <1>3, <2>2 DEF SealedGovernance, PartsGovernance, ListsGovernance, SealOf
<1>4. CASE k \in SealedReadiness \cup NormalReadiness
  <2>1. k \in Readiness
    BY <1>4, DigestClasses
  <2>2. MCParts(k) = PartsReadiness(k) /\ MCLists(k) = ListsReadiness(k)
    BY <2>1, ClassesDisjoint DEF MCParts, MCLists
  <2> QED BY <1>4, <2>2 DEF SealedReadiness, NormalReadiness, PartsReadiness, ListsReadiness, SealOf
<1>5. CASE k \in NormalDelegated
  <2>1. k \in Delegated
    BY <1>5, DigestClasses
  <2>2. MCParts(k) = PartsDelegated(k) /\ MCLists(k) = ListsDelegated(k)
    BY <2>1, ClassesDisjoint DEF MCParts, MCLists
  <2> QED BY <1>5, <2>2 DEF NormalDelegated, PartsDelegated, ListsDelegated, SealOf
<1>6. CASE k \in SealedPacks \cup NormalPacks
  <2>1. k \in Packs
    BY <1>6, DigestClasses
  <2>2. MCParts(k) = PartsPack(k) /\ MCLists(k) = ListsPack(k)
    BY <2>1, ClassesDisjoint DEF MCParts, MCLists
  <2> QED BY <1>6, <2>2 DEF SealedPacks, NormalPacks, PartsPack, ListsPack, SealOf, Stated, Attached
<1> QED BY <1>1, <1>2, <1>3, <1>4, <1>5, <1>6 DEF DigestKinds, SealedKinds, NormalKinds

-----------------------------------------------------------------------------
(* What a digest binds in normal form *)

\* The flags a digest holds as yes or no, of field f.
FlagsOf(k, f) ==
    CASE f \in {"session_chain_binding", "vendor_session_binding", "timeline_session_binding",
                "monitoring_session_binding"} -> {"normalization_bound"}
      [] f = "approval_assertions" -> AssertionFlags
      [] f = "denial_assertions" -> DenialFlags
      [] f = "cross_platform_assertions" -> CrossPlatformFlags
      [] f = "custody_survival_assertions" -> SurvivalFlags \cup {"deployer_custody_bound"}
      [] f = "post_termination_verify" -> {"no_backend_required"}
      [] f = "independence_assertions" -> IndependenceFlags
      [] f = "independence_verify" -> {"no_operator_login_required"}
      [] f = "timeline_assertions" -> TimelineFlags
      [] f = "monitoring_assertions" -> MonitoringFlags
      [] f = "mga_acceptance_assertions" -> MgaFlags
      [] f = "submission_cadence" -> {"drill_fresh_for_submission"}
      [] OTHER -> {}

\* x, in field f, is in the form the digest gives it.
PlainField(k, f, x) ==
    /\ (k = "conformity_closure" /\ f = "signal_threshold") => AtLeastOne(x) = x
    /\ (k = "aeg_integrity" /\ f = "checks_evaluated") => parseChecks(x) = x
    /\ (k \in NormalBoundary /\ f = "limitations") => normalizeLimitations(x) = x
    /\ (k \in NormalBoundary /\ f = "mcp_pep_bound") => x \in BOOLEAN
    /\ (k = "delegation_step" /\ f = "attenuation_valid") => x \in BOOLEAN
    /\ (k = "mga_kit" /\ f = "chain_composition_disclosure") => DisclosureForm(x) = x

\* And so is x, in part g of field f.
PlainPart(k, f, g, x) ==
    /\ g \in FlagsOf(k, f) => x \in BOOLEAN
    /\ (k = "ap2_conduct" /\ f = "conduct" /\ g = "coverage") =>
         x \in {"full_conduct", "mandate_correlation_only"}

\* Every value that is there is in the form the digest gives it.
Plain(k, d) ==
    \A f \in DOMAIN d :
      d[f] # NULL =>
        /\ f \notin MCParts(k) => PlainField(k, f, d[f])
        /\ f \in MCParts(k) => \A g \in DOMAIN d[f] : d[f][g] # NULL => PlainPart(k, f, g, d[f][g])

\* x is what the digest has, or what is left of it.
Told(k, f, x, digest) ==
    \/ x \in {NULL, digest}
    \/ /\ f \in MCParts(k) /\ digest # NULL
       /\ \A g \in DOMAIN x : x[g] = NULL \/ (g \in DOMAIN digest /\ x[g] = digest[g])

\* The digest has what was issued, or the parts of it that are there.
Shown(k, f, digest, whole) ==
    \/ whole = digest
    \/ /\ f \in MCParts(k) /\ whole # NULL
       /\ \A g \in DOMAIN digest : g \in DOMAIN whole /\ whole[g] = digest[g]

\* What is vouched for, field by field, beside the digest in field n of d.
InDigest(n, d, f) == IF f = n THEN d[n] ELSE d[n][f]

Tells(k, n, d, vouched) ==
    /\ d[n] = [f \in DOMAIN d[n] |-> d[n][f]]
    /\ \A f \in DOMAIN vouched : Told(k, f, vouched[f], InDigest(n, d, f))

\* A document is issued in normal form.
IssuesNormal ==
    \A k \in Kinds \cap NormalKinds, t \in Tags :
      /\ Plain(k, Issue(k, t))
      /\ \A f \in DOMAIN MCPromised(k, Issue(k, t)) :
           Shown(k, f, InDigest(SealOf(k), Issue(k, t), f), MCPromised(k, Issue(k, t))[f])

\* A record is there.
LEMMA RecordIsThere ==
    ASSUME NullIsNoRecord, NEW r, r = [f \in DOMAIN r |-> r[f]]
    PROVE  r # NULL
BY DEF NullIsNoRecord

\* A block whose flags are yes or no is the form the digest gives it, but for what is missing.
LEMMA FlagsTold ==
    ASSUME NullIsNoRecord, NEW x, x # NULL, NEW names,
           \A g \in DOMAIN x : (g \in names /\ x[g] # NULL) => x[g] \in BOOLEAN
    PROVE  /\ Flags(x, names) # NULL
           /\ \A g \in DOMAIN x : x[g] = NULL \/ (g \in DOMAIN Flags(x, names) /\ x[g] = Flags(x, names)[g])
<1> DEFINE y == Flags(x, names)
<1>1. y = [g \in DOMAIN x |-> IF g \in names THEN x[g] = TRUE ELSE x[g]]
  BY DEF Flags
<1>2. \A g \in DOMAIN x : x[g] = NULL \/ x[g] = y[g]
  BY <1>1
<1>3. y = [g \in DOMAIN y |-> y[g]] /\ DOMAIN y = DOMAIN x
  BY <1>1
<1>4. y # NULL
  <2> HIDE DEF y
  <2> QED BY <1>3, RecordIsThere
<1> QED BY <1>2, <1>3, <1>4

\* What a digest tells of a block of flags.
LEMMA FlagBlockTold ==
    ASSUME NullIsNoRecord, NEW k, NEW d, Plain(k, d), NEW f \in DOMAIN d, f \in MCParts(k)
    PROVE  Told(k, f, d[f], Flags(d[f], FlagsOf(k, f)))
<1>1. CASE d[f] = NULL
  BY <1>1 DEF Told
<1>2. CASE d[f] # NULL
  <2>1. \A g \in DOMAIN d[f] : (g \in FlagsOf(k, f) /\ d[f][g] # NULL) => d[f][g] \in BOOLEAN
    BY <1>2 DEF Plain, PlainPart
  <2> QED BY <1>2, <2>1, FlagsTold DEF Told
<1> QED BY <1>1, <1>2

\* The members that are there are those a pack names.
LEMMA EntriesTold ==
    ASSUME NullIsNoRecord, NEW x, x # NULL
    PROVE  /\ Entries(x) # NULL
           /\ \A g \in DOMAIN x : x[g] = NULL \/ (g \in DOMAIN Entries(x) /\ x[g] = Entries(x)[g])
<1> DEFINE y == Entries(x)
<1>1. y = [s \in {r \in DOMAIN x : x[r] # NULL} |-> x[s]]
  BY DEF Entries
<1>2. y = [g \in DOMAIN y |-> y[g]]
  BY <1>1
<1>3. \A g \in DOMAIN x : x[g] = NULL \/ (g \in DOMAIN y /\ x[g] = y[g])
  BY <1>1
<1>4. y # NULL
  <2> HIDE DEF y
  <2> QED BY <1>2, RecordIsThere
<1> QED BY <1>3, <1>4

\* What the digest of a memory commitment or a mandate's conduct tells.
LEMMA ConductTold ==
    ASSUME NullIsNoRecord, NEW k \in NormalConduct, NEW d, NEW o, VerifyConduct(k, d, o),
           HasFields(k, d), Plain(k, d), MCParts(k) = PartsConduct(k)
    PROVE  Tells(k, SealOf(k), d, PromisedConduct(k, d))
<1>1. CASE k = "memory_commitment"
  <2> DEFINE fields == IF d.present = TRUE THEN MemoryPresent ELSE MemoryAbsent
             rest == [Without(d, {"commitment_digest"}) EXCEPT
                        !.absent_reason = Default(@, "no_episodic_store_bound"),
                        !.commitment_kind = Default(@, "episodic_store")]
             digest == Bound(rest, MemoryPresent, MemoryAbsent)
  <2>1. d.commitment_digest = digest
    BY <1>1 DEF VerifyConduct, verifyMemoryCommitment, buildMemoryCommitmentPreimage
  <2>2. /\ "present" \notin MemoryPresent \cup MemoryAbsent
        /\ "commitment_digest" \notin MemoryPresent \cup MemoryAbsent
    BY DEF MemoryPresent, MemoryAbsent
  <2>3. rest.present = d.present
    BY <1>1 DEF HasFields, Without
  <2>4. \A f \in fields : d[f] \in {NULL, rest[f]}
    <3> SUFFICES ASSUME NEW f \in fields PROVE d[f] \in {NULL, rest[f]}
      OBVIOUS
    <3>1. f \in DOMAIN d /\ f # "commitment_digest"
      BY <1>1, <2>2 DEF HasFields
    <3>2. CASE f \notin {"absent_reason", "commitment_kind"}
      BY <3>1, <3>2 DEF Without
    <3>3. CASE f \in {"absent_reason", "commitment_kind"}
      BY <3>1, <3>3 DEF Without, Default
    <3> QED BY <3>2, <3>3
  <2>5. FieldByField(digest, rest, MemoryPresent, MemoryAbsent)
    <3> HIDE DEF rest
    <3> QED BY <2>2, BoundField
  <2>6. PromisedConduct(k, d) = Only(d, fields) /\ SealOf(k) = "commitment_digest"
    BY <1>1 DEF PromisedConduct, SealOf
  <2> HIDE DEF rest, digest
  <2>7. /\ digest = [f \in DOMAIN digest |-> digest[f]]
        /\ \A f \in fields : d[f] \in {NULL, digest[f]}
    BY <2>3, <2>4, <2>5 DEF FieldByField
  <2> QED BY <2>1, <2>2, <2>6, <2>7 DEF Tells, Told, InDigest, Only
<1>2. CASE k = "ap2_conduct"
  <2> DEFINE digest == d.conduct_digest
  <2>1. digest = [Without(d, {"conduct_digest"}) EXCEPT !.conduct = parseConduct(@)] /\ d.conduct # NULL
    BY <1>2 DEF VerifyConduct, verifyAp2ConductReceipt, Present
  <2>2. SealOf(k) = "conduct_digest" /\ PromisedConduct(k, d) = d /\ "conduct" \in MCParts(k)
    BY <1>2 DEF SealOf, PromisedConduct, PartsConduct
  <2>3. ASSUME "conduct" \in DOMAIN d
        PROVE  Told(k, "conduct", d.conduct, digest.conduct)
    <3>1. digest.conduct = parseConduct(d.conduct)
      BY <2>1, <2>3 DEF Without
    <3>2. \A g \in DOMAIN d.conduct : d.conduct[g] # NULL => PlainPart(k, "conduct", g, d.conduct[g])
      BY <2>1, <2>2, <2>3 DEF Plain
    <3>3. \A g \in DOMAIN d.conduct : d.conduct[g] = NULL \/ d.conduct[g] = parseConduct(d.conduct)[g]
      BY <1>2, <3>2 DEF PlainPart, parseConduct
    <3>4. /\ DOMAIN parseConduct(d.conduct) = DOMAIN d.conduct
          /\ parseConduct(d.conduct)
               = [g \in DOMAIN parseConduct(d.conduct) |-> parseConduct(d.conduct)[g]]
      BY DEF parseConduct
    <3>5. parseConduct(d.conduct) # NULL
      BY <3>4, RecordIsThere
    <3> QED BY <2>2, <3>1, <3>3, <3>4, <3>5 DEF Told
  <2>4. \A f \in DOMAIN d \ {"conduct", "conduct_digest"} : digest[f] = d[f]
    BY <2>1 DEF Without
  <2>5. digest = [f \in DOMAIN digest |-> digest[f]]
    BY <2>1
  <2> HIDE DEF digest
  <2>6. d.conduct_digest = digest
    BY DEF digest
  <2> QED BY <2>2, <2>3, <2>4, <2>5, <2>6 DEF Tells, Told, InDigest
<1> QED BY <1>1, <1>2 DEF NormalConduct

\* What the digest of an egress attestation tells.
LEMMA EgressTold ==
    ASSUME NEW k \in NormalBoundary, NEW d, NEW o, VerifyBoundary(k, d, o), Plain(k, d),
           MCParts(k) = PartsBoundary(k)
    PROVE  Tells(k, SealOf(k), d, PromisedBoundary(k, d))
<1> DEFINE digest == d.attestation_digest
<1>1. SealOf(k) = "attestation_digest" /\ PromisedBoundary(k, d) = d /\ MCParts(k) = {}
  BY DEF NormalBoundary, SealOf, PromisedBoundary, PartsBoundary
<1>2. verifyEgressAttestationV1(d)
  <2>1. verifyEgressAttestationBundle(d)
    BY DEF NormalBoundary, VerifyBoundary
  <2> QED BY <2>1 DEF verifyEgressAttestationBundle, verifyEgressAttestationV2
<1>3. digest = [Without(d, {"attestation_digest"}) EXCEPT
                  !.observed_channels = List(@), !.limitations = normalizeLimitations(@),
                  !.mcp_pep_bound = @ = TRUE]
  BY <1>2 DEF verifyEgressAttestationV1, buildEgressAttestationPreimage
<1>4. \A f \in DOMAIN d \ {"attestation_digest"} : d[f] \in {NULL, digest[f]}
  <2> SUFFICES ASSUME NEW f \in DOMAIN d \ {"attestation_digest"}, d[f] # NULL
               PROVE  d[f] = digest[f]
    OBVIOUS
  <2>1. CASE f = "limitations"
    <3>1. normalizeLimitations(d[f]) = d[f]
      BY <1>1, <2>1 DEF Plain, PlainField
    <3> QED BY <1>3, <2>1, <3>1 DEF Without
  <2>2. CASE f = "mcp_pep_bound"
    <3>1. d[f] \in BOOLEAN
      BY <1>1, <2>2 DEF Plain, PlainField
    <3>2. digest[f] = (d[f] = TRUE)
      BY <1>3, <2>2 DEF Without
    <3> HIDE DEF digest
    <3> QED BY <3>1, <3>2, Zenon
  <2>3. CASE f \notin {"limitations", "mcp_pep_bound"}
    BY <1>3, <2>3 DEF Without, List
  <2> QED BY <2>1, <2>2, <2>3
<1>5. digest = [f \in DOMAIN digest |-> digest[f]]
  BY <1>3
<1> HIDE DEF digest
<1>6. d.attestation_digest = digest
  BY DEF digest
<1> QED BY <1>1, <1>4, <1>5, <1>6 DEF Tells, Told, InDigest

\* What the digest of a vendor's change of model tells.
LEMMA VendorTold ==
    ASSUME NEW d, verifyVendorModelChange(d)
    PROVE  Tells("vendor_change", "change_digest", d, PromisedGovernance("vendor_change", d))
<1> DEFINE digest == d.change_digest
           computed == {"model_fingerprint_digest_before", "model_fingerprint_digest_after"}
           rest == [Without(d, {"change_digest"}) EXCEPT !.change_type = Default(@, "model_version")]
<1>1. digest = buildVendorModelChangePreimage(rest)
  BY DEF verifyVendorModelChange
<1>2. PromisedGovernance("vendor_change", d) = Without(d, computed)
  BY DEF PromisedGovernance
<1>3. DOMAIN rest = DOMAIN d \ {"change_digest"} /\ \A f \in DOMAIN rest : d[f] \in {NULL, rest[f]}
  BY DEF Without, Default
<1> HIDE DEF rest
<1>4. /\ digest = [f \in DOMAIN digest |-> digest[f]]
      /\ \A f \in DOMAIN rest \ computed : digest[f] = rest[f]
  BY <1>1 DEF buildVendorModelChangePreimage, Spread
<1> HIDE DEF digest
<1>5. d.change_digest = digest
  BY DEF digest
<1> QED BY <1>2, <1>3, <1>4, <1>5 DEF Tells, Told, InDigest, Without

\* What the digest of a document about readiness tells.
LEMMA ReadinessTold ==
    ASSUME NullIsNoRecord, NEW k \in NormalReadiness, NEW d, NEW o, VerifyReadiness(k, d, o),
           Plain(k, d), MCParts(k) = PartsReadiness(k)
    PROVE  Tells(k, SealOf(k), d, PromisedReadiness(k, d))
<1>1. CASE k = "resurrection_batch"
  <2> DEFINE digest == d.manifest_digest
  <2>1. SealOf(k) = "manifest_digest" /\ PromisedReadiness(k, d) = d
    BY <1>1 DEF SealOf, PromisedReadiness
  <2>2. verifyEvidenceResurrectionBatchBundle(d, o = "strict")
    BY <1>1 DEF VerifyReadiness
  <2>3. digest = buildEvidenceResurrectionBatchPreimage(Without(d, {"manifest_digest"}))
    BY <2>2 DEF verifyEvidenceResurrectionBatchBundle
  <2>4. \A f \in DOMAIN d \ {"manifest_digest"} : d[f] \in {NULL, digest[f]}
    <3> DEFINE rest == Without(d, {"manifest_digest"})
    <3>1. /\ d.dedupe_key = EVIDENCE_RESURRECTION_DEDUPE_KEY
          /\ d.attestation_mode = EVIDENCE_RESURRECTION_ATTESTATION_MODE
      BY <2>2 DEF verifyEvidenceResurrectionBatchBundle
    <3>2. DOMAIN rest = DOMAIN d \ {"manifest_digest"} /\ \A f \in DOMAIN rest : rest[f] = d[f]
      BY DEF Without
    <3> HIDE DEF rest
    <3>3. \A f \in DOMAIN rest : rest[f] \in {NULL, buildEvidenceResurrectionBatchPreimage(rest)[f]}
      BY <3>1, <3>2 DEF buildEvidenceResurrectionBatchPreimage, Count, Default, Items
    <3> QED BY <2>3, <3>2, <3>3 DEF rest
  <2>5. digest = [f \in DOMAIN digest |-> digest[f]]
    BY <2>3 DEF buildEvidenceResurrectionBatchPreimage
  <2> HIDE DEF digest
  <2>6. d.manifest_digest = digest
    BY DEF digest
  <2> QED BY <2>1, <2>4, <2>5, <2>6 DEF Tells, Told, InDigest
<1>2. CASE k = "conformity_closure"
  <2> DEFINE digest == d.closure_digest
             threshold == AtLeastOne(Count(d.signal_threshold))
             rest == [Without(d, {"closure_digest"}) EXCEPT !.signal_threshold = threshold]
  <2>1. /\ SealOf(k) = "closure_digest"
        /\ PromisedReadiness(k, d) = Without(d, {"closure_entry_hash"})
        /\ MCParts(k) = {}
    BY <1>2 DEF SealOf, PromisedReadiness, PartsReadiness
  <2>2. verifyConformityClosureBundle(d, o = "strict")
    BY <1>2 DEF VerifyReadiness
  <2>3. digest = buildConformityClosurePreimage(rest) /\ d.gap_score_after = 0
    BY <2>2 DEF verifyConformityClosureBundle
  <2>4. DOMAIN rest = DOMAIN d \ {"closure_digest"} /\ \A f \in DOMAIN rest : d[f] \in {NULL, rest[f]}
    <3>1. ("signal_threshold" \in DOMAIN d /\ d.signal_threshold # NULL) => threshold = d.signal_threshold
      BY <1>2, <2>1 DEF Plain, PlainField, Count, Default
    <3> HIDE DEF threshold
    <3> QED BY <3>1 DEF Without
  <2>5. rest.gap_score_after = 0 \/ "gap_score_after" \notin DOMAIN d
    BY <2>3 DEF Without
  <2> HIDE DEF rest
  <2>6. /\ digest = [f \in DOMAIN digest |-> digest[f]]
        /\ \A f \in DOMAIN rest \ {"closure_entry_hash"} : rest[f] \in {NULL, digest[f]}
    <3> DEFINE bound == Without(rest, {"closure_entry_hash"})
    <3>1. DOMAIN bound = DOMAIN rest \ {"closure_entry_hash"} /\ \A f \in DOMAIN bound : bound[f] = rest[f]
      BY DEF Without
    <3>2. digest = [bound EXCEPT !.contributing_entry_hashes = Items(@), !.gap_score_after = 0,
                                 !.lookback_days = Default(@, 90)]
      BY <2>3 DEF buildConformityClosurePreimage
    <3>3. "gap_score_after" \in DOMAIN bound => bound.gap_score_after = 0
      BY <2>4, <2>5, <3>1
    <3> HIDE DEF bound, digest
    <3>4. \A f \in DOMAIN bound : bound[f] \in {NULL, digest[f]}
      BY <3>2, <3>3 DEF Default, Items
    <3> QED BY <3>1, <3>2, <3>4
  <2> HIDE DEF digest
  <2>7. d.closure_digest = digest
    BY DEF digest
  <2> QED BY <2>1, <2>4, <2>6, <2>7 DEF Tells, Told, InDigest, Without
<1>3. CASE k = "aeg_integrity"
  <2> DEFINE digest == d.aeg_integrity_digest
  <2>1. SealOf(k) = "aeg_integrity_digest" /\ PromisedReadiness(k, d) = d /\ MCParts(k) = {}
    BY <1>3 DEF SealOf, PromisedReadiness, PartsReadiness
  <2>2. digest = [Without(d, {"aeg_integrity_digest"}) EXCEPT
                    !.checks_evaluated = parseChecks(d.checks_evaluated)]
    BY <1>3 DEF VerifyReadiness, verifyAegIntegrityBundle, computeAegIntegrityDigest
  <2>3. ("checks_evaluated" \in DOMAIN d /\ d.checks_evaluated # NULL)
           => parseChecks(d.checks_evaluated) = d.checks_evaluated
    BY <1>3, <2>1 DEF Plain, PlainField
  <2>4. /\ digest = [f \in DOMAIN digest |-> digest[f]]
        /\ \A f \in DOMAIN d \ {"aeg_integrity_digest"} : d[f] \in {NULL, digest[f]}
    BY <2>2, <2>3 DEF Without
  <2> HIDE DEF digest
  <2>5. d.aeg_integrity_digest = digest
    BY DEF digest
  <2> QED BY <2>1, <2>4, <2>5 DEF Tells, Told, InDigest
<1>4. CASE k = "insurance_signal"
  <2> DEFINE digest == d.metrics_digest
             counted == [m \in DOMAIN d.metrics |->
                           IF m \in SignalCounts THEN Count(d.metrics[m]) ELSE d.metrics[m]]
  <2>1. /\ SealOf(k) = "metrics_digest" /\ "metrics" \in MCParts(k)
        /\ PromisedReadiness(k, d) = Without(d, {"digest_entry_hash"})
    BY <1>4 DEF SealOf, PromisedReadiness, PartsReadiness
  <2>2. digest = buildInsuranceSignalMetricsPreimage(Without(d, {"metrics_digest"}))
    BY <1>4 DEF VerifyReadiness, verifyInsuranceSignalDigest
  <2>3. "metrics" \in DOMAIN d => digest.metrics = counted
    BY <2>2 DEF buildInsuranceSignalMetricsPreimage, Without
  <2>4. counted = [m \in DOMAIN counted |-> counted[m]]
    OBVIOUS
  <2>5. \A m \in DOMAIN d.metrics : d.metrics[m] = NULL \/ (m \in DOMAIN counted /\ d.metrics[m] = counted[m])
    BY DEF Count, Default
  <2>6. /\ digest = [f \in DOMAIN digest |-> digest[f]]
        /\ \A f \in DOMAIN d \ {"metrics_digest", "digest_entry_hash", "metrics"} : d[f] \in {NULL, digest[f]}
    BY <2>2 DEF buildInsuranceSignalMetricsPreimage, Without, Items
  <2> HIDE DEF digest, counted
  <2>7. "metrics" \in DOMAIN d => Told(k, "metrics", d.metrics, digest.metrics)
    <3>1. counted # NULL
      BY <2>4, RecordIsThere
    <3> QED BY <2>1, <2>3, <2>5, <3>1 DEF Told
  <2>8. d.metrics_digest = digest
    BY DEF digest
  <2> QED BY <2>1, <2>6, <2>7, <2>8 DEF Tells, Told, InDigest, Without
<1> QED BY <1>1, <1>2, <1>3, <1>4 DEF NormalReadiness

\* What the digest of a document about approval, revocation or delegation tells.
LEMMA DelegatedTold ==
    ASSUME NullIsNoRecord, NEW k \in NormalDelegated, NEW d, NEW o, VerifyDelegated(k, d, o),
           HasFields(k, d), Plain(k, d), MCParts(k) = PartsDelegated(k)
    PROVE  Tells(k, SealOf(k), d, PromisedDelegated(k, d))
<1>1. CASE k = "hitl_preimage"
  <2>1. SealOf(k) = "binding_digest" /\ PromisedDelegated(k, d) = d
    BY <1>1 DEF SealOf, PromisedDelegated
  <2>2. d.binding_digest = computeHitlBindingDigestFromFields(d)
    BY <1>1 DEF VerifyDelegated, verifyHitlPreimageBindingBundle
  <2>3. DOMAIN d = {"session_id", "approval_request_id", "human_visible_digest",
                    "gate_evaluation_digest", "binding_result", "binding_digest"}
    BY <1>1 DEF HasFields
  <2> QED BY <2>1, <2>2, <2>3 DEF Tells, Told, InDigest, computeHitlBindingDigestFromFields, Only
<1>2. CASE k = "hitl_approval"
  <2> DEFINE digest == d.approval_digest
             flagged == {"session_chain_binding", "approval_assertions"}
  <2>1. /\ SealOf(k) = "approval_digest" /\ PromisedDelegated(k, d) = d
        /\ flagged \subseteq MCParts(k)
    BY <1>2 DEF SealOf, PromisedDelegated, PartsDelegated
  <2>2. digest = buildHitlApprovalReceiptPreimage(d)
    BY <1>2 DEF VerifyDelegated, verifyHitlApprovalReceipt
  <2>3. /\ digest = [f \in DOMAIN digest |-> digest[f]]
        /\ \A f \in DOMAIN d \ (flagged \cup {"approval_digest"}) : digest[f] = d[f]
        /\ \A f \in DOMAIN d \cap flagged : digest[f] = Flags(d[f], FlagsOf(k, f))
    BY <2>2 DEF buildHitlApprovalReceiptPreimage, Without, FlagsOf
  <2> HIDE DEF digest
  <2>4. \A f \in DOMAIN d \cap flagged : Told(k, f, d[f], digest[f])
    BY <2>1, <2>3, FlagBlockTold
  <2>5. d.approval_digest = digest
    BY DEF digest
  <2> QED BY <2>1, <2>3, <2>4, <2>5 DEF Tells, Told, InDigest
<1>3. CASE k = "revocation_horizon"
  <2>1. SealOf(k) = "horizon_digest" /\ PromisedDelegated(k, d) = d
    BY <1>3 DEF SealOf, PromisedDelegated
  <2>2. /\ d.attestation = evaluateRevocationHorizon(d).attestation
        /\ d.horizon_digest = evaluateRevocationHorizon(d).horizon_digest
    BY <1>3 DEF VerifyDelegated, verifyRevocationHorizonBundle
  <2>3. d.horizon_digest = Spread(Only(d, HorizonFields), [attestation |-> d.attestation])
    BY <2>2 DEF evaluateRevocationHorizon
  <2>4. DOMAIN d = HorizonFields \cup {"attestation", "horizon_digest"}
    BY <1>3 DEF HasFields
  <2>5. "attestation" \notin HorizonFields /\ "horizon_digest" \notin HorizonFields
    BY DEF HorizonFields
  <2> QED BY <2>1, <2>3, <2>4, <2>5 DEF Tells, Told, InDigest, Spread, Only
<1>4. CASE k = "delegation_step"
  <2> DEFINE digest == d.receipt_digest
  <2>1. SealOf(k) = "receipt_digest" /\ PromisedDelegated(k, d) = d /\ MCParts(k) = {}
    BY <1>4 DEF SealOf, PromisedDelegated, PartsDelegated
  <2>2. digest = Flags(Only(d, StepFields), {"attenuation_valid"})
    BY <1>4 DEF VerifyDelegated, verifyDelegationStepReceipt, buildDelegationStepReceiptPreimage
  <2>3. Only(d, StepFields) # NULL
    BY RecordIsThere DEF Only
  <2>4. digest = [f \in StepFields |-> IF f = "attenuation_valid" THEN d[f] = TRUE ELSE d[f]]
    BY <2>2, <2>3 DEF Flags, Only
  <2>5. DOMAIN d = StepFields \cup {"receipt_digest"} /\ "receipt_digest" \notin StepFields
    BY <1>4 DEF HasFields, StepFields, ContextFields
  <2>6. "attenuation_valid" \in DOMAIN d => d.attenuation_valid \in {NULL, TRUE, FALSE}
    BY <1>4, <2>1 DEF Plain, PlainField
  <2>7. digest = [f \in DOMAIN digest |-> digest[f]] /\ \A f \in StepFields : d[f] \in {NULL, digest[f]}
    BY <2>4, <2>5, <2>6
  <2> HIDE DEF digest
  <2>8. d.receipt_digest = digest
    BY DEF digest
  <2> QED BY <2>1, <2>5, <2>7, <2>8 DEF Tells, Told, InDigest
<1> QED BY <1>1, <1>2, <1>3, <1>4 DEF NormalDelegated

\* The digest of a pack has the members that are there, the blocks flagged with their flags as
\* yes or no, and the rest of its surface as it is, but for the fields special, of which it tells.
TellsSurface(k, d, flagged, special) ==
    /\ flagged \subseteq Stated(k)
    /\ d.pack_digest = [f \in DOMAIN d.pack_digest |-> d.pack_digest[f]]
    /\ \A f \in DOMAIN d :
         /\ f = "composed_members" => d.pack_digest[f] = Entries(d[f])
         /\ f \in flagged => d.pack_digest[f] = Flags(d[f], FlagsOf(k, f))
         /\ f \in special => Told(k, f, d[f], d.pack_digest[f])
         /\ f \notin flagged \cup special \cup Attached \cup {"pack_digest", "composed_members"}
              => d.pack_digest[f] = d[f]

\* Then it tells what is vouched for.
LEMMA SurfaceTold ==
    ASSUME NullIsNoRecord, NEW k \in NormalPacks \ {"evidence_set"}, NEW d, HasFields(k, d), Plain(k, d),
           MCParts(k) = PartsPack(k), NEW flagged, NEW special, TellsSurface(k, d, flagged, special)
    PROVE  Tells(k, SealOf(k), d, PromisedPack(k, d))
<1> DEFINE digest == d.pack_digest
<1>1. /\ SealOf(k) = "pack_digest" /\ \A part : Computed(k, part) = {}
      /\ "delegation_steps" \notin DOMAIN d
  BY DEF NormalPacks, SealOf, Computed, HasFields
<1>2. PromisedPack(k, d) = Without(d, Attached)
  BY <1>1 DEF PromisedPack, Without
<1>3. Stated(k) \cup {"composed_members"} \subseteq MCParts(k)
  BY DEF NormalPacks, PartsPack
<1>4. \A f \in DOMAIN d \ (Attached \cup {"pack_digest"}) : Told(k, f, d[f], digest[f])
  <2> SUFFICES ASSUME NEW f \in DOMAIN d \ (Attached \cup {"pack_digest"})
               PROVE  Told(k, f, d[f], digest[f])
    OBVIOUS
  <2>1. CASE f = "composed_members"
    <3>1. CASE d[f] = NULL
      BY <3>1 DEF Told
    <3>2. CASE d[f] # NULL
      BY <1>3, <2>1, <3>2, EntriesTold DEF Told, TellsSurface
    <3> QED BY <3>1, <3>2
  <2>2. CASE f \in flagged
    BY <1>3, <2>2, FlagBlockTold DEF TellsSurface
  <2>3. CASE f \in special
    BY <2>3 DEF TellsSurface
  <2>4. CASE f \notin flagged \cup special \cup {"composed_members"}
    BY <2>4 DEF Told, TellsSurface
  <2> QED BY <2>1, <2>2, <2>3, <2>4
<1>5. digest = [f \in DOMAIN digest |-> digest[f]]
  BY DEF TellsSurface
<1> HIDE DEF digest
<1>6. d.pack_digest = digest
  BY DEF digest
<1> QED BY <1>1, <1>2, <1>4, <1>5, <1>6 DEF Tells, InDigest, Told, Without

\* What the digest of a pack over documents of conduct tells.
LEMMA ConductPackTold ==
    ASSUME NullIsNoRecord,
           NEW k \in {"verifiable_denial", "cross_platform", "deployer_custody", "license_custody"},
           NEW d, NEW o, VerifyPack(k, d, o), HasFields(k, d), Plain(k, d), MCParts(k) = PartsPack(k)
    PROVE  Tells(k, SealOf(k), d, PromisedPack(k, d))
<1>1. CASE k = "verifiable_denial"
  <2>1. d.pack_digest = buildVerifiableDenialEvidencePackPreimage(d)
    BY <1>1 DEF VerifyPack, verifyVerifiableDenialEvidencePack
  <2>2. TellsSurface(k, d, {"denial_assertions"}, {})
    BY <1>1, <2>1 DEF buildVerifiableDenialEvidencePackPreimage, extractComposedPackSurface, Without,
                      Attached, FlagsOf, TellsSurface, Stated
  <2> QED BY <1>1, <2>2, SurfaceTold DEF NormalPacks
<1>2. CASE k = "cross_platform"
  <2>1. d.pack_digest = buildCrossPlatformConductPackPreimage(d)
    BY <1>2 DEF VerifyPack, verifyCrossPlatformConductPack
  <2>2. TellsSurface(k, d, {"vendor_session_binding", "cross_platform_assertions"}, {})
    BY <1>2, <2>1 DEF buildCrossPlatformConductPackPreimage, extractComposedPackSurface, Without,
                      Attached, FlagsOf, TellsSurface, Stated
  <2> QED BY <1>2, <2>2, SurfaceTold DEF NormalPacks
<1>3. CASE k = "deployer_custody"
  <2>1. d.pack_digest = extractComposedPackSurface(d)
    BY <1>3 DEF VerifyPack, verifyDeployerLogCustodyPack
  <2>2. TellsSurface(k, d, {}, {})
    BY <1>3, <2>1 DEF extractComposedPackSurface, Without, Attached, TellsSurface
  <2> QED BY <1>3, <2>2, SurfaceTold DEF NormalPacks
<1>4. CASE k = "license_custody"
  <2>1. d.pack_digest = buildLicenseSurvivableCustodyPackPreimage(d)
    BY <1>4 DEF VerifyPack, verifyLicenseSurvivableCustodyPack
  <2>2. TellsSurface(k, d, {"custody_survival_assertions", "post_termination_verify"}, {})
    BY <1>4, <2>1 DEF buildLicenseSurvivableCustodyPackPreimage, extractComposedPackSurface, Without,
                      Attached, FlagsOf, TellsSurface, Stated
  <2> QED BY <1>4, <2>2, SurfaceTold DEF NormalPacks
<1> QED BY <1>1, <1>2, <1>3, <1>4

\* What the digest of a set of evidence tells: its member count is of it, the members are there.
LEMMA EvidenceSetTold ==
    ASSUME NullIsNoRecord, NEW d, verifyAttestedEvidenceSet(d), HasFields("evidence_set", d),
           MCParts("evidence_set") = PartsPack("evidence_set")
    PROVE  Tells("evidence_set", "evidence_set_digest", d, PromisedPack("evidence_set", d))
<1> DEFINE digest == d.evidence_set_digest
           rest == Without(d, {"evidence_set_digest", "member_count", "member_documents",
                               "member_verify_attestations"})
           count == Cardinality(DOMAIN Entries(d.members))
<1>1. PromisedPack("evidence_set", d) = Without(d, Attached)
  <2>1. "delegation_steps" \notin DOMAIN d /\ \A part : Computed("evidence_set", part) = {}
    BY DEF HasFields, NormalPacks, Computed
  <2> QED BY <2>1 DEF PromisedPack, Without
<1>2. digest = buildAttestedEvidenceSetPreimage(rest) /\ d.member_count = count
  BY DEF verifyAttestedEvidenceSet, EvidenceSetMembers, resolveComposedMemberVerifyState
<1>3. DOMAIN rest = DOMAIN d \ {"evidence_set_digest", "member_count", "member_documents",
                                "member_verify_attestations"}
      /\ \A f \in DOMAIN rest : rest[f] = d[f]
  BY DEF Without
<1> HIDE DEF rest
<1>4. /\ digest = [f \in DOMAIN digest |-> digest[f]]
      /\ \A f \in DOMAIN rest : digest[f] = IF f = "members" THEN Entries(rest[f]) ELSE rest[f]
      /\ digest.member_count = Cardinality(DOMAIN Entries(rest.members))
  <2>1. "member_count" \notin DOMAIN rest
    BY <1>3
  <2> HIDE DEF count
  <2> QED BY <1>2, <2>1 DEF buildAttestedEvidenceSetPreimage, Spread
<1>5. "members" \in DOMAIN d /\ rest.members = d.members
  BY <1>3 DEF HasFields
<1> HIDE DEF digest
<1>6. d.evidence_set_digest = digest
  BY DEF digest
<1>7. Told("evidence_set", "members", d.members, digest.members)
  <2>1. "members" \in MCParts("evidence_set") /\ "members" \in DOMAIN rest
    BY <1>3, <1>5 DEF PartsPack, Stated
  <2>2. CASE d.members = NULL
    BY <2>2 DEF Told
  <2>3. CASE d.members # NULL
    BY <1>4, <1>5, <2>1, <2>3, EntriesTold DEF Told
  <2> QED BY <2>2, <2>3
<1>8. d.member_count = digest.member_count
  BY <1>2, <1>4, <1>5
<1>9. \A f \in DOMAIN rest \ {"members"} : d[f] = digest[f]
  BY <1>3, <1>4
<1> HIDE DEF count
<1> QED BY <1>1, <1>3, <1>4, <1>6, <1>7, <1>8, <1>9 DEF Tells, Told, InDigest, Without, Attached

\* The surface of a pack: its own fields as they are, of its members those that are there.
LEMMA SurfaceFields ==
    ASSUME NEW d, NEW s, s = extractComposedPackSurface(d)
    PROVE  /\ s = [f \in DOMAIN s |-> s[f]]
           /\ DOMAIN s = DOMAIN d \ ({"pack_digest"} \cup Attached)
           /\ \A f \in DOMAIN s : s[f] = IF f = "composed_members" THEN Entries(d[f]) ELSE d[f]
BY DEF extractComposedPackSurface, Without, Attached

\* A block with some of its flags as yes or no and defaults for what is missing is told.
LEMMA BlockTold ==
    ASSUME NullIsNoRecord, NEW k, NEW f \in MCParts(k), NEW x, NEW y, DOMAIN y = DOMAIN x,
           y = [g \in DOMAIN y |-> y[g]], \A g \in DOMAIN x : x[g] \in {NULL, y[g]}
    PROVE  Told(k, f, x, y)
BY RecordIsThere DEF Told

\* What the digest of a pack over witnesses, a notification or a period of monitoring tells.
LEMMA GovernancePackTold ==
    ASSUME NullIsNoRecord, NEW k \in {"independence", "timeline", "monitoring"},
           NEW d, NEW o, VerifyPack(k, d, o), HasFields(k, d), Plain(k, d), MCParts(k) = PartsPack(k)
    PROVE  Tells(k, SealOf(k), d, PromisedPack(k, d))
<1>1. CASE k = "independence"
  <2>1. d.pack_digest = buildIndependenceWitnessPackPreimage(d)
    BY <1>1 DEF VerifyPack, verifyIndependenceWitnessPack
  <2>2. TellsSurface(k, d, {"independence_assertions", "independence_verify"}, {})
    BY <1>1, <2>1 DEF buildIndependenceWitnessPackPreimage, extractComposedPackSurface, Without,
                      Attached, FlagsOf, TellsSurface, Stated
  <2> QED BY <1>1, <2>2, SurfaceTold DEF NormalPacks
<1>2. CASE k = "timeline"
  <2> DEFINE surface == extractComposedPackSurface(d)
  <2>1. d.pack_digest = buildIncidentNotificationTimelinePackPreimage(d) /\ d.notification_timeline # NULL
    BY <1>2 DEF VerifyPack, verifyIncidentNotificationTimelinePack, Present
  <2>2. d.pack_digest =
          [surface EXCEPT !.timeline_assertions = Flags(@, TimelineFlags),
                          !.notification_timeline.milestone_count = Default(@, 0),
                          !.timeline_session_binding = Flags(@, {"normalization_bound"})]
    BY <2>1 DEF buildIncidentNotificationTimelinePackPreimage
  <2>3. /\ surface = [f \in DOMAIN surface |-> surface[f]]
        /\ DOMAIN surface = DOMAIN d \ ({"pack_digest"} \cup Attached)
        /\ \A f \in DOMAIN surface :
             surface[f] = IF f = "composed_members" THEN Entries(d[f]) ELSE d[f]
    BY SurfaceFields
  <2> HIDE DEF surface
  <2>4. ASSUME "notification_timeline" \in DOMAIN d
        PROVE  Told(k, "notification_timeline", d.notification_timeline, d.pack_digest.notification_timeline)
    <3> DEFINE x == d.notification_timeline
               y == [x EXCEPT !.milestone_count = Default(@, 0)]
    <3>1. d.pack_digest.notification_timeline = y
      BY <2>4, <2>2, <2>3 DEF Attached
    <3>2. DOMAIN y = DOMAIN x /\ y = [g \in DOMAIN y |-> y[g]]
      OBVIOUS
    <3>3. \A g \in DOMAIN x : x[g] \in {NULL, y[g]}
      BY DEF Default
    <3>4. "notification_timeline" \in MCParts(k)
      BY <1>2 DEF PartsPack, Stated
    <3> HIDE DEF y
    <3> QED BY <3>1, <3>2, <3>3, <3>4, BlockTold
  <2>5. TellsSurface(k, d, {"timeline_session_binding", "timeline_assertions"}, {"notification_timeline"})
    <3>1. /\ FlagsOf(k, "timeline_session_binding") = {"normalization_bound"}
          /\ FlagsOf(k, "timeline_assertions") = TimelineFlags
          /\ {"timeline_session_binding", "timeline_assertions"} \subseteq Stated(k)
      BY <1>2 DEF FlagsOf, Stated
    <3>2. /\ d.pack_digest = [f \in DOMAIN d.pack_digest |-> d.pack_digest[f]]
          /\ DOMAIN d.pack_digest = DOMAIN surface
      BY <2>2, <2>3
    <3>3. \A f \in DOMAIN surface :
           /\ f \notin {"timeline_session_binding", "timeline_assertions", "notification_timeline"}
                => d.pack_digest[f] = surface[f]
           /\ f = "timeline_session_binding" => d.pack_digest[f] = Flags(surface[f], {"normalization_bound"})
           /\ f = "timeline_assertions" => d.pack_digest[f] = Flags(surface[f], TimelineFlags)
      BY <2>2, <2>3
    <3> QED BY <2>4, <2>3, <3>1, <3>2, <3>3 DEF Attached, TellsSurface
  <2> QED BY <1>2, <2>5, SurfaceTold DEF NormalPacks
<1>3. CASE k = "monitoring"
  <2>1. /\ d.pack_digest = buildPostMarketMonitoringExportPackPreimage(d)
        /\ d.monitoring_assertions # NULL /\ d.post_market_monitoring_snapshot # NULL
    BY <1>3 DEF VerifyPack, verifyPostMarketMonitoringExportPack, Present
  <2>2. {"monitoring_assertions", "post_market_monitoring_snapshot"} \subseteq MCParts(k)
    BY <1>3 DEF PartsPack, Stated
  <2> DEFINE surface == extractComposedPackSurface(d)
  <2>3. d.pack_digest =
          [surface EXCEPT !.monitoring_assertions = MonitoringForm(@),
                          !.post_market_monitoring_snapshot = SummaryForm(@),
                          !.monitoring_session_binding = Flags(@, {"normalization_bound"})]
    BY <2>1 DEF buildPostMarketMonitoringExportPackPreimage
  <2>4. /\ surface = [f \in DOMAIN surface |-> surface[f]]
        /\ DOMAIN surface = DOMAIN d \ ({"pack_digest"} \cup Attached)
        /\ \A f \in DOMAIN surface :
             surface[f] = IF f = "composed_members" THEN Entries(d[f]) ELSE d[f]
    BY SurfaceFields
  <2> HIDE DEF surface
  <2>5. ASSUME "monitoring_assertions" \in DOMAIN d
        PROVE  Told(k, "monitoring_assertions", d.monitoring_assertions, d.pack_digest.monitoring_assertions)
    <3> DEFINE x == d.monitoring_assertions
               flags == Flags(x, MonitoringFlags)
               y == [flags EXCEPT !.obligation_gap_count = Default(@, 0),
                                  !.obligation_partial_count = Default(@, 0)]
    <3>1. d.pack_digest.monitoring_assertions = y
      <4>1. d.pack_digest.monitoring_assertions = MonitoringForm(x)
        BY <2>3, <2>4, <2>5 DEF Attached
      <4> QED BY <4>1 DEF MonitoringForm
    <3>2. DOMAIN flags = DOMAIN x
      BY <2>1 DEF Flags
    <3>3. \A g \in DOMAIN x : x[g] \in {NULL, flags[g]}
      <4>1. \A g \in DOMAIN x : (g \in MonitoringFlags /\ x[g] # NULL) => x[g] \in BOOLEAN
        BY <1>3, <2>1, <2>2, <2>5 DEF Plain, PlainPart, FlagsOf
      <4> QED BY <2>1, <4>1, FlagsTold
    <3> HIDE DEF flags
    <3>4. DOMAIN y = DOMAIN x /\ y = [g \in DOMAIN y |-> y[g]]
      BY <3>2
    <3>5. \A g \in DOMAIN x : x[g] \in {NULL, y[g]}
      BY <3>2, <3>3 DEF Default
    <3> HIDE DEF y
    <3> QED BY <2>2, <3>1, <3>4, <3>5, BlockTold
  <2>6. ASSUME "post_market_monitoring_snapshot" \in DOMAIN d
        PROVE  Told(k, "post_market_monitoring_snapshot", d.post_market_monitoring_snapshot,
                    d.pack_digest.post_market_monitoring_snapshot)
    <3> DEFINE x == d.post_market_monitoring_snapshot
               y == [x EXCEPT !.obligation_count = Default(@, 0), !.obligations_met_count = Default(@, 0),
                              !.obligations_partial_count = Default(@, 0)]
    <3>1. d.pack_digest.post_market_monitoring_snapshot = y
      <4>1. d.pack_digest.post_market_monitoring_snapshot = SummaryForm(x)
        BY <2>3, <2>4, <2>6 DEF Attached
      <4> QED BY <4>1 DEF SummaryForm
    <3>2. DOMAIN y = DOMAIN x /\ y = [g \in DOMAIN y |-> y[g]]
      OBVIOUS
    <3>3. \A g \in DOMAIN x : x[g] \in {NULL, y[g]}
      BY DEF Default
    <3> HIDE DEF y
    <3> QED BY <2>2, <3>1, <3>2, <3>3, BlockTold
  <2>7. TellsSurface(k, d, {"monitoring_session_binding"},
                     {"monitoring_assertions", "post_market_monitoring_snapshot"})
    <3>1. /\ FlagsOf(k, "monitoring_session_binding") = {"normalization_bound"}
          /\ {"monitoring_session_binding"} \subseteq Stated(k)
      BY <1>3 DEF FlagsOf, Stated
    <3>2. /\ d.pack_digest = [f \in DOMAIN d.pack_digest |-> d.pack_digest[f]]
          /\ DOMAIN d.pack_digest = DOMAIN surface
      BY <2>3, <2>4
    <3>3. \A f \in DOMAIN surface :
           /\ f \notin {"monitoring_session_binding", "monitoring_assertions",
                        "post_market_monitoring_snapshot"}
                => d.pack_digest[f] = surface[f]
           /\ f = "monitoring_session_binding" => d.pack_digest[f] = Flags(surface[f], {"normalization_bound"})
      BY <2>3, <2>4
    <3> QED BY <2>5, <2>6, <2>4, <3>1, <3>2, <3>3 DEF Attached, TellsSurface
  <2> QED BY <1>3, <2>7, SurfaceTold DEF NormalPacks
<1> QED BY <1>1, <1>2, <1>3

\* What the digest of a kit for a managing agent tells.
LEMMA MgaKitTold ==
    ASSUME NullIsNoRecord, NEW d, verifyCarrierMgaAcceptanceKit(d), HasFields("mga_kit", d),
           Plain("mga_kit", d), MCParts("mga_kit") = PartsPack("mga_kit")
    PROVE  Tells("mga_kit", SealOf("mga_kit"), d, PromisedPack("mga_kit", d))
<1>1. d.pack_digest = buildCarrierMgaAcceptanceKitPreimage(d) /\ d.submission_cadence # NULL
  BY DEF verifyCarrierMgaAcceptanceKit, Present
<1> DEFINE surface == extractComposedPackSurface(d)
<1>2. d.pack_digest =
        [surface EXCEPT !.mga_acceptance_assertions = Flags(@, MgaFlags),
                        !.submission_cadence = CadenceForm(@),
                        !.chain_composition_disclosure = IF @ = NULL THEN NULL ELSE DisclosureForm(@)]
  BY <1>1 DEF buildCarrierMgaAcceptanceKitPreimage
<1>3. /\ surface = [f \in DOMAIN surface |-> surface[f]]
      /\ DOMAIN surface = DOMAIN d \ ({"pack_digest"} \cup Attached)
      /\ \A f \in DOMAIN surface : surface[f] = IF f = "composed_members" THEN Entries(d[f]) ELSE d[f]
  BY SurfaceFields
<1> HIDE DEF surface
<1>4. ASSUME "submission_cadence" \in DOMAIN d
      PROVE  Told("mga_kit", "submission_cadence", d.submission_cadence, d.pack_digest.submission_cadence)
  <2> DEFINE x == d.submission_cadence
             flags == Flags(x, {"drill_fresh_for_submission"})
             y == [flags EXCEPT !.kill_switch_drill_max_age_days = Default(@, 90)]
  <2>1. d.pack_digest.submission_cadence = y
    <3>1. d.pack_digest.submission_cadence = CadenceForm(x)
      BY <1>4, <1>2, <1>3 DEF Attached
    <3> QED BY <3>1 DEF CadenceForm
  <2>2. DOMAIN flags = DOMAIN x
    BY <1>1 DEF Flags
  <2>3. "submission_cadence" \in MCParts("mga_kit")
    BY DEF PartsPack, Stated
  <2>4. \A g \in DOMAIN x : x[g] \in {NULL, flags[g]}
    <3>1. \A g \in DOMAIN x :
            (g \in {"drill_fresh_for_submission"} /\ x[g] # NULL) => x[g] \in BOOLEAN
      BY <1>1, <1>4, <2>3 DEF Plain, PlainPart, FlagsOf
    <3> QED BY <1>1, <3>1, FlagsTold
  <2> HIDE DEF flags
  <2>5. DOMAIN y = DOMAIN x /\ y = [g \in DOMAIN y |-> y[g]]
    BY <2>2
  <2>6. \A g \in DOMAIN x : x[g] \in {NULL, y[g]}
    BY <2>2, <2>4 DEF Default
  <2> HIDE DEF y
  <2> QED BY <2>1, <2>3, <2>5, <2>6, BlockTold
<1>5. ASSUME "chain_composition_disclosure" \in DOMAIN d
      PROVE  Told("mga_kit", "chain_composition_disclosure", d.chain_composition_disclosure,
                  d.pack_digest.chain_composition_disclosure)
  <2> DEFINE x == d.chain_composition_disclosure
  <2>1. d.pack_digest.chain_composition_disclosure = IF x = NULL THEN NULL ELSE DisclosureForm(x)
    BY <1>5, <1>2, <1>3 DEF Attached
  <2>2. x # NULL => DisclosureForm(x) = x
    <3>1. "chain_composition_disclosure" \notin MCParts("mga_kit")
      BY DEF PartsPack, Stated, Attached
    <3> QED BY <1>5, <3>1 DEF Plain, PlainField
  <2> QED BY <2>1, <2>2 DEF Told
<1>6. TellsSurface("mga_kit", d, {"mga_acceptance_assertions"},
                   {"submission_cadence", "chain_composition_disclosure"})
  <2>1. /\ FlagsOf("mga_kit", "mga_acceptance_assertions") = MgaFlags
        /\ {"mga_acceptance_assertions"} \subseteq Stated("mga_kit")
    BY DEF FlagsOf, Stated
  <2>2. /\ d.pack_digest = [f \in DOMAIN d.pack_digest |-> d.pack_digest[f]]
        /\ DOMAIN d.pack_digest = DOMAIN surface
    BY <1>2, <1>3
  <2>3. \A f \in DOMAIN surface :
         /\ f \notin {"mga_acceptance_assertions", "submission_cadence", "chain_composition_disclosure"}
              => d.pack_digest[f] = surface[f]
         /\ f = "mga_acceptance_assertions" => d.pack_digest[f] = Flags(surface[f], MgaFlags)
    BY <1>2, <1>3
  <2> QED BY <1>4, <1>5, <1>3, <2>1, <2>2, <2>3 DEF Attached, TellsSurface
<1> QED BY <1>6, SurfaceTold DEF NormalPacks

\* The digest of an accepted document, in normal form, tells what its verifier vouches for.
LEMMA AcceptedIsTold ==
    ASSUME NullIsNoRecord, NEW k \in NormalKinds, NEW d, NEW o, MCVerifies(k, d, o),
           HasFields(k, d), Plain(k, d)
    PROVE  Tells(k, SealOf(k), d, MCPromised(k, d))
<1>1. CASE k \in NormalConduct
  <2>1. k \in Conduct
    BY <1>1, DigestClasses
  <2>2. /\ VerifyConduct(k, d, o)
        /\ MCPromised(k, d) = PromisedConduct(k, d)
        /\ MCParts(k) = PartsConduct(k)
    BY <2>1, ClassesDisjoint DEF MCVerifies, MCPromised, MCParts
  <2> QED BY <1>1, <2>2, ConductTold
<1>2. CASE k \in NormalBoundary
  <2>1. k \in Boundary
    BY <1>2, DigestClasses
  <2>2. /\ VerifyBoundary(k, d, o)
        /\ MCPromised(k, d) = PromisedBoundary(k, d)
        /\ MCParts(k) = PartsBoundary(k)
    BY <2>1, ClassesDisjoint DEF MCVerifies, MCPromised, MCParts
  <2> QED BY <1>2, <2>2, EgressTold
<1>3. CASE k \in {"vendor_change"}
  <2>1. k \in Governance
    BY <1>3, DigestClasses
  <2>2. /\ VerifyGovernance(k, d, o)
        /\ MCPromised(k, d) = PromisedGovernance(k, d)
        /\ MCParts(k) = PartsGovernance(k)
    BY <2>1, ClassesDisjoint DEF MCVerifies, MCPromised, MCParts
  <2>3. verifyVendorModelChange(d) /\ SealOf(k) = "change_digest"
    BY <1>3, <2>2 DEF VerifyGovernance, SealOf
  <2> QED BY <1>3, <2>2, <2>3, VendorTold
<1>4. CASE k \in NormalReadiness
  <2>1. k \in Readiness
    BY <1>4, DigestClasses
  <2>2. /\ VerifyReadiness(k, d, o)
        /\ MCPromised(k, d) = PromisedReadiness(k, d)
        /\ MCParts(k) = PartsReadiness(k)
    BY <2>1, ClassesDisjoint DEF MCVerifies, MCPromised, MCParts
  <2> QED BY <1>4, <2>2, ReadinessTold
<1>5. CASE k \in NormalDelegated
  <2>1. k \in Delegated
    BY <1>5, DigestClasses
  <2>2. /\ VerifyDelegated(k, d, o)
        /\ MCPromised(k, d) = PromisedDelegated(k, d)
        /\ MCParts(k) = PartsDelegated(k)
    BY <2>1, ClassesDisjoint DEF MCVerifies, MCPromised, MCParts
  <2> QED BY <1>5, <2>2, DelegatedTold
<1>6. CASE k \in NormalPacks
  <2>1. k \in Packs
    BY <1>6, DigestClasses
  <2>2. /\ VerifyPack(k, d, o)
        /\ MCPromised(k, d) = PromisedPack(k, d)
        /\ MCParts(k) = PartsPack(k)
    BY <2>1, ClassesDisjoint DEF MCVerifies, MCPromised, MCParts
  <2>3. CASE k = "mga_kit"
    <3>1. verifyCarrierMgaAcceptanceKit(d)
      BY <2>2, <2>3 DEF VerifyPack
    <3> QED BY <2>2, <2>3, <3>1, MgaKitTold
  <2>4. CASE k = "evidence_set"
    <3>1. verifyAttestedEvidenceSet(d) /\ SealOf(k) = "evidence_set_digest"
      BY <2>2, <2>4 DEF VerifyPack, SealOf
    <3> QED BY <2>2, <2>4, <3>1, EvidenceSetTold
  <2>5. CASE k \in {"verifiable_denial", "cross_platform", "deployer_custody", "license_custody"}
    BY <2>2, <2>5, ConductPackTold
  <2>6. CASE k \in {"independence", "timeline", "monitoring"}
    BY <2>2, <2>6, GovernancePackTold
  <2> QED BY <1>6, <2>3, <2>4, <2>5, <2>6 DEF NormalPacks
<1> QED BY <1>1, <1>2, <1>3, <1>4, <1>5, <1>6 DEF NormalKinds

\* What the digest tells of an accepted document is what was issued, or what is left of it.
LEMMA ToldIsLeft ==
    ASSUME NEW f, NEW x, NEW digest, NEW whole, Parts(kind) = MCParts(kind),
           Told(kind, f, x, digest), Shown(kind, f, digest, whole)
    PROVE  Left(f, x, whole)
BY DEF Told, Shown, Left

-----------------------------------------------------------------------------
(* What is accepted was issued together *)

\* What a verifier vouches for, and what custody reaches into, is as modelled.
PromisesAreModelled ==
    /\ \A k, d : Promised(k, d) = MCPromised(k, d)
    /\ \A k : Parts(k) = MCParts(k) /\ Lists(k) = MCLists(k)

\* The issues of a kind have the same fields, those of the kind, and each is accepted as
\* it was issued.
IssuesVerify ==
    \A k \in Kinds \cap DigestKinds, t \in Tags :
      /\ \A s \in Tags : DOMAIN Issue(k, s) = DOMAIN Issue(k, t)
      /\ HasFields(k, Issue(k, t))
      /\ \E o \in Options(k) : MCVerifies(k, Issue(k, t), o)

\* What doc has under the name of its digest is nothing or the digest of an issue.
SealIssued(doc) == doc[SealOf(kind)] \in {NULL} \cup {issued[t][SealOf(kind)] : t \in Tags}

\* Of a kind with a digest, until somebody seals it again, the document keeps the fields of
\* the issues and a digest of theirs, and stays in normal form: custody computes none.
CustodyInv ==
    /\ kind \in Kinds /\ Tags # {}
    /\ issued = [t \in Tags |-> Issue(kind, t)]
    /\ (kind \in DigestKinds /\ ~resealed) =>
         (\A t \in Tags : DOMAIN held = DOMAIN issued[t]) /\ SealIssued(held)
    /\ (kind \in NormalKinds /\ ~resealed) => Plain(kind, held)

\* Whatever is lost, mixed in or turned round, of a kind with a digest the fields stay, and
\* the digest stays, goes or is another issue's.
LEMMA CustodyKeeps ==
    ASSUME PromisesAreModelled, kind \in DigestKinds, SealOf(kind) \in DOMAIN held,
           SealIssued(held), Next, ~resealed'
    PROVE  DOMAIN held' = DOMAIN held /\ SealIssued(held')
<1> DEFINE n == SealOf(kind)
<1>1. n \notin Parts(kind) \cup Lists(kind)
  BY SealApart DEF PromisesAreModelled
<1>2. ASSUME NEW f \in DOMAIN held, Lose(f)
      PROVE  DOMAIN held' = DOMAIN held /\ SealIssued(held')
  <2>1. held' = [held EXCEPT ![f] = NULL]
    BY <1>2 DEF Lose, Alter
  <2>2. held'[n] = NULL \/ held'[n] = held[n]
    BY <1>2, <2>1
  <2> QED BY <2>1, <2>2 DEF SealIssued
<1>3. ASSUME NEW f \in DOMAIN held, NEW t \in Tags, MixIn(f, t)
      PROVE  DOMAIN held' = DOMAIN held /\ SealIssued(held')
  <2>1. held' = [held EXCEPT ![f] = issued[t][f]]
    BY <1>3 DEF MixIn, Alter
  <2>2. held'[n] = issued[t][n] \/ held'[n] = held[n]
    BY <1>3, <2>1
  <2> QED BY <2>1, <2>2 DEF SealIssued
<1>4. ASSUME NEW f \in Parts(kind), NEW g, LosePart(f, g) \/ \E t \in Tags : MixInPart(f, g, t)
      PROVE  DOMAIN held' = DOMAIN held /\ held'[n] = held[n]
  <2>1. PICK v : held' = [held EXCEPT ![f] = v]
    <3>1. CASE LosePart(f, g)
      BY <3>1 DEF LosePart, Alter
    <3>2. ASSUME NEW t \in Tags, MixInPart(f, g, t)
          PROVE  \E v : held' = [held EXCEPT ![f] = v]
      BY <3>2 DEF MixInPart, Alter
    <3> QED BY <1>4, <3>1, <3>2
  <2>2. f # n
    BY <1>1, <1>4
  <2> QED BY <2>1, <2>2
<1>5. ASSUME NEW f \in Lists(kind), Turn(f)
      PROVE  DOMAIN held' = DOMAIN held /\ held'[n] = held[n]
  <2>1. held' = [held EXCEPT ![f] = Reverse(@)]
    BY <1>5 DEF Turn, Alter
  <2> QED BY <1>1, <1>5, <2>1
<1>6. ASSUME NEW o, Verify(o) PROVE held' = held
  BY <1>6 DEF Verify
<1>7. ~Reissue
  BY DEF Reissue
<1>8. (DOMAIN held' = DOMAIN held /\ held'[n] = held[n]) \/ held' = held
        => DOMAIN held' = DOMAIN held /\ SealIssued(held')
  BY DEF SealIssued
<1> HIDE DEF n
<1> QED BY <1>2, <1>3, <1>4, <1>5, <1>6, <1>7, <1>8 DEF Next

\* Of a kind whose digest has a normal form, no list that is turned round has one.
LEMMA ListsArePlain ==
    ASSUME NEW k \in NormalKinds, NEW f \in MCLists(k), NEW x
    PROVE  f \notin MCParts(k) /\ PlainField(k, f, x)
<1>1. k \in NormalBoundary /\ f = "observed_channels"
  <2>1. CASE k \in NormalConduct
    <3>1. MCLists(k) = ListsConduct(k)
      BY <2>1, DigestClasses, ClassesDisjoint DEF MCLists
    <3> QED BY <2>1, <3>1 DEF NormalConduct, ListsConduct
  <2>2. CASE k \in NormalBoundary
    <3>1. MCLists(k) = ListsBoundary(k)
      BY <2>2, DigestClasses, ClassesDisjoint DEF MCLists
    <3> QED BY <2>2, <3>1 DEF NormalBoundary, ListsBoundary
  <2>3. CASE k = "vendor_change"
    <3>1. MCLists(k) = ListsGovernance(k)
      BY <2>3, DigestClasses, ClassesDisjoint DEF MCLists
    <3> QED BY <2>3, <3>1 DEF ListsGovernance
  <2>4. CASE k \in NormalReadiness
    <3>1. MCLists(k) = ListsReadiness(k)
      BY <2>4, DigestClasses, ClassesDisjoint DEF MCLists
    <3> QED BY <3>1 DEF ListsReadiness
  <2>5. CASE k \in NormalDelegated
    <3>1. MCLists(k) = ListsDelegated(k)
      BY <2>5, DigestClasses, ClassesDisjoint DEF MCLists
    <3> QED BY <2>5, <3>1 DEF NormalDelegated, ListsDelegated
  <2>6. CASE k \in NormalPacks
    <3>1. MCLists(k) = ListsPack(k)
      BY <2>6, DigestClasses, ClassesDisjoint DEF MCLists
    <3> QED BY <2>6, <3>1 DEF NormalPacks, ListsPack
  <2> QED BY <2>1, <2>2, <2>3, <2>4, <2>5, <2>6 DEF NormalKinds
<1>2. MCParts(k) = {}
  <2>1. MCParts(k) = PartsBoundary(k)
    BY <1>1, DigestClasses, ClassesDisjoint DEF MCParts
  <2> QED BY <1>1, <2>1 DEF NormalBoundary, PartsBoundary
<1> QED BY <1>1, <1>2 DEF PlainField, NormalBoundary

\* A document in normal form, some field of which is lost or another document's, is in
\* normal form.
LEMMA FieldPlain ==
    ASSUME NEW k, NEW d, Plain(k, d), NEW f \in DOMAIN d, NEW x,
           \/ x = NULL
           \/ \E e : Plain(k, e) /\ f \in DOMAIN e /\ x = e[f]
    PROVE  Plain(k, [d EXCEPT ![f] = x])
<1> DEFINE new == [d EXCEPT ![f] = x]
<1>1. DOMAIN new = DOMAIN d /\ \A h \in DOMAIN d : new[h] = IF h = f THEN x ELSE d[h]
  OBVIOUS
<1> HIDE DEF new
<1>2. ASSUME NEW h \in DOMAIN new, new[h] # NULL
      PROVE  /\ h \notin MCParts(k) => PlainField(k, h, new[h])
             /\ h \in MCParts(k) => \A g \in DOMAIN new[h] : new[h][g] # NULL => PlainPart(k, h, g, new[h][g])
  <2>1. CASE h = f
    <3>1. PICK e : Plain(k, e) /\ f \in DOMAIN e /\ x = e[f]
      BY <1>1, <1>2, <2>1
    <3> QED BY <1>1, <1>2, <2>1, <3>1 DEF Plain
  <2>2. CASE h # f
    BY <1>1, <1>2, <2>2 DEF Plain
  <2> QED BY <2>1, <2>2
<1> QED BY <1>2 DEF Plain, new

\* And so is one some part of which is lost or another document's.
LEMMA PartPlain ==
    ASSUME NEW k, NEW d, Plain(k, d), NEW f \in MCParts(k), f \in DOMAIN d, d[f] # NULL,
           NEW g, NEW x,
           \/ x = NULL
           \/ \E e : Plain(k, e) /\ f \in DOMAIN e /\ e[f] # NULL /\ g \in DOMAIN e[f] /\ x = e[f][g]
    PROVE  Plain(k, [d EXCEPT ![f] = [d[f] EXCEPT ![g] = x]])
<1> DEFINE part == [d[f] EXCEPT ![g] = x]
           new == [d EXCEPT ![f] = part]
<1>1. DOMAIN part = DOMAIN d[f] /\ \A h \in DOMAIN d[f] : part[h] = IF h = g THEN x ELSE d[f][h]
  OBVIOUS
<1> HIDE DEF part
<1>2. DOMAIN new = DOMAIN d /\ \A h \in DOMAIN d : new[h] = IF h = f THEN part ELSE d[h]
  OBVIOUS
<1>3. ASSUME NEW h \in DOMAIN part, part[h] # NULL PROVE PlainPart(k, f, h, part[h])
  <2>1. CASE h = g
    <3>1. PICK e : Plain(k, e) /\ f \in DOMAIN e /\ e[f] # NULL /\ g \in DOMAIN e[f] /\ x = e[f][g]
      BY <1>1, <1>3, <2>1
    <3> QED BY <1>1, <1>3, <2>1, <3>1 DEF Plain
  <2>2. CASE h # g
    BY <1>1, <1>3, <2>2 DEF Plain
  <2> QED BY <2>1, <2>2
<1> HIDE DEF new
<1>4. ASSUME NEW h \in DOMAIN new, new[h] # NULL
      PROVE  /\ h \notin MCParts(k) => PlainField(k, h, new[h])
             /\ h \in MCParts(k) => \A q \in DOMAIN new[h] : new[h][q] # NULL => PlainPart(k, h, q, new[h][q])
  <2>1. CASE h = f
    BY <1>2, <1>3, <1>4, <2>1
  <2>2. CASE h # f
    BY <1>2, <1>4, <2>2 DEF Plain
  <2> QED BY <2>1, <2>2
<1> QED BY <1>4 DEF Plain, new, part

\* Whatever is lost, mixed in or turned round, a document stays in normal form.
LEMMA CustodyKeepsPlain ==
    ASSUME PromisesAreModelled, IssuesNormal, kind \in NormalKinds, CustodyInv, Next, ~resealed, ~resealed'
    PROVE  Plain(kind, held')
<1>1. /\ Plain(kind, held) /\ Parts(kind) = MCParts(kind) /\ Lists(kind) = MCLists(kind)
      /\ \A t \in Tags : Plain(kind, issued[t]) /\ DOMAIN held = DOMAIN issued[t]
  BY DEF CustodyInv, IssuesNormal, PromisesAreModelled, DigestKinds
<1>2. ASSUME NEW f \in DOMAIN held, Lose(f) PROVE Plain(kind, held')
  BY <1>1, <1>2, FieldPlain DEF Lose, Alter
<1>3. ASSUME NEW f \in DOMAIN held, NEW t \in Tags, MixIn(f, t) PROVE Plain(kind, held')
  BY <1>1, <1>3, FieldPlain DEF MixIn, Alter
<1>4. ASSUME NEW f \in Parts(kind), held[f] # NULL, NEW g \in DOMAIN held[f],
             LosePart(f, g) \/ \E t \in Tags : HasPart(t, f, g) /\ MixInPart(f, g, t)
      PROVE  Plain(kind, held')
  <2>1. PICK x : /\ held' = [held EXCEPT ![f] = [held[f] EXCEPT ![g] = x]]
                 /\ \/ x = NULL
                    \/ \E t \in Tags : HasPart(t, f, g) /\ x = issued[t][f][g]
    <3>1. CASE LosePart(f, g)
      BY <3>1 DEF LosePart, Alter
    <3>2. ASSUME NEW t \in Tags, HasPart(t, f, g), MixInPart(f, g, t)
          PROVE  held' = [held EXCEPT ![f] = [held[f] EXCEPT ![g] = issued[t][f][g]]]
      BY <3>2 DEF MixInPart, Alter
    <3> QED BY <1>4, <3>1, <3>2
  <2>2. CASE f \in DOMAIN held
    <3>1. \/ x = NULL
          \/ \E e : Plain(kind, e) /\ f \in DOMAIN e /\ e[f] # NULL /\ g \in DOMAIN e[f] /\ x = e[f][g]
      BY <1>1, <2>1, <2>2 DEF HasPart
    <3> QED BY <1>1, <1>4, <2>1, <2>2, <3>1, PartPlain
  <2>3. CASE f \notin DOMAIN held
    <3>1. DOMAIN held' = DOMAIN held /\ \A h \in DOMAIN held : held'[h] = held[h]
      BY <2>1, <2>3
    <3> QED BY <1>1, <3>1 DEF Plain
  <2> QED BY <2>2, <2>3
<1>5. ASSUME NEW f \in Lists(kind), Turn(f) PROVE Plain(kind, held')
  <2>1. held' = [held EXCEPT ![f] = Reverse(held[f])]
    BY <1>5 DEF Turn, Alter
  <2>2. f \notin MCParts(kind) /\ PlainField(kind, f, Reverse(held[f]))
    BY <1>1, <1>5, ListsArePlain
  <2>3. DOMAIN held' = DOMAIN held
        /\ \A h \in DOMAIN held : held'[h] = IF h = f THEN Reverse(held[f]) ELSE held[h]
    BY <2>1
  <2> QED BY <1>1, <2>2, <2>3 DEF Plain
<1>6. ASSUME NEW o, Verify(o) PROVE held' = held
  BY <1>6 DEF Verify
<1>7. ~Reissue
  BY DEF Reissue
<1> QED BY <1>1, <1>2, <1>3, <1>4, <1>5, <1>6, <1>7 DEF Next

\* The invariant of custody.
LEMMA CustodyInvariant ==
    ASSUME PromisesAreModelled, IssuesVerify, IssuesNormal
    PROVE  Spec => []CustodyInv
<1>1. Init => CustodyInv
  <2> SUFFICES ASSUME Init PROVE CustodyInv
    OBVIOUS
  <2>1. PICK t \in Tags : held = issued[t]
    BY DEF Init
  <2>2. kind \in Kinds /\ issued = [s \in Tags |-> Issue(kind, s)]
    BY DEF Init
  <2>3. kind \in DigestKinds => \A s \in Tags : DOMAIN held = DOMAIN issued[s]
    BY <2>1, <2>2 DEF IssuesVerify
  <2>4. SealIssued(held)
    BY <2>1 DEF SealIssued
  <2>5. kind \in NormalKinds => Plain(kind, held)
    BY <2>1, <2>2 DEF IssuesNormal
  <2> QED BY <2>2, <2>3, <2>4, <2>5 DEF CustodyInv
<1>2. CustodyInv /\ [Next]_vars => CustodyInv'
  <2> SUFFICES ASSUME CustodyInv, [Next]_vars PROVE CustodyInv'
    OBVIOUS
  <2>1. CASE UNCHANGED vars
    BY <2>1 DEF vars, CustodyInv, SealIssued, Plain
  <2>2. CASE Next
    <3>1. kind' = kind /\ issued' = issued /\ (resealed => resealed')
      <4>1. (\E doc : Alter(doc)) \/ Reissue \/ (\E o : Verify(o))
        BY <2>2, NextSplits
      <4> QED BY <4>1 DEF Alter, Reissue, Verify
    <3>2. ASSUME kind \in DigestKinds, ~resealed'
          PROVE  DOMAIN held' = DOMAIN held /\ SealIssued(held')
      <4>1. SealOf(kind) \in DOMAIN held /\ SealIssued(held)
        BY <3>1, <3>2 DEF CustodyInv, IssuesVerify, HasFields
      <4> QED BY <2>2, <3>2, <4>1, CustodyKeeps
    <3>3. ASSUME kind \in NormalKinds, ~resealed'
          PROVE  Plain(kind, held')
      BY <2>2, <3>1, <3>3, CustodyKeepsPlain
    <3>4. kind' \in Kinds /\ Tags # {} /\ issued' = [t \in Tags |-> Issue(kind', t)]
      BY <3>1 DEF CustodyInv
    <3>5. (kind' \in DigestKinds /\ ~resealed') =>
            (\A t \in Tags : DOMAIN held' = DOMAIN issued'[t]) /\ SealIssued(held)'
      BY <3>1, <3>2 DEF CustodyInv, SealIssued
    <3>6. (kind' \in NormalKinds /\ ~resealed') => Plain(kind, held)'
      BY <3>1, <3>3 DEF Plain
    <3> QED BY <3>4, <3>5, <3>6 DEF CustodyInv
  <2> QED BY <2>1, <2>2
<1> QED BY <1>1, <1>2, PTL DEF Spec

\* Whether a document has the fields of its kind is told by its fields alone.
LEMMA HasSameFields ==
    ASSUME NEW k, NEW d, NEW e, HasFields(k, d), DOMAIN d = DOMAIN e
    PROVE  HasFields(k, e)
BY DEF HasFields

\* The digest of an accepted tool manifest or memory commitment says of which case it is.
LEMMA CaseAccepted ==
    ASSUME NEW k \in {"tool_manifest", "memory_commitment"}, NEW d, NEW o, MCVerifies(k, d, o),
           HasFields(k, d)
    PROVE  d[SealOf(k)].present = (d.present = TRUE)
<1>1. k \in Conduct
  BY DEF Conduct
<1>2. VerifyConduct(k, d, o)
  BY <1>1, ClassesDisjoint DEF MCVerifies
<1>3. CASE k = "tool_manifest"
  BY <1>2, <1>3, ManifestCovers DEF VerifyConduct, SealOf
<1>4. CASE k = "memory_commitment"
  <2> DEFINE rest == [Without(d, {"commitment_digest"}) EXCEPT
                        !.absent_reason = Default(@, "no_episodic_store_bound"),
                        !.commitment_kind = Default(@, "episodic_store")]
  <2>1. d.commitment_digest = Bound(rest, MemoryPresent, MemoryAbsent)
    BY <1>2, <1>4 DEF VerifyConduct, verifyMemoryCommitment, buildMemoryCommitmentPreimage
  <2>2. "present" \notin MemoryPresent \cup MemoryAbsent /\ rest.present = d.present
    BY <1>4 DEF HasFields, Without, MemoryPresent, MemoryAbsent
  <2> HIDE DEF rest
  <2>3. FieldByField(d.commitment_digest, rest, MemoryPresent, MemoryAbsent)
    BY <2>1, <2>2, BoundField
  <2> QED BY <1>4, <2>2, <2>3 DEF SealOf, FieldByField
<1> QED BY <1>3, <1>4

\* A digest is computed once, over everything its verifier vouches for, as it is or in
\* normal form, and its verifier computes it again: of what custody lost and mixed in,
\* whoever issued what, no part of an accepted document is of another document (the
\* preimages and verify* of liability/ and core/).
THEOREM SealedTogether ==
    ASSUME VerifiersAreModelled, PromisesAreModelled, IssuesVerify, IssuesNormal, NullIsNoRecord
    PROVE  Spec => [](kind \in DigestKinds => AcceptedWasIssuedTogether)
<1>1. VerdictOfHeld /\ CustodyInv => (kind \in DigestKinds => AcceptedWasIssuedTogether)
  <2> SUFFICES ASSUME VerdictOfHeld, CustodyInv, kind \in DigestKinds, verdict = TRUE, ~resealed
               PROVE  \E t \in Tags : \A f \in DOMAIN Promised(kind, held) :
                        Left(f, Promised(kind, held)[f], Promised(kind, issued[t])[f])
    BY DEF AcceptedWasIssuedTogether
  <2> DEFINE n == SealOf(kind)
  <2>1. PICK o : MCVerifies(kind, held, o)
    BY NullAssumption DEF VerdictOfHeld, VerifiersAreModelled
  <2>2. /\ \A t \in Tags : DOMAIN held = DOMAIN issued[t]
        /\ held[n] \in {NULL} \cup {issued[t][n] : t \in Tags}
        /\ kind \in Kinds /\ \A t \in Tags : issued[t] = Issue(kind, t)
    BY DEF CustodyInv, SealIssued
  <2>3. \A t \in Tags : HasFields(kind, issued[t]) /\ \E p : MCVerifies(kind, issued[t], p)
    BY <2>2 DEF IssuesVerify
  <2>4. HasFields(kind, held)
    BY <2>2, <2>3, HasSameFields DEF CustodyInv
  <2>5. ASSUME NEW t \in Tags, held[n] = issued[t][n]
        PROVE  DOMAIN Promised(kind, held) = DOMAIN Promised(kind, issued[t])
    <3>1. ASSUME kind \in {"tool_manifest", "memory_commitment"}
          PROVE  (held.present = TRUE) = (issued[t].present = TRUE)
      <4>1. held[n].present = (held.present = TRUE)
        BY <2>1, <2>4, <3>1, CaseAccepted
      <4>2. issued[t][n].present = (issued[t].present = TRUE)
        BY <2>3, <3>1, CaseAccepted
      <4> QED BY <2>5, <4>1, <4>2
    <3> QED BY <2>2, <3>1, SameFields DEF PromisesAreModelled
  <2>6. CASE kind \in SealedKinds
    <3>1. Covers(n, held, Promised(kind, held))
      BY <2>1, <2>4, <2>6, AcceptedIsCovered DEF PromisesAreModelled
    <3>2. PICK t \in Tags : held[n] = issued[t][n]
      BY <2>2, <3>1, CoveredNotNull
    <3>3. Covers(n, issued[t], Promised(kind, issued[t]))
      BY <2>3, <2>6, AcceptedIsCovered DEF PromisesAreModelled
    <3>4. \A f \in DOMAIN Promised(kind, held) : Promised(kind, held)[f] = Promised(kind, issued[t])[f]
      BY <2>5, <3>1, <3>2, <3>3, CoveredAgree
    <3> QED BY <3>4 DEF Left
  <2>7. CASE kind \in NormalKinds
    <3>1. Tells(kind, n, held, Promised(kind, held))
      BY <2>1, <2>4, <2>7, AcceptedIsTold DEF CustodyInv, PromisesAreModelled
    <3>2. held[n] # NULL
      BY <3>1, RecordIsThere DEF Tells
    <3>3. PICK t \in Tags : held[n] = issued[t][n]
      BY <2>2, <3>2
    <3>4. ASSUME NEW f \in DOMAIN Promised(kind, held)
          PROVE  Left(f, Promised(kind, held)[f], Promised(kind, issued[t])[f])
      <4>1. Told(kind, f, Promised(kind, held)[f], InDigest(n, held, f))
        BY <3>1, <3>4 DEF Tells
      <4>2. InDigest(n, held, f) = InDigest(n, issued[t], f)
        BY <3>3 DEF InDigest
      <4>3. f \in DOMAIN Promised(kind, issued[t])
        BY <2>5, <3>3, <3>4
      <4>4. Shown(kind, f, InDigest(n, issued[t], f), Promised(kind, issued[t])[f])
        BY <2>2, <2>7, <4>3 DEF IssuesNormal, PromisesAreModelled
      <4> QED BY <4>1, <4>2, <4>4, ToldIsLeft DEF PromisesAreModelled
    <3> QED BY <3>4
  <2> QED BY <2>6, <2>7 DEF DigestKinds
<1> QED BY <1>1, VerdictInvariant, CustodyInvariant, PTL

-----------------------------------------------------------------------------
(* Types *)

\* The issues of a kind have the same fields, a producer that seals a document again
\* adds none and takes none away, and a verifier answers yes or no.
DocumentsAreAlike ==
    \A k \in Kinds :
      /\ \A s, t \in Tags : DOMAIN Issue(k, s) = DOMAIN Issue(k, t)
      /\ \A d : (\A t \in Tags : DOMAIN d = DOMAIN Issue(k, t)) => DOMAIN Reseal(k, d) = DOMAIN d
      /\ \A d, o : Verifies(k, d, o) \in BOOLEAN

\* No step adds a field to the document or takes one away.
LEMMA FieldsStay ==
    ASSUME Next, ~Reissue
    PROVE  DOMAIN held' = DOMAIN held
<1>1. ASSUME NEW f, Lose(f) \/ (\E t \in Tags : MixIn(f, t)) \/ Turn(f)
      PROVE  \E v : held' = [held EXCEPT ![f] = v]
  BY <1>1 DEF Lose, MixIn, Turn, Alter
<1>2. ASSUME NEW f, NEW g, LosePart(f, g) \/ (\E t \in Tags : MixInPart(f, g, t))
      PROVE  \E v : held' = [held EXCEPT ![f] = v]
  BY <1>2 DEF LosePart, MixInPart, Alter
<1>3. (\E f, v : held' = [held EXCEPT ![f] = v]) \/ held' = held
  BY <1>1, <1>2 DEF Next, Verify
<1> QED BY <1>3

\* Whatever custody does and whoever seals it again, a document keeps the fields of the
\* issues of its kind, faults stay within their bound and a verdict is yes, no or not yet
\* given (the verify* of liability/ read the fields by name).
THEOREM TypeCorrect == ASSUME DocumentsAreAlike PROVE Spec => []TypeOK
<1> DEFINE Inv == TypeOK /\ issued = [t \in Tags |-> Issue(kind, t)]
<1>1. Init => Inv
  <2> SUFFICES ASSUME Init PROVE Inv
    OBVIOUS
  <2>1. kind \in Kinds /\ issued = [t \in Tags |-> Issue(kind, t)] /\ \E t \in Tags : held = issued[t]
    BY DEF Init
  <2>2. \A t \in Tags : DOMAIN held = DOMAIN issued[t]
    BY <2>1 DEF DocumentsAreAlike
  <2>3. faults \in 0..MaxFaults /\ resealed \in BOOLEAN /\ verdict \in BOOLEAN \cup {NULL}
    <3>1. 0 \in 0..MaxFaults
      BY EvidenceCustodyAssumption
    <3>2. faults = 0 /\ resealed = FALSE /\ verdict = NULL
      BY DEF Init
    <3> QED BY <3>1, <3>2
  <2>4. DOMAIN issued = Tags
    BY <2>1
  <2> QED BY <2>1, <2>2, <2>3, <2>4 DEF TypeOK
<1>2. Inv /\ [Next]_vars => Inv'
  <2> SUFFICES ASSUME Inv, [Next]_vars PROVE Inv'
    OBVIOUS
  <2>1. CASE UNCHANGED vars
    BY <2>1 DEF vars, TypeOK
  <2>2. CASE Next
    <3>1. /\ kind' = kind /\ issued' = issued
          /\ faults' \in 0..MaxFaults /\ resealed' \in BOOLEAN
          /\ verdict' \in BOOLEAN \cup {NULL}
      <4>1. CASE \E doc : Alter(doc)
        BY <4>1, EvidenceCustodyAssumption DEF Alter, TypeOK
      <4>2. CASE Reissue
        BY <4>2 DEF Reissue, TypeOK
      <4>3. CASE \E o : Verify(o)
        BY <4>3 DEF Verify, TypeOK, DocumentsAreAlike
      <4> QED BY <2>2, <4>1, <4>2, <4>3, NextSplits
    <3>2. DOMAIN held' = DOMAIN held
      <4>1. CASE Reissue
        BY <4>1 DEF Reissue, TypeOK, DocumentsAreAlike
      <4> QED BY <2>2, <4>1, FieldsStay
    <3> QED BY <3>1, <3>2 DEF TypeOK
  <2> QED BY <2>1, <2>2
<1> QED BY <1>1, <1>2, PTL DEF Spec

==============================================================================
