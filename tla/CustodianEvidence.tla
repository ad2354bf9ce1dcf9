------------------------- MODULE CustodianEvidence -------------------------
(***************************************************************************)
(* A receipt in the hands of others than its issuer: the profile of a      *)
(* denial, the prove bundle with its cosigners, the evidence custodian,    *)
(* the bundle of an independent guardian with its witnesses and monitor,   *)
(* and a host's conformance report bound to them.  What verifyReceipt      *)
(* checks is modelled in LiabilityReceipt; here a receipt is sound when    *)
(* its entry hash is that of its sealed fields.                            *)
(***************************************************************************)
EXTENDS ConductEvidence

-----------------------------------------------------------------------------
(* The profile of a denial *)

isDeniedReceiptProfile(receipt) == receipt.receipt_profile = "DENIED"

validateDeniedReceiptProfile(receipt) ==
    isDeniedReceiptProfile(receipt) =>
      /\ receipt.outcome = "blocked" /\ receipt.decision = "deny"
      /\ receipt.pre_execution = TRUE /\ receipt.execution_occurred = FALSE
      /\ receipt.blocked_reason # NULL

\* The alignment is added after the receipt is sealed: it names its entry hash.
validateScittRefusalAlignment(receipt) ==
    isDeniedReceiptProfile(receipt) =>
      /\ receipt.refusal_alignment # NULL
      /\ receipt.refusal_alignment.scitt_event_type = "refusal"
      /\ receipt.refusal_alignment.kovera_receipt_profile = "DENIED"
      /\ receipt.refusal_alignment.evidence_hash # NULL
      /\ receipt.entry_hash # NULL => receipt.refusal_alignment.evidence_hash = receipt.entry_hash

-----------------------------------------------------------------------------
(* Prove bundle and evidence custodian *)

ReceiptSound(receipt) == receipt.entry_hash = Without(receipt, {"entry_hash", "refusal_alignment"})

NoProveOptions ==
    [entryHash |-> NULL, gatewayDecision |-> NULL, gatewayFragment |-> NULL,
     receiverFragment |-> NULL, scittWitness |-> NULL, requireWitnessCosign |-> FALSE,
     requireGatewayCosign |-> FALSE, requireReceiverCosign |-> FALSE, requireScitt |-> FALSE]

\* The event hash of a decision is over the decision.
computeGatewayEventHash(gatewayDecision) == gatewayDecision

verifyCosignFragmentStructure(fragment, entryHash, party) ==
    fragment # NULL /\ fragment.receipt_digest = entryHash /\ fragment.party = party

ExpectedEntryHash(receipt, o) == Default(o.entryHash, receipt.entry_hash)

GatewayCosigned(receipt, o) ==
    verifyCosignFragmentStructure(o.gatewayFragment, ExpectedEntryHash(receipt, o), "gateway")

\* A stamped event hash needs the decision it is of: without it nothing matches.
GatewayBound(receipt, o) ==
    /\ o.gatewayDecision # NULL
    /\ receipt.gateway_attestation.gateway_event_hash = computeGatewayEventHash(o.gatewayDecision)
    /\ ExpectedEntryHash(receipt, o) = receipt.entry_hash

\* Mutant: the cosigners are checked, the receipt they signed is not.
MutantVerifyProveBundle(receipt, o) ==
    /\ receipt.gateway_attestation # NULL => GatewayBound(receipt, o)
    /\ o.requireWitnessCosign => GatewayCosigned(receipt, o)

\* Requiring one party's cosign requires both.
verifyProveBundle(receipt, o) ==
    LET receiver == verifyCosignFragmentStructure(o.receiverFragment,
                                                  ExpectedEntryHash(receipt, o), "receiver")
    IN /\ ReceiptSound(receipt)
       /\ ExpectedEntryHash(receipt, o) # NULL
       /\ receipt.gateway_attestation # NULL => GatewayBound(receipt, o)
       /\ o.requireWitnessCosign => GatewayCosigned(receipt, o)
       /\ (o.requireGatewayCosign \/ o.requireReceiverCosign) =>
            GatewayCosigned(receipt, o) /\ receiver
       /\ validateScittRefusalAlignment(receipt)
       /\ (o.requireScitt /\ isDeniedReceiptProfile(receipt)) =>
            /\ o.scittWitness # NULL
            /\ o.scittWitness.witnessed = TRUE /\ o.scittWitness.statement_type = "refusal"

\* The decision must be a guardian's, whose source the receipt names.
verifyEvidenceCustodianBundle(receipt, o) ==
    /\ verifyProveBundle(receipt, o)
    /\ receipt.gateway_attestation # NULL
    /\ receipt.gateway_attestation.gateway_source # NULL

-----------------------------------------------------------------------------
(* Witnesses of different logs and operators; the monitor of a log *)

\* proof.operator_id || proof.org_id || proof.log_id
resolveWitnessOperatorId(proof) == First(proof, <<"operator_id", "org_id", "log_id">>)

countDistinctWitnessLogs(proofs) == Cardinality({p.log_id : p \in proofs} \ {NULL})
countDistinctWitnessOperators(proofs) ==
    Cardinality({resolveWitnessOperatorId(p) : p \in proofs} \ {NULL})

WitnessCounts(proofs, minLogs, minOperators) ==
    LET logs == countDistinctWitnessLogs(proofs)
        operators == countDistinctWitnessOperators(proofs)
    IN [log_count |-> logs, operator_count |-> operators,
        diversity_met |-> logs >= minLogs /\ operators >= minOperators]

buildWitnessDiversityBlock(proofs) ==
    WitnessCounts(proofs, 2, 2)
    @@ [inclusion_proofs |-> proofs, min_logs_required |-> 2, min_operators_required |-> 2]

\* The bar the block states for itself is the bar it is held to.
verifyWitnessDiversityBlock(block, requireDiversityMet) ==
    LET proofs == Items(block.inclusion_proofs)
        counts == WitnessCounts(proofs, Default(block.min_logs_required, 2),
                                Default(block.min_operators_required, 2))
    IN /\ proofs # {}
       /\ \A p \in proofs : Present(p, {"log_id", "entry_index", "root_hash"})
       /\ \A f \in DOMAIN counts : block[f] = counts[f]
       /\ requireDiversityMet => counts.diversity_met

\* The list of digests under one root: how many they are is compared with the
\* range, which of the log's entries they are is not.
verifyWitnessConsistencyProof(proof, entryDigests) ==
    LET digests == SelectSeq(entryDigests, LAMBDA d : d # NULL) IN
    /\ Present(proof, {"from_index", "to_index"})
    /\ proof.from_index <= proof.to_index
    /\ proof.entry_count = (proof.to_index - proof.from_index) + 1
    /\ Len(digests) = proof.entry_count
    /\ proof.root_hash = digests

MonitorStates == {"healthy", "degraded", "unavailable"}

buildTransparencyLogMonitorAttestationDocument(input) == Seal(input, "attestation_digest")

\* monitor_assertions says the proof verified; it is verified again here.
verifyTransparencyLogMonitorAttestation(doc, entryDigests, requireHealthyState) ==
    /\ Present(doc, {"log_id", "generated_at", "consistency_proof", "monitor_assertions"})
    /\ doc.monitor_state \in MonitorStates
    /\ List(entryDigests) # <<>>
    /\ verifyWitnessConsistencyProof(doc.consistency_proof, entryDigests)
    /\ requireHealthyState => doc.monitor_state = "healthy"
    /\ Sealed(doc, "attestation_digest")

-----------------------------------------------------------------------------
(* The bundle of an independent guardian *)

INDEPENDENT_GUARDIAN_BUNDLE_MODES == {"dual_profile", "custodian_only", "denied_only"}

\* The receipts themselves are not under the digest: their entry hashes are.
buildIndependentGuardianBundlePreimage(input) ==
    [input EXCEPT !.members = {Only(m, {"member_id", "entry_hash", "receipt_profile"}) : m \in @}]

buildIndependentGuardianBundleDocument(input) ==
    input @@ [bundle_digest |-> buildIndependentGuardianBundlePreimage(input)]

\* What the verifier knows of a member: the decision and the witness; nothing else.
resolveMemberContext(member, contexts) ==
    IF member.member_id \in DOMAIN contexts THEN contexts[member.member_id] ELSE NoProveOptions

verifyMember(member, contexts, requireCustodianWitness) ==
    LET o == [resolveMemberContext(member, contexts) EXCEPT !.entryHash = Default(@, member.entry_hash)]
        denied == CASE member.receipt_profile = "DENIED" -> TRUE
                    [] member.receipt_profile = "PERMITTED" -> FALSE
                    [] OTHER -> member.receipt # NULL /\ isDeniedReceiptProfile(member.receipt)
    IN /\ member.receipt # NULL
       /\ IF denied
          THEN /\ validateDeniedReceiptProfile(member.receipt)
               /\ verifyProveBundle(member.receipt, [o EXCEPT !.requireWitnessCosign = FALSE])
          ELSE verifyEvidenceCustodianBundle(
                 member.receipt, [o EXCEPT !.requireWitnessCosign = requireCustodianWitness])

\* o: memberContexts, requireCustodianWitness, requireWitnessDiversity,
\* requireMonitorAttestation, entryDigests.
verifyIndependentGuardianBundle(doc, o) ==
    LET members == Items(doc.members)
        ok(m) == verifyMember(m, o.memberContexts, o.requireCustodianWitness)
        some(profile) == \E m \in members : m.receipt_profile = profile /\ ok(m)
    IN /\ Present(doc, {"organization_id", "bundle_id", "exported_at", "verify_manifest"})
       /\ doc.bundle_mode \in INDEPENDENT_GUARDIAN_BUNDLE_MODES
       /\ members # {}
       /\ doc.bundle_digest = buildIndependentGuardianBundlePreimage(Without(doc, {"bundle_digest"}))
       /\ \A m \in members : Present(m, {"entry_hash", "member_id"}) /\ ok(m)
       /\ doc.bundle_mode \in {"dual_profile", "denied_only"} => some("DENIED")
       /\ doc.bundle_mode \in {"dual_profile", "custodian_only"} => some("PERMITTED")
       /\ IF doc.witness_diversity = NULL THEN ~o.requireWitnessDiversity
          ELSE verifyWitnessDiversityBlock(doc.witness_diversity, o.requireWitnessDiversity)
       /\ IF doc.monitor_attestation = NULL THEN ~o.requireMonitorAttestation
          ELSE verifyTransparencyLogMonitorAttestation(doc.monitor_attestation, o.entryDigests,
                                                       o.requireMonitorAttestation)

-----------------------------------------------------------------------------
(* A host's conformance report, bound to conduct and guardian *)

HOST_CONFORMANCE_ADAPTER_IDS == {"agent_hooks", "microsoft_agt", "generic"}

\* An outcome that is neither a failure nor skipped is a pass, none at all too.
summarizeScenarios(scenarios) ==
    [k \in DOMAIN scenarios |->
       CASE scenarios[k] \in {"fail", "failed", "error"} -> "fail"
         [] scenarios[k] \in {"skip", "skipped"} -> "skip"
         [] OTHER -> "pass"]

ReportEnvelope(adapter, raw, scenarios, id, at, version, profile) ==
    LET results == summarizeScenarios(List(scenarios))
        count(r) == Cardinality({k \in DOMAIN results : results[k] = r})
    IN [host_adapter_id |-> adapter, report_id |-> First(raw, id), evaluated_at |-> First(raw, at),
        host_version_digest |-> Default(First(raw, version), "1.0.0"),
        scenario_count |-> IF results = <<>> THEN Default(Get(raw, "scenario_count"), 0) ELSE Len(results),
        scenarios_passed |-> count("pass"), scenarios_failed |-> count("fail"),
        enforcement_profile_digest |-> Default(First(raw, profile), "default")]

normalizeAgentHooksConformanceReport(raw) ==
    ReportEnvelope("agent_hooks", raw, Get(raw, "scenarios"),
      <<"report_id", "conformance_report_id">>, <<"evaluated_at", "generated_at">>,
      <<"host_version", "hooks_version", "runtime_version">>,
      <<"enforcement_profile_digest", "enforcement_profile_ref", "profile_id">>)

normalizeMicrosoftAgtConformanceReport(raw) ==
    ReportEnvelope("microsoft_agt", raw, First(raw, <<"scenarios", "conformance_scenarios">>),
      <<"report_id", "agt_report_id">>, <<"evaluated_at", "report_generated_at">>,
      <<"agt_version", "host_version">>, <<"enforcement_profile_digest", "enforcement_profile">>)

coerceHostConformanceReport(raw, adapterHint) ==
    IF "microsoft_agt" \in {Get(raw, "schema"), adapterHint, Get(raw, "host_adapter_id")}
    THEN normalizeMicrosoftAgtConformanceReport(raw)
    ELSE normalizeAgentHooksConformanceReport(raw)

ReportFields ==
    {"host_adapter_id", "report_id", "evaluated_at", "host_version_digest", "scenario_count",
     "scenarios_passed", "scenarios_failed", "enforcement_profile_digest"}

buildHostConformanceReportDigest(envelope) == Only(envelope, ReportFields)

AllScenariosPassed(r) ==
    r.scenarios_failed = 0 /\ r.scenario_count # 0 /\ r.scenarios_passed = r.scenario_count

resolveHostMemberDocumentDigest(name, docs) ==
    CASE docs[name] = NULL -> NULL
      [] docs[name] # NULL /\ name = "agt_conduct_receipt" -> docs[name].receipt_digest
      [] OTHER -> docs[name].bundle_digest

HostMembers == {"agt_conduct_receipt", "independent_guardian_bundle"}

\* refs: per member schema, what the composer said of it: [member_digest, verify_ok].
buildHostConformanceBindFromReport(envelope, input) ==
    LET docs == input.member_documents
        digest(name) == resolveHostMemberDocumentDigest(name, docs)
        linked(name) == digest(name) # NULL /\ input.composed_members[name].verify_ok = TRUE
        agt == linked("agt_conduct_receipt")
        guardian == linked("independent_guardian_bundle")
        preimage ==
          Only(envelope, ReportFields) @@ Only(input, {"organization_id", "session_id", "generated_at",
                                                       "composed_members"})
          @@ [report_digest |-> buildHostConformanceReportDigest(envelope),
              host_session_binding |->
                [session_id |-> input.session_id,
                 report_digest |-> buildHostConformanceReportDigest(envelope),
                 agt_receipt_digest |-> digest("agt_conduct_receipt"),
                 guardian_bundle_digest |-> digest("independent_guardian_bundle"),
                 normalization_bound |-> TRUE],
              conformance_assertions |->
                [third_party_verifiable |-> TRUE, all_scenarios_passed |-> AllScenariosPassed(envelope),
                 agt_conduct_linked |-> agt, guardian_linked |-> guardian,
                 conformance_readiness |->
                   CASE AllScenariosPassed(envelope) /\ agt /\ guardian -> "hooks_conformance_ready"
                     [] agt /\ ~(AllScenariosPassed(envelope) /\ guardian) -> "partial"
                     [] OTHER -> "unverified"]]
    IN Seal(preimage, "bind_digest") @@ [member_documents |-> docs]

verifyEmbeddedMember(name, doc, guardianOptions) ==
    IF name = "agt_conduct_receipt" THEN verifyAgtConductReceipt(doc)
    ELSE verifyIndependentGuardianBundle(doc, guardianOptions)

\* The members are verified again; a reference to one must carry its digest and
\* may not call it verified when it is not.
verifyHostConformanceBind(doc, guardianOptions) ==
    LET docs == doc.member_documents
        digest(name) == resolveHostMemberDocumentDigest(name, docs)
        ok(name) == docs[name] # NULL /\ verifyEmbeddedMember(name, docs[name], guardianOptions)
        binding == doc.host_session_binding
        a == doc.conformance_assertions
    IN /\ Present(doc, {"organization_id", "session_id", "report_id", "evaluated_at", "generated_at",
                        "report_digest", "host_version_digest", "enforcement_profile_digest",
                        "member_documents", "host_session_binding", "conformance_assertions",
                        "composed_members"})
       /\ doc.host_adapter_id \in HOST_CONFORMANCE_ADAPTER_IDS
       /\ doc.report_digest = buildHostConformanceReportDigest(doc)
       /\ binding.report_digest = doc.report_digest
       /\ binding.agt_receipt_digest = digest("agt_conduct_receipt")
       /\ binding.guardian_bundle_digest = digest("independent_guardian_bundle")
       /\ \A name \in {n \in DOMAIN doc.composed_members : doc.composed_members[n] # NULL} :
            LET ref == doc.composed_members[name] IN
            /\ digest(name) # NULL => ref.member_digest = digest(name)
            /\ (ref.verify_ok = TRUE /\ docs[name] # NULL) => ok(name)
       /\ a.third_party_verifiable = TRUE
       /\ a.conformance_readiness \in {"hooks_conformance_ready", "partial"} =>
            ok("agt_conduct_receipt") /\ binding.normalization_bound = TRUE
       /\ a.conformance_readiness = "hooks_conformance_ready" =>
            /\ \A f \in {"all_scenarios_passed", "agt_conduct_linked", "guardian_linked"} : a[f] = TRUE
            /\ AllScenariosPassed(doc) /\ ok("independent_guardian_bundle")
       /\ doc.bind_digest = Without(doc, {"bind_digest", "member_documents"})

-----------------------------------------------------------------------------
(* What a session promised at its start, asked of the state it ended in *)

compareConstraint(op, actual, expected) ==
    /\ actual # NULL
    /\ CASE op = "eq" -> actual = expected [] op = "lte" -> actual <= expected
         [] op = "gte" -> actual >= expected [] op = "lt" -> actual < expected
         [] op = "gt" -> actual > expected [] op = "in" -> actual \in expected

\* genesis_constraints: a set of [id, op, value]; terminal_state: a record by id.
evaluateConstraintClosure(input) ==
    LET constraints == {c \in Items(input.genesis_constraints) : c.id # NULL}
        failed == {c.id : c \in {d \in constraints :
                     ~compareConstraint(d.op, Get(input.terminal_state, d.id), d.value)}}
        found == [recomposition_result |-> IF failed = {} THEN "PASS" ELSE "FAIL",
                  failed_constraints |-> failed, terminal_state_digest |-> input.terminal_state,
                  session_id |-> input.session_id, genesis_constraints |-> constraints,
                  evaluated_at_edge |-> Default(input.evaluated_at_edge, 5)]
    IN Seal(found, "closure_digest")

buildConstraintClosureDocument(input) ==
    Without(evaluateConstraintClosure(input), {"genesis_constraints"}) @@ input

verifyConstraintClosureBundle(doc, requirePass) ==
    /\ doc.session_id # NULL
    /\ \E c \in Items(doc.genesis_constraints) : c.id # NULL
    /\ doc.terminal_state # NULL /\ DOMAIN doc.terminal_state # {}
    /\ LET evaluated == evaluateConstraintClosure(doc) IN
       /\ doc.closure_digest = evaluated.closure_digest
       /\ doc.recomposition_result = evaluated.recomposition_result
       /\ requirePass => evaluated.recomposition_result = "PASS"
=============================================================================
