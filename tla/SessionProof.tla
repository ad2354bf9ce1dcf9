---------------------------- MODULE SessionProof ----------------------------
(***************************************************************************)
(* verifySessionProof (liability/sessionProofVerify.ts): the offline       *)
(* verification of a CAP session bundle.  It verifies the manifest, the    *)
(* terminal receipt, its partial path and the bundled receipts, rolls up   *)
(* enforcement and builds the composition closure.                         *)
(*                                                                         *)
(* A bundle is [session_id, manifest, terminal_receipt, member_receipts    *)
(* (<<>> when absent), policy_proof, manifest_custodian,                   *)
(* constraint_closure, channel_provenance], the last four NULL when        *)
(* absent.  A policy proof is reduced to whether verifyPolicyProofBundle   *)
(* accepts it, a constraint closure to [session_id,                        *)
(* recomposition_result] with a matching digest.  requireCustodian and     *)
(* requireTerminalReceipt keep their defaults.                             *)
(***************************************************************************)
EXTENDS CompositionClosure, CapabilityBudget

-----------------------------------------------------------------------------
(* Binding of permits to executions (policy/permitExecutionBinding.js): the
   block a partial path commits to, its alignment with the path's steps and
   with the bundled receipts, and the custodian's commitment to a manifest.  A
   digest is its preimage and is present or NULL; its format is not modelled. *)

stepBindings(steps) ==
    [ i \in DOMAIN steps |->
        [ index |-> steps[i].index, tool_name |-> steps[i].tool_name,
          args_digest |-> steps[i].args_digest,
          binding_digest |-> steps[i].binding_digest ] ]

buildPermitExecutionCommitment(steps) ==
    [ step_bindings |-> stepBindings(steps), binding_state_hash |-> stepBindings(steps) ]

verifyPermitExecutionCommitment(block) ==
    block.binding_state_hash = block.step_bindings

\* Each binding points at a step of the path and repeats its two digests; a
\* step no binding points at is not missed.
verifyPartialStepsPermitExecution(steps, block) ==
    steps # <<>> /\ block # NULL =>
      /\ verifyPermitExecutionCommitment(block)
      /\ \A k \in DOMAIN block.step_bindings :
           LET binding == block.step_bindings[k]
           IN /\ binding.index + 1 \in DOMAIN steps
              /\ steps[binding.index + 1].args_digest = binding.args_digest
              /\ steps[binding.index + 1].binding_digest = binding.binding_digest

\* The i-th receipt and the i-th step of the path name the same arguments.
verifyMemberReceiptsArgsAlignment(steps, members) ==
    \A i \in DOMAIN members :
       members[i] # NULL /\ members[i].args_digest # NULL =>
         /\ i \in DOMAIN steps
         /\ steps[i].args_digest \in {NULL, members[i].args_digest}

CustodianPreimage(c) == << c.session_id, c.set_root, c.witness_entry_hash >>

buildManifestCustodianCommitment(sessionId, setRoot, witnessEntryHash) ==
    [ session_id |-> sessionId, set_root |-> setRoot,
      witness_entry_hash |-> witnessEntryHash,
      custodian_digest |-> << sessionId, setRoot, witnessEntryHash >> ]

verifyManifestCustodianCommitment(block, setRoot, sessionId, witnessEntryHash) ==
    /\ block.custodian_digest = CustodianPreimage(block)
    /\ block.set_root = setRoot
    /\ block.session_id = sessionId
    /\ witnessEntryHash # NULL => block.witness_entry_hash = witnessEntryHash

-----------------------------------------------------------------------------
(* The session proof *)

\* The parser rebuilds the bundle from the fields it knows, and these two are
\* not among them.
parseBundle(data) ==
    [data EXCEPT !.constraint_closure = NULL, !.channel_provenance = NULL]

\* Mutant: compares the receipt with the manifest only.
MutantSessionAligned(bundle) ==
    bundle.terminal_receipt.session_id \in {NULL, bundle.manifest.session_id}

sessionIdAligned(bundle) ==
    /\ bundle.session_id = bundle.manifest.session_id
    /\ bundle.terminal_receipt.session_id \in {NULL, bundle.session_id}

checkPartialPathMembersAligned(manifest, terminal) ==
    LET path == terminal.partial_path
        sorted == sortedMembers(manifest.members)
    IN /\ path # NULL
       /\ verifyPartialPathCommitment(path)
       /\ Len(path.partial_steps) = Len(sorted)
       /\ \A i \in DOMAIN sorted :
            path.partial_steps[i].entry_hash # NULL /\ sorted[i].entry_hash # NULL
              => path.partial_steps[i].entry_hash = sorted[i].entry_hash

capabilityBudgetValid(path) ==
    path # NULL /\ path.capability_budget # NULL
      => verifyCapabilityBudgetCommitment(path.capability_budget)

capabilityMonotonic(path) ==
    path # NULL => verifyBudgetMonotonicityFromPartialSteps(path.partial_steps)

permitExecutionValid(path) ==
    path # NULL =>
      /\ path.permit_execution # NULL => verifyPermitExecutionCommitment(path.permit_execution)
      /\ verifyPartialStepsPermitExecution(path.partial_steps, path.permit_execution)

memberArgsAligned(path, members) ==
    path # NULL => verifyMemberReceiptsArgsAlignment(path.partial_steps, members)

manifestCustodianValid(bundle) ==
    bundle.manifest_custodian # NULL =>
      verifyManifestCustodianCommitment(bundle.manifest_custodian, bundle.manifest.set_root,
        bundle.manifest.session_id, bundle.terminal_receipt.entry_hash)

\* The hops whose bundled receipt verifies and has the manifest's digest; none
\* when the number of receipts is not the declared one.
verifiedByHop(manifest, members, options) ==
    LET sorted == sortedMembers(manifest.members)
        expected(i) == IF i \in DOMAIN sorted THEN sorted[i].receipt_digest ELSE NULL
    IN IF Len(members) # manifest.declared_count THEN {}
       ELSE {i - 1 : i \in {j \in DOMAIN members :
                              /\ members[j] # NULL
                              /\ verifyReceipt(members[j], options)
                              /\ expected(j) \in {NULL, members[j].receipt_digest}}}

verifyMemberReceipts(manifest, members, options) ==
    /\ Len(members) = manifest.declared_count
    /\ verifiedByHop(manifest, members, options) = {i - 1 : i \in DOMAIN members}

\* Manifest rows that carry a disclosure digest find it in the receipt.
verifyManifestMemberDisclosureDigests(manifest, members) ==
    LET sorted == sortedMembers(manifest.members)
    IN \A i \in DOMAIN sorted :
         sorted[i].proof_strength_disclosure_digest # NULL =>
           /\ i \in DOMAIN members
           /\ members[i] # NULL
           /\ members[i].proof_strength_disclosure_digest
                = sorted[i].proof_strength_disclosure_digest
           /\ verifyProofStrengthDisclosureReceiptBinding(members[i])

memberReceiptsVerified(bundle, options) ==
    /\ options.requireMemberReceipts \/ bundle.member_receipts # <<>> =>
         verifyMemberReceipts(bundle.manifest, bundle.member_receipts, options)
    /\ bundle.member_receipts # <<>> =>
         verifyManifestMemberDisclosureDigests(bundle.manifest, bundle.member_receipts)

policyProofValid(bundle, options) ==
    options.requirePolicyProof \/ bundle.policy_proof # NULL => bundle.policy_proof = "verifies"

verifyConstraintClosureBundle(closure, requirePass) ==
    requirePass => closure.recomposition_result = "PASS"

constraintClosureValid(bundle, options) ==
    options.requireConstraintClosure \/ bundle.constraint_closure # NULL =>
      /\ bundle.constraint_closure # NULL
      /\ verifyConstraintClosureBundle(bundle.constraint_closure,
                                       options.requireConstraintClosure)
      /\ bundle.constraint_closure.session_id \in {NULL, bundle.session_id}

setCompletenessOk(bundle, options) ==
    verifySetCompletenessBundle(bundle.manifest, bundle.terminal_receipt,
                                options.requirePartialPathAlignment)

structuralProofComplete(bundle, options) ==
    LET path == bundle.terminal_receipt.partial_path
    IN /\ sessionIdAligned(bundle)
       /\ setCompletenessOk(bundle, options)
       /\ verifyReceipt(bundle.terminal_receipt, options)
       /\ checkPartialPathMembersAligned(bundle.manifest, bundle.terminal_receipt)
       /\ capabilityBudgetValid(path)
       /\ capabilityMonotonic(path)
       /\ permitExecutionValid(path)
       /\ memberArgsAligned(path, bundle.member_receipts)
       /\ manifestCustodianValid(bundle)
       /\ memberReceiptsVerified(bundle, options)
       /\ policyProofValid(bundle, options)
       /\ constraintClosureValid(bundle, options)

\* The hops the closure may count as verified: none is looked at unless
\* receipts came along.
verifiedHops(bundle, options) ==
    IF bundle.member_receipts = <<>> THEN {}
    ELSE verifiedByHop(bundle.manifest, bundle.member_receipts, options)

sessionChainEnforcement(bundle, options) ==
    LET path == bundle.terminal_receipt.partial_path
        steps == IF path = NULL THEN <<>> ELSE path.partial_steps
    IN IF bundle.member_receipts = <<>> /\ steps = <<>> THEN NULL
       ELSE rollupChainEnforcement(bundle.member_receipts, steps,
              verifiedHops(bundle, options), bundle.manifest.members)

sessionCompositionClosure(bundle, options) ==
    LET chain == sessionChainEnforcement(bundle, options)
        complete == setCompletenessOk(bundle, options)
        delegated == IF bundle.channel_provenance = NULL THEN {} ELSE bundle.channel_provenance
    IN IF ~complete /\ chain = NULL THEN NULL
       ELSE buildSessionCompositionClosure(complete, bundle.manifest,
              bundle.member_receipts, verifiedHops(bundle, options), chain,
              buildSessionProofExportHints(bundle.manifest.declared_count,
                                           bundle.member_receipts),
              delegated)

verifySessionProof(data, options) ==
    LET bundle == parseBundle(data)
        closure == sessionCompositionClosure(bundle, options)
    IN [ ok |-> /\ structuralProofComplete(bundle, options)
                /\ closure.closure_verdict # "digest_only_submission",
         composition_closure |-> closure,
         closure_ship_gate |-> evaluateClosureShipGate(closure) ]
=============================================================================
