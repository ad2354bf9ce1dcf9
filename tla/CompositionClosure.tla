------------------------- MODULE CompositionClosure -------------------------
(***************************************************************************)
(* The composition closure of a CAP export and the gates that read it      *)
(* (liability/sessionCompositionClosure.ts, sessionProofExportHints.ts,    *)
(* capExportGatePolicy.ts, capExportCarrierHandoff.ts).  The closure says, *)
(* hop by hop, which receipts are there and verified, and sums it up in a  *)
(* verdict; the ship gate and the carrier handoff are computed from the    *)
(* closure alone.                                                          *)
(*                                                                         *)
(* The manifest's digests are never missing here, so no hop is 'absent'.   *)
(* Notes and guidance are left out.  delegated is the set of delegated     *)
(* channel sources bound by digest only, {} without provenance.            *)
(***************************************************************************)
EXTENDS LiabilityReceipt, Naturals, FiniteSets

-----------------------------------------------------------------------------
(* The set-completeness manifest of a session (liability/
   setCompletenessVerify.ts): it declares how many receipts the session has and
   binds their digests under one set_root.  The verifier accepts members in any
   order and sorts them by step_index wherever it needs positions.  Positions
   are 1-based here and step indices 0-based.

   A member is [step_index, receipt_digest, entry_hash,
   proof_strength_disclosure_digest].  Digest formats are not modelled: a digest
   is present or NULL. *)

\* The members that come before the i-th; the sort is stable.
Before(members, i) ==
    {j \in DOMAIN members :
       \/ members[j].step_index < members[i].step_index
       \/ members[j].step_index = members[i].step_index /\ j < i}

sortedMembers(members) ==
    [ k \in DOMAIN members |->
        members[CHOOSE i \in DOMAIN members : Cardinality(Before(members, i)) = k - 1] ]

computeSetCompletenessRoot(sessionId, declaredCount, members) ==
    << sessionId, declaredCount, sortedMembers(members) >>

checkContiguousSteps(members, declaredCount) ==
    /\ Len(members) = declaredCount
    /\ {members[i].step_index : i \in DOMAIN members} = 0..(declaredCount - 1)

\* The digest the terminal receipt must have: the one the manifest names, else
\* that of the last member; NULL when there is neither.
expectedTerminal(manifest) ==
    LET last == {i \in DOMAIN manifest.members :
                   manifest.members[i].step_index = manifest.declared_count - 1}
    IN CASE manifest.terminal_receipt_digest # NULL -> manifest.terminal_receipt_digest
         [] manifest.terminal_receipt_digest = NULL /\ last # {} ->
              manifest.members[CHOOSE i \in last : \A j \in last : i <= j].receipt_digest
         [] OTHER -> NULL

terminalDigestMatches(manifest, terminal) ==
    /\ expectedTerminal(manifest) # NULL =>
         terminal.receipt_digest = expectedTerminal(manifest)
    /\ verifyReceiptDigestMatch(terminal) # NULL

\* Only a terminal receipt that has a path is held to it.
partialPathStepAligned(manifest, terminal) ==
    terminal.partial_path # NULL =>
      /\ terminal.partial_path.step_index + 1 = manifest.declared_count
      /\ verifyPartialPathCommitment(terminal.partial_path)

verifySetCompletenessBundle(manifest, terminal, requirePartialPathAlignment) ==
    /\ manifest.declared_count >= 1
    /\ checkContiguousSteps(manifest.members, manifest.declared_count)
    /\ manifest.set_root = computeSetCompletenessRoot(manifest.session_id,
                             manifest.declared_count, manifest.members)
    /\ terminalDigestMatches(manifest, terminal)
    /\ requirePartialPathAlignment => partialPathStepAligned(manifest, terminal)

-----------------------------------------------------------------------------
(* The enforcement rollup of a session (liability/chainEnforcementRollup.ts):
   each hop's mode is read from its member receipt and from the steps of the
   terminal receipt's partial path, the two are merged hop by hop, and the
   chain is as strong as its weakest hop.

   members is the sequence of bundled receipts (<<>> when there is none, NULL
   for a blank entry), steps that of the path's steps, verified the set of hop
   indices whose receipt verified.  Hop indices are 0-based. *)

\* A disclosure speaks only when it verifies, whether or not it is the one
\* the receipt was sealed with.
extractEnforcementFromReceipt(receipt) ==
    IF receipt # NULL /\ verifyProofStrengthDisclosure(receipt.governance)
      THEN receipt.governance.enforcement_mode ELSE "unknown"

extractEnforcementFromPartialStep(step) ==
    IF step.enforcement_mode \in ENFORCEMENT_MODES THEN step.enforcement_mode ELSE "unknown"

\* The hop a step is about: its absolute index, else the manifest member with
\* its entry hash, else its index within the path's window.
resolvePartialStepHopIndex(step, manifestMembers) ==
    LET matches == {i \in DOMAIN manifestMembers :
                      /\ step.entry_hash # NULL
                      /\ manifestMembers[i].entry_hash = step.entry_hash}
    IN CASE step.step_index # NULL -> step.step_index
         [] step.step_index = NULL /\ matches # {} ->
              manifestMembers[CHOOSE i \in matches : \A j \in matches : i <= j].step_index
         [] OTHER -> step.index

hasMemberAtHop(members, hop) == hop + 1 \in DOMAIN members /\ members[hop + 1] # NULL

stepsAtHop(steps, hop, manifestMembers) ==
    {k \in DOMAIN steps : resolvePartialStepHopIndex(steps[k], manifestMembers) = hop}

\* The first step of a hop that states a mode decides among its steps.
stepMode(steps, at) ==
    LET known == {k \in at : extractEnforcementFromPartialStep(steps[k]) # "unknown"}
    IN IF known = {} THEN "unknown"
       ELSE extractEnforcementFromPartialStep(
              steps[CHOOSE k \in known : \A j \in known : k <= j])

\* Path-bound steps replace a member's disclosure only at a verified hop; at
\* an unverified one the member's stands.  A blank entry of members (see
\* hasMemberAtHop) is unverified too, and its unknown mode stands.
mergeHopModes(members, steps, verified, manifestMembers) ==
    LET stepHops == {resolvePartialStepHopIndex(steps[k], manifestMembers) : k \in DOMAIN steps}
        memberHops == {i - 1 : i \in DOMAIN members}
    IN [ hop \in memberHops \cup stepHops |->
           IF hop \in memberHops /\ (hop \notin verified \/ hop \notin stepHops)
             THEN extractEnforcementFromReceipt(members[hop + 1])
             ELSE stepMode(steps, stepsAtHop(steps, hop, manifestMembers)) ]

deriveChainMode(hopModes) ==
    LET known == {hopModes[h] : h \in DOMAIN hopModes} \cap ENFORCEMENT_MODES
    IN CASE known = {} -> "unknown"
         [] known = ENFORCEMENT_MODES -> "mixed"
         [] OTHER -> CHOOSE mode \in known : TRUE

weakestLinkIndex(hopModes) ==
    LET weak == {h \in DOMAIN hopModes : hopModes[h] = "audit_only"}
    IN IF weak = {} THEN NULL ELSE CHOOSE h \in weak : \A g \in weak : h <= g

rollupChainEnforcement(members, steps, verified, manifestMembers) ==
    LET hopModes == mergeHopModes(members, steps, verified, manifestMembers)
    IN [ chain_enforcement_mode |-> deriveChainMode(hopModes),
         uniformly_enforced |->
           /\ DOMAIN hopModes # {}
           /\ \A h \in DOMAIN hopModes : hopModes[h] = "enforced",
         weakest_link_index |-> weakestLinkIndex(hopModes),
         hop_modes |-> hopModes ]

-----------------------------------------------------------------------------
(* The closure and the gates *)

CLOSURE_VERDICTS ==
    {"carrier_review_ready", "member_verification_required",
     "mixed_enforcement_disclosed", "digest_only_submission"}

buildSessionProofExportHints(declaredCount, members) ==
    [ member_receipts_bundled |-> declaredCount > 0 /\ Len(members) = declaredCount,
      require_member_receipt_verification |->
        declaredCount > 0 /\ Len(members) # declaredCount ]

\* Mutant: a bundled body counts as verified.
MutantBodyIsVerified(manifest, members, verified) ==
    LET sorted == sortedMembers(manifest.members)
        body(i) == hasMemberAtHop(members, i - 1)
    IN [ i \in DOMAIN sorted |->
           [ hop_index |-> i - 1,
             step_index |-> sorted[i].step_index,
             receipt_digest |-> sorted[i].receipt_digest,
             presence |-> IF body(i) THEN "bundled" ELSE "digest_only",
             verify_profile |->
               IF body(i) THEN "member_receipt_verified" ELSE "digest_only" ] ]

\* One entry per manifest member, in step order.
buildReceiptPresence(manifest, members, verified) ==
    LET sorted == sortedMembers(manifest.members)
        body(i) == hasMemberAtHop(members, i - 1)
    IN [ i \in DOMAIN sorted |->
           [ hop_index |-> i - 1,
             step_index |-> sorted[i].step_index,
             receipt_digest |-> sorted[i].receipt_digest,
             presence |-> IF body(i) THEN "bundled" ELSE "digest_only",
             verify_profile |->
               CASE body(i) /\ i - 1 \in verified -> "member_receipt_verified"
                 [] body(i) /\ i - 1 \notin verified -> "not_verified"
                 [] OTHER -> "digest_only" ] ]

ChainMode(chain) == IF chain = NULL THEN "unknown" ELSE chain.chain_enforcement_mode
UniformlyEnforced(chain) == chain # NULL /\ chain.uniformly_enforced

deriveClosureVerdict(setCompletenessOk, presence, chain, hints) ==
    LET hops == {presence[i] : i \in DOMAIN presence}
        digestOnly == \E h \in hops : h.presence = "digest_only"
        unverified == \/ \E h \in hops : h.verify_profile # "member_receipt_verified"
                      \/ hints.require_member_receipt_verification
        weak == ChainMode(chain) \in {"mixed", "audit_only"}
    IN CASE digestOnly -> "digest_only_submission"
         [] ~digestOnly /\ ~unverified /\ weak -> "mixed_enforcement_disclosed"
         [] /\ ~digestOnly /\ ~unverified /\ ~weak
            /\ setCompletenessOk
            /\ UniformlyEnforced(chain)
            /\ hops # {} -> "carrier_review_ready"
         [] OTHER -> "member_verification_required"

RollupShowsEnforcement(chain) == ChainMode(chain) \in {"enforced", "audit_only", "mixed"}

\* Digest-only hops come before unverified ones when the weakest is named.
buildChainEnforcementAdvisory(presence, chain) ==
    LET at(kinds) == {i \in DOMAIN presence : presence[i].verify_profile \in kinds}
        first(s) == (CHOOSE i \in s : \A j \in s : i <= j) - 1
        gap == at({"digest_only", "not_verified"})
    IN [ chain_enforcement_qualified |-> ~(gap # {} /\ RollupShowsEnforcement(chain)),
         weakest_receipt_hop_index |->
           CASE at({"digest_only"}) # {} -> first(at({"digest_only"}))
             [] at({"digest_only"}) = {} /\ gap # {} -> first(gap)
             [] OTHER -> NULL ]

applyChannelProvenanceClosureDowngrade(verdict, channelDelegated) ==
    IF channelDelegated = {} THEN verdict ELSE "digest_only_submission"

computeClosureDigest(closure) ==
    << closure.closure_verdict, closure.set_completeness_ok, closure.receipt_presence,
       ChainMode(closure.chain_enforcement), UniformlyEnforced(closure.chain_enforcement),
       closure.export_hints.require_member_receipt_verification,
       closure.chain_enforcement_advisory, closure.channel_delegated >>

buildSessionCompositionClosure(complete, manifest, members, verified, chain, hints, delegated) ==
    LET presence == buildReceiptPresence(manifest, members, verified)
        verdict == applyChannelProvenanceClosureDowngrade(
                     deriveClosureVerdict(complete, presence, chain, hints), delegated)
        closure ==
          [ closure_verdict |-> verdict,
            carrier_review_ready |-> verdict = "carrier_review_ready",
            receipt_presence |-> presence,
            chain_enforcement |-> chain,
            chain_enforcement_advisory |-> buildChainEnforcementAdvisory(presence, chain),
            export_hints |-> hints,
            channel_delegated |-> delegated,
            set_completeness_ok |-> complete,
            closure_digest |-> NULL ]
    IN [closure EXCEPT !.closure_digest = computeClosureDigest(closure)]

\* Mutant: only the verdict is compared.
MutantVerifySessionCompositionClosure(closure, recomputed) ==
    /\ closure # NULL /\ closure.closure_verdict \in CLOSURE_VERDICTS
    /\ recomputed # NULL => closure.closure_verdict = recomputed.closure_verdict

\* recomputed is built from what the caller expects, NULL when it expects nothing.
\* The stated digest is compared; the closure's own is not computed.
verifySessionCompositionClosure(closure, recomputed) ==
    /\ closure # NULL /\ closure.closure_verdict \in CLOSURE_VERDICTS
    /\ recomputed # NULL => /\ closure.closure_digest = recomputed.closure_digest
                            /\ closure.closure_verdict = recomputed.closure_verdict

-----------------------------------------------------------------------------
evaluateClosureShipGate(closure) ==
    IF closure = NULL
      THEN [ carrier_submission_ready |-> FALSE, blocked |-> TRUE,
             rollup_alone_ship_risk |-> TRUE ]
      ELSE LET qualified == closure.chain_enforcement_advisory.chain_enforcement_qualified
               ready == closure.carrier_review_ready /\ qualified
           IN [ carrier_submission_ready |-> ready, blocked |-> ~ready,
                rollup_alone_ship_risk |->
                  /\ ~closure.carrier_review_ready
                  /\ RollupShowsEnforcement(closure.chain_enforcement)
                  /\ ~qualified ]

(* A gate policy names a revision, the N of carrier_default_vN.  localFloor is
   CAP_EXPORT_GATE_POLICY_MIN_SUPPORTED_VERSION of the package that reads it. *)

\* Mutant: off by one at the floor.
MutantAboveFloor(version, minSupported) == version > minSupported

isCapExportGatePolicySupported(version, minSupported) == version >= minSupported

buildCapExportGatePolicy(packageVersion) ==
    [ version |-> packageVersion, min_supported_version |-> packageVersion ]

isCapExportEnvelopeStale(body, localFloor) ==
    \/ body.export_gate_policy = NULL
    \/ ~isCapExportGatePolicySupported(body.export_gate_policy.version, localFloor)
    \/ body.export_gate_policy.min_supported_version < localFloor

gatesMateriallyMismatch(supplied, derived) ==
    \/ supplied.blocked # derived.blocked
    \/ supplied.carrier_submission_ready # derived.carrier_submission_ready

CapExportCarrierHandoffRefusalReason ==
    {"stale_export_gate_policy", "missing_composition_closure",
     "closure_ship_gate_mismatch", "missing_closure_ship_gate", "ship_gate_blocked"}

\* NULL when the handoff is allowed, else the first reason to refuse it.
handoffRefusalReason(body, localFloor) ==
    LET closure == body.composition_closure
        derived == evaluateClosureShipGate(closure)
        supplied == body.closure_ship_gate
        stale == isCapExportEnvelopeStale(body, localFloor)
        missing == ~stale /\ closure = NULL
        mismatch == /\ ~stale /\ ~missing
                    /\ supplied # NULL /\ gatesMateriallyMismatch(supplied, derived)
        blocked == /\ ~stale /\ ~missing /\ ~mismatch
                   /\ derived.blocked \/ ~derived.carrier_submission_ready
    IN CASE stale -> "stale_export_gate_policy"
         [] missing -> "missing_composition_closure"
         [] mismatch -> "closure_ship_gate_mismatch"
         [] blocked -> "ship_gate_blocked"
         [] OTHER -> NULL

evaluateCapExportCarrierHandoff(body, localFloor) ==
    [ carrier_handoff_allowed |-> handoffRefusalReason(body, localFloor) = NULL,
      reason |-> handoffRefusalReason(body, localFloor) ]
=============================================================================
