------------------------------ MODULE CapExport ------------------------------
(***************************************************************************)
(* A CAP session from capture to carrier: hops are captured and sealed, a  *)
(* prefix of the session is exported, the bundle passes through storage    *)
(* that may lose or mix up its parts, it is verified and published in an   *)
(* envelope, the envelope is cached, and an integrator whose package may   *)
(* have been upgraded meanwhile decides on the carrier handoff.            *)
(*                                                                         *)
(* Capture, export, storage and caching are outside src/ and modelled from *)
(* what the verifiers expect; verification, publication's verdicts and the *)
(* handoff are the code's.  Custody never seals: what it mixes in comes    *)
(* from this session's other exports or from another session.  An export   *)
(* of a prefix is one taken when the session was that long.                *)
(***************************************************************************)
EXTENDS SessionProof

CONSTANTS HopKinds,            \* what may be captured at a hop
          Recorders,           \* how the capture plane records partial paths
          ConstraintClosures,  \* constraint closures an export may carry, or NULL
          Options,             \* options of verifySessionProof
          MaxHops, MaxFaults, MaxRelease   \* bounds

ASSUME CapExportAssumption ==
    /\ \A k \in HopKinds : /\ k.context \in CaptureContext
                           /\ k.disclosure \in {"bound", "unbound", "none"}
                           /\ k.recorded \in BOOLEAN
    /\ \A r \in Recorders : /\ r.window \in Nat
                            /\ r.absolute \in BOOLEAN
                            /\ r.hashes \in BOOLEAN
    /\ MaxHops \in Nat /\ MaxFaults \in Nat /\ MaxRelease \in Nat \ {0}

VARIABLES recorder,   \* the recorder of this deployment
          captured,   \* hops: [kind, receipt]
          bundle,     \* the exported bundle in custody, or NULL
          envelope,   \* the published and cached body, or NULL
          faults,     \* how many times custody or the cache went wrong
          release,    \* revision of the integrator's package
          handoff     \* the integrator's decision and its release, or NULL

vars == <<recorder, captured, bundle, envelope, faults, release, handoff>>

Min2(a, b) == IF a < b THEN a ELSE b

\* The mode an action was really captured in.
TrueMode(kind) == DerivedEnforcementMode(kind.context)

EntryHash(session, hop) == <<session, "entry", hop>>
ArgsDigest(session, hop) == <<session, "args", hop>>

StepOf(session, hop, kind) ==
    [ step_index |-> hop, index |-> hop, tool_name |-> "read_file", path_hint |-> {},
      verdict |-> "PERMIT", entry_hash |-> EntryHash(session, hop),
      args_digest |-> ArgsDigest(session, hop), binding_digest |-> NULL,
      enforcement_mode |-> IF kind.recorded THEN TrueMode(kind) ELSE NULL ]

\* The steps in the window of a recorder at the last of these hops: indexed
\* within it, and with what else the recorder names.
WindowOf(rec, session, kinds) ==
    LET w == Min2(rec.window, Len(kinds))
        hop(k) == Len(kinds) - w + k
    IN [ k \in 1..w |->
           [StepOf(session, hop(k) - 1, kinds[hop(k)]) EXCEPT
              !.index = k - 1,
              !.step_index = IF rec.absolute THEN @ ELSE NULL,
              !.entry_hash = IF rec.hashes THEN @ ELSE NULL] ]

\* The partial path of the last of these hops; NULL for a recorder without
\* paths.
PathOf(rec, session, kinds) ==
    LET window == WindowOf(rec, session, kinds)
        derived == deriveCapabilityBudgetFromSteps(window)
        path == [ session_id |-> session, step_index |-> Len(kinds) - 1,
                  partial_steps |-> window,
                  capability_budget |->
                    buildCapabilityBudgetCommitment(derived.budget, derived.taintClass),
                  permit_execution |-> buildPermitExecutionCommitment(window),
                  partial_path_hash |-> NULL ]
    IN IF rec.window = 0 THEN NULL
       ELSE [path EXCEPT !.partial_path_hash = PathPreimage(path)]

\* What the issuer drafts at the last of these hops.
DraftOf(rec, session, kinds) ==
    LET hop == Len(kinds) - 1
        kind == kinds[Len(kinds)]
        draft ==
          [ schema |-> "liability-receipt/v1", release |-> PermittedRelease, privacy |-> NULL,
            session_id |-> session, entry_hash |-> EntryHash(session, hop),
            args_digest |-> ArgsDigest(session, hop), intent_context |-> NULL,
            intent_alignment |-> NULL, causal_lineage |-> NULL,
            gateway_attestation |-> NULL, partial_path |-> PathOf(rec, session, kinds),
            governance |-> IF kind.disclosure = "none" THEN NULL
                           ELSE GovernanceOf(kind.context),
            proof_strength_disclosure_digest |-> NULL, receipt_digest |-> NULL,
            signature_alg |-> "RS256", signature |-> NULL ]
    IN IF kind.disclosure = "bound"
         THEN applyProofStrengthDisclosureDigestBinding(draft) ELSE draft

ReceiptOf(rec, session, kinds) == SealReceipt(DraftOf(rec, session, kinds), "current")

\* The sessions that may be captured, and the receipts sealed in them.
Sessions == UNION {[1..n -> HopKinds] : n \in 1..MaxHops}
SealedReceipts ==
    {ReceiptOf(rec, "session-1", kinds) : rec \in Recorders, kinds \in Sessions}

\* A missing value is none of the others.
ASSUME NullAssumption ==
    /\ NULL \notin Nat \cup ENFORCEMENT_MODES \cup ReceiptDigestProfile
                     \cup CapExportCarrierHandoffRefusalReason
    /\ \A k \in HopKinds : NULL \notin {k.context, GovernanceOf(k.context)}
    /\ \A receipt \in SealedReceipts :
         NULL \notin {receipt, receipt.entry_hash, receipt.receipt_digest, receipt.signature}
    /\ \A rec \in Recorders, kinds \in Sessions :
         rec.window # 0 => ReceiptOf(rec, "session-1", kinds).partial_path # NULL

-----------------------------------------------------------------------------
(* What the exporter builds from the first n hops. *)

MembersOf(n) ==
    [ i \in 1..n |->
        [ step_index |-> i - 1,
          receipt_digest |-> captured[i].receipt.receipt_digest,
          entry_hash |-> captured[i].receipt.entry_hash,
          proof_strength_disclosure_digest |->
            captured[i].receipt.proof_strength_disclosure_digest ] ]

ManifestOf(n) ==
    [ session_id |-> "session-1", declared_count |-> n, members |-> MembersOf(n),
      set_root |-> computeSetCompletenessRoot("session-1", n, MembersOf(n)),
      terminal_receipt_digest |-> captured[n].receipt.receipt_digest ]

CustodianOf(n) ==
    buildManifestCustodianCommitment("session-1", ManifestOf(n).set_root,
                                     captured[n].receipt.entry_hash)

BundleOf(n, withMembers, constraintClosure) ==
    [ session_id |-> "session-1", manifest |-> ManifestOf(n),
      terminal_receipt |-> captured[n].receipt,
      member_receipts |-> IF withMembers THEN [i \in 1..n |-> captured[i].receipt] ELSE <<>>,
      policy_proof |-> NULL, manifest_custodian |-> CustodianOf(n),
      constraint_closure |-> constraintClosure, channel_provenance |-> NULL ]

EnvelopeOf(verdict, serverRelease) ==
    [ export_gate_policy |-> buildCapExportGatePolicy(serverRelease),
      composition_closure |-> verdict.composition_closure,
      closure_ship_gate |-> verdict.closure_ship_gate ]

-----------------------------------------------------------------------------
Init ==
    /\ recorder \in Recorders
    /\ captured = <<>>
    /\ bundle = NULL
    /\ envelope = NULL
    /\ faults = 0
    /\ release = 1
    /\ handoff = NULL

Capture(kind) ==
    /\ bundle = NULL
    /\ Len(captured) < MaxHops
    /\ LET kinds == Append([i \in DOMAIN captured |-> captured[i].kind], kind)
       IN captured' = Append(captured,
                        [kind |-> kind, receipt |-> ReceiptOf(recorder, "session-1", kinds)])
    /\ UNCHANGED <<recorder, bundle, envelope, faults, release, handoff>>

Export(n, withMembers, constraintClosure) ==
    /\ bundle = NULL
    /\ bundle' = BundleOf(n, withMembers, constraintClosure)
    /\ UNCHANGED <<recorder, captured, envelope, faults, release, handoff>>

Fault(newBundle) ==
    /\ bundle # NULL
    /\ envelope = NULL
    /\ faults < MaxFaults
    /\ newBundle # bundle
    /\ bundle' = newBundle
    /\ faults' = faults + 1
    /\ UNCHANGED <<recorder, captured, envelope, release, handoff>>

\* Receipts of this session and of another one that may be mixed up.
KnownReceipts ==
    {captured[i].receipt : i \in DOMAIN captured} \cup
      {ReceiptOf(recorder, "session-2", <<kind>>) :
         kind \in {k \in HopKinds : TrueMode(k) = "enforced"}}

LoseMember(i) ==
    Fault([bundle EXCEPT !.member_receipts =
             [k \in 1..(Len(@) - 1) |-> IF k < i THEN @[k] ELSE @[k + 1]]])

MixUpMember(i, receipt) == Fault([bundle EXCEPT !.member_receipts[i] = receipt])

SwapMembers(i, j) ==
    Fault([bundle EXCEPT !.member_receipts =
             [@ EXCEPT ![i] = bundle.member_receipts[j], ![j] = bundle.member_receipts[i]]])

\* The disclosure of another receipt ends up on a member, or none does.
MislabelMember(i, governance) ==
    /\ bundle.member_receipts[i] # NULL
    /\ Fault([bundle EXCEPT !.member_receipts[i].governance = governance])

MixUpTerminal(receipt) == Fault([bundle EXCEPT !.terminal_receipt = receipt])

\* A step of the terminal receipt's path is rewritten; its hash stays.
MislabelStep(k, mode) ==
    Fault([bundle EXCEPT !.terminal_receipt.partial_path.partial_steps[k].enforcement_mode
                           = mode])

\* An absolute index is added to a step of the terminal receipt's path, or of
\* a member's; the hashes stay.
MisplaceStep(k, hop) ==
    Fault([bundle EXCEPT !.terminal_receipt.partial_path.partial_steps[k].step_index = hop])

MisplaceMemberStep(i, k, hop) ==
    Fault([bundle EXCEPT !.member_receipts[i].partial_path.partial_steps[k].step_index = hop])

\* The manifest of another export of the session, its members in some other
\* order, or without the optional terminal digest.
Manifests ==
    UNION { { ManifestOf(n),
              [ManifestOf(n) EXCEPT !.terminal_receipt_digest = NULL],
              [ManifestOf(n) EXCEPT !.members = [i \in 1..n |-> @[n + 1 - i]]] } :
            n \in DOMAIN captured }

MixUpManifest(manifest) == Fault([bundle EXCEPT !.manifest = manifest])

MixUpCustodian(custodian) == Fault([bundle EXCEPT !.manifest_custodian = custodian])

MixUpSession == Fault([bundle EXCEPT !.session_id = "session-2"])

\* The export endpoint verifies the bundle and publishes the verdict.
Publish(options, serverRelease) ==
    /\ bundle # NULL
    /\ envelope = NULL
    /\ envelope' = EnvelopeOf(verifySessionProof(bundle, options), serverRelease)
    /\ UNCHANGED <<recorder, captured, bundle, faults, release, handoff>>

\* The cache returns a body parts of which are missing or of another body of
\* the session.
CacheFault(field, value) ==
    /\ envelope # NULL
    /\ handoff = NULL
    /\ faults < MaxFaults
    /\ envelope[field] # value
    /\ envelope' = [envelope EXCEPT ![field] = value]
    /\ faults' = faults + 1
    /\ UNCHANGED <<recorder, captured, bundle, release, handoff>>

\* Verdicts over this session's untouched exports.
Verdicts(options) ==
    {verifySessionProof(BundleOf(n, m, NULL), options) : n \in DOMAIN captured, m \in BOOLEAN}

CacheFaults(options) ==
    \/ CacheFault("export_gate_policy", NULL)
    \/ \E verdict \in Verdicts(options) \cup {[composition_closure |-> NULL,
                                              closure_ship_gate |-> NULL]} :
          \/ CacheFault("composition_closure", verdict.composition_closure)
          \/ CacheFault("closure_ship_gate", verdict.closure_ship_gate)

\* The integrator installs a newer package, whose floor is higher.
UpgradeRelease ==
    /\ envelope # NULL
    /\ handoff = NULL
    /\ release < MaxRelease
    /\ release' = release + 1
    /\ UNCHANGED <<recorder, captured, bundle, envelope, faults, handoff>>

Handoff ==
    /\ envelope # NULL
    /\ handoff = NULL
    /\ handoff' = evaluateCapExportCarrierHandoff(envelope, release)
    /\ UNCHANGED <<recorder, captured, bundle, envelope, faults, release>>

CustodyFaults ==
    /\ bundle # NULL
    /\ \/ \E i \in DOMAIN bundle.member_receipts :
            \/ LoseMember(i)
            \/ \E receipt \in KnownReceipts \cup {NULL} : MixUpMember(i, receipt)
            \/ \E j \in DOMAIN bundle.member_receipts : SwapMembers(i, j)
            \/ \E receipt \in KnownReceipts : MislabelMember(i, receipt.governance)
            \/ /\ bundle.member_receipts[i] # NULL
               /\ bundle.member_receipts[i].partial_path # NULL
               /\ \E k \in DOMAIN bundle.member_receipts[i].partial_path.partial_steps,
                     hop \in 0..(MaxHops - 1) : MisplaceMemberStep(i, k, hop)
       \/ \E receipt \in KnownReceipts : MixUpTerminal(receipt)
       \/ /\ bundle.terminal_receipt.partial_path # NULL
          /\ \E k \in DOMAIN bundle.terminal_receipt.partial_path.partial_steps :
               \/ \E mode \in ENFORCEMENT_MODES \cup {NULL} : MislabelStep(k, mode)
               \/ \E hop \in 0..(MaxHops - 1) : MisplaceStep(k, hop)
       \/ \E manifest \in Manifests : MixUpManifest(manifest)
       \/ \E n \in DOMAIN captured : MixUpCustodian(CustodianOf(n))
       \/ MixUpCustodian(NULL)
       \/ MixUpSession

Next ==
    \/ \E kind \in HopKinds : Capture(kind)
    \/ \E n \in DOMAIN captured, withMembers \in BOOLEAN,
          constraintClosure \in ConstraintClosures : Export(n, withMembers, constraintClosure)
    \/ CustodyFaults
    \/ \E options \in Options :
          \/ \E serverRelease \in 1..MaxRelease : Publish(options, serverRelease)
          \/ CacheFaults(options)
    \/ UpgradeRelease
    \/ Handoff

Spec == Init /\ [][Next]_vars

-----------------------------------------------------------------------------
Hops(n) == {captured[i].kind : i \in 1..n}

\* The same receipt as parsed, its disclosure included when it was stamped.
SameReceipt(receipt, original) ==
    /\ [parseLiabilityReceiptStructure(receipt) EXCEPT !.governance = original.governance]
         = original
    /\ original.proof_strength_disclosure_digest # NULL
         => receipt.governance = original.governance

\* The mode of this hop is under a digest: in the receipt, or in every path.
Attested(hop) ==
    \/ hop.receipt.proof_strength_disclosure_digest # NULL
    \/ hop.kind.recorded /\ recorder.window >= MaxHops

\* Type invariant: hops carry their own sealed receipts, nothing is handed off
\* before it is published nor published before it is exported.
TypeOK ==
    /\ recorder \in Recorders
    /\ captured \in Seq([kind : HopKinds, receipt : SealedReceipts])
    /\ Len(captured) <= MaxHops
    /\ \A i \in DOMAIN captured :
         /\ captured[i].receipt.entry_hash = EntryHash("session-1", i - 1)
         /\ verifyReceiptDigestMatch(captured[i].receipt) = "current"
    /\ faults \in 0..MaxFaults
    /\ release \in 1..MaxRelease
    /\ bundle # NULL => captured # <<>>
    /\ envelope # NULL =>
         /\ bundle # NULL
         /\ envelope.composition_closure # NULL =>
              envelope.composition_closure.closure_verdict \in CLOSURE_VERDICTS
    /\ handoff # NULL => envelope # NULL

\* verifySessionProof: a bundle it calls complete is, receipt by receipt and in
\* order, one untouched export of the session, whichever of its parts custody
\* lost, swapped or took from other exports; in particular no hop of it is
\* missing, and no member or terminal receipt is another hop's.
OkBundleIsGenuine ==
    bundle # NULL =>
      \A options \in Options :
        verifySessionProof(bundle, options).ok =>
          LET n == bundle.manifest.declared_count
          IN /\ bundle.session_id = "session-1"
             /\ n \in DOMAIN captured
             /\ SameReceipt(bundle.terminal_receipt, captured[n].receipt)
             /\ Len(bundle.member_receipts) = n
             /\ \A i \in 1..n :
                  /\ bundle.member_receipts[i] # NULL
                  /\ SameReceipt(bundle.member_receipts[i], captured[i].receipt)

\* evaluateCapExportCarrierHandoff: when a handoff is allowed, the closure
\* handed off lists receipts of this session in order, every hop whose mode is
\* under a digest really was enforced, and the body is not older than the
\* integrator's floor, whatever custody and the cache did to either.
HandoffSound ==
    handoff # NULL /\ handoff.carrier_handoff_allowed =>
      LET presence == envelope.composition_closure.receipt_presence
      IN /\ presence # <<>>
         /\ envelope.export_gate_policy.version >= release
         /\ \A i \in DOMAIN presence :
              /\ i \in DOMAIN captured
              /\ presence[i].receipt_digest = captured[i].receipt.receipt_digest
              /\ Attested(captured[i]) => TrueMode(captured[i].kind) = "enforced"

\* verifySessionCompositionClosure: an integrator that also has the bundle, and
\* finds the closure to be the one its own verification gives, hands off every
\* hop of this bundle, each with its receipt verified, and not an earlier export
\* of the session that the cache returned in its place.
CheckedHandoffIsCurrent ==
    handoff # NULL /\ handoff.carrier_handoff_allowed =>
      \A options \in Options :
        LET recomputed == verifySessionProof(bundle, options).composition_closure
            presence == envelope.composition_closure.receipt_presence
        IN /\ recomputed # NULL
           /\ verifySessionCompositionClosure(envelope.composition_closure, recomputed)
           => /\ Len(presence) = bundle.manifest.declared_count
              /\ \A i \in DOMAIN presence :
                   /\ bundle.member_receipts[i].receipt_digest = presence[i].receipt_digest
                   /\ verifyReceipt(bundle.member_receipts[i], options)

\* No false refusal: an untouched export with its receipts, of hops that all
\* were enforced, recorded and disclosed in a document that verifies, itself
\* verifies when its path holds every hop, and an integrator whose floor it
\* meets may hand it off.  A path that names absolute indices is refused
\* (AbsoluteIndexVerifies) and left out.
CompleteExportHandsOff ==
    envelope # NULL /\ faults = 0 /\ bundle.member_receipts # <<>> /\ ~recorder.absolute =>
      LET n == bundle.manifest.declared_count
      IN (\A kind \in Hops(n) :
            /\ TrueMode(kind) = "enforced" /\ kind.recorded
            /\ kind.disclosure # "none"
            /\ verifyProofStrengthDisclosure(GovernanceOf(kind.context))) =>
           /\ recorder.window >= n =>
                \A options \in Options : verifySessionProof(bundle, options).ok
           /\ envelope.export_gate_policy.version >= release =>
                evaluateCapExportCarrierHandoff(envelope, release).carrier_handoff_allowed

\* The closure's own note on carrier_review_ready: all hops bundled and
\* verified with uniformly enforced chain (sessionCompositionClosure.ts:316).
ReadyIsUniformlyEnforced ==
    bundle # NULL /\ faults = 0 =>
      \A options \in Options :
        verifySessionProof(bundle, options).composition_closure.carrier_review_ready =>
          \A kind \in Hops(bundle.manifest.declared_count) :
             kind.disclosure = "bound" => TrueMode(kind) = "enforced"

\* PC-12 prefers a step's absolute step_index (chainEnforcementRollup.ts:144):
\* an untouched terminal receipt whose path names them verifies.
AbsoluteIndexVerifies ==
    bundle # NULL /\ faults = 0 /\ recorder.absolute =>
      \A options \in Options : verifyReceipt(bundle.terminal_receipt, options)

\* requireConstraintClosure asks for a constraint_closure that says PASS
\* (sessionProofVerify.ts:93): an untouched export that carries one is not
\* refused for asking.
ConstraintClosureHonoured ==
    bundle # NULL /\ faults = 0 =>
      \A options \in Options :
        /\ verifySessionProof(bundle, [options EXCEPT !.requireConstraintClosure = FALSE]).ok
        /\ bundle.constraint_closure # NULL
        /\ bundle.constraint_closure.session_id = bundle.session_id
        /\ bundle.constraint_closure.recomposition_result = "PASS"
        => verifySessionProof(bundle, options).ok
==============================================================================
