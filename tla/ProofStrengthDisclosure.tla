---------------------- MODULE ProofStrengthDisclosure ----------------------
(***************************************************************************)
(* The proof-strength disclosure of a receipt: how the capture plane says  *)
(* the action was captured (core/proofStrengthDisclosure.ts), the verifier *)
(* of that document and its binding to the receipt's digest                *)
(* (liability/proofStrengthDisclosureVerify.ts, ...Binding.ts).            *)
(*                                                                         *)
(* limitations and generated_at are always filled by the builder and are   *)
(* left out; a digest is modelled by its preimage.                         *)
(***************************************************************************)
EXTENDS JsNull

ENFORCEMENT_MODES == {"enforced", "audit_only"}
CAPTURE_TIMINGS == {"pre_execution", "post_observed"}
WITNESS_MODES == {"none", "async", "awaited_fail_closed"}
WITNESS_PERSISTENCE_LEVELS == {"postgres", "memory_lab", "external_only"}
EXTERNAL_TRANSPARENCY_LEVELS ==
    {"none", "rekor_metadata_only", "rekor_inclusion_verified"}
RECEIPT_BEFORE_ACTION == "receipt_before_action/v1"

\* The fields of a document its disclosure_digest is computed over.
DisclosurePreimage(doc) ==
    [ enforcement_mode |-> doc.enforcement_mode,
      capture_timing |-> doc.capture_timing,
      pep_invariant |-> doc.pep_invariant,
      witness_mode |-> doc.witness_mode,
      witness_persistence |-> doc.witness_persistence,
      external_transparency |-> doc.external_transparency ]

buildProofStrengthDisclosureDocument(input) ==
    [ enforcement_mode |-> input.enforcement_mode,
      capture_timing |-> input.capture_timing,
      pep_invariant |-> input.pep_invariant,
      witness_mode |-> input.witness_mode,
      witness_persistence |-> input.witness_persistence,
      external_transparency |-> input.external_transparency,
      disclosure_digest |-> DisclosurePreimage(input) ]

\* What the capture plane knows when it seals a receipt.  NULL leaves the
\* choice to the defaults of the derivation.
CaptureContext ==
    [ policy_enforcement_level : {"enforce", "audit_only"},
      pep_receipt_before_action_enabled : BOOLEAN,
      pep_invariant : {NULL, RECEIPT_BEFORE_ACTION},
      witness_cosign_enabled : BOOLEAN,
      witness_awaited : BOOLEAN,
      witness_persistence : WITNESS_PERSISTENCE_LEVELS \cup {NULL},
      external_transparency : EXTERNAL_TRANSPARENCY_LEVELS \cup {NULL},
      capture_timing : CAPTURE_TIMINGS \cup {NULL} ]

OrDefault(value, default) == IF value = NULL THEN default ELSE value

\* The mode a context really has: enforced unless the policy only audits or
\* the receipt is not taken before the action.
DerivedEnforcementMode(ctx) ==
    IF ctx.policy_enforcement_level = "audit_only" \/ ~ctx.pep_receipt_before_action_enabled
      THEN "audit_only" ELSE "enforced"

deriveProofStrengthDisclosureFromContext(ctx) ==
    LET mode == DerivedEnforcementMode(ctx)
        invariant == OrDefault(ctx.pep_invariant,
                       IF mode = "enforced" THEN RECEIPT_BEFORE_ACTION ELSE NULL)
        timing == OrDefault(ctx.capture_timing,
                    IF mode = "enforced" /\ invariant = RECEIPT_BEFORE_ACTION
                      THEN "pre_execution" ELSE "post_observed")
        witness == CASE ~ctx.witness_cosign_enabled -> "none"
                     [] ctx.witness_cosign_enabled /\ ctx.witness_awaited
                          -> "awaited_fail_closed"
                     [] OTHER -> "async"
    IN buildProofStrengthDisclosureDocument(
         [ enforcement_mode |-> mode,
           capture_timing |-> timing,
           pep_invariant |-> invariant,
           witness_mode |-> witness,
           witness_persistence |-> OrDefault(ctx.witness_persistence, "memory_lab"),
           external_transparency |-> OrDefault(ctx.external_transparency, "none") ])

-----------------------------------------------------------------------------
enforcedPepInvariantAligned(doc) ==
    doc.enforcement_mode = "enforced" /\ doc.capture_timing = "pre_execution"
      => doc.pep_invariant = RECEIPT_BEFORE_ACTION

auditOnlyPepInvariantAligned(doc) ==
    doc.enforcement_mode = "audit_only" => doc.pep_invariant = NULL

witnessPersistenceAligned(doc) ==
    doc.witness_mode = "awaited_fail_closed"
      => doc.witness_persistence \in {"postgres", "external_only"}

verifyProofStrengthDisclosure(doc) ==
    /\ doc # NULL
    /\ doc.enforcement_mode \in ENFORCEMENT_MODES
    /\ doc.capture_timing \in CAPTURE_TIMINGS
    /\ doc.witness_mode \in WITNESS_MODES
    /\ doc.witness_persistence \in WITNESS_PERSISTENCE_LEVELS
    /\ doc.external_transparency \in EXTERNAL_TRANSPARENCY_LEVELS
    /\ doc.disclosure_digest = DisclosurePreimage(doc)
    /\ enforcedPepInvariantAligned(doc)
    /\ auditOnlyPepInvariantAligned(doc)
    /\ witnessPersistenceAligned(doc)

-----------------------------------------------------------------------------
(* The receipt fields used here: governance (the disclosure, outside the digest
   preimage) and proof_strength_disclosure_digest (inside it, or NULL). *)

\* Mutant: stamps without verifying.
MutantStampAnything(receipt) ==
    [receipt EXCEPT !.proof_strength_disclosure_digest =
       IF receipt.governance = NULL THEN NULL ELSE receipt.governance.disclosure_digest]

\* Before sealing: stamp the digest of a disclosure that verifies.
applyProofStrengthDisclosureDigestBinding(receipt) ==
    [receipt EXCEPT !.proof_strength_disclosure_digest =
       CASE receipt.governance = NULL -> NULL
         [] receipt.governance # NULL /\ verifyProofStrengthDisclosure(receipt.governance)
              -> receipt.governance.disclosure_digest
         [] OTHER -> @]

\* Mutant: any verified document will do.
MutantAnyDocument(receipt) ==
    receipt.proof_strength_disclosure_digest # NULL =>
      verifyProofStrengthDisclosure(receipt.governance)

\* A stamped digest must find its verified document; an unstamped document is
\* accepted whether it verifies or not (legacy receipts).
verifyProofStrengthDisclosureReceiptBinding(receipt) ==
    receipt.proof_strength_disclosure_digest # NULL =>
      /\ verifyProofStrengthDisclosure(receipt.governance)
      /\ receipt.governance.disclosure_digest = receipt.proof_strength_disclosure_digest
=============================================================================
