-------------------------- MODULE LiabilityReceipt --------------------------
(***************************************************************************)
(* liability-receipt/v1: what its digest binds under each digest profile,  *)
(* and verifyReceipt, which accepts or refuses one (liability/             *)
(* verifyReceipt.ts, digestProfiles.ts, pillars.ts, signatures.ts and      *)
(* core/partialPath.js).                                                   *)
(*                                                                         *)
(* A receipt is a record.  The pillars every profile binds are reduced to  *)
(* schema, session_id, entry_hash (the primary anchor), args_digest (the   *)
(* action) and release (how the action was released: what the session's    *)
(* outcome, the human actor, hitl, the effect class and the diligence      *)
(* summary say of it); the others are NULL when absent.  A digest is       *)
(* modelled by its preimage, a signature by what it signs: no one but the  *)
(* issuer makes one.  Left out: the memory commitment and the tool         *)
(* manifest fingerprint, the ledger row an auditor may add, and the format *)
(* checks on anchors and policy hash, which read bound fields only.        *)
(***************************************************************************)
EXTENDS ProofStrengthDisclosure, Sequences

\* The alignment level evaluateIntentAlignment gives an intent and an action:
\* many pairs share a level.
CONSTANT AlignmentLevel(_, _)

\* Partial path ------------------------------------------------------------

PathPreimage(pp) ==
    [ session_id |-> pp.session_id, step_index |-> pp.step_index,
      partial_steps |-> pp.partial_steps, capability_budget |-> pp.capability_budget,
      permit_execution |-> pp.permit_execution ]

\* Mutant: content with any hash.
MutantHashPresent(pp) == pp # NULL /\ pp.partial_path_hash # NULL

verifyPartialPathCommitment(pp) ==
    pp # NULL /\ pp.partial_path_hash = PathPreimage(pp)

\* The schema's steps have no step_index, and the parser drops what a step's
\* schema does not name.
parsedPath(pp) ==
    IF pp = NULL THEN NULL
    ELSE [pp EXCEPT !.partial_steps = [k \in DOMAIN @ |-> [@[k] EXCEPT !.step_index = NULL]]]

SCHEMAS == {"liability-receipt/v1", "liability-receipt/v2"}

\* Only the second schema has a privacy envelope, [shredded_at,
\* erasure_certificate_id]; the parser refuses it in the first.
parseSucceeds(receipt) ==
    /\ receipt.schema \in SCHEMAS
    /\ receipt.schema = "liability-receipt/v1" => receipt.privacy = NULL

\* What verifyReceipt takes a receipt to be.
parseLiabilityReceiptStructure(receipt) ==
    [receipt EXCEPT !.partial_path = parsedPath(@)]

\* The digest takes the stored hash; verifyReceipt is what recomputes it.
canonicalizePartialPathForDigest(pp) ==
    IF pp = NULL THEN NULL
    ELSE [ session_id |-> pp.session_id, step_index |-> pp.step_index,
           partial_path_hash |-> pp.partial_path_hash ]

\* Digest profiles ---------------------------------------------------------

ReceiptDigestProfile == {"current", "v1_intent_context", "v1_0"}

PILLARS == {"intent_context", "intent_alignment", "causal_lineage",
            "gateway_attestation", "partial_path", "proof_strength_disclosure_digest"}

receiptDigestKeysForProfile(profile) ==
    CASE profile = "current" -> PILLARS
      [] profile = "v1_intent_context" -> {"intent_context"}
      [] profile = "v1_0" -> {}

digestValueForKey(receipt, key) ==
    IF key = "partial_path" THEN canonicalizePartialPathForDigest(receipt[key])
    ELSE receipt[key]

computeReceiptDigest(receipt, profile) ==
    << receipt.schema, receipt.release, receipt.session_id, receipt.entry_hash, receipt.args_digest,
       { <<key, digestValueForKey(receipt, key)>> :
           key \in {k \in receiptDigestKeysForProfile(profile) : receipt[k] # NULL} } >>

\* Mutant: tries the oldest profile first.
MutantOldestFirst(candidate) ==
    LET matches(profile) == computeReceiptDigest(candidate, profile) = candidate.receipt_digest
    IN CASE matches("v1_0") -> "v1_0"
         [] ~matches("v1_0") /\ matches("v1_intent_context") -> "v1_intent_context"
         [] ~matches("v1_0") /\ ~matches("v1_intent_context") /\ matches("current") -> "current"
         [] OTHER -> NULL

\* The first profile, in RECEIPT_DIGEST_PROFILE_ORDER, whose digest is the
\* stored one; NULL when the receipt matches none.
matchedProfile(candidate) ==
    LET matches(profile) == computeReceiptDigest(candidate, profile) = candidate.receipt_digest
    IN CASE matches("current") -> "current"
         [] ~matches("current") /\ matches("v1_intent_context") -> "v1_intent_context"
         [] ~matches("current") /\ ~matches("v1_intent_context") /\ matches("v1_0") -> "v1_0"
         [] OTHER -> NULL

\* The receipt as it came, then as it was parsed.
verifyReceiptDigestMatch(receipt) ==
    IF matchedProfile(receipt) # NULL THEN matchedProfile(receipt)
    ELSE matchedProfile(parseLiabilityReceiptStructure(receipt))

\* Verification ------------------------------------------------------------

\* Scores the action against the stated intent.
evaluateIntentAlignment(intentContext, argsDigest) ==
    [level |-> AlignmentLevel(intentContext, argsDigest)]

\* A release by a person names who released and on which consumed approval.
releaseAccounted(release) ==
    /\ release.outcome = "released_after_hitl" =>
         /\ release.human_release_actor # NULL
         /\ release.hitl_status = "signed" /\ release.release_consumed
         /\ (release.effect_class = "financial_void" /\ release.hitl_required) =>
              release.approval_request_id # NULL
    /\ release.outcome = "pending_human_release" => release.hitl_status = "pending"
    /\ release.summarized

validateAccountabilityPillars(receipt) ==
    /\ releaseAccounted(receipt.release)
    /\ receipt.intent_alignment # NULL =>
         /\ receipt.intent_context # NULL
         /\ receipt.intent_alignment =
              evaluateIntentAlignment(receipt.intent_context, receipt.args_digest)

\* Mutant: forgets the partial path.
MutantUnboundPillars(receipt, profile) ==
    { key \in {"gateway_attestation", "causal_lineage"}
                \cup (IF profile = "v1_0" THEN {"intent_alignment"} ELSE {}) :
        receipt[key] # NULL }

\* Pillars present on a receipt that matched a legacy profile only.
unboundPillars(receipt, profile) ==
    { key \in {"gateway_attestation", "causal_lineage", "partial_path"}
                \cup (IF profile = "v1_0" THEN {"intent_alignment"} ELSE {}) :
        receipt[key] # NULL }

\* A signature is [signs].  Ed25519 checks the current-profile digest it
\* recomputes; RS256 checks the JWS, and the stored digest where its payload
\* names one.
verifyIntegritySignatures(receipt, keyAvailable) ==
    CASE receipt.signature_alg = "none" -> receipt.signature = NULL
      [] receipt.signature_alg = "Ed25519" ->
           /\ receipt.signature # NULL
           /\ keyAvailable
           /\ receipt.signature.signs = computeReceiptDigest(receipt, "current")
      [] receipt.signature_alg = "RS256" ->
           /\ receipt.signature # NULL
           /\ keyAvailable
           /\ receipt.signature.signs \in {NULL, receipt.receipt_digest}
      [] OTHER -> FALSE

SignatureSkipped(receipt, options) ==
    /\ options.skipIntegritySignatureWithoutKey
    /\ ~options.issuerPublicKey
    /\ receipt.signature_alg # "none"
    /\ receipt.signature # NULL

\* A receipt whose fields were shredded needs the certificate of the erasure.
shreddingCertified(receipt) ==
    (receipt.privacy # NULL /\ receipt.privacy.shredded_at # NULL) =>
      receipt.privacy.erasure_certificate_id # NULL

\* options.issuerPublicKey: the issuer's key came with the call or is
\* embedded in the receipt.
verifyReceipt(receipt, options) ==
    LET profile == verifyReceiptDigestMatch(receipt)
        path == parseLiabilityReceiptStructure(receipt).partial_path
    IN /\ parseSucceeds(receipt) /\ shreddingCertified(receipt)
       /\ profile # NULL
       /\ ~(profile = "current" /\ receipt.intent_context # NULL
                                /\ receipt.intent_alignment = NULL)
       /\ profile # "current" => unboundPillars(receipt, profile) = {}
       /\ validateAccountabilityPillars(receipt)
       /\ receipt.partial_path # NULL => verifyPartialPathCommitment(path)
       /\ verifyProofStrengthDisclosureReceiptBinding(receipt)
       /\ \/ verifyIntegritySignatures(receipt, options.issuerPublicKey)
          \/ SignatureSkipped(receipt, options)

-----------------------------------------------------------------------------
(* Issuing is outside src/; it must produce what verifyReceipt expects. *)

\* The disclosure the capture plane attaches, or NULL.
GovernanceOf(context) ==
    IF context = NULL THEN NULL ELSE deriveProofStrengthDisclosureFromContext(context)

\* An action nobody had to release.
PermittedRelease ==
    [outcome |-> "permitted", human_release_actor |-> NULL, hitl_required |-> FALSE,
     hitl_status |-> "not_required", release_consumed |-> FALSE, effect_class |-> "none",
     approval_request_id |-> NULL, summarized |-> TRUE]

\* Mutant: rebuilds the integrity block without the algorithm.
MutantSealDropsAlgorithm(draft, era) ==
    [draft EXCEPT !.receipt_digest = computeReceiptDigest(draft, era),
                  !.signature = [signs |-> computeReceiptDigest(draft, era)],
                  !.signature_alg = NULL]

\* Digest under the era's profile; a signing issuer signs that digest.
SealReceipt(draft, era) ==
    LET digest == computeReceiptDigest(draft, era)
    IN [draft EXCEPT !.receipt_digest = digest,
                     !.signature = IF draft.signature_alg = "none" THEN NULL
                                   ELSE [signs |-> digest]]

\* The payload of a JWS may leave the digest out.
SealedForms(draft, era) ==
    LET receipt == SealReceipt(draft, era)
    IN {receipt} \cup
       (IF draft.signature_alg # "RS256" THEN {}
        ELSE {[receipt EXCEPT !.signature = [signs |-> NULL]]})
=============================================================================
