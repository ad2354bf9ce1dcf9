--------------------------- MODULE ReceiptCustody ---------------------------
(***************************************************************************)
(* The life of one liability receipt: an issuer of some era seals it, it   *)
(* is stored, copied and re-exported by parties that may lose, mix up or   *)
(* replace parts of it, and somebody verifies it offline.                  *)
(*                                                                         *)
(* The three digest profiles are three eras of issuers: v1_0, then KVR-101 *)
(* (intent_context bound, the alignment advisory), then the current one,   *)
(* whose issuers stamp a disclosure since PC-08 and did not before.        *)
(* Custody never seals: it has no issuer key and leaves the integrity      *)
(* block alone.                                                            *)
(***************************************************************************)
EXTENDS LiabilityReceipt, Naturals

CONSTANTS Contexts,         \* capture contexts an issuer may be in
          Releases,         \* how an action may have been released
          SealedPath,       \* a partial path sealed for this receipt
          OtherPath,        \* one sealed for another receipt
          MaxAlterations    \* bound on what custody does to one receipt

\* A path document has these fields and no other (schema.ts parses strictly).
IsPath(pp) ==
    pp = [ session_id |-> pp.session_id, step_index |-> pp.step_index,
           partial_steps |-> pp.partial_steps, capability_budget |-> pp.capability_budget,
           permit_execution |-> pp.permit_execution,
           partial_path_hash |-> pp.partial_path_hash ]

ASSUME CustodyAssumption ==
    /\ Contexts \subseteq CaptureContext
    /\ \A release \in Releases : releaseAccounted(release)   \* issuers account for them
    /\ IsPath(SealedPath) /\ verifyPartialPathCommitment(SealedPath)
    /\ parsedPath(SealedPath) = SealedPath   \* issuers write the schema's steps
    /\ IsPath(OtherPath)
    /\ MaxAlterations \in Nat

VARIABLES sealed,       \* what the issuer sealed: [era, context, receipt], or NULL
          held,         \* the copy custody holds
          alterations,  \* how many fields custody has replaced
          verdict       \* "none", "valid" or "invalid"

vars == <<sealed, held, alterations, verdict>>

Intent == "intent-1"
Args == "args-1"
SignatureAlgs == {"none", "Ed25519", "RS256"}
VerifyOptions == [issuerPublicKey : BOOLEAN, skipIntegritySignatureWithoutKey : BOOLEAN]

\* A draft; Completed says how the action was released and under which schema.
Draft(intent, alignment, gateway, path, context, alg) ==
    [ schema |-> NULL, release |-> NULL, privacy |-> NULL,
      session_id |-> "session-1", entry_hash |-> "entry-1", args_digest |-> Args,
      intent_context |-> intent, intent_alignment |-> alignment,
      causal_lineage |-> NULL, gateway_attestation |-> gateway, partial_path |-> path,
      governance |-> GovernanceOf(context), proof_strength_disclosure_digest |-> NULL,
      receipt_digest |-> NULL, signature_alg |-> alg, signature |-> NULL ]

\* What a current issuer drafts; it may stamp the disclosure.
CurrentDraft(intent, gateway, path, context, stamp, alg) ==
    LET alignment == IF intent = NULL THEN NULL ELSE evaluateIntentAlignment(intent, Args)
        draft == Draft(intent, alignment, gateway, path, context, alg)
    IN IF stamp THEN applyProofStrengthDisclosureDigestBinding(draft) ELSE draft

Complete(draft, schema, release) == [draft EXCEPT !.schema = schema, !.release = release]

Completed(draft) == {Complete(draft, s, r) : s \in SCHEMAS, r \in Releases}

Init ==
    /\ sealed = NULL
    /\ held = NULL
    /\ alterations = 0
    /\ verdict = "none"

Issue(draft, era, context) ==
    /\ held = NULL
    /\ \E complete \in Completed(draft) : \E receipt \in SealedForms(complete, era) :
         /\ sealed' = [era |-> era, context |-> context, receipt |-> receipt]
         /\ held' = receipt
    /\ UNCHANGED <<alterations, verdict>>

IssueV1_0(alg) ==
    Issue(Draft(NULL, NULL, NULL, NULL, NULL, alg), "v1_0", NULL)

IssueIntentContext(alignment, alg) ==
    Issue(Draft(Intent, alignment, NULL, NULL, NULL, alg), "v1_intent_context", NULL)

IssueCurrent(intent, gateway, path, context, stamp, alg) ==
    Issue(CurrentDraft(intent, gateway, path, context, stamp, alg), "current", context)

\* The sealed path with absolute indices added to its steps.
IndexedPath ==
    [SealedPath EXCEPT !.partial_steps = [k \in DOMAIN @ |-> [@[k] EXCEPT !.step_index = k]]]

\* Values a field may take from another receipt, or from being dropped.
Strays ==
    [ schema |-> SCHEMAS,
      release |-> Releases \cup {[r EXCEPT !.hitl_status = "expired"] : r \in Releases},
      privacy |-> {NULL} \cup [shredded_at : {"shredded"},
                               erasure_certificate_id : {NULL, "certificate"}],
      args_digest |-> {"args-2"},
      intent_context |-> {NULL, Intent, "intent-2"},
      intent_alignment |-> {NULL, evaluateIntentAlignment(Intent, Args),
                            evaluateIntentAlignment("intent-2", Args)},
      causal_lineage |-> {NULL, "parent-2"},
      gateway_attestation |-> {NULL, "attestation-2"},
      partial_path |-> {NULL, OtherPath, IndexedPath,
                        [OtherPath EXCEPT !.partial_path_hash =
                           SealedPath.partial_path_hash]},
      governance |-> {GovernanceOf(c) : c \in Contexts} \cup {NULL},
      proof_strength_disclosure_digest |->
        {NULL} \cup {GovernanceOf(c).disclosure_digest : c \in Contexts} ]

Alter(field, value) ==
    /\ held # NULL
    /\ verdict = "none"
    /\ alterations < MaxAlterations
    /\ held[field] # value
    /\ held' = [held EXCEPT ![field] = value]
    /\ alterations' = alterations + 1
    /\ UNCHANGED <<sealed, verdict>>

Verify(options) ==
    /\ held # NULL
    /\ verdict = "none"
    /\ verdict' = IF verifyReceipt(held, options) THEN "valid" ELSE "invalid"
    /\ UNCHANGED <<sealed, held, alterations>>

Next ==
    \/ \E alg \in SignatureAlgs :
          \/ IssueV1_0(alg)
          \/ \E alignment \in {NULL, evaluateIntentAlignment(Intent, Args)} :
                IssueIntentContext(alignment, alg)
          \/ \E intent \in {NULL, Intent}, gateway \in {NULL, "attestation-1"},
               path \in {NULL, SealedPath}, context \in Contexts \cup {NULL},
               stamp \in BOOLEAN : IssueCurrent(intent, gateway, path, context, stamp, alg)
    \/ \E field \in DOMAIN Strays : \E value \in Strays[field] : Alter(field, value)
    \/ \E options \in VerifyOptions : Verify(options)

Spec == Init /\ [][Next]_vars
-----------------------------------------------------------------------------
\* The fields the issuer's digest covered.
SealedFields ==
    {"schema", "release", "session_id", "entry_hash", "args_digest"} \cup
      {k \in receiptDigestKeysForProfile(sealed.era) : sealed.receipt[k] # NULL}

\* The digests issuers compute, and the records a receipt and its copies are.
Drafts ==
    {Draft(intent, alignment, NULL, NULL, NULL, alg) :
       intent \in {NULL, Intent}, alignment \in {NULL, evaluateIntentAlignment(Intent, Args)},
       alg \in SignatureAlgs}
    \cup {CurrentDraft(intent, gateway, path, context, stamp, alg) :
            intent \in {NULL, Intent}, gateway \in {NULL, "attestation-1"},
            path \in {NULL, SealedPath}, context \in Contexts \cup {NULL},
            stamp \in BOOLEAN, alg \in SignatureAlgs}

Digests ==
    {computeReceiptDigest(complete, era) :
       complete \in UNION {Completed(draft) : draft \in Drafts}, era \in ReceiptDigestProfile}

Signatures == [signs : Digests \cup {NULL}]

Receipts ==
    [ schema : Strays.schema, release : Strays.release, privacy : Strays.privacy,
      session_id : {"session-1"}, entry_hash : {"entry-1"},
      args_digest : Strays.args_digest \cup {Args},
      intent_context : Strays.intent_context,
      intent_alignment : Strays.intent_alignment,
      causal_lineage : Strays.causal_lineage,
      gateway_attestation : Strays.gateway_attestation \cup {"attestation-1"},
      partial_path : Strays.partial_path \cup {SealedPath},
      governance : Strays.governance,
      proof_strength_disclosure_digest : Strays.proof_strength_disclosure_digest,
      receipt_digest : Digests, signature_alg : SignatureAlgs,
      signature : Signatures \cup {NULL} ]

Seals == [era : ReceiptDigestProfile, context : Contexts \cup {NULL}, receipt : Receipts]

\* A missing value is none of the others.
ASSUME NullAssumption ==
    /\ NULL \notin ReceiptDigestProfile
    /\ NULL \notin Receipts
    /\ NULL \notin Seals
    /\ NULL \notin Digests \cup Signatures
    /\ NULL # evaluateIntentAlignment(Intent, Args)

KeyAtHand == [issuerPublicKey |-> TRUE, skipIntegritySignatureWithoutKey |-> FALSE]

\* Type invariant: a held copy is a receipt, exists exactly when something was
\* sealed, and keeps the integrity block it was issued with.
TypeOK ==
    /\ verdict \in {"none", "valid", "invalid"}
    /\ alterations \in 0..MaxAlterations
    /\ sealed = NULL \/ sealed \in Seals
    /\ held = NULL \/ held \in Receipts
    /\ held = NULL <=> sealed = NULL
    /\ sealed = NULL => verdict = "none" /\ alterations = 0
    /\ sealed # NULL =>
         \A f \in {"receipt_digest", "signature_alg", "signature"} :
            held[f] = sealed.receipt[f]

\* Tampering any digest-bound field after seal fails verification
\* (LIABILITY_RECEIPT_CONFORMANCE.md LR-I-002), whichever profile the altered
\* copy happens to match, with or without the issuer's key, and also when the
\* partial path keeps its hash and loses its content.  It speaks of the receipt
\* as parsed: what the parser drops may have been added.
AcceptedFieldsAsSealed ==
    verdict = "valid" =>
      \A f \in SealedFields :
         parseLiabilityReceiptStructure(held)[f] = sealed.receipt[f]

\* The fall-back to legacy profiles, which leave these pillars out of the
\* digest, lets nobody attach one to a receipt sealed without it.
NoPillarGrafted ==
    verdict = "valid" =>
      \A f \in {"gateway_attestation", "causal_lineage", "partial_path"} :
         parseLiabilityReceiptStructure(held)[f] = sealed.receipt[f]

\* PC-08: governance is outside the digest, yet the mode read off an accepted
\* receipt whose disclosure was stamped is the mode the action was captured in.
StampedDisclosureTruthful ==
    verdict = "valid" /\ sealed.receipt.proof_strength_disclosure_digest # NULL
      => held.governance.enforcement_mode = DerivedEnforcementMode(sealed.context)

\* Sealing and verifying agree: a receipt of the first or the current era that
\* nobody touched verifies with the issuer's key, whatever the capture context
\* derived for its disclosure.
UntouchedVerifies ==
    held # NULL /\ alterations = 0 /\ sealed.era # "v1_intent_context"
      => verifyReceipt(held, KeyAtHand)

\* Legacy receipts without digest-bound intent_alignment MUST verify under the
\* v1_intent_context profile (LIABILITY_RECEIPT_CONFORMANCE.md LR-I-004).
LegacyIntentContextVerifies ==
    held # NULL /\ alterations = 0 /\ sealed.era = "v1_intent_context"
      => verifyReceipt(held, KeyAtHand)

\* When intent_context is present, intent_alignment MUST be digest-bound
\* (LIABILITY_RECEIPT_CONFORMANCE.md LR-I-003): an accepted current-era copy
\* states no intent its issuer did not seal.
StatedIntentWasSealed ==
    verdict = "valid" /\ sealed.era # "v1_intent_context"
      => held.intent_context = sealed.receipt.intent_context
=============================================================================
