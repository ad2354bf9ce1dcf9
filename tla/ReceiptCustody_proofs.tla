----------------------- MODULE ReceiptCustody_proofs -----------------------
(***************************************************************************)
(* Proofs about the custody of one receipt, for any capture contexts, any  *)
(* paths, any rule of alignment and any number of alterations: what an     *)
(* accepted copy must have kept, and what it cannot have gained.           *)
(***************************************************************************)
EXTENDS ReceiptCustody, LiabilityReceipt_proofs

\* Custody leaves the stored digest, which is that of the sealed receipt under
\* its era's profile, and hands on documents of the receipt's shape.
CustodyIntact ==
    /\ DOMAIN held = ReceiptFields
    /\ held.partial_path # NULL => IsPath(held.partial_path)
    /\ held.receipt_digest = computeReceiptDigest(sealed.receipt, sealed.era)

\* What an issuer of the era seals.
WellSealed ==
    /\ sealed.era \in ReceiptDigestProfile
    /\ sealed.receipt.partial_path \in {NULL, SealedPath}
    /\ sealed.era # "current" =>
         \A f \in {"gateway_attestation", "causal_lineage", "partial_path",
                   "proof_strength_disclosure_digest"} : sealed.receipt[f] = NULL
    /\ sealed.receipt.proof_strength_disclosure_digest # NULL =>
         /\ sealed.context # NULL
         /\ sealed.receipt.proof_strength_disclosure_digest
              = GovernanceOf(sealed.context).disclosure_digest

IInv ==
    /\ held # NULL => CustodyIntact /\ WellSealed
    /\ held = NULL => verdict = "none"
    /\ AcceptedFieldsAsSealed
    /\ NoPillarGrafted
    /\ StampedDisclosureTruthful

-----------------------------------------------------------------------------
-----------------------------------------------------------------------------
\* A path that keeps the hash it was sealed with parses to the sealed path.
LEMMA PathAsSealed ==
    ASSUME NEW pp, IsPath(pp), pp.partial_path_hash = SealedPath.partial_path_hash,
           verifyPartialPathCommitment(parsedPath(pp)), pp # NULL
    PROVE  parsedPath(pp) = SealedPath
<1> DEFINE q == parsedPath(pp)
<1>1. IsPath(q) /\ q.partial_path_hash = pp.partial_path_hash
  BY DEF parsedPath, IsPath
<1>2. PathPreimage(q) = PathPreimage(SealedPath)
  BY <1>1, CustodyAssumption DEF verifyPartialPathCommitment
<1>3. /\ q.session_id = SealedPath.session_id
      /\ q.step_index = SealedPath.step_index
      /\ q.partial_steps = SealedPath.partial_steps
      /\ q.capability_budget = SealedPath.capability_budget
      /\ q.permit_execution = SealedPath.permit_execution
  BY <1>2 DEF PathPreimage
<1>4. IsPath(SealedPath) /\ q.partial_path_hash = SealedPath.partial_path_hash
  BY <1>1, CustodyAssumption
<1> QED
  BY <1>1, <1>3, <1>4 DEF IsPath

\* An accepted copy matched its digest under some profile p; these are the
\* facts about the digest the three properties follow from.
LEMMA AcceptedDigest ==
    ASSUME CustodyIntact, NEW options, verifyReceipt(held, options)
    PROVE  \E p \in ReceiptDigestProfile :
             /\ computeReceiptDigest(held, p) = computeReceiptDigest(sealed.receipt, sealed.era)
             /\ p # "current" =>
                  \A f \in {"gateway_attestation", "causal_lineage", "partial_path"} :
                     held[f] = NULL
<1> DEFINE p == verifyReceiptDigestMatch(held)
<1>1. p # NULL
  BY Accepted
<1>2. p \in ReceiptDigestProfile /\ computeReceiptDigest(held, p) = held.receipt_digest
  <2>1. held.partial_path # NULL => parsedPath(held.partial_path) # NULL
    BY Accepted, Parsed DEF CustodyIntact, verifyPartialPathCommitment
  <2>2. held.partial_path # NULL => DOMAIN held.partial_path = PathFields
    BY DEF CustodyIntact, IsPath, PathFields
  <2> QED
    BY <1>1, <2>1, <2>2, MatchedProfile DEF CustodyIntact, Parseable
<1>3. p # "current" =>
        \A f \in {"gateway_attestation", "causal_lineage", "partial_path"} : held[f] = NULL
  BY Accepted
<1> QED
  BY <1>2, <1>3 DEF CustodyIntact

\* An accepted copy has every sealed field as sealed.
LEMMA AcceptedAsSealed ==
    ASSUME CustodyIntact, WellSealed, NEW options, verifyReceipt(held, options),
           NEW f \in SealedFields
    PROVE  parseLiabilityReceiptStructure(held)[f] = sealed.receipt[f]
<1>1. PICK p \in ReceiptDigestProfile :
        computeReceiptDigest(held, p) = computeReceiptDigest(sealed.receipt, sealed.era)
  BY AcceptedDigest
<1>2. /\ held.schema = sealed.receipt.schema
      /\ held.release = sealed.receipt.release
      /\ held.session_id = sealed.receipt.session_id
      /\ held.entry_hash = sealed.receipt.entry_hash
      /\ held.args_digest = sealed.receipt.args_digest
      /\ \A k \in receiptDigestKeysForProfile(sealed.era) : sealed.receipt[k] # NULL =>
           /\ held[k] # NULL
           /\ digestValueForKey(held, k) = digestValueForKey(sealed.receipt, k)
  BY <1>1, DigestInjective
<1>3. receiptDigestKeysForProfile(sealed.era) \subseteq PILLARS
  BY DEF WellSealed, receiptDigestKeysForProfile, ReceiptDigestProfile, PILLARS
<1>4. f \in ReceiptFields
  BY <1>3 DEF SealedFields, PILLARS, ReceiptFields
<1>5. CASE f = "partial_path"
  <2>1. f \in receiptDigestKeysForProfile(sealed.era) /\ sealed.receipt[f] # NULL
    BY <1>5 DEF SealedFields
  <2>2. /\ held.partial_path # NULL
        /\ canonicalizePartialPathForDigest(held.partial_path)
             = canonicalizePartialPathForDigest(sealed.receipt.partial_path)
    BY <1>2, <1>5, <2>1 DEF digestValueForKey
  <2>3. sealed.receipt.partial_path = SealedPath
    BY <1>5, <2>1 DEF WellSealed
  <2>4. /\ IsPath(held.partial_path)
        /\ held.partial_path.partial_path_hash = SealedPath.partial_path_hash
    BY <1>5, <2>1, <2>2, <2>3 DEF CustodyIntact, canonicalizePartialPathForDigest
  <2>5. parseLiabilityReceiptStructure(held).partial_path = parsedPath(held.partial_path)
    BY Parsed DEF CustodyIntact
  <2>6. parsedPath(held.partial_path) = SealedPath
    BY <2>2, <2>4, <2>5, Accepted, PathAsSealed
  <2> QED
    BY <1>5, <2>3, <2>5, <2>6
<1>6. CASE f # "partial_path"
  <2>1. parseLiabilityReceiptStructure(held)[f] = held[f]
    BY <1>4, <1>6, Parsed DEF CustodyIntact
  <2>2. held[f] = sealed.receipt[f]
    BY <1>2, <1>6 DEF SealedFields, digestValueForKey
  <2> QED
    BY <2>1, <2>2
<1> QED
  BY <1>5, <1>6

\* An accepted copy has no pillar its issuer did not seal: the profile it
\* matched either binds the pillar, and so did the issuer's, or refuses it.
LEMMA AcceptedGainsNoPillar ==
    ASSUME CustodyIntact, WellSealed, NEW options, verifyReceipt(held, options),
           NEW f \in {"gateway_attestation", "causal_lineage", "partial_path"}
    PROVE  parseLiabilityReceiptStructure(held)[f] = sealed.receipt[f]
<1> DEFINE parsed == parseLiabilityReceiptStructure(held)
<1>1. CASE sealed.receipt[f] # NULL
  <2>1. sealed.era = "current"
    BY <1>1 DEF WellSealed
  <2>2. f \in SealedFields
    BY <1>1, <2>1 DEF SealedFields, receiptDigestKeysForProfile, PILLARS
  <2> QED
    BY <2>2, AcceptedAsSealed
<1>2. CASE sealed.receipt[f] = NULL
  <2>1. PICK p \in ReceiptDigestProfile :
          /\ computeReceiptDigest(held, p) = computeReceiptDigest(sealed.receipt, sealed.era)
          /\ p # "current" =>
               \A k \in {"gateway_attestation", "causal_lineage", "partial_path"} :
                  held[k] = NULL
    BY AcceptedDigest
  <2>2. held[f] = NULL
    <3>1. CASE p = "current"
      <4>1. f \in receiptDigestKeysForProfile(p)
        BY <3>1 DEF receiptDigestKeysForProfile, PILLARS
      <4>2. held[f] # NULL => sealed.receipt[f] # NULL
        BY <2>1, <4>1, DigestInjective
      <4> QED
        BY <1>2, <4>2
    <3>2. CASE p # "current"
      BY <2>1, <3>2
    <3> QED
      BY <3>1, <3>2
  <2>3. parsed[f] = NULL
    <3>1. DOMAIN held = ReceiptFields
      BY DEF CustodyIntact
    <3>2. CASE f = "partial_path"
      BY <2>2, <3>1, <3>2, Parsed DEF parsedPath
    <3>3. CASE f # "partial_path"
      BY <2>2, <3>1, <3>3, Parsed DEF ReceiptFields
    <3> QED
      BY <3>2, <3>3
  <2> QED
    BY <1>2, <2>3
<1> QED
  BY <1>1, <1>2

\* The disclosure of an accepted copy that was stamped tells the true mode.
LEMMA AcceptedDisclosure ==
    ASSUME CustodyIntact, WellSealed, NEW options, verifyReceipt(held, options),
           sealed.receipt.proof_strength_disclosure_digest # NULL
    PROVE  held.governance.enforcement_mode = DerivedEnforcementMode(sealed.context)
<1> DEFINE stamp == "proof_strength_disclosure_digest"
<1>1. sealed.era = "current"
  BY DEF WellSealed
<1>2. stamp \in SealedFields
  BY <1>1 DEF SealedFields, receiptDigestKeysForProfile, PILLARS
<1>3. parseLiabilityReceiptStructure(held)[stamp] = sealed.receipt[stamp]
  BY <1>2, AcceptedAsSealed
<1>4. held[stamp] = sealed.receipt[stamp]
  BY <1>3, Parsed DEF CustodyIntact, ReceiptFields
<1>5. /\ verifyProofStrengthDisclosure(held.governance)
      /\ held.governance.disclosure_digest = sealed.receipt[stamp]
  BY <1>4, Accepted DEF verifyProofStrengthDisclosureReceiptBinding
<1>6. held.governance.disclosure_digest = DisclosurePreimage(held.governance)
  BY <1>5 DEF verifyProofStrengthDisclosure
<1>7. /\ sealed.context # NULL
      /\ sealed.receipt[stamp] = GovernanceOf(sealed.context).disclosure_digest
  BY DEF WellSealed
<1>8. DisclosurePreimage(held.governance).enforcement_mode
        = DerivedEnforcementMode(sealed.context)
  BY <1>5, <1>6, <1>7, DisclosedMode
<1> QED
  BY <1>8 DEF DisclosurePreimage

-----------------------------------------------------------------------------
\* The invariant holds before a receipt is sealed.
LEMMA IInvInit == Init => IInv
  BY DEF Init, IInv, AcceptedFieldsAsSealed, NoPillarGrafted, StampedDisclosureTruthful

\* An issuer's draft: its shape, and what its era allows in it.
WellDrafted(draft, era, context) ==
    /\ era \in ReceiptDigestProfile
    /\ DOMAIN draft = ReceiptFields
    /\ draft.partial_path \in {NULL, SealedPath}
    /\ era # "current" =>
         \A f \in {"gateway_attestation", "causal_lineage", "partial_path",
                   "proof_strength_disclosure_digest"} : draft[f] = NULL
    /\ draft.proof_strength_disclosure_digest # NULL =>
         /\ context # NULL
         /\ draft.proof_strength_disclosure_digest = GovernanceOf(context).disclosure_digest

\* Completing a draft adds the schema and the way the action was released.
LEMMA CompletedFields ==
    ASSUME NEW draft, DOMAIN draft = ReceiptFields, NEW complete \in Completed(draft)
    PROVE  /\ DOMAIN complete = ReceiptFields
           /\ \A f \in ReceiptFields \ {"schema", "release"} : complete[f] = draft[f]
           /\ complete.schema \in SCHEMAS
           /\ complete.release \in Releases
<1>1. PICK s \in SCHEMAS, release \in Releases : complete = Complete(draft, s, release)
  BY DEF Completed
<1> QED
  BY <1>1 DEF Complete, ReceiptFields

\* Sealing a draft its era allows establishes what custody must keep.
LEMMA IInvIssue ==
    ASSUME IInv, NEW draft, NEW era, NEW context, WellDrafted(draft, era, context),
           Issue(draft, era, context)
    PROVE  IInv'
<1>1. PICK complete \in Completed(draft) : \E receipt \in SealedForms(complete, era) :
        /\ sealed' = [era |-> era, context |-> context, receipt |-> receipt]
        /\ held' = receipt
  BY DEF Issue
<1> PICK receipt \in SealedForms(complete, era) :
      /\ sealed' = [era |-> era, context |-> context, receipt |-> receipt]
      /\ held' = receipt
  BY <1>1
<1>2. /\ DOMAIN receipt = ReceiptFields
      /\ \A f \in ReceiptFields \ {"receipt_digest", "signature", "schema", "release"} :
           receipt[f] = draft[f]
      /\ receipt.receipt_digest = computeReceiptDigest(receipt, era)
  <2>1. /\ DOMAIN complete = ReceiptFields
        /\ \A f \in ReceiptFields \ {"schema", "release"} : complete[f] = draft[f]
    BY CompletedFields DEF WellDrafted
  <2>2. era \in ReceiptDigestProfile
    BY DEF WellDrafted
  <2> QED
    BY <2>1, <2>2, SealedFormDigest
<1>3. receipt.partial_path \in {NULL, SealedPath}
  BY <1>2 DEF WellDrafted, ReceiptFields
<1>4. CustodyIntact'
  BY <1>2, <1>3, CustodyAssumption DEF CustodyIntact
<1>5. WellSealed'
  BY <1>2, <1>3 DEF WellSealed, WellDrafted, ReceiptFields
<1>6. verdict' = "none"
  BY DEF Issue, IInv
<1> QED
  BY <1>4, <1>5, <1>6
     DEF IInv, AcceptedFieldsAsSealed, NoPillarGrafted, StampedDisclosureTruthful

\* What the legacy issuers draft; they stamp nothing.
LEMMA LegacyDraft ==
    ASSUME NEW era \in {"v1_0", "v1_intent_context"}, NEW intent, NEW alignment, NEW alg
    PROVE  WellDrafted(Draft(intent, alignment, NULL, NULL, NULL, alg), era, NULL)
  BY DEF WellDrafted, Draft, ReceiptFields, ReceiptDigestProfile

\* What the current issuers draft, stamped or not.
LEMMA CurrentIsWellDrafted ==
    ASSUME NEW intent, NEW gateway, NEW path \in {NULL, SealedPath},
           NEW context, NEW stamp \in BOOLEAN, NEW alg
    PROVE  WellDrafted(CurrentDraft(intent, gateway, path, context, stamp, alg),
                       "current", context)
<1> DEFINE alignment == IF intent = NULL THEN NULL ELSE evaluateIntentAlignment(intent, Args)
           draft == Draft(intent, alignment, gateway, path, context, alg)
           stamped == applyProofStrengthDisclosureDigestBinding(draft)
<1>1. /\ DOMAIN draft = ReceiptFields
      /\ draft.partial_path = path
      /\ draft.governance = GovernanceOf(context)
      /\ draft.proof_strength_disclosure_digest = NULL
  BY DEF Draft, ReceiptFields
<1>2. WellDrafted(draft, "current", context)
  BY <1>1 DEF WellDrafted, ReceiptDigestProfile
<1>3. /\ DOMAIN stamped = ReceiptFields
      /\ stamped.partial_path = path
  BY <1>1 DEF applyProofStrengthDisclosureDigestBinding, ReceiptFields
<1>4. stamped.proof_strength_disclosure_digest # NULL =>
        /\ draft.governance # NULL
        /\ stamped.proof_strength_disclosure_digest = draft.governance.disclosure_digest
  BY <1>1 DEF applyProofStrengthDisclosureDigestBinding, ReceiptFields
<1>5. draft.governance # NULL => context # NULL
  BY <1>1 DEF GovernanceOf
<1>6. WellDrafted(stamped, "current", context)
  BY <1>1, <1>3, <1>4, <1>5 DEF WellDrafted, ReceiptDigestProfile
<1> QED
  BY <1>2, <1>6 DEF CurrentDraft

\* Custody replaces fields, never the stored digest.
LEMMA IInvAlter ==
    ASSUME IInv, NEW field \in DOMAIN Strays, NEW value \in Strays[field], Alter(field, value)
    PROVE  IInv'
<1>1. /\ held # NULL /\ sealed' = sealed /\ verdict' = "none"
      /\ held' = [held EXCEPT ![field] = value]
  BY DEF Alter
<1>2. CustodyIntact /\ WellSealed
  BY <1>1 DEF IInv
<1>3. field \in ReceiptFields \ {"receipt_digest"}
  BY DEF Strays, ReceiptFields
<1>4. DOMAIN held' = ReceiptFields /\ held'.receipt_digest = held.receipt_digest
  BY <1>1, <1>2, <1>3 DEF CustodyIntact, ReceiptFields
<1>5. held'.partial_path # NULL => IsPath(held'.partial_path)
  <2>1. CASE field = "partial_path"
    <3>1. value \in {NULL, OtherPath, IndexedPath,
                     [OtherPath EXCEPT !.partial_path_hash = SealedPath.partial_path_hash]}
      BY <2>1 DEF Strays
    <3>2. held'.partial_path = value
      BY <1>1, <1>2, <2>1 DEF CustodyIntact, ReceiptFields
    <3>3. IsPath(IndexedPath)
      BY CustodyAssumption DEF IndexedPath, IsPath
    <3>4. IsPath([OtherPath EXCEPT !.partial_path_hash = SealedPath.partial_path_hash])
      BY CustodyAssumption DEF IsPath
    <3> QED
      BY <3>1, <3>2, <3>3, <3>4, CustodyAssumption
  <2>2. CASE field # "partial_path"
    <3>1. held'.partial_path = held.partial_path
      BY <1>1, <1>2, <2>2 DEF CustodyIntact, ReceiptFields
    <3> QED
      BY <3>1, <1>2 DEF CustodyIntact
  <2> QED
    BY <2>1, <2>2
<1>6. CustodyIntact' /\ WellSealed'
  BY <1>1, <1>2, <1>4, <1>5 DEF CustodyIntact, WellSealed
<1> QED
  BY <1>1, <1>6
     DEF IInv, AcceptedFieldsAsSealed, NoPillarGrafted, StampedDisclosureTruthful

\* A verdict of verifyReceipt on a copy custody kept intact is right.
LEMMA IInvVerify ==
    ASSUME IInv, NEW options \in VerifyOptions, Verify(options)
    PROVE  IInv'
<1>1. /\ held # NULL /\ UNCHANGED <<sealed, held>>
      /\ verdict' = "valid" => verifyReceipt(held, options)
  BY DEF Verify
<1>2. CustodyIntact /\ WellSealed
  BY <1>1 DEF IInv
<1>3. CustodyIntact' /\ WellSealed'
  BY <1>1, <1>2 DEF CustodyIntact, WellSealed
<1>4. AcceptedFieldsAsSealed'
  BY <1>1, <1>2, AcceptedAsSealed DEF AcceptedFieldsAsSealed, SealedFields
<1>5. NoPillarGrafted'
  BY <1>1, <1>2, AcceptedGainsNoPillar DEF NoPillarGrafted
<1>6. StampedDisclosureTruthful'
  BY <1>1, <1>2, AcceptedDisclosure DEF StampedDisclosureTruthful
<1> QED
  BY <1>1, <1>3, <1>4, <1>5, <1>6 DEF IInv

\* Every step in the life of a receipt preserves the invariant.
LEMMA IInvNext == IInv /\ [Next]_vars => IInv'
<1> SUFFICES ASSUME IInv, [Next]_vars PROVE IInv'
  OBVIOUS
<1>1. CASE UNCHANGED vars
  BY <1>1 DEF vars, IInv, CustodyIntact, WellSealed, AcceptedFieldsAsSealed, SealedFields,
              NoPillarGrafted, StampedDisclosureTruthful
<1>2. ASSUME NEW alg \in SignatureAlgs, IssueV1_0(alg) PROVE IInv'
  BY <1>2, LegacyDraft, IInvIssue DEF IssueV1_0
<1>3. ASSUME NEW alg \in SignatureAlgs,
             NEW alignment \in {NULL, evaluateIntentAlignment(Intent, Args)},
             IssueIntentContext(alignment, alg)
      PROVE  IInv'
  BY <1>3, LegacyDraft, IInvIssue DEF IssueIntentContext
<1>4. ASSUME NEW alg \in SignatureAlgs, NEW intent \in {NULL, Intent},
             NEW gateway \in {NULL, "attestation-1"}, NEW path \in {NULL, SealedPath},
             NEW context \in Contexts \cup {NULL}, NEW stamp \in BOOLEAN,
             IssueCurrent(intent, gateway, path, context, stamp, alg)
      PROVE  IInv'
  BY <1>4, CurrentIsWellDrafted, IInvIssue DEF IssueCurrent
<1>5. ASSUME NEW field \in DOMAIN Strays, NEW value \in Strays[field], Alter(field, value)
      PROVE  IInv'
  BY <1>5, IInvAlter
<1>6. ASSUME NEW options \in VerifyOptions, Verify(options) PROVE IInv'
  BY <1>6, IInvVerify
<1> QED
  BY <1>1, <1>2, <1>3, <1>4, <1>5, <1>6 DEF Next

\* The invariant holds throughout the life of every receipt.
THEOREM Invariance == Spec => []IInv
  BY IInvInit, IInvNext, PTL DEF Spec

\* Tampering any digest-bound field after seal fails verification (LR-I-002),
\* however often custody alters the copy and whichever legacy profile it is
\* made to match.
THEOREM SealedFieldsKept == Spec => []AcceptedFieldsAsSealed
<1>1. IInv => AcceptedFieldsAsSealed
  BY DEF IInv
<1> QED
  BY <1>1, Invariance, PTL

\* No fall-back to a legacy profile lets an accepted copy gain a pillar.
THEOREM PillarsNotGrafted == Spec => []NoPillarGrafted
<1>1. IInv => NoPillarGrafted
  BY DEF IInv
<1> QED
  BY <1>1, Invariance, PTL

\* The mode disclosed by an accepted copy that was stamped is the mode of the
\* capture, in any set of capture contexts (PC-08).
THEOREM DisclosureTruthful == Spec => []StampedDisclosureTruthful
<1>1. IInv => StampedDisclosureTruthful
  BY DEF IInv
<1> QED
  BY <1>1, Invariance, PTL

-----------------------------------------------------------------------------
\* The fields of any draft an issuer makes, before it is completed.
DraftFields(draft) ==
    /\ draft.privacy = NULL
    /\ draft.session_id = "session-1"
    /\ draft.entry_hash = "entry-1"
    /\ draft.args_digest = Args
    /\ draft.intent_context \in {NULL, Intent}
    /\ draft.intent_alignment \in {NULL, evaluateIntentAlignment(Intent, Args)}
    /\ draft.causal_lineage = NULL
    /\ draft.gateway_attestation \in {NULL, "attestation-1"}
    /\ draft.partial_path \in {NULL, SealedPath}
    /\ draft.governance \in Strays.governance
    /\ draft.proof_strength_disclosure_digest \in Strays.proof_strength_disclosure_digest
    /\ draft.signature_alg \in SignatureAlgs
    /\ draft.receipt_digest = NULL
    /\ draft.signature = NULL

IsRecord(draft) ==
    draft = [ schema |-> draft.schema, release |-> draft.release, privacy |-> draft.privacy,
              session_id |-> draft.session_id, entry_hash |-> draft.entry_hash,
              args_digest |-> draft.args_digest, intent_context |-> draft.intent_context,
              intent_alignment |-> draft.intent_alignment,
              causal_lineage |-> draft.causal_lineage,
              gateway_attestation |-> draft.gateway_attestation,
              partial_path |-> draft.partial_path, governance |-> draft.governance,
              proof_strength_disclosure_digest |-> draft.proof_strength_disclosure_digest,
              receipt_digest |-> draft.receipt_digest,
              signature_alg |-> draft.signature_alg, signature |-> draft.signature ]

\* What each field of a receipt may hold.
FieldsTyped(r) ==
    /\ r.schema \in Strays.schema /\ r.release \in Strays.release
    /\ r.privacy \in Strays.privacy
    /\ r.session_id \in {"session-1"} /\ r.entry_hash \in {"entry-1"}
    /\ r.args_digest \in Strays.args_digest \cup {Args}
    /\ r.intent_context \in Strays.intent_context
    /\ r.intent_alignment \in Strays.intent_alignment
    /\ r.causal_lineage \in Strays.causal_lineage
    /\ r.gateway_attestation \in Strays.gateway_attestation \cup {"attestation-1"}
    /\ r.partial_path \in Strays.partial_path \cup {SealedPath}
    /\ r.governance \in Strays.governance
    /\ r.proof_strength_disclosure_digest \in Strays.proof_strength_disclosure_digest
    /\ r.receipt_digest \in Digests /\ r.signature_alg \in SignatureAlgs
    /\ r.signature \in Signatures \cup {NULL}

\* The disclosure a stamp is taken from is that of a capture context.
LEMMA DraftTyped ==
    ASSUME NEW draft \in Drafts
    PROVE  IsRecord(draft) /\ DraftFields(draft)
<1>1. ASSUME NEW intent \in {NULL, Intent},
             NEW alignment \in {NULL, evaluateIntentAlignment(Intent, Args)},
             NEW alg \in SignatureAlgs,
             draft = Draft(intent, alignment, NULL, NULL, NULL, alg)
      PROVE  IsRecord(draft) /\ DraftFields(draft)
  BY <1>1 DEF Draft, GovernanceOf, Strays, IsRecord, DraftFields
<1>2. ASSUME NEW intent \in {NULL, Intent}, NEW gateway \in {NULL, "attestation-1"},
             NEW path \in {NULL, SealedPath}, NEW context \in Contexts \cup {NULL},
             NEW stamp \in BOOLEAN, NEW alg \in SignatureAlgs,
             draft = CurrentDraft(intent, gateway, path, context, stamp, alg)
      PROVE  IsRecord(draft) /\ DraftFields(draft)
  <2> DEFINE alignment == IF intent = NULL THEN NULL ELSE evaluateIntentAlignment(intent, Args)
             plain == Draft(intent, alignment, gateway, path, context, alg)
             stamped == applyProofStrengthDisclosureDigestBinding(plain)
  <2>1. alignment \in {NULL, evaluateIntentAlignment(Intent, Args)}
    OBVIOUS
  <2>2. GovernanceOf(context) \in Strays.governance
    BY DEF Strays, GovernanceOf
  <2>3. NULL \in Strays.proof_strength_disclosure_digest
    BY DEF Strays
  <2>4. IsRecord(plain) /\ DraftFields(plain)
    BY <2>1, <2>2, <2>3 DEF Draft, IsRecord, DraftFields
  <2>5. /\ plain.governance = GovernanceOf(context)
        /\ plain.proof_strength_disclosure_digest = NULL
    BY DEF Draft
  <2>6. GovernanceOf(context) # NULL =>
          GovernanceOf(context).disclosure_digest \in Strays.proof_strength_disclosure_digest
    BY DEF Strays, GovernanceOf
  <2>7. \E d \in Strays.proof_strength_disclosure_digest :
          stamped = [plain EXCEPT !.proof_strength_disclosure_digest = d]
    BY <2>3, <2>5, <2>6 DEF applyProofStrengthDisclosureDigestBinding
  <2>8. ASSUME NEW d \in Strays.proof_strength_disclosure_digest,
               stamped = [plain EXCEPT !.proof_strength_disclosure_digest = d]
        PROVE  IsRecord(stamped) /\ DraftFields(stamped)
    BY <2>4, <2>8 DEF IsRecord, DraftFields
  <2> QED
    BY <1>2, <2>4, <2>7, <2>8 DEF CurrentDraft
<1> QED
  BY <1>1, <1>2 DEF Drafts

\* Every issuer's draft, completed and sealed, is a receipt.
LEMMA SealedTyped ==
    ASSUME NEW draft \in Drafts, NEW era \in ReceiptDigestProfile,
           NEW complete \in Completed(draft), NEW r \in SealedForms(complete, era)
    PROVE  r \in Receipts
<1> DEFINE digest == computeReceiptDigest(complete, era)
<1>1. /\ IsRecord(complete) /\ DraftFields(complete)
      /\ complete.schema \in SCHEMAS /\ complete.release \in Releases
  <2>1. IsRecord(draft) /\ DraftFields(draft)
    BY DraftTyped
  <2>2. PICK s \in SCHEMAS, release \in Releases : complete = Complete(draft, s, release)
    BY DEF Completed
  <2> QED
    BY <2>1, <2>2 DEF Complete, IsRecord, DraftFields
<1>2. digest \in Digests
  BY DEF Digests
<1>3. PICK signature \in Signatures \cup {NULL} :
        r = [complete EXCEPT !.receipt_digest = digest, !.signature = signature]
  <2>1. \A d \in {digest, NULL} : [signs |-> d] \in Signatures
    BY <1>2 DEF Signatures
  <2>2. \/ r = SealReceipt(complete, era)
        \/ r = [SealReceipt(complete, era) EXCEPT !.signature = [signs |-> NULL]]
    BY DEF SealedForms
  <2>3. \E signature \in Signatures \cup {NULL} : SealReceipt(complete, era)
          = [complete EXCEPT !.receipt_digest = digest, !.signature = signature]
    BY <2>1 DEF SealReceipt
  <2>4. \A signature : [[complete EXCEPT !.receipt_digest = digest, !.signature = signature]
           EXCEPT !.signature = [signs |-> NULL]]
          = [complete EXCEPT !.receipt_digest = digest, !.signature = [signs |-> NULL]]
    <3> HIDE DEF digest
    <3> QED
      BY <1>1 DEF IsRecord
  <2> QED
    BY <2>1, <2>2, <2>3, <2>4
<1>4. /\ Strays.args_digest = {"args-2"} /\ Strays.schema = SCHEMAS
      /\ Releases \subseteq Strays.release /\ NULL \in Strays.privacy
      /\ {NULL, Intent} \subseteq Strays.intent_context
      /\ {NULL, evaluateIntentAlignment(Intent, Args)} \subseteq Strays.intent_alignment
      /\ NULL \in Strays.causal_lineage /\ NULL \in Strays.gateway_attestation
      /\ NULL \in Strays.partial_path
  BY DEF Strays
<1>5. r = [ schema |-> complete.schema, release |-> complete.release,
            privacy |-> complete.privacy,
            session_id |-> complete.session_id, entry_hash |-> complete.entry_hash,
            args_digest |-> complete.args_digest,
            intent_context |-> complete.intent_context,
            intent_alignment |-> complete.intent_alignment,
            causal_lineage |-> complete.causal_lineage,
            gateway_attestation |-> complete.gateway_attestation,
            partial_path |-> complete.partial_path, governance |-> complete.governance,
            proof_strength_disclosure_digest |-> complete.proof_strength_disclosure_digest,
            receipt_digest |-> digest,
            signature_alg |-> complete.signature_alg, signature |-> signature ]
  <2> HIDE DEF digest
  <2> QED
    BY <1>1, <1>3 DEF IsRecord
<1>6. /\ complete.schema \in Strays.schema /\ complete.release \in Strays.release
      /\ complete.privacy \in Strays.privacy
      /\ complete.session_id \in {"session-1"} /\ complete.entry_hash \in {"entry-1"}
      /\ complete.args_digest \in Strays.args_digest \cup {Args}
      /\ complete.intent_context \in Strays.intent_context
      /\ complete.intent_alignment \in Strays.intent_alignment
      /\ complete.causal_lineage \in Strays.causal_lineage
      /\ complete.gateway_attestation \in Strays.gateway_attestation \cup {"attestation-1"}
      /\ complete.partial_path \in Strays.partial_path \cup {SealedPath}
      /\ complete.governance \in Strays.governance
      /\ complete.proof_strength_disclosure_digest \in Strays.proof_strength_disclosure_digest
      /\ complete.signature_alg \in SignatureAlgs
  BY <1>1, <1>4 DEF DraftFields
<1> QED
  BY <1>2, <1>5, <1>6 DEF Receipts

\* Every issuer drafts one of Drafts.
LEMMA TypeIssue ==
    ASSUME TypeOK, NEW draft \in Drafts, NEW era \in ReceiptDigestProfile,
           NEW context \in Contexts \cup {NULL}, Issue(draft, era, context)
    PROVE  TypeOK'
<1>1. /\ held = NULL /\ sealed = NULL /\ verdict = "none" /\ alterations = 0
      /\ UNCHANGED <<alterations, verdict>>
  BY DEF Issue, TypeOK
<1>2. held' \in Receipts /\ sealed' \in Seals /\ sealed'.receipt = held'
  BY SealedTyped DEF Issue, Seals
<1>3. held' # NULL /\ sealed' # NULL
  BY <1>2, NullAssumption
<1> QED
  BY <1>1, <1>2, <1>3 DEF TypeOK

\* A copy of a receipt with a stray field is a receipt, with its integrity
\* block untouched.
LEMMA TypeAlter ==
    ASSUME TypeOK, NEW field \in DOMAIN Strays, NEW value \in Strays[field],
           Alter(field, value)
    PROVE  TypeOK'
<1>1. /\ held # NULL /\ held \in Receipts /\ UNCHANGED <<sealed, verdict>>
      /\ verdict = "none" /\ alterations < MaxAlterations
      /\ alterations' = alterations + 1
      /\ held' = [held EXCEPT ![field] = value]
  BY DEF Alter, TypeOK
<1>2. held' \in Receipts
  <2>1. IsRecord(held) /\ DOMAIN held = ReceiptFields
    BY <1>1 DEF Receipts, IsRecord, ReceiptFields
  <2>2. field \in ReceiptFields
    BY DEF Strays, ReceiptFields
  <2>3. \A f \in ReceiptFields : held'[f] = IF f = field THEN value ELSE held[f]
    BY <1>1, <2>1, <2>2
  <2>4. IsRecord(held')
    BY <1>1, <2>1, <2>2, <2>3 DEF IsRecord, ReceiptFields
  <2>5. FieldsTyped(held)
    BY <1>1 DEF Receipts, FieldsTyped
  <2>6. FieldsTyped(held')
    <3>1. field \notin {"session_id", "entry_hash", "receipt_digest", "signature_alg",
                        "signature"}
      BY DEF Strays
    <3> QED
      BY <2>3, <2>5, <3>1 DEF ReceiptFields, FieldsTyped
  <2> QED
    BY <2>4, <2>6 DEF IsRecord, Receipts, FieldsTyped
<1>3. \A f \in {"receipt_digest", "signature_alg", "signature"} : held'[f] = held[f]
  BY <1>1 DEF Strays, Receipts
<1>4. held' # NULL
  BY <1>2, NullAssumption
<1>5. alterations' \in 0..MaxAlterations
  BY <1>1, CustodyAssumption DEF TypeOK
<1> QED
  BY <1>1, <1>2, <1>3, <1>4, <1>5 DEF TypeOK

\* Type correctness, for any contexts and paths.
THEOREM TypeCorrect == Spec => []TypeOK
<1>1. Init => TypeOK
  BY CustodyAssumption DEF Init, TypeOK
<1>2. TypeOK /\ [Next]_vars => TypeOK'
  <2> SUFFICES ASSUME TypeOK, [Next]_vars PROVE TypeOK'
    OBVIOUS
  <2>1. CASE UNCHANGED vars
    BY <2>1 DEF vars, TypeOK
  <2>2. ASSUME NEW alg \in SignatureAlgs, IssueV1_0(alg) PROVE TypeOK'
    <3>1. Draft(NULL, NULL, NULL, NULL, NULL, alg) \in Drafts
      BY DEF Drafts
    <3> QED
      BY <2>2, <3>1, TypeIssue DEF IssueV1_0, ReceiptDigestProfile
  <2>3. ASSUME NEW alg \in SignatureAlgs,
               NEW alignment \in {NULL, evaluateIntentAlignment(Intent, Args)},
               IssueIntentContext(alignment, alg)
        PROVE  TypeOK'
    <3>1. Draft(Intent, alignment, NULL, NULL, NULL, alg) \in Drafts
      BY DEF Drafts
    <3> QED
      BY <2>3, <3>1, TypeIssue DEF IssueIntentContext, ReceiptDigestProfile
  <2>4. ASSUME NEW alg \in SignatureAlgs, NEW intent \in {NULL, Intent},
               NEW gateway \in {NULL, "attestation-1"}, NEW path \in {NULL, SealedPath},
               NEW context \in Contexts \cup {NULL}, NEW stamp \in BOOLEAN,
               IssueCurrent(intent, gateway, path, context, stamp, alg)
        PROVE  TypeOK'
    <3>1. CurrentDraft(intent, gateway, path, context, stamp, alg) \in Drafts
      BY DEF Drafts
    <3> QED
      BY <2>4, <3>1, TypeIssue DEF IssueCurrent, ReceiptDigestProfile
  <2>5. ASSUME NEW field \in DOMAIN Strays, NEW value \in Strays[field], Alter(field, value)
        PROVE  TypeOK'
    BY <2>5, TypeAlter
  <2>6. ASSUME NEW options \in VerifyOptions, Verify(options) PROVE TypeOK'
    BY <2>6 DEF Verify, TypeOK
  <2> QED
    BY <2>1, <2>2, <2>3, <2>4, <2>5, <2>6 DEF Next
<1> QED
  BY <1>1, <1>2, PTL DEF Spec

-----------------------------------------------------------------------------
\* A completed draft of the current era may be sealed: its disclosure is
\* stamped only when it verifies.
LEMMA CurrentIsSealable ==
    ASSUME NEW intent \in {NULL, Intent}, NEW gateway \in {NULL, "attestation-1"},
           NEW path \in {NULL, SealedPath}, NEW context \in Contexts \cup {NULL},
           NEW stamp \in BOOLEAN, NEW alg \in SignatureAlgs,
           NEW complete \in
             Completed(CurrentDraft(intent, gateway, path, context, stamp, alg))
    PROVE  Sealable(complete)
<1> DEFINE alignment == IF intent = NULL THEN NULL ELSE evaluateIntentAlignment(intent, Args)
           plain == Draft(intent, alignment, gateway, path, context, alg)
           draft == CurrentDraft(intent, gateway, path, context, stamp, alg)
<1>1. draft \in Drafts
  BY DEF Drafts
<1>2. /\ DOMAIN draft = ReceiptFields
      /\ \A f \in ReceiptFields \ {"proof_strength_disclosure_digest"} : draft[f] = plain[f]
  BY DEF CurrentDraft, applyProofStrengthDisclosureDigestBinding, Draft, ReceiptFields
<1>3. /\ DOMAIN complete = ReceiptFields
      /\ \A f \in ReceiptFields \ {"schema", "release"} : complete[f] = draft[f]
      /\ complete.schema \in SCHEMAS /\ complete.release \in Releases
  BY <1>2, CompletedFields
<1>4. /\ complete.signature_alg \in {"none", "Ed25519", "RS256"}
      /\ complete.intent_context = intent /\ complete.intent_alignment = alignment
      /\ complete.args_digest = Args /\ complete.partial_path = path
      /\ complete.privacy = NULL
  BY <1>2, <1>3 DEF Draft, ReceiptFields, SignatureAlgs
<1>5. intent = NULL <=> alignment = NULL
  BY NullAssumption
<1>6. path # NULL => verifyPartialPathCommitment(parsedPath(path))
  BY CustodyAssumption
<1>7. verifyProofStrengthDisclosureReceiptBinding(complete)
  <2>1. verifyProofStrengthDisclosureReceiptBinding(draft)
    BY DEF CurrentDraft, Draft, applyProofStrengthDisclosureDigestBinding,
           verifyProofStrengthDisclosureReceiptBinding
  <2>2. /\ complete.governance = draft.governance
        /\ complete.proof_strength_disclosure_digest = draft.proof_strength_disclosure_digest
    BY <1>3 DEF ReceiptFields
  <2> QED
    BY <2>1, <2>2 DEF verifyProofStrengthDisclosureReceiptBinding
<1>8. /\ parseSucceeds(complete) /\ shreddingCertified(complete)
      /\ releaseAccounted(complete.release)
  BY <1>3, <1>4, CustodyAssumption DEF parseSucceeds, shreddingCertified
<1> QED
  BY <1>3, <1>4, <1>5, <1>6, <1>7, <1>8 DEF Sealable

\* What signs a receipt is no missing signature.
LEMMA SealedIsSigned ==
    ASSUME NEW draft \in Drafts, NEW complete \in Completed(draft),
           NEW era \in ReceiptDigestProfile, NEW r \in SealedForms(complete, era),
           r.signature_alg # "none"
    PROVE  r.signature # NULL
<1>1. DOMAIN draft = ReceiptFields
  BY DraftTyped DEF IsRecord, ReceiptFields
<1>2. DOMAIN complete = ReceiptFields
  BY <1>1, CompletedFields
<1>3. \A d \in {computeReceiptDigest(complete, era), NULL} : [signs |-> d] \in Signatures
  BY DEF Digests, Signatures
<1>4. r.signature_alg = complete.signature_alg
  BY <1>2, SealedFormDigest
<1>5. r.signature \in Signatures
  BY <1>2, <1>3, <1>4, SealedSignature
<1> QED
  BY <1>5, NullAssumption

\* A completed draft of the first era has no pillar, so it is as good as a
\* current one.
LEMMA LegacySealed ==
    ASSUME NEW alg \in SignatureAlgs,
           NEW complete \in Completed(Draft(NULL, NULL, NULL, NULL, NULL, alg)),
           NEW receipt \in SealedForms(complete, "v1_0")
    PROVE  verifyReceipt(receipt, KeyAtHand)
<1> DEFINE draft == Draft(NULL, NULL, NULL, NULL, NULL, alg)
<1>1. draft = CurrentDraft(NULL, NULL, NULL, NULL, FALSE, alg) /\ draft \in Drafts
  BY DEF CurrentDraft, Drafts
<1>2. Sealable(complete)
  BY <1>1, CurrentIsSealable
<1>3. \A f \in PILLARS : complete[f] = NULL
  <2>1. DOMAIN draft = ReceiptFields /\ \A f \in PILLARS : draft[f] = NULL
    BY DEF Draft, PILLARS, ReceiptFields
  <2>2. PILLARS \subseteq ReceiptFields \ {"schema", "release"}
    BY DEF PILLARS, ReceiptFields
  <2> QED
    BY <2>1, <2>2, CompletedFields
<1>4. receipt \in SealedForms(complete, "current")
  BY <1>3, SealedWithoutPillars DEF SealedForms
<1>5. NULL # "current"
  BY NullAssumption DEF ReceiptDigestProfile
<1>6. receipt.signature_alg # "none" => receipt.signature # NULL
  BY <1>1, SealedIsSigned DEF ReceiptDigestProfile
<1> QED
  BY <1>2, <1>4, <1>5, <1>6, SealedVerifies DEF KeyAtHand

\* Sealing and verifying agree on an untouched receipt of the first or the
\* current era, in any capture context and with any paths.
THEOREM Untouched == Spec => []UntouchedVerifies
<1>1. Init => UntouchedVerifies
  BY DEF Init, UntouchedVerifies
<1>2. TypeOK /\ UntouchedVerifies /\ [Next]_vars => UntouchedVerifies'
  <2> SUFFICES ASSUME TypeOK, UntouchedVerifies, [Next]_vars PROVE UntouchedVerifies'
    OBVIOUS
  <2>1. CASE UNCHANGED vars
    BY <2>1 DEF vars, UntouchedVerifies
  <2>2. ASSUME NEW alg \in SignatureAlgs, IssueV1_0(alg) PROVE UntouchedVerifies'
    BY <2>2, LegacySealed DEF IssueV1_0, Issue, UntouchedVerifies
  <2>3. ASSUME NEW alg \in SignatureAlgs,
               NEW alignment \in {NULL, evaluateIntentAlignment(Intent, Args)},
               IssueIntentContext(alignment, alg)
        PROVE  UntouchedVerifies'
    BY <2>3 DEF IssueIntentContext, Issue, UntouchedVerifies
  <2>4. ASSUME NEW alg \in SignatureAlgs, NEW intent \in {NULL, Intent},
               NEW gateway \in {NULL, "attestation-1"}, NEW path \in {NULL, SealedPath},
               NEW context \in Contexts \cup {NULL}, NEW stamp \in BOOLEAN,
               IssueCurrent(intent, gateway, path, context, stamp, alg)
        PROVE  UntouchedVerifies'
    <3>1. PICK complete \in
            Completed(CurrentDraft(intent, gateway, path, context, stamp, alg)) :
            held' \in SealedForms(complete, "current")
      BY <2>4 DEF IssueCurrent, Issue
    <3>2. NULL # "current"
      BY NullAssumption DEF ReceiptDigestProfile
    <3>3. CurrentDraft(intent, gateway, path, context, stamp, alg) \in Drafts
      BY DEF Drafts
    <3>4. held'.signature_alg # "none" => held'.signature # NULL
      BY <3>1, <3>3, SealedIsSigned DEF ReceiptDigestProfile
    <3>5. Sealable(complete)
      BY CurrentIsSealable
    <3>6. verifyReceipt(held', KeyAtHand)
      BY <3>1, <3>2, <3>4, <3>5, SealedVerifies DEF KeyAtHand
    <3> QED
      BY <3>6 DEF UntouchedVerifies
  <2>5. ASSUME NEW field \in DOMAIN Strays, NEW value \in Strays[field], Alter(field, value)
        PROVE  UntouchedVerifies'
    <3>1. alterations' = alterations + 1 /\ alterations \in Nat
      BY <2>5, CustodyAssumption DEF Alter, TypeOK
    <3> QED
      BY <3>1 DEF UntouchedVerifies
  <2>6. ASSUME NEW options \in VerifyOptions, Verify(options) PROVE UntouchedVerifies'
    BY <2>6 DEF Verify, UntouchedVerifies
  <2> QED
    BY <2>1, <2>2, <2>3, <2>4, <2>5, <2>6 DEF Next
<1> QED
  BY <1>1, <1>2, TypeCorrect, PTL DEF Spec
=============================================================================
