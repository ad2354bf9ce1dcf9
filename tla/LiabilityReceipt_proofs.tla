----------------------- MODULE LiabilityReceipt_proofs -----------------------
(***************************************************************************)
(* Lemmas about liability receipts that the proofs about their custody and *)
(* about sessions share: what equal digests say of two receipts, what      *)
(* sealing and verifyReceipt guarantee, and that what is sealed verifies.  *)
(* Digests are modelled by their preimages: that they are injective is     *)
(* built in.                                                               *)
(***************************************************************************)
EXTENDS LiabilityReceipt, TLAPS

ReceiptFields ==
    {"schema", "release", "privacy", "session_id", "entry_hash", "args_digest",
     "intent_context", "intent_alignment", "causal_lineage", "gateway_attestation",
     "partial_path", "governance", "proof_strength_disclosure_digest", "receipt_digest",
     "signature_alg", "signature"}

PathFields ==
    {"session_id", "step_index", "partial_steps", "capability_budget", "permit_execution",
     "partial_path_hash"}

\* A partial path the parser leaves one.
Parseable(pp) == DOMAIN pp = PathFields /\ parsedPath(pp) # NULL

\* Two receipts with one digest, each under its own profile, agree on the
\* fields every profile binds, and a pillar one of them binds the other one
\* has and digests alike.
LEMMA DigestInjective ==
    ASSUME NEW r, NEW s, NEW p, NEW e,
           computeReceiptDigest(r, p) = computeReceiptDigest(s, e)
    PROVE  /\ r.schema = s.schema /\ r.release = s.release
           /\ r.session_id = s.session_id
           /\ r.entry_hash = s.entry_hash
           /\ r.args_digest = s.args_digest
           /\ \A f \in receiptDigestKeysForProfile(e) : s[f] # NULL =>
                /\ f \in receiptDigestKeysForProfile(p)
                /\ r[f] # NULL
                /\ digestValueForKey(r, f) = digestValueForKey(s, f)
<1> DEFINE Bound(x, q) == { <<key, digestValueForKey(x, key)>> :
                              key \in {k \in receiptDigestKeysForProfile(q) : x[k] # NULL} }
<1>1. /\ r.schema = s.schema /\ r.release = s.release
      /\ r.session_id = s.session_id
      /\ r.entry_hash = s.entry_hash
      /\ r.args_digest = s.args_digest
      /\ Bound(r, p) = Bound(s, e)
  BY DEF computeReceiptDigest
<1>2. ASSUME NEW f \in receiptDigestKeysForProfile(e), s[f] # NULL
      PROVE  /\ f \in receiptDigestKeysForProfile(p)
             /\ r[f] # NULL
             /\ digestValueForKey(r, f) = digestValueForKey(s, f)
  <2>1. <<f, digestValueForKey(s, f)>> \in Bound(s, e)
    BY <1>2
  <2>2. PICK k \in {x \in receiptDigestKeysForProfile(p) : r[x] # NULL} :
          <<f, digestValueForKey(s, f)>> = <<k, digestValueForKey(r, k)>>
    BY <1>1, <2>1
  <2>3. f = k /\ digestValueForKey(s, f) = digestValueForKey(r, k)
    BY <2>2
  <2> QED
    BY <2>2, <2>3
<1> QED
  BY <1>1, <1>2

\* Parsing touches the partial path only.
LEMMA Parsed ==
    ASSUME NEW r, DOMAIN r = ReceiptFields
    PROVE  /\ DOMAIN parseLiabilityReceiptStructure(r) = ReceiptFields
           /\ \A f \in ReceiptFields \ {"partial_path"} :
                parseLiabilityReceiptStructure(r)[f] = r[f]
           /\ parseLiabilityReceiptStructure(r).partial_path = parsedPath(r.partial_path)
  BY DEF parseLiabilityReceiptStructure, ReceiptFields

\* What the parser drops of a partial path no digest reads: both candidates of
\* verifyReceiptDigestMatch digest alike.
LEMMA ParsedDigest ==
    ASSUME NEW r, DOMAIN r = ReceiptFields, NEW p \in ReceiptDigestProfile,
           r.partial_path # NULL => Parseable(r.partial_path)
    PROVE  computeReceiptDigest(parseLiabilityReceiptStructure(r), p)
             = computeReceiptDigest(r, p)
<1> DEFINE q == parseLiabilityReceiptStructure(r)
           Bound(x) == { <<key, digestValueForKey(x, key)>> :
                           key \in {k \in receiptDigestKeysForProfile(p) : x[k] # NULL} }
<1>1. /\ \A f \in ReceiptFields \ {"partial_path"} : q[f] = r[f]
      /\ q.partial_path = parsedPath(r.partial_path)
  BY Parsed
<1>2. q.partial_path = NULL <=> r.partial_path = NULL
  BY <1>1 DEF parsedPath, Parseable
<1>3. canonicalizePartialPathForDigest(q.partial_path)
        = canonicalizePartialPathForDigest(r.partial_path)
  <2>1. CASE r.partial_path = NULL
    BY <2>1, <1>2 DEF canonicalizePartialPathForDigest
  <2>2. CASE r.partial_path # NULL
    <3>1. \A f \in PathFields \ {"partial_steps"} : q.partial_path[f] = r.partial_path[f]
      BY <2>2, <1>1 DEF Parseable, parsedPath, PathFields
    <3>2. /\ q.partial_path.session_id = r.partial_path.session_id
          /\ q.partial_path.step_index = r.partial_path.step_index
          /\ q.partial_path.partial_path_hash = r.partial_path.partial_path_hash
      BY <3>1 DEF PathFields
    <3> QED
      BY <2>2, <1>2, <3>2 DEF canonicalizePartialPathForDigest
  <2> QED
    BY <2>1, <2>2
<1>4. receiptDigestKeysForProfile(p) \subseteq ReceiptFields
  BY DEF receiptDigestKeysForProfile, ReceiptDigestProfile, PILLARS, ReceiptFields
<1>5. \A k \in receiptDigestKeysForProfile(p) :
        (q[k] = NULL <=> r[k] = NULL) /\ digestValueForKey(q, k) = digestValueForKey(r, k)
  BY <1>1, <1>2, <1>3, <1>4 DEF digestValueForKey
<1>6. Bound(q) = Bound(r)
  BY <1>5
<1>7. /\ q.schema = r.schema /\ q.release = r.release /\ q.session_id = r.session_id
      /\ q.entry_hash = r.entry_hash /\ q.args_digest = r.args_digest
  BY <1>1 DEF ReceiptFields
<1> QED
  BY <1>6, <1>7 DEF computeReceiptDigest

\* The profile verifyReceiptDigestMatch names is one under which the stored
\* digest is the receipt's.
LEMMA MatchedProfile ==
    ASSUME NEW r, DOMAIN r = ReceiptFields, verifyReceiptDigestMatch(r) # NULL,
           r.partial_path # NULL => Parseable(r.partial_path)
    PROVE  /\ verifyReceiptDigestMatch(r) \in ReceiptDigestProfile
           /\ computeReceiptDigest(r, verifyReceiptDigestMatch(r)) = r.receipt_digest
<1> DEFINE q == parseLiabilityReceiptStructure(r)
<1>1. \A x : matchedProfile(x) # NULL =>
        /\ matchedProfile(x) \in ReceiptDigestProfile
        /\ computeReceiptDigest(x, matchedProfile(x)) = x.receipt_digest
  BY DEF matchedProfile, ReceiptDigestProfile
<1>2. CASE matchedProfile(r) # NULL
  BY <1>1, <1>2 DEF verifyReceiptDigestMatch
<1>3. CASE matchedProfile(r) = NULL
  <2>1. verifyReceiptDigestMatch(r) = matchedProfile(q)
    BY <1>3 DEF verifyReceiptDigestMatch
  <2>2. /\ matchedProfile(q) \in ReceiptDigestProfile
        /\ computeReceiptDigest(q, matchedProfile(q)) = q.receipt_digest
    BY <2>1, <1>1
  <2>3. q.receipt_digest = r.receipt_digest
    BY Parsed DEF ReceiptFields
  <2> QED
    BY <2>1, <2>2, <2>3, ParsedDigest
<1> QED
  BY <1>2, <1>3

\* Digest and signature are no part of what is digested.
LEMMA SameDigest ==
    ASSUME NEW r, NEW s, NEW era \in ReceiptDigestProfile,
           \A f \in ReceiptFields \ {"receipt_digest", "signature"} : r[f] = s[f]
    PROVE  computeReceiptDigest(r, era) = computeReceiptDigest(s, era)
<1>1. receiptDigestKeysForProfile(era) \subseteq ReceiptFields \ {"receipt_digest", "signature"}
  BY DEF receiptDigestKeysForProfile, ReceiptDigestProfile, PILLARS, ReceiptFields
<1>2. \A k \in receiptDigestKeysForProfile(era) :
        r[k] = s[k] /\ digestValueForKey(r, k) = digestValueForKey(s, k)
  BY <1>1 DEF digestValueForKey
<1>3. { <<key, digestValueForKey(r, key)>> :
          key \in {k \in receiptDigestKeysForProfile(era) : r[k] # NULL} }
      = { <<key, digestValueForKey(s, key)>> :
          key \in {k \in receiptDigestKeysForProfile(era) : s[k] # NULL} }
  BY <1>2
<1>4. /\ r.schema = s.schema /\ r.release = s.release /\ r.session_id = s.session_id
      /\ r.entry_hash = s.entry_hash /\ r.args_digest = s.args_digest
  BY DEF ReceiptFields
<1> QED
  BY <1>3, <1>4 DEF computeReceiptDigest

\* Sealing leaves alone what the digest is computed from.
LEMMA SealDigest ==
    ASSUME NEW draft, NEW era \in ReceiptDigestProfile, DOMAIN draft = ReceiptFields
    PROVE  /\ DOMAIN SealReceipt(draft, era) = ReceiptFields
           /\ \A f \in ReceiptFields \ {"receipt_digest", "signature"} :
                SealReceipt(draft, era)[f] = draft[f]
           /\ SealReceipt(draft, era).receipt_digest = computeReceiptDigest(draft, era)
           /\ SealReceipt(draft, era).receipt_digest
                = computeReceiptDigest(SealReceipt(draft, era), era)
<1> DEFINE r == SealReceipt(draft, era)
<1>1. DOMAIN r = ReceiptFields
  BY DEF SealReceipt
<1>2. \A f \in ReceiptFields \ {"receipt_digest", "signature"} : r[f] = draft[f]
  BY DEF SealReceipt, ReceiptFields
<1>3. r.receipt_digest = computeReceiptDigest(draft, era)
  BY DEF SealReceipt, ReceiptFields
<1> QED
  BY <1>1, <1>2, <1>3, SameDigest

\* What is sealed differs from the draft in digest and signature only.
LEMMA SealedFormDigest ==
    ASSUME NEW draft, NEW era \in ReceiptDigestProfile, DOMAIN draft = ReceiptFields,
           NEW r \in SealedForms(draft, era)
    PROVE  /\ DOMAIN r = ReceiptFields
           /\ \A f \in ReceiptFields \ {"receipt_digest", "signature"} : r[f] = draft[f]
           /\ r.receipt_digest = computeReceiptDigest(draft, era)
           /\ r.receipt_digest = computeReceiptDigest(r, era)
           /\ r.signature_alg = draft.signature_alg
<1> DEFINE sealed == SealReceipt(draft, era)
<1>1. /\ DOMAIN sealed = ReceiptFields
      /\ \A f \in ReceiptFields \ {"receipt_digest", "signature"} : sealed[f] = draft[f]
      /\ sealed.receipt_digest = computeReceiptDigest(draft, era)
  BY SealDigest
<1>2. /\ DOMAIN r = ReceiptFields
      /\ \A f \in ReceiptFields \ {"signature"} : r[f] = sealed[f]
  <2>1. r = sealed \/ r = [sealed EXCEPT !.signature = [signs |-> NULL]]
    BY DEF SealedForms
  <2> QED
    BY <1>1, <2>1 DEF ReceiptFields
<1>3. \A f \in ReceiptFields \ {"receipt_digest", "signature"} : r[f] = draft[f]
  BY <1>1, <1>2
<1>4. r.receipt_digest = computeReceiptDigest(draft, era)
  BY <1>1, <1>2 DEF ReceiptFields
<1>5. computeReceiptDigest(r, era) = computeReceiptDigest(draft, era)
  BY <1>3, SameDigest
<1>6. r.signature_alg = draft.signature_alg
  BY <1>3 DEF ReceiptFields
<1> QED
  BY <1>2, <1>3, <1>4, <1>5, <1>6

\* What a sealed receipt is signed with.
LEMMA SealedSignature ==
    ASSUME NEW draft, NEW era, DOMAIN draft = ReceiptFields,
           NEW r \in SealedForms(draft, era)
    PROVE  /\ draft.signature_alg = "none" => r.signature = NULL
           /\ draft.signature_alg \notin {"none", "RS256"} =>
                r.signature = [signs |-> computeReceiptDigest(draft, era)]
           /\ draft.signature_alg = "RS256" =>
                r.signature \in {[signs |-> computeReceiptDigest(draft, era)], [signs |-> NULL]}
<1> DEFINE sealed == SealReceipt(draft, era)
<1>1. /\ DOMAIN sealed = ReceiptFields
      /\ sealed.signature = IF draft.signature_alg = "none" THEN NULL
                             ELSE [signs |-> computeReceiptDigest(draft, era)]
  BY DEF SealReceipt, ReceiptFields
<1>2. \/ r = sealed
      \/ /\ draft.signature_alg = "RS256"
         /\ r = [sealed EXCEPT !.signature = [signs |-> NULL]]
  BY DEF SealedForms
<1> QED
  BY <1>1, <1>2 DEF ReceiptFields

\* What verifyReceipt asks of a copy it accepts.
LEMMA Accepted ==
    ASSUME NEW r, NEW options, verifyReceipt(r, options)
    PROVE  /\ parseSucceeds(r)
           /\ verifyReceiptDigestMatch(r) # NULL
           /\ verifyReceiptDigestMatch(r) # "current" =>
                \A f \in {"gateway_attestation", "causal_lineage", "partial_path"} :
                   r[f] = NULL
           /\ r.partial_path # NULL =>
                verifyPartialPathCommitment(parseLiabilityReceiptStructure(r).partial_path)
           /\ verifyProofStrengthDisclosureReceiptBinding(r)
  BY DEF verifyReceipt, unboundPillars

\* The derivation discloses the mode the context was captured in, and its
\* digest covers it.
LEMMA DisclosedMode ==
    ASSUME NEW context, context # NULL
    PROVE  GovernanceOf(context).disclosure_digest.enforcement_mode
             = DerivedEnforcementMode(context)
  BY DEF GovernanceOf, deriveProofStrengthDisclosureFromContext,
         buildProofStrengthDisclosureDocument, DisclosurePreimage

\* The derivation discloses the mode itself, too, and two of its documents with
\* one digest are the same.
LEMMA DisclosureInjective ==
    ASSUME NEW c, NEW d, c # NULL, d # NULL
    PROVE  /\ GovernanceOf(c).enforcement_mode = DerivedEnforcementMode(c)
           /\ GovernanceOf(c).disclosure_digest = GovernanceOf(d).disclosure_digest
                => GovernanceOf(c) = GovernanceOf(d)
  BY DEF GovernanceOf, deriveProofStrengthDisclosureFromContext,
         buildProofStrengthDisclosureDocument, DisclosurePreimage

\* What an issuer may seal under the current profile.
Sealable(draft) ==
    /\ DOMAIN draft = ReceiptFields
    /\ parseSucceeds(draft) /\ shreddingCertified(draft)
    /\ releaseAccounted(draft.release)
    /\ draft.signature_alg \in {"none", "Ed25519", "RS256"}
    /\ draft.intent_context = NULL <=> draft.intent_alignment = NULL
    /\ draft.intent_alignment # NULL =>
         draft.intent_alignment = evaluateIntentAlignment(draft.intent_context, draft.args_digest)
    /\ draft.partial_path # NULL =>
         verifyPartialPathCommitment(parsedPath(draft.partial_path))
    /\ verifyProofStrengthDisclosureReceiptBinding(draft)

\* Sealing and verifying agree: what is sealed under the current profile, with
\* or without the digest in its JWS, matches that profile and verifies with the
\* issuer's key.
LEMMA SealedVerifies ==
    ASSUME NEW draft, Sealable(draft), NULL # "current",
           NEW r \in SealedForms(draft, "current"),
           r.signature_alg # "none" => r.signature # NULL,
           NEW options, options.issuerPublicKey
    PROVE  /\ verifyReceiptDigestMatch(r) = "current"
           /\ verifyReceipt(r, options)
<1>1. /\ DOMAIN r = ReceiptFields
      /\ \A f \in ReceiptFields \ {"receipt_digest", "signature"} : r[f] = draft[f]
      /\ r.receipt_digest = computeReceiptDigest(draft, "current")
      /\ r.signature_alg = draft.signature_alg
      /\ r.receipt_digest = computeReceiptDigest(r, "current")
  BY SealedFormDigest DEF Sealable, ReceiptDigestProfile
<1>2. verifyReceiptDigestMatch(r) = "current"
  BY <1>1 DEF verifyReceiptDigestMatch, matchedProfile
<1>3. /\ r.schema = draft.schema /\ r.release = draft.release /\ r.privacy = draft.privacy
      /\ r.intent_context = draft.intent_context
      /\ r.intent_alignment = draft.intent_alignment
      /\ r.args_digest = draft.args_digest
      /\ r.partial_path = draft.partial_path
      /\ r.governance = draft.governance
      /\ r.proof_strength_disclosure_digest = draft.proof_strength_disclosure_digest
  BY <1>1 DEF ReceiptFields
<1>4. ~(r.intent_context # NULL /\ r.intent_alignment = NULL)
  BY <1>3 DEF Sealable
<1>5. validateAccountabilityPillars(r)
  BY <1>3 DEF Sealable, validateAccountabilityPillars
<1>6. r.partial_path # NULL =>
        verifyPartialPathCommitment(parseLiabilityReceiptStructure(r).partial_path)
  BY <1>1, <1>3, Parsed DEF Sealable
<1>7. verifyProofStrengthDisclosureReceiptBinding(r)
  BY <1>3 DEF Sealable, verifyProofStrengthDisclosureReceiptBinding
<1>8. verifyIntegritySignatures(r, options.issuerPublicKey)
  <2>1. CASE draft.signature_alg = "none"
    BY <1>1, <2>1, SealedSignature DEF Sealable, verifyIntegritySignatures
  <2>2. CASE draft.signature_alg = "Ed25519"
    <3>1. r.signature = [signs |-> r.receipt_digest]
      BY <1>1, <2>2, SealedSignature DEF Sealable
    <3> QED
      BY <1>1, <2>2, <3>1 DEF verifyIntegritySignatures
  <2>3. CASE draft.signature_alg = "RS256"
    <3>1. r.signature \in {[signs |-> r.receipt_digest], [signs |-> NULL]}
      BY <1>1, <2>3, SealedSignature DEF Sealable
    <3> QED
      BY <1>1, <2>3, <3>1 DEF verifyIntegritySignatures
  <2> QED
    BY <2>1, <2>2, <2>3 DEF Sealable
<1>9. parseSucceeds(r) /\ shreddingCertified(r)
  BY <1>3 DEF Sealable, parseSucceeds, shreddingCertified
<1> QED
  BY <1>2, <1>4, <1>5, <1>6, <1>7, <1>8, <1>9 DEF verifyReceipt

\* A receipt without pillars is the same under the first profile.
LEMMA SealedWithoutPillars ==
    ASSUME NEW draft, \A f \in PILLARS : draft[f] = NULL
    PROVE  SealReceipt(draft, "v1_0") = SealReceipt(draft, "current")
<1>1. computeReceiptDigest(draft, "v1_0") = computeReceiptDigest(draft, "current")
  BY DEF computeReceiptDigest, receiptDigestKeysForProfile
<1> QED
  BY <1>1 DEF SealReceipt

=============================================================================
