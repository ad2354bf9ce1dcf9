------------------------------ MODULE PackMembers ------------------------------
(***************************************************************************)
(* What the composed packs share (liability/composedPackMemberVerify.ts,   *)
(* memberVerifyAttestationVerify.ts).  A pack names its members by schema  *)
(* and digest and says of each whether it verified.  A verifier does not   *)
(* take its word: it verifies a member bundled beside the pack again, or   *)
(* goes by an attestation a witness cosigned.                              *)
(*                                                                         *)
(* composed_members, member_documents and member_verify_attestations are   *)
(* functions of the schema; an entry that is NULL is not there.  The last  *)
(* two are attached by the exporter and under no digest.                   *)
(***************************************************************************)
EXTENDS EvidenceDocument

Entries(members) ==
    IF members = NULL THEN <<>>
    ELSE [s \in {r \in DOMAIN members : members[r] # NULL} |-> members[s]]

\* x === true, for each of these fields
Flags(block, names) ==
    IF block = NULL THEN NULL
    ELSE [f \in DOMAIN block |-> IF f \in names THEN block[f] = TRUE ELSE block[f]]

-----------------------------------------------------------------------------
(* A witness's word that a member verified *)

WITNESS_PARTIES == {"witness", "aevesa_witness"}

buildMemberVerifyAttestationPreimage(input) ==
    Only(input, {"member_schema", "member_digest", "verify_ok", "verify_result_schema", "verified_at"})

buildMemberVerifyAttestationDocument(input, witnessCosign) ==
    Seal(buildMemberVerifyAttestationPreimage(input), "attestation_digest")
    @@ [witness_cosign |-> witnessCosign]

\* witness_cosign: [receipt_digest, party, witnessed, ok] or NULL
verifyWitnessCosignStructure(cosign, attestationDigest) ==
    /\ cosign # NULL
    /\ attestationDigest # NULL /\ cosign.receipt_digest = attestationDigest
    /\ cosign.party \in WITNESS_PARTIES
    /\ cosign.witnessed = TRUE /\ cosign.ok = TRUE

\* A row without a digest is not held to the attested one here: see
\* composedMemberDigestsValid.
verifyMemberVerifyAttestation(att, schema, digest) ==
    /\ Present(att, {"member_schema", "member_digest", "verify_ok", "verify_result_schema", "verified_at"})
    /\ att.attestation_digest = buildMemberVerifyAttestationPreimage(att)
    /\ att.member_schema = schema
    /\ digest \in {NULL, att.member_digest}
    /\ att.verify_ok = TRUE
    /\ verifyWitnessCosignStructure(att.witness_cosign, att.attestation_digest)

-----------------------------------------------------------------------------
(* The members of a pack *)

\* A chain has a member of one schema for every step.
STEP_MEMBERS == <<"step1", "step2", "step3">>

SchemaOf(s) == IF s \in Range(STEP_MEMBERS) THEN "delegation_step" ELSE s

attestationForSchema(attestations, s) ==
    IF SchemaOf(s) \in DOMAIN attestations THEN attestations[SchemaOf(s)] ELSE NULL

composedMemberDigestsValid(rows) == \A s \in DOMAIN rows : rows[s].member_digest # NULL

\* Mutant: a member that is not bundled is taken at the pack's word.
MutantResolveComposedMemberVerifyState(doc, verifies) ==
    LET rows == Entries(doc.composed_members)
        docs == Entries(doc.member_documents)
        asserted == {s \in DOMAIN rows : rows[s].verify_ok = TRUE}
        ok == {s \in DOMAIN rows : IF s \in DOMAIN docs THEN verifies[s] ELSE s \in asserted}
    IN [rows |-> rows, ok |-> ok, asserted |-> asserted, memberProofPresent |-> TRUE,
        memberVerifyRecomputed |-> ok = DOMAIN rows]

\* verifies[s]: the bundled document of schema s verifies.  ok: the members that
\* do, by their document or else by their attestation.
resolveComposedMemberVerifyState(doc, verifies) ==
    LET rows == Entries(doc.composed_members)
        docs == Entries(doc.member_documents)
        attestations == Entries(doc.member_verify_attestations)
        attested ==
          {s \in DOMAIN rows \ DOMAIN docs :
             /\ attestationForSchema(attestations, s) # NULL
             /\ verifyMemberVerifyAttestation(attestationForSchema(attestations, s), SchemaOf(s),
                                              rows[s].member_digest)}
        ok == {s \in DOMAIN rows \cap DOMAIN docs : verifies[s]} \cup attested
        asserted == {s \in DOMAIN rows : rows[s].verify_ok = TRUE}
        witnessed ==
          \A s \in DOMAIN attestations :
            verifyWitnessCosignStructure(attestations[s].witness_cosign,
                                         attestations[s].attestation_digest)
        attestationProofComplete ==
          /\ DOMAIN attestations # {} /\ witnessed
          /\ asserted # {} /\ asserted \subseteq attested
    IN [rows |-> rows, ok |-> ok, asserted |-> asserted,
        memberProofPresent |-> DOMAIN docs # {} \/ attestationProofComplete,
        memberVerifyRecomputed |-> DOMAIN rows # {} /\ ok = DOMAIN rows]

\* What a builder goes by: the rows as they say of themselves.
Asserted(members) == {s \in DOMAIN Entries(members) : members[s].verify_ok = TRUE}

\* At least so many members, each with a digest, and some proof of them.
ProvenMembers(m, least) ==
    /\ Cardinality(DOMAIN m.rows) >= least
    /\ composedMemberDigestsValid(m.rows)
    /\ m.memberProofPresent

\* A digest of the binding is there, and that of the member named by members, if
\* the pack has it.
BoundToMembers(binding, members, rows) ==
    \A f \in DOMAIN members :
      /\ binding[f] # NULL
      /\ members[f] \in DOMAIN rows => binding[f] = rows[members[f]].member_digest

\* A pack without what its exporter attaches.
extractComposedPackSurface(doc) ==
    [Without(doc, {"pack_digest", "member_documents", "member_verify_attestations"})
       EXCEPT !.composed_members = Entries(@)]
=============================================================================
