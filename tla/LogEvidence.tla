------------------------------ MODULE LogEvidence ------------------------------
(***************************************************************************)
(* Documents that rest on a log: a ledger row and the proof of intent in   *)
(* it, the witness log's inclusion and consistency proofs, a Merkle        *)
(* inclusion proof of an external log, the export of a refusal statement   *)
(* with all of them, an orchestrator's log held against the session's own  *)
(* hop set, and the promotion of a policy under a trusted key.             *)
(* A hash is its preimage; <<"leaf", body>> and <<"node", left, right>>    *)
(* are hashed apart.                                                       *)
(***************************************************************************)
EXTENDS CustodianEvidence

GENESIS == "GENESIS"

-----------------------------------------------------------------------------
(* A row of the ledger *)

AEGIS_CONTEXT_LINKAGE_KEYS == {"agentId", "eventType", "severity", "payload", "timestamp"}

Payload(doc) == Default(doc.payload, <<>>)

\* new Date(null); a timestamp that is not there at all throws.
EPOCH == "1970-01-01T00:00:00.000Z"

buildContextLinkageFromStoredDoc(doc) ==
    [Only(doc, AEGIS_CONTEXT_LINKAGE_KEYS) EXCEPT
       !.severity = Default(@, "INFO"), !.payload = Payload(doc), !.timestamp = Default(@, EPOCH)]

computeContextHashFromLinkage(prevContextHash, linkage) ==
    <<Default(prevContextHash, GENESIS), linkage>>

\* Each field from the row, else from its payload.
resolveGovernanceBinding(doc) ==
    [f \in {"cost", "approverId", "policyId", "forensicSnapshot", "proofOfIntent", "intentContext"} |->
       Default(doc[f], Get(Payload(doc), f))]

\* A binding stored with the row stands for the fields it was made of.
buildEntryHashPreimageFromStoredDoc(doc) ==
    buildContextLinkageFromStoredDoc(doc) @@
    [prevHash |-> Default(doc.prevHash, GENESIS),
     contextHash |-> doc.contextHash,
     governanceBinding |-> Default(doc.governanceBinding, resolveGovernanceBinding(doc))]

sealAegisLedgerRow(row, prevContextHash) ==
    LET contextHash == computeContextHashFromLinkage(prevContextHash, buildContextLinkageFromStoredDoc(row))
        sealed == [row EXCEPT !.contextHash = contextHash]
    IN [sealed EXCEPT !.entryHash = buildEntryHashPreimageFromStoredDoc(sealed)]

\* A missing causal binding is no part of what is sealed.
computeProofOfIntent(envelope) ==
    LET core == Only(envelope, {"reasoningPath", "constraintsApplied", "modelFingerprint"})
    IN IF At(envelope.causalBinding, "parentEntryHash") = NULL THEN core
       ELSE core @@ [causalBinding |-> envelope.causalBinding]

\* A row without a proof of intent passes.
verifyProofOfIntentForStoredRow(doc) ==
    LET stored == Default(doc.proofOfIntent, Get(Payload(doc), "proofOfIntent"))
        envelope == Get(Payload(doc), "proofOfIntentEnvelope")
    IN stored # NULL => envelope # NULL /\ stored = computeProofOfIntent(envelope)

\* The context a row follows: what the caller knows, else genesis for a first row.
prevContextHashUsed(doc) ==
    IF doc.prevContextHash # NULL THEN doc.prevContextHash
    ELSE IF doc.prevHash \in {NULL, GENESIS} THEN GENESIS ELSE NULL

verifyLedgerEntryPreimage(doc, verifyProofOfIntent) ==
    /\ doc.entryHash = buildEntryHashPreimageFromStoredDoc(doc)
    /\ doc.contextHash # NULL =>
         /\ prevContextHashUsed(doc) # NULL
         /\ doc.contextHash = computeContextHashFromLinkage(prevContextHashUsed(doc),
                                buildContextLinkageFromStoredDoc(doc))
    /\ verifyProofOfIntent => verifyProofOfIntentForStoredRow(doc)

-----------------------------------------------------------------------------
(* The witness log *)

calculateWitnessEntryHash(entry, sequence) ==
    Only(entry, {"orgId", "prevHash", "digest", "eventTimestamp", "nonce"}) @@
    [payload |-> Default(entry.payload, <<>>), sequence |-> sequence]

\* The export of the entry is optional; with it the hash is recomputed.
verifyWitnessInclusionProof(proof, append, verificationExport) ==
    /\ proof # NULL /\ append # NULL
    /\ proof.root_hash # NULL /\ proof.root_hash = append.entryHash
    /\ Default(proof.parent_hash, GENESIS) = append.parentHash
    /\ append.sequence # NULL
    /\ Default(proof.entry_index, append.sequence) = append.sequence
    /\ verificationExport # NULL =>
         proof.root_hash = calculateWitnessEntryHash(verificationExport, append.sequence)

\* Mutant: a snapshot without digests to check its proof by passes.
MutantVerifyTransparencyLogMonitorStatus(snapshot, entryDigests) ==
    /\ snapshot.monitor_state \in MonitorStates
    /\ Present(snapshot, {"witness_log", "monitor_assertions"})
    /\ (snapshot.consistency_proof_latest # NULL /\ entryDigests # <<>>) =>
         verifyWitnessConsistencyProof(snapshot.consistency_proof_latest, entryDigests)

verifyTransparencyLogMonitorStatus(snapshot, entryDigests) ==
    /\ snapshot.monitor_state \in MonitorStates
    /\ Present(snapshot, {"witness_log", "monitor_assertions"})
    /\ snapshot.consistency_proof_latest # NULL =>
         /\ entryDigests # <<>>
         /\ verifyWitnessConsistencyProof(snapshot.consistency_proof_latest, entryDigests)

-----------------------------------------------------------------------------
(* The external log *)

rfc6962LeafHash(body) == <<"leaf", body>>
rfc6962NodeHash(left, right) == <<"node", left, right>>

\* while (nodeIndex % 2 === 0 && nodeIndex !== 0) both are halved.
TrailingZeros(n) == CHOOSE k \in 0..n : \/ n = 0 /\ k = 0
                                        \/ n \div 2^k % 2 = 1 /\ \A j \in 0..(k - 1) : n \div 2^j % 2 = 0

\* One hash of the audit path: a right node, or the last of its level, has its
\* sibling to the left; the levels the last one has no sibling on are skipped.
Join(at, sibling) ==
    IF at.node % 2 = 1 \/ at.node = at.last
    THEN LET skip == 2^(TrailingZeros(at.node) + 1)
         IN [node |-> at.node \div skip, last |-> at.last \div skip,
             hash |-> rfc6962NodeHash(sibling, at.hash)]
    ELSE [node |-> at.node \div 2, last |-> at.last \div 2,
          hash |-> rfc6962NodeHash(at.hash, sibling)]

\* The root, or NULL: an index out of range, a path too short or too long.
computeRfc6962RootFromInclusionProof(leafIndex, treeSize, leafHash, hashes) ==
    LET from == [node |-> leafIndex, last |-> treeSize - 1, hash |-> leafHash]
        path[n \in 0..Len(hashes)] ==
          IF n = 0 THEN from
          ELSE IF path[n - 1] = NULL THEN NULL
          ELSE IF path[n - 1].last = 0 THEN NULL
          ELSE Join(path[n - 1], hashes[n])
        end == path[Len(hashes)]
    IN IF leafIndex >= treeSize \/ NULL \in Range(hashes) \/ end = NULL THEN NULL
       ELSE IF end.last > 0 THEN NULL ELSE end.hash

\* A stated leaf hash is preferred to the body's.
leafHashOf(doc) ==
    IF doc.leaf_hash # NULL THEN doc.leaf_hash ELSE rfc6962LeafHash(doc.entry_body)

\* Mutant: the entry is not compared with the statement.
MutantVerifyRekorCryptoInclusionProof(doc, expectedLogIndex, expectedStatementDigest) ==
    /\ Present(doc, {"log_index", "tree_size", "root_hash", "hashes"})
    /\ doc.leaf_hash # NULL \/ doc.entry_body # NULL
    /\ expectedLogIndex \in {NULL, doc.log_index}
    /\ doc.root_hash = computeRfc6962RootFromInclusionProof(doc.log_index, doc.tree_size,
                                                             leafHashOf(doc), doc.hashes)
    /\ doc.checkpoint # NULL =>
         doc.checkpoint.tree_size = doc.tree_size /\ doc.checkpoint.root_hash = doc.root_hash

\* A body is compared with the statement's digest where that is known.
verifyRekorCryptoInclusionProof(doc, expectedLogIndex, expectedStatementDigest) ==
    /\ Present(doc, {"log_index", "tree_size", "root_hash", "hashes"})
    /\ expectedStatementDigest # NULL =>
         doc.entry_body # NULL /\ doc.entry_body.digest = expectedStatementDigest
    /\ doc.leaf_hash # NULL \/ doc.entry_body # NULL
    /\ expectedLogIndex \in {NULL, doc.log_index}
    /\ doc.root_hash = computeRfc6962RootFromInclusionProof(doc.log_index, doc.tree_size,
                                                             leafHashOf(doc), doc.hashes)
    /\ doc.checkpoint # NULL =>
         doc.checkpoint.tree_size = doc.tree_size /\ doc.checkpoint.root_hash = doc.root_hash

buildSingleLeafRekorInclusionProofDocument(digest) ==
    LET leaf == rfc6962LeafHash([digest |-> digest])
    IN [log_index |-> 0, tree_size |-> 1, root_hash |-> leaf, hashes |-> <<>>, leaf_hash |-> NULL,
        entry_body |-> [digest |-> digest], checkpoint |-> [tree_size |-> 1, root_hash |-> leaf]]

verifyExternalRekorWitness(meta, digest) ==
    /\ meta.ok = TRUE
    /\ meta.uuid # NULL
    /\ meta.digest \in {NULL, digest}

verifyExternalRekorWitnessWithInclusion(meta, digest, inclusionProof, requireInclusionProof) ==
    LET bundled == Default(inclusionProof, meta.rekor_inclusion_proof)
    IN /\ verifyExternalRekorWitness(meta, digest)
       /\ IF bundled = NULL THEN ~requireInclusionProof
          ELSE verifyRekorCryptoInclusionProof(bundled, meta.log_index, digest)

-----------------------------------------------------------------------------
(* The export of a refusal *)

INCLUSION_VERIFIED == "rekor_inclusion_verified"

\* An export that claims the inclusion was verified must bring the proof.
resolveRequireRekorInclusionProof(input) ==
    \/ At(input.proofStrengthDisclosure, "external_transparency") = INCLUSION_VERIFIED
    \/ At(input.externalTransparencyService, "require_inclusion_proof") = TRUE
    \/ At(input.externalTransparencyService, "external_transparency") = INCLUSION_VERIFIED

\* The external log is looked at only where its witness is among the witnesses.
verifyScittRefusalWitnessBundle(input) ==
    LET statementDigest == At(input.scrapiStatement, "digest")
        proof == Default(input.rekorInclusionProof,
                         At(input.externalTransparencyService, "rekor_inclusion_proof"))
    IN /\ Present(input, {"receiptDigest", "scrapiStatement"})
       /\ input.scrapiStatement.statement_type = "refusal"
       /\ verifyWitnessInclusionProof(input.inclusionProof, input.ledgerAppend, input.verificationExport)
       /\ statementDigest \in {NULL, input.receiptDigest}
       /\ input.rekorWitness # NULL =>
            verifyExternalRekorWitnessWithInclusion(input.rekorWitness, input.receiptDigest, proof,
              resolveRequireRekorInclusionProof(input))

-----------------------------------------------------------------------------
(* The orchestrator's log of a session against the session's hop set *)

\* The names orchestrators give one thing.
HopList(data) == First(data, <<"hops", "claimed_hops", "tools", "steps">>)
ToolOf(raw) == First(raw, <<"tool_name", "toolName", "tool", "name">>)

\* A hop that is no record, or names no tool, makes the claim unreadable.
parseOrchestratorClaim(data) ==
    LET hops == HopList(data)
    IN IF hops = NULL \/ (\E raw \in Range(hops) : raw = NULL \/ ToolOf(raw) = NULL) THEN NULL
       ELSE [session_id |-> data.session_id,
             hops |-> [i \in DOMAIN hops |->
                         [index |-> Default(First(hops[i], <<"index", "step_index">>), i - 1),
                          tool_name |-> ToolOf(hops[i]),
                          entry_hash |-> First(hops[i], <<"entry_hash", "entryHash">>)]]]

\* As many hops as the largest of the count and the two lists says.
capWitnessFromAttachRef(attachRef) ==
    LET names == List(attachRef.tool_names)
        hashes == List(attachRef.entry_hashes)
        count == Max({Default(attachRef.declared_count, 0), Len(names), Len(hashes)})
        nth(list, i) == IF i \in DOMAIN list THEN list[i] ELSE NULL
    IN IF attachRef.ok # TRUE \/ attachRef.session_id = NULL THEN NULL
       ELSE Only(attachRef, {"session_id", "carrier_handoff_allowed"}) @@
            [hops |-> [i \in 1..count |->
                         [index |-> i - 1, tool_name |-> Default(nth(names, i), "(hop)"),
                          entry_hash |-> nth(hashes, i)]],
             session_proof_ok |-> attachRef.session_proof_ok = TRUE,
             carrier_submission_ready |-> At(attachRef.closure_ship_gate, "carrier_submission_ready"),
             closure_ship_gate_blocked |-> At(attachRef.closure_ship_gate, "blocked")]

\* The handoff decides where it is known, else the ship gate, else the proof.
isCapWitnessClosable(cap) ==
    /\ cap.session_proof_ok
    /\ IF cap.carrier_handoff_allowed # NULL THEN cap.carrier_handoff_allowed
       ELSE (cap.carrier_submission_ready # NULL \/ cap.closure_ship_gate_blocked # NULL)
            => cap.carrier_submission_ready = TRUE /\ cap.closure_ship_gate_blocked # TRUE

\* One tool, and no two different hashes.
Alike(h, g) ==
    /\ h.tool_name = g.tool_name
    /\ NULL \in {h.entry_hash, g.entry_hash} \/ h.entry_hash = g.entry_hash

Missing(hops, from) == {i \in DOMAIN hops : \A j \in DOMAIN from : ~Alike(hops[i], from[j])}

\* Mutant: the lengths are not compared.
MutantCompletenessVerdict(capHops, orchHops) ==
    LET under == Missing(capHops, orchHops) # {}
        over == Missing(orchHops, capHops) # {}
    IN CASE under /\ ~over -> "UNDER_REPORTED"
         [] over /\ ~under -> "OVER_REPORTED"
         [] under = over ->
              IF under \/ \E i \in DOMAIN capHops \cap DOMAIN orchHops : ~Alike(capHops[i], orchHops[i])
              THEN "MISMATCH" ELSE "COMPLETE"

\* As sets, then position by position, then by length.
completenessVerdict(capHops, orchHops) ==
    LET under == Missing(capHops, orchHops) # {}
        over == Missing(orchHops, capHops) # {}
    IN CASE under /\ ~over -> "UNDER_REPORTED"
         [] over /\ ~under -> "OVER_REPORTED"
         [] under = over ->
              IF under \/ \E i \in DOMAIN capHops \cap DOMAIN orchHops : ~Alike(capHops[i], orchHops[i])
              THEN "MISMATCH"
              ELSE IF Len(capHops) = Len(orchHops) THEN "COMPLETE"
              ELSE IF Len(capHops) > Len(orchHops) THEN "UNDER_REPORTED" ELSE "OVER_REPORTED"

evaluateCompletenessOracle(cap, claim) ==
    LET verdict == IF At(cap, "hops") \in {NULL, <<>>} THEN "CAP_UNAVAILABLE"
                   ELSE IF claim = NULL THEN "MISMATCH"
                   ELSE completenessVerdict(OrderedBy(cap.hops, "index"), OrderedBy(claim.hops, "index"))
    IN [verdict |-> verdict, closable |-> verdict = "COMPLETE" /\ isCapWitnessClosable(cap)]

-----------------------------------------------------------------------------
(* Promotion of a policy *)

\* In units of the tolerance, which is 30 s: 30 days.
CLOCK_TOLERANCE == 1
MAX_TOKEN_AGE == 30 * 24 * 60 * 2

\* A key that cannot be imported, or did not sign, is passed over.
Opens(key, jws, now) ==
    /\ key # NULL
    /\ jws.signature = [claims |-> Without(jws, {"signature"}), key |-> key]
    /\ jws.iat # NULL
    /\ jws.iat - CLOCK_TOLERANCE <= now /\ now <= jws.iat + MAX_TOKEN_AGE + CLOCK_TOLERANCE
    /\ jws.exp # NULL => jws.exp > now - CLOCK_TOLERANCE

verifyPolicyPromotionProof(jws, trustedRootPublicKeys, now) ==
    /\ \E k \in DOMAIN trustedRootPublicKeys : Opens(trustedRootPublicKeys[k], jws, now)
    /\ Present(jws, {"jti", "contextStructureHash", "sovereigntyLawSeal"})
    /\ jws.policyDialect = "aevesa-rgp/v1"
=============================================================================
