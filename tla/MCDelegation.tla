----------------------------- MODULE MCDelegation -----------------------------
(* Two documents of every kind of OversightEvidence, DelegationEvidence and *)
(* LogEvidence, for MCEvidence.                                             *)
EXTENDS MCReadiness, DelegationEvidence, LogEvidence

Delegated ==
    {"hitl_preimage", "hitl_approval", "revocation_horizon", "delegation_step", "delegation_chain",
     "delegation_accountability"}

-----------------------------------------------------------------------------
(* Oversight *)

\* The approver of b is shown something else than what the gate evaluates.
Preimage(t) ==
    buildHitlPreimageBindingDocument(
      Of(t, {"session_id", "approval_request_id"}) @@
      [human_visible_preimage |-> t, gate_evaluation_preimage |-> IF t = A THEN t ELSE NULL])

Approval(t) ==
    buildHitlApprovalReceiptDocument(
      Session(t) @@
      Of(t, {"approval_request_id", "approved_at", "tool_name", "approver_identity_digest"}) @@
      [content_digest |-> Preimage(t).gate_evaluation_digest, hitl_preimage_binding |-> Preimage(t),
       decision |-> IF t = A THEN "APPROVE" ELSE "DENY", channel |-> IF t = A THEN "slack" ELSE "api",
       session_chain_binding |->
         [session_id |-> t, required_entry_hash |-> t, release_entry_hash |-> t,
          content_digest |-> Preimage(t).gate_evaluation_digest, normalization_bound |-> TRUE],
       approval_assertions |-> [third_party_verifiable |-> TRUE]])

\* The last action of b came after the revocation.
Horizon(t) ==
    buildRevocationHorizonDocument(
      Of(t, {"session_id", "revoke_signal_entry_hash", "last_permitted_action_entry_hash"}) @@
      [horizon_ms |-> 5, horizon_ms_observed |-> 5,
       revoke_signal_timestamp_ms |-> IF t = A THEN 4 ELSE 2,
       last_permitted_action_timestamp_ms |-> IF t = A THEN 3 ELSE 6])

-----------------------------------------------------------------------------
(* Delegation *)

\* a has two steps and b three, each of another organization.
Hops(t) == IF t = A THEN 2 ELSE 3

Steps(t) ==
    buildDelegationStepReceiptChain(t, t,
      [i \in 1..Hops(t) |->
        Of(t, {"issuer_sts_id", "actor_agent_id", "on_behalf_of_principal_digest", "issued_at",
               "expires_at", "generated_at"}) @@
        [issuer_org_id |-> <<t, i>>, subject_agent_id |-> <<t, i>>,
         effective_scopes |-> (i..3) \X {t}, effective_tools |-> {t}]])

\* The hop and what it hands on, under the secret of whoever runs the chain.
SignedHops(t) ==
    LET hash[i \in 1..Hops(t)] ==
          Of(t, {"session_id", "agent_id", "issued_at"}) @@ Of(NULL, {"parent_session_id", "passport_jti"}) @@
          [hop_index |-> i - 1, scope_hash |-> scopeHashFromEffectiveAccess((i..3) \X {t}, {t}),
           parent_hop_hash |-> IF i = 1 THEN NULL ELSE hash[i - 1]]
    IN [i \in 1..Hops(t) |->
          hash[i] @@ [hop_hash |-> hash[i], signature |-> HopSignature(hash[i], "secret")]]

\* The budget of a runs out, that of b is never stated.
Chain(t) ==
    [origin |-> [origin_sub |-> t], depth |-> Hops(t),
     links |-> [i \in 1..Hops(t) |->
        [hop_index |-> i - 1, agent_run_id |-> <<t, i>>, parent_agent_run_id |-> <<t, i - 1>>,
         effective_scopes |-> (i..3) \X {t}, effective_tools |-> IF t = A THEN {t} ELSE NULL,
         remaining_budget_cents |-> IF t = A THEN 2 - i ELSE NULL]],
     proof |-> [hops |-> SignedHops(t), chain_tip_hash |-> SignedHops(t)[Hops(t)].hop_hash]]

\* The chain with its hops as a field of their own, so that custody reaches each.
Flat(t) == Without(Chain(t), {"proof"}) @@ [hops |-> SignedHops(t)]
Unflat(d) == Without(d, {"hops"}) @@ [proof |-> [hops |-> d.hops, chain_tip_hash |-> NULL]]

Accountability(t) ==
    [delegation_chain |-> Chain(t),
     hop_limit_enforcement |-> [within_limit |-> TRUE, observed_hops |-> Hops(t),
                                max_task_hops |-> IF t = A THEN NULL ELSE 3],
     cascade_revoke_witness |-> [revoked_jti |-> t],
     owasp_asi_controls |-> IF t = A THEN NULL ELSE {"ASI01", "ASI07"}]

-----------------------------------------------------------------------------

IssueDelegated(k, t) ==
    CASE k = "hitl_preimage" -> Preimage(t)
      [] k = "hitl_approval" -> Approval(t)
      [] k = "revocation_horizon" -> Horizon(t)
      [] k = "delegation_step" -> Steps(t)[Hops(t) - 1]
      [] k = "delegation_chain" -> Flat(t)
      [] k = "delegation_accountability" -> Accountability(t)

VerifyDelegated(k, d, o) ==
    CASE k = "hitl_preimage" ->
           verifyHitlPreimageBindingBundle(d, o = "strict" /\ d.binding_result = "MATCH")
      [] k = "hitl_approval" ->
           verifyHitlApprovalReceipt(d, o = "strict" /\ d.decision = "APPROVE", o = "strict")
      [] k = "revocation_horizon" ->
           verifyRevocationHorizonBundle(d, o = "strict" /\ d.attestation = "WITHIN_SLA")
      [] k = "delegation_step" -> verifyDelegationStepReceipt(d)
      [] k = "delegation_chain" -> verifyDelegationChain(Unflat(d), "secret")
      [] k = "delegation_accountability" ->
           verifyDelegationAccountabilityBundle(d,
             [signingSecret |-> "secret", requireHopLimitEvidence |-> o = "strict",
              requireCascadeRevokeWitness |-> o = "strict"])

\* Nobody but the chain's own party has the secret of its hops.
ResealDelegated(k, d) ==
    CASE k = "hitl_preimage" -> [d EXCEPT !.binding_digest = computeHitlBindingDigestFromFields(d)]
      [] k = "hitl_approval" ->
           [d EXCEPT !.approval_digest = buildHitlApprovalReceiptPreimage(d)]
      [] k = "revocation_horizon" -> Only(d, HorizonFields) @@ evaluateRevocationHorizon(d)
      [] k = "delegation_step" ->
           LET bound == [d EXCEPT !.context_binding_digest = buildContextBindingDigest(d)]
           IN [bound EXCEPT !.receipt_digest = buildDelegationStepReceiptPreimage(bound)]
      [] OTHER -> d

PartsDelegated(k) ==
    CASE k = "hitl_approval" ->
           {"hitl_preimage_binding", "session_chain_binding", "approval_assertions"}
      [] k = "delegation_chain" -> {"hops"}
      [] k = "delegation_accountability" ->
           {"delegation_chain", "hop_limit_enforcement", "cascade_revoke_witness"}
      [] OTHER -> {}

ListsDelegated(k) == IF k = "delegation_chain" THEN {"hops", "links"} ELSE {}

\* The links of a chain are under no signature.
PromisedDelegated(k, d) ==
    CASE k = "delegation_chain" -> Only(d, {"hops"})
      [] k = "delegation_accountability" -> [hops |-> d.delegation_chain.proof.hops]
      [] OTHER -> d

\* From link i to link j, with none missing between them, a chain only loses
\* scopes and tools; budgets are compared where they are numbers.
Narrows(links) ==
    \A j \in DOMAIN links \cap Nat : \A i \in 1..j :
      i..j \subseteq DOMAIN links =>
        /\ Items(links[j].effective_scopes) \subseteq Items(links[i].effective_scopes)
        /\ Items(links[j].effective_tools) \subseteq Items(links[i].effective_tools)
        /\ (\A n \in i..j : Default(links[n].remaining_budget_cents, 0) \in Int) =>
             Default(links[j].remaining_budget_cents, 0) <= Default(links[i].remaining_budget_cents, 0)

\* An approval that is ready was given on what the approver saw; nothing was
\* permitted after a revocation that was kept; a chain narrows from its first
\* link to its last.
EarnedDelegated(k, d) ==
    CASE k = "hitl_approval" ->
           At(d.approval_assertions, "approval_readiness") = "asi09_ready" =>
             d.hitl_preimage_binding.human_visible_digest = d.content_digest
      [] k = "revocation_horizon" ->
           LET revoked == d.revoke_signal_timestamp_ms
               last == d.last_permitted_action_timestamp_ms
           IN /\ d.attestation = "WITHIN_SLA"
              /\ NULL \notin {revoked, last}
              /\ {revoked, last, d.horizon_ms_observed} \subseteq Int
              => last \notin (revoked + 1)..(revoked + d.horizon_ms_observed)
      [] k = "delegation_chain" -> Narrows(Unflat(d).links)
      [] k = "delegation_accountability" -> Narrows(d.delegation_chain.links)
      [] OTHER -> TRUE

-----------------------------------------------------------------------------
(* Logs *)

Logs == {"ledger_row", "witness_inclusion", "refusal_witness", "rekor_inclusion", "monitor_status",
         "incident", "promotion"}

IntentEnvelope(t) ==
    Of(t, {"reasoningPath", "constraintsApplied", "modelFingerprint"}) @@
    [causalBinding |-> IF t = A THEN NULL ELSE [parentEntryHash |-> t]]

\* Row a opens a chain and stores its binding; b follows a row and has its cost
\* in the payload.
UnsealedRow(t) ==
    Of(t, {"agentId", "eventType", "timestamp", "policyId", "approverId", "forensicSnapshot"}) @@
    Of(NULL, {"contextHash", "entryHash", "intentContext", "governanceBinding"}) @@
    [severity |-> IF t = A THEN "WARN" ELSE NULL, cost |-> IF t = A THEN t ELSE NULL,
     proofOfIntent |-> computeProofOfIntent(IntentEnvelope(t)),
     payload |-> [cost |-> t, proofOfIntentEnvelope |-> IntentEnvelope(t)],
     prevHash |-> IF t = A THEN NULL ELSE t, prevContextHash |-> IF t = A THEN NULL ELSE t]

LedgerRow(t) ==
    sealAegisLedgerRow(
      IF t = A THEN [UnsealedRow(t) EXCEPT !.governanceBinding = resolveGovernanceBinding(UnsealedRow(t))]
      ELSE UnsealedRow(t),
      UnsealedRow(t).prevContextHash)

Sequence(t) == IF t = A THEN 1 ELSE 2
WitnessEntry(t) == Of(t, {"orgId", "digest", "eventTimestamp", "nonce"}) @@
    [prevHash |-> IF t = A THEN GENESIS ELSE t, payload |-> IF t = A THEN NULL ELSE [entry_id |-> t]]

WitnessInclusion(t) ==
    LET hash == calculateWitnessEntryHash(WitnessEntry(t), Sequence(t))
    IN [inclusionProof |-> [root_hash |-> hash, parent_hash |-> IF t = A THEN NULL ELSE t,
                            entry_index |-> IF t = A THEN NULL ELSE 2],
        ledgerAppend |-> [entryHash |-> hash, parentHash |-> IF t = A THEN GENESIS ELSE t,
                          sequence |-> Sequence(t)],
        verificationExport |-> WitnessEntry(t)]

\* Export a claims the external inclusion and brings its proof, b the lookup only.
RefusalWitness(t) ==
    WitnessInclusion(t) @@ Of(NULL, {"externalTransparencyService"}) @@
    [receiptDigest |-> t, scrapiStatement |-> [statement_type |-> "refusal", digest |-> t],
     rekorWitness |-> [ok |-> TRUE, uuid |-> t, digest |-> t, log_index |-> IF t = A THEN 0 ELSE NULL,
                       rekor_inclusion_proof |-> NULL],
     rekorInclusionProof |-> IF t = A THEN buildSingleLeafRekorInclusionProofDocument(t) ELSE NULL,
     proofStrengthDisclosure |->
       [external_transparency |-> IF t = A THEN INCLUSION_VERIFIED ELSE "rekor_metadata_only"]]

\* The Merkle tree of RFC 6962 over leaves lo..hi - 1, and the path of one of
\* them: the left subtree is the largest full one that leaves something over.
LeftSize(n) == CHOOSE k \in {2^j : j \in 0..n} : k < n /\ 2 * k >= n
TreeHead(bodies) ==
    LET head[r \in (0..Len(bodies)) \X (0..Len(bodies))] ==
          LET lo == r[1] hi == r[2] mid == lo + LeftSize(hi - lo)
          IN IF hi = lo + 1 THEN rfc6962LeafHash(bodies[hi])
             ELSE rfc6962NodeHash(head[<<lo, mid>>], head[<<mid, hi>>])
    IN head
AuditPath(bodies, m) ==
    LET path[r \in (0..Len(bodies)) \X (0..Len(bodies))] ==
          LET lo == r[1] hi == r[2] mid == lo + LeftSize(hi - lo)
          IN IF hi = lo + 1 THEN <<>>
             ELSE IF m < mid THEN Append(path[<<lo, mid>>], TreeHead(bodies)[<<mid, hi>>])
             ELSE Append(path[<<mid, hi>>], TreeHead(bodies)[<<lo, mid>>])
    IN path[<<0, Len(bodies)>>]

\* The verifier's walk along a path is the tree's own, for every leaf of every
\* tree of up to nine leaves.
ASSUME WalkIsTreeHead ==
    \A n \in 1..9 :
      LET bodies == [i \in 1..n |-> [digest |-> i]]
      IN \A m \in 0..(n - 1) :
           computeRfc6962RootFromInclusionProof(m, n, rfc6962LeafHash(bodies[m + 1]), AuditPath(bodies, m))
             = TreeHead(bodies)[<<0, n>>]

\* a is the last of three entries, b the second of five and states its leaf.
RekorInclusion(t) ==
    LET size == IF t = A THEN 3 ELSE 5
        index == IF t = A THEN 2 ELSE 1
        bodies == [i \in 1..size |-> [digest |-> <<t, i>>]]
        root == TreeHead(bodies)[<<0, size>>]
    IN [log_index |-> index, tree_size |-> size, root_hash |-> root,
        hashes |-> AuditPath(bodies, index), entry_body |-> bodies[index + 1],
        leaf_hash |-> IF t = A THEN NULL ELSE rfc6962LeafHash(bodies[index + 1]),
        checkpoint |-> IF t = A THEN NULL ELSE [tree_size |-> size, root_hash |-> root],
        statement |-> bodies[index + 1].digest]

\* Two windows of one length.
MonitorStatus(t) ==
    LET digests == <<<<t, 1>>, <<t, 2>>>>
    IN Of(t, {"witness_log", "monitor_assertions"}) @@
       [monitor_state |-> "healthy", entryDigests |-> digests,
        consistency_proof_latest |->
          [from_index |-> IF t = A THEN 0 ELSE 2, to_index |-> IF t = A THEN 1 ELSE 3,
           entry_count |-> 2, root_hash |-> digests]]

\* Session a calls a tool twice, and the orchestrator's log of it gives places
\* and no hashes; that of b gives hashes and no places, under other names.
IncidentTools(t) == IF t = A THEN <<"read", "pay", "pay">> ELSE <<"read", "pay">>
Incident(t) ==
    [ok |-> TRUE, session_id |-> t, declared_count |-> Len(IncidentTools(t)),
     tool_names |-> IncidentTools(t),
     entry_hashes |-> [i \in DOMAIN IncidentTools(t) |-> <<t, i>>],
     session_proof_ok |-> TRUE, carrier_handoff_allowed |-> IF t = A THEN TRUE ELSE NULL,
     closure_ship_gate |-> [carrier_submission_ready |-> TRUE, blocked |-> FALSE],
     hops |-> IF t = B THEN NULL
              ELSE [i \in DOMAIN IncidentTools(t) |->
                      [tool_name |-> IncidentTools(t)[i], index |-> i - 1]],
     steps |-> IF t = A THEN NULL
               ELSE [i \in DOMAIN IncidentTools(t) |->
                       [name |-> IncidentTools(t)[i], entryHash |-> <<t, i>>]]]

ToolsOf(hops) == LET ordered == OrderedBy(hops, "index")
                 IN [i \in DOMAIN ordered |-> ordered[i].tool_name]

\* Token a is as old as it may be; b is from a clock ahead of the verifier's and
\* has just run out.
Now == 100000
Claims(t) ==
    Of(t, {"jti", "contextStructureHash", "sovereigntyLawSeal", "allowedTransitions"}) @@
    [policyDialect |-> "aevesa-rgp/v1", tenantId |-> IF t = A THEN t ELSE NULL,
     iat |-> IF t = A THEN Now - MAX_TOKEN_AGE - CLOCK_TOLERANCE ELSE Now + CLOCK_TOLERANCE,
     exp |-> IF t = A THEN NULL ELSE Now]
Promotion(t) == Claims(t) @@ [signature |-> [claims |-> Claims(t), key |-> "root"]]

IssueLog(k, t) ==
    CASE k = "ledger_row" -> LedgerRow(t)
      [] k = "witness_inclusion" -> WitnessInclusion(t)
      [] k = "refusal_witness" -> RefusalWitness(t)
      [] k = "rekor_inclusion" -> RekorInclusion(t)
      [] k = "monitor_status" -> MonitorStatus(t)
      [] k = "incident" -> Incident(t)
      [] k = "promotion" -> Promotion(t)

\* A caller may know the statement's digest; it may trust an older key first,
\* or try one it cannot read.
VerifyLog(k, d, o) ==
    CASE k = "ledger_row" -> verifyLedgerEntryPreimage(d, o = "strict")
      [] k = "witness_inclusion" ->
           verifyWitnessInclusionProof(d.inclusionProof, d.ledgerAppend, d.verificationExport)
      [] k = "refusal_witness" -> verifyScittRefusalWitnessBundle(d)
      [] k = "rekor_inclusion" ->
           verifyRekorCryptoInclusionProof(d, NULL, IF o = "strict" THEN d.statement ELSE NULL)
      [] k = "monitor_status" -> verifyTransparencyLogMonitorStatus(d, List(d.entryDigests))
      [] k = "incident" ->
           LET oracle == evaluateCompletenessOracle(capWitnessFromAttachRef(d), parseOrchestratorClaim(d))
           IN IF o = "strict" THEN oracle.closable ELSE oracle.verdict = "COMPLETE"
      [] k = "promotion" ->
           verifyPolicyPromotionProof(d, IF o = "strict" THEN <<"root">> ELSE <<NULL, "older", "root">>, Now)

\* The ledger's service seals; nobody else has a log's or a root's key.
ResealLog(k, d) ==
    IF k = "ledger_row" THEN sealAegisLedgerRow(d, prevContextHashUsed(d)) ELSE d

PartsLog(k) ==
    CASE k = "ledger_row" -> {"payload"}
      [] k = "witness_inclusion" -> {"inclusionProof", "ledgerAppend", "verificationExport"}
      [] k = "refusal_witness" ->
           {"scrapiStatement", "inclusionProof", "rekorWitness", "rekorInclusionProof",
            "proofStrengthDisclosure"}
      [] k = "rekor_inclusion" -> {"checkpoint", "entry_body"}
      [] k = "monitor_status" -> {"consistency_proof_latest"}
      [] k = "incident" -> {"tool_names", "entry_hashes", "hops", "steps"}
      [] k = "promotion" -> {"signature"}

ListsLog(k) ==
    CASE k = "rekor_inclusion" -> {"hashes"}
      [] k = "monitor_status" -> {"entryDigests"}
      [] k = "incident" -> {"tool_names", "entry_hashes", "hops", "steps"}
      [] OTHER -> {}

\* Not bound: the fields a stored binding was made of; the parent an inclusion
\* names, and the place in the log of an entry not exported; which entry of the
\* witness log an export is of; the entry beside a stated leaf; where a
\* consistency proof's window lies; the hash of a hop the orchestrator gives none
\* for, and the session either is of.
PromisedLog(k, d) ==
    CASE k = "ledger_row" ->
           Only(d, AEGIS_CONTEXT_LINKAGE_KEYS \cup {"prevHash", "contextHash"}) @@
           [binding |-> Default(d.governanceBinding, resolveGovernanceBinding(d))]
      [] k = "witness_inclusion" ->
           [root |-> At(d.inclusionProof, "root_hash"), entry |-> At(d.ledgerAppend, "entryHash"),
            sequence |-> IF d.verificationExport = NULL THEN NULL ELSE At(d.ledgerAppend, "sequence"),
            verificationExport |-> d.verificationExport]
      [] k = "refusal_witness" ->
           [receipt |-> d.receiptDigest, statement |-> At(d.scrapiStatement, "digest"),
            rekor |-> At(d.rekorWitness, "digest"),
            entry |-> IF d.rekorWitness = NULL THEN NULL ELSE At(d.rekorInclusionProof, "entry_body")]
      [] k = "rekor_inclusion" ->
           Only(d, {"log_index", "tree_size", "root_hash", "hashes"}) @@ [leaf |-> leafHashOf(d)]
      [] k = "monitor_status" ->
           [root |-> At(d.consistency_proof_latest, "root_hash"),
            digests |-> IF d.consistency_proof_latest = NULL THEN NULL ELSE d.entryDigests]
      [] k = "incident" ->
           [tools |-> ToolsOf(capWitnessFromAttachRef(d).hops),
            claimed |-> ToolsOf(parseOrchestratorClaim(d).hops)]
      [] k = "promotion" -> Without(d, {"signature"})

SameTools(hops, others) ==
    LET told == OrderedBy(hops, "index")
        seen == OrderedBy(others, "index")
    IN /\ Len(told) = Len(seen)
       /\ \A i \in DOMAIN told \cap DOMAIN seen : told[i].tool_name = seen[i].tool_name

\* An inclusion claimed is proved, where the log's witness is there at all; a
\* proof shown is of the window the caller holds; the orchestrator claims the
\* calls of the session, each as often and in the order they were made.
EarnedLog(k, d) ==
    CASE k = "refusal_witness" ->
           (/\ At(d.proofStrengthDisclosure, "external_transparency") = INCLUSION_VERIFIED
            /\ d.rekorWitness # NULL)
           => \E proof \in {d.rekorInclusionProof, d.rekorWitness.rekor_inclusion_proof,
                             At(d.externalTransparencyService, "rekor_inclusion_proof")} :
                proof # NULL /\ proof.entry_body.digest = d.receiptDigest
      [] k = "monitor_status" ->
           d.consistency_proof_latest # NULL =>
             d.consistency_proof_latest.root_hash = SelectSeq(List(d.entryDigests), LAMBDA e : e # NULL)
      [] k = "incident" ->
           SameTools(parseOrchestratorClaim(d).hops, capWitnessFromAttachRef(d).hops)
      [] OTHER -> TRUE
=============================================================================
