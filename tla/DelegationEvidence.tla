-------------------------- MODULE DelegationEvidence --------------------------
(***************************************************************************)
(* Documents about who acted for whom: the receipt of one delegation step, *)
(* the pack of a chain that crosses organizations, and the older signed    *)
(* hop chain with the profile built on it.                                 *)
(***************************************************************************)
EXTENDS OversightEvidence, ConductEvidence

-----------------------------------------------------------------------------
(* One step *)

\* A hash of what may be used; the builder sorts both lists.
scopeHashFromEffectiveAccess(scopes, tools) == <<scopes, tools>>

ContextFields ==
    {"organization_id", "chain_id", "hop_index", "subject_agent_id", "actor_agent_id",
     "on_behalf_of_principal_digest", "parent_receipt_digest"}

\* What keeps a step from being spliced into another chain.
buildContextBindingDigest(step) == Only(step, ContextFields)

StepFields ==
    ContextFields \cup
    {"issuer_org_id", "issuer_sts_id", "parent_scope_hash", "granted_scope_hash",
     "attenuation_valid", "context_binding_digest", "issued_at", "expires_at", "generated_at"}

buildDelegationStepReceiptPreimage(step) == Flags(Only(step, StepFields), {"attenuation_valid"})

\* A step without a parent is granted what it has.
buildDelegationStepReceiptDocument(input) ==
    LET granted == scopeHashFromEffectiveAccess(input.effective_scopes, input.effective_tools)
        parent == Default(input.parent_scope_hash, granted)
        attenuated == IF input.hop_index = 0 THEN parent = granted
                      ELSE input.parent_receipt_digest # NULL
    IN Seal(buildDelegationStepReceiptPreimage(
              [granted_scope_hash |-> granted, parent_scope_hash |-> parent,
               attenuation_valid |-> attenuated,
               context_binding_digest |-> buildContextBindingDigest(input)] @@ input), "receipt_digest")

\* Each step is given what the one before it was granted.
buildDelegationStepReceiptChain(organizationId, chainId, hopInputs) ==
    LET step[i \in DOMAIN hopInputs] ==
          buildDelegationStepReceiptDocument(
            hopInputs[i] @@
            [organization_id |-> organizationId, chain_id |-> chainId, hop_index |-> i - 1,
             parent_receipt_digest |-> IF i = 1 THEN NULL ELSE step[i - 1].receipt_digest,
             parent_scope_hash |-> IF i = 1 THEN NULL ELSE step[i - 1].granted_scope_hash])
    IN step

verifyDelegationStepReceipt(doc) ==
    /\ Present(doc, {"organization_id", "chain_id", "hop_index", "receipt_digest",
                     "context_binding_digest", "granted_scope_hash", "parent_scope_hash",
                     "on_behalf_of_principal_digest"})
    /\ doc.context_binding_digest = buildContextBindingDigest(doc)
    /\ doc.receipt_digest = buildDelegationStepReceiptPreimage(doc)
    /\ doc.hop_index = 0 => doc.parent_scope_hash = doc.granted_scope_hash

-----------------------------------------------------------------------------
(* A chain of steps across organizations *)

SummaryFields ==
    {"hop_index", "receipt_digest", "issuer_org_id", "granted_scope_hash", "context_binding_digest",
     "parent_receipt_digest", "on_behalf_of_principal_digest", "parent_scope_hash",
     "subject_agent_id", "actor_agent_id"}

buildDelegationStepSummaries(steps) ==
    LET ordered == OrderedBy(steps, "hop_index")
    IN [i \in DOMAIN ordered |-> Only(ordered[i], SummaryFields)]

\* ordered: the steps, or their summaries, by hop.  The organization and the
\* chain a step is bound to are those of the pack.
evaluateChainIntegrity(ordered, organizationId, chainId) ==
    LET later == DOMAIN ordered \ {1}
    IN [hash_chain_continuous |->
          /\ Len(ordered) >= 2 /\ ordered[1].parent_receipt_digest = NULL
          /\ \A i \in later : ordered[i].parent_receipt_digest = ordered[i - 1].receipt_digest,
        attenuation |->
          /\ ordered # <<>> /\ ordered[1].parent_scope_hash = ordered[1].granted_scope_hash
          /\ \A i \in later : ordered[i].parent_scope_hash = ordered[i - 1].granted_scope_hash,
        context_bindings_valid |->
          /\ ordered # <<>>
          /\ \A i \in DOMAIN ordered :
               ordered[i].context_binding_digest = buildContextBindingDigest(
                 [organization_id |-> organizationId, chain_id |-> chainId] @@ ordered[i]),
        principal_bound |->
          /\ ordered # <<>>
          /\ \A i \in later : ordered[i].on_behalf_of_principal_digest
                                = ordered[1].on_behalf_of_principal_digest,
        cross_org |-> Cardinality({ordered[i].issuer_org_id : i \in DOMAIN ordered}) >= 2]

Unbroken(integrity) ==
    /\ integrity.hash_chain_continuous /\ integrity.attenuation
    /\ integrity.context_bindings_valid /\ integrity.principal_bound /\ integrity.cross_org

deriveChainReadiness(integrity, membersVerified, bound, thirdParty) ==
    IF Unbroken(integrity) /\ membersVerified /\ bound /\ thirdParty THEN "relying_party_ready"
    ELSE IF integrity.context_bindings_valid /\ (membersVerified \/ bound) THEN "partial"
    ELSE "unverified"

StepRows(rows) == DOMAIN rows \cap Range(STEP_MEMBERS)

ChainFlags ==
    {"recursive_attenuation_valid", "hash_chain_continuous", "context_bindings_valid",
     "principal_bound", "cross_org", "third_party_verifiable"}

buildChainAssertionsBlock(thirdParty, ordered, organizationId, chainId, members, bound) ==
    LET integrity == evaluateChainIntegrity(ordered, organizationId, chainId)
        rows == Entries(members)
        membersVerified == /\ Cardinality(StepRows(rows)) = Len(ordered)
                           /\ Asserted(members) = DOMAIN rows
    IN [recursive_attenuation_valid |-> integrity.attenuation /\ integrity.hash_chain_continuous,
        third_party_verifiable |-> thirdParty,
        chain_readiness |-> deriveChainReadiness(integrity, membersVerified, bound, thirdParty),
        hop_count |-> Len(ordered)]
       @@ Only(integrity, {"hash_chain_continuous", "context_bindings_valid", "principal_bound", "cross_org"})

buildCrossOrgDelegationChainPackPreimage(doc) ==
    [extractComposedPackSurface(doc) EXCEPT
       !.delegation_steps = buildDelegationStepSummaries(List(@)),
       !.composed_members = [s \in DOMAIN Entries(@) |-> Flags(@[s], {"verify_ok"})],
       !.chain_assertions = Flags(@, ChainFlags),
       !.chain_session_binding = Flags(@, {"normalization_bound"})]

\* The binding names the chain, its length and both its ends.
BindsSteps(binding, chainId, ordered) ==
    /\ binding.chain_id = chainId /\ binding.hop_count = Len(ordered) /\ ordered # <<>>
    /\ binding.root_receipt_digest = ordered[1].receipt_digest
    /\ binding.leaf_receipt_digest = ordered[Len(ordered)].receipt_digest

buildCrossOrgDelegationChainPackDocument(input, stepReceipts) ==
    LET ordered == OrderedBy(stepReceipts, "hop_index")
        binding == input.chain_session_binding
        bound == BindsSteps(binding, input.chain_id, ordered) /\ binding.normalization_bound = TRUE
    IN Seal(buildCrossOrgDelegationChainPackPreimage(
              input @@
              [delegation_steps |-> ordered,
               chain_assertions |->
                 buildChainAssertionsBlock(TRUE, ordered, input.organization_id, input.chain_id,
                                           input.composed_members, bound)]), "pack_digest")

\* Every step row is given the bundled receipt of the first one, which is asked
\* for by the schema the rows share.
memberDocumentForSchema(rows, docs, s) ==
    LET first == STEP_MEMBERS[Min({i \in DOMAIN STEP_MEMBERS : STEP_MEMBERS[i] \in DOMAIN rows})]
        named == {r \in StepRows(docs) : docs[r].receipt_digest = rows[first].member_digest}
    IN IF s \in StepRows(rows) THEN IF named = {} THEN NULL ELSE docs[CHOOSE r \in named : TRUE]
       ELSE IF s \in DOMAIN docs THEN docs[s] ELSE NULL

recomputeMemberVerifyOk(s, embedded) ==
    CASE s \in Range(STEP_MEMBERS) -> verifyDelegationStepReceipt(embedded)
      [] s = "hitl_preimage" -> verifyHitlPreimageBindingBundle(embedded, FALSE)
      [] s = "conduct_manifest" -> verifyTraceableConductManifest(embedded)
      [] OTHER -> FALSE

ChainBlockFields == ChainFlags \cup {"chain_readiness", "hop_count"}
BindingFields ==
    {"chain_id", "root_receipt_digest", "leaf_receipt_digest", "hop_count", "normalization_bound"}

verifyCrossOrgDelegationChainPack(doc) ==
    LET ordered == OrderedBy(List(doc.delegation_steps), "hop_index")
        rows == Entries(doc.composed_members)
        docs == Entries(doc.member_documents)
        found == [s \in DOMAIN rows |-> memberDocumentForSchema(rows, docs, s)]
        m == resolveComposedMemberVerifyState(
               [composed_members |-> doc.composed_members, member_documents |-> found,
                member_verify_attestations |-> doc.member_verify_attestations],
               [s \in DOMAIN Entries(found) |-> recomputeMemberVerifyOk(s, found[s])])
        binding == Block(doc.chain_session_binding, BindingFields)
        said == Block(doc.chain_assertions, ChainBlockFields)
        integrity == evaluateChainIntegrity(ordered, doc.organization_id, doc.chain_id)
    IN /\ Present(doc, {"organization_id", "chain_id"})
       /\ \A i \in DOMAIN ordered : ordered[i].receipt_digest # NULL
       /\ Unbroken(integrity)
       /\ Present(binding, {"root_receipt_digest", "leaf_receipt_digest"})
       /\ BindsSteps(binding, doc.chain_id, ordered)
       /\ Cardinality(StepRows(rows)) >= Len(ordered)
       /\ \A i \in DOMAIN ordered :
            \E s \in StepRows(rows) : rows[s].member_digest = ordered[i].receipt_digest
       /\ composedMemberDigestsValid(rows)
       /\ m.asserted # {} => /\ DOMAIN docs # {} \/ m.memberProofPresent
                             /\ m.memberVerifyRecomputed
       /\ said.third_party_verifiable = TRUE
       /\ said.chain_readiness = "relying_party_ready" =>
            (\A f \in ChainFlags : said[f] = TRUE) /\ binding.normalization_bound = TRUE
       /\ said.chain_readiness = "partial" => said.context_bindings_valid = TRUE
       /\ doc.pack_digest = buildCrossOrgDelegationChainPackPreimage(
            [doc EXCEPT !.chain_assertions = [said EXCEPT !.hop_count = Default(@, Len(ordered))]])

-----------------------------------------------------------------------------
(* The signed hop chain, kovera-delegation-chain/1 *)

HopFields ==
    {"hop_index", "session_id", "parent_session_id", "parent_hop_hash", "scope_hash", "agent_id",
     "passport_jti", "issued_at"}

hopPayloadMaterial(hop) == Only(hop, HopFields)

\* An hmac under a shared secret.
HopSignature(hopHash, signingSecret) == <<hopHash, signingSecret>>

verifyHdpHopReceipt(hop, signingSecret) ==
    /\ hop # NULL /\ hop.hop_hash = hopPayloadMaterial(hop)
    /\ hop.signature = HopSignature(hop.hop_hash, signingSecret)

\* Mutant: the hops are verified and not their links.
MutantVerifyHdpHopChain(hops, signingSecret) ==
    hops # <<>> /\ \A i \in DOMAIN hops : verifyHdpHopReceipt(hops[i], signingSecret)

\* The first hop may name a parent.
verifyHdpHopChain(hops, signingSecret) ==
    /\ hops # <<>>
    /\ \A i \in DOMAIN hops : verifyHdpHopReceipt(hops[i], signingSecret)
    /\ \A i \in DOMAIN hops \ {1} : hops[i].parent_hop_hash = hops[i - 1].hop_hash

\* A link gives on no more than it got.
Narrowed(parent, link) ==
    /\ link.parent_agent_run_id = parent.agent_run_id
    /\ Items(link.effective_scopes) \subseteq Items(parent.effective_scopes)
    /\ Items(link.effective_tools) \subseteq Items(parent.effective_tools)
    /\ Default(link.remaining_budget_cents, 0) <= Default(parent.remaining_budget_cents, 0)

\* The links narrow and the hops are signed; nothing holds one against the other.
verifyDelegationChain(chain, signingSecret) ==
    LET links == List(chain.links)
        hops == List(At(chain.proof, "hops"))
    IN /\ signingSecret # NULL
       /\ At(chain.origin, "origin_sub") # NULL
       /\ links # <<>> /\ chain.depth = Len(links)
       /\ \A i \in DOMAIN links : links[i].hop_index = i - 1
       /\ \A i \in DOMAIN links \ {1} : Narrowed(links[i - 1], links[i])
       /\ Len(hops) = Len(links)
       /\ verifyHdpHopChain(hops, signingSecret)

\* options: signingSecret, requireHopLimitEvidence, requireCascadeRevokeWitness
verifyDelegationAccountabilityBundle(doc, options) ==
    LET limit == doc.hop_limit_enforcement
        cascade == doc.cascade_revoke_witness
        controls == Items(doc.owasp_asi_controls)
    IN /\ doc.delegation_chain # NULL
       /\ verifyDelegationChain(doc.delegation_chain, options.signingSecret)
       /\ options.requireHopLimitEvidence => limit # NULL
       /\ limit # NULL =>
            /\ limit.within_limit = TRUE
            /\ \/ NULL \in {limit.observed_hops, limit.max_task_hops}
               \/ limit.observed_hops <= limit.max_task_hops
       /\ options.requireCascadeRevokeWitness => At(cascade, "revoked_jti") # NULL
       /\ controls = {} \/ controls \cap {"ASI03", "ASI07", "ASI08"} # {}
=============================================================================
