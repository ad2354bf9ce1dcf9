# TLA+ models of `@aevesa/verify`

This directory holds a formal model of the verification library in
`src/packages/verify/src` (paths below are relative to it): TLA+ modules, TLC
configurations that check them on small instances, and proofs checked by TLAPS.

The library is **stateless**. It computes verdicts over evidence that others
produce: a gateway that gates an agent's actions, issuers that seal one
liability receipt per action, an export endpoint that packs a session, storage
and caches in between, an insurer ("carrier") that reads the result. None of
these is in `src/`. What can go wrong is therefore rarely one call; it is a
sequence: evidence sealed under one version and verified under another, parts
of a bundle lost or mixed up between sealing and verifying, a budget evaluated
before and recorded after somebody else's step, a verdict cached and read by a
newer package. The exceptions are a registry of tool lists kept in files, and
the checks that judge a moment: whether an approval has run out, whether an
action came after a revocation. The models put the library's operations, translated from the
code, into such an environment. Environment actions are marked *external* in
`PROJECT.json` and do only what a process without the issuer's key could do.

## 1. Inventory

A file without a directory is in that of the file before it.

| Component | State it works on | Operations | What makes it correct |
|---|---|---|---|
| **Capability budget and policy** (`policy/capabilityBudget.js`, `permitExecutionBinding.js`, `policyProofVerify.js`, ...) | the partial path: a session's steps with the budget committed at each | classify a tool, derive and attenuate the budget, evaluate a proposal, replay monotonicity, bind a permit to an execution | a sink a tainted read closed is closed for good; the checks on committed budgets accept every honest session |
| **Liability receipt** (`liability/verifyReceipt.ts`, `digestProfiles.ts`, `signatures.ts`, `pillars.ts`, ...) | one receipt: fields, digest, signature | match a digest profile, refuse pillars the profile does not bind, recompute the alignment, verify the signature | nothing sealed changes and nothing is attached without refusal; what the library itself seals verifies, in every era |
| **Proof-strength disclosure and chain rollup** (`core/proofStrengthDisclosure.ts`, `liability/proofStrengthDisclosure*.ts`, `chainEnforcementRollup.ts`) | per hop: mode of enforcement and its source | derive, verify and bind a disclosure; merge two sources per hop; weakest link over the chain | the mode a reader sees is the mode of the capture; one weak hop makes a weak chain |
| **CAP session proof** (`liability/sessionProofVerify.ts`, `setCompletenessVerify.ts`, `core/partialPath.js`) | a bundle: manifest, terminal receipt, member receipts, path, custodian commitment | parse, align sessions, verify the set root, the terminal digest, the members at their hops, the budget, permits and optional proofs | "complete" means one genuine export of one session, receipt by receipt |
| **Composition closure, export gate, handoff** (`liability/sessionCompositionClosure.ts`, `capExportGatePolicy.ts`, `capExportCarrierHandoff.ts`, `completenessOracle.ts`) | closure and gate published beside a bundle; the integrator's floor | presence per hop, verdict, advisory, ship gate; recheck at handoff against the floor | what is handed off is enforced at every hop, and not older than the floor |
| **Constraint closure, prove bundle, custodian** (`core/constraintClosure.ts`, `liability/constraintClosureVerify.ts`, `proveBundleVerify.ts`, `evidenceCustodianVerify.ts`, `independentGuardianBundleVerify.ts`) | constraints of a session and their recomposition; a receipt with its cosigners; a bundle in a guardian's hands | recompute, compare, verify the custodian's commitment | a PASS is recomputable from what it names; a cosigner cosigned this receipt |
| **Channel provenance, egress, execution boundary** (`core/channelProvenance.ts`, `egressAttestation.ts`, `egressAttestationV2.ts`, `egressProxy*.ts`, `interceptDecisionAttestation.ts`, `executionSurfaceCompleteness.ts`, `provableExecutionBoundary.ts`, their verifiers in `liability/`) | channels a context came from, what left, what was intercepted, over which surfaces | build, count and attest rows; verify the documents; judge the boundary | a complete boundary has every surface it declares; a claim follows from the rows |
| **Conduct documents** (`core/flightRecorderExport.ts`, `traceableConductManifest.ts`, `agtConductReceipt.ts`, `ap2ConductReceipt.ts`, `behavioralSbom.ts`, `agentCensusCompletenessPack.ts`, `mcpSepAttestationBind.ts`) | what agents did and were declared to do | build, bind to a receipt, verify | what is accepted was recorded in one session |
| **Governance documents** (`core/declaredAdaptationEnvelope.ts`, `substantialModificationSignal.ts`, `adaptationLifecycleExport.ts`, `vendorModelChange.ts`, `postMarketMonitoringSnapshot.ts`, `incidentNotificationTimeline.ts`) | a system under change | build, bind by digest, recompute deltas and lead times | a change is judged against the envelope it names |
| **Readiness documents** (`core/addonVettingProvenance.ts`, `adversarialTestEvidencePack.ts`, `quarterlyRetestReceipt.ts`, `shutdownDrillBundle.ts`, `evidenceResurrection.ts`, `licenseSurvivableBundle.ts`, `conformityClosure.ts`, `insuranceSignalDigest.ts`, `liability/autonomyTierAttestationVerify.ts`) | claims of an organization about itself | recompute scores, gaps and verdicts from evidence | a readiness claim is earned by the rows it stands on |
| **Human approval** (`liability/hitlCryptoBinding.ts`, `hitlPreimageBindingVerify.ts`, `hitlApprovalReceiptVerify.ts`) | a witness payload, its JWS, the approved action | bind intent, tool and arguments; expiry; asynchronous signature check | an approval is for exactly this action, and in time |
| **Delegation and revocation** (`core/delegationChainVerify.js`, `liability/delegationStepReceiptVerify.ts`, `crossOrgDelegationChainPackVerify.ts`, `core/revocationHorizon.ts`) | steps of a chain of mandates; a revoke signal and later actions | verify steps and their order, observe the horizon | each hop has its parent's mandate; nothing is permitted after a revoke |
| **Composed packs and evidence graph** (`liability/composedPackMemberVerify.ts`, `memberVerifyAttestationVerify.ts`, `compositeEvidenceGraph.ts`, the pack builders and verifiers) | packs of member documents, attestations of witnesses | verify members or go by an attestation, compose verdicts | a pack claims no more than its members show |
| **MCP tool manifest pin** (`mcp/attestMcpToolManifest.ts`) | one file per server id | trust on first use: load, compare, save; gate tool calls | a pin never changes silently |
| **Witness inclusion and log monitor** (`witness/*.js`) | a log's documents: inclusion proofs, a window, a monitor's status, a refusal export | verify inclusion and consistency, recompute the root of an audit path | what is included is what was logged; a status is earned by its window |
| **Ledger preimage and replay** (`core/ledgerPreimage.js`, `proofOfIntent.js`, `replay/replayProofBundle.js`) | hash-chained entries, a timeline | recompute hashes, sort, replay | the replay order is the order of the chain |
| **Unified verify and CLI** (`verify/runUnifiedVerify.js`, `detectEvidenceType.js`, ...) | the evidence given | detect a kind, dispatch, render | the right verifier runs |
| **Conformance lab** (`conformance/runConformanceLab.js`) | a deployment under test | HTTP probes with a timeout | down is reported as down |
| **Offline policy promotion** (`offlinePromotionVerifier.js`) | trusted keys, a signed policy | try keys, check the payload | only a payload some trusted key signed, in time, is promoted |

How they interact: a gate calls the **budget** for every proposal; each outcome
becomes a step of the partial path that the hop's **receipt** seals, together
with the **disclosure** of the mode it was captured in. An exporter packs the
receipts and a **set-completeness manifest** into a bundle; `verifySessionProof`
re-verifies every part and derives the **chain rollup** and the **closure**,
which an endpoint publishes with a gate and a policy revision; the integrator's
package decides on the **handoff** from the published body alone, without the
bundle.

Around the session stand the **evidence documents**: some seventy kinds, each with
a builder that derives a record from evidence, seals it with a digest, and a
verifier that recomputes both. Some bind others by digest; a **pack** composes
members, bundles some of them beside it, and has its verifier verify the bundled
ones again or go by a witness's **attestation**. The **approval** of a person and
the **revocation** of a mandate enter as documents too, but are judged against a
clock.

### Hard behaviours

The 40 hazards in `PROJECT.json` name them with their lines. The groups:

* *Read, decide, record later.* The budget is derived from the steps a caller
  passes, and the outcome is appended afterwards. With several agents another
  step may be recorded in between.
* *Three eras of digests.* A receipt is tried against the current and two legacy
  profiles, each binding fewer fields. An altered copy may match an older
  profile than the one it was sealed under.
* *Things outside the digest.* The governance block is not digested (a digest of
  the disclosure is); a path is digested by its stored hash, which one verifier
  recomputes over the parsed path and the others over the path as it came.
* *Five views of one set of hops.* Manifest, members, terminal receipt, path and
  rollup each sort, index and default for themselves, several with optional
  fields.
* *Verdicts cached and judged later* by another release, without the bundle.
* *One file, several processes, no lock.* A pin is loaded, compared and saved in
  three steps, in place; a process may die between opening and writing.
* *A verdict beside the time it was made at.* A signature check is awaited before
  an approval is evaluated; the same evidence is checked again later; a ledger
  shows an action after an observer has looked.
* *A digest that covers less than it seems.* A verifier that compares a derived
  field with a field of the same document, looks a member up by a key that two
  members share, or takes an attached word for an evaluated one.
* *A claim beside a witness.* An incident closes when an orchestrator's hops agree
  with the session's, by pairs and by sets, with optional hashes.
* *One value that stands for many.* A horizon is judged by the last permitted action
  alone, whatever came before it.
* *A timeline sorted by timestamps, a probe that times out*: no property (section 5).

## 2. Modules

| Module | Models | EXTENDS |
|---|---|---|
| `JsNull` | the value `null`/`undefined`, told apart from every other | |
| `CapabilityBudget` | `policy/capabilityBudget.js` as operators | `JsNull` |
| `GateSession` | agents that share a session behind the gate | `CapabilityBudget` |
| `GateSession_proofs` | its theorems | `GateSession`, `TLAPS` |
| `ProofStrengthDisclosure` | deriving, verifying and binding a disclosure | `JsNull` |
| `LiabilityReceipt` | digest profiles, pillars, the release by a person, alignment, shredded fields, signatures, `verifyReceipt` | `ProofStrengthDisclosure` |
| `LiabilityReceipt_proofs` | lemmas about digests, sealing and verifying | `LiabilityReceipt`, `TLAPS` |
| `ReceiptCustody` | the life of one receipt: issued in some era, altered, verified | `LiabilityReceipt` |
| `ReceiptCustody_proofs` | its theorems | `ReceiptCustody`, `LiabilityReceipt_proofs` |
| `CompositionClosure` | the set-completeness manifest, its root and its verification; the weakest-link rollup of two sources; presence, verdict, advisory, ship gate, policy, handoff | `LiabilityReceipt` |
| `SessionProof` | permits bound to executed steps, the manifest's custodian; `verifySessionProof`: parsing and every check, in order | `CompositionClosure`, `CapabilityBudget` |
| `SessionProof_proofs` | lemmas about sorting, the rollup, the budget's replay, the closure and its gate | `SessionProof`, `LiabilityReceipt_proofs` |
| `CapExport` | a session from capture to carrier handoff | `SessionProof` |
| `CapExport_proofs` | its theorems | `CapExport`, `SessionProof_proofs` |
| `EvidenceDocument` | digests, missing fields, sorting, the checks all documents share | `JsNull` |
| `EgressEvidence` | egress attestations of both versions, proxy attribution and its vendors' adapters, collector envelopes | `EvidenceDocument` |
| `BoundaryEvidence` | intercept and surface completeness, channel provenance, the execution boundary composed of them | `EvidenceDocument` |
| `ConductEvidence` | conduct manifest, flight recorder, AGT and AP2 conduct, behavioural SBOM, agent census, tool manifest and memory bound to a receipt, MCP attestation bind | `EvidenceDocument` |
| `CustodianEvidence` | denial profile, constraint closure, prove bundle, custodian, independent guardian, host conformance | `ConductEvidence` |
| `GovernanceEvidence` | adaptive envelope, signal and lifecycle, vendor model change, monitoring, notifications | `EvidenceDocument` |
| `ReadinessEvidence` | vetting, adversarial tests and retests, drills, resurrection, licence, conformity closure, review, autonomy, insurance signal | `ConductEvidence` |
| `PackMembers` | members of a pack: bundled, attested by a witness, or neither | `EvidenceDocument` |
| `ConductPacks`, `IndependencePacks`, `GovernancePacks`, `UnderwritingPacks` | fourteen composed packs | `PackMembers` and the documents they hold |
| `OversightEvidence` | preimage binding, approval receipt, revocation horizon | `PackMembers` |
| `DelegationEvidence` | step receipts, the cross-organization pack, signed hop chain and accountability profile | `OversightEvidence`, `ConductEvidence` |
| `LogEvidence` | ledger rows and proofs of intent, witness and Merkle inclusion, the monitor's status, refusal exports, the completeness oracle, policy promotion | `CustodianEvidence` |
| `EvidenceCustody` | a document of any kind between its builder and its verifier | `EvidenceDocument` |
| `EvidenceCustody_proofs` | its theorems, for the kinds of document `MCEvidence` composes | `MCEvidence`, `TLAPS` |
| `Oversight` | binding an approval to an action, JWS check and evaluation; approvals and revocations in time | `OversightEvidence` |
| `Oversight_proofs` | its theorems | `Oversight`, `TLAPS` |
| `TofuPin` | what a trust-on-first-use pin on an unlocked file promises (abstract) | |
| `McpPin` | the registry of pinned tool lists, which implements it | `JsNull` |
| `McpPin_proofs` | its theorems, the refinement among them | `McpPin`, `TLAPS` |
| `MC*` | instances for TLC; `MCEvidence` composes `MCBoundary` (egress, boundary and conduct), `MCReadiness` (readiness and governance), `MCDelegation` (oversight, delegation and logs) and the packs of its own | |

Conventions. A definition has the name of the function it translates. A
conversion that the code makes injective (a SHA-256 over canonical JSON, a
signature) is modelled by its preimage: two digests are equal exactly when their
contents are. A signature is what it signs, and only issuers (`SealReceipt`) make one. A
partial path has a hash of its own that can disagree with its content, because
the receipt binds the hash. The tests on substrings of a tool's name are
constants (`IncludesRead`, ...): sets of the tools whose name passes; the word
lists of path hints are two words, because the order in which the code looks for
them matters (`confidential` first). `AlignmentLevel` is a constant operator for
the comparison of an intent with arguments, whose rules no property is about;
the levels are given in the instances so that two intents may get the same one.

In the evidence modules a document is a record whose missing, null or empty fields
are `NULL`. A list the code sorts before it digests it is a set or passes through
`SortedBy`; one it does not sort is a sequence, so that a reader that sorts
differently from the builder differs in the model too. A pack's members are a
function of their schema (what the verifiers look them up by), a row that is not
there is `NULL`, and a member is named by `<<schema, tag>>` where only its identity
counts. Times are small numbers in the unit the code compares in.

State against code:

* `GateSession.steps` is `partial_steps` with each step's `capability_budget`;
  `pending[a]` is the result of `evaluateCapabilityBudget` that agent `a`'s
  gate call holds and has not recorded. `Evaluate`, `Record`, `Abandon` are the
  gate's calls; `seen` is a history variable: how many steps the evaluation saw.
* `ReceiptCustody.held` is the argument of `verifyReceipt`; `sealed` remembers
  what the issuer sealed. `Issue*` build a receipt as each era's issuers did, under
  either schema and with any `release` of the instance (`session.outcome`, the `hitl`
  block, who released, whether the summary is written), the current one through
  `applyProofStrengthDisclosureDigestBinding`; `Alter` is custody; `Verify` is
  `verifyReceipt` with every combination of having the key and skipping the signature
  without it.
* `CapExport.bundle` is the argument of `verifySessionProof`; `envelope` the body
  that `evaluateCapExportCarrierHandoff` is given; `release` the revision of the
  gate policy in the integrator's package, the published one being whatever the
  server ran. `Capture`, `Export`, `Fault`s, `CacheFault`s and `UpgradeRelease`
  are external; `Publish` and `Handoff` call the code's verdicts.
* `McpPin.file` is the file that `manifestFilePath` gives for every id of `Server`;
  `call[p]` the `assertToolsList` call process `p` is in, between finding no pin
  and having saved one. `Load` is the call up to its decision, `Truncate` and
  `Write` the two halves of `writeFileSync`, `Crash` a process dying between them.
  Two writers may leave a mixture of their texts, which does not parse.
* `EvidenceCustody.issued` is what the builder of `kind` returns for two issues,
  `held` the verifier's argument, `resealed` whether a producer computed the
  digest of what it holds anew. Losing, mixing and turning are external, as is the
  choice of the verifier's options; what is issued and verified is the code's.
* `Oversight.case` is the argument of `evaluateHitlCryptoBinding` and `awaited` the
  result of `verifyHitlApprovalWitnessJws` that its caller holds; `verdicts` keeps
  what every check said and when it began and ended. `hops` are the times the gate
  permitted actions at, `delivered` how many of them the ledger shows, `heardAt`
  when the gate heard of the revocation, and `horizons` the documents observers
  built, over whatever window they wrote down. People, gate, ledger, observers and
  clock are external.

## 3. Runs

All bounds are constants. `CHECK_DEADLOCK FALSE` throughout: a session, a receipt,
an export, a document and a bounded clock come to their end and stop, and a
registry whose pin is torn throws on every call.

| Run | Shows | Bounds and why they are enough |
|---|---|---|
| `gate_session` | `NoLaundering`: no step that ran needs a sink closed by a tainted read its evaluation saw, however far back. `BudgetNeverWidens`: recording a step never re-opens a sink. `RejectionMeansOverlap`: `verifyMonotonicBudgetAttenuation` rejects committed budgets only if two evaluations overlapped | two agents, three steps: the shortest path with a read, something between and a sink, and the shortest overlap (two evaluations before a record). One reader with all four hints, an exporter that one class closes, a mailer both close. Agents are symmetric |
| `receipt_custody` | `AcceptedFieldsAsSealed`, `NoPillarGrafted`, `StampedDisclosureTruthful`: an accepted copy has every sealed field, no new pillar, and the mode of the capture if one was stamped. `UntouchedVerifies`: sealing and verifying agree for first- and current-era receipts | all eras, both schemas (one may be shredded), two releases (one by a person), four forms of signature (a JWS whose payload names the digest or does not), every pillar present or not, three capture contexts (one derives a disclosure its own verifier refuses); **two** alterations, since getting round a profile takes two: drop one bound field to fall back, change or attach another |
| `cap_export` | `OkBundleIsGenuine`: a bundle called complete is one untouched export, receipt by receipt. `HandoffSound`: an allowed handoff lists this session's receipts in order, every hop whose mode is under a digest was enforced, and the body meets the floor. `CheckedHandoffIsCurrent`: an integrator who checks the closure against the bundle hands off every hop of that bundle, verified, and no earlier export that the cache returned. `CompleteExportHandsOff`: a good export is refused nowhere | two hops (order, loss, swap, prefix exports), one fault (a part lost or mixed up in storage or cache; the same run with two faults visits 859,088 states and also passes), two releases, four recorders and four kinds of hop, chosen so that each source of a hop's mode occurs with and without the other |
| `mcp_pin` | `AdmittedWasPinned`: what a gate admits is on a list some process wrote. `OneListUnlessOverlap`: one list is ever accepted, unless two calls found no pin at the same time. `SettledPinIsFinal`: a file that is written, with nobody left who found none, never changes and is never taken for none. `FirstUsePins` (liveness): a call that found no pin ends with one in place, unless somebody died or two overlapped. `ImplementsTofuPin`: every step is one of the abstract pin | two processes (the shortest race), two ids that share a file, a server that changes a definition or adds a tool, one crash (one leaves the file torn; the file stays so) |
| `evidence` | `AcceptedWasIssuedTogether`: what a verifier vouches for is of one issue, or lost. `UntouchedVerifies`: what a builder seals its verifier accepts. `ClaimsAreEarned`: an accepted document's claims follow from the evidence in it even when its producer sealed it itself | every kind of document and fifteen packs, two issues of each that differ in every field, two faults (getting a foreign part past one check takes bending the field it is compared with), one reseal; 633,001 states |
| `oversight` | `BoundWasApproved`: an action bound on a signature was approved by a person, exactly it, under the policy asked for, and the approval had not run out when the binding was evaluated. `RetryOnlyExpires`: checking one witness again never binds what was refused, and drops what was bound only by expiry. `QuietWasQuiet`: an attestation of quiet is true of every action the ledger had shown, to the last moment of the window, unless the last of them lies beyond it. `ViolationWasLate`: a gate is accused only where some action came after the revocation, within the window and before the gate had heard, so never one that stopped at once | two actions that differ in arguments only and one without, two policies, two keys, time 0..3 with a promised window of 2 and any observed one (an action before, at and past its end), one approval, three actions (one to hide, one that hides it, one before), three checks or attestations. The two questions share no state, so one run covers the sum of both and not the product |
| `receipt_legacy_intent` | violation, finding 1 | as `receipt_custody`, no alteration |
| `receipt_stated_intent` | violation, finding 2 | as `receipt_custody`, one alteration |
| `cap_constraint_closure` | violation, finding 3 | exports that carry a closure, an option that asks for one |
| `cap_window_mask` | violation, finding 4 | a recorder whose window names neither hop nor entry |
| `cap_absolute_index` | violation, finding 5 | recorders whose steps name their absolute index |
| `delegation_hops` | violation, finding 6 | as `evidence`, the cross-organization pack alone, one fault |

The Merkle path of an external log is checked against a reference: the `MCDelegation`
assumption `WalkIsTreeHead` says that `computeRfc6962RootFromInclusionProof`, walking up
from a leaf by the bits of its index, arrives at the head of RFC 6962's recursive tree,
for every leaf of every tree of one to nine leaves (full, one short of full, one over).

Each property of a passing run has a mutant in `PROJECT.json`: a plausible bug in
a mapped definition under which TLC finds the property violated.

`McpPin` states fairness: weak fairness of `Truncate` and `Write` for every process.
Both are steps of one synchronous call (`assertToolsList` to `writeFileSync`), with
no await in between, so a process that is alive runs through them. Starting a call
and dying are not promised; a process that dies has no call and nothing is
promised of it. Elsewhere no liveness is claimed: the library starts nothing and
waits for nothing, and whoever calls it may stop at any point. The asynchronous
signature checks of receipts are awaited before anything is read, so each is one
step; the one of an approval is two steps, because the clock moves in between.

### Findings

1. **A legacy receipt the documentation says must verify does not.**
   `LIABILITY_RECEIPT_CONFORMANCE.md` LR-I-004: receipts without digest-bound
   `intent_alignment` MUST verify under `v1_intent_context`. The code tries
   `current` first; without an alignment both profiles give one digest, so the
   receipt counts as current and `verifyReceipt.ts:82` refuses it for the missing
   alignment.
2. **An intent can be attached after sealing.** LR-I-003: when `intent_context`
   is present, `intent_alignment` MUST be digest-bound. A receipt that matches
   `v1_0` verifies with an `intent_context` no digest covers:
   `verifyReceipt.ts:98` lists the pillars it refuses and this one is not among
   them.
3. **`requireConstraintClosure` refuses every bundle.** `parseBundle` rebuilds the
   bundle without `constraint_closure` (and without `channel_provenance`), so the
   later checks never see the closure they ask for.
4. **A windowed path can hide a weak hop.** `resolvePartialStepHopIndex` falls back
   to a step's index within its window. The enforced step of the last hop then
   lands on hop 0 and replaces that hop's verified `audit_only` disclosure in the
   rollup, and the closure calls the chain uniformly enforced.
5. **A path with absolute step indices never verifies.** The rollup prefers a
   step's `step_index` (PC-12, `chainEnforcementRollup.ts:144`), but the receipt
   schema's steps have none: `zod` drops it and `verifyReceipt` hashes the path
   without it, while `verifySetCompletenessBundle` hashes the path as it came.
   Whichever of the two an issuer hashes, the other check refuses.
6. **One receipt proves every hop of a cross-organization chain.**
   `crossOrgDelegationChainPackVerify.ts:376` says the pack proves every hop;
   `resolveMemberDocument` (198-201) looks a member up by its schema, which all
   steps share, and so verifies the first step's receipt for each of them. A pack
   that lost the receipt of a later step is accepted with both steps verified.

Observed and not stated as a property: `verifyBudgetMonotonicityFromPartialSteps`
derives every prefix from the steps themselves and so accepts every path (proved:
`ReplayNeverFails`); the handoff recomputes the gate from the published closure
but not the closure's digest, and does not ask whether the session proof
verified (`OkBundleIsGenuine` speaks of the proof, `HandoffSound` of the handoff,
because the code ties them no closer); `rollup_alone_ship_risk` is documented for
an enforced rollup with unproved hops and also requires `qualified === false`.

Further, where the properties above stop because the code does:

* *MCP pin.* Two first uses at the same time accept two lists, although the comment
  says "pin on first authorization; fail-closed on subsequent drift"
  (`attestMcpToolManifest.ts:151`, 263-281). `overlapped` in `OneListUnlessOverlap`
  is exactly that case. A file torn by a crash is never repaired. Admission asks the
  file: `AdmittedWasPinned` neither tells apart two ids that share one
  (`attestMcpToolManifest.ts:230`) nor notices a pin that was overwritten, which is
  what the two properties after it are for.
* *Approvals.* `evaluateHitlCryptoBinding` records a failed signature check as an
  error and takes `ok` from the payload beside it (`hitlCryptoBinding.ts:296-348`),
  so a retry after the signed approval ran out may turn `EXPIRED` into `BOUND` on an
  unsigned payload; hence `v.signed` and the one-witness condition in the two
  properties. An approval found expired at the signature is reported as
  `WITNESS_INVALID` or `SCOPE_MISMATCH`. The approval receipt does not compare its
  preimage binding's session with its own.
* *Revocation.* `core/revocationHorizon.ts:30` promises zero permitted actions within the
  horizon after a revocation, and `liability/revocationHorizonVerify.ts:116` notes of an
  accepted document that none were permitted within the observed window.
  `evaluateRevocationHorizon` looks at the last permitted action alone (39-51): where
  that one lies beyond the window the attestation is `WITHIN_SLA`, whatever was
  permitted before it. That is the exception in `QuietWasQuiet`. With none for the
  promised window of 2, TLC finds a revocation at 0, actions at 2 and 3, and an
  attestation of quiet; an observer whose window reaches to the moment it looks is
  never in the exception. A null
  `horizon_ms_observed` counts as 0, and the observed window is not compared with the
  promised `horizon_ms`.
* *Delegation.* `links[]` are not compared with the signed hops although the profile
  says the chain is bound to them; the first hop may name a parent; the tip is the
  document's word; a step's expiry is never evaluated; narrowing across
  organizations is only that a parent's scope hash is the previous granted hash.
* *Values outside every digest, or compared with nothing:* the flight recorder's
  count, agent ids and counts of census rows, SBOM receipt counts, surface lists,
  boundary mismatch lists, a constraint closure's `failed_constraints` and
  `terminal_state_digest`, `envelope_entry_hash` and `signal_entry_hash`, lifecycle
  members, vendor fingerprint digests, a drill's payload against its hash, receipts
  of a licence bundle against its batch hashes, `quarterly_review` and
  `autonomy_tier`, a pack's `member_digest` against the bundled document, the
  bundled set of attested evidence against the one named. `Promised` in the `MC`
  modules leaves these out by name.
* *Logs.* A refusal export that claims `rekor_inclusion_verified` and brings no Rekor
  witness passes (`witnessInclusionVerify.js:319`), as does an export without entry
  about its own place in the log; a stated `leaf_hash` is not compared with the
  `entry_body` whose digest is checked (`rekorInclusionVerify.js:300-345`); the
  digest of the exported entry is not compared with the receipt's, nor `parent_hash`
  with the exported `prevHash`; a consistency proof's root covers the digests its
  caller passes and not where their window lies, and nothing links two windows. A
  ledger row that stores its governance binding is sealed by it, and its own cost,
  approver and policy fields are under no hash.
* *Completeness oracle.* The session ids of claim and witness are never compared and
  the witness's `set_root` is not recomputed; a claim that gives no hashes is matched
  by the names of tools alone, so it may be of another session that made the same
  calls. `tenantId` of a promoted policy is optional.
* *Stored closures.* `verifySessionCompositionClosure` compares the digest a closure
  states with the recomputed one; it does not recompute the closure's own
  (`sessionCompositionClosure.ts:466`).
* *Claims believed:* readiness is compared with itself in the SEP bind, host bind,
  intercept, approval receipt, vetting, model change, post-market and
  cross-organization verifiers; `max_delta` thresholds, `days_since_previous`,
  `nca_deadline_met`, `drill_fresh` and `attestation_fresh` are the document's word;
  `areMilestonesChronological` sorts first and so tests only that there are two; an
  operator-only independence pack without asserted rows verifies without proof; the
  census delta is not recomputed from the members; an anchor pack's members are not
  verified. `Earned` states what is recomputed, and no more; for several kinds that is
  close to the verifier's own guard.
* *Documents a builder makes and its verifier refuses:* an envelope with a null
  cadence, a conformity closure with a threshold of 0, an autonomy score between two
  tiers, a carrier submission without the optional drill digest (the builder seals
  the normalised preimage and returns the raw one,
  `core/carrierUnderwritingEvidencePack.ts:128-174`), a guardian bundle with a
  monitor's attestation inside an independence pack (which hands on no log entries),
  a list of execution surfaces with a row that names none (the builder's root keeps the
  row, the parser drops it, `core/executionSurfaceCompleteness.ts:78-83`).
  The instances issue documents that have these fields, so `UntouchedVerifies` says
  that builder and verifier agree wherever they are not known to disagree.

## 4. Proofs

`GateSession_proofs` proves, for any set of agents and tools, any classification
of tools by name (`CapabilityToolAssumption`: the classes are subsets of the
tools) and any bound (`MaxStepsAssumption`: a natural number):

* `TypeCorrect`: `Spec => []TypeOK`.
* `LaunderingBlocked`: `Spec => []NoLaundering`.
* `AttenuationMonotonic`: `Spec => BudgetNeverWidens`.
* `ReplayNeverFails`: the offline replay accepts every sequence of steps.
* `RejectionsAreOverlaps`: `Spec => []RejectionMeansOverlap`.
* `ShrinkingBlocksAccepted`: blocks each of which keeps what the ones before it
  closed are accepted by `verifyMonotonicBudgetAttenuation`, however many.

`NoLaundering` is not inductive: `Record` appends a proposal that was evaluated
earlier, so its evaluation must still be right when it is recorded. The invariant
is `IInv == TypeInv /\ PendingSound /\ NoLaundering`, where `PendingSound` says
that an allowed pending proposal needs no sink closed by the first `seen` steps.
It is stable because steps are only ever appended: the steps a pending proposal
saw do not change (lemmas on `TaintedAt` of an extended sequence), and `Evaluate`
establishes it from the definition of the derived budget. `TypeInv` adds to
`TypeOK` that the proposals in flight are finitely many, which the bound on their
cardinality needs and a possibly infinite `Agent` does not give. `BudgetNeverWidens`
needs no history: appending a step can only add to `TaintedAt`.

`RejectionMeansOverlap` is about a recursive function over the blocks: the check
intersects as it goes. `CommitmentsTrue` adds to the invariant that every recorded step
and every pending proposal carries the budget of exactly the steps its evaluation was
given. Without an overlap those are all the steps before it, so the committed budgets
shrink along the path, and `ShrinkingBlocksAccepted` finishes. It is an induction over
the path's length. The library's induction theorems take an operator as parameter,
which the provers cannot instantiate; here the hypothesis is a *set* of positions and
the induction the least element of its complement (`SetInduction`, from
`NatLessThanWellFounded` and `WFMin`, which speak of sets). `PriorExists` shows the same
way that the recursive definition defines a function.

`ReceiptCustody_proofs` proves, for any capture contexts, any two paths, any rule
of alignment and any number of alterations (`CustodyAssumption`: contexts are
capture contexts, the two paths are path documents, the sealed one has its own
hash):

* `SealedFieldsKept`: `Spec => []AcceptedFieldsAsSealed`.
* `PillarsNotGrafted`: `Spec => []NoPillarGrafted`.
* `DisclosureTruthful`: `Spec => []StampedDisclosureTruthful`.
* `TypeCorrect`: `Spec => []TypeOK`.
* `Untouched`: `Spec => []UntouchedVerifies`.

The first three speak of the copy at the moment it is accepted, so the invariant says
what custody keeps until then: `CustodyIntact` (the stored digest is that of the
sealed receipt, and the copy has a receipt's shape) and `WellSealed` (what an
issuer of the era can have sealed). The heart is `DigestInjective`: two receipts
with one digest, each under its own profile, agree on whatever both bind, and
what one binds the other binds too. A sealed field is therefore the held one
(`AcceptedAsSealed`, where the path takes one more step, from its hash to its
content), and a pillar the issuer left out is either bound by the profile the copy
matched, so absent, or refused by name (`AcceptedGainsNoPillar`). That digests are
injective on their preimages is built into the model, not proved.

`Untouched` goes the other way: what a current issuer drafts is `Sealable` (an
alignment only beside its intent and equal to the recomputed one, a path whose parsed
form has the hash, a disclosure stamped only when it verifies), and what is sealable
verifies once sealed (`SealedVerifies`); a first-era receipt carries no pillar and is
the same under both profiles (`SealedWithoutPillars`). It rests on the assumption
that the path sealed has no field its schema drops, which the code asks of issuers
(finding 5 is what happens otherwise), and that `NULL` is no mode, digest or profile.

`CapExport_proofs` proves, for any kinds of hop, recorders, verifier options, length
of a session, number of faults and of releases (`CapExportAssumption`: kinds and
recorders are what their names say, the bounds are natural numbers; `NullAssumption`:
`NULL` is none of the values it is told apart from):

* `TypeCorrect`: `Spec => []TypeOK`.
* `OkIsGenuineAlways`: `Spec => []OkBundleIsGenuine`.
* `CheckedHandoffs`: `Spec => []CheckedHandoffIsCurrent`.
* `HandoffsSound`: `Spec => []HandoffSound`, for recorders that name their hops and
  verifiers that align the terminal path with the manifest.
* `CompleteExports`: `Spec => []CompleteExportHandsOff`, for verifiers that have the
  issuer's key and ask for neither a policy proof nor a constraint closure.

None of the properties is inductive: they speak of a bundle after any number of
faults, and of a closure computed from a bundle that custody held and may since
have been published, cached and mixed up. The invariant `IInv` says what custody
cannot do. `CapturedInv`: every hop carries the receipt the capture plane seals for
the session up to it. `FromExports`: the bundle's manifest is one of the session's
manifests, and each receipt in it is a `Copy` of a known one, equal to it in every
field but the disclosure and the steps of the path, whose hash is kept. The
published closure is the verdict over *some* such bundle (not this one: the cache may
have returned another), and a handoff is what the code decides on the envelope. Each
fault preserves it because custody computes no digest.

`OkIsGenuineAlways` then reads the checks backwards. The set root and the contiguous
steps make the manifest that of a prefix, sorted (`ManifestOfPrefix`; the sort is by
the number of members that come before, so what it does to a list in order and to a
reversed one is a lemma on cardinalities); a receipt that has a digest of the
manifest is the copy of that hop's (`KnownDigest`, from `DigestInjective`); what the
copy may differ in is covered by two hashes, so a verified one is the captured receipt
as parsed (`VerifiedCopy`). For the handoff, a closure that is ready lists every hop
verified on a uniformly enforced chain (`ReadyClosure`, `UniformHops`), the steps the
rollup read are the ones recorded (`TerminalSteps`), and each of them resolves to the
hop it was recorded at (`ResolvedStep`), so the mode the rollup took for an attested
hop is its true one (`AttestedHop`). The last step fails for a recorder whose window
is shorter than the session and names neither entry nor absolute index: that is
finding 4, run `cap_window_mask`, and the hypothesis `NamesHops` excludes just those
recorders. The other hypothesis is `requirePartialPathAlignment`, which
`verifySessionProof` sets unless told otherwise.

`CompleteExports` needs the converse of every check: nothing the exporter builds from
captured hops is refused. `UntouchedInv` adds that without a fault the bundle is an
export and the envelope its verdict; then each conjunct of `structuralProofComplete`
is established for an export (`ExportComplete`, `ExportVerified`, `ExportPath`,
`ExportOk`), the rollup is enforced throughout (`ExportChain`), and the gate is open
(`ExportReady`, `OpenGate`, `ReadyHandoff`). Its hypotheses are those under which the
property is meant: this deployment's exports carry no policy proof, a constraint
closure asked for is refused whatever the bundle has (finding 3), and without the
issuer's key no signature verifies. `NullIsNoRecord` says that the value for
"missing" is not itself a record.

`McpPin_proofs` proves, for any processes, ids, tools, lists and number of crashes
(`McpPinAssumption`: lists are sets of tools, and the values that stand for no file,
a torn one and one of another schema are neither manifests nor each other):

* `TypeCorrect`: `Spec => []TypeOK`.
* `AdmissionsArePinned`: `Spec => []AdmittedWasPinned`.
* `OneListAccepted`: `Spec => []OneListUnlessOverlap`.
* `SettledPinStays`: `Spec => SettledPinIsFinal`.
* `RegistryIsTofuPin`: `Spec => ImplementsTofuPin`.

Admissions are judged by the file, so `WrittenInv` says that a manifest in the file
was written. `OneListUnlessOverlap` is about lists accepted at any time and needs
`SoleInv`: without an overlap at most one call is under way, and while it is no
list was accepted and the file is no manifest; a list accepted since is what the
file holds. The refinement maps the file to its
list and the calls to contenders; `Load` of a missing pin is `Contend`, `Truncate`
is `Overwrite`, `Write` is `Settle`, `Crash` is `GiveUp`, and the rest stutters.

`Oversight_proofs` proves, for any actions and policies, any windows and any bounds on
time, approvals, hops and records (`OversightAssumption`: the bounds are natural
numbers, the promised window is not empty, the two keys differ, `NULL` is neither a
number nor a policy; `NullAssumption`: `NULL` is no witness and no answer):

* `TypeCorrect`: `Spec => []TypeOK`.
* `BoundIsApproved`: `Spec => []BoundWasApproved`.
* `RetriesOnlyExpire`: `Spec => []RetryOnlyExpires`.
* `QuietIsTrue`: `Spec => []QuietWasQuiet`.
* `ViolationIsLate`: `Spec => []ViolationWasLate`.

The five speak of verdicts and attestations kept from earlier, so the invariant says
how each was computed. `VerdictsComputed`: a verdict is what `evaluateHitlCryptoBinding`
makes of the case at the time it ended and of the signature's answer at the time it
began, and `CaseSigned`: what the issuer signed was approved. A bound verdict then
names an approval, and because time enters a check through the expiry alone
(`OnlyExpires`), two checks can differ by it only. `HorizonsTruthful` says the same of
attestations: what one says is what the last hop its observer saw makes of the window.
`HopsInOrder` makes that hop the latest of those shown, which is enough for a window
that reaches it and not for one that ends before (the exception in
`QuietWasQuiet`). `HeardAfter` says that no hop came after the gate had heard, so that a
hop that breaks the horizon was permitted before.

`EvidenceCustody_proofs` proves, for any documents issued under any tags, any producer
that seals again, any verifier options and any number of faults:

* `ClaimsEarned`: `Spec => [](kind # "surfaces" => ClaimsAreEarned)`.
* `SealedTogether`: `Spec => [](kind \in DigestKinds => AcceptedWasIssuedTogether)`.
* `TypeCorrect`: `Spec => []TypeOK`.

What is fixed are the verifiers and what each vouches for (`VerifiersAreModelled`,
`PromisesAreModelled`: the constants of `EvidenceCustody` are the operators `MCEvidence`
gives it); the documents the MC modules issue play no part.

`ClaimsEarned` rests on `VerdictInvariant` (a verdict yes is that of the document held)
and one lemma for each kind: its verifier recomputes the claim, or compares it with
evidence in the document, *whatever* document it is given (`AcceptedIsEarned`). That
a delegation chain narrows from its first hop to its last is an induction over a set of
positions (`ChainNarrows`, `SetInduction`). The totals of `surfaces` are a fold over rows
of which nothing can be proved for every length; TLC checks them. The attempts corrected
the claims: several held only of the documents the instance issues (a constraint without
an id, an SBOM row without both of its fields, a budget that is no integer, an obligation
set that is not finite) and now say what the verifier really establishes.

`SealedTogether` is about 47 of the 73 kinds. `CustodyInv` says what custody cannot do:
until a producer seals the document again it keeps the fields of the issues, has an
issue's digest or none, and stays in the form its builder gave it. For 25 kinds
(`SealedKinds`) the digest covers what is vouched for field by field
(`AcceptedIsCovered`), so two documents under one digest agree on it. For 22
(`NormalKinds`) it covers a *normal form*: a default where a field is missing, yes or no
for a flag, the members that are there. A field custody lost can then be told from the
digest as its default, so what is vouched for is what the digest has, or part of it
(`AcceptedIsTold`), and that is what was issued or what is left of it (`ToldIsLeft`).
Two hypotheses are about the issues, `IssuesVerify` (the issues of a kind have the same
fields and are accepted as issued) and `IssuesNormal` (they are in normal form and their
digest shows what was issued), and one about the value for "missing" (`NullIsNoRecord`).
TLC finds the first two, and `CustodyInv` in every state, true of the instance of run
`evidence`. Without `IssuesNormal` the theorem is false: an issuer that writes `"yes"`
for a flag seals `FALSE`, and custody can exchange it for any other word an issuer wrote.

`TypeCorrect` assumes of the constants what it says of the document (`DocumentsAreAlike`:
the issues of a kind have the same fields, sealing again keeps them, and a verifier
answers yes or no).

Two limits of the prover shape the modules it reads. It does not see through `@@` and
`:>`, so a record that is extended in a definition proofs expand is written with
`Spread`. And it expands an `@` in an update nested in another update's `@` twice, so the
blocks a digest normalizes have definitions of their own (`MonitoringForm`,
`SummaryForm`, `CadenceForm`, `DisclosureForm`).

Model-checked only:

* `FirstUsePins`: liveness is out of the prover's reach.
* `UntouchedVerifies` of `EvidenceCustody`: that builder and verifier agree is about the
  builders and the documents given to them, which only the instance has.
* `ClaimsAreEarned` of `surfaces`, and `AcceptedWasIssuedTogether` of the other 26 kinds:
  those whose digest is over rows mapped one by one, sorted or folded (the conduct
  documents with lists, the log's documents, chains of delegation) or over parts that
  the verifier computes from bundled documents.
* `WalkIsTreeHead`, the Merkle path against the recursive tree: an assumption TLC
  evaluates for trees of one to nine leaves.
* The six refuted claims: a counterexample needs no proof.

## 5. Not modelled

* Replay of a bundle as a timeline: it verifies nothing. It sorts events by their
  timestamps, and a hop without one by a thousand times its sequence number, which
  puts it before every dated event (`replayProofBundle.js:188`).
* A log that grows while a monitor polls it, and an operator who shows two faces: the
  monitor's loop is not in `src/`, and two windows are linked by nothing the code
  checks. The composite evidence graph and the swarm delegation tree.
* The traceable conduct package, the portability drill, the rogue containment
  proof, reasoning baselines and the cluster custody graph: further documents and
  packs of the shape of those modelled.
* Unified verify and the command line (dispatch, rendering, arguments) and the
  conformance lab (HTTP probes): input and output around the verifiers.
* Adapters that turn a vendor's decision log into an execution boundary: parsing of
  foreign formats; the boundary they yield is modelled.
* In the modelled parts: the schema's format checks and errors (what parsing
  drops from a path is modelled, the order of keys it hashes in is not: issuers
  write the schema's order), secondary anchors, the checks of
  a memory commitment and a tool manifest fingerprint inside `verifyReceipt` (the
  bindings are in `ConductEvidence`), guidance text, `requireCustodian` and
  `requireTerminalReceipt = false`, error strings (a verdict is what callers
  branch on), canonical JSON (digests by preimage), the search of documents for
  forbidden keys. A policy proof is reduced to whether its verifier accepts it. A
  step whose `step_index` is an explicit `null` counts as hop 0 in the code
  (`Number(null)`, `chainEnforcementRollup.ts:150`); the model's steps have an index
  or lack the field. Of the hazards in modelled parts two more have no property
  because the code does nothing about them: `capabilityBudget.js:256` and
  `capExportCarrierHandoff.ts:97`.

## 6. Plan

In order, most important first.

1. *(built)* budget, receipt custody, session proof to handoff; the MCP pin and its
   abstract specification; evidence documents, logs and packs; the completeness
   oracle; approvals and revocation; proofs of every safety property, of evidence
   documents for the kinds named in section 4.
2. `CarrierSpec`: the abstract promise of a handed-off session, implemented by
   `CapExport` where the closure was checked against the bundle; the four theorems
   on the handoff are its steps.
3. `AcceptedWasIssuedTogether` for the other kinds: lemmas on what `SortedBy` and the
   maps over rows keep, then `Told` of a list of rows as it is now of a block of fields.
4. The composite evidence graph over the packs, the swarm tree, the remaining packs.
5. Dispatch of `UnifiedVerify`: which verifier runs on evidence that fits two kinds.
