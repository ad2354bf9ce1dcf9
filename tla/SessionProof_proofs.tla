------------------------- MODULE SessionProof_proofs -------------------------
(***************************************************************************)
(* Lemmas about the verification of a session proof, for any bundle and    *)
(* any options: what sorting a manifest's members gives, what the rollup,  *)
(* the composition closure and the verdict on the receipts guarantee.      *)
(***************************************************************************)
EXTENDS SessionProof, LiabilityReceipt_proofs, FiniteSetTheorems, SequenceTheorems,
        WellFoundedInduction

-----------------------------------------------------------------------------
(* Sorting the members *)

\* Members whose steps are in order are sorted already.
LEMMA SortedInOrder ==
    ASSUME NEW n \in Nat, NEW members,
           members = [i \in 1..n |-> members[i]],
           \A i \in 1..n : members[i].step_index = i - 1
    PROVE  sortedMembers(members) = members
<1>1. DOMAIN members = 1..n
  OBVIOUS
<1>2. ASSUME NEW i \in 1..n
      PROVE  Cardinality(Before(members, i)) = i - 1
  <2>1. Before(members, i) = 1..(i - 1)
    BY <1>1 DEF Before
  <2>2. Cardinality(1..(i - 1)) = IF 1 > i - 1 THEN 0 ELSE (i - 1) - 1 + 1
    <3>1. 1 \in Int /\ i - 1 \in Int
      OBVIOUS
    <3> QED
      BY <3>1, FS_Interval
  <2> QED
    BY <2>1, <2>2
<1>3. ASSUME NEW k \in 1..n
      PROVE  (CHOOSE i \in 1..n : Cardinality(Before(members, i)) = k - 1) = k
  BY <1>2
<1>4. sortedMembers(members) =
        [ k \in 1..n |->
            members[CHOOSE i \in 1..n : Cardinality(Before(members, i)) = k - 1] ]
  BY <1>1 DEF sortedMembers
<1> QED
  BY <1>3, <1>4

\* Members in the reverse order are turned round.
LEMMA SortedReverse ==
    ASSUME NEW n \in Nat, NEW members,
           DOMAIN members = 1..n,
           \A i \in 1..n : members[i].step_index = n - i
    PROVE  sortedMembers(members) = [k \in 1..n |-> members[n + 1 - k]]
<1>1. ASSUME NEW i \in 1..n
      PROVE  Cardinality(Before(members, i)) = n - i
  <2>1. Before(members, i) = (i + 1)..n
    BY DEF Before
  <2> QED
    BY <2>1, FS_Interval
<1>2. ASSUME NEW k \in 1..n
      PROVE  (CHOOSE i \in 1..n : Cardinality(Before(members, i)) = k - 1) = n + 1 - k
  <2>1. n + 1 - k \in 1..n
    OBVIOUS
  <2>2. \A i \in 1..n : Cardinality(Before(members, i)) = k - 1 <=> i = n + 1 - k
    BY <1>1
  <2> QED
    BY <2>1, <2>2
<1>3. sortedMembers(members) =
        [ k \in 1..n |->
            members[CHOOSE i \in 1..n : Cardinality(Before(members, i)) = k - 1] ]
  BY DEF sortedMembers
<1> QED
  BY <1>2, <1>3

-----------------------------------------------------------------------------
(* The rollup *)

\* A set of naturals has a least one.
LEMMA LeastNatural ==
    ASSUME NEW T, T \subseteq Nat, T # {}
    PROVE  \E x \in T : \A y \in T : x <= y
<1> DEFINE less == {p \in Nat \X Nat : p[1] < p[2]}
<1>1. PICK x \in T : \A y \in T : ~ (<<y, x>> \in less)
  <2>1. IsWellFoundedOn(less, Nat)
    BY NatLessThanWellFounded DEF OpToRel
  <2> HIDE DEF less
  <2> QED
    BY <2>1, WFMin
<1>2. ASSUME NEW y \in T PROVE x <= y
  <2>1. x \in Nat /\ y \in Nat
    OBVIOUS
  <2>2. y < x => <<y, x>> \in less
    BY <2>1
  <2> QED
    BY <1>1, <2>1, <2>2
<1> QED
  BY <1>2

\* A hop without a path-bound step has the mode its receipt discloses, a
\* verified one with such steps the mode one of them states.
LEMMA UniformHops ==
    ASSUME NEW members, NEW steps, NEW verified, NEW manifestMembers,
           rollupChainEnforcement(members, steps, verified, manifestMembers).uniformly_enforced,
           NEW n \in Nat, DOMAIN members = 1..n,
           NEW m \in Nat, DOMAIN steps = 1..m,
           NEW hop \in 0..(n - 1), hop \in verified
    PROVE  \/ /\ extractEnforcementFromReceipt(members[hop + 1]) = "enforced"
              /\ stepsAtHop(steps, hop, manifestMembers) = {}
           \/ \E k \in stepsAtHop(steps, hop, manifestMembers) :
                 extractEnforcementFromPartialStep(steps[k]) = "enforced"
<1> DEFINE stepHops == {resolvePartialStepHopIndex(steps[k], manifestMembers) : k \in DOMAIN steps}
           memberHops == {i - 1 : i \in DOMAIN members}
           modes == mergeHopModes(members, steps, verified, manifestMembers)
           at == stepsAtHop(steps, hop, manifestMembers)
<1>1. \A h \in DOMAIN modes : modes[h] = "enforced"
  BY DEF rollupChainEnforcement
<1>2. hop \in memberHops
  <2>1. hop + 1 \in DOMAIN members /\ hop = (hop + 1) - 1
    OBVIOUS
  <2> QED
    BY <2>1
<1>3. /\ hop \in DOMAIN modes
      /\ modes[hop] = IF hop \notin stepHops
                        THEN extractEnforcementFromReceipt(members[hop + 1])
                        ELSE stepMode(steps, at)
  BY <1>2 DEF mergeHopModes
<1>4. modes[hop] = "enforced"
  BY <1>1, <1>3
<1>5. CASE hop \notin stepHops
  <2>1. at = {}
    BY <1>5 DEF stepsAtHop
  <2> QED
    BY <1>3, <1>4, <1>5, <2>1
<1>6. CASE hop \in stepHops
  <2> DEFINE known == {k \in at : extractEnforcementFromPartialStep(steps[k]) # "unknown"}
  <2>1. stepMode(steps, at) = "enforced"
    BY <1>3, <1>4, <1>6
  <2>2. known # {}
    BY <2>1 DEF stepMode
  <2>3. extractEnforcementFromPartialStep(
          steps[CHOOSE k \in known : \A j \in known : k <= j]) = "enforced"
    BY <2>1, <2>2 DEF stepMode
  <2>4. PICK first \in known : \A j \in known : first <= j
    <3>1. known \subseteq Nat
      BY DEF stepsAtHop
    <3> HIDE DEF known
    <3> QED
      BY <2>2, <3>1, LeastNatural
  <2>5. (CHOOSE k \in known : \A j \in known : k <= j) \in known
    <3> HIDE DEF known
    <3> QED
      BY <2>4
  <2> QED
    BY <2>3, <2>5
<1> QED
  BY <1>5, <1>6

\* When every receipt and every step says enforced, so does the rollup.
LEMMA EnforcedChain ==
    ASSUME NEW members, NEW steps, NEW verified, NEW manifestMembers,
           NEW n \in Nat, n >= 1, DOMAIN members = 1..n,
           NEW m \in Nat, DOMAIN steps = 1..m,
           \A i \in 1..n : extractEnforcementFromReceipt(members[i]) = "enforced",
           \A k \in 1..m : extractEnforcementFromPartialStep(steps[k]) = "enforced"
    PROVE  LET chain == rollupChainEnforcement(members, steps, verified, manifestMembers)
           IN chain.uniformly_enforced /\ chain.chain_enforcement_mode = "enforced"
<1> DEFINE stepHops == {resolvePartialStepHopIndex(steps[k], manifestMembers) : k \in DOMAIN steps}
           memberHops == {i - 1 : i \in DOMAIN members}
           modes == mergeHopModes(members, steps, verified, manifestMembers)
<1>1. /\ DOMAIN modes = memberHops \cup stepHops
      /\ \A hop \in memberHops \cup stepHops :
           modes[hop] = IF hop \in memberHops /\ (hop \notin verified \/ hop \notin stepHops)
                          THEN extractEnforcementFromReceipt(members[hop + 1])
                          ELSE stepMode(steps, stepsAtHop(steps, hop, manifestMembers))
  BY DEF mergeHopModes
<1>2. ASSUME NEW hop \in memberHops
      PROVE  extractEnforcementFromReceipt(members[hop + 1]) = "enforced"
  <2>1. PICK i \in 1..n : hop = i - 1
    BY <1>2
  <2>2. hop + 1 = i
    BY <2>1
  <2> QED
    BY <2>2
<1>3. ASSUME NEW hop \in stepHops
      PROVE  stepMode(steps, stepsAtHop(steps, hop, manifestMembers)) = "enforced"
  <2> DEFINE at == stepsAtHop(steps, hop, manifestMembers)
             known == {k \in at : extractEnforcementFromPartialStep(steps[k]) # "unknown"}
  <2>1. at \subseteq 1..m /\ at # {}
    BY <1>3 DEF stepsAtHop
  <2>2. known = at
    BY <2>1
  <2> HIDE DEF at
  <2>3. \E k \in at : \A j \in at : k <= j
    <3>1. at \subseteq Nat
      BY <2>1
    <3> QED
      BY <2>1, <3>1, LeastNatural
  <2>4. (CHOOSE k \in at : \A j \in at : k <= j) \in at
    BY <2>3
  <2>5. stepMode(steps, at) = extractEnforcementFromPartialStep(
                                steps[CHOOSE k \in at : \A j \in at : k <= j])
    BY <2>1, <2>2 DEF stepMode
  <2> QED
    BY <2>1, <2>4, <2>5 DEF at
<1>4. \A hop \in DOMAIN modes : modes[hop] = "enforced"
  <2> HIDE DEF memberHops, stepHops, modes
  <2> QED
    BY <1>1, <1>2, <1>3
<1>5. 0 \in DOMAIN modes
  <2>1. 1 \in DOMAIN members /\ 1 - 1 = 0
    OBVIOUS
  <2>2. 0 \in memberHops
    BY <2>1
  <2> QED
    BY <1>1, <2>2
<1> HIDE DEF memberHops, stepHops, modes
<1>6. {modes[h] : h \in DOMAIN modes} \cap ENFORCEMENT_MODES = {"enforced"}
  <2>1. {modes[h] : h \in DOMAIN modes} = {"enforced"}
    BY <1>4, <1>5
  <2> QED
    BY <2>1 DEF ENFORCEMENT_MODES
<1>7. deriveChainMode(modes) = "enforced"
  <2>1. {"enforced"} # {} /\ {"enforced"} # ENFORCEMENT_MODES
    BY DEF ENFORCEMENT_MODES
  <2>2. (CHOOSE mode \in {"enforced"} : TRUE) = "enforced"
    OBVIOUS
  <2>3. deriveChainMode(modes) = CHOOSE mode \in {"enforced"} : TRUE
    BY <1>6, <2>1 DEF deriveChainMode
  <2> QED
    BY <2>2, <2>3
<1> QED
  BY <1>4, <1>5, <1>7 DEF rollupChainEnforcement, modes

-----------------------------------------------------------------------------
(* The receipts *)

\* A hop counts as verified when as many receipts as declared came along, and
\* its own verifies and has the digest the manifest gives it.
LEMMA VerifiedHop ==
    ASSUME NEW manifest, NEW members, NEW options,
           NEW n \in Nat, DOMAIN members = 1..n,
           NEW i \in 1..n, i - 1 \in verifiedByHop(manifest, members, options),
           i \in DOMAIN sortedMembers(manifest.members)
    PROVE  /\ Len(members) = manifest.declared_count
           /\ members[i] # NULL
           /\ verifyReceipt(members[i], options)
           /\ sortedMembers(manifest.members)[i].receipt_digest
                \in {NULL, members[i].receipt_digest}
<1> DEFINE sorted == sortedMembers(manifest.members)
           ok == {j \in DOMAIN members :
                    /\ members[j] # NULL
                    /\ verifyReceipt(members[j], options)
                    /\ (IF j \in DOMAIN sorted THEN sorted[j].receipt_digest ELSE NULL)
                         \in {NULL, members[j].receipt_digest}}
<1>1. /\ Len(members) = manifest.declared_count
      /\ i - 1 \in {j - 1 : j \in ok}
  BY DEF verifiedByHop
<1>2. PICK j \in ok : i - 1 = j - 1
  BY <1>1
<1>3. i = j
  BY <1>2
<1> QED
  BY <1>1, <1>3

\* When the receipts verify, each of them does, with the manifest's digest.
LEMMA VerifiedMembers ==
    ASSUME NEW manifest, NEW members, NEW options,
           verifyMemberReceipts(manifest, members, options),
           NEW n \in Nat, DOMAIN members = 1..n,
           NEW i \in 1..n, i \in DOMAIN sortedMembers(manifest.members)
    PROVE  /\ members[i] # NULL
           /\ verifyReceipt(members[i], options)
           /\ sortedMembers(manifest.members)[i].receipt_digest
                \in {NULL, members[i].receipt_digest}
<1>1. i - 1 \in verifiedByHop(manifest, members, options)
  BY DEF verifyMemberReceipts
<1> QED
  BY <1>1, VerifiedHop

-----------------------------------------------------------------------------
(* The capability budget *)

\* No steps re-open a sink: the replay of the budget from the steps themselves
\* accepts whatever it is given.
LEMMA BudgetMonotonic ==
    ASSUME NEW steps, Len(steps) \in Nat
    PROVE  verifyBudgetMonotonicityFromPartialSteps(steps)
<1> DEFINE upTo(i) == SubSeq(steps, 1, i)
<1>1. ASSUME NEW i \in 0..Len(steps)
      PROVE  Len(upTo(i)) = i /\ \A j \in 1..i : upTo(i)[j] = steps[j]
  <2> DEFINE S == {steps[j] : j \in 1..Len(steps)}
  <2>1. \A j \in 1..i : steps[j] \in S
    OBVIOUS
  <2> HIDE DEF S
  <2>2. /\ Len(upTo(i)) = IF 1 <= i THEN i - 1 + 1 ELSE 0
        /\ \A j \in 1..(i - 1 + 1) : upTo(i)[j] = steps[1 + j - 1]
    BY <2>1, SubSeqProperties
  <2> QED
    BY <2>2
<1> HIDE DEF upTo
<1>2. ASSUME NEW i \in 1..Len(steps)
      PROVE  deriveCapabilityBudgetFromSteps(upTo(i)).budget
               \subseteq deriveCapabilityBudgetFromSteps(upTo(i - 1)).budget
  <2>1. i - 1 \in 0..Len(steps) /\ i \in 0..Len(steps)
    OBVIOUS
  <2>2. \A j \in TaintedAt(upTo(i - 1)) :
          j \in TaintedAt(upTo(i)) /\ upTo(i)[j] = upTo(i - 1)[j]
    BY <1>1, <2>1 DEF TaintedAt
  <2> QED
    BY <2>2 DEF deriveCapabilityBudgetFromSteps
<1> QED
  BY <1>2 DEF verifyBudgetMonotonicityFromPartialSteps, upTo

-----------------------------------------------------------------------------
(* The composition closure *)

\* The closure's digest is its own, and its flag says what its verdict says.
LEMMA ClosureShape ==
    ASSUME NEW complete, NEW manifest, NEW members, NEW verified, NEW chain, NEW hints,
           NEW delegated
    PROVE  LET closure == buildSessionCompositionClosure(complete, manifest, members,
                            verified, chain, hints, delegated)
           IN /\ closure.closure_verdict \in CLOSURE_VERDICTS
              /\ closure.carrier_review_ready
                   <=> closure.closure_verdict = "carrier_review_ready"
              /\ closure.receipt_presence = buildReceiptPresence(manifest, members, verified)
              /\ closure.closure_digest = computeClosureDigest(closure)
<1> DEFINE presence == buildReceiptPresence(manifest, members, verified)
           derived == deriveClosureVerdict(complete, presence, chain, hints)
           verdict == applyChannelProvenanceClosureDowngrade(derived, delegated)
<1>1. derived \in CLOSURE_VERDICTS
  BY DEF deriveClosureVerdict, CLOSURE_VERDICTS
<1>2. verdict \in CLOSURE_VERDICTS
  BY <1>1 DEF applyChannelProvenanceClosureDowngrade, CLOSURE_VERDICTS
<1> QED
  BY <1>2 DEF buildSessionCompositionClosure, computeClosureDigest

\* Ready for a carrier: complete, with every receipt there and verified, on a
\* chain whose every hop was enforced.
LEMMA ReadyClosure ==
    ASSUME NEW complete, NEW manifest, NEW members, NEW verified, NEW chain, NEW hints,
           NEW delegated,
           buildSessionCompositionClosure(complete, manifest, members, verified, chain,
             hints, delegated).closure_verdict = "carrier_review_ready"
    PROVE  /\ complete
           /\ UniformlyEnforced(chain)
           /\ DOMAIN sortedMembers(manifest.members) # {}
           /\ \A i \in DOMAIN sortedMembers(manifest.members) :
                hasMemberAtHop(members, i - 1) /\ i - 1 \in verified
<1> DEFINE sorted == sortedMembers(manifest.members)
           presence == buildReceiptPresence(manifest, members, verified)
           derived == deriveClosureVerdict(complete, presence, chain, hints)
           hops == {presence[i] : i \in DOMAIN presence}
<1>1. applyChannelProvenanceClosureDowngrade(derived, delegated) = "carrier_review_ready"
  BY DEF buildSessionCompositionClosure
<1>2. derived = "carrier_review_ready"
  BY <1>1 DEF applyChannelProvenanceClosureDowngrade
<1>3. /\ complete
      /\ UniformlyEnforced(chain)
      /\ hops # {}
      /\ \A h \in hops : h.verify_profile = "member_receipt_verified"
  BY <1>2 DEF deriveClosureVerdict
<1>4. DOMAIN presence = DOMAIN sorted
  BY DEF buildReceiptPresence
<1>5. ASSUME NEW i \in DOMAIN sorted
      PROVE  hasMemberAtHop(members, i - 1) /\ i - 1 \in verified
  <2>1. presence[i].verify_profile = "member_receipt_verified"
    BY <1>3, <1>4, <1>5
  <2> QED
    BY <2>1, <1>5 DEF buildReceiptPresence
<1> QED
  BY <1>3, <1>4, <1>5

\* A closure that is not a submission of digests only has every receipt.
LEMMA BodiesThere ==
    ASSUME NEW complete, NEW manifest, NEW members, NEW verified, NEW chain, NEW hints,
           NEW delegated,
           buildSessionCompositionClosure(complete, manifest, members, verified, chain,
             hints, delegated).closure_verdict # "digest_only_submission",
           NEW i \in DOMAIN sortedMembers(manifest.members)
    PROVE  hasMemberAtHop(members, i - 1)
<1> DEFINE sorted == sortedMembers(manifest.members)
           presence == buildReceiptPresence(manifest, members, verified)
           derived == deriveClosureVerdict(complete, presence, chain, hints)
           hops == {presence[j] : j \in DOMAIN presence}
<1>1. derived # "digest_only_submission"
  BY DEF buildSessionCompositionClosure, applyChannelProvenanceClosureDowngrade
<1>2. \A h \in hops : h.presence # "digest_only"
  BY <1>1 DEF deriveClosureVerdict
<1>3. presence[i] \in hops
  BY DEF buildReceiptPresence
<1> QED
  BY <1>2, <1>3 DEF buildReceiptPresence
\* NULL is no record.
NullIsNoRecord == \A r : NULL # [f \in DOMAIN r |-> r[f]]

\* A complete set with every receipt verified, on a chain that is enforced
\* throughout, is ready for a carrier and its gate is open.
LEMMA OpenGate ==
    ASSUME NullIsNoRecord,
           NEW manifest, NEW members, NEW verified, NEW chain, NEW hints,
           ChainMode(chain) = "enforced", UniformlyEnforced(chain),
           ~hints.require_member_receipt_verification,
           DOMAIN sortedMembers(manifest.members) # {},
           \A i \in DOMAIN sortedMembers(manifest.members) :
              hasMemberAtHop(members, i - 1) /\ i - 1 \in verified
    PROVE  LET closure == buildSessionCompositionClosure(TRUE, manifest, members, verified,
                            chain, hints, {})
           IN /\ closure # NULL
              /\ closure.closure_verdict = "carrier_review_ready"
              /\ evaluateClosureShipGate(closure).carrier_submission_ready
              /\ ~evaluateClosureShipGate(closure).blocked
<1> DEFINE sorted == sortedMembers(manifest.members)
           presence == buildReceiptPresence(manifest, members, verified)
           hops == {presence[i] : i \in DOMAIN presence}
           closure == buildSessionCompositionClosure(TRUE, manifest, members, verified,
                        chain, hints, {})
<1>1. /\ DOMAIN presence = DOMAIN sorted
      /\ \A i \in DOMAIN sorted : /\ presence[i].presence = "bundled"
                                  /\ presence[i].verify_profile = "member_receipt_verified"
  BY DEF buildReceiptPresence
<1>2. deriveClosureVerdict(TRUE, presence, chain, hints) = "carrier_review_ready"
  <2> HIDE DEF presence
  <2>1. /\ \A h \in hops : /\ h.presence # "digest_only"
                           /\ h.verify_profile = "member_receipt_verified"
        /\ hops # {}
    BY <1>1
  <2> HIDE DEF hops
  <2> QED
    BY <2>1 DEF deriveClosureVerdict, hops
<1>3. buildChainEnforcementAdvisory(presence, chain).chain_enforcement_qualified
  <2> HIDE DEF presence
  <2>1. {i \in DOMAIN presence : presence[i].verify_profile
                                   \in {"digest_only", "not_verified"}} = {}
    BY <1>1
  <2> QED
    BY <2>1 DEF buildChainEnforcementAdvisory
<1>4. /\ closure = [f \in DOMAIN closure |-> closure[f]]
      /\ closure.closure_verdict = "carrier_review_ready"
      /\ closure.carrier_review_ready
      /\ closure.chain_enforcement_advisory.chain_enforcement_qualified
  <2> HIDE DEF presence
  <2> QED
    BY <1>2, <1>3 DEF buildSessionCompositionClosure, presence,
                      applyChannelProvenanceClosureDowngrade
<1> HIDE DEF closure
<1>5. closure # NULL
  BY <1>4 DEF NullIsNoRecord
<1> QED
  BY <1>4, <1>5 DEF evaluateClosureShipGate, closure
=============================================================================
