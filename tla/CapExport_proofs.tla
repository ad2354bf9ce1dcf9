-------------------------- MODULE CapExport_proofs --------------------------
(***************************************************************************)
(* Proofs about a CAP session from capture to carrier, for any kinds of    *)
(* hop, any recorders, any options and any bounds: what custody can make   *)
(* of an export, and that what verifies is genuine and what is handed off  *)
(* is genuine, enforced and not stale.                                     *)
(***************************************************************************)
EXTENDS CapExport, SessionProof_proofs

-----------------------------------------------------------------------------
(* Receipts and paths as the capture plane makes them *)

\* A recorder with a window makes a path over the steps in it.
LEMMA PathShape ==
    ASSUME NEW rec, rec.window # 0, NEW session, NEW kinds
    PROVE  LET path == PathOf(rec, session, kinds)
           IN /\ path = [f \in PathFields |-> path[f]]
              /\ path.partial_steps = WindowOf(rec, session, kinds)
              /\ path.step_index = Len(kinds) - 1
              /\ path.partial_path_hash = PathPreimage(path)
  BY DEF PathOf, PathPreimage, PathFields

\* What the issuer drafts; a disclosure is stamped only when it verifies.
LEMMA DraftShape ==
    ASSUME NEW rec, NEW session, NEW kinds
    PROVE  LET draft == DraftOf(rec, session, kinds)
               kind == kinds[Len(kinds)]
           IN /\ draft = [f \in ReceiptFields |-> draft[f]]
              /\ draft.schema = "liability-receipt/v1"
              /\ draft.release = PermittedRelease /\ draft.privacy = NULL
              /\ draft.session_id = session
              /\ draft.entry_hash = EntryHash(session, Len(kinds) - 1)
              /\ draft.args_digest = ArgsDigest(session, Len(kinds) - 1)
              /\ draft.intent_context = NULL /\ draft.intent_alignment = NULL
              /\ draft.causal_lineage = NULL /\ draft.gateway_attestation = NULL
              /\ draft.partial_path = PathOf(rec, session, kinds)
              /\ draft.governance = IF kind.disclosure = "none" THEN NULL
                                    ELSE GovernanceOf(kind.context)
              /\ draft.proof_strength_disclosure_digest # NULL =>
                   /\ draft.governance # NULL
                   /\ verifyProofStrengthDisclosure(draft.governance)
                   /\ draft.proof_strength_disclosure_digest
                        = draft.governance.disclosure_digest
              /\ draft.signature_alg = "RS256"
  BY DEF DraftOf, applyProofStrengthDisclosureDigestBinding, ReceiptFields

\* The receipt is the draft with its digest.
LEMMA ReceiptShape ==
    ASSUME NEW rec, NEW session, NEW kinds
    PROVE  LET r == ReceiptOf(rec, session, kinds)
               kind == kinds[Len(kinds)]
           IN /\ r = [f \in ReceiptFields |-> r[f]]
              /\ r.session_id = session
              /\ r.entry_hash = EntryHash(session, Len(kinds) - 1)
              /\ r.args_digest = ArgsDigest(session, Len(kinds) - 1)
              /\ r.intent_context = NULL /\ r.intent_alignment = NULL
              /\ r.causal_lineage = NULL /\ r.gateway_attestation = NULL
              /\ r.partial_path = PathOf(rec, session, kinds)
              /\ r.governance = IF kind.disclosure = "none" THEN NULL
                                ELSE GovernanceOf(kind.context)
              /\ r.proof_strength_disclosure_digest # NULL =>
                   /\ r.governance # NULL
                   /\ verifyProofStrengthDisclosure(r.governance)
                   /\ r.proof_strength_disclosure_digest = r.governance.disclosure_digest
              /\ r.receipt_digest = computeReceiptDigest(r, "current")
              /\ verifyReceiptDigestMatch(r) = "current"
<1> DEFINE draft == DraftOf(rec, session, kinds)
           r == ReceiptOf(rec, session, kinds)
<1>1. draft = [f \in ReceiptFields |-> draft[f]]
  BY DraftShape
<1>2. r = SealReceipt(draft, "current") /\ "current" \in ReceiptDigestProfile
  BY DEF ReceiptOf, ReceiptDigestProfile
<1>3. DOMAIN draft = ReceiptFields
  BY <1>1
<1>4. /\ DOMAIN r = ReceiptFields
      /\ \A f \in ReceiptFields \ {"receipt_digest", "signature"} : r[f] = draft[f]
      /\ r.receipt_digest = computeReceiptDigest(r, "current")
  BY <1>2, <1>3, SealDigest
<1>5. r = [f \in ReceiptFields |-> r[f]]
  BY <1>2, <1>4 DEF SealReceipt
<1>6. verifyReceiptDigestMatch(r) = "current"
  <2>1. NULL # "current"
    BY NullAssumption DEF ReceiptDigestProfile
  <2> QED
    BY <1>4, <2>1 DEF verifyReceiptDigestMatch, matchedProfile
<1>7. /\ r.session_id = draft.session_id /\ r.entry_hash = draft.entry_hash
      /\ r.args_digest = draft.args_digest /\ r.intent_context = draft.intent_context
      /\ r.intent_alignment = draft.intent_alignment
      /\ r.causal_lineage = draft.causal_lineage
      /\ r.gateway_attestation = draft.gateway_attestation
      /\ r.partial_path = draft.partial_path /\ r.governance = draft.governance
      /\ r.proof_strength_disclosure_digest = draft.proof_strength_disclosure_digest
  BY <1>4 DEF ReceiptFields
<1> HIDE DEF draft, r
<1> QED
  BY <1>4, <1>5, <1>6, <1>7, DraftShape DEF draft, r

-----------------------------------------------------------------------------
(* The captured session *)

KindsTo(i) == [j \in 1..i |-> captured[j].kind]

\* Every hop carries the receipt of the session up to it.
CapturedInv ==
    \A i \in DOMAIN captured :
       captured[i].receipt = ReceiptOf(recorder, "session-1", KindsTo(i))

\* Type correctness and the captured session.
LEMMA KindsToSession ==
    ASSUME TypeOK, NEW i \in DOMAIN captured
    PROVE  /\ KindsTo(i) \in Sessions
           /\ Len(KindsTo(i)) = i
           /\ KindsTo(i)[i] = captured[i].kind
           /\ captured[i].kind \in HopKinds
           /\ captured[i].receipt \in SealedReceipts
<1>1. /\ captured \in Seq([kind : HopKinds, receipt : SealedReceipts])
      /\ Len(captured) \in Nat /\ Len(captured) <= MaxHops
      /\ DOMAIN captured = 1..Len(captured)
  BY DEF TypeOK
<1>2. ASSUME NEW j \in DOMAIN captured
      PROVE  captured[j].kind \in HopKinds /\ captured[j].receipt \in SealedReceipts
  <2>1. captured[j] \in [kind : HopKinds, receipt : SealedReceipts]
    BY <1>1, ElementOfSeq
  <2> QED
    BY <2>1
<1>3. i \in 1..MaxHops /\ i \in Nat
  BY <1>1, CapExportAssumption
<1>4. \A j \in 1..i : j \in DOMAIN captured
  BY <1>1
<1>5. KindsTo(i) \in [1..i -> HopKinds]
  BY <1>2, <1>4 DEF KindsTo
<1>6. Len(KindsTo(i)) = i
  BY <1>3, <1>5
<1>7. KindsTo(i)[i] = captured[i].kind
  BY <1>3 DEF KindsTo
<1>8. KindsTo(i) \in Sessions
  BY <1>3, <1>5 DEF Sessions
<1> QED
  BY <1>2, <1>6, <1>7, <1>8

-----------------------------------------------------------------------------
(* What custody can make of a bundle *)

BundleFields ==
    {"session_id", "manifest", "terminal_receipt", "member_receipts", "policy_proof",
     "manifest_custodian", "constraint_closure", "channel_provenance"}

\* A known receipt, but for the disclosure, which may be that of another one,
\* and for the steps of its path, whose hash is kept.
Copy(receipt, original) ==
    /\ DOMAIN receipt = ReceiptFields
    /\ \A f \in ReceiptFields \ {"governance", "partial_path"} : receipt[f] = original[f]
    /\ receipt.governance \in {known.governance : known \in KnownReceipts}
    /\ original.partial_path = NULL => receipt.partial_path = NULL
    /\ receipt.partial_path # NULL =>
         /\ DOMAIN receipt.partial_path = PathFields
         /\ \A f \in PathFields \ {"partial_steps"} :
              receipt.partial_path[f] = original.partial_path[f]

KnownCopy(receipt) == \E original \in KnownReceipts : Copy(receipt, original)

\* A bundle whose parts are all from what this deployment sealed or exported.
FromExports(b) ==
    /\ DOMAIN b = BundleFields
    /\ b.manifest \in Manifests
    /\ KnownCopy(b.terminal_receipt)
    /\ Len(b.member_receipts) \in Nat
    /\ DOMAIN b.member_receipts = 1..Len(b.member_receipts)
    /\ \A i \in DOMAIN b.member_receipts :
         b.member_receipts[i] # NULL => KnownCopy(b.member_receipts[i])

\* The published closure is a verdict over such a bundle.
ClosureFromExports(closure) ==
    \E b : \E options \in Options :
       FromExports(b) /\ closure = verifySessionProof(b, options).composition_closure

EnvelopeFields == {"export_gate_policy", "composition_closure", "closure_ship_gate"}

IInv ==
    /\ TypeOK
    /\ CapturedInv
    /\ bundle # NULL => FromExports(bundle)
    /\ envelope # NULL =>
         /\ DOMAIN envelope = EnvelopeFields
         /\ envelope.composition_closure # NULL =>
              ClosureFromExports(envelope.composition_closure)
    /\ handoff # NULL => handoff = evaluateCapExportCarrierHandoff(envelope, release)

\* A known receipt has the shape of one, a path or none, and its own digest.
LEMMA KnownShape ==
    ASSUME IInv, NEW r \in KnownReceipts
    PROVE  /\ r = [f \in ReceiptFields |-> r[f]]
           /\ r.partial_path # NULL =>
                /\ r.partial_path = [f \in PathFields |-> r.partial_path[f]]
                /\ r.partial_path.partial_path_hash = PathPreimage(r.partial_path)
           /\ r.receipt_digest = computeReceiptDigest(r, "current")
           /\ r.governance # NULL =>
                \E kind \in HopKinds : r.governance = GovernanceOf(kind.context)
<1>1. PICK session, kinds : /\ r = ReceiptOf(recorder, session, kinds)
                            /\ kinds[Len(kinds)] \in HopKinds
  <2>1. ASSUME NEW i \in DOMAIN captured, r = captured[i].receipt
        PROVE  /\ r = ReceiptOf(recorder, "session-1", KindsTo(i))
               /\ KindsTo(i)[Len(KindsTo(i))] \in HopKinds
    BY <2>1, KindsToSession DEF IInv, CapturedInv
  <2>2. ASSUME NEW kind \in HopKinds, r = ReceiptOf(recorder, "session-2", <<kind>>)
        PROVE  <<kind>>[Len(<<kind>>)] \in HopKinds
    OBVIOUS
  <2> QED
    BY <2>1, <2>2 DEF KnownReceipts
<1>2. r.partial_path = PathOf(recorder, session, kinds)
  BY <1>1, ReceiptShape
<1>3. r.partial_path # NULL => recorder.window # 0
  BY <1>2 DEF PathOf
<1>4. r.partial_path # NULL =>
        /\ r.partial_path = [f \in PathFields |-> r.partial_path[f]]
        /\ r.partial_path.partial_path_hash = PathPreimage(r.partial_path)
  BY <1>2, <1>3, PathShape
<1>5. /\ r = [f \in ReceiptFields |-> r[f]]
      /\ r.receipt_digest = computeReceiptDigest(r, "current")
      /\ r.governance \in {NULL, GovernanceOf(kinds[Len(kinds)].context)}
  BY <1>1, ReceiptShape
<1> QED
  BY <1>1, <1>4, <1>5

\* A known receipt is a copy of itself.
LEMMA CopyOfItself ==
    ASSUME IInv, NEW r \in KnownReceipts
    PROVE  Copy(r, r) /\ KnownCopy(r)
<1>1. /\ DOMAIN r = ReceiptFields
      /\ r.partial_path # NULL => DOMAIN r.partial_path = PathFields
  BY KnownShape
<1> QED
  BY <1>1 DEF Copy, KnownCopy

LEMMA CapturedIsKnown ==
    ASSUME NEW i \in DOMAIN captured
    PROVE  captured[i].receipt \in KnownReceipts
  BY DEF KnownReceipts

\* Every export is made of what was sealed.
LEMMA ExportFromExports ==
    ASSUME IInv, NEW n \in DOMAIN captured, NEW withMembers \in BOOLEAN, NEW closure
    PROVE  FromExports(BundleOf(n, withMembers, closure))
<1> DEFINE b == BundleOf(n, withMembers, closure)
           members == IF withMembers THEN [i \in 1..n |-> captured[i].receipt] ELSE <<>>
<1>1. n \in Nat /\ \A i \in 1..n : i \in DOMAIN captured
  BY DEF IInv, TypeOK
<1>2. /\ DOMAIN b = BundleFields
      /\ b.manifest = ManifestOf(n)
      /\ b.terminal_receipt = captured[n].receipt
      /\ b.member_receipts = members
  BY DEF BundleOf, BundleFields
<1>3. b.manifest \in Manifests
  BY <1>2 DEF Manifests
<1>4. KnownCopy(b.terminal_receipt)
  BY <1>2, CapturedIsKnown, CopyOfItself
<1>5. /\ Len(members) \in Nat
      /\ DOMAIN members = 1..Len(members)
      /\ \A i \in DOMAIN members : KnownCopy(members[i])
  <2>1. CASE withMembers
    <3>1. Len(members) = n /\ DOMAIN members = 1..n
      BY <1>1, <2>1
    <3>2. \A i \in 1..n : KnownCopy(members[i])
      BY <1>1, <2>1, CapturedIsKnown, CopyOfItself
    <3> QED
      BY <1>1, <3>1, <3>2
  <2>2. CASE ~withMembers
    BY <2>2
  <2> QED
    BY <2>1, <2>2
<1> QED
  BY <1>2, <1>3, <1>4, <1>5 DEF FromExports

-----------------------------------------------------------------------------
(* Custody's faults *)

IsMembers(members) ==
    /\ Len(members) \in Nat
    /\ DOMAIN members = 1..Len(members)
    /\ \A i \in DOMAIN members : members[i] # NULL => KnownCopy(members[i])

\* A bundle with other members, or another terminal receipt, or one of the
\* parts nothing is asked of here.
LEMMA NewMembers ==
    ASSUME FromExports(bundle), NEW members, IsMembers(members)
    PROVE  FromExports([bundle EXCEPT !.member_receipts = members])
  BY DEF FromExports, BundleFields, IsMembers

LEMMA NewTerminal ==
    ASSUME FromExports(bundle), NEW receipt, KnownCopy(receipt)
    PROVE  FromExports([bundle EXCEPT !.terminal_receipt = receipt])
  BY DEF FromExports, BundleFields

LEMMA NewPart ==
    ASSUME FromExports(bundle), NEW part
    PROVE  /\ FromExports([bundle EXCEPT !.manifest_custodian = part])
           /\ FromExports([bundle EXCEPT !.session_id = part])
           /\ part \in Manifests => FromExports([bundle EXCEPT !.manifest = part])
<1>1. FromExports([bundle EXCEPT !.manifest_custodian = part])
  BY DEF FromExports, BundleFields
<1>2. FromExports([bundle EXCEPT !.session_id = part])
  BY DEF FromExports, BundleFields
<1>3. part \in Manifests => FromExports([bundle EXCEPT !.manifest = part])
  BY DEF FromExports, BundleFields
<1> QED
  BY <1>1, <1>2, <1>3

\* A copy with another's disclosure, or with a rewritten step, is a copy.
LEMMA NewGovernance ==
    ASSUME NEW receipt, KnownCopy(receipt), NEW known \in KnownReceipts
    PROVE  KnownCopy([receipt EXCEPT !.governance = known.governance])
<1>1. PICK original \in KnownReceipts : Copy(receipt, original)
  BY DEF KnownCopy
<1>2. Copy([receipt EXCEPT !.governance = known.governance], original)
  BY <1>1 DEF Copy, ReceiptFields
<1> QED
  BY <1>2 DEF KnownCopy

LEMMA NewSteps ==
    ASSUME NEW receipt, KnownCopy(receipt), receipt.partial_path # NULL, NEW steps
    PROVE  KnownCopy([receipt EXCEPT !.partial_path = [@ EXCEPT !.partial_steps = steps]])
<1> DEFINE path == [receipt.partial_path EXCEPT !.partial_steps = steps]
           new == [receipt EXCEPT !.partial_path = path]
<1>1. PICK original \in KnownReceipts : Copy(receipt, original)
  BY DEF KnownCopy
<1>2. /\ DOMAIN receipt.partial_path = PathFields
      /\ original.partial_path # NULL
      /\ \A f \in PathFields \ {"partial_steps"} :
           receipt.partial_path[f] = original.partial_path[f]
  BY <1>1 DEF Copy
<1>3. /\ DOMAIN path = PathFields
      /\ \A f \in PathFields \ {"partial_steps"} : path[f] = original.partial_path[f]
  BY <1>2 DEF PathFields
<1>4. /\ DOMAIN new = ReceiptFields
      /\ new.partial_path = path
      /\ \A f \in ReceiptFields \ {"partial_path"} : new[f] = receipt[f]
  BY <1>1 DEF Copy, ReceiptFields
<1> HIDE DEF path, new
<1>5. Copy(new, original)
  BY <1>1, <1>2, <1>3, <1>4 DEF Copy, ReceiptFields
<1> QED
  BY <1>5 DEF KnownCopy, new, path

\* What custody does to the members.
LEMMA MembersFaults ==
    ASSUME IInv, bundle # NULL, NEW i \in DOMAIN bundle.member_receipts
    PROVE  /\ LoseMember(i) => FromExports(bundle')
           /\ \A receipt \in KnownReceipts \cup {NULL} :
                MixUpMember(i, receipt) => FromExports(bundle')
           /\ \A j \in DOMAIN bundle.member_receipts :
                SwapMembers(i, j) => FromExports(bundle')
           /\ \A receipt \in KnownReceipts :
                MislabelMember(i, receipt.governance) => FromExports(bundle')
           /\ \A k, hop : /\ bundle.member_receipts[i] # NULL
                          /\ bundle.member_receipts[i].partial_path # NULL
                          /\ MisplaceMemberStep(i, k, hop)
                          => FromExports(bundle')
<1> DEFINE members == bundle.member_receipts
<1>1. /\ FromExports(bundle) /\ IsMembers(members)
      /\ "member_receipts" \in DOMAIN bundle
  BY DEF IInv, FromExports, IsMembers, BundleFields
<1>2. ASSUME NEW m, m # NULL => KnownCopy(m)
      PROVE  IsMembers([members EXCEPT ![i] = m])
  BY <1>1, <1>2 DEF IsMembers
<1>3. ASSUME LoseMember(i) PROVE FromExports(bundle')
  <2> DEFINE fewer == [k \in 1..(Len(members) - 1) |->
                         IF k < i THEN members[k] ELSE members[k + 1]]
  <2>1. IsMembers(fewer)
    <3>1. Len(members) \in Nat /\ i \in 1..Len(members)
      BY <1>1 DEF IsMembers
    <3>2. Len(members) - 1 \in Nat
      BY <3>1
    <3>3. DOMAIN fewer = 1..(Len(members) - 1) /\ Len(fewer) = Len(members) - 1
      BY <3>2
    <3>4. \A k \in DOMAIN fewer : \E l \in DOMAIN members : fewer[k] = members[l]
      <4> SUFFICES ASSUME NEW k \in 1..(Len(members) - 1)
                   PROVE  \E l \in DOMAIN members : fewer[k] = members[l]
        BY <3>3
      <4>1. k \in DOMAIN members /\ k + 1 \in DOMAIN members
        BY <1>1, <3>1 DEF IsMembers
      <4> QED
        BY <4>1
    <3> HIDE DEF fewer
    <3> QED
      BY <1>1, <3>2, <3>3, <3>4 DEF IsMembers
  <2>2. bundle' = [bundle EXCEPT !.member_receipts = fewer]
    BY <1>3 DEF LoseMember, Fault
  <2> QED
    BY <1>1, <2>1, <2>2, NewMembers
<1>4. ASSUME NEW receipt \in KnownReceipts \cup {NULL}, MixUpMember(i, receipt)
      PROVE  FromExports(bundle')
  <2>1. receipt # NULL => KnownCopy(receipt)
    BY CopyOfItself
  <2>2. bundle' = [bundle EXCEPT !.member_receipts = [members EXCEPT ![i] = receipt]]
    BY <1>4 DEF MixUpMember, Fault
  <2> QED
    BY <1>1, <1>2, <2>1, <2>2, NewMembers
<1>5. ASSUME NEW j \in DOMAIN members, SwapMembers(i, j) PROVE FromExports(bundle')
  <2> DEFINE swapped == [members EXCEPT ![i] = members[j], ![j] = members[i]]
  <2>1. IsMembers(swapped)
    BY <1>1 DEF IsMembers
  <2>2. bundle' = [bundle EXCEPT !.member_receipts = swapped]
    BY <1>5 DEF SwapMembers, Fault
  <2> QED
    BY <1>1, <2>1, <2>2, NewMembers
<1>6. ASSUME NEW receipt \in KnownReceipts, MislabelMember(i, receipt.governance)
      PROVE  FromExports(bundle')
  <2> DEFINE m == [members[i] EXCEPT !.governance = receipt.governance]
  <2>1. KnownCopy(m)
    BY <1>1, <1>6, NewGovernance DEF MislabelMember, IsMembers
  <2>2. bundle' = [bundle EXCEPT !.member_receipts = [members EXCEPT ![i] = m]]
    BY <1>6 DEF MislabelMember, Fault
  <2> HIDE DEF m
  <2> QED
    BY <1>1, <1>2, <2>1, <2>2, NewMembers
<1>7. ASSUME NEW k, NEW hop, members[i] # NULL, members[i].partial_path # NULL,
             MisplaceMemberStep(i, k, hop)
      PROVE  FromExports(bundle')
  <2> DEFINE steps == [members[i].partial_path.partial_steps EXCEPT ![k].step_index = hop]
             m == [members[i] EXCEPT !.partial_path = [@ EXCEPT !.partial_steps = steps]]
  <2>1. KnownCopy(m)
    <3> HIDE DEF steps
    <3> QED
      BY <1>1, <1>7, NewSteps DEF IsMembers
  <2>2. bundle' = [bundle EXCEPT !.member_receipts = [members EXCEPT ![i] = m]]
    BY <1>7 DEF MisplaceMemberStep, Fault
  <2> HIDE DEF m
  <2> QED
    BY <1>1, <1>2, <2>1, <2>2, NewMembers
<1> QED
  BY <1>3, <1>4, <1>5, <1>6, <1>7

\* What custody does to the bundle as a whole.
LEMMA FaultFromExports ==
    ASSUME IInv, bundle # NULL, CustodyFaults
    PROVE  FromExports(bundle')
<1> DEFINE terminal == bundle.terminal_receipt
<1>1. FromExports(bundle) /\ KnownCopy(terminal)
  BY DEF IInv, FromExports
<1>2. ASSUME NEW receipt \in KnownReceipts, MixUpTerminal(receipt) PROVE FromExports(bundle')
  BY <1>1, <1>2, CopyOfItself, NewTerminal DEF MixUpTerminal, Fault
<1>3. ASSUME terminal.partial_path # NULL, NEW k, NEW mode, MislabelStep(k, mode)
      PROVE  FromExports(bundle')
  <2> DEFINE steps == [terminal.partial_path.partial_steps EXCEPT ![k].enforcement_mode = mode]
             receipt == [terminal EXCEPT !.partial_path = [@ EXCEPT !.partial_steps = steps]]
  <2>1. KnownCopy(receipt)
    <3> HIDE DEF steps
    <3> QED
      BY <1>1, <1>3, NewSteps
  <2>2. bundle' = [bundle EXCEPT !.terminal_receipt = receipt]
    BY <1>3 DEF MislabelStep, Fault
  <2> HIDE DEF receipt
  <2> QED
    BY <1>1, <2>1, <2>2, NewTerminal
<1>4. ASSUME terminal.partial_path # NULL, NEW k, NEW hop, MisplaceStep(k, hop)
      PROVE  FromExports(bundle')
  <2> DEFINE steps == [terminal.partial_path.partial_steps EXCEPT ![k].step_index = hop]
             receipt == [terminal EXCEPT !.partial_path = [@ EXCEPT !.partial_steps = steps]]
  <2>1. KnownCopy(receipt)
    <3> HIDE DEF steps
    <3> QED
      BY <1>1, <1>4, NewSteps
  <2>2. bundle' = [bundle EXCEPT !.terminal_receipt = receipt]
    BY <1>4 DEF MisplaceStep, Fault
  <2> HIDE DEF receipt
  <2> QED
    BY <1>1, <2>1, <2>2, NewTerminal
<1>5. ASSUME NEW manifest \in Manifests, MixUpManifest(manifest) PROVE FromExports(bundle')
  BY <1>1, <1>5, NewPart DEF MixUpManifest, Fault
<1>6. ASSUME NEW custodian, MixUpCustodian(custodian) PROVE FromExports(bundle')
  BY <1>1, <1>6, NewPart DEF MixUpCustodian, Fault
<1>7. ASSUME MixUpSession PROVE FromExports(bundle')
  BY <1>1, <1>7, NewPart DEF MixUpSession, Fault
<1> QED
  BY <1>2, <1>3, <1>4, <1>5, <1>6, <1>7, MembersFaults DEF CustodyFaults

-----------------------------------------------------------------------------
(* The invariant *)

\* Nothing else in the invariant depends on what has been captured.
LEMMA FromExportsStays ==
    ASSUME UNCHANGED <<recorder, captured>>
    PROVE  /\ KnownReceipts' = KnownReceipts
           /\ Manifests' = Manifests
           /\ CapturedInv => CapturedInv'
  BY DEF KnownReceipts, Manifests, ManifestOf, MembersOf, CapturedInv, KindsTo

\* The closure of any bundle has one of the verdicts.
LEMMA ClosureVerdict ==
    ASSUME NEW b, NEW options,
           verifySessionProof(b, options).composition_closure # NULL
    PROVE  verifySessionProof(b, options).composition_closure.closure_verdict
             \in CLOSURE_VERDICTS
  BY ClosureShape DEF verifySessionProof, sessionCompositionClosure

LEMMA IInvInit == Init => IInv
<1> SUFFICES ASSUME Init PROVE IInv
  OBVIOUS
<1>1. captured = <<>> /\ captured \in Seq([kind : HopKinds, receipt : SealedReceipts])
  BY DEF Init
<1>2. TypeOK
  BY <1>1, CapExportAssumption DEF Init, TypeOK
<1>3. CapturedInv
  BY <1>1 DEF CapturedInv
<1> QED
  BY <1>2, <1>3 DEF Init, IInv

\* A capture adds a hop whose receipt is that of the session up to it.
LEMMA IInvCapture ==
    ASSUME IInv, NEW kind \in HopKinds, Capture(kind)
    PROVE  IInv'
<1> DEFINE n == Len(captured)
           before == [j \in DOMAIN captured |-> captured[j].kind]
           kinds == Append(before, kind)
           receipt == ReceiptOf(recorder, "session-1", kinds)
           hop == [kind |-> kind, receipt |-> receipt]
           Hop == [kind : HopKinds, receipt : SealedReceipts]
<1>1. /\ captured \in Seq(Hop) /\ n \in Nat /\ n < MaxHops
      /\ DOMAIN captured = 1..n
      /\ captured' = Append(captured, hop)
      /\ bundle = NULL /\ recorder \in Recorders
      /\ UNCHANGED <<recorder, bundle, envelope, faults, release, handoff>>
  BY DEF Capture, IInv, TypeOK
<1>2. /\ before \in Seq(HopKinds) /\ Len(before) = n
      /\ DOMAIN before = 1..n
  <2>1. before \in [1..n -> HopKinds]
    BY <1>1, KindsToSession DEF IInv
  <2> QED
    BY <1>1, <2>1
<1>3. /\ kinds \in Seq(HopKinds) /\ Len(kinds) = n + 1
      /\ DOMAIN kinds = 1..(n + 1)
      /\ kinds[n + 1] = kind
      /\ \A j \in 1..n : kinds[j] = captured[j].kind
  <2> HIDE DEF before
  <2>1. /\ kinds \in Seq(HopKinds) /\ Len(kinds) = Len(before) + 1
        /\ kinds[Len(before) + 1] = kind
        /\ \A j \in 1..Len(before) : kinds[j] = before[j]
    BY <1>2, AppendProperties
  <2>2. DOMAIN kinds = 1..(n + 1)
    BY <1>2, <2>1
  <2> QED
    BY <1>1, <1>2, <2>1, <2>2 DEF before
<1>4. kinds \in Sessions
  <2>1. kinds \in [1..(n + 1) -> HopKinds]
    <3> HIDE DEF kinds
    <3> QED
      BY <1>1, <1>3
  <2>2. n + 1 \in 1..MaxHops
    BY <1>1, CapExportAssumption
  <2> QED
    BY <2>1, <2>2 DEF Sessions
<1>5. receipt \in SealedReceipts
  <2> HIDE DEF kinds
  <2> QED
    BY <1>1, <1>4 DEF SealedReceipts
<1>6. /\ captured' \in Seq(Hop) /\ Len(captured') = n + 1
      /\ DOMAIN captured' = 1..(n + 1)
      /\ captured'[n + 1] = hop
      /\ \A j \in 1..n : captured'[j] = captured[j]
  <2>1. hop \in Hop
    BY <1>5
  <2> HIDE DEF hop, Hop
  <2>2. /\ captured' \in Seq(Hop) /\ Len(captured') = n + 1
        /\ captured'[n + 1] = hop
        /\ \A j \in 1..n : captured'[j] = captured[j]
    BY <1>1, <2>1, AppendProperties
  <2> QED
    BY <1>1, <2>2
<1>7. ASSUME NEW i \in 1..(n + 1)
      PROVE  /\ captured'[i].receipt = ReceiptOf(recorder, "session-1", KindsTo(i)')
             /\ Len(KindsTo(i)') = i
  <2>1. i \in Nat /\ KindsTo(i)' = [j \in 1..i |-> captured'[j].kind]
    BY <1>1 DEF KindsTo
  <2>2. Len(KindsTo(i)') = i
    BY <2>1
  <2>3. CASE i = n + 1
    <3>1. \A j \in 1..i : captured'[j].kind = kinds[j]
      BY <1>1, <1>3, <1>6, <2>3
    <3>2. KindsTo(i)' = [j \in 1..(n + 1) |-> kinds[j]]
      BY <2>1, <2>3, <3>1
    <3>3. kinds = [j \in 1..(n + 1) |-> kinds[j]]
      <4> HIDE DEF kinds
      <4> QED
        BY <1>3
    <3>4. captured'[i].receipt = ReceiptOf(recorder, "session-1", kinds)
      <4>1. hop.receipt = receipt
        <5> HIDE DEF receipt
        <5> QED
          OBVIOUS
      <4> HIDE DEF hop
      <4>2. captured'[i] = hop
        BY <1>6, <2>3
      <4> HIDE DEF kinds
      <4> QED
        BY <4>1, <4>2
    <3> HIDE DEF kinds
    <3> QED
      BY <2>2, <3>2, <3>3, <3>4
  <2>4. CASE i # n + 1
    <3>1. i \in 1..n /\ \A j \in 1..i : j \in 1..n
      BY <1>1, <2>4
    <3>2. KindsTo(i)' = KindsTo(i)
      BY <1>6, <2>1, <3>1 DEF KindsTo
    <3>3. captured[i].receipt = ReceiptOf(recorder, "session-1", KindsTo(i))
      BY <1>1, <3>1 DEF IInv, CapturedInv
    <3> QED
      BY <1>6, <2>2, <3>1, <3>2, <3>3
  <2> QED
    BY <2>3, <2>4
<1>8. CapturedInv'
  BY <1>1, <1>6, <1>7 DEF CapturedInv
<1>9. ASSUME NEW i \in 1..(n + 1)
      PROVE  /\ captured'[i].receipt.entry_hash = EntryHash("session-1", i - 1)
             /\ verifyReceiptDigestMatch(captured'[i].receipt) = "current"
  BY <1>7, ReceiptShape
<1>10. TypeOK'
  <2>1. envelope = NULL /\ handoff = NULL
    BY <1>1 DEF IInv, TypeOK
  <2>2. Len(captured') <= MaxHops
    BY <1>1, <1>6, CapExportAssumption
  <2> QED
    BY <1>1, <1>6, <1>9, <2>1, <2>2 DEF IInv, TypeOK
<1> QED
  BY <1>1, <1>8, <1>10 DEF IInv, TypeOK

\* A step that leaves the captured session alone and takes the bundle from
\* exports.
LEMMA IInvBundle ==
    ASSUME IInv, FromExports(bundle'), captured # <<>>, envelope = NULL,
           UNCHANGED <<recorder, captured, envelope, release, handoff>>,
           faults' \in 0..MaxFaults
    PROVE  IInv'
<1>1. /\ FromExports(bundle)' /\ CapturedInv'
  BY FromExportsStays DEF FromExports, KnownCopy, Copy, IInv
<1>2. TypeOK'
  BY DEF IInv, TypeOK
<1> QED
  BY <1>1, <1>2 DEF IInv, TypeOK

\* A step that publishes or caches closures of exports.
LEMMA IInvEnvelope ==
    ASSUME IInv, bundle # NULL, handoff = NULL,
           UNCHANGED <<recorder, captured, bundle, release, handoff>>,
           faults' \in 0..MaxFaults,
           DOMAIN envelope' = EnvelopeFields,
           envelope'.composition_closure # NULL =>
             ClosureFromExports(envelope'.composition_closure)
    PROVE  IInv'
<1>1. FromExports(bundle)' /\ CapturedInv'
  BY FromExportsStays DEF FromExports, KnownCopy, Copy, IInv
<1>2. envelope'.composition_closure # NULL =>
        /\ ClosureFromExports(envelope.composition_closure)'
        /\ envelope'.composition_closure.closure_verdict \in CLOSURE_VERDICTS
  <2> SUFFICES ASSUME envelope'.composition_closure # NULL
               PROVE  /\ ClosureFromExports(envelope.composition_closure)'
                      /\ envelope'.composition_closure.closure_verdict \in CLOSURE_VERDICTS
    OBVIOUS
  <2>1. PICK b : \E options \in Options :
          /\ FromExports(b)
          /\ envelope'.composition_closure
               = verifySessionProof(b, options).composition_closure
    BY DEF ClosureFromExports
  <2>2. /\ b.manifest \in Manifests'
        /\ \A r : KnownCopy(r) => KnownCopy(r)'
    BY <2>1, FromExportsStays DEF FromExports, KnownCopy, Copy
  <2>3. ClosureFromExports(envelope.composition_closure)'
    BY <2>1, <2>2 DEF ClosureFromExports, FromExports
  <2> QED
    BY <2>1, <2>3, ClosureVerdict
<1>3. TypeOK'
  BY <1>2 DEF IInv, TypeOK
<1> QED
  BY <1>1, <1>2, <1>3 DEF IInv, TypeOK

\* A step that changes the release before the handoff, or hands off.
LEMMA IInvUnchanged ==
    ASSUME IInv, UNCHANGED <<recorder, captured, bundle, envelope, faults>>,
           release' \in 1..MaxRelease,
           handoff' # NULL =>
             envelope # NULL /\ handoff' = evaluateCapExportCarrierHandoff(envelope, release')
    PROVE  IInv'
<1>1. CapturedInv' /\ TypeOK'
  BY FromExportsStays DEF IInv, TypeOK
<1>2. bundle' # NULL => FromExports(bundle)'
  BY FromExportsStays DEF FromExports, KnownCopy, Copy, IInv
<1>3. envelope' # NULL =>
        /\ DOMAIN envelope' = EnvelopeFields
        /\ envelope'.composition_closure # NULL =>
             ClosureFromExports(envelope.composition_closure)'
  BY FromExportsStays DEF ClosureFromExports, FromExports, KnownCopy, Copy, IInv
<1> QED
  BY <1>1, <1>2, <1>3 DEF IInv

\* What the cache may return in place of a part.
LEMMA CacheFromExports ==
    ASSUME IInv, NEW options \in Options, CacheFaults(options)
    PROVE  /\ bundle # NULL
           /\ handoff = NULL
           /\ UNCHANGED <<recorder, captured, bundle, release, handoff>>
           /\ faults' \in 0..MaxFaults
           /\ DOMAIN envelope' = EnvelopeFields
           /\ envelope'.composition_closure # NULL =>
                ClosureFromExports(envelope'.composition_closure)
<1>1. PICK field, value :
        /\ field \in EnvelopeFields
        /\ CacheFault(field, value)
        /\ field = "composition_closure" =>
             value = NULL \/ \E verdict \in Verdicts(options) : value = verdict.composition_closure
  BY DEF CacheFaults, EnvelopeFields
<1>2. /\ envelope # NULL /\ bundle # NULL /\ handoff = NULL
      /\ UNCHANGED <<recorder, captured, bundle, release, handoff>>
      /\ envelope' = [envelope EXCEPT ![field] = value]
      /\ DOMAIN envelope = EnvelopeFields
      /\ envelope.composition_closure # NULL => ClosureFromExports(envelope.composition_closure)
  BY <1>1 DEF CacheFault, IInv, TypeOK, EnvelopeFields
<1>3. faults' \in 0..MaxFaults
  BY <1>1, CapExportAssumption DEF CacheFault, IInv, TypeOK
<1>4. DOMAIN envelope' = EnvelopeFields
  BY <1>2
<1>5. ASSUME NEW verdict \in Verdicts(options)
      PROVE  ClosureFromExports(verdict.composition_closure)
  <2>1. PICK n \in DOMAIN captured, m \in BOOLEAN :
          verdict = verifySessionProof(BundleOf(n, m, NULL), options)
    BY DEF Verdicts
  <2>2. FromExports(BundleOf(n, m, NULL))
    BY ExportFromExports
  <2> QED
    BY <2>1, <2>2 DEF ClosureFromExports
<1>6. CASE field = "composition_closure"
  <2>1. envelope'.composition_closure = value
    BY <1>2, <1>6 DEF EnvelopeFields
  <2> QED
    BY <1>1, <1>2, <1>3, <1>4, <1>5, <1>6, <2>1
<1>7. CASE field # "composition_closure"
  <2>1. envelope'.composition_closure = envelope.composition_closure
    BY <1>2, <1>7 DEF EnvelopeFields
  <2> QED
    BY <1>2, <1>3, <1>4, <2>1
<1> QED
  BY <1>6, <1>7

LEMMA IInvNext == IInv /\ [Next]_vars => IInv'
<1> SUFFICES ASSUME IInv, [Next]_vars PROVE IInv'
  OBVIOUS
<1>1. ASSUME NEW kind \in HopKinds, Capture(kind) PROVE IInv'
  BY <1>1, IInvCapture
<1>2. ASSUME NEW n \in DOMAIN captured, NEW withMembers \in BOOLEAN,
             NEW closure \in ConstraintClosures, Export(n, withMembers, closure)
      PROVE  IInv'
  <2>1. FromExports(bundle')
    BY <1>2, ExportFromExports DEF Export
  <2>2. /\ captured # <<>> /\ envelope = NULL /\ faults' \in 0..MaxFaults
        /\ UNCHANGED <<recorder, captured, envelope, release, handoff>>
    BY <1>2 DEF Export, IInv, TypeOK
  <2> QED
    BY <2>1, <2>2, IInvBundle
<1>3. ASSUME CustodyFaults PROVE IInv'
  <2>1. PICK new : Fault(new)
    BY <1>3 DEF CustodyFaults, LoseMember, MixUpMember, SwapMembers, MislabelMember,
                MixUpTerminal, MislabelStep, MisplaceStep, MisplaceMemberStep,
                MixUpManifest, MixUpCustodian, MixUpSession
  <2>2. /\ bundle # NULL /\ captured # <<>> /\ envelope = NULL
        /\ UNCHANGED <<recorder, captured, envelope, release, handoff>>
    BY <2>1 DEF Fault, IInv, TypeOK
  <2>3. faults' \in 0..MaxFaults
    BY <2>1, CapExportAssumption DEF Fault, IInv, TypeOK
  <2>4. FromExports(bundle')
    BY <1>3, <2>2, FaultFromExports
  <2> QED
    BY <2>2, <2>3, <2>4, IInvBundle
<1>4. ASSUME NEW options \in Options, NEW serverRelease \in 1..MaxRelease,
             Publish(options, serverRelease)
      PROVE  IInv'
  <2>1. /\ bundle # NULL /\ handoff = NULL /\ faults' \in 0..MaxFaults
        /\ UNCHANGED <<recorder, captured, bundle, release, handoff>>
    BY <1>4 DEF Publish, IInv, TypeOK
  <2>2. /\ DOMAIN envelope' = EnvelopeFields
        /\ envelope'.composition_closure
             = verifySessionProof(bundle, options).composition_closure
    BY <1>4 DEF Publish, EnvelopeOf, EnvelopeFields
  <2>3. ClosureFromExports(envelope'.composition_closure)
    BY <2>1, <2>2 DEF IInv, ClosureFromExports
  <2> QED
    BY <2>1, <2>2, <2>3, IInvEnvelope
<1>5. ASSUME NEW options \in Options, CacheFaults(options) PROVE IInv'
  BY <1>5, CacheFromExports, IInvEnvelope
<1>6. ASSUME UpgradeRelease PROVE IInv'
  <2>1. /\ envelope # NULL /\ handoff = NULL /\ release' \in 1..MaxRelease
        /\ UNCHANGED <<recorder, captured, bundle, envelope, faults, handoff>>
    BY <1>6, CapExportAssumption DEF UpgradeRelease, IInv, TypeOK
  <2> QED
    BY <2>1, IInvUnchanged
<1>7. ASSUME Handoff PROVE IInv'
  <2>1. /\ envelope # NULL
        /\ handoff' = evaluateCapExportCarrierHandoff(envelope, release)
        /\ UNCHANGED <<recorder, captured, bundle, envelope, faults, release>>
    BY <1>7 DEF Handoff
  <2> QED
    BY <2>1, IInvUnchanged DEF IInv, TypeOK
<1>8. ASSUME UNCHANGED vars PROVE IInv'
  BY <1>8, IInvUnchanged DEF vars, IInv, TypeOK
<1> QED
  BY <1>1, <1>2, <1>3, <1>4, <1>5, <1>6, <1>7, <1>8 DEF Next

THEOREM Invariance == Spec => []IInv
  BY IInvInit, IInvNext, PTL DEF Spec

\* The type invariant: hops carry their own sealed receipts, nothing is handed
\* off before it is published nor published before it is exported.
THEOREM TypeCorrect == Spec => []TypeOK
<1>1. IInv => TypeOK
  BY DEF IInv
<1> QED
  BY <1>1, Invariance, PTL


-----------------------------------------------------------------------------
(* What verifies is genuine *)

\* The digests of two captured hops differ, and none is missing.
LEMMA CapturedDigests ==
    ASSUME IInv, NEW i \in DOMAIN captured
    PROVE  /\ i \in Nat /\ i >= 1 /\ \A j \in 1..i : j \in DOMAIN captured
           /\ captured[i].receipt \in KnownReceipts
           /\ captured[i].receipt # NULL
           /\ captured[i].receipt.receipt_digest # NULL
           /\ captured[i].receipt.signature # NULL
           /\ captured[i].receipt.session_id = "session-1"
           /\ captured[i].receipt.entry_hash = EntryHash("session-1", i - 1)
           /\ captured[i].receipt.receipt_digest
                = computeReceiptDigest(captured[i].receipt, "current")
<1>1. captured[i].receipt \in SealedReceipts /\ captured[i].receipt \in KnownReceipts
  BY KindsToSession, CapturedIsKnown DEF IInv
<1>2. /\ captured[i].receipt # NULL /\ captured[i].receipt.receipt_digest # NULL
      /\ captured[i].receipt.signature # NULL
  BY <1>1, NullAssumption
<1>3. /\ captured[i].receipt.session_id = "session-1"
      /\ captured[i].receipt.receipt_digest
           = computeReceiptDigest(captured[i].receipt, "current")
  BY ReceiptShape DEF IInv, CapturedInv
<1>4. i \in Nat /\ i >= 1 /\ \A j \in 1..i : j \in DOMAIN captured
  BY DEF IInv, TypeOK
<1> QED
  BY <1>1, <1>2, <1>3, <1>4 DEF IInv, TypeOK

\* A known receipt with the digest of a captured hop is that hop's.
LEMMA KnownDigest ==
    ASSUME IInv, NEW i \in DOMAIN captured, NEW r \in KnownReceipts,
           r.receipt_digest = captured[i].receipt.receipt_digest
    PROVE  r = captured[i].receipt
<1> DEFINE o == captured[i].receipt
<1>1. r.session_id = "session-1" /\ r.entry_hash = EntryHash("session-1", i - 1)
  <2>1. r.receipt_digest = computeReceiptDigest(r, "current")
    BY KnownShape
  <2>2. o.receipt_digest = computeReceiptDigest(o, "current")
    BY CapturedDigests
  <2>3. computeReceiptDigest(r, "current") = computeReceiptDigest(o, "current")
    BY <2>1, <2>2
  <2>4. r.session_id = o.session_id /\ r.entry_hash = o.entry_hash
    BY <2>3, DigestInjective
  <2> QED
    BY <2>4, CapturedDigests
<1>2. ASSUME NEW j \in DOMAIN captured, r = captured[j].receipt
      PROVE  j = i
  <2>1. EntryHash("session-1", j - 1) = EntryHash("session-1", i - 1)
    BY <1>1, <1>2, CapturedDigests
  <2>2. j - 1 = i - 1
    BY <2>1 DEF EntryHash
  <2> QED
    BY <2>2, CapturedDigests
<1>3. ASSUME NEW kind \in HopKinds, r = ReceiptOf(recorder, "session-2", <<kind>>)
      PROVE  FALSE
  <2>1. r.session_id = "session-2"
    BY <1>3, ReceiptShape
  <2> QED
    BY <1>1, <2>1
<1> QED
  BY <1>2, <1>3 DEF KnownReceipts

\* A copy of a captured hop's receipt whose own path matches the path's hash
\* has that hop's path.
LEMMA CopiedPath ==
    ASSUME IInv, NEW i \in DOMAIN captured, NEW path, path # NULL,
           captured[i].receipt.partial_path # NULL,
           path = [f \in PathFields |-> path[f]],
           \A f \in PathFields \ {"partial_steps"} :
             path[f] = captured[i].receipt.partial_path[f],
           verifyPartialPathCommitment(path)
    PROVE  path = captured[i].receipt.partial_path
<1> DEFINE original == captured[i].receipt.partial_path
<1>1. /\ original = [f \in PathFields |-> original[f]]
      /\ original.partial_path_hash = PathPreimage(original)
  BY CapturedDigests, KnownShape
<1>2. path.partial_path_hash = original.partial_path_hash
  BY DEF PathFields
<1>3. PathPreimage(path) = PathPreimage(original)
  BY <1>1, <1>2 DEF verifyPartialPathCommitment
<1>4. path.partial_steps = original.partial_steps
  BY <1>3 DEF PathPreimage
<1>5. \A f \in PathFields : path[f] = original[f]
  BY <1>4
<1> HIDE DEF original
<1> QED
  BY <1>1, <1>5 DEF original

\* A copy of a captured hop's receipt that verifies is that receipt, as
\* parsed, with its own disclosure when one was stamped.
LEMMA VerifiedCopy ==
    ASSUME IInv, NEW c, NEW i \in DOMAIN captured,
           KnownCopy(c), c.receipt_digest = captured[i].receipt.receipt_digest,
           NEW options, verifyReceipt(c, options)
    PROVE  SameReceipt(c, captured[i].receipt)
<1> DEFINE o == captured[i].receipt
           parsed == parseLiabilityReceiptStructure(c)
<1>1. Copy(c, o)
  <2>1. PICK known \in KnownReceipts : Copy(c, known)
    BY DEF KnownCopy
  <2>2. known.receipt_digest = o.receipt_digest
    BY <2>1 DEF Copy, ReceiptFields
  <2> QED
    BY <2>1, <2>2, KnownDigest
<1>2. /\ o = [f \in ReceiptFields |-> o[f]]
      /\ o.receipt_digest = computeReceiptDigest(o, "current")
  BY CapturedDigests, KnownShape
<1>3. \A f \in PILLARS : o[f] # NULL => c[f] # NULL
  <2>1. computeReceiptDigest(c, verifyReceiptDigestMatch(c)) = computeReceiptDigest(o, "current")
    <3>1. DOMAIN c = ReceiptFields /\ (c.partial_path # NULL => DOMAIN c.partial_path = PathFields)
      BY <1>1 DEF Copy
    <3>2. c.partial_path # NULL => parsedPath(c.partial_path) # NULL
      BY <3>1, Accepted, Parsed DEF verifyPartialPathCommitment
    <3>3. verifyReceiptDigestMatch(c) # NULL
      BY Accepted
    <3>4. computeReceiptDigest(c, verifyReceiptDigestMatch(c)) = c.receipt_digest
      BY <3>1, <3>2, <3>3, MatchedProfile DEF Parseable
    <3> QED
      BY <1>2, <3>4
  <2>2. receiptDigestKeysForProfile("current") = PILLARS
    BY DEF receiptDigestKeysForProfile
  <2> QED
    BY <2>1, <2>2, DigestInjective
<1>4. parsed.partial_path = o.partial_path
  <2>1. CASE o.partial_path = NULL
    <3>1. c.partial_path = NULL
      BY <1>1, <2>1 DEF Copy
    <3> QED
      BY <1>1, <2>1, <3>1, Parsed DEF Copy, parsedPath
  <2>2. CASE o.partial_path # NULL
    <3> DEFINE path == parsedPath(c.partial_path)
    <3>1. c.partial_path # NULL
      BY <1>3, <2>2 DEF PILLARS
    <3>2. /\ DOMAIN c.partial_path = PathFields
          /\ \A f \in PathFields \ {"partial_steps"} : c.partial_path[f] = o.partial_path[f]
      BY <1>1, <3>1 DEF Copy
    <3>3. /\ path = [f \in PathFields |-> path[f]]
          /\ \A f \in PathFields \ {"partial_steps"} : path[f] = o.partial_path[f]
      BY <3>1, <3>2 DEF parsedPath, PathFields
    <3>4. parsed.partial_path = path
      BY <1>1, Parsed DEF Copy
    <3>5. verifyPartialPathCommitment(path)
      BY <3>1, <3>4, Accepted
    <3> HIDE DEF path
    <3>6. path # NULL
      BY <3>5 DEF verifyPartialPathCommitment
    <3>7. path = o.partial_path
      BY <2>2, <3>3, <3>5, <3>6, CopiedPath
    <3> QED
      BY <3>4, <3>7
  <2> QED
    BY <2>1, <2>2
<1>5. [parsed EXCEPT !.governance = o.governance] = o
  <2>1. /\ DOMAIN parsed = ReceiptFields
        /\ \A f \in ReceiptFields \ {"partial_path"} : parsed[f] = c[f]
    <3>1. DOMAIN c = ReceiptFields
      BY <1>1 DEF Copy
    <3> QED
      BY <3>1, Parsed DEF parseLiabilityReceiptStructure
  <2>2. \A f \in ReceiptFields \ {"governance"} : parsed[f] = o[f]
    BY <1>1, <1>4, <2>1 DEF Copy
  <2>3. "governance" \in ReceiptFields
    BY DEF ReceiptFields
  <2> HIDE DEF parsed, o
  <2> DEFINE new == [parsed EXCEPT !.governance = o.governance]
  <2>4. DOMAIN new = ReceiptFields /\ \A f \in ReceiptFields : new[f] = o[f]
    BY <2>1, <2>2, <2>3
  <2>5. new = [f \in ReceiptFields |-> new[f]]
    BY <2>4
  <2> HIDE DEF new
  <2>6. new = [f \in ReceiptFields |-> o[f]]
    BY <2>4, <2>5
  <2>7. o = [f \in ReceiptFields |-> o[f]]
    BY <1>2 DEF o
  <2> QED
    BY <2>6, <2>7 DEF new
<1>6. ASSUME o.proof_strength_disclosure_digest # NULL
      PROVE  c.governance = o.governance
  <2>1. c.proof_strength_disclosure_digest = o.proof_strength_disclosure_digest
    BY <1>1 DEF Copy, ReceiptFields
  <2>2. /\ c.governance # NULL
        /\ c.governance.disclosure_digest = o.proof_strength_disclosure_digest
    BY <1>6, <2>1, Accepted DEF verifyProofStrengthDisclosureReceiptBinding,
       verifyProofStrengthDisclosure
  <2>3. /\ o.governance # NULL
        /\ o.governance.disclosure_digest = o.proof_strength_disclosure_digest
    BY <1>6, ReceiptShape DEF IInv, CapturedInv
  <2>4. PICK known \in KnownReceipts : c.governance = known.governance
    BY <1>1 DEF Copy
  <2>5. PICK k1 \in HopKinds : c.governance = GovernanceOf(k1.context)
    BY <2>2, <2>4, KnownShape
  <2>6. PICK k2 \in HopKinds : o.governance = GovernanceOf(k2.context)
    BY <2>3, CapturedDigests, KnownShape
  <2>7. k1.context # NULL /\ k2.context # NULL
    BY NullAssumption
  <2> QED
    BY <2>2, <2>3, <2>5, <2>6, <2>7, DisclosureInjective
<1> QED
  BY <1>5, <1>6 DEF SameReceipt

\* The manifest of an export lists the hops it was taken from, in order, and
\* names the last one as terminal.
LEMMA ManifestOfPrefix ==
    ASSUME IInv, NEW m \in Manifests
    PROVE  LET n == m.declared_count
           IN /\ n \in DOMAIN captured
              /\ m.session_id = "session-1"
              /\ sortedMembers(m.members) = MembersOf(n)
              /\ DOMAIN sortedMembers(m.members) = 1..n
              /\ DOMAIN m.members = 1..n
              /\ \/ m.members = MembersOf(n)
                 \/ m.members = [i \in 1..n |-> MembersOf(n)[n + 1 - i]]
              /\ expectedTerminal(m) = captured[n].receipt.receipt_digest
<1>1. PICK n \in DOMAIN captured :
        \/ m = ManifestOf(n)
        \/ m = [ManifestOf(n) EXCEPT !.terminal_receipt_digest = NULL]
        \/ m = [ManifestOf(n) EXCEPT !.members = [i \in 1..n |-> @[n + 1 - i]]]
  BY DEF Manifests
<1> DEFINE members == MembersOf(n)
           reverse == [i \in 1..n |-> members[n + 1 - i]]
           digest == captured[n].receipt.receipt_digest
<1>2. n \in Nat /\ n >= 1 /\ digest # NULL
  BY CapturedDigests
<1>3. /\ DOMAIN members = 1..n
      /\ \A i \in 1..n : members[i].step_index = i - 1
      /\ members[n].receipt_digest = digest
  BY <1>2 DEF MembersOf
<1>4. /\ DOMAIN reverse = 1..n
      /\ \A i \in 1..n : reverse[i].step_index = n - i
  <2> HIDE DEF members
  <2>1. ASSUME NEW i \in 1..n PROVE reverse[i].step_index = n - i
    <3>1. n + 1 - i \in 1..n
      BY <1>2
    <3>2. members[n + 1 - i].step_index = (n + 1 - i) - 1
      BY <1>3, <3>1
    <3> QED
      BY <1>2, <3>2
  <2> QED
    BY <2>1
<1> HIDE DEF members
<1>5. sortedMembers(members) = members
  BY <1>2, <1>3, SortedInOrder DEF members, MembersOf
<1>6. sortedMembers(reverse) = members
  <2>1. sortedMembers(reverse) = [k \in 1..n |-> reverse[n + 1 - k]]
    <3> HIDE DEF reverse
    <3> QED
      BY <1>2, <1>4, SortedReverse
  <2>2. \A k \in 1..n : reverse[n + 1 - k] = members[k]
    BY <1>2
  <2>3. members = [k \in 1..n |-> members[k]]
    BY DEF members, MembersOf
  <2> QED
    BY <2>1, <2>2, <2>3
<1>7. /\ m.declared_count = n /\ m.session_id = "session-1"
      /\ \/ m.members = members
         \/ m.members = reverse /\ m.terminal_receipt_digest = digest
      /\ m.terminal_receipt_digest \in {NULL, digest}
  <2> DEFINE m0 == ManifestOf(n)
  <2>1. /\ m0.declared_count = n /\ m0.session_id = "session-1"
        /\ m0.members = members /\ m0.terminal_receipt_digest = digest
        /\ DOMAIN m0 = {"session_id", "declared_count", "members", "set_root",
                        "terminal_receipt_digest"}
    BY DEF ManifestOf, members
  <2> HIDE DEF m0
  <2>2. m \in {m0, [m0 EXCEPT !.terminal_receipt_digest = NULL],
               [m0 EXCEPT !.members = reverse]}
    BY <1>1, <2>1 DEF m0
  <2> HIDE DEF reverse
  <2> QED
    BY <2>1, <2>2
<1>8. expectedTerminal(m) = digest
  <2>1. CASE m.terminal_receipt_digest = digest
    BY <1>2, <2>1 DEF expectedTerminal
  <2>2. CASE m.terminal_receipt_digest = NULL
    <3> DEFINE last == {i \in DOMAIN m.members : m.members[i].step_index = m.declared_count - 1}
    <3>1. m.members = members
      BY <1>2, <1>7, <2>2
    <3>2. last = {n}
      BY <1>2, <1>3, <1>7, <3>1
    <3>3. (CHOOSE i \in last : \A j \in last : i <= j) = n
      BY <1>2, <3>2
    <3> HIDE DEF last
    <3>4. expectedTerminal(m) = m.members[CHOOSE i \in last : \A j \in last : i <= j].receipt_digest
      BY <2>2, <3>2 DEF expectedTerminal, last
    <3> QED
      BY <1>3, <3>1, <3>3, <3>4
  <2> QED
    BY <1>7, <2>1, <2>2
<1> QED
  BY <1>3, <1>4, <1>5, <1>6, <1>7, <1>8 DEF members


\* Parsing keeps all a bundle has from exports.
LEMMA ParsedBundle ==
    ASSUME NEW b, FromExports(b)
    PROVE  /\ FromExports(parseBundle(b))
           /\ parseBundle(b).session_id = b.session_id
           /\ parseBundle(b).manifest = b.manifest
           /\ parseBundle(b).terminal_receipt = b.terminal_receipt
           /\ parseBundle(b).member_receipts = b.member_receipts
           /\ parseBundle(b).channel_provenance = NULL
  BY DEF parseBundle, FromExports, BundleFields

\* The members of a bundle whose hop is verified, and its terminal receipt when
\* it verifies, are the receipts captured there.
LEMMA GenuineMember ==
    ASSUME IInv, NEW b, FromExports(b), NEW options,
           NEW i \in DOMAIN captured, i \in 1..b.manifest.declared_count,
           i \in DOMAIN b.member_receipts,
           b.member_receipts[i] # NULL,
           verifyReceipt(b.member_receipts[i], options),
           sortedMembers(b.manifest.members)[i].receipt_digest
             \in {NULL, b.member_receipts[i].receipt_digest}
    PROVE  SameReceipt(b.member_receipts[i], captured[i].receipt)
<1>1. /\ b.manifest \in Manifests
      /\ KnownCopy(b.member_receipts[i])
  BY DEF FromExports
<1>2. sortedMembers(b.manifest.members)[i].receipt_digest = captured[i].receipt.receipt_digest
  <2> DEFINE n == b.manifest.declared_count
  <2>1. sortedMembers(b.manifest.members) = MembersOf(n)
    BY <1>1, ManifestOfPrefix
  <2>2. MembersOf(n)[i].receipt_digest = captured[i].receipt.receipt_digest
    BY DEF MembersOf
  <2> QED
    BY <2>1, <2>2
<1>3. b.member_receipts[i].receipt_digest = captured[i].receipt.receipt_digest
  BY <1>2, CapturedDigests
<1> QED
  BY <1>1, <1>3, VerifiedCopy

LEMMA TerminalDigest ==
    ASSUME IInv, NEW b, FromExports(b), NEW options, setCompletenessOk(b, options)
    PROVE  LET n == b.manifest.declared_count
           IN /\ n \in DOMAIN captured
              /\ b.terminal_receipt.receipt_digest = captured[n].receipt.receipt_digest
<1>1. b.manifest \in Manifests
  BY DEF FromExports
<1>2. terminalDigestMatches(b.manifest, b.terminal_receipt)
  BY DEF setCompletenessOk, verifySetCompletenessBundle
<1> QED
  BY <1>1, <1>2, ManifestOfPrefix, CapturedDigests DEF terminalDigestMatches

\* Any bundle of parts from exports that verifies is one untouched export.
LEMMA OkIsGenuine ==
    ASSUME IInv, NEW b, FromExports(b), NEW options, verifySessionProof(b, options).ok
    PROVE  LET n == b.manifest.declared_count
           IN /\ b.session_id = "session-1"
              /\ n \in DOMAIN captured
              /\ SameReceipt(b.terminal_receipt, captured[n].receipt)
              /\ Len(b.member_receipts) = n
              /\ \A i \in 1..n :
                   /\ b.member_receipts[i] # NULL
                   /\ SameReceipt(b.member_receipts[i], captured[i].receipt)
<1> DEFINE parsed == parseBundle(b)
           n == b.manifest.declared_count
           members == b.member_receipts
           m == b.manifest
           closure == sessionCompositionClosure(parsed, options)
<1>1. /\ FromExports(parsed)
      /\ parsed.session_id = b.session_id
      /\ parsed.manifest = m
      /\ parsed.terminal_receipt = b.terminal_receipt
      /\ parsed.member_receipts = members
  BY ParsedBundle
<1>2. /\ structuralProofComplete(parsed, options)
      /\ closure.closure_verdict # "digest_only_submission"
  BY DEF verifySessionProof
<1> HIDE DEF parsed
<1>3. /\ sessionIdAligned(parsed)
      /\ setCompletenessOk(parsed, options)
      /\ verifyReceipt(b.terminal_receipt, options)
      /\ memberReceiptsVerified(parsed, options)
  BY <1>1, <1>2 DEF structuralProofComplete
<1>4. /\ m \in Manifests
      /\ DOMAIN members = 1..Len(members) /\ Len(members) \in Nat
      /\ \A i \in DOMAIN members : members[i] # NULL => KnownCopy(members[i])
      /\ KnownCopy(b.terminal_receipt)
  BY DEF FromExports
<1>5. /\ n \in DOMAIN captured
      /\ m.session_id = "session-1"
      /\ DOMAIN sortedMembers(m.members) = 1..n
      /\ n \in Nat /\ n >= 1 /\ \A i \in 1..n : i \in DOMAIN captured
  BY <1>4, ManifestOfPrefix, CapturedDigests
<1>6. b.session_id = "session-1"
  BY <1>1, <1>3, <1>5 DEF sessionIdAligned
<1>7. SameReceipt(b.terminal_receipt, captured[n].receipt)
  <2>1. b.terminal_receipt.receipt_digest = captured[n].receipt.receipt_digest
    BY <1>1, <1>3, TerminalDigest
  <2> QED
    BY <1>3, <1>4, <1>5, <2>1, VerifiedCopy
<1>8. \A i \in 1..n : hasMemberAtHop(members, i - 1)
  <2>1. closure = buildSessionCompositionClosure(TRUE, m, members,
                    verifiedHops(parsed, options), sessionChainEnforcement(parsed, options),
                    buildSessionProofExportHints(m.declared_count, members),
                    IF parsed.channel_provenance = NULL THEN {} ELSE parsed.channel_provenance)
    BY <1>1, <1>3 DEF sessionCompositionClosure
  <2> DEFINE verified == verifiedHops(parsed, options)
             chain == sessionChainEnforcement(parsed, options)
             hints == buildSessionProofExportHints(m.declared_count, members)
             delegated == IF parsed.channel_provenance = NULL THEN {}
                          ELSE parsed.channel_provenance
  <2> HIDE DEF closure, verified, chain, hints, delegated
  <2>2. buildSessionCompositionClosure(TRUE, m, members, verified, chain, hints,
          delegated).closure_verdict # "digest_only_submission"
    BY <1>2, <2>1 DEF verified, chain, hints, delegated
  <2> QED
    BY <1>5, <2>2, BodiesThere
<1>9. members # <<>>
  <2>1. 1 \in 1..n
    BY <1>5
  <2>2. 1 - 1 + 1 \in DOMAIN members
    BY <1>8, <2>1 DEF hasMemberAtHop
  <2> QED
    BY <2>2
<1>10. verifyMemberReceipts(m, members, options)
  BY <1>1, <1>3, <1>9 DEF memberReceiptsVerified
<1>11. Len(members) = n
  BY <1>10 DEF verifyMemberReceipts
<1>12. ASSUME NEW i \in 1..n
       PROVE  members[i] # NULL /\ SameReceipt(members[i], captured[i].receipt)
  <2>1. DOMAIN members = 1..n
    BY <1>4, <1>11
  <2>2. /\ members[i] # NULL
        /\ verifyReceipt(members[i], options)
        /\ sortedMembers(m.members)[i].receipt_digest \in {NULL, members[i].receipt_digest}
    BY <1>5, <1>10, <2>1, VerifiedMembers
  <2> QED
    BY <1>5, <2>1, <2>2, GenuineMember
<1> QED
  BY <1>5, <1>6, <1>7, <1>11, <1>12

\* A bundle that verifies is, receipt by receipt and in order, one untouched
\* export of the session, whatever custody made of it.
THEOREM OkIsGenuineAlways == Spec => []OkBundleIsGenuine
<1>1. IInv => OkBundleIsGenuine
  BY OkIsGenuine DEF IInv, OkBundleIsGenuine
<1> QED
  BY <1>1, Invariance, PTL

-----------------------------------------------------------------------------
(* What is handed off *)

\* An allowed handoff: the body is not stale, and its closure is ready.
LEMMA AllowedHandoff ==
    ASSUME IInv, handoff # NULL, handoff.carrier_handoff_allowed
    PROVE  /\ envelope # NULL
           /\ envelope.composition_closure # NULL
           /\ ClosureFromExports(envelope.composition_closure)
           /\ envelope.composition_closure.carrier_review_ready
           /\ envelope.export_gate_policy.version >= release
<1> DEFINE stale == isCapExportEnvelopeStale(envelope, release)
           closure == envelope.composition_closure
           derived == evaluateClosureShipGate(closure)
<1>1. envelope # NULL /\ handoff = evaluateCapExportCarrierHandoff(envelope, release)
  BY DEF IInv, TypeOK
<1>2. handoffRefusalReason(envelope, release) = NULL
  BY <1>1 DEF evaluateCapExportCarrierHandoff
<1>3. \A reason \in CapExportCarrierHandoffRefusalReason : reason # NULL
  BY NullAssumption
<1>4. ~stale /\ closure # NULL /\ ~derived.blocked
  <2> HIDE DEF derived, closure, stale
  <2> DEFINE mismatch == /\ envelope.closure_ship_gate # NULL
                         /\ gatesMateriallyMismatch(envelope.closure_ship_gate, derived)
  <2>1. handoffRefusalReason(envelope, release) =
          CASE stale -> "stale_export_gate_policy"
            [] ~stale /\ closure = NULL -> "missing_composition_closure"
            [] ~stale /\ ~(~stale /\ closure = NULL) /\ mismatch
                 -> "closure_ship_gate_mismatch"
            [] /\ ~stale /\ ~(~stale /\ closure = NULL)
               /\ ~(~stale /\ ~(~stale /\ closure = NULL) /\ mismatch)
               /\ derived.blocked \/ ~derived.carrier_submission_ready -> "ship_gate_blocked"
            [] OTHER -> NULL
    BY DEF handoffRefusalReason, derived, closure, stale, mismatch
  <2> HIDE DEF mismatch
  <2> QED
    BY <1>2, <1>3, <2>1 DEF CapExportCarrierHandoffRefusalReason
<1>5. closure.carrier_review_ready
  BY <1>4 DEF evaluateClosureShipGate
<1>6. envelope.export_gate_policy.version >= release
  BY <1>4 DEF isCapExportEnvelopeStale, isCapExportGatePolicySupported
<1> QED
  BY <1>1, <1>4, <1>5, <1>6 DEF IInv

\* A closure that is there was built from what the bundle holds.
LEMMA ClosureOfBundle ==
    ASSUME NEW b, NEW options,
           verifySessionProof(b, options).composition_closure # NULL
    PROVE  LET parsed == parseBundle(b)
               closure == verifySessionProof(b, options).composition_closure
               verified == verifiedHops(parsed, options)
               members == parsed.member_receipts
           IN /\ closure.receipt_presence
                   = buildReceiptPresence(parsed.manifest, members, verified)
              /\ closure.closure_digest = computeClosureDigest(closure)
              /\ closure.carrier_review_ready
                   <=> closure.closure_verdict = "carrier_review_ready"
              /\ closure.closure_verdict = "carrier_review_ready" =>
                   /\ setCompletenessOk(parsed, options)
                   /\ UniformlyEnforced(sessionChainEnforcement(parsed, options))
                   /\ DOMAIN sortedMembers(parsed.manifest.members) # {}
                   /\ \A i \in DOMAIN sortedMembers(parsed.manifest.members) :
                        hasMemberAtHop(members, i - 1) /\ i - 1 \in verified
<1> DEFINE parsed == parseBundle(b)
           closure == verifySessionProof(b, options).composition_closure
           complete == setCompletenessOk(parsed, options)
           chain == sessionChainEnforcement(parsed, options)
           hints == buildSessionProofExportHints(parsed.manifest.declared_count,
                                                 parsed.member_receipts)
           delegated == IF parsed.channel_provenance = NULL THEN {}
                        ELSE parsed.channel_provenance
           verified == verifiedHops(parsed, options)
<1>1. closure = sessionCompositionClosure(parsed, options)
  BY DEF verifySessionProof
<1>2. closure = buildSessionCompositionClosure(complete, parsed.manifest,
                  parsed.member_receipts, verified, chain, hints, delegated)
  BY <1>1 DEF sessionCompositionClosure
<1> HIDE DEF closure, parsed, complete, chain, hints, delegated, verified
<1>3. /\ closure.receipt_presence
           = buildReceiptPresence(parsed.manifest, parsed.member_receipts, verified)
      /\ closure.closure_digest = computeClosureDigest(closure)
      /\ closure.carrier_review_ready <=> closure.closure_verdict = "carrier_review_ready"
  BY <1>2, ClosureShape
<1>4. closure.closure_verdict = "carrier_review_ready" =>
        /\ complete
        /\ UniformlyEnforced(chain)
        /\ DOMAIN sortedMembers(parsed.manifest.members) # {}
        /\ \A i \in DOMAIN sortedMembers(parsed.manifest.members) :
             hasMemberAtHop(parsed.member_receipts, i - 1) /\ i - 1 \in verified
  BY <1>2, ReadyClosure
<1> QED
  BY <1>3, <1>4 DEF closure, parsed, complete, chain, hints, delegated, verified


\* Equal digests: equal presence.
LEMMA ClosureDigestPresence ==
    ASSUME NEW c, NEW d, computeClosureDigest(c) = computeClosureDigest(d)
    PROVE  c.receipt_presence = d.receipt_presence
  BY DEF computeClosureDigest

\* An integrator that checks the closure against its own bundle hands off every
\* hop of the bundle, each with its receipt verified.
LEMMA CheckedIsCurrent ==
    ASSUME IInv, handoff # NULL, handoff.carrier_handoff_allowed, NEW options \in Options,
           verifySessionProof(bundle, options).composition_closure # NULL,
           verifySessionCompositionClosure(envelope.composition_closure,
             verifySessionProof(bundle, options).composition_closure)
    PROVE  LET presence == envelope.composition_closure.receipt_presence
           IN /\ Len(presence) = bundle.manifest.declared_count
              /\ \A i \in DOMAIN presence :
                   /\ bundle.member_receipts[i].receipt_digest = presence[i].receipt_digest
                   /\ verifyReceipt(bundle.member_receipts[i], options)
<1> DEFINE closure == envelope.composition_closure
           recomputed == verifySessionProof(bundle, options).composition_closure
           parsed == parseBundle(bundle)
           m == bundle.manifest
           members == bundle.member_receipts
           n == m.declared_count
           verified == verifiedHops(parsed, options)
           presence == closure.receipt_presence
<1>1. /\ closure # NULL /\ ClosureFromExports(closure) /\ closure.carrier_review_ready
      /\ envelope # NULL /\ bundle # NULL /\ FromExports(bundle)
  BY AllowedHandoff DEF IInv, TypeOK
<1>2. /\ parsed.manifest = m /\ parsed.member_receipts = members
      /\ m \in Manifests
      /\ DOMAIN members = 1..Len(members) /\ Len(members) \in Nat
  BY <1>1, ParsedBundle DEF FromExports
<1>3. PICK b : \E o \in Options : closure = verifySessionProof(b, o).composition_closure
  BY <1>1 DEF ClosureFromExports
<1>4. /\ closure.closure_digest = computeClosureDigest(closure)
      /\ closure.closure_verdict = "carrier_review_ready"
  BY <1>1, <1>3, ClosureOfBundle
<1>5. /\ recomputed.closure_digest = closure.closure_digest
      /\ recomputed.closure_verdict = "carrier_review_ready"
  BY <1>4 DEF verifySessionCompositionClosure
<1>6. /\ recomputed.receipt_presence = buildReceiptPresence(m, members, verified)
      /\ recomputed.closure_digest = computeClosureDigest(recomputed)
      /\ \A i \in DOMAIN sortedMembers(m.members) :
           hasMemberAtHop(members, i - 1) /\ i - 1 \in verified
  BY <1>2, <1>5, ClosureOfBundle
<1>7. presence = buildReceiptPresence(m, members, verified)
  BY <1>4, <1>5, <1>6, ClosureDigestPresence
<1>8. /\ n \in DOMAIN captured /\ n \in Nat /\ n >= 1
      /\ DOMAIN sortedMembers(m.members) = 1..n
      /\ sortedMembers(m.members) = MembersOf(n)
      /\ \A i \in 1..n : i \in DOMAIN captured
  BY <1>2, ManifestOfPrefix, CapturedDigests
<1> HIDE DEF closure, recomputed, parsed, verified, presence
<1>9. /\ DOMAIN presence = 1..n /\ Len(presence) = n
      /\ \A i \in 1..n : presence[i].receipt_digest = sortedMembers(m.members)[i].receipt_digest
  BY <1>7, <1>8 DEF buildReceiptPresence
<1>10. ASSUME NEW i \in 1..n
       PROVE  /\ members[i].receipt_digest = presence[i].receipt_digest
              /\ verifyReceipt(members[i], options)
  <2>1. /\ i \in DOMAIN members
        /\ i - 1 \in verified
    <3>1. hasMemberAtHop(members, i - 1) /\ i - 1 \in verified
      BY <1>6, <1>8
    <3>2. i - 1 + 1 = i
      BY <1>8
    <3> QED
      BY <3>1, <3>2 DEF hasMemberAtHop
  <2>2. i - 1 \in verifiedByHop(m, members, options)
    BY <1>2, <2>1 DEF verified, verifiedHops
  <2>3. /\ verifyReceipt(members[i], options)
        /\ sortedMembers(m.members)[i].receipt_digest \in {NULL, members[i].receipt_digest}
    <3>1. i \in 1..Len(members) /\ i \in DOMAIN sortedMembers(m.members)
      BY <1>2, <1>8, <2>1
    <3> QED
      BY <1>2, <2>2, <3>1, VerifiedHop
  <2>4. sortedMembers(m.members)[i].receipt_digest # NULL
    <3>1. MembersOf(n)[i].receipt_digest = captured[i].receipt.receipt_digest
      BY DEF MembersOf
    <3> QED
      BY <1>8, <3>1, CapturedDigests
  <2> QED
    BY <1>9, <2>3, <2>4
<1> QED
  BY <1>9, <1>10 DEF presence, closure

\* A handoff checked against the integrator's own bundle is not an earlier
\* export that the cache returned in its place.
THEOREM CheckedHandoffs == Spec => []CheckedHandoffIsCurrent
<1>1. IInv => CheckedHandoffIsCurrent
  BY CheckedIsCurrent DEF CheckedHandoffIsCurrent
<1> QED
  BY <1>1, Invariance, PTL

-----------------------------------------------------------------------------
(* What is handed off was enforced *)

\* A recorder from whose paths every step's hop can be told: it names the
\* entry or the absolute index, or its window holds whatever is captured.
\* The run cap_window shows what the others lead to.
NamesHops(rec) ==
    rec.window = 0 \/ rec.absolute \/ rec.hashes \/ rec.window >= MaxHops

\* The steps of a bundle that is complete are those the recorder wrote at the
\* last of its hops, or there are none.
LEMMA TerminalSteps ==
    ASSUME IInv, NEW b, FromExports(b), NEW options, options.requirePartialPathAlignment,
           setCompletenessOk(b, options)
    PROVE  LET n == b.manifest.declared_count
               path == b.terminal_receipt.partial_path
           IN /\ n \in DOMAIN captured
              /\ path # NULL =>
                   /\ recorder.window # 0
                   /\ path.partial_steps = WindowOf(recorder, "session-1", KindsTo(n))
              /\ recorder.window # 0 => path # NULL
<1> DEFINE n == b.manifest.declared_count
           o == captured[n].receipt
           c == b.terminal_receipt
<1>1. n \in DOMAIN captured /\ c.receipt_digest = o.receipt_digest
  BY TerminalDigest
<1>2. Copy(c, o)
  <2>1. PICK known \in KnownReceipts : Copy(c, known)
    BY DEF FromExports, KnownCopy
  <2>2. known.receipt_digest = o.receipt_digest
    BY <1>1, <2>1 DEF Copy, ReceiptFields
  <2> QED
    BY <1>1, <2>1, <2>2, KnownDigest
<1>3. /\ o.receipt_digest = computeReceiptDigest(o, "current")
      /\ o = ReceiptOf(recorder, "session-1", KindsTo(n))
      /\ o.partial_path = PathOf(recorder, "session-1", KindsTo(n))
  <2>1. o = ReceiptOf(recorder, "session-1", KindsTo(n))
    BY <1>1 DEF IInv, CapturedInv
  <2> QED
    BY <1>1, <2>1, CapturedDigests, ReceiptShape
<1>4. ASSUME c.partial_path # NULL
      PROVE  /\ recorder.window # 0
             /\ c.partial_path.partial_steps = WindowOf(recorder, "session-1", KindsTo(n))
  <2>1. /\ o.partial_path # NULL
        /\ c.partial_path.partial_path_hash = o.partial_path.partial_path_hash
    BY <1>2, <1>4 DEF Copy, PathFields
  <2>2. recorder.window # 0
    BY <1>3, <2>1 DEF PathOf
  <2>3. /\ o.partial_path.partial_steps = WindowOf(recorder, "session-1", KindsTo(n))
        /\ o.partial_path.partial_path_hash = PathPreimage(o.partial_path)
    BY <1>3, <2>2, PathShape
  <2>4. c.partial_path.partial_path_hash = PathPreimage(c.partial_path)
    BY <1>4 DEF setCompletenessOk, verifySetCompletenessBundle, partialPathStepAligned,
                verifyPartialPathCommitment
  <2>5. c.partial_path.partial_steps = o.partial_path.partial_steps
    BY <2>1, <2>3, <2>4 DEF PathPreimage
  <2> QED
    BY <2>2, <2>3, <2>5
<1>5. ASSUME recorder.window # 0, c.partial_path = NULL PROVE FALSE
  <2>1. KindsTo(n) \in Sessions /\ recorder \in Recorders
    BY <1>1, KindsToSession DEF IInv, TypeOK
  <2>2. o.partial_path # NULL
    BY <1>3, <1>5, <2>1, NullAssumption
  <2>3. verifyReceiptDigestMatch(c) # NULL
    BY DEF setCompletenessOk, verifySetCompletenessBundle, terminalDigestMatches
  <2>4. computeReceiptDigest(c, verifyReceiptDigestMatch(c)) = computeReceiptDigest(o, "current")
    <3>1. DOMAIN c = ReceiptFields
      BY <1>2 DEF Copy
    <3>2. computeReceiptDigest(c, verifyReceiptDigestMatch(c)) = c.receipt_digest
      BY <1>5, <2>3, <3>1, MatchedProfile
    <3> QED
      BY <1>1, <1>3, <3>2
  <2>5. "partial_path" \in receiptDigestKeysForProfile("current")
    BY DEF receiptDigestKeysForProfile, PILLARS
  <2> QED
    BY <1>5, <2>2, <2>4, <2>5, DigestInjective
<1> QED
  BY <1>1, <1>4, <1>5

\* Each step of a window resolves to the hop it was recorded at, and states
\* that hop's mode or none.
LEMMA ResolvedStep ==
    ASSUME IInv, NEW m \in Manifests, NamesHops(recorder), recorder.window # 0,
           NEW n, n = m.declared_count,
           NEW k \in DOMAIN WindowOf(recorder, "session-1", KindsTo(n))
    PROVE  LET step == WindowOf(recorder, "session-1", KindsTo(n))[k]
               hop == n - Min2(recorder.window, n) + k
           IN /\ hop \in 1..n
              /\ resolvePartialStepHopIndex(step, m.members) = hop - 1
              /\ step.enforcement_mode = IF captured[hop].kind.recorded
                                           THEN TrueMode(captured[hop].kind) ELSE NULL
<1> DEFINE kinds == KindsTo(n)
           w == Min2(recorder.window, n)
           hop == n - w + k
           step == WindowOf(recorder, "session-1", kinds)[k]
<1>1. /\ n \in DOMAIN captured /\ n \in Nat /\ n >= 1 /\ n <= MaxHops
      /\ \A i \in 1..n : i \in DOMAIN captured
      /\ Len(kinds) = n
      /\ recorder.window \in Nat /\ MaxHops \in Nat
      /\ recorder.absolute \in BOOLEAN /\ recorder.hashes \in BOOLEAN
  <2>1. n \in DOMAIN captured /\ recorder \in Recorders
    BY ManifestOfPrefix DEF IInv, TypeOK
  <2> QED
    BY <2>1, CapturedDigests, KindsToSession, CapExportAssumption DEF IInv, TypeOK
<1>2. w \in 1..n /\ (recorder.window >= n => w = n)
  BY <1>1 DEF Min2
<1>3. DOMAIN WindowOf(recorder, "session-1", kinds) = 1..w
  BY <1>1 DEF WindowOf
<1>4. hop \in 1..n /\ k \in 1..w
  BY <1>1, <1>2, <1>3
<1>5. kinds[hop] = captured[hop].kind
  BY <1>4 DEF KindsTo
<1>6. step = [StepOf("session-1", hop - 1, kinds[hop]) EXCEPT
                !.index = k - 1,
                !.step_index = IF recorder.absolute THEN @ ELSE NULL,
                !.entry_hash = IF recorder.hashes THEN @ ELSE NULL]
  BY <1>1, <1>3, <1>4 DEF WindowOf
<1> HIDE DEF kinds, w, hop, step
<1>7. /\ step.index = k - 1
      /\ step.step_index = IF recorder.absolute THEN hop - 1 ELSE NULL
      /\ step.entry_hash = IF recorder.hashes THEN EntryHash("session-1", hop - 1) ELSE NULL
      /\ step.enforcement_mode = IF captured[hop].kind.recorded
                                   THEN TrueMode(captured[hop].kind) ELSE NULL
  BY <1>5, <1>6 DEF StepOf
<1> DEFINE matches == {i \in DOMAIN m.members :
                         /\ step.entry_hash # NULL
                         /\ m.members[i].entry_hash = step.entry_hash}
<1>8. ASSUME recorder.hashes
      PROVE  /\ matches # {}
             /\ \A i \in matches : m.members[i].step_index = hop - 1
  <2>1. /\ DOMAIN m.members = 1..n
        /\ \/ m.members = MembersOf(n)
           \/ m.members = [i \in 1..n |-> MembersOf(n)[n + 1 - i]]
    BY ManifestOfPrefix
  <2>2. \A i \in 1..n : /\ MembersOf(n)[i].step_index = i - 1
                        /\ MembersOf(n)[i].entry_hash = EntryHash("session-1", i - 1)
    BY <1>1, CapturedDigests DEF MembersOf
  <2>3. \A i \in 1..n : m.members[i].entry_hash
                          = EntryHash("session-1", m.members[i].step_index)
                        /\ m.members[i].step_index \in Int
    <3> DEFINE members == MembersOf(n)
    <3>1. \A i \in 1..n : /\ members[i].entry_hash
                               = EntryHash("session-1", members[i].step_index)
                          /\ members[i].step_index \in Int
      BY <1>1, <2>2
    <3>2. \A i \in 1..n : n + 1 - i \in 1..n
      BY <1>1
    <3> HIDE DEF members
    <3>3. \A i \in 1..n : \E j \in 1..n : m.members[i] = members[j]
      BY <2>1, <3>2 DEF members
    <3> QED
      BY <3>1, <3>3
  <2>4. step.entry_hash = EntryHash("session-1", hop - 1)
    BY <1>7, <1>8
  <2>5. step.entry_hash # NULL
    <3>1. captured[hop].receipt \in SealedReceipts
      BY <1>1, <1>4, KindsToSession DEF IInv
    <3>2. captured[hop].receipt.entry_hash = step.entry_hash
      BY <1>1, <1>4, <2>4, CapturedDigests
    <3> QED
      BY <3>1, <3>2, NullAssumption
  <2>6. ASSUME NEW i \in matches PROVE m.members[i].step_index = hop - 1
    BY <2>1, <2>3, <2>4 DEF EntryHash
  <2>7. \E i \in 1..n : m.members[i].entry_hash = step.entry_hash
    <3>1. CASE m.members = MembersOf(n)
      BY <1>4, <2>2, <2>4, <3>1
    <3>2. CASE m.members = [i \in 1..n |-> MembersOf(n)[n + 1 - i]]
      <4>1. n + 1 - hop \in 1..n /\ n + 1 - (n + 1 - hop) = hop
        BY <1>1, <1>4
      <4>2. m.members[n + 1 - hop] = MembersOf(n)[hop]
        BY <3>2, <4>1
      <4> QED
        BY <1>4, <2>2, <2>4, <4>1, <4>2
    <3> QED
      BY <2>1, <3>1, <3>2
  <2> QED
    BY <2>1, <2>5, <2>6, <2>7
<1>9. resolvePartialStepHopIndex(step, m.members) = hop - 1
  <2>1. CASE recorder.absolute
    <3>1. hop - 1 # NULL
      BY <1>1, <1>4, NullAssumption
    <3> QED
      BY <1>7, <2>1, <3>1 DEF resolvePartialStepHopIndex
  <2>2. CASE ~recorder.absolute /\ recorder.hashes
    <3>1. \E i \in matches : \A j \in matches : i <= j
      <4>1. DOMAIN m.members = 1..n
        BY ManifestOfPrefix
      <4>2. matches \subseteq Nat
        BY <4>1
      <4>3. matches # {}
        BY <1>8, <2>2
      <4> HIDE DEF matches
      <4> QED
        BY <4>2, <4>3, LeastNatural
    <3>2. (CHOOSE i \in matches : \A j \in matches : i <= j) \in matches
      <4> HIDE DEF matches
      <4> QED
        BY <3>1
    <3>3. resolvePartialStepHopIndex(step, m.members)
            = m.members[CHOOSE i \in matches : \A j \in matches : i <= j].step_index
      BY <1>7, <1>8, <2>2 DEF resolvePartialStepHopIndex
    <3> HIDE DEF matches
    <3> QED
      BY <1>8, <2>2, <3>2, <3>3
  <2>3. CASE ~recorder.absolute /\ ~recorder.hashes
    <3>1. w = n
      BY <1>1, <1>2, <2>3 DEF NamesHops
    <3>2. hop = k
      BY <1>1, <1>3, <1>4, <3>1 DEF hop
    <3>3. step.step_index = NULL /\ step.entry_hash = NULL /\ step.index = hop - 1
      BY <1>7, <2>3, <3>2
    <3>4. matches = {}
      BY <3>3
    <3> QED
      BY <3>3 DEF resolvePartialStepHopIndex
  <2> QED
    BY <1>1, <2>1, <2>2, <2>3
<1> QED
  BY <1>4, <1>7, <1>9 DEF hop, step, w, kinds


\* A hop of a ready closure whose mode is under a digest was enforced.
LEMMA AttestedHop ==
    ASSUME IInv, NEW b, FromExports(b), NEW options, options.requirePartialPathAlignment,
           NamesHops(recorder),
           LET parsed == parseBundle(b)
           IN /\ setCompletenessOk(parsed, options)
              /\ UniformlyEnforced(sessionChainEnforcement(parsed, options)),
           NEW i \in 1..b.manifest.declared_count,
           i \in DOMAIN captured,
           hasMemberAtHop(b.member_receipts, i - 1),
           i - 1 \in verifiedHops(parseBundle(b), options),
           Attested(captured[i])
    PROVE  TrueMode(captured[i].kind) = "enforced"
<1> DEFINE parsed == parseBundle(b)
           m == b.manifest
           n == m.declared_count
           members == b.member_receipts
           path == b.terminal_receipt.partial_path
           steps == IF path = NULL THEN <<>> ELSE path.partial_steps
           window == WindowOf(recorder, "session-1", KindsTo(n))
           verified == verifiedByHop(m, members, options)
           at == stepsAtHop(steps, i - 1, m.members)
           kind == captured[i].kind
<1>1. /\ FromExports(parsed) /\ parsed.manifest = m /\ parsed.member_receipts = members
      /\ parsed.terminal_receipt = b.terminal_receipt
      /\ m \in Manifests
      /\ DOMAIN members = 1..Len(members) /\ Len(members) \in Nat
  BY ParsedBundle DEF FromExports
<1>2. /\ n \in DOMAIN captured /\ n \in Nat /\ n >= 1
      /\ Len(KindsTo(n)) = n /\ n <= MaxHops
      /\ recorder \in Recorders /\ recorder.window \in Nat
      /\ i \in DOMAIN sortedMembers(m.members)
  <2>1. n \in DOMAIN captured /\ DOMAIN sortedMembers(m.members) = 1..n /\ recorder \in Recorders
    BY <1>1, ManifestOfPrefix DEF IInv, TypeOK
  <2>2. n \in Nat /\ n >= 1
    BY <2>1, CapturedDigests
  <2>3. Len(KindsTo(n)) = n /\ n <= MaxHops
    <3>1. TypeOK /\ Len(KindsTo(n)) = n
      BY <2>1, KindsToSession DEF IInv
    <3>2. Len(captured) \in Nat /\ Len(captured) <= MaxHops
          /\ DOMAIN captured = 1..Len(captured)
      BY <3>1 DEF TypeOK
    <3> HIDE DEF n
    <3> QED
      BY <2>1, <3>1, <3>2, CapExportAssumption
  <2>4. recorder.window \in Nat
    BY <2>1, CapExportAssumption
  <2> QED
    BY <2>1, <2>2, <2>3, <2>4
<1>3. i \in Nat /\ i - 1 + 1 = i
  BY <1>2
<1>4. i \in DOMAIN members /\ i \in 1..Len(members) /\ i - 1 \in 0..(Len(members) - 1)
  BY <1>1, <1>3 DEF hasMemberAtHop
<1>5. members # <<>>
  BY <1>4
<1>6. i - 1 \in verified
  BY <1>1, <1>5 DEF verifiedHops
\* The steps the rollup reads.
<1>7. /\ path # NULL => recorder.window # 0 /\ steps = window
      /\ recorder.window # 0 => path # NULL
  <2> HIDE DEF parsed
  <2>1. /\ path # NULL => /\ recorder.window # 0 /\ path.partial_steps = window
        /\ recorder.window # 0 => path # NULL
    BY <1>1, TerminalSteps DEF parsed
  <2> QED
    BY <2>1
<1> HIDE DEF window
<1>8. \E k \in Nat : DOMAIN steps = 1..k
  <2>1. CASE path = NULL
    <3>1. DOMAIN steps = 1..0
      BY <2>1
    <3> QED
      BY <3>1
  <2>2. CASE path # NULL
    <3>1. DOMAIN window = 1..Min2(recorder.window, n)
      BY <1>2 DEF window, WindowOf
    <3>2. Min2(recorder.window, n) \in Nat
      BY <1>2 DEF Min2
    <3> QED
      BY <1>7, <2>2, <3>1, <3>2
  <2> QED
    BY <2>1, <2>2
<1>9. rollupChainEnforcement(members, steps, verified, m.members).uniformly_enforced
  <2>1. sessionChainEnforcement(parsed, options)
          = rollupChainEnforcement(members, steps, verifiedHops(parsed, options), m.members)
    BY <1>1, <1>5 DEF sessionChainEnforcement
  <2>2. verifiedHops(parsed, options) = verified
    BY <1>1, <1>5 DEF verifiedHops
  <2> QED
    BY <2>1, <2>2 DEF UniformlyEnforced
<1> HIDE DEF verified, steps
<1>10. \/ extractEnforcementFromReceipt(members[i]) = "enforced" /\ at = {}
       \/ \E k \in at : extractEnforcementFromPartialStep(steps[k]) = "enforced"
  <2>1. \/ extractEnforcementFromReceipt(members[(i - 1) + 1]) = "enforced" /\ at = {}
        \/ \E k \in at : extractEnforcementFromPartialStep(steps[k]) = "enforced"
    BY <1>1, <1>4, <1>6, <1>8, <1>9, UniformHops
  <2> QED
    BY <1>3, <2>1
\* A step that says enforced is this hop's.
<1>11. CASE \E k \in at : extractEnforcementFromPartialStep(steps[k]) = "enforced"
  <2>1. PICK k \in at : extractEnforcementFromPartialStep(steps[k]) = "enforced"
    BY <1>11
  <2>2. /\ path # NULL
        /\ k \in DOMAIN window /\ steps[k] = window[k] /\ recorder.window # 0
        /\ resolvePartialStepHopIndex(window[k], m.members) = i - 1
    BY <1>7, <2>1 DEF stepsAtHop, steps
  <2> DEFINE hop == n - Min2(recorder.window, n) + k
  <2>3. /\ hop \in 1..n
        /\ resolvePartialStepHopIndex(window[k], m.members) = hop - 1
        /\ window[k].enforcement_mode = IF captured[hop].kind.recorded
                                          THEN TrueMode(captured[hop].kind) ELSE NULL
    BY <1>1, <2>2, ResolvedStep DEF window
  <2>4. hop = i
    <3> HIDE DEF hop
    <3> QED
      BY <1>2, <1>3, <2>2, <2>3
  <2>5. window[k].enforcement_mode \in {NULL, TrueMode(kind)}
    <3> HIDE DEF hop
    <3> QED
      BY <2>3, <2>4
  <2>6. window[k].enforcement_mode = "enforced"
    BY <2>1, <2>2 DEF extractEnforcementFromPartialStep, ENFORCEMENT_MODES
  <2>7. NULL # "enforced"
    BY NullAssumption DEF ENFORCEMENT_MODES
  <2> QED
    BY <2>5, <2>6, <2>7
\* Without steps at this hop the receipt's own disclosure says it.
<1>12. CASE extractEnforcementFromReceipt(members[i]) = "enforced" /\ at = {}
  <2>1. SameReceipt(members[i], captured[i].receipt)
    <3>1. /\ members[i] # NULL
          /\ verifyReceipt(members[i], options)
          /\ sortedMembers(m.members)[i].receipt_digest \in {NULL, members[i].receipt_digest}
      BY <1>1, <1>2, <1>4, <1>6, VerifiedHop DEF verified
    <3> QED
      BY <1>4, <3>1, GenuineMember
  <2>2. CASE captured[i].receipt.proof_strength_disclosure_digest # NULL
    <3>1. members[i].governance = captured[i].receipt.governance
      BY <2>1, <2>2 DEF SameReceipt
    <3>2. /\ captured[i].receipt = ReceiptOf(recorder, "session-1", KindsTo(i))
          /\ KindsTo(i)[Len(KindsTo(i))] = kind
          /\ kind \in HopKinds
      BY KindsToSession DEF IInv, CapturedInv
    <3>3. /\ captured[i].receipt.governance # NULL
          /\ captured[i].receipt.governance \in {NULL, GovernanceOf(kind.context)}
      BY <2>2, <3>2, ReceiptShape
    <3>4. kind.context # NULL
      BY <3>2, NullAssumption
    <3>5. members[i].governance.enforcement_mode = DerivedEnforcementMode(kind.context)
      BY <3>1, <3>3, <3>4, DisclosureInjective
    <3>6. members[i].governance.enforcement_mode = "enforced"
      BY <1>12 DEF extractEnforcementFromReceipt
    <3> QED
      BY <3>5, <3>6 DEF TrueMode
  <2>3. CASE recorder.window >= MaxHops
    <3>1. recorder.window # 0 /\ recorder.window >= n /\ steps = window
      BY <1>2, <1>7, <2>3, CapExportAssumption
    <3>2. Min2(recorder.window, n) = n
      BY <1>2, <3>1 DEF Min2
    <3>3. i \in DOMAIN window
      BY <1>2, <3>2 DEF window, WindowOf
    <3> DEFINE hop == n - Min2(recorder.window, n) + i
    <3>4. resolvePartialStepHopIndex(window[i], m.members) = hop - 1
      BY <1>1, <3>1, <3>3, ResolvedStep DEF window
    <3>5. i \in at
      BY <1>2, <1>3, <3>1, <3>2, <3>3, <3>4 DEF stepsAtHop
    <3> QED
      BY <1>12, <3>5
  <2> QED
    BY <2>2, <2>3 DEF Attested
<1> QED
  BY <1>10, <1>11, <1>12

\* An allowed handoff lists this session's receipts in order, its attested
\* hops were enforced, and the body is not stale.
LEMMA HandoffIsSound ==
    ASSUME IInv, handoff # NULL, handoff.carrier_handoff_allowed,
           NamesHops(recorder),
           \A options \in Options : options.requirePartialPathAlignment
    PROVE  LET presence == envelope.composition_closure.receipt_presence
           IN /\ presence # <<>>
              /\ envelope.export_gate_policy.version >= release
              /\ \A i \in DOMAIN presence :
                   /\ i \in DOMAIN captured
                   /\ presence[i].receipt_digest = captured[i].receipt.receipt_digest
                   /\ Attested(captured[i]) => TrueMode(captured[i].kind) = "enforced"
<1> DEFINE closure == envelope.composition_closure
           presence == closure.receipt_presence
<1>1. /\ closure # NULL /\ ClosureFromExports(closure) /\ closure.carrier_review_ready
      /\ envelope.export_gate_policy.version >= release
  BY AllowedHandoff
<1>2. PICK b : \E o \in Options :
        FromExports(b) /\ closure = verifySessionProof(b, o).composition_closure
  BY <1>1 DEF ClosureFromExports
<1>3. PICK o \in Options :
        FromExports(b) /\ closure = verifySessionProof(b, o).composition_closure
  BY <1>2
<1> DEFINE parsed == parseBundle(b)
           m == b.manifest
           n == m.declared_count
           members == b.member_receipts
           verified == verifiedHops(parsed, o)
<1>4. /\ parsed.manifest = m /\ parsed.member_receipts = members
      /\ m \in Manifests
  BY <1>3, ParsedBundle DEF FromExports
<1>5. /\ presence = buildReceiptPresence(m, members, verified)
      /\ setCompletenessOk(parsed, o)
      /\ UniformlyEnforced(sessionChainEnforcement(parsed, o))
      /\ DOMAIN sortedMembers(m.members) # {}
      /\ \A i \in DOMAIN sortedMembers(m.members) :
           hasMemberAtHop(members, i - 1) /\ i - 1 \in verified
  BY <1>1, <1>3, <1>4, ClosureOfBundle
<1>6. /\ sortedMembers(m.members) = MembersOf(n)
      /\ DOMAIN sortedMembers(m.members) = 1..n
      /\ n \in DOMAIN captured
      /\ \A i \in 1..n : i \in DOMAIN captured
  BY <1>4, ManifestOfPrefix, CapturedDigests
<1> HIDE DEF presence, closure, verified
<1>7. /\ DOMAIN presence = 1..n
      /\ \A i \in 1..n : presence[i].receipt_digest = MembersOf(n)[i].receipt_digest
  BY <1>5, <1>6 DEF buildReceiptPresence
<1>8. presence # <<>>
  <2>1. DOMAIN presence # {}
    BY <1>5, <1>6, <1>7
  <2> QED
    BY <2>1
<1>9. ASSUME NEW i \in 1..n
      PROVE  /\ i \in DOMAIN captured
             /\ presence[i].receipt_digest = captured[i].receipt.receipt_digest
             /\ Attested(captured[i]) => TrueMode(captured[i].kind) = "enforced"
  <2>1. presence[i].receipt_digest = captured[i].receipt.receipt_digest
    BY <1>7 DEF MembersOf
  <2>2. hasMemberAtHop(members, i - 1) /\ i - 1 \in verified
    BY <1>5, <1>6
  <2>3. Attested(captured[i]) => TrueMode(captured[i].kind) = "enforced"
    BY <1>3, <1>5, <1>6, <2>2, AttestedHop DEF verified
  <2> QED
    BY <1>6, <2>1, <2>3
<1> QED
  BY <1>1, <1>7, <1>8, <1>9 DEF presence, closure

\* Whatever custody and the cache did to it, what is handed off is a list of
\* this session's receipts in order, whose attested hops were enforced, in a body
\* that is not older than the integrator's floor: for recorders from whose paths
\* every step's hop can be told, and verifiers that align the terminal path with
\* the manifest, which verifySessionProof does by default.
THEOREM HandoffsSound ==
    ASSUME \A rec \in Recorders : NamesHops(rec),
           \A options \in Options : options.requirePartialPathAlignment
    PROVE  Spec => []HandoffSound
<1>1. IInv => HandoffSound
  <2> SUFFICES ASSUME IInv, handoff # NULL, handoff.carrier_handoff_allowed
               PROVE  HandoffSound
    BY DEF HandoffSound
  <2>1. NamesHops(recorder)
    BY DEF IInv, TypeOK
  <2> QED
    BY <2>1, HandoffIsSound DEF HandoffSound
<1> QED
  BY <1>1, Invariance, PTL

-----------------------------------------------------------------------------
(* An untouched export of enforced hops is not refused *)

\* Without faults the bundle is an export, and the envelope its verdict.
UntouchedInv ==
    faults = 0 =>
      /\ bundle # NULL =>
           \E n \in DOMAIN captured, withMembers \in BOOLEAN, closure \in ConstraintClosures :
              bundle = BundleOf(n, withMembers, closure)
      /\ envelope # NULL =>
           \E options \in Options, serverRelease \in 1..MaxRelease :
              envelope = EnvelopeOf(verifySessionProof(bundle, options), serverRelease)

LEMMA UntouchedInvNext == IInv /\ UntouchedInv /\ [Next]_vars => UntouchedInv'
<1> SUFFICES ASSUME IInv, UntouchedInv, [Next]_vars, faults' = 0
             PROVE  UntouchedInv'
  BY DEF UntouchedInv
<1>1. faults \in Nat
  BY CapExportAssumption DEF IInv, TypeOK
<1>2. ASSUME UNCHANGED <<captured, bundle, envelope, faults>> PROVE UntouchedInv'
  BY <1>2 DEF UntouchedInv, BundleOf, ManifestOf, MembersOf, CustodianOf
<1>3. ASSUME NEW kind \in HopKinds, Capture(kind) PROVE UntouchedInv'
  <2>1. bundle' = NULL /\ envelope' = NULL
    BY <1>3 DEF Capture, IInv, TypeOK
  <2> QED
    BY <2>1 DEF UntouchedInv
<1>4. ASSUME NEW n \in DOMAIN captured, NEW withMembers \in BOOLEAN,
             NEW closure \in ConstraintClosures, Export(n, withMembers, closure)
      PROVE  UntouchedInv'
  <2>1. captured' = captured /\ envelope' = NULL
    BY <1>4 DEF Export, IInv, TypeOK
  <2>2. bundle' = BundleOf(n, withMembers, closure)'
    BY <1>4, <2>1 DEF Export, BundleOf, ManifestOf, MembersOf, CustodianOf
  <2> QED
    BY <2>1, <2>2 DEF UntouchedInv
<1>5. ASSUME CustodyFaults PROVE UntouchedInv'
  <2>1. PICK new : Fault(new)
    BY <1>5 DEF CustodyFaults, LoseMember, MixUpMember, SwapMembers, MislabelMember,
                MixUpTerminal, MislabelStep, MisplaceStep, MisplaceMemberStep,
                MixUpManifest, MixUpCustodian, MixUpSession
  <2> QED
    BY <1>1, <2>1 DEF Fault
<1>6. ASSUME NEW options \in Options, NEW serverRelease \in 1..MaxRelease,
             Publish(options, serverRelease)
      PROVE  UntouchedInv'
  <2>1. /\ bundle' = bundle /\ bundle # NULL /\ faults = 0 /\ captured' = captured
        /\ envelope' = EnvelopeOf(verifySessionProof(bundle', options), serverRelease)
    BY <1>6 DEF Publish
  <2>2. \E n \in DOMAIN captured', withMembers \in BOOLEAN, closure \in ConstraintClosures :
           bundle' = BundleOf(n, withMembers, closure)'
    BY <2>1 DEF UntouchedInv, BundleOf, ManifestOf, MembersOf, CustodianOf
  <2> QED
    BY <2>1, <2>2 DEF UntouchedInv
<1>7. ASSUME NEW options \in Options, CacheFaults(options) PROVE UntouchedInv'
  <2>1. PICK field, value : CacheFault(field, value)
    BY <1>7 DEF CacheFaults
  <2> QED
    BY <1>1, <2>1 DEF CacheFault
<1>8. ASSUME UpgradeRelease PROVE UntouchedInv'
  BY <1>2, <1>8 DEF UpgradeRelease
<1>9. ASSUME Handoff PROVE UntouchedInv'
  BY <1>2, <1>9 DEF Handoff
<1>10. ASSUME UNCHANGED vars PROVE UntouchedInv'
  BY <1>2, <1>10 DEF vars
<1> QED
  BY <1>3, <1>4, <1>5, <1>6, <1>7, <1>8, <1>9, <1>10 DEF Next

\* How long a window is.
LEMMA WindowShape ==
    ASSUME NEW rec, rec.window \in Nat, NEW session, NEW kinds, Len(kinds) \in Nat
    PROVE  /\ Min2(rec.window, Len(kinds)) \in Nat
           /\ Min2(rec.window, Len(kinds)) <= Len(kinds)
           /\ rec.window >= Len(kinds) => Min2(rec.window, Len(kinds)) = Len(kinds)
           /\ DOMAIN WindowOf(rec, session, kinds) = 1..Min2(rec.window, Len(kinds))
           /\ Len(WindowOf(rec, session, kinds)) = Min2(rec.window, Len(kinds))
<1> DEFINE w == Min2(rec.window, Len(kinds))
           window == WindowOf(rec, session, kinds)
<1>1. w \in Nat /\ w <= Len(kinds) /\ (rec.window >= Len(kinds) => w = Len(kinds))
  BY DEF Min2
<1>2. DOMAIN window = 1..w
  BY DEF WindowOf
<1>3. Len(window) = w
  <2> HIDE DEF w
  <2> QED
    BY <1>1, <1>2
<1> QED
  BY <1>1, <1>2, <1>3

\* A step of a recorder that names no absolute index.
LEMMA WindowStep ==
    ASSUME NEW rec, rec.window \in Nat, ~rec.absolute, NEW session, NEW kinds,
           Len(kinds) \in Nat,
           NEW k \in 1..Min2(rec.window, Len(kinds))
    PROVE  LET step == WindowOf(rec, session, kinds)[k]
               hop == Len(kinds) - Min2(rec.window, Len(kinds)) + k
           IN /\ hop \in 1..Len(kinds)
              /\ step.index = k - 1 /\ step.step_index = NULL
              /\ step.tool_name = "read_file" /\ step.path_hint = {}
              /\ step.entry_hash = IF rec.hashes THEN EntryHash(session, hop - 1) ELSE NULL
              /\ step.args_digest = ArgsDigest(session, hop - 1)
              /\ step.binding_digest = NULL
              /\ step.enforcement_mode = IF kinds[hop].recorded THEN TrueMode(kinds[hop])
                                         ELSE NULL
<1> DEFINE w == Min2(rec.window, Len(kinds))
           step == WindowOf(rec, session, kinds)[k]
           hop == Len(kinds) - w + k
<1>1. /\ w \in Nat /\ w <= Len(kinds)
      /\ step = [StepOf(session, hop - 1, kinds[hop]) EXCEPT
                   !.index = k - 1,
                   !.step_index = IF rec.absolute THEN @ ELSE NULL,
                   !.entry_hash = IF rec.hashes THEN @ ELSE NULL]
  <2>1. w \in Nat /\ w <= Len(kinds) /\ DOMAIN WindowOf(rec, session, kinds) = 1..w
    BY WindowShape
  <2> QED
    BY <2>1 DEF WindowOf
<1> HIDE DEF w
<1>2. hop \in 1..Len(kinds) /\ hop \in Int
  BY <1>1 DEF w
<1> HIDE DEF step, hop
<1>3. /\ step.index = k - 1 /\ step.step_index = NULL
      /\ step.tool_name = "read_file" /\ step.path_hint = {}
      /\ step.entry_hash = IF rec.hashes THEN EntryHash(session, hop - 1) ELSE NULL
      /\ step.args_digest = ArgsDigest(session, hop - 1)
      /\ step.binding_digest = NULL
      /\ step.enforcement_mode = IF kinds[hop].recorded THEN TrueMode(kinds[hop])
                                 ELSE NULL
  BY <1>1 DEF StepOf
<1> QED
  BY <1>2, <1>3 DEF step, hop, w

\* A step of a window is a record, whole as its fields are.
LEMMA WindowRecord ==
    ASSUME NEW rec, rec.window \in Nat, NEW session, NEW kinds, Len(kinds) \in Nat,
           NEW k \in DOMAIN WindowOf(rec, session, kinds)
    PROVE  LET step == WindowOf(rec, session, kinds)[k]
           IN step = [f \in DOMAIN step |-> step[f]]
<1> DEFINE w == Min2(rec.window, Len(kinds))
           step == WindowOf(rec, session, kinds)[k]
           hop == Len(kinds) - w + k
           whole == StepOf(session, hop - 1, kinds[hop])
<1>1. w \in Nat /\ w <= Len(kinds) /\ k \in 1..w
  BY WindowShape
<1>2. step = [whole EXCEPT !.index = k - 1,
                           !.step_index = IF rec.absolute THEN @ ELSE NULL,
                           !.entry_hash = IF rec.hashes THEN @ ELSE NULL]
  BY <1>1 DEF WindowOf
<1> HIDE DEF step, whole
<1>3. step = [f \in DOMAIN step |-> step[f]]
  BY <1>2
<1> QED
  BY <1>3 DEF step

\* A path without absolute indices is the same as parsed.
LEMMA PathAsParsed ==
    ASSUME NEW rec, rec.window \in Nat, rec.window # 0, ~rec.absolute, NEW session,
           NEW kinds, Len(kinds) \in Nat, PathOf(rec, session, kinds) # NULL
    PROVE  /\ verifyPartialPathCommitment(PathOf(rec, session, kinds))
           /\ parsedPath(PathOf(rec, session, kinds)) = PathOf(rec, session, kinds)
<1> DEFINE path == PathOf(rec, session, kinds)
           window == WindowOf(rec, session, kinds)
           stripped == [k \in DOMAIN window |-> [window[k] EXCEPT !.step_index = NULL]]
<1>1. /\ path = [f \in PathFields |-> path[f]]
      /\ path.partial_steps = window
      /\ path.partial_path_hash = PathPreimage(path)
  BY PathShape
<1>2. window = [k \in DOMAIN window |-> window[k]]
  BY DEF WindowOf
<1>3. ASSUME NEW k \in DOMAIN window
      PROVE  [window[k] EXCEPT !.step_index = NULL] = window[k]
  <2>1. k \in 1..Min2(rec.window, Len(kinds))
    BY WindowShape
  <2>2. WindowOf(rec, session, kinds)[k].step_index = NULL
    BY <2>1, WindowStep
  <2>3. window[k] = [f \in DOMAIN window[k] |-> window[k][f]]
    BY WindowRecord
  <2> HIDE DEF window
  <2> QED
    BY <2>2, <2>3 DEF window
<1> HIDE DEF path, window
<1>4. stripped = window
  BY <1>2, <1>3
<1>5. parsedPath(path) = [path EXCEPT !.partial_steps = stripped]
  BY <1>1 DEF parsedPath, path
<1>6. [path EXCEPT !.partial_steps = window] = path
  BY <1>1 DEF PathFields
<1>7. parsedPath(path) = path
  BY <1>4, <1>5, <1>6
<1>8. verifyPartialPathCommitment(path)
  BY <1>1 DEF verifyPartialPathCommitment, path
<1> QED
  BY <1>7, <1>8 DEF path

\* What a recorder without absolute indices sealed verifies.
LEMMA HopVerifies ==
    ASSUME IInv, ~recorder.absolute, NEW i \in DOMAIN captured,
           NEW options, options.issuerPublicKey
    PROVE  verifyReceipt(captured[i].receipt, options)
<1> DEFINE kinds == KindsTo(i)
           draft == DraftOf(recorder, "session-1", kinds)
           path == PathOf(recorder, "session-1", kinds)
<1>1. /\ captured[i].receipt = SealReceipt(draft, "current")
      /\ Len(kinds) \in Nat /\ recorder.window \in Nat
      /\ captured[i].receipt.signature # NULL
  BY KindsToSession, CapturedDigests, CapExportAssumption
     DEF IInv, TypeOK, CapturedInv, ReceiptOf
<1>2. draft.partial_path # NULL => verifyPartialPathCommitment(parsedPath(draft.partial_path))
  <2>1. draft.partial_path = path
    BY DraftShape
  <2>2. path # NULL => recorder.window # 0
    BY DEF PathOf
  <2> QED
    BY <1>1, <2>1, <2>2, PathAsParsed
<1>3. /\ draft = [f \in ReceiptFields |-> draft[f]]
      /\ draft.schema = "liability-receipt/v1" /\ draft.release = PermittedRelease
      /\ draft.privacy = NULL
      /\ draft.intent_context = NULL /\ draft.intent_alignment = NULL
      /\ draft.signature_alg = "RS256"
      /\ draft.proof_strength_disclosure_digest # NULL =>
           /\ verifyProofStrengthDisclosure(draft.governance)
           /\ draft.proof_strength_disclosure_digest = draft.governance.disclosure_digest
  BY DraftShape
<1> HIDE DEF draft, kinds
<1>4. DOMAIN draft = ReceiptFields
  BY <1>3
<1>5. /\ parseSucceeds(draft) /\ shreddingCertified(draft)
      /\ releaseAccounted(draft.release)
  BY <1>3 DEF parseSucceeds, SCHEMAS, shreddingCertified, releaseAccounted, PermittedRelease
<1>6. Sealable(draft)
  BY <1>2, <1>3, <1>4, <1>5 DEF Sealable, verifyProofStrengthDisclosureReceiptBinding
<1>7. verifyReceipt(SealReceipt(draft, "current"), options)
  <2>1. SealReceipt(draft, "current") \in SealedForms(draft, "current")
    BY DEF SealedForms
  <2>2. NULL # "current"
    BY NullAssumption DEF ReceiptDigestProfile
  <2> QED
    BY <1>1, <1>6, <2>1, <2>2, SealedVerifies
<1> QED
  BY <1>1, <1>7

\* What the carrier asks of a hop: enforced, recorded and disclosed.
GoodKind(kind) ==
    /\ TrueMode(kind) = "enforced" /\ kind.recorded
    /\ kind.disclosure # "none"
    /\ verifyProofStrengthDisclosure(GovernanceOf(kind.context))

\* The receipt of such a hop discloses that it was enforced.
LEMMA GoodReceipt ==
    ASSUME IInv, NEW i \in DOMAIN captured, GoodKind(captured[i].kind)
    PROVE  extractEnforcementFromReceipt(captured[i].receipt) = "enforced"
<1> DEFINE r == captured[i].receipt
           kind == captured[i].kind
<1>1. /\ r = ReceiptOf(recorder, "session-1", KindsTo(i))
      /\ KindsTo(i)[Len(KindsTo(i))] = kind
      /\ kind \in HopKinds /\ r # NULL
  BY KindsToSession, CapturedDigests DEF IInv, CapturedInv
<1>2. r.governance = GovernanceOf(kind.context)
  BY <1>1, ReceiptShape DEF GoodKind
<1>3. GovernanceOf(kind.context).enforcement_mode = "enforced"
  BY <1>1, NullAssumption, DisclosureInjective DEF GoodKind, TrueMode
<1> QED
  BY <1>1, <1>2, <1>3 DEF extractEnforcementFromReceipt, GoodKind

\* An export of the first n hops with their receipts, as verified.
Receipts(n) == [i \in 1..n |-> captured[i].receipt]

LEMMA ExportShape ==
    ASSUME IInv, NEW n \in DOMAIN captured, NEW constraintClosure
    PROVE  LET e == parseBundle(BundleOf(n, TRUE, constraintClosure))
           IN /\ e.session_id = "session-1" /\ e.manifest = ManifestOf(n)
              /\ e.terminal_receipt = captured[n].receipt
              /\ e.member_receipts = Receipts(n) /\ e.policy_proof = NULL
              /\ e.manifest_custodian = CustodianOf(n)
              /\ e.constraint_closure = NULL /\ e.channel_provenance = NULL
              /\ Len(Receipts(n)) = n /\ Receipts(n) # <<>>
<1>1. n \in Nat /\ n >= 1
  BY CapturedDigests
<1>2. Len(Receipts(n)) = n /\ Receipts(n) # <<>>
  <2>1. DOMAIN Receipts(n) = 1..n
    BY DEF Receipts
  <2> QED
    BY <1>1, <2>1
<1> QED
  BY <1>2 DEF parseBundle, BundleOf, Receipts

LEMMA ExportManifest ==
    ASSUME IInv, NEW n \in DOMAIN captured
    PROVE  LET m == ManifestOf(n)
           IN /\ m.session_id = "session-1" /\ m.declared_count = n
              /\ m.members = MembersOf(n) /\ sortedMembers(m.members) = MembersOf(n)
              /\ m.set_root = computeSetCompletenessRoot("session-1", n, MembersOf(n))
              /\ expectedTerminal(m) = captured[n].receipt.receipt_digest
              /\ DOMAIN MembersOf(n) = 1..n /\ Len(MembersOf(n)) = n
<1>1. n \in Nat
  BY CapturedDigests
<1>2. ManifestOf(n) \in Manifests
  BY DEF Manifests
<1>3. /\ ManifestOf(n).session_id = "session-1" /\ ManifestOf(n).declared_count = n
      /\ ManifestOf(n).members = MembersOf(n)
      /\ ManifestOf(n).set_root = computeSetCompletenessRoot("session-1", n, MembersOf(n))
  BY DEF ManifestOf
<1>4. DOMAIN MembersOf(n) = 1..n
  BY DEF MembersOf
<1>5. Len(MembersOf(n)) = n
  BY <1>1, <1>4
<1> QED
  BY <1>2, <1>3, <1>4, <1>5, ManifestOfPrefix

\* The manifest is complete, and the terminal receipt the one it ends with.
LEMMA ExportComplete ==
    ASSUME IInv, NEW n \in DOMAIN captured, NEW e, NEW options,
           e.manifest = ManifestOf(n), e.terminal_receipt = captured[n].receipt
    PROVE  setCompletenessOk(e, options) = TRUE
<1> DEFINE m == ManifestOf(n)
           r == captured[n].receipt
           path == PathOf(recorder, "session-1", KindsTo(n))
<1>1. /\ n \in Nat /\ n >= 1 /\ Len(KindsTo(n)) = n
      /\ r = ReceiptOf(recorder, "session-1", KindsTo(n))
  BY CapturedDigests, KindsToSession DEF IInv, CapturedInv
<1>2. checkContiguousSteps(m.members, m.declared_count)
  <2>1. \A i \in 1..n : MembersOf(n)[i].step_index = i - 1
    BY DEF MembersOf
  <2>2. {MembersOf(n)[i].step_index : i \in 1..n} = 0..(n - 1)
    <3>1. \A h \in 0..(n - 1) : h + 1 \in 1..n /\ h = (h + 1) - 1
      BY <1>1
    <3> QED
      BY <1>1, <2>1, <3>1
  <2> QED
    BY <2>2, ExportManifest DEF checkContiguousSteps
<1>3. terminalDigestMatches(m, r)
  <2>1. NULL # "current"
    BY NullAssumption DEF ReceiptDigestProfile
  <2> QED
    BY <1>1, <2>1, ExportManifest, ReceiptShape DEF terminalDigestMatches
<1>4. partialPathStepAligned(m, r)
  <2>1. r.partial_path = path
    BY <1>1, ReceiptShape
  <2>2. path # NULL => recorder.window # 0
    BY DEF PathOf
  <2>3. path # NULL => /\ path.step_index = n - 1
                       /\ path.partial_path_hash = PathPreimage(path)
    BY <1>1, <2>2, PathShape
  <2> QED
    BY <1>1, <2>1, <2>3, ExportManifest DEF partialPathStepAligned, verifyPartialPathCommitment
<1> QED
  BY <1>1, <1>2, <1>3, <1>4, ExportManifest DEF setCompletenessOk, verifySetCompletenessBundle

\* Every hop's receipt counts as verified.
LEMMA ExportVerified ==
    ASSUME IInv, ~recorder.absolute, NEW n \in DOMAIN captured,
           NEW options, options.issuerPublicKey
    PROVE  /\ verifyMemberReceipts(ManifestOf(n), Receipts(n), options)
           /\ \A i \in 1..n : i - 1 \in verifiedByHop(ManifestOf(n), Receipts(n), options)
<1> DEFINE sorted == sortedMembers(ManifestOf(n).members)
           expected(i) == IF i \in DOMAIN sorted THEN sorted[i].receipt_digest ELSE NULL
           members == Receipts(n)
           ok == {j \in DOMAIN members :
                    /\ members[j] # NULL
                    /\ verifyReceipt(members[j], options)
                    /\ expected(j) \in {NULL, members[j].receipt_digest}}
<1>1. /\ n \in Nat /\ \A i \in 1..n : i \in DOMAIN captured
      /\ Len(members) = n /\ ManifestOf(n).declared_count = n
      /\ DOMAIN members = 1..n
      /\ sorted = MembersOf(n)
  BY CapturedDigests, ExportManifest, ExportShape DEF Receipts
<1>2. ASSUME NEW i \in 1..n PROVE i \in ok
  <2>1. members[i] = captured[i].receipt /\ i \in DOMAIN captured
    BY <1>1 DEF Receipts
  <2>2. captured[i].receipt # NULL /\ verifyReceipt(captured[i].receipt, options)
    BY <2>1, CapturedDigests, HopVerifies
  <2>3. sorted[i].receipt_digest = captured[i].receipt.receipt_digest /\ i \in DOMAIN sorted
    BY <1>1 DEF MembersOf
  <2> HIDE DEF sorted
  <2> QED
    BY <1>1, <2>1, <2>2, <2>3
<1>3. verifiedByHop(ManifestOf(n), members, options) = {i - 1 : i \in ok}
  BY <1>1 DEF verifiedByHop
<1>4. ok = DOMAIN members
  <2> HIDE DEF members
  <2> QED
    BY <1>1, <1>2
<1> HIDE DEF ok, members
<1> QED
  BY <1>1, <1>3, <1>4 DEF verifyMemberReceipts, members

\* On hops that were enforced, recorded and disclosed, the rollup says so.
LEMMA ExportChain ==
    ASSUME NullIsNoRecord, IInv, ~recorder.absolute, NEW n \in DOMAIN captured,
           NEW e, NEW options, \A i \in 1..n : GoodKind(captured[i].kind),
           e.manifest = ManifestOf(n), e.terminal_receipt = captured[n].receipt,
           e.member_receipts = Receipts(n), Receipts(n) # <<>>
    PROVE  LET chain == sessionChainEnforcement(e, options)
           IN chain # NULL /\ ChainMode(chain) = "enforced" /\ UniformlyEnforced(chain)
<1> DEFINE kinds == KindsTo(n)
           path == captured[n].receipt.partial_path
           steps == IF path = NULL THEN <<>> ELSE path.partial_steps
           window == WindowOf(recorder, "session-1", kinds)
           w == Min2(recorder.window, Len(kinds))
           chain == sessionChainEnforcement(e, options)
<1>1. /\ n \in Nat /\ n >= 1 /\ \A i \in 1..n : i \in DOMAIN captured
      /\ Len(kinds) = n /\ recorder.window \in Nat
      /\ path = PathOf(recorder, "session-1", kinds)
  BY CapturedDigests, KindsToSession, ReceiptShape, CapExportAssumption
     DEF IInv, TypeOK, CapturedInv
<1>2. /\ DOMAIN Receipts(n) = 1..n
      /\ \A i \in 1..n : extractEnforcementFromReceipt(Receipts(n)[i]) = "enforced"
  BY <1>1, GoodReceipt DEF Receipts
<1>3. path # NULL => steps = window
  <2>1. path # NULL => recorder.window # 0
    BY <1>1 DEF PathOf
  <2> QED
    BY <1>1, <2>1, PathShape
<1>4. w \in Nat /\ w <= n /\ DOMAIN window = 1..w
  BY <1>1, WindowShape
<1>5. ASSUME NEW k \in 1..w
      PROVE  extractEnforcementFromPartialStep(window[k]) = "enforced"
  <2> DEFINE hop == Len(kinds) - w + k
  <2>1. hop \in 1..n /\ window[k].enforcement_mode
                           = IF kinds[hop].recorded THEN TrueMode(kinds[hop]) ELSE NULL
    BY <1>1, WindowStep
  <2>2. kinds[hop] = captured[hop].kind /\ GoodKind(captured[hop].kind)
    <3> HIDE DEF hop
    <3> QED
      BY <2>1 DEF KindsTo
  <2>3. window[k].enforcement_mode = "enforced"
    <3> HIDE DEF hop, window
    <3> QED
      BY <2>1, <2>2 DEF GoodKind
  <2> HIDE DEF window
  <2> QED
    BY <2>3 DEF extractEnforcementFromPartialStep, ENFORCEMENT_MODES
<1>6. \E m \in Nat : /\ DOMAIN steps = 1..m
                     /\ \A k \in 1..m :
                          extractEnforcementFromPartialStep(steps[k]) = "enforced"
  <2>1. CASE path = NULL
    <3>1. DOMAIN steps = 1..0 /\ 0 \in Nat
      BY <2>1
    <3>2. \A k \in 1..0 : extractEnforcementFromPartialStep(steps[k]) = "enforced"
      OBVIOUS
    <3> HIDE DEF steps
    <3> QED
      BY <3>1, <3>2
  <2>2. CASE path # NULL
    <3> HIDE DEF window, steps, w
    <3> QED
      BY <1>3, <1>4, <1>5, <2>2
  <2> QED
    BY <2>1, <2>2
<1>7. chain = rollupChainEnforcement(Receipts(n), steps, verifiedHops(e, options),
                                     e.manifest.members)
  BY DEF sessionChainEnforcement
<1> HIDE DEF steps, chain
<1>8. chain.uniformly_enforced /\ chain.chain_enforcement_mode = "enforced"
  BY <1>1, <1>2, <1>6, <1>7, EnforcedChain
<1>9. chain # NULL
  <2>1. chain = [f \in DOMAIN chain |-> chain[f]]
    BY <1>7 DEF rollupChainEnforcement
  <2> QED
    BY <2>1 DEF NullIsNoRecord
<1> QED
  BY <1>8, <1>9 DEF chain, ChainMode, UniformlyEnforced

\* An export of such hops is ready for a carrier, and its gate is open.
LEMMA ExportReady ==
    ASSUME NullIsNoRecord, IInv, ~recorder.absolute, NEW n \in DOMAIN captured,
           NEW constraintClosure, NEW options, options.issuerPublicKey,
           \A i \in 1..n : GoodKind(captured[i].kind)
    PROVE  LET verdict == verifySessionProof(BundleOf(n, TRUE, constraintClosure), options)
               gate == verdict.closure_ship_gate
           IN /\ verdict.composition_closure # NULL
              /\ verdict.composition_closure.closure_verdict = "carrier_review_ready"
              /\ gate = evaluateClosureShipGate(verdict.composition_closure)
              /\ gate.carrier_submission_ready /\ ~gate.blocked
<1> DEFINE e == parseBundle(BundleOf(n, TRUE, constraintClosure))
           chain == sessionChainEnforcement(e, options)
           m == ManifestOf(n)
           verified == verifiedHops(e, options)
           hints == buildSessionProofExportHints(n, Receipts(n))
           closure == sessionCompositionClosure(e, options)
<1>1. /\ e.session_id = "session-1" /\ e.manifest = m
      /\ e.terminal_receipt = captured[n].receipt
      /\ e.member_receipts = Receipts(n) /\ e.channel_provenance = NULL
      /\ Len(Receipts(n)) = n /\ Receipts(n) # <<>>
  BY ExportShape
<1>2. /\ m.declared_count = n /\ sortedMembers(m.members) = MembersOf(n)
      /\ DOMAIN MembersOf(n) = 1..n /\ n \in Nat /\ n >= 1
      /\ \A i \in 1..n : i \in DOMAIN captured
  BY ExportManifest, CapturedDigests
<1> HIDE DEF e, m
<1>3. setCompletenessOk(e, options) = TRUE
  BY <1>1, ExportComplete DEF m
<1>4. verified = verifiedByHop(m, Receipts(n), options)
  BY <1>1 DEF verifiedHops
<1>5. \A i \in 1..n : hasMemberAtHop(Receipts(n), i - 1) /\ i - 1 \in verified
  <2>1. \A i \in 1..n : i - 1 \in verified
    BY <1>4, ExportVerified DEF m
  <2>2. ASSUME NEW i \in 1..n PROVE hasMemberAtHop(Receipts(n), i - 1)
    <3>1. i - 1 + 1 = i /\ Receipts(n)[i] = captured[i].receipt /\ i \in DOMAIN Receipts(n)
      BY <1>2 DEF Receipts
    <3>2. captured[i].receipt # NULL
      BY <1>2, CapturedDigests
    <3> QED
      BY <3>1, <3>2 DEF hasMemberAtHop
  <2> QED
    BY <2>1, <2>2
<1>6. chain # NULL /\ ChainMode(chain) = "enforced" /\ UniformlyEnforced(chain)
  BY <1>1, ExportChain DEF m
<1>7. ~hints.require_member_receipt_verification
  BY <1>1, <1>2 DEF buildSessionProofExportHints
<1>8. closure = buildSessionCompositionClosure(TRUE, m, Receipts(n), verified, chain, hints, {})
  BY <1>1, <1>2, <1>3, <1>6 DEF sessionCompositionClosure
<1>9. /\ closure # NULL
      /\ closure.closure_verdict = "carrier_review_ready"
      /\ evaluateClosureShipGate(closure).carrier_submission_ready
      /\ ~evaluateClosureShipGate(closure).blocked
  <2> HIDE DEF chain, verified, hints, closure
  <2>1. DOMAIN sortedMembers(m.members) # {}
    BY <1>2
  <2> QED
    BY <1>2, <1>5, <1>6, <1>7, <1>8, <2>1, OpenGate
<1> QED
  BY <1>9 DEF verifySessionProof, e

\* The terminal path of an export whose recorder's window holds every hop.
LEMMA ExportPath ==
    ASSUME IInv, ~recorder.absolute, NEW n \in DOMAIN captured, recorder.window >= n
    PROVE  LET path == captured[n].receipt.partial_path
           IN /\ path # NULL
              /\ verifyPartialPathCommitment(path)
              /\ DOMAIN path.partial_steps = 1..n /\ Len(path.partial_steps) = n
              /\ \A k \in 1..n :
                   LET step == path.partial_steps[k]
                   IN /\ step.entry_hash \in {NULL, EntryHash("session-1", k - 1)}
                      /\ step.args_digest = ArgsDigest("session-1", k - 1)
              /\ capabilityBudgetValid(path) /\ capabilityMonotonic(path)
              /\ permitExecutionValid(path)
<1> DEFINE kinds == KindsTo(n)
           path == captured[n].receipt.partial_path
           window == WindowOf(recorder, "session-1", kinds)
<1>1. /\ n \in Nat /\ n >= 1 /\ Len(kinds) = n /\ kinds \in Sessions
      /\ recorder \in Recorders /\ recorder.window \in Nat /\ recorder.window # 0
      /\ captured[n].receipt = ReceiptOf(recorder, "session-1", kinds)
      /\ path = PathOf(recorder, "session-1", kinds)
  BY CapturedDigests, KindsToSession, ReceiptShape, CapExportAssumption
     DEF IInv, TypeOK, CapturedInv
<1>2. path # NULL
  BY <1>1, NullAssumption
<1>3. /\ path.partial_steps = window
      /\ verifyPartialPathCommitment(path)
  BY <1>1, <1>2, PathShape DEF verifyPartialPathCommitment
<1>4. DOMAIN window = 1..n /\ Len(window) = n /\ Min2(recorder.window, Len(kinds)) = n
  BY <1>1, WindowShape
<1>5. ASSUME NEW k \in 1..n
      PROVE  /\ window[k].entry_hash \in {NULL, EntryHash("session-1", k - 1)}
             /\ window[k].args_digest = ArgsDigest("session-1", k - 1)
             /\ window[k].index = k - 1
  <2> DEFINE hop == Len(kinds) - Min2(recorder.window, Len(kinds)) + k
  <2>1. /\ window[k].entry_hash = IF recorder.hashes THEN EntryHash("session-1", hop - 1)
                                  ELSE NULL
        /\ window[k].args_digest = ArgsDigest("session-1", hop - 1)
        /\ window[k].index = k - 1
    <3>1. k \in 1..Min2(recorder.window, Len(kinds)) /\ Len(kinds) \in Nat
      BY <1>1, <1>4
    <3> HIDE DEF kinds, path
    <3> QED
      BY <1>1, <3>1, WindowStep
  <2>2. hop = k
    BY <1>1, <1>4
  <2> HIDE DEF hop, window
  <2> QED
    BY <2>1, <2>2
<1>6. /\ path.capability_budget
           = buildCapabilityBudgetCommitment(deriveCapabilityBudgetFromSteps(window).budget,
                                             deriveCapabilityBudgetFromSteps(window).taintClass)
      /\ path.permit_execution = buildPermitExecutionCommitment(window)
  <2> HIDE DEF kinds
  <2> QED
    BY <1>1 DEF PathOf, window
<1> HIDE DEF window, path
<1>7. capabilityBudgetValid(path)
  BY <1>6 DEF capabilityBudgetValid, verifyCapabilityBudgetCommitment,
              buildCapabilityBudgetCommitment
<1>8. capabilityMonotonic(path)
  BY <1>1, <1>3, <1>4, BudgetMonotonic DEF capabilityMonotonic
<1>9. permitExecutionValid(path)
  <2> DEFINE block == path.permit_execution
  <2>1. /\ block.step_bindings = stepBindings(window)
        /\ block.binding_state_hash = block.step_bindings
        /\ DOMAIN block.step_bindings = 1..n
    BY <1>4, <1>6 DEF buildPermitExecutionCommitment, stepBindings
  <2>2. ASSUME NEW k \in 1..n
        PROVE  LET binding == block.step_bindings[k]
               IN /\ binding.index + 1 = k
                  /\ window[k].args_digest = binding.args_digest
                  /\ window[k].binding_digest = binding.binding_digest
    <3>1. block.step_bindings[k]
            = [ index |-> window[k].index, tool_name |-> window[k].tool_name,
                args_digest |-> window[k].args_digest,
                binding_digest |-> window[k].binding_digest ]
      BY <1>4, <2>1 DEF stepBindings
    <3>2. window[k].index + 1 = k
      BY <1>1, <1>5
    <3> HIDE DEF block
    <3> QED
      BY <3>1, <3>2
  <2> HIDE DEF block
  <2>3. verifyPartialStepsPermitExecution(window, block)
    BY <1>4, <2>1, <2>2 DEF verifyPartialStepsPermitExecution, verifyPermitExecutionCommitment
  <2> QED
    BY <1>3, <2>1, <2>3 DEF permitExecutionValid, verifyPermitExecutionCommitment, block
<1> HIDE DEF kinds
<1> QED
  BY <1>2, <1>3, <1>4, <1>5, <1>7, <1>8, <1>9 DEF path

\* An export of such hops verifies when its path holds all of them.
LEMMA ExportOk ==
    ASSUME NullIsNoRecord, IInv, ~recorder.absolute, NEW n \in DOMAIN captured,
           recorder.window >= n, NEW constraintClosure,
           NEW options, options.issuerPublicKey,
           ~options.requirePolicyProof, ~options.requireConstraintClosure,
           \A i \in 1..n : GoodKind(captured[i].kind)
    PROVE  verifySessionProof(BundleOf(n, TRUE, constraintClosure), options).ok
<1> DEFINE e == parseBundle(BundleOf(n, TRUE, constraintClosure))
           m == ManifestOf(n)
           r == captured[n].receipt
           path == r.partial_path
           closure == sessionCompositionClosure(e, options)
<1>1. /\ e.session_id = "session-1" /\ e.manifest = m /\ e.terminal_receipt = r
      /\ e.member_receipts = Receipts(n) /\ e.policy_proof = NULL
      /\ e.manifest_custodian = CustodianOf(n) /\ e.constraint_closure = NULL
      /\ Len(Receipts(n)) = n /\ Receipts(n) # <<>>
  BY ExportShape
<1>2. /\ m.session_id = "session-1" /\ m.members = MembersOf(n)
      /\ sortedMembers(m.members) = MembersOf(n)
      /\ DOMAIN MembersOf(n) = 1..n /\ Len(MembersOf(n)) = n
      /\ n \in Nat /\ \A i \in 1..n : i \in DOMAIN captured
      /\ DOMAIN Receipts(n) = 1..n
      /\ \A i \in 1..n : Receipts(n)[i] = captured[i].receipt
  BY ExportManifest, CapturedDigests DEF Receipts
<1>3. \A i \in 1..n :
        /\ MembersOf(n)[i].entry_hash = EntryHash("session-1", i - 1)
        /\ MembersOf(n)[i].proof_strength_disclosure_digest
             = captured[i].receipt.proof_strength_disclosure_digest
        /\ captured[i].receipt # NULL
        /\ captured[i].receipt.args_digest = ArgsDigest("session-1", i - 1)
  <2>1. ASSUME NEW i \in 1..n
        PROVE  captured[i].receipt.args_digest = ArgsDigest("session-1", i - 1)
    BY <1>2, KindsToSession, ReceiptShape DEF IInv, CapturedInv
  <2> QED
    BY <1>2, <2>1, CapturedDigests DEF MembersOf
<1>4. /\ path # NULL /\ verifyPartialPathCommitment(path)
      /\ DOMAIN path.partial_steps = 1..n /\ Len(path.partial_steps) = n
      /\ \A k \in 1..n :
           /\ path.partial_steps[k].entry_hash \in {NULL, EntryHash("session-1", k - 1)}
           /\ path.partial_steps[k].args_digest = ArgsDigest("session-1", k - 1)
      /\ capabilityBudgetValid(path) /\ capabilityMonotonic(path)
      /\ permitExecutionValid(path)
  BY ExportPath
<1> HIDE DEF e, m, path
<1>5. sessionIdAligned(e)
  BY <1>1, <1>2, CapturedDigests DEF sessionIdAligned
<1>6. setCompletenessOk(e, options) /\ verifyReceipt(r, options)
  BY <1>1, ExportComplete, HopVerifies DEF m
<1>7. checkPartialPathMembersAligned(m, r)
  BY <1>2, <1>3, <1>4 DEF checkPartialPathMembersAligned, path
<1>8. memberArgsAligned(path, Receipts(n))
  BY <1>2, <1>3, <1>4 DEF memberArgsAligned, verifyMemberReceiptsArgsAlignment
<1>9. manifestCustodianValid(e)
  BY <1>1, <1>2 DEF manifestCustodianValid, CustodianOf, verifyManifestCustodianCommitment,
                    buildManifestCustodianCommitment, CustodianPreimage, m
<1>10. memberReceiptsVerified(e, options)
  <2>1. verifyMemberReceipts(m, Receipts(n), options)
    BY ExportVerified DEF m
  <2>2. ASSUME NEW i \in 1..n
        PROVE  verifyProofStrengthDisclosureReceiptBinding(captured[i].receipt)
    BY <1>2, HopVerifies, Accepted
  <2>3. verifyManifestMemberDisclosureDigests(m, Receipts(n))
    BY <1>2, <1>3, <2>2 DEF verifyManifestMemberDisclosureDigests
  <2> QED
    BY <1>1, <2>1, <2>3 DEF memberReceiptsVerified
<1>11. policyProofValid(e, options) /\ constraintClosureValid(e, options)
  BY <1>1 DEF policyProofValid, constraintClosureValid
<1>12. structuralProofComplete(e, options)
  BY <1>1, <1>4, <1>5, <1>6, <1>7, <1>8, <1>9, <1>10, <1>11
     DEF structuralProofComplete, path
<1>13. closure.closure_verdict # "digest_only_submission"
  <2>1. verifySessionProof(BundleOf(n, TRUE, constraintClosure), options).composition_closure
          = closure
    BY DEF verifySessionProof, e
  <2>2. closure.closure_verdict = "carrier_review_ready"
    BY <2>1, ExportReady
  <2> QED
    BY <2>2
<1> QED
  BY <1>12, <1>13 DEF verifySessionProof, e

\* The handoff of a ready closure with its own gate, in a body that is not older
\* than the floor.
LEMMA ReadyHandoff ==
    ASSUME NullIsNoRecord, NEW verdict, NEW serverRelease \in Nat, NEW floor \in Nat,
           serverRelease >= floor,
           verdict.composition_closure # NULL,
           verdict.closure_ship_gate = evaluateClosureShipGate(verdict.composition_closure),
           verdict.closure_ship_gate.carrier_submission_ready,
           ~verdict.closure_ship_gate.blocked
    PROVE  evaluateCapExportCarrierHandoff(EnvelopeOf(verdict, serverRelease), floor)
             .carrier_handoff_allowed
<1> DEFINE body == EnvelopeOf(verdict, serverRelease)
           policy == body.export_gate_policy
<1>1. /\ policy = buildCapExportGatePolicy(serverRelease)
      /\ body.composition_closure = verdict.composition_closure
      /\ body.closure_ship_gate = verdict.closure_ship_gate
  BY DEF EnvelopeOf
<1> HIDE DEF body
<1>2. policy # NULL /\ policy.version = serverRelease
      /\ policy.min_supported_version = serverRelease
  <2>1. policy = [f \in DOMAIN policy |-> policy[f]]
    BY <1>1 DEF buildCapExportGatePolicy
  <2>2. policy.version = serverRelease /\ policy.min_supported_version = serverRelease
    BY <1>1 DEF buildCapExportGatePolicy
  <2> HIDE DEF policy
  <2> QED
    BY <2>1, <2>2 DEF NullIsNoRecord
<1>3. ~isCapExportEnvelopeStale(body, floor)
  BY <1>2 DEF isCapExportEnvelopeStale, isCapExportGatePolicySupported
<1>4. handoffRefusalReason(body, floor) = NULL
  BY <1>1, <1>3 DEF handoffRefusalReason, gatesMateriallyMismatch
<1> QED
  BY <1>4 DEF evaluateCapExportCarrierHandoff, body

\* Nothing is held against an untouched export of enforced, recorded and
\* disclosed hops: it verifies when its path holds all of them, and the body
\* published for it may be handed off at any floor it meets; for verifiers that
\* have the issuer's key and ask for no policy proof and no constraint closure.
\* (The exports of this model carry no policy proof, and the parser drops the
\* constraint closure: see ConstraintClosureHonoured.)
THEOREM CompleteExports ==
    ASSUME NullIsNoRecord,
           \A options \in Options : /\ options.issuerPublicKey
                                    /\ ~options.requirePolicyProof
                                    /\ ~options.requireConstraintClosure
    PROVE  Spec => []CompleteExportHandsOff
<1>1. Init => UntouchedInv
  BY DEF Init, UntouchedInv
<1>2. Spec => [](IInv /\ UntouchedInv)
  <2>1. Init => IInv /\ UntouchedInv
    BY <1>1, IInvInit
  <2>2. IInv /\ UntouchedInv /\ [Next]_vars => (IInv /\ UntouchedInv)'
    BY IInvNext, UntouchedInvNext
  <2> QED
    BY <2>1, <2>2, PTL DEF Spec
<1>3. IInv /\ UntouchedInv => CompleteExportHandsOff
  <2> DEFINE n == bundle.manifest.declared_count
  <2> SUFFICES ASSUME IInv, UntouchedInv, envelope # NULL, faults = 0,
                      bundle.member_receipts # <<>>, ~recorder.absolute,
                      \A kind \in Hops(n) : GoodKind(kind)
               PROVE  /\ recorder.window >= n =>
                           \A options \in Options : verifySessionProof(bundle, options).ok
                      /\ envelope.export_gate_policy.version >= release =>
                           evaluateCapExportCarrierHandoff(envelope, release)
                             .carrier_handoff_allowed
    BY DEF CompleteExportHandsOff, GoodKind
  <2>1. bundle # NULL
    BY DEF IInv, TypeOK
  <2>2. PICK k \in DOMAIN captured, withMembers \in BOOLEAN, closure \in ConstraintClosures :
          bundle = BundleOf(k, withMembers, closure)
    BY <2>1 DEF UntouchedInv
  <2>3. withMembers = TRUE
    BY <2>2 DEF BundleOf
  <2>4. bundle = BundleOf(k, TRUE, closure) /\ n = k
    <3>1. bundle.manifest = ManifestOf(k)
      BY <2>2 DEF BundleOf
    <3> QED
      BY <2>2, <2>3, <3>1, ExportManifest
  <2>5. \A i \in 1..k : GoodKind(captured[i].kind)
    BY <2>4 DEF Hops
  <2> HIDE DEF n
  <2>6. ASSUME recorder.window >= n, NEW options \in Options
        PROVE  verifySessionProof(bundle, options).ok
    BY <2>4, <2>5, <2>6, ExportOk
  <2>7. ASSUME envelope.export_gate_policy.version >= release
        PROVE  evaluateCapExportCarrierHandoff(envelope, release).carrier_handoff_allowed
    <3>1. PICK options \in Options, serverRelease \in 1..MaxRelease :
            envelope = EnvelopeOf(verifySessionProof(bundle, options), serverRelease)
      BY DEF UntouchedInv
    <3>2. /\ serverRelease \in Nat /\ release \in Nat /\ serverRelease >= release
      <4>1. envelope.export_gate_policy.version = serverRelease
        BY <3>1 DEF EnvelopeOf, buildCapExportGatePolicy
      <4> QED
        BY <2>7, <3>1, <4>1, CapExportAssumption DEF IInv, TypeOK
    <3> DEFINE verdict == verifySessionProof(bundle, options)
    <3>3. /\ verdict.composition_closure # NULL
          /\ verdict.closure_ship_gate = evaluateClosureShipGate(verdict.composition_closure)
          /\ verdict.closure_ship_gate.carrier_submission_ready
          /\ ~verdict.closure_ship_gate.blocked
      BY <2>4, <2>5, ExportReady
    <3> HIDE DEF verdict
    <3> QED
      BY <3>1, <3>2, <3>3, ReadyHandoff DEF verdict
  <2> QED
    BY <2>6, <2>7
<1> QED
  BY <1>2, <1>3, PTL

=============================================================================
