-------------------------- MODULE Oversight_proofs --------------------------
(***************************************************************************)
(* Proofs about Oversight, for any actions, policies, times and numbers of *)
(* approvals, hops and records.  The revocation half rests on the order of *)
(* the hops: the last one an observer saw is the latest of those it saw,   *)
(* and the gate permits none once it has heard.  The approval half         *)
(* rests on what a check of a signature may return: a payload somebody     *)
(* approved, or nothing; approvals only grow while the caller waits.       *)
(***************************************************************************)
EXTENDS Oversight, SequenceTheorems, TLAPS

-----------------------------------------------------------------------------
(* Types *)

\* A check of a signature that succeeds returns the payload under it.
LEMMA JwsAnswer ==
    ASSUME NEW jws, NEW ctx, NEW key, NEW t
    PROVE  LET answer == verifyHitlApprovalWitnessJws(jws, ctx, key, t)
           IN /\ answer.ok \in BOOLEAN
              /\ answer.ok => /\ jws # NULL /\ jws.key = key
                              /\ answer = [ok |-> TRUE, payload |-> jws.payload, errors |-> {}]
                              /\ verifyHitlWitnessPayloadStruct(jws.payload, ctx, t) = {}
              /\ \A u : (answer.ok /\ verifyHitlWitnessPayloadStruct(jws.payload, ctx, u) = {})
                       => verifyHitlApprovalWitnessJws(jws, ctx, key, u).ok
<1>1. CASE jws = NULL
  BY <1>1 DEF verifyHitlApprovalWitnessJws
<1>2. CASE jws # NULL /\ key = NULL
  BY <1>2 DEF verifyHitlApprovalWitnessJws
<1>3. CASE jws # NULL /\ key # NULL /\ jws.key # key
  BY <1>3 DEF verifyHitlApprovalWitnessJws
<1>4. CASE jws # NULL /\ key # NULL /\ jws.key = key
  <2> DEFINE errors == verifyHitlWitnessPayloadStruct(jws.payload, ctx, t)
  <2>1. verifyHitlApprovalWitnessJws(jws, ctx, key, t) =
          IF jws.payload.type # APPROVAL_WITNESS_TYPE
          THEN [ok |-> FALSE, payload |-> NULL, errors |-> {"not_a_witness"}]
          ELSE [ok |-> errors = {}, payload |-> jws.payload, errors |-> errors]
    BY <1>4 DEF verifyHitlApprovalWitnessJws
  <2> HIDE DEF errors
  <2>2. CASE jws.payload.type # APPROVAL_WITNESS_TYPE
    BY <2>1, <2>2
  <2>3. CASE jws.payload.type = APPROVAL_WITNESS_TYPE /\ errors = {}
    <3>1. (errors = {}) = TRUE
      BY <2>3
    <3>2. verifyHitlApprovalWitnessJws(jws, ctx, key, t) =
            [ok |-> TRUE, payload |-> jws.payload, errors |-> {}]
      BY <2>1, <2>3, <3>1, Zenon
    <3>3. ASSUME NEW u, verifyHitlWitnessPayloadStruct(jws.payload, ctx, u) = {}
          PROVE  verifyHitlApprovalWitnessJws(jws, ctx, key, u).ok
      <4>1. (verifyHitlWitnessPayloadStruct(jws.payload, ctx, u) = {}) = TRUE
        BY <3>3
      <4>2. verifyHitlApprovalWitnessJws(jws, ctx, key, u) =
              [ok |-> TRUE, payload |-> jws.payload,
               errors |-> verifyHitlWitnessPayloadStruct(jws.payload, ctx, u)]
        BY <1>4, <2>3, <4>1, Zenon DEF verifyHitlApprovalWitnessJws
      <4> QED BY <4>2
    <3> QED BY <1>4, <2>3, <3>2, <3>3 DEF errors
  <2>4. CASE jws.payload.type = APPROVAL_WITNESS_TYPE /\ errors # {}
    <3>1. (errors = {}) = FALSE
      BY <2>4
    <3>2. verifyHitlApprovalWitnessJws(jws, ctx, key, t) =
            [ok |-> FALSE, payload |-> jws.payload, errors |-> errors]
      BY <2>1, <2>4, <3>1, Zenon
    <3> QED BY <3>2
  <2> QED BY <2>2, <2>3, <2>4
<1> QED BY <1>1, <1>2, <1>3, <1>4

\* An action is bound only to a payload without a structural error.
LEMMA BoundIsStructural ==
    ASSUME NEW input, NEW ctx, NEW t
    PROVE  LET result == evaluateHitlCryptoBinding(input, ctx, t)
               verified == input.jws_verify
               payload == IF verified # NULL /\ verified.ok /\ verified.payload # NULL
                          THEN verified.payload ELSE input.witness_payload
               errors == verifyHitlWitnessPayloadStruct(payload, ctx, t)
           IN /\ result.ok \in BOOLEAN
              /\ result.ok <=> result.verdict = "BOUND"
              /\ result.ok <=> /\ NULL \notin {ctx.tool_name, ctx.args_digest, ctx.intent_id}
                               /\ payload # NULL
                               /\ errors = {}
<1> DEFINE verified == input.jws_verify
           payload == IF verified # NULL /\ verified.ok /\ verified.payload # NULL
                      THEN verified.payload ELSE input.witness_payload
           errors == verifyHitlWitnessPayloadStruct(payload, ctx, t)
           before == IF verified # NULL /\ ~verified.ok THEN verified.errors ELSE {}
           verdict ==
             CASE NULL \in {ctx.tool_name, ctx.args_digest, ctx.intent_id} -> "UNBOUND"
               [] OTHER ->
                    IF payload = NULL
                    THEN IF input.approval_witness_jws = NULL THEN "NO_WITNESS" ELSE "WITNESS_INVALID"
                    ELSE IF errors = {} THEN "BOUND"
                    ELSE IF before = {} /\ errors = {"expired"} THEN "EXPIRED"
                    ELSE "SCOPE_MISMATCH"
<1>1. evaluateHitlCryptoBinding(input, ctx, t) = [ok |-> verdict = "BOUND", verdict |-> verdict]
  BY DEF evaluateHitlCryptoBinding
<1> HIDE DEF payload, errors, before
<1>2. verdict = "BOUND" <=> /\ NULL \notin {ctx.tool_name, ctx.args_digest, ctx.intent_id}
                            /\ payload # NULL
                            /\ errors = {}
  OBVIOUS
<1> HIDE DEF verdict
<1>3. LET result == evaluateHitlCryptoBinding(input, ctx, t)
      IN /\ result.ok \in BOOLEAN
         /\ result.ok <=> result.verdict = "BOUND"
         /\ result.ok <=> verdict = "BOUND"
  <2>1. CASE verdict = "BOUND"
    <3>1. (verdict = "BOUND") = TRUE
      BY <2>1
    <3>2. evaluateHitlCryptoBinding(input, ctx, t) = [ok |-> TRUE, verdict |-> verdict]
      BY <1>1, <3>1, Zenon
    <3> QED BY <2>1, <3>2
  <2>2. CASE verdict # "BOUND"
    <3>1. (verdict = "BOUND") = FALSE
      BY <2>2
    <3>2. evaluateHitlCryptoBinding(input, ctx, t) = [ok |-> FALSE, verdict |-> verdict]
      BY <1>1, <3>1, Zenon
    <3> QED BY <2>2, <3>2
  <2> QED BY <2>1, <2>2
<1> QED BY <1>2, <1>3 DEF payload, errors

\* What a revocation document attests: a violation exactly when the last action
\* shown came after the revocation and within the window observed.
LEMMA Attests ==
    ASSUME revokedAt \in Nat, hops \in Seq(0..now), now \in Nat,
           delivered \in 0..Len(hops), NEW window \in Nat
    PROVE  LET document == buildRevocationHorizonDocument(Observed(window))
           IN /\ document.horizon_ms_observed = window
              /\ document.attestation =
                   IF /\ delivered > 0 /\ hops[delivered] > revokedAt
                      /\ hops[delivered] - revokedAt <= window
                   THEN "VIOLATION" ELSE "WITHIN_SLA"
<1> DEFINE input == Observed(window)
           document == buildRevocationHorizonDocument(input)
<1>1. /\ document.attestation = RevocationAttestation(input)
      /\ document.horizon_ms_observed = input.horizon_ms_observed
  BY DEF buildRevocationHorizonDocument, HorizonFields, evaluateRevocationHorizon
<1>2. /\ input.revoke_signal_timestamp_ms = revokedAt
      /\ input.horizon_ms_observed = window
      /\ input.last_permitted_action_timestamp_ms = IF delivered = 0 THEN NULL ELSE hops[delivered]
  BY DEF Observed
<1>3. delivered # 0 => hops[delivered] \in 0..now
  OBVIOUS
<1>4. NULL \notin Nat
  BY OversightAssumption
<1> HIDE DEF input, document
<1>5. document.attestation =
        IF /\ delivered > 0 /\ hops[delivered] > revokedAt
           /\ hops[delivered] - revokedAt <= window
        THEN "VIOLATION" ELSE "WITHIN_SLA"
  BY <1>1, <1>2, <1>3, <1>4 DEF RevocationAttestation
<1> QED BY <1>1, <1>2, <1>5 DEF input, document

-----------------------------------------------------------------------------
(* The inductive invariant *)

\* The gate logs what it permits as time goes on.
HopsInOrder == \A i, j \in DOMAIN hops : i <= j => hops[i] <= hops[j]

\* A revocation lies in the past.
RevokedBefore == revokedAt # NULL => revokedAt <= now

\* The gate hears of a revocation after it was made, and permits nothing then.
HeardAfter ==
    heardAt # NULL =>
      /\ revokedAt # NULL /\ heardAt <= now
      /\ \A i \in DOMAIN hops : hops[i] <= heardAt

\* An observer saw what the ledger had shown by then, and attests what the last
\* of it says of the window.
Truthful(h) ==
    /\ revokedAt # NULL /\ h.seen \in 0..delivered /\ Window(h) \in Nat
    /\ h.document.attestation =
         IF h.seen > 0 /\ InWindow(h, h.seen) THEN "VIOLATION" ELSE "WITHIN_SLA"

HorizonsTruthful == \A h \in horizons : Truthful(h)

\* What the issuer signed was approved, and every payload shown runs out.
CaseSigned ==
    case # NULL =>
      LET jws == case.approval_witness_jws
      IN /\ (jws # NULL /\ jws.key = Issuer) => jws.payload \in approvals
         /\ jws # NULL => jws.payload.time_bound_expiry \in Nat
         /\ case.witness_payload # NULL => case.witness_payload.time_bound_expiry \in Nat
         /\ case.ctx.policy \in Policies \cup {NULL}

\* What the check of the case's signature returns at a time.
Answer(t) == verifyHitlApprovalWitnessJws(case.approval_witness_jws, case.ctx, Issuer, t)

AwaitedComputed ==
    awaited # NULL =>
      case # NULL /\ awaited.started \in 0..now /\ awaited.answer = Answer(awaited.started)

\* A verdict is what two times and the case make it.
VerdictsComputed ==
    \A v \in verdicts :
      /\ case # NULL /\ v.started \in 0..v.at /\ v.at \in 0..now
      /\ v.signed = Answer(v.started).ok
      /\ v.result = evaluateHitlCryptoBinding(InputWith(Answer(v.started)), case.ctx, v.at)

ApprovalInv == CaseSigned /\ AwaitedComputed /\ VerdictsComputed
RevocationInv == HopsInOrder /\ RevokedBefore /\ HeardAfter /\ HorizonsTruthful
\* The inductive invariant: neither half disturbs the other.
IInv == TypeOK /\ ApprovalInv /\ RevocationInv

\* Nothing has happened at first.
LEMMA Initial == Init => IInv
<1> SUFFICES ASSUME Init PROVE IInv
  OBVIOUS
<1>1. TypeOK
  <2>1. hops \in Seq(0..now) /\ Len(hops) = 0
    BY DEF Init
  <2>2. now \in Times /\ Len(hops) <= MaxHops /\ delivered \in 0..Len(hops)
    BY <2>1, OversightAssumption DEF Init, Times
  <2>3. /\ question \in {"approval", "revocation"} /\ approvals = {} /\ awaited = NULL /\ verdicts = {}
        /\ revokedAt = NULL /\ heardAt = NULL /\ horizons = {}
    BY DEF Init
  <2> QED BY <2>1, <2>2, <2>3 DEF TypeOK
<1>2. ApprovalInv
  BY DEF Init, ApprovalInv, CaseSigned, AwaitedComputed, VerdictsComputed
<1>3. RevocationInv
  BY DEF Init, RevocationInv, HopsInOrder, RevokedBefore, HeardAfter, HorizonsTruthful
<1> QED BY <1>1, <1>2, <1>3 DEF IInv

-----------------------------------------------------------------------------
(* The steps of the approval question *)

\* Every witness runs out, a forged one at the end of time.
LEMMA WitnessFields ==
    ASSUME NEW w \in Witnesses
    PROVE  /\ w.time_bound_expiry \in Nat
           /\ [w EXCEPT !.time_bound_expiry = MaxTime].time_bound_expiry \in Nat
BY OversightAssumption DEF Witnesses, Witness, Times

\* An approval only adds to what was approved.
LEMMA ApproveStep ==
    ASSUME IInv, NEW a \in Actions, NEW p \in Policies, NEW t \in Times, Approve(a, p, t)
    PROVE  TypeOK' /\ ApprovalInv'
<1>1. Witness(a, p, t) \in Witnesses
  BY DEF Witnesses
<1>2. TypeOK'
  BY <1>1 DEF IInv, TypeOK, Approve, revocationVars
<1>3. CaseSigned'
  BY DEF IInv, ApprovalInv, CaseSigned, Approve
<1>4. (AwaitedComputed /\ VerdictsComputed)'
  BY DEF IInv, ApprovalInv, AwaitedComputed, VerdictsComputed, Answer, InputWith, Approve
<1> QED BY <1>2, <1>3, <1>4 DEF ApprovalInv

\* A case is submitted once, with a signature the issuer made or another's.
LEMMA SubmitStep ==
    ASSUME IInv, NEW a \in Actions, NEW p \in Policies \cup {NULL}, NEW j \in Signed,
           NEW w \in Presented, Submit(a, p, j, w)
    PROVE  TypeOK' /\ ApprovalInv'
<1>1. case' = [ctx |-> Context(a, p), witness_payload |-> w, approval_witness_jws |-> j]
  BY DEF Submit
<1>2. case' # NULL => case'.ctx.policy = p /\ case'.witness_payload = w /\ case'.approval_witness_jws = j
  BY <1>1 DEF Context
<1>3. /\ approvals \subseteq Witnesses /\ approvals' = approvals
      /\ awaited = NULL /\ awaited' = NULL /\ verdicts = {} /\ verdicts' = {}
  BY DEF IInv, TypeOK, ApprovalInv, AwaitedComputed, VerdictsComputed, Submit
<1>4. TypeOK'
  BY <1>3 DEF IInv, TypeOK, Submit, revocationVars
<1>5. w # NULL => w.time_bound_expiry \in Nat
  BY <1>3, WitnessFields DEF Presented
<1>6. j # NULL => j.payload.time_bound_expiry \in Nat
  BY <1>3, WitnessFields DEF Presented, Signed
<1>7. (j # NULL /\ j.key = Issuer) => j.payload \in approvals
  BY OversightAssumption DEF Signed
<1>8. CaseSigned'
  BY <1>2, <1>3, <1>5, <1>6, <1>7 DEF CaseSigned
<1> QED BY <1>3, <1>4, <1>8 DEF ApprovalInv, AwaitedComputed, VerdictsComputed

\* What a caller awaits is the answer at the time it asked.
LEMMA VerifyJwsStep ==
    ASSUME IInv, VerifyJws
    PROVE  TypeOK' /\ ApprovalInv'
<1>1. /\ awaited' = [answer |-> Answer(now), started |-> now]
      /\ case # NULL /\ case' = case /\ now' = now /\ approvals' = approvals /\ verdicts' = verdicts
  BY DEF VerifyJws, Answer
<1>2. awaited'.answer = Answer(now) /\ awaited'.started = now /\ now \in 0..now
  BY <1>1, OversightAssumption DEF IInv, TypeOK, Times
<1>3. Answer(now).ok \in BOOLEAN
  BY JwsAnswer DEF Answer
<1>4. TypeOK'
  BY <1>1, <1>2, <1>3 DEF IInv, TypeOK, VerifyJws, revocationVars
<1>5. AwaitedComputed'
  BY <1>1, <1>2 DEF AwaitedComputed, Answer
<1>6. (CaseSigned /\ VerdictsComputed)'
  BY <1>1 DEF IInv, ApprovalInv, CaseSigned, VerdictsComputed, Answer, InputWith
<1> QED BY <1>4, <1>5, <1>6 DEF ApprovalInv

\* A verdict is computed from the answer awaited, at a later time.
LEMMA EvaluateStep ==
    ASSUME IInv, Evaluate
    PROVE  TypeOK' /\ ApprovalInv'
<1> DEFINE v == [result |-> evaluateHitlCryptoBinding(InputWith(awaited.answer), case.ctx, now),
                 signed |-> awaited.answer.ok, started |-> awaited.started, at |-> now]
<1>1. /\ verdicts' = verdicts \cup {v} /\ awaited # NULL /\ awaited' = NULL
      /\ case' = case /\ now' = now /\ approvals' = approvals
  BY DEF Evaluate
<1>2. /\ case # NULL /\ awaited.started \in 0..now /\ awaited.answer = Answer(awaited.started)
      /\ now \in 0..now
  BY <1>1, OversightAssumption DEF IInv, TypeOK, ApprovalInv, AwaitedComputed, Times
<1>3. /\ v.result = evaluateHitlCryptoBinding(InputWith(Answer(v.started)), case.ctx, v.at)
      /\ v.signed = Answer(v.started).ok /\ v.started \in 0..v.at /\ v.at \in 0..now
  BY <1>2
<1>4. v.result.ok \in BOOLEAN
  BY <1>3, BoundIsStructural
<1> HIDE DEF v
<1>5. TypeOK'
  BY <1>1, <1>3, <1>4 DEF IInv, TypeOK, Evaluate, revocationVars
<1>6. VerdictsComputed'
  BY <1>1, <1>2, <1>3 DEF IInv, ApprovalInv, VerdictsComputed, Answer, InputWith
<1>7. (CaseSigned /\ AwaitedComputed)'
  BY <1>1 DEF IInv, ApprovalInv, CaseSigned, AwaitedComputed
<1> QED BY <1>5, <1>6, <1>7 DEF ApprovalInv

-----------------------------------------------------------------------------
(* The steps of the revocation question *)

\* What an observer saw is not changed by later hops or by time.
LEMMA HorizonsStay ==
    ASSUME IInv, horizons' = horizons, revokedAt' = revokedAt,
           delivered' \in Nat, delivered <= delivered', delivered' <= Len(hops'),
           \A i \in DOMAIN hops : hops'[i] = hops[i]
    PROVE  HorizonsTruthful'
<1> SUFFICES ASSUME NEW h \in horizons
             PROVE  /\ revokedAt # NULL /\ h.seen \in 0..delivered'
                    /\ h.document.horizon_ms_observed \in Nat
                    /\ h.document.attestation =
                         IF /\ h.seen > 0
                            /\ hops'[h.seen] > revokedAt
                            /\ hops'[h.seen] - revokedAt <= h.document.horizon_ms_observed
                         THEN "VIOLATION" ELSE "WITHIN_SLA"
  BY DEF HorizonsTruthful, Truthful, Window, InWindow
<1>1. /\ revokedAt # NULL /\ h.seen \in 0..delivered /\ h.document.horizon_ms_observed \in Nat
      /\ h.document.attestation =
           IF /\ h.seen > 0
              /\ hops[h.seen] > revokedAt
              /\ hops[h.seen] - revokedAt <= h.document.horizon_ms_observed
           THEN "VIOLATION" ELSE "WITHIN_SLA"
  BY DEF IInv, RevocationInv, HorizonsTruthful, Truthful, Window, InWindow
<1>2. delivered \in 0..Len(hops) /\ hops \in Seq(0..now)
  BY DEF IInv, TypeOK
<1>3. h.seen > 0 => h.seen \in DOMAIN hops
  BY <1>1, <1>2
<1> QED BY <1>1, <1>2, <1>3

\* Time passes over everything recorded.
LEMMA TickStep ==
    ASSUME IInv, Tick
    PROVE  TypeOK' /\ RevocationInv'
<1>1. now \in Nat /\ now' = now + 1 /\ now' \in Times /\ now < MaxTime
  BY OversightAssumption DEF IInv, TypeOK, Times, Tick
<1>2. hops' = hops /\ delivered' = delivered /\ horizons' = horizons /\ revokedAt' = revokedAt
  BY DEF Tick, revocationVars
<1>3. hops \in Seq(0..now) /\ delivered \in 0..Len(hops)
  BY DEF IInv, TypeOK
<1>4. hops \in Seq(0..now')
  <2>1. 0..now \subseteq 0..now'
    BY <1>1
  <2> QED BY <1>3, <2>1, SeqMonotonic
<1>5. TypeOK'
  BY <1>1, <1>2, <1>4 DEF IInv, TypeOK, Tick, approvalVars, revocationVars
<1>6. HorizonsTruthful'
  BY <1>1, <1>2, <1>3, HorizonsStay
<1>7. HopsInOrder' /\ RevokedBefore'
  BY <1>1, <1>2, OversightAssumption DEF IInv, TypeOK, Times, RevocationInv, HopsInOrder, RevokedBefore
<1>8. HeardAfter'
  BY <1>1, <1>2, OversightAssumption
     DEF IInv, TypeOK, Times, RevocationInv, HeardAfter, Tick, revocationVars
<1> QED BY <1>5, <1>6, <1>7, <1>8 DEF RevocationInv

\* The new hop is the latest.
LEMMA PermitStep ==
    ASSUME IInv, Permit
    PROVE  TypeOK' /\ RevocationInv'
<1>1. now \in Nat /\ hops \in Seq(0..now) /\ delivered \in 0..Len(hops) /\ Len(hops) < MaxHops
  BY OversightAssumption DEF IInv, TypeOK, Times, Permit
<1>2. /\ hops' = Append(hops, now) /\ now' = now /\ revokedAt' = revokedAt
      /\ delivered' = delivered /\ horizons' = horizons
  BY DEF Permit
<1>3. /\ hops' \in Seq(0..now) /\ Len(hops') = Len(hops) + 1
      /\ \A i \in DOMAIN hops : hops'[i] = hops[i]
      /\ hops'[Len(hops) + 1] = now
      /\ DOMAIN hops' = 1..(Len(hops) + 1) /\ DOMAIN hops = 1..Len(hops)
  BY <1>1, <1>2
<1>4. TypeOK'
  BY <1>1, <1>2, <1>3, OversightAssumption DEF IInv, TypeOK, Permit, approvalVars
<1>5. HorizonsTruthful'
  BY <1>1, <1>2, <1>3, HorizonsStay
<1>6. HopsInOrder'
  <2> SUFFICES ASSUME NEW i \in 1..(Len(hops) + 1), NEW j \in 1..(Len(hops) + 1), i <= j
               PROVE  hops'[i] <= hops'[j]
    BY <1>3 DEF HopsInOrder
  <2>1. CASE j \in 1..Len(hops)
    <3>1. i \in 1..Len(hops)
      BY <1>1, <2>1
    <3>2. hops[i] <= hops[j]
      BY <1>3, <2>1, <3>1 DEF IInv, RevocationInv, HopsInOrder
    <3> QED BY <1>3, <2>1, <3>1, <3>2
  <2>2. CASE j = Len(hops) + 1
    <3>1. hops'[i] \in 0..now
      BY <1>1, <1>3
    <3> QED BY <1>1, <1>3, <2>2, <3>1
  <2> QED BY <1>1, <2>1, <2>2
<1>7. RevokedBefore' /\ HeardAfter'
  BY <1>2 DEF IInv, RevocationInv, RevokedBefore, HeardAfter, Permit
<1> QED BY <1>4, <1>5, <1>6, <1>7 DEF RevocationInv

\* A revocation is of the present.
LEMMA RevokeStep ==
    ASSUME IInv, Revoke
    PROVE  TypeOK' /\ RevocationInv'
<1>1. horizons = {}
  BY DEF IInv, RevocationInv, HorizonsTruthful, Truthful, Revoke
<1>2. TypeOK'
  BY DEF IInv, TypeOK, Revoke, approvalVars
<1>3. RevocationInv'
  BY <1>1, OversightAssumption DEF IInv, TypeOK, Times, RevocationInv, HopsInOrder, RevokedBefore,
     HeardAfter, HorizonsTruthful, Revoke
<1> QED BY <1>2, <1>3

\* The gate hears after every hop it permitted; that changes no record.
LEMMA HearStep ==
    ASSUME IInv, Hear
    PROVE  TypeOK' /\ RevocationInv'
<1>1. TypeOK'
  BY DEF IInv, TypeOK, Hear, approvalVars
<1>2. (HopsInOrder /\ RevokedBefore /\ HorizonsTruthful)'
  BY DEF IInv, RevocationInv, HopsInOrder, RevokedBefore, HorizonsTruthful, Truthful, Window,
     InWindow, Hear
<1>3. HeardAfter'
  <2>1. now \in Nat /\ hops \in Seq(0..now)
    BY OversightAssumption DEF IInv, TypeOK, Times
  <2>2. \A i \in DOMAIN hops : hops[i] \in 0..now
    BY <2>1
  <2>3. heardAt' = now /\ revokedAt # NULL /\ UNCHANGED <<now, hops, revokedAt>>
    BY DEF Hear
  <2> QED BY <2>1, <2>2, <2>3 DEF HeardAfter
<1> QED BY <1>1, <1>2, <1>3 DEF RevocationInv

\* The ledger shows one hop more.
LEMMA DeliverStep ==
    ASSUME IInv, Deliver
    PROVE  TypeOK' /\ RevocationInv'
<1>1. now \in Nat /\ hops \in Seq(0..now) /\ delivered \in 0..Len(hops)
  BY OversightAssumption DEF IInv, TypeOK, Times
<1>2. /\ delivered' = delivered + 1 /\ delivered < Len(hops) /\ hops' = hops /\ now' = now
      /\ revokedAt' = revokedAt /\ horizons' = horizons
  BY DEF Deliver
<1>3. TypeOK'
  BY <1>1, <1>2 DEF IInv, TypeOK, Deliver, approvalVars
<1>4. HorizonsTruthful'
  BY <1>1, <1>2, HorizonsStay
<1>5. HopsInOrder' /\ RevokedBefore' /\ HeardAfter'
  BY <1>2 DEF IInv, RevocationInv, HopsInOrder, RevokedBefore, HeardAfter, Deliver
<1> QED BY <1>3, <1>4, <1>5 DEF RevocationInv

\* An observer attests what the ledger shows now.
LEMMA ObserveStep ==
    ASSUME IInv, NEW window \in Times \cup {HorizonMs}, Observe(window)
    PROVE  TypeOK' /\ RevocationInv'
<1> DEFINE h == [document |-> buildRevocationHorizonDocument(Observed(window)), seen |-> delivered]
<1>1. /\ revokedAt # NULL /\ horizons' = horizons \cup {h} /\ hops' = hops /\ now' = now
      /\ revokedAt' = revokedAt /\ delivered' = delivered /\ heardAt' = heardAt
  BY DEF Observe
<1>2. /\ now \in Nat /\ revokedAt \in Nat /\ hops \in Seq(0..now)
      /\ delivered \in 0..Len(hops) /\ window \in Nat
  BY <1>1, OversightAssumption DEF IInv, TypeOK, Times
<1>3. h.seen = delivered
  OBVIOUS
<1>4. /\ h.document.horizon_ms_observed = window
      /\ h.document.attestation =
           IF /\ delivered > 0 /\ hops[delivered] > revokedAt
              /\ hops[delivered] - revokedAt <= window
           THEN "VIOLATION" ELSE "WITHIN_SLA"
  BY <1>2, Attests
<1> HIDE DEF h
<1>5. h.document.attestation \in REVOCATION_HORIZON_ATTESTATIONS
  BY <1>4 DEF REVOCATION_HORIZON_ATTESTATIONS
<1>6. TypeOK'
  BY <1>1, <1>5 DEF IInv, TypeOK, Observe, approvalVars
<1>7. Truthful(h)
  BY <1>1, <1>2, <1>3, <1>4 DEF Truthful, Window, InWindow
<1>8. HorizonsTruthful'
  BY <1>1, <1>7 DEF IInv, RevocationInv, HorizonsTruthful, Truthful, Window, InWindow
<1>9. HopsInOrder' /\ RevokedBefore' /\ HeardAfter'
  BY <1>1 DEF IInv, RevocationInv, HopsInOrder, RevokedBefore, HeardAfter
<1> QED BY <1>6, <1>8, <1>9 DEF RevocationInv

\* Every step, and a stutter, keeps the invariant.
LEMMA Inductive == IInv /\ [Next]_vars => IInv'
<1> SUFFICES ASSUME IInv, [Next]_vars PROVE IInv'
  OBVIOUS
<1> DEFINE approvalStep ==
             \/ VerifyJws \/ Evaluate
             \/ \E a \in Actions, p \in Policies, t \in Times : Approve(a, p, t)
             \/ \E a \in Actions, p \in Policies \cup {NULL}, j \in Signed, w \in Presented :
                  Submit(a, p, j, w)
           revocationStep ==
             \/ Permit \/ Revoke \/ Hear \/ Deliver
             \/ \E window \in Times \cup {HorizonMs} : Observe(window)
<1>1. CASE Tick
  <2>1. TypeOK' /\ RevocationInv'
    BY <1>1, TickStep
  <2>2. ApprovalInv'
    BY <1>1, OversightAssumption DEF IInv, TypeOK, Times, ApprovalInv, CaseSigned, AwaitedComputed,
       VerdictsComputed, Answer, InputWith, Tick, approvalVars
  <2> QED BY <2>1, <2>2 DEF IInv
<1>2. CASE approvalStep
  <2>1. TypeOK' /\ ApprovalInv'
    BY <1>2, ApproveStep, SubmitStep, VerifyJwsStep, EvaluateStep
  <2>2. UNCHANGED <<now, revocationVars>>
    BY <1>2 DEF Approve, Submit, VerifyJws, Evaluate
  <2>3. RevocationInv'
    BY <2>2 DEF IInv, RevocationInv, HopsInOrder, RevokedBefore, HeardAfter, HorizonsTruthful,
       Truthful, Window, InWindow, revocationVars
  <2> QED BY <2>1, <2>3 DEF IInv
<1>3. CASE revocationStep
  <2>1. TypeOK' /\ RevocationInv'
    BY <1>3, PermitStep, RevokeStep, HearStep, DeliverStep, ObserveStep
  <2>2. UNCHANGED <<now, approvalVars>>
    BY <1>3 DEF Permit, Revoke, Hear, Deliver, Observe
  <2>3. ApprovalInv'
    BY <2>2 DEF IInv, ApprovalInv, CaseSigned, AwaitedComputed, VerdictsComputed, Answer, InputWith,
       approvalVars
  <2> QED BY <2>1, <2>3 DEF IInv
<1>4. CASE UNCHANGED vars
  BY <1>4 DEF IInv, TypeOK, ApprovalInv, CaseSigned, AwaitedComputed, VerdictsComputed, Answer,
     InputWith, RevocationInv, HopsInOrder, RevokedBefore, HeardAfter, HorizonsTruthful, Truthful,
     Window, InWindow, vars, approvalVars, revocationVars
<1> QED BY <1>1, <1>2, <1>3, <1>4 DEF Next

\* The invariant holds always.
LEMMA Invariance == Spec => []IInv
BY Initial, Inductive, PTL DEF Spec

-----------------------------------------------------------------------------
(* Theorems *)

\* Every approval, case, verdict, hop and attestation is of its kind.
THEOREM TypeCorrect == Spec => []TypeOK
<1>1. IInv => TypeOK
  BY DEF IInv
<1> QED BY Invariance, <1>1, PTL

\* Whoever observes whenever, over whatever window: an attestation of quiet is
\* true of all the ledger had shown, or its last action lies beyond the window.
THEOREM QuietIsTrue == Spec => []QuietWasQuiet
<1>1. IInv => QuietWasQuiet
  <2> SUFFICES ASSUME IInv, NEW h \in horizons, h.document.attestation = "WITHIN_SLA",
                      ~(hops[h.seen] - revokedAt > Window(h)),
                      NEW i \in 1..h.seen
               PROVE  hops[i] <= revokedAt
    BY DEF QuietWasQuiet
  <2>1. /\ revokedAt # NULL /\ h.seen \in 0..delivered /\ Window(h) \in Nat
        /\ ~(h.seen > 0 /\ InWindow(h, h.seen))
    BY DEF IInv, RevocationInv, HorizonsTruthful, Truthful
  <2>2. revokedAt \in Nat /\ hops \in Seq(0..now) /\ delivered \in 0..Len(hops) /\ now \in Nat
    BY <2>1, OversightAssumption DEF IInv, TypeOK, Times
  <2>3. i \in DOMAIN hops /\ h.seen \in DOMAIN hops /\ i <= h.seen /\ h.seen > 0
    BY <2>1, <2>2
  <2>4. hops[i] <= hops[h.seen] /\ hops[i] \in Nat /\ hops[h.seen] \in Nat
    BY <2>2, <2>3 DEF IInv, RevocationInv, HopsInOrder
  <2>5. ~(hops[h.seen] > revokedAt)
    BY <2>1, <2>2, <2>3, <2>4 DEF InWindow
  <2> QED BY <2>2, <2>4, <2>5
<1> QED BY Invariance, <1>1, PTL

\* A violation is attested only of a gate that permitted an action after the
\* revocation and had not heard of it, whatever the window.
THEOREM ViolationIsLate == Spec => []ViolationWasLate
<1>1. IInv => ViolationWasLate
  <2> SUFFICES ASSUME IInv, NEW h \in horizons, h.document.attestation = "VIOLATION"
               PROVE  \E i \in 1..h.seen :
                        /\ InWindow(h, i)
                        /\ heardAt # NULL => heardAt > revokedAt /\ hops[i] <= heardAt
    BY DEF ViolationWasLate
  <2>1. /\ revokedAt # NULL /\ h.seen \in 0..delivered /\ h.seen > 0 /\ InWindow(h, h.seen)
    BY DEF IInv, RevocationInv, HorizonsTruthful, Truthful
  <2>2. revokedAt \in Nat /\ hops \in Seq(0..now) /\ delivered \in 0..Len(hops) /\ now \in Nat
    BY <2>1, OversightAssumption DEF IInv, TypeOK, Times
  <2>3. h.seen \in 1..h.seen /\ h.seen \in DOMAIN hops
    BY <2>1, <2>2
  <2>4. hops[h.seen] \in Nat /\ hops[h.seen] > revokedAt
    BY <2>1, <2>2, <2>3 DEF InWindow
  <2>5. heardAt # NULL => heardAt \in Nat /\ hops[h.seen] <= heardAt
    BY <2>3, OversightAssumption DEF IInv, TypeOK, Times, RevocationInv, HeardAfter
  <2>6. heardAt # NULL => heardAt > revokedAt
    BY <2>2, <2>4, <2>5
  <2> QED BY <2>1, <2>3, <2>5, <2>6
<1> QED BY Invariance, <1>1, PTL

-----------------------------------------------------------------------------
(* The approval theorems *)

\* A witness without a structural error names the action, and a policy that
\* differs from the one asked for is an error where both are named.
LEMMA StructuralCovers ==
    ASSUME NEW payload, NEW ctx, NEW t, verifyHitlWitnessPayloadStruct(payload, ctx, t) = {}
    PROVE  /\ payload.target_intent_hash
                = computeTargetIntentHash(ctx.intent_id, ctx.tool_name, ctx.args_digest)
           /\ \/ NULL \in {ctx.policy, payload.active_policy_version_hash}
              \/ payload.active_policy_version_hash = ctx.policy
<1> DEFINE fails ==
      [type |-> payload.type # APPROVAL_WITNESS_TYPE,
       version |-> payload.version # "1.0",
       target |-> payload.target_intent_hash
                    # computeTargetIntentHash(ctx.intent_id, ctx.tool_name, ctx.args_digest),
       intent |-> payload.intent_id \notin {NULL, ctx.intent_id},
       policy |-> /\ ctx.policy # NULL /\ payload.active_policy_version_hash # NULL
                  /\ payload.active_policy_version_hash # ctx.policy,
       operator |-> payload.operator_id = NULL,
       expiry |-> payload.time_bound_expiry = NULL]
<1>1. {e \in DOMAIN fails : fails[e]} = {}
  BY DEF verifyHitlWitnessPayloadStruct
<1>2. "target" \in DOMAIN fails /\ "policy" \in DOMAIN fails
  OBVIOUS
<1>3. ~fails["target"] /\ ~fails["policy"]
  <2> HIDE DEF fails
  <2> QED BY <1>1, <1>2
<1>4. /\ fails["target"] = (payload.target_intent_hash
                    # computeTargetIntentHash(ctx.intent_id, ctx.tool_name, ctx.args_digest))
      /\ fails["policy"] = (/\ ctx.policy # NULL /\ payload.active_policy_version_hash # NULL
                            /\ payload.active_policy_version_hash # ctx.policy)
  OBVIOUS
<1> HIDE DEF fails
<1> QED BY <1>3, <1>4, Zenon

\* Time enters a check only through the expiry.
LEMMA OnlyExpires ==
    ASSUME NEW payload, payload.time_bound_expiry \in Nat, NEW ctx, NEW t \in Nat, NEW u \in Nat
    PROVE  LET errors(x) == verifyHitlWitnessPayloadStruct(payload, ctx, x)
           IN /\ errors(t) = {} => t <= payload.time_bound_expiry
              /\ (errors(u) = {} /\ t <= u) => errors(t) = {}
              /\ (errors(t) = {} /\ errors(u) # {}) => u > payload.time_bound_expiry
<1> DEFINE errors(x) == verifyHitlWitnessPayloadStruct(payload, ctx, x)
           expired(x) == assertNotExpired(payload.time_bound_expiry, x)
<1>1. PICK rest : \A x \in Nat : errors(x) = rest \cup expired(x)
  <2>1. NULL # payload.time_bound_expiry
    BY OversightAssumption
  <2> QED BY <2>1 DEF verifyHitlWitnessPayloadStruct
<1>2. \A x \in Nat : expired(x) = IF x > payload.time_bound_expiry THEN {"expired"} ELSE {}
  BY DEF assertNotExpired
<1> HIDE DEF errors, expired
<1>3. /\ errors(t) = {} => t <= payload.time_bound_expiry
      /\ (errors(u) = {} /\ t <= u) => errors(t) = {}
      /\ (errors(t) = {} /\ errors(u) # {}) => u > payload.time_bound_expiry
  BY <1>1, <1>2
<1> QED BY <1>3 DEF errors

\* A verdict goes by the signed payload where its signature was accepted, and
\* else by the one beside it.
LEMMA PayloadChosen ==
    ASSUME IInv, case # NULL, NEW s, NEW t
    PROVE  LET result == evaluateHitlCryptoBinding(InputWith(Answer(s)), case.ctx, t)
               payload == IF Answer(s).ok THEN case.approval_witness_jws.payload
                          ELSE case.witness_payload
           IN /\ result.ok <=> result.verdict = "BOUND"
              /\ result.ok <=>
                   /\ NULL \notin {case.ctx.tool_name, case.ctx.args_digest, case.ctx.intent_id}
                   /\ payload # NULL
                   /\ verifyHitlWitnessPayloadStruct(payload, case.ctx, t) = {}
              /\ Answer(s).ok => payload \in approvals
<1> DEFINE jws == case.approval_witness_jws
           verified == InputWith(Answer(s)).jws_verify
           chosen == IF verified # NULL /\ verified.ok /\ verified.payload # NULL
                     THEN verified.payload ELSE case.witness_payload
<1>1. verified = (IF jws = NULL THEN NULL ELSE Answer(s)) /\ InputWith(Answer(s)).witness_payload = case.witness_payload
  BY DEF InputWith
<1>2. Answer(s).ok => /\ jws # NULL /\ jws.payload \in approvals /\ jws.payload \in Witnesses
                      /\ Answer(s) = [ok |-> TRUE, payload |-> jws.payload, errors |-> {}]
  BY JwsAnswer DEF Answer, IInv, TypeOK, ApprovalInv, CaseSigned
<1>3. Answer(s).ok => verified # NULL /\ verified.ok /\ verified.payload = jws.payload /\ jws.payload # NULL
  BY <1>1, <1>2, NullAssumption
<1>4. ~Answer(s).ok => ~(verified # NULL /\ verified.ok)
  BY <1>1
<1> HIDE DEF verified, jws
<1>5. chosen = IF Answer(s).ok THEN jws.payload ELSE case.witness_payload
  BY <1>3, <1>4
<1>6. LET result == evaluateHitlCryptoBinding(InputWith(Answer(s)), case.ctx, t)
      IN /\ result.ok <=> result.verdict = "BOUND"
         /\ result.ok <=>
              /\ NULL \notin {case.ctx.tool_name, case.ctx.args_digest, case.ctx.intent_id}
              /\ chosen # NULL
              /\ verifyHitlWitnessPayloadStruct(chosen, case.ctx, t) = {}
  BY <1>1, BoundIsStructural DEF verified
<1> HIDE DEF chosen
<1> QED BY <1>2, <1>5, <1>6 DEF jws

\* Bound on a signature means approved by a person for exactly this action, in
\* time, whatever was shown beside it and however long the caller waited.
THEOREM BoundIsApproved == Spec => []BoundWasApproved
<1>1. IInv => BoundWasApproved
  <2> SUFFICES ASSUME IInv, NEW v \in verdicts, v.result.verdict = "BOUND", v.signed
               PROVE  \E p \in Policies, t \in v.at..MaxTime :
                        /\ Witness(case.ctx, p, t) \in approvals
                        /\ case.ctx.policy \in {NULL, p}
    BY DEF BoundWasApproved
  <2> DEFINE payload == case.approval_witness_jws.payload
  <2>1. /\ case # NULL /\ v.started \in 0..v.at /\ v.at \in 0..now /\ Answer(v.started).ok
        /\ v.result = evaluateHitlCryptoBinding(InputWith(Answer(v.started)), case.ctx, v.at)
    BY DEF IInv, ApprovalInv, VerdictsComputed
  <2>2. payload \in approvals /\ verifyHitlWitnessPayloadStruct(payload, case.ctx, v.at) = {}
    BY <2>1, PayloadChosen
  <2>3. payload \in Witnesses
    BY <2>2 DEF IInv, TypeOK
  <2>4. PICK a \in Actions, p \in Policies, t \in Times : payload = Witness(a, p, t)
    BY <2>3 DEF Witnesses
  <2>5. /\ payload.target_intent_hash = <<a.intent_id, a.tool_name, a.args_digest>>
        /\ payload.active_policy_version_hash = p /\ payload.time_bound_expiry = t
    BY <2>4 DEF Witness, computeTargetIntentHash
  <2>6. /\ a.intent_id = case.ctx.intent_id /\ a.tool_name = case.ctx.tool_name
        /\ a.args_digest = case.ctx.args_digest
        /\ NULL \in {case.ctx.policy, p} \/ p = case.ctx.policy
    BY <2>2, <2>5, StructuralCovers DEF computeTargetIntentHash
  <2>7. payload = Witness(case.ctx, p, t)
    BY <2>4, <2>6 DEF Witness
  <2>8. case.ctx.policy \in {NULL, p}
    BY <2>6, OversightAssumption
  <2>9. t \in v.at..MaxTime
    <3>1. v.at \in Nat /\ t \in Nat /\ t <= MaxTime
      BY <2>1, OversightAssumption DEF Times, IInv, TypeOK
    <3>2. v.at <= t
      BY <2>2, <2>5, <3>1, OnlyExpires
    <3> QED BY <3>1, <3>2, OversightAssumption
  <2> HIDE DEF payload
  <2> QED BY <2>2, <2>7, <2>8, <2>9
<1> QED BY Invariance, <1>1, PTL

\* Two checks of one witness, the second begun after the first was done: the
\* second binds nothing new, and drops only what has run out.
THEOREM RetriesOnlyExpire == Spec => []RetryOnlyExpires
<1>1. IInv => RetryOnlyExpires
  <2> SUFFICES ASSUME IInv, NEW v \in verdicts, NEW w \in verdicts,
                      NULL \in {case.witness_payload, case.approval_witness_jws},
                      v.at <= w.started
               PROVE  /\ w.result.ok => v.result.ok
                      /\ (v.result.ok /\ ~w.result.ok) =>
                           \A x \in {At(case.approval_witness_jws, "payload"), case.witness_payload} \ {NULL} :
                             x.time_bound_expiry < w.at
    BY DEF RetryOnlyExpires
  <2> DEFINE jws == case.approval_witness_jws
             shown == case.witness_payload
             errors(p, t) == verifyHitlWitnessPayloadStruct(p, case.ctx, t)
             named == NULL \notin {case.ctx.tool_name, case.ctx.args_digest, case.ctx.intent_id}
  <2>1. /\ case # NULL
        /\ v.started \in Nat /\ v.at \in Nat /\ v.started <= v.at
        /\ w.started \in Nat /\ w.at \in Nat /\ w.started <= w.at
        /\ v.result = evaluateHitlCryptoBinding(InputWith(Answer(v.started)), case.ctx, v.at)
        /\ w.result = evaluateHitlCryptoBinding(InputWith(Answer(w.started)), case.ctx, w.at)
    BY OversightAssumption DEF IInv, TypeOK, Times, ApprovalInv, VerdictsComputed
  <2>2. CASE jws = NULL
    <3>1. ~Answer(v.started).ok /\ ~Answer(w.started).ok
      BY <2>2, JwsAnswer DEF Answer
    <3>2. /\ v.result.ok <=> named /\ shown # NULL /\ errors(shown, v.at) = {}
          /\ w.result.ok <=> named /\ shown # NULL /\ errors(shown, w.at) = {}
      BY <2>1, <3>1, PayloadChosen
    <3>3. shown # NULL => shown.time_bound_expiry \in Nat
      BY <2>1 DEF IInv, ApprovalInv, CaseSigned
    <3>4. v.at <= w.at
      BY <2>1
    <3>5. shown # NULL =>
            /\ errors(shown, w.at) = {} => errors(shown, v.at) = {}
            /\ (errors(shown, v.at) = {} /\ errors(shown, w.at) # {}) => w.at > shown.time_bound_expiry
      BY <2>1, <3>3, <3>4, OnlyExpires
    <3>6. At(jws, "payload") = NULL
      BY <2>2 DEF At
    <3> HIDE DEF errors, shown, jws, named
    <3>7. w.result.ok => v.result.ok
      BY <3>2, <3>5
    <3>8. (v.result.ok /\ ~w.result.ok) => w.at > shown.time_bound_expiry
      BY <3>2, <3>5
    <3>9. shown # NULL /\ w.at > shown.time_bound_expiry => shown.time_bound_expiry < w.at
      BY <2>1, <3>3 DEF shown
    <3> QED BY <3>2, <3>6, <3>7, <3>8, <3>9 DEF shown, jws
  <2>3. CASE jws # NULL
    <3>1. shown = NULL
      BY <2>3
    <3>2. /\ v.result.ok <=> named /\ Answer(v.started).ok /\ errors(jws.payload, v.at) = {}
          /\ w.result.ok <=> named /\ Answer(w.started).ok /\ errors(jws.payload, w.at) = {}
      <4>1. /\ Answer(v.started).ok => jws.payload # NULL
            /\ Answer(w.started).ok => jws.payload # NULL
        BY <2>1, PayloadChosen, NullAssumption DEF IInv, TypeOK
      <4> QED BY <2>1, <3>1, <4>1, PayloadChosen
    <3>3. jws.payload.time_bound_expiry \in Nat
      BY <2>1, <2>3 DEF IInv, ApprovalInv, CaseSigned
    <3>4. /\ Answer(w.started).ok => errors(jws.payload, w.started) = {}
          /\ Answer(w.started).ok /\ errors(jws.payload, v.started) = {} => Answer(v.started).ok
          /\ Answer(v.started).ok => errors(jws.payload, v.started) = {}
          /\ Answer(v.started).ok /\ errors(jws.payload, w.started) = {} => Answer(w.started).ok
      BY JwsAnswer DEF Answer
    <3>5. v.started <= w.at /\ v.at <= w.at /\ w.started <= w.at
      BY <2>1
    <3>6. /\ errors(jws.payload, w.at) = {} =>
               errors(jws.payload, v.at) = {} /\ errors(jws.payload, v.started) = {}
          /\ (errors(jws.payload, v.at) = {} /\ errors(jws.payload, w.at) # {})
               => w.at > jws.payload.time_bound_expiry
          /\ (errors(jws.payload, v.at) = {} /\ errors(jws.payload, w.started) # {})
               => w.started > jws.payload.time_bound_expiry
      BY <2>1, <3>3, <3>5, OnlyExpires
    <3>7. At(jws, "payload") = jws.payload
      BY <2>3 DEF At
    <3> HIDE DEF errors, named, jws, shown
    <3>8. w.result.ok => v.result.ok
      BY <3>2, <3>4, <3>6
    <3>9. (v.result.ok /\ ~w.result.ok) =>
            \/ w.at > jws.payload.time_bound_expiry
            \/ w.started > jws.payload.time_bound_expiry
      BY <3>2, <3>4, <3>6
    <3>10. \/ w.at > jws.payload.time_bound_expiry
           \/ w.started > jws.payload.time_bound_expiry
           => jws.payload.time_bound_expiry < w.at
      BY <2>1, <3>3, <3>5
    <3> QED BY <3>1, <3>7, <3>8, <3>9, <3>10 DEF jws, shown
  <2> QED BY <2>2, <2>3
<1> QED BY Invariance, <1>1, PTL
=============================================================================
