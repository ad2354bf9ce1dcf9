------------------------------ MODULE Oversight ------------------------------
(***************************************************************************)
(* Two questions an auditor asks of a session in time.  People approve     *)
(* actions until some moment, and a verifier binds an action to an         *)
(* approval in a check that waits between the signature and the            *)
(* evaluation.  The mandate is revoked, the gate hears of it later, the    *)
(* ledger shows what it permitted with a delay, and an observer attests    *)
(* what was permitted after the revocation.                                *)
(***************************************************************************)
EXTENDS OversightEvidence

-----------------------------------------------------------------------------
(* Binding a human approval to the action it released (liability/
   hitlCryptoBinding.ts).  A witness payload is a record whose missing fields
   are NULL; a compact JWS is [payload, key], the key that made it; the errors
   of a check are the set of its reasons. *)

APPROVAL_WITNESS_TYPE == "KoveraApprovalWitness"

\* sha256 over the three; the same at the approver and here.
computeTargetIntentHash(intentId, toolName, argsDigest) == <<intentId, toolName, argsDigest>>

\* Mutant: the comparison is turned round.
MutantAssertNotExpired(expiry, now) == IF now < expiry THEN {"expired"} ELSE {}

assertNotExpired(expiry, now) == IF now > expiry THEN {"expired"} ELSE {}

\* The reasons a witness does not cover the action ctx names.  An intent, or a
\* policy, that either side leaves out is not compared.
verifyHitlWitnessPayloadStruct(payload, ctx, now) ==
    LET fails ==
          [type |-> payload.type # APPROVAL_WITNESS_TYPE,
           version |-> payload.version # "1.0",
           target |-> payload.target_intent_hash
                        # computeTargetIntentHash(ctx.intent_id, ctx.tool_name, ctx.args_digest),
           intent |-> payload.intent_id \notin {NULL, ctx.intent_id},
           policy |-> /\ ctx.policy # NULL /\ payload.active_policy_version_hash # NULL
                      /\ payload.active_policy_version_hash # ctx.policy,
           operator |-> payload.operator_id = NULL,
           expiry |-> payload.time_bound_expiry = NULL]
    IN {e \in DOMAIN fails : fails[e]} \cup
       (IF payload.time_bound_expiry = NULL THEN {}
        ELSE assertNotExpired(payload.time_bound_expiry, now))

\* The signature, then the payload under it.
verifyHitlApprovalWitnessJws(jws, ctx, issuerPublicKey, now) ==
    LET refused(reason) == [ok |-> FALSE, payload |-> NULL, errors |-> {reason}]
        errors == verifyHitlWitnessPayloadStruct(jws.payload, ctx, now)
    IN CASE jws = NULL -> refused("no_jws")
         [] jws # NULL /\ issuerPublicKey = NULL -> refused("no_key")
         [] jws # NULL /\ issuerPublicKey # NULL /\ jws.key # issuerPublicKey -> refused("signature")
         [] jws # NULL /\ issuerPublicKey # NULL /\ jws.key = issuerPublicKey ->
              IF jws.payload.type # APPROVAL_WITNESS_TYPE THEN refused("not_a_witness")
              ELSE [ok |-> errors = {}, payload |-> jws.payload, errors |-> errors]

\* Mutant: a payload given beside the signed one is preferred to it.
MutantEvaluateHitlCryptoBinding(input, ctx, now) ==
    LET verified == input.jws_verify
        payload == IF input.witness_payload # NULL THEN input.witness_payload
                   ELSE IF verified # NULL /\ verified.ok THEN verified.payload ELSE NULL
        errors == verifyHitlWitnessPayloadStruct(payload, ctx, now)
    IN [ok |-> payload # NULL /\ errors = {},
        verdict |-> CASE payload = NULL -> "NO_WITNESS"
                      [] payload # NULL /\ errors = {} -> "BOUND"
                      [] payload # NULL /\ errors # {} -> "SCOPE_MISMATCH"]

\* input: witness_payload, approval_witness_jws, and jws_verify, what an earlier
\* call of verifyHitlApprovalWitnessJws returned, each or NULL.  A signature
\* that failed adds its reasons and does not decide; an expiry is called so only
\* where it is the one reason.
evaluateHitlCryptoBinding(input, ctx, now) ==
    LET verified == input.jws_verify
        signed == verified # NULL /\ verified.ok /\ verified.payload # NULL
        payload == IF signed THEN verified.payload ELSE input.witness_payload
        before == IF verified # NULL /\ ~verified.ok THEN verified.errors ELSE {}
        structural == verifyHitlWitnessPayloadStruct(payload, ctx, now)
        verdict ==
          CASE NULL \in {ctx.tool_name, ctx.args_digest, ctx.intent_id} -> "UNBOUND"
            [] OTHER ->
                 IF payload = NULL
                 THEN IF input.approval_witness_jws = NULL THEN "NO_WITNESS" ELSE "WITNESS_INVALID"
                 ELSE IF structural = {} THEN "BOUND"
                 ELSE IF before = {} /\ structural = {"expired"} THEN "EXPIRED"
                 ELSE "SCOPE_MISMATCH"
    IN [ok |-> verdict = "BOUND", verdict |-> verdict]

-----------------------------------------------------------------------------

CONSTANTS Actions,        \* [intent_id, tool_name, args_digest]
          Policies,       \* policy version hashes
          Issuer, Other,  \* signing keys
          HorizonMs,      \* the window a revocation promises
          MaxTime, MaxApprovals, MaxHops, MaxRecords

ASSUME OversightAssumption ==
    /\ MaxTime \in Nat /\ MaxApprovals \in Nat /\ MaxHops \in Nat /\ MaxRecords \in Nat
    /\ HorizonMs \in Nat \ {0}
    /\ Issuer # Other
    /\ NULL \notin Nat \cup Policies

VARIABLES question,    \* what the auditor takes up; the two share no state
          now,
          approvals,   \* the witnesses people signed
          case,        \* the action and the evidence shown for it, or NULL
          awaited,     \* what the check of the signature returned, or NULL
          verdicts,    \* history: what checks of the case returned
          hops, revokedAt,
          heardAt,     \* when the gate heard of it, or NULL
          delivered,
          horizons     \* history: what observers attested

approvalVars == <<approvals, case, awaited, verdicts>>
revocationVars == <<hops, revokedAt, heardAt, delivered, horizons>>
vars == <<question, now, approvalVars, revocationVars>>

Times == 0..MaxTime

\* What a person signs for an action.
Witness(action, policy, expiry) ==
    [type |-> APPROVAL_WITNESS_TYPE, version |-> "1.0",
     target_intent_hash |->
       computeTargetIntentHash(action.intent_id, action.tool_name, action.args_digest),
     intent_id |-> action.intent_id, operator_id |-> "operator",
     active_policy_version_hash |-> policy, time_bound_expiry |-> expiry]

Witnesses == {Witness(a, p, t) : a \in Actions, p \in Policies, t \in Times}

\* What is missing is no witness, and no answer about one.
ASSUME NullAssumption ==
    \A w \in Witnesses : NULL \notin {w, [ok |-> TRUE, payload |-> w, errors |-> {}]}

\* A payload shown beside the signature: an approval's, or one put off.
Presented == {NULL} \cup approvals \cup {[w EXCEPT !.time_bound_expiry = MaxTime] : w \in approvals}

\* What Issuer signed, or anything under another key.
Signed == {NULL} \cup [payload : approvals, key : {Issuer}]
                 \cup [payload : Presented \ {NULL}, key : {Other}]

TypeOK ==
    /\ question \in {"approval", "revocation"} /\ now \in Times
    /\ approvals \subseteq Witnesses
    /\ awaited # NULL => case # NULL /\ awaited.answer.ok \in BOOLEAN /\ awaited.started \in 0..now
    /\ \A v \in verdicts : v.result.ok \in BOOLEAN /\ v.started \in 0..v.at
    /\ hops \in Seq(0..now) /\ Len(hops) <= MaxHops
    /\ revokedAt \in Times \cup {NULL} /\ heardAt \in Times \cup {NULL}
    /\ delivered \in 0..Len(hops)
    /\ \A h \in horizons : h.document.attestation \in REVOCATION_HORIZON_ATTESTATIONS

Init ==
    /\ question \in {"approval", "revocation"} /\ now = 0
    /\ approvals = {} /\ case = NULL /\ awaited = NULL /\ verdicts = {}
    /\ hops = <<>> /\ revokedAt = NULL /\ heardAt = NULL /\ delivered = 0 /\ horizons = {}

Tick ==
    /\ now < MaxTime
    /\ now' = now + 1
    /\ UNCHANGED <<question, approvalVars, revocationVars>>

-----------------------------------------------------------------------------
(* Was the action approved? *)

Approve(action, policy, expiry) ==
    /\ question = "approval" /\ Cardinality(approvals) < MaxApprovals
    /\ expiry >= now
    /\ approvals' = approvals \cup {Witness(action, policy, expiry)}
    /\ UNCHANGED <<question, now, case, awaited, verdicts, revocationVars>>

Context(action, policy) ==
    [intent_id |-> action.intent_id, tool_name |-> action.tool_name,
     args_digest |-> action.args_digest, policy |-> policy]

\* The evidence for one action; a caller may ask for a policy version.
Submit(action, policy, jws, payload) ==
    /\ question = "approval" /\ case = NULL
    /\ jws # NULL \/ payload # NULL
    /\ case' = [ctx |-> Context(action, policy),
                witness_payload |-> payload, approval_witness_jws |-> jws]
    /\ UNCHANGED <<question, now, approvals, awaited, verdicts, revocationVars>>

\* The signature is checked; the caller awaits it.  The case may be checked again.
VerifyJws ==
    /\ case # NULL /\ awaited = NULL
    /\ Cardinality(verdicts) < MaxRecords
    /\ awaited' = [answer |-> verifyHitlApprovalWitnessJws(case.approval_witness_jws, case.ctx,
                                 Issuer, now),
                   started |-> now]
    /\ UNCHANGED <<question, now, approvals, case, verdicts, revocationVars>>

\* A caller without a signature has no answer to pass on.
InputWith(answer) ==
    [witness_payload |-> case.witness_payload,
     approval_witness_jws |-> case.approval_witness_jws,
     jws_verify |-> IF case.approval_witness_jws = NULL THEN NULL ELSE answer]

\* The binding is evaluated with what was awaited.
Evaluate ==
    /\ awaited # NULL
    /\ verdicts' = verdicts \cup
         {[result |-> evaluateHitlCryptoBinding(InputWith(awaited.answer), case.ctx, now),
           signed |-> awaited.answer.ok, started |-> awaited.started, at |-> now]}
    /\ awaited' = NULL
    /\ UNCHANGED <<question, now, approvals, case, revocationVars>>

-----------------------------------------------------------------------------
(* Was anything permitted after the revocation? *)

\* The gate permits an action; a revocation it has heard of stops it.
Permit ==
    /\ question = "revocation" /\ heardAt = NULL
    /\ Len(hops) < MaxHops
    /\ hops' = Append(hops, now)
    /\ UNCHANGED <<question, now, approvalVars, revokedAt, heardAt, delivered, horizons>>

Revoke ==
    /\ question = "revocation" /\ revokedAt = NULL
    /\ revokedAt' = now
    /\ UNCHANGED <<question, now, approvalVars, hops, heardAt, delivered, horizons>>

Hear ==
    /\ revokedAt # NULL /\ heardAt = NULL
    /\ heardAt' = now
    /\ UNCHANGED <<question, now, approvalVars, hops, revokedAt, delivered, horizons>>

\* The ledger the observer reads shows the next action.
Deliver ==
    /\ delivered < Len(hops)
    /\ delivered' = delivered + 1
    /\ UNCHANGED <<question, now, approvalVars, hops, revokedAt, heardAt, horizons>>

\* What an observer of a window writes down.  The code takes any number: the
\* promised window, the time since the revocation, or less.
Observed(window) ==
    [session_id |-> "session", revoke_signal_entry_hash |-> revokedAt,
     last_permitted_action_entry_hash |-> IF delivered = 0 THEN NULL ELSE delivered,
     horizon_ms |-> HorizonMs, horizon_ms_observed |-> window,
     revoke_signal_timestamp_ms |-> revokedAt,
     last_permitted_action_timestamp_ms |-> IF delivered = 0 THEN NULL ELSE hops[delivered]]

Observe(window) ==
    /\ revokedAt # NULL
    /\ Cardinality(horizons) < MaxRecords
    /\ horizons' = horizons \cup
         {[document |-> buildRevocationHorizonDocument(Observed(window)), seen |-> delivered]}
    /\ UNCHANGED <<question, now, approvalVars, hops, revokedAt, heardAt, delivered>>

Next ==
    \/ Tick \/ VerifyJws \/ Evaluate
    \/ \E a \in Actions, p \in Policies, t \in Times : Approve(a, p, t)
    \/ \E a \in Actions, p \in Policies \cup {NULL}, j \in Signed, w \in Presented :
         Submit(a, p, j, w)
    \/ Permit \/ Revoke \/ Hear \/ Deliver
    \/ \E window \in Times \cup {HorizonMs} : Observe(window)

Spec == Init /\ [][Next]_vars

-----------------------------------------------------------------------------
(* Properties *)

\* An action is bound on a signature only to an approval a person signed for
\* exactly this action, under the policy asked for, which had not run out when
\* the binding was evaluated; whatever else was shown beside it and however
\* long the caller waited in between (evaluateHitlCryptoBinding).
BoundWasApproved ==
    \A v \in verdicts :
      (v.result.verdict = "BOUND" /\ v.signed) =>
        \E p \in Policies, t \in v.at..MaxTime :
          /\ Witness(case.ctx, p, t) \in approvals
          /\ case.ctx.policy \in {NULL, p}

\* Where the evidence is one witness, signed or not, a later check of it never
\* binds what an earlier one refused, and drops what an earlier one bound only
\* once the witness has run out.
RetryOnlyExpires ==
    \A v, w \in verdicts :
      (/\ NULL \in {case.witness_payload, case.approval_witness_jws}
       /\ v.at <= w.started) =>
        /\ w.result.ok => v.result.ok
        /\ (v.result.ok /\ ~w.result.ok) =>
             \A x \in {At(case.approval_witness_jws, "payload"), case.witness_payload} \ {NULL} :
               x.time_bound_expiry < w.at

\* The window a document was observed over, and whether an action fell in it.
Window(h) == h.document.horizon_ms_observed
InWindow(h, i) == hops[i] > revokedAt /\ hops[i] - revokedAt <= Window(h)

\* An attestation that nothing was permitted after the revocation is true of
\* every action the ledger had shown by then, to the last moment of the window;
\* the one exception is a last action beyond the window, which is all the code
\* looks at (evaluateRevocationHorizon).
QuietWasQuiet ==
    \A h \in horizons :
      h.document.attestation = "WITHIN_SLA" =>
        \/ \A i \in 1..h.seen : hops[i] <= revokedAt
        \/ hops[h.seen] - revokedAt > Window(h)

\* A violation is never attested of a gate that stopped in time: some action the
\* ledger had shown came after the revocation and within the window, and before
\* the gate had heard.  A gate that heard at once is never accused, whatever it
\* permitted up to that moment (evaluateRevocationHorizon).
ViolationWasLate ==
    \A h \in horizons :
      h.document.attestation = "VIOLATION" =>
        \E i \in 1..h.seen :
          /\ InWindow(h, i)
          /\ heardAt # NULL => heardAt > revokedAt /\ hops[i] <= heardAt
=============================================================================
