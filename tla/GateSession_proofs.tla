------------------------- MODULE GateSession_proofs -------------------------
(***************************************************************************)
(* Proofs about the governed session, for any set of agents and tools, any *)
(* naming tests and any bound on steps: its types, that the gate blocks    *)
(* permission laundering, that recording a step never widens the budget,   *)
(* and that the check over committed budgets refuses a session only when   *)
(* evaluations overlapped.                                                 *)
(***************************************************************************)
EXTENDS GateSession, FiniteSetTheorems, WellFoundedInduction, TLAPS

TaintClasses == {"confidential", "internal", NULL}

\* Classifying a tool gives one of the two taint classes or none.
LEMMA TaintClassType ==
    ASSUME NEW tool, NEW hint
    PROVE  TaintClass(tool, hint) \in TaintClasses
  BY DEF TaintClass, TaintClasses

\* What evaluating a proposal yields, whatever the steps are.
LEMMA EvaluationType ==
    ASSUME NEW prior, NEW tool
    PROVE  evaluateCapabilityBudget(prior, tool) \in Evaluation
<1> DEFINE derived == deriveCapabilityBudgetFromSteps(prior)
<1>1. derived.budget \in SUBSET CAPABILITY_SINKS
  BY DEF deriveCapabilityBudgetFromSteps
<1>2. derived.taintClass \in TaintClasses
  BY TaintClassType DEF deriveCapabilityBudgetFromSteps, StepTaint, TaintClasses
<1> QED
  BY <1>1, <1>2 DEF evaluateCapabilityBudget, Evaluation, TaintClasses

\* Appending a step leaves the tainted steps before it where they are.
LEMMA TaintedAppend ==
    ASSUME NEW S, NEW path \in Seq(S), NEW step \in S
    PROVE  /\ TaintedAt(path) \subseteq TaintedAt(Append(path, step))
           /\ \A i \in TaintedAt(Append(path, step)) :
                i <= Len(path) => i \in TaintedAt(path)
           /\ \A i \in 1..Len(path) : Append(path, step)[i] = path[i]
<1>1. Len(Append(path, step)) = Len(path) + 1 /\ Len(path) \in Nat
  OBVIOUS
<1>2. \A i \in 1..Len(path) : Append(path, step)[i] = path[i]
  OBVIOUS
<1> QED
  BY <1>1, <1>2 DEF TaintedAt

\* A session's budget only shrinks as steps are appended.
LEMMA BudgetAppend ==
    ASSUME NEW S, NEW path \in Seq(S), NEW step \in S
    PROVE  deriveCapabilityBudgetFromSteps(Append(path, step)).budget
             \subseteq deriveCapabilityBudgetFromSteps(path).budget
<1>1. /\ TaintedAt(path) \subseteq TaintedAt(Append(path, step))
      /\ \A i \in TaintedAt(path) : Append(path, step)[i] = path[i]
  BY TaintedAppend DEF TaintedAt
<1> QED
  BY <1>1 DEF deriveCapabilityBudgetFromSteps

-----------------------------------------------------------------------------
\* The offline replay of a partial path finds the budget attenuated whatever
\* the path holds: verifyBudgetMonotonicityFromPartialSteps cannot fail.
THEOREM ReplayNeverFails ==
    ASSUME NEW S, NEW path \in Seq(S)
    PROVE  verifyBudgetMonotonicityFromPartialSteps(path)
<1> SUFFICES ASSUME NEW i \in 1..Len(path)
             PROVE  deriveCapabilityBudgetFromSteps(SubSeq(path, 1, i)).budget
                      \subseteq deriveCapabilityBudgetFromSteps(SubSeq(path, 1, i - 1)).budget
  BY DEF verifyBudgetMonotonicityFromPartialSteps
<1> DEFINE longer == SubSeq(path, 1, i)
           shorter == SubSeq(path, 1, i - 1)
<1>1. /\ Len(path) \in Nat
      /\ Len(longer) = i
      /\ Len(shorter) = i - 1
  OBVIOUS
<1>2. \A k \in 1..(i - 1) : longer[k] = path[k] /\ shorter[k] = path[k]
  OBVIOUS
<1>3. TaintedAt(shorter) \subseteq TaintedAt(longer)
  BY <1>1, <1>2 DEF TaintedAt
<1>4. \A k \in TaintedAt(shorter) : shorter[k] = longer[k]
  BY <1>1, <1>2 DEF TaintedAt
<1> QED
  BY <1>3, <1>4 DEF deriveCapabilityBudgetFromSteps

-----------------------------------------------------------------------------
\* The counting part of the type invariant needs what is pending to be finite.
TypeInv == TypeOK /\ IsFiniteSet(InFlight)

\* An empty session is well typed.
LEMMA TypeInvInit == Init => TypeInv
<1> SUFFICES ASSUME Init PROVE TypeInv
  OBVIOUS
<1>1. InFlight = {}
  BY DEF Init, InFlight
<1>2. IsFiniteSet(InFlight) /\ Cardinality(InFlight) = 0
  BY <1>1, FS_EmptySet
<1>3. steps \in Seq(Step) /\ Len(steps) = 0
  BY DEF Init
<1> QED
  BY <1>2, <1>3, MaxStepsAssumption DEF Init, TypeInv, TypeOK

\* Consequences of the type invariant used by every action.
LEMMA TypeInvFacts ==
    ASSUME TypeInv
    PROVE  /\ Len(steps) \in Nat
           /\ Cardinality(InFlight) \in Nat
           /\ Len(steps) + Cardinality(InFlight) <= MaxSteps
           /\ MaxSteps \in Nat
  BY FS_CardinalityType, MaxStepsAssumption DEF TypeInv, TypeOK

\* Evaluating a proposal keeps the types and the bound.
LEMMA TypeInvEvaluate ==
    ASSUME TypeInv, NEW a \in Agent, NEW tool \in Tool, NEW hint \in PathHint,
           Evaluate(a, tool, hint)
    PROVE  TypeInv'
<1> USE TypeInvFacts
<1> DEFINE proposal == [ tool_name |-> tool, path_hint |-> hint, seen |-> Len(steps),
                         evaluation |-> evaluateCapabilityBudget(steps, tool) ]
<1>1. proposal \in Proposal
  <2>1. Len(steps) \in 0..MaxSteps
    OBVIOUS
  <2> QED
    BY <2>1, EvaluationType DEF Proposal
<1>2. pending' = [pending EXCEPT ![a] = proposal] /\ steps' = steps
  BY DEF Evaluate
<1>3. pending' \in [Agent -> Proposal \cup {NULL}]
  BY <1>1, <1>2 DEF TypeInv, TypeOK
<1>4. InFlight' \subseteq InFlight \cup {a}
  BY <1>2 DEF InFlight, TypeInv, TypeOK
<1>5. /\ IsFiniteSet(InFlight')
      /\ Cardinality(InFlight') <= Cardinality(InFlight) + 1
  <2>1. a \notin InFlight
    BY DEF Evaluate, InFlight
  <2>2. /\ IsFiniteSet(InFlight \cup {a})
        /\ Cardinality(InFlight \cup {a}) = Cardinality(InFlight) + 1
    BY <2>1, FS_AddElement DEF TypeInv
  <2> QED
    BY <1>4, <2>2, FS_Subset
<1>6. Cardinality(InFlight') \in Nat
  BY <1>5, FS_CardinalityType
<1>7. Len(steps) + Cardinality(InFlight) < MaxSteps
  BY DEF Evaluate
<1>8. Len(steps') + Cardinality(InFlight') <= MaxSteps
  BY <1>2, <1>5, <1>6, <1>7
<1> QED
  BY <1>2, <1>3, <1>5, <1>8 DEF TypeInv, TypeOK

\* Both ways a proposal ends take the agent out of flight.
LEMMA InFlightRemoved ==
    ASSUME TypeInv, NEW a \in Agent, pending[a] # NULL,
           pending' = [pending EXCEPT ![a] = NULL]
    PROVE  /\ pending' \in [Agent -> Proposal \cup {NULL}]
           /\ IsFiniteSet(InFlight')
           /\ Cardinality(InFlight') = Cardinality(InFlight) - 1
<1>1. pending' \in [Agent -> Proposal \cup {NULL}]
  BY DEF TypeInv, TypeOK
<1>2. InFlight' = InFlight \ {a} /\ a \in InFlight
  BY DEF InFlight, TypeInv, TypeOK
<1> QED
  BY <1>1, <1>2, FS_RemoveElement DEF TypeInv

\* Abandoning a proposal keeps the types and frees its place in the bound.
LEMMA TypeInvAbandon ==
    ASSUME TypeInv, NEW a \in Agent, Abandon(a)
    PROVE  TypeInv'
<1>1. pending[a] # NULL /\ pending' = [pending EXCEPT ![a] = NULL] /\ steps' = steps
  BY DEF Abandon
<1>2. /\ pending' \in [Agent -> Proposal \cup {NULL}]
      /\ IsFiniteSet(InFlight')
      /\ Cardinality(InFlight') = Cardinality(InFlight) - 1
  BY <1>1, InFlightRemoved
<1>3. Len(steps') + Cardinality(InFlight') <= MaxSteps
  BY <1>1, <1>2, TypeInvFacts
<1> QED
  BY <1>1, <1>2, <1>3 DEF TypeInv, TypeOK

\* The step Record appends.
RecordedStep(a, verdict) ==
    [ tool_name |-> pending[a].tool_name,
      path_hint |-> pending[a].path_hint,
      verdict |-> verdict,
      seen |-> pending[a].seen,
      capability_budget |->
        buildCapabilityBudgetCommitment(pending[a].evaluation.budget,
                                        pending[a].evaluation.taintClass) ]

\* What Record appends is a step.
LEMMA RecordedStepType ==
    ASSUME TypeInv, NEW a \in Agent, NEW verdict \in Verdict, pending[a] # NULL
    PROVE  RecordedStep(a, verdict) \in Step
<1>1. pending[a] \in Proposal
  BY DEF TypeInv, TypeOK
<1>2. buildCapabilityBudgetCommitment(pending[a].evaluation.budget,
                                      pending[a].evaluation.taintClass) \in Commitment
  BY <1>1 DEF Proposal, Evaluation, buildCapabilityBudgetCommitment, Commitment
<1> QED
  BY <1>1, <1>2 DEF Proposal, Step, RecordedStep

\* Record appends exactly that step.
LEMMA RecordAppends ==
    ASSUME NEW a \in Agent, NEW verdict \in Verdict, Record(a, verdict)
    PROVE  /\ pending[a] # NULL
           /\ steps' = Append(steps, RecordedStep(a, verdict))
           /\ pending' = [pending EXCEPT ![a] = NULL]
  BY DEF Record, RecordedStep

\* Recording keeps the types: a place in flight becomes a recorded step.
LEMMA TypeInvRecord ==
    ASSUME TypeInv, NEW a \in Agent, NEW verdict \in Verdict, Record(a, verdict),
           pending[a].seen <= Len(steps)
    PROVE  TypeInv'
<1> DEFINE step == RecordedStep(a, verdict)
<1>1. /\ pending[a] # NULL
      /\ steps' = Append(steps, step)
      /\ pending' = [pending EXCEPT ![a] = NULL]
  BY RecordAppends
<1>2. step \in Step
  BY <1>1, RecordedStepType
<1>3. /\ steps' \in Seq(Step)
      /\ Len(steps') = Len(steps) + 1
      /\ steps'[Len(steps) + 1] = step
      /\ \A j \in 1..Len(steps) : steps'[j] = steps[j]
  BY <1>1, <1>2 DEF TypeInv, TypeOK
<1>4. \A j \in 1..Len(steps') : steps'[j].seen < j
  <2> SUFFICES ASSUME NEW j \in 1..Len(steps') PROVE steps'[j].seen < j
    OBVIOUS
  <2>1. CASE j \in 1..Len(steps)
    BY <2>1, <1>3 DEF TypeInv, TypeOK
  <2>2. CASE j = Len(steps) + 1
    <3>1. step.seen = pending[a].seen /\ step.seen \in Nat
      BY <1>2 DEF RecordedStep, Step
    <3> QED
      BY <2>2, <3>1, <1>3, TypeInvFacts
  <2> QED
    BY <2>1, <2>2, <1>3, TypeInvFacts
<1>5. /\ pending' \in [Agent -> Proposal \cup {NULL}]
      /\ IsFiniteSet(InFlight')
      /\ Cardinality(InFlight') = Cardinality(InFlight) - 1
  BY <1>1, InFlightRemoved
<1>6. Len(steps') + Cardinality(InFlight') <= MaxSteps
  BY <1>3, <1>5, TypeInvFacts
<1> QED
  BY <1>3, <1>4, <1>5, <1>6 DEF TypeInv, TypeOK

-----------------------------------------------------------------------------
\* No tainted step among the first k closes a sink this tool needs.
OpenAfter(path, k, tool) ==
    \A i \in TaintedAt(path) :
       i <= k => Sinks(tool) \cap Cleared(StepTaint(path[i])) = {}

\* NoLaundering is not inductive: what a pending proposal was allowed on must
\* still be true of the steps it saw when it is recorded.
PendingSound ==
    \A a \in Agent : pending[a] # NULL =>
       /\ pending[a].seen <= Len(steps)
       /\ pending[a].evaluation.allow
            => OpenAfter(steps, pending[a].seen, pending[a].tool_name)

IInv == TypeInv /\ PendingSound /\ NoLaundering

\* The gate allows a tool only when no tainted step closes a sink it needs.
LEMMA AllowedIsOpen ==
    ASSUME NEW path, NEW tool, evaluateCapabilityBudget(path, tool).allow, NEW k
    PROVE  OpenAfter(path, k, tool)
  BY DEF evaluateCapabilityBudget, deriveCapabilityBudgetFromSteps,
         attenuateBudgetForTaint, OpenAfter

\* Steps recorded later do not bear on what an evaluation saw.
LEMMA OpenAfterAppend ==
    ASSUME NEW S, NEW path \in Seq(S), NEW step \in S, NEW k \in Nat, k <= Len(path),
           NEW tool, OpenAfter(path, k, tool)
    PROVE  OpenAfter(Append(path, step), k, tool)
<1> SUFFICES ASSUME NEW i \in TaintedAt(Append(path, step)), i <= k
             PROVE  Sinks(tool) \cap Cleared(StepTaint(Append(path, step)[i])) = {}
  BY DEF OpenAfter
<1>1. i \in Nat /\ Len(path) \in Nat
  BY DEF TaintedAt
<1>2. i <= Len(path)
  BY <1>1
<1>3. i \in TaintedAt(path)
  BY <1>2, TaintedAppend
<1>4. Append(path, step)[i] = path[i]
  BY <1>3, TaintedAppend DEF TaintedAt
<1> QED
  BY <1>3, <1>4 DEF OpenAfter

\* The invariant holds of an empty session.
LEMMA IInvInit == Init => IInv
  BY TypeInvInit DEF Init, IInv, PendingSound, NoLaundering

\* A fresh evaluation is sound for the steps it saw.
LEMMA IInvEvaluate ==
    ASSUME IInv, NEW a \in Agent, NEW tool \in Tool, NEW hint \in PathHint,
           Evaluate(a, tool, hint)
    PROVE  IInv'
<1>1. TypeInv'
  BY TypeInvEvaluate DEF IInv
<1>2. PendingSound'
  <2> SUFFICES ASSUME NEW b \in Agent, pending'[b] # NULL
               PROVE  /\ pending'[b].seen <= Len(steps')
                      /\ pending'[b].evaluation.allow
                           => OpenAfter(steps', pending'[b].seen, pending'[b].tool_name)
    BY DEF PendingSound
  <2>1. steps' = steps /\ pending \in [Agent -> Proposal \cup {NULL}]
    BY DEF Evaluate, IInv, TypeInv, TypeOK
  <2>2. CASE b = a
    <3>1. /\ pending'[b].seen = Len(steps)
          /\ pending'[b].tool_name = tool
          /\ pending'[b].evaluation = evaluateCapabilityBudget(steps, tool)
      BY <2>1, <2>2 DEF Evaluate
    <3> QED
      BY <2>1, <3>1, AllowedIsOpen, TypeInvFacts DEF IInv
  <2>3. CASE b # a
    <3>1. pending'[b] = pending[b]
      BY <2>1, <2>3 DEF Evaluate
    <3> QED
      BY <2>1, <3>1 DEF IInv, PendingSound
  <2> QED
    BY <2>2, <2>3
<1>3. NoLaundering'
  BY DEF Evaluate, IInv, NoLaundering
<1> QED
  BY <1>1, <1>2, <1>3 DEF IInv

\* Abandoning a proposal records nothing.
LEMMA IInvAbandon ==
    ASSUME IInv, NEW a \in Agent, Abandon(a)
    PROVE  IInv'
<1>1. TypeInv'
  BY TypeInvAbandon DEF IInv
<1>2. PendingSound'
  BY DEF Abandon, IInv, TypeInv, TypeOK, PendingSound
<1>3. NoLaundering'
  BY DEF Abandon, IInv, NoLaundering
<1> QED
  BY <1>1, <1>2, <1>3 DEF IInv

\* Recording a sound evaluation launders nothing, and leaves the others sound.
LEMMA IInvRecord ==
    ASSUME IInv, NEW a \in Agent, NEW verdict \in Verdict, Record(a, verdict)
    PROVE  IInv'
<1> DEFINE step == RecordedStep(a, verdict)
<1>1. /\ pending[a] # NULL
      /\ steps' = Append(steps, step)
      /\ pending' = [pending EXCEPT ![a] = NULL]
      /\ ~pending[a].evaluation.allow => verdict = "DENY"
  BY RecordAppends DEF Record
<1>2. /\ steps \in Seq(Step)
      /\ step \in Step
      /\ Len(steps) \in Nat
      /\ pending \in [Agent -> Proposal \cup {NULL}]
  BY <1>1, RecordedStepType DEF IInv, TypeInv, TypeOK
<1>3. /\ Len(steps') = Len(steps) + 1
      /\ steps'[Len(steps) + 1] = step
      /\ \A j \in 1..Len(steps) : steps'[j] = steps[j]
  BY <1>1, <1>2
<1>4. TypeInv'
  BY <1>1, TypeInvRecord DEF IInv, PendingSound
<1>5. PendingSound'
  <2> SUFFICES ASSUME NEW b \in Agent, pending'[b] # NULL
               PROVE  /\ pending'[b].seen <= Len(steps')
                      /\ pending'[b].evaluation.allow
                           => OpenAfter(steps', pending'[b].seen, pending'[b].tool_name)
    BY DEF PendingSound
  <2>1. pending'[b] = pending[b] /\ pending[b] \in Proposal
    BY <1>1, <1>2
  <2>2. pending[b].seen \in Nat /\ pending[b].seen <= Len(steps)
    BY <2>1 DEF IInv, PendingSound, Proposal
  <2>3. pending[b].evaluation.allow
          => OpenAfter(steps, pending[b].seen, pending[b].tool_name)
    BY <2>1 DEF IInv, PendingSound
  <2> QED
    BY <1>1, <1>2, <1>3, <2>1, <2>2, <2>3, OpenAfterAppend
<1>6. NoLaundering'
  <2> SUFFICES ASSUME NEW j \in 1..Len(steps'), Counts(steps'[j])
               PROVE  OpenAfter(steps', steps'[j].seen, steps'[j].tool_name)
    BY DEF NoLaundering, OpenAfter
  <2>1. CASE j \in 1..Len(steps)
    <3>1. steps'[j] = steps[j] /\ Counts(steps[j])
      BY <2>1, <1>3
    <3>2. OpenAfter(steps, steps[j].seen, steps[j].tool_name)
      BY <2>1, <3>1 DEF IInv, NoLaundering, OpenAfter
    <3>3. steps[j].seen \in Nat /\ steps[j].seen <= Len(steps)
      <4>1. steps[j] \in Step
        BY <2>1, <1>2
      <4>2. steps[j].seen \in 0..MaxSteps
        BY <4>1 DEF Step
      <4>3. steps[j].seen < j
        BY <2>1 DEF IInv, TypeInv, TypeOK
      <4> QED
        BY <2>1, <1>2, <4>2, <4>3, MaxStepsAssumption
    <3> QED
      BY <1>1, <1>2, <3>1, <3>2, <3>3, OpenAfterAppend
  <2>2. CASE j = Len(steps) + 1
    <3>1. /\ steps'[j] = step
          /\ step.seen = pending[a].seen
          /\ step.tool_name = pending[a].tool_name
          /\ step.verdict = verdict
      BY <2>2, <1>3 DEF RecordedStep
    <3>2. pending[a].evaluation.allow
      BY <1>1, <3>1 DEF Counts
    <3>3. /\ pending[a].seen \in Nat /\ pending[a].seen <= Len(steps)
          /\ OpenAfter(steps, pending[a].seen, pending[a].tool_name)
      BY <1>1, <1>2, <3>2 DEF IInv, PendingSound, Proposal
    <3> QED
      BY <1>1, <1>2, <3>1, <3>3, OpenAfterAppend
  <2> QED
    BY <2>1, <2>2, <1>2, <1>3
<1> QED
  BY <1>4, <1>5, <1>6 DEF IInv

\* Every step of a session preserves the invariant.
LEMMA IInvNext == IInv /\ [Next]_vars => IInv'
<1> SUFFICES ASSUME IInv, [Next]_vars PROVE IInv'
  OBVIOUS
<1>1. CASE UNCHANGED vars
  BY <1>1 DEF vars, IInv, TypeInv, TypeOK, InFlight, PendingSound, NoLaundering
<1>2. ASSUME NEW a \in Agent, NEW tool \in Tool, NEW hint \in PathHint,
             Evaluate(a, tool, hint)
      PROVE  IInv'
  BY <1>2, IInvEvaluate
<1>3. ASSUME NEW a \in Agent, NEW verdict \in Verdict, Record(a, verdict) PROVE IInv'
  BY <1>3, IInvRecord
<1>4. ASSUME NEW a \in Agent, Abandon(a) PROVE IInv'
  BY <1>4, IInvAbandon
<1> QED
  BY <1>1, <1>2, <1>3, <1>4 DEF Next

\* The invariant holds of every session.
THEOREM Invariance == Spec => []IInv
  BY IInvInit, IInvNext, PTL DEF Spec

\* Every state of a session is well typed, each step was evaluated against
\* steps recorded before it, and the bound covers what is pending.
THEOREM TypeCorrect == Spec => []TypeOK
<1>1. IInv => TypeOK
  BY DEF IInv, TypeInv
<1> QED
  BY <1>1, Invariance, PTL

\* The gate (evaluateCapabilityBudget) blocks permission laundering among any
\* number of agents, in sessions of any length.
THEOREM LaunderingBlocked == Spec => []NoLaundering
<1>1. IInv => NoLaundering
  BY DEF IInv
<1> QED
  BY <1>1, Invariance, PTL

\* No step of a session re-opens a sink: attenuation is monotonic whatever is
\* recorded and in whatever order.
THEOREM AttenuationMonotonic == Spec => BudgetNeverWidens
<1> DEFINE Narrows == deriveCapabilityBudgetFromSteps(steps').budget
                        \subseteq deriveCapabilityBudgetFromSteps(steps).budget
<1>1. IInv /\ [Next]_vars => [Narrows]_vars
  <2> SUFFICES ASSUME IInv, Next PROVE Narrows
    OBVIOUS
  <2>1. ASSUME NEW a \in Agent, NEW tool \in Tool, NEW hint \in PathHint,
               Evaluate(a, tool, hint)
        PROVE  Narrows
    BY <2>1 DEF Evaluate
  <2>2. ASSUME NEW a \in Agent, NEW verdict \in Verdict, Record(a, verdict)
        PROVE  Narrows
    <3>1. RecordedStep(a, verdict) \in Step /\ steps \in Seq(Step)
      BY <2>2, RecordAppends, RecordedStepType DEF IInv, TypeInv, TypeOK
    <3> QED
      BY <2>2, <3>1, RecordAppends, BudgetAppend
  <2>3. ASSUME NEW a \in Agent, Abandon(a) PROVE Narrows
    BY <2>3 DEF Abandon
  <2> QED
    BY <2>1, <2>2, <2>3 DEF Next
<1> QED
  BY <1>1, Invariance, PTL DEF Spec, BudgetNeverWidens

-----------------------------------------------------------------------------
(* The check over committed budgets is a recursive function, so what it finds
   is proved by induction, with a set for the induction hypothesis. *)

\* The order of the natural numbers as a set of pairs is well founded.
LEMMA LessIsWellFounded == IsWellFoundedOn({p \in Nat \X Nat : p[1] < p[2]}, Nat)
  BY NatLessThanWellFounded DEF OpToRel

\* A set that holds 0, and with a number the next one, holds every number.
LEMMA SetInduction ==
    ASSUME NEW S, 0 \in S, \A n \in Nat : n \in S => n + 1 \in S
    PROVE  \A n \in Nat : n \in S
<1> DEFINE less == {p \in Nat \X Nat : p[1] < p[2]}
           missing == {n \in Nat : n \notin S}
<1> SUFFICES ASSUME missing # {} PROVE FALSE
  OBVIOUS
<1>1. PICK m \in missing : \A n \in missing : <<n, m>> \notin less
  <2>1. IsWellFoundedOn(less, Nat) /\ missing \subseteq Nat
    BY LessIsWellFounded
  <2> HIDE DEF less, missing
  <2> QED
    BY <2>1, WFMin
<1>2. m \in Nat /\ m # 0 /\ m - 1 \in Nat
  OBVIOUS
<1>3. <<m - 1, m>> \in less
  BY <1>2
<1>4. m - 1 \in S
  BY <1>1, <1>2, <1>3
<1> QED
  BY <1>2, <1>4

\* What the check intersects as it goes over the first n blocks.
IsPrior(prior, blocks, n) ==
    prior = [i \in 0..n |-> IF i = 0 THEN CAPABILITY_SINKS
                            ELSE prior[i - 1] \cap blocks[i].sinks]

\* There is such a function for any number of blocks.
LEMMA PriorExists == ASSUME NEW blocks PROVE \A n \in Nat : \E prior : IsPrior(prior, blocks, n)
<1> DEFINE S == {n \in Nat : \E prior : IsPrior(prior, blocks, n)}
<1>1. 0 \in S
  <2>1. IsPrior([i \in 0..0 |-> CAPABILITY_SINKS], blocks, 0)
    BY DEF IsPrior
  <2> QED
    BY <2>1
<1>2. ASSUME NEW n \in Nat, n \in S PROVE n + 1 \in S
  <2>1. PICK f : IsPrior(f, blocks, n)
    BY <1>2
  <2> DEFINE g == [i \in 0..(n + 1) |-> IF i <= n THEN f[i]
                                         ELSE f[n] \cap blocks[n + 1].sinks]
  <2>2. \A i \in 0..n : f[i] = IF i = 0 THEN CAPABILITY_SINKS
                               ELSE f[i - 1] \cap blocks[i].sinks
    BY <2>1 DEF IsPrior
  <2>3. \A i \in 0..(n + 1) : g[i] = IF i = 0 THEN CAPABILITY_SINKS
                                     ELSE g[i - 1] \cap blocks[i].sinks
    <3> SUFFICES ASSUME NEW i \in 0..(n + 1)
                 PROVE  g[i] = IF i = 0 THEN CAPABILITY_SINKS
                               ELSE g[i - 1] \cap blocks[i].sinks
      OBVIOUS
    <3>1. \A k \in 0..n : g[k] = f[k]
      OBVIOUS
    <3>2. g[n + 1] = f[n] \cap blocks[n + 1].sinks
      OBVIOUS
    <3> HIDE DEF g
    <3>3. CASE i = 0
      <4>1. 0 \in 0..n
        OBVIOUS
      <4>2. f[0] = CAPABILITY_SINKS
        BY <2>2, <4>1
      <4> QED
        BY <3>1, <3>3, <4>1, <4>2
    <3>4. CASE i \in 1..n
      <4>1. i - 1 \in 0..n /\ i \in 0..n /\ i # 0
        BY <3>4
      <4> QED
        BY <2>2, <3>1, <4>1
    <3>5. CASE i = n + 1
      <4>1. (n + 1) - 1 = n /\ n \in 0..n /\ n + 1 # 0
        OBVIOUS
      <4> QED
        BY <3>1, <3>2, <3>5, <4>1
    <3> QED
      BY <3>3, <3>4, <3>5
  <2>4. IsPrior(g, blocks, n + 1)
    BY <2>3 DEF IsPrior
  <2> QED
    BY <2>4
<1>3. \A n \in Nat : n \in S
  <2> HIDE DEF S
  <2> QED
    BY <1>1, <1>2, SetInduction
<1> QED
  BY <1>3

\* The older check (verifyMonotonicBudgetAttenuation) accepts every sequence of
\* committed budgets that shrinks from block to block, however long it is.
THEOREM ShrinkingBlocksAccepted ==
    ASSUME NEW T, NEW blocks \in Seq(T),
           \A i \in 1..Len(blocks) : blocks[i].sinks \subseteq CAPABILITY_SINKS,
           \A i, j \in 1..Len(blocks) : i <= j => blocks[j].sinks \subseteq blocks[i].sinks
    PROVE  verifyMonotonicBudgetAttenuation(blocks)
<1> DEFINE n == Len(blocks)
           prior == CHOOSE f : IsPrior(f, blocks, n)
           S == {i \in Nat : i <= n => \A j \in (i + 1)..n : blocks[j].sinks \subseteq prior[i]}
<1>1. n \in Nat
  OBVIOUS
<1>2. IsPrior(prior, blocks, n)
  BY <1>1, PriorExists
<1>3. \A i \in 0..n : prior[i] = IF i = 0 THEN CAPABILITY_SINKS
                                 ELSE prior[i - 1] \cap blocks[i].sinks
  BY <1>2 DEF IsPrior
<1> HIDE DEF prior
<1>4. 0 \in S
  <2>1. 0 \in 0..n
    BY <1>1
  <2>2. prior[0] = CAPABILITY_SINKS
    BY <1>3, <2>1
  <2> QED
    BY <2>2
<1>5. ASSUME NEW i \in Nat, i \in S PROVE i + 1 \in S
  <2> SUFFICES ASSUME i + 1 <= n, NEW j \in (i + 2)..n
               PROVE  blocks[j].sinks \subseteq prior[i + 1]
    OBVIOUS
  <2>1. blocks[j].sinks \subseteq prior[i]
    BY <1>1, <1>5
  <2>2. blocks[j].sinks \subseteq blocks[i + 1].sinks
    BY <1>1
  <2>3. prior[i + 1] = prior[i] \cap blocks[i + 1].sinks
    <3>1. i + 1 \in 0..n /\ i + 1 # 0 /\ (i + 1) - 1 = i
      BY <1>1
    <3> QED
      BY <1>3, <3>1
  <2> QED
    BY <2>1, <2>2, <2>3
<1>6. \A i \in Nat : i \in S
  <2> HIDE DEF S
  <2> QED
    BY <1>4, <1>5, SetInduction
<1>7. \A i \in 1..n : blocks[i].sinks \subseteq prior[i - 1]
  <2> SUFFICES ASSUME NEW i \in 1..n PROVE blocks[i].sinks \subseteq prior[i - 1]
    OBVIOUS
  <2>1. i - 1 \in Nat /\ i - 1 <= n /\ i \in ((i - 1) + 1)..n
    BY <1>1
  <2> QED
    BY <1>6, <2>1
<1> QED
  BY <1>7 DEF verifyMonotonicBudgetAttenuation, IsPrior, prior

-----------------------------------------------------------------------------
\* The budget left by the first k steps of a path.
BudgetAfter(path, k) ==
    {s \in CAPABILITY_SINKS :
       \A i \in TaintedAt(path) :
          i <= k => s \in attenuateBudgetForTaint(CAPABILITY_SINKS, StepTaint(path[i]))}

\* Each recorded step and each pending proposal carries the budget of exactly
\* the steps its evaluation was given.
CommitmentsTrue ==
    /\ \A j \in 1..Len(steps) :
         steps[j].capability_budget.sinks = BudgetAfter(steps, steps[j].seen)
    /\ \A a \in Agent : pending[a] # NULL =>
         pending[a].evaluation.budget = BudgetAfter(steps, pending[a].seen)

\* Steps recorded later do not bear on the budget of the first k.
LEMMA BudgetAfterAppend ==
    ASSUME NEW S, NEW path \in Seq(S), NEW step \in S, NEW k \in Nat, k <= Len(path)
    PROVE  BudgetAfter(Append(path, step), k) = BudgetAfter(path, k)
<1> DEFINE longer == Append(path, step)
<1>1. TaintedAt(path) \subseteq Nat /\ TaintedAt(longer) \subseteq Nat /\ Len(path) \in Nat
  BY DEF TaintedAt
<1>2. \A i \in Nat : i <= k => (i \in TaintedAt(longer) <=> i \in TaintedAt(path))
  BY <1>1, TaintedAppend
<1>3. \A i \in TaintedAt(path) : longer[i] = path[i]
  BY TaintedAppend DEF TaintedAt
<1> QED
  BY <1>1, <1>2, <1>3 DEF BudgetAfter

\* No step is pending or recorded in an empty session.
LEMMA CommitmentsInit == Init => CommitmentsTrue
  BY DEF Init, CommitmentsTrue

\* An evaluation yields the budget of the steps it is given.
LEMMA CommitmentsEvaluate ==
    ASSUME IInv, CommitmentsTrue, NEW a \in Agent, NEW tool \in Tool, NEW hint \in PathHint,
           Evaluate(a, tool, hint)
    PROVE  CommitmentsTrue'
<1>1. steps' = steps /\ pending \in [Agent -> Proposal \cup {NULL}] /\ Len(steps) \in Nat
  BY TypeInvFacts DEF Evaluate, IInv, TypeInv, TypeOK
<1>2. \A i \in TaintedAt(steps) : i <= Len(steps)
  BY <1>1 DEF TaintedAt
<1>3. ASSUME NEW b \in Agent, pending'[b] # NULL
      PROVE  pending'[b].evaluation.budget = BudgetAfter(steps, pending'[b].seen)
  <2>1. CASE b = a
    <3>1. /\ pending'[b].seen = Len(steps)
          /\ pending'[b].evaluation = evaluateCapabilityBudget(steps, tool)
      BY <1>1, <2>1 DEF Evaluate
    <3>2. evaluateCapabilityBudget(steps, tool).budget = BudgetAfter(steps, Len(steps))
      BY <1>2 DEF evaluateCapabilityBudget, deriveCapabilityBudgetFromSteps, BudgetAfter
    <3> QED
      BY <3>1, <3>2
  <2>2. CASE b # a
    <3>1. pending'[b] = pending[b]
      BY <1>1, <2>2 DEF Evaluate
    <3> QED
      BY <1>3, <3>1 DEF CommitmentsTrue
  <2> QED
    BY <2>1, <2>2
<1> QED
  BY <1>1, <1>3 DEF CommitmentsTrue

\* Recording commits what the evaluation saw.
LEMMA CommitmentsRecord ==
    ASSUME IInv, CommitmentsTrue, NEW a \in Agent, NEW verdict \in Verdict,
           Record(a, verdict)
    PROVE  CommitmentsTrue'
<1> DEFINE step == RecordedStep(a, verdict)
<1>1. /\ pending[a] # NULL
      /\ steps' = Append(steps, step)
      /\ pending' = [pending EXCEPT ![a] = NULL]
  BY RecordAppends
<1>2. /\ steps \in Seq(Step)
      /\ step \in Step
      /\ Len(steps) \in Nat
      /\ pending \in [Agent -> Proposal \cup {NULL}]
  BY <1>1, RecordedStepType DEF IInv, TypeInv, TypeOK
<1>3. /\ Len(steps') = Len(steps) + 1
      /\ steps'[Len(steps) + 1] = step
      /\ \A j \in 1..Len(steps) : steps'[j] = steps[j]
  BY <1>1, <1>2
<1>4. \A b \in Agent : pending[b] # NULL =>
        /\ pending[b].seen \in Nat /\ pending[b].seen <= Len(steps)
        /\ pending[b].evaluation.budget = BudgetAfter(steps', pending[b].seen)
  <2> SUFFICES ASSUME NEW b \in Agent, pending[b] # NULL
               PROVE  /\ pending[b].seen \in Nat /\ pending[b].seen <= Len(steps)
                      /\ pending[b].evaluation.budget = BudgetAfter(steps', pending[b].seen)
    OBVIOUS
  <2>1. pending[b].seen \in Nat /\ pending[b].seen <= Len(steps)
    BY <1>2 DEF IInv, PendingSound, Proposal
  <2>2. BudgetAfter(steps', pending[b].seen) = BudgetAfter(steps, pending[b].seen)
    BY <1>1, <1>2, <2>1, BudgetAfterAppend
  <2> QED
    BY <2>1, <2>2 DEF CommitmentsTrue
<1>5. ASSUME NEW j \in 1..Len(steps')
      PROVE  steps'[j].capability_budget.sinks = BudgetAfter(steps', steps'[j].seen)
  <2>1. CASE j \in 1..Len(steps)
    <3>1. steps[j] \in Step /\ steps[j].seen < j
      BY <1>2, <2>1 DEF IInv, TypeInv, TypeOK
    <3>2. steps[j].seen \in Nat
      BY <3>1, MaxStepsAssumption DEF Step
    <3>3. steps[j].seen <= Len(steps)
      BY <1>2, <2>1, <3>1, <3>2
    <3>4. BudgetAfter(steps', steps[j].seen) = BudgetAfter(steps, steps[j].seen)
      BY <1>1, <1>2, <3>2, <3>3, BudgetAfterAppend
    <3> QED
      BY <1>3, <2>1, <3>4 DEF CommitmentsTrue
  <2>2. CASE j = Len(steps) + 1
    <3>1. /\ step.seen = pending[a].seen
          /\ step.capability_budget.sinks = pending[a].evaluation.budget
      BY DEF RecordedStep, buildCapabilityBudgetCommitment
    <3> QED
      BY <1>1, <1>3, <1>4, <2>2, <3>1
  <2> QED
    BY <1>2, <1>3, <2>1, <2>2
<1>6. ASSUME NEW b \in Agent, pending'[b] # NULL
      PROVE  pending'[b].evaluation.budget = BudgetAfter(steps', pending'[b].seen)
  BY <1>1, <1>2, <1>4, <1>6
<1> QED
  BY <1>5, <1>6 DEF CommitmentsTrue

\* Every step of a session keeps the commitments true.
LEMMA CommitmentsNext == IInv /\ CommitmentsTrue /\ [Next]_vars => CommitmentsTrue'
<1> SUFFICES ASSUME IInv, CommitmentsTrue, [Next]_vars PROVE CommitmentsTrue'
  OBVIOUS
<1>1. CASE UNCHANGED vars
  BY <1>1 DEF vars, CommitmentsTrue, BudgetAfter
<1>2. ASSUME NEW a \in Agent, NEW tool \in Tool, NEW hint \in PathHint,
             Evaluate(a, tool, hint)
      PROVE  CommitmentsTrue'
  BY <1>2, CommitmentsEvaluate
<1>3. ASSUME NEW a \in Agent, NEW verdict \in Verdict, Record(a, verdict)
      PROVE  CommitmentsTrue'
  BY <1>3, CommitmentsRecord
<1>4. ASSUME NEW a \in Agent, Abandon(a) PROVE CommitmentsTrue'
  BY <1>4 DEF Abandon, IInv, TypeInv, TypeOK, CommitmentsTrue, BudgetAfter
<1> QED
  BY <1>1, <1>2, <1>3, <1>4 DEF Next

\* Without an overlap the j-th budget is that of the first j - 1 steps, and these
\* shrink.
LEMMA NoOverlapNoRejection ==
    ASSUME IInv, CommitmentsTrue
    PROVE  RejectionMeansOverlap
<1> SUFFICES ASSUME \A j \in 1..Len(steps) : steps[j].seen = j - 1
             PROVE  verifyMonotonicBudgetAttenuation(
                      [j \in 1..Len(steps) |-> steps[j].capability_budget])
  BY DEF RejectionMeansOverlap
<1> DEFINE blocks == [j \in 1..Len(steps) |-> steps[j].capability_budget]
<1>1. steps \in Seq(Step) /\ Len(steps) \in Nat
  BY DEF IInv, TypeInv, TypeOK
<1>2. blocks \in Seq(Commitment) /\ Len(blocks) = Len(steps)
  <2>1. \A j \in 1..Len(steps) : steps[j].capability_budget \in Commitment
    <3> SUFFICES ASSUME NEW j \in 1..Len(steps) PROVE steps[j].capability_budget \in Commitment
      OBVIOUS
    <3>1. steps[j] \in Step
      BY <1>1
    <3> QED
      BY <3>1 DEF Step
  <2> QED
    BY <1>1, <2>1
<1>3. \A j \in 1..Len(steps) : blocks[j].sinks = BudgetAfter(steps, j - 1)
  BY DEF CommitmentsTrue
<1>4. \A j \in 1..Len(steps) : blocks[j].sinks \subseteq CAPABILITY_SINKS
  BY <1>3 DEF BudgetAfter
<1>5. \A i, j \in 1..Len(steps) : i <= j => blocks[j].sinks \subseteq blocks[i].sinks
  <2> SUFFICES ASSUME NEW i \in 1..Len(steps), NEW j \in 1..Len(steps), i <= j
               PROVE  BudgetAfter(steps, j - 1) \subseteq BudgetAfter(steps, i - 1)
    BY <1>3
  <2>1. \A k \in TaintedAt(steps) : k <= i - 1 => k <= j - 1
    BY <1>1 DEF TaintedAt
  <2> QED
    BY <2>1 DEF BudgetAfter
<1> HIDE DEF blocks
<1>6. verifyMonotonicBudgetAttenuation(blocks)
  BY <1>2, <1>4, <1>5, ShrinkingBlocksAccepted
<1> QED
  BY <1>6 DEF blocks

\* The check over committed budgets raises no false alarm, in sessions of any
\* length: when it refuses one, a step was recorded between the evaluation of
\* another and its record.
THEOREM RejectionsAreOverlaps == Spec => []RejectionMeansOverlap
<1>1. Init => CommitmentsTrue
  BY CommitmentsInit
<1>2. IInv /\ CommitmentsTrue /\ [Next]_vars => CommitmentsTrue'
  BY CommitmentsNext
<1>3. IInv /\ CommitmentsTrue => RejectionMeansOverlap
  BY NoOverlapNoRejection
<1> QED
  BY <1>1, <1>2, <1>3, Invariance, PTL DEF Spec
=============================================================================
