---------------------------- MODULE GateSession ----------------------------
(***************************************************************************)
(* A governed session: agents propose tools, the gate evaluates a proposal *)
(* against the steps recorded so far (evaluateCapabilityBudget) and the    *)
(* outcome is appended to the session's partial path with the budget the   *)
(* evaluation saw.  The gate that records steps is outside src/; what it   *)
(* calls is not.  Evaluation reads the steps it is given and recording     *)
(* comes later, so with several agents a step may be recorded between the  *)
(* two: each recorded step keeps `seen', the number of steps its           *)
(* evaluation was given.                                                   *)
(***************************************************************************)
EXTENDS CapabilityBudget

CONSTANTS Agent,      \* agents sharing the session
          MaxSteps    \* bound on recorded and pending steps

ASSUME MaxStepsAssumption == MaxSteps \in Nat

VARIABLES steps,      \* the partial path, in order of recording
          pending     \* Agent -> the proposal evaluated and not yet recorded, or NULL

vars == <<steps, pending>>

InFlight == {a \in Agent : pending[a] # NULL}

Evaluation == [ allow : BOOLEAN, budget : SUBSET CAPABILITY_SINKS,
                taintClass : {"confidential", "internal", NULL} ]
Proposal == [ tool_name : Tool, path_hint : PathHint, seen : 0..MaxSteps,
              evaluation : Evaluation ]
Commitment == [ sinks : SUBSET CAPABILITY_SINKS,
                taint_class : {"confidential", "internal", NULL},
                budget_state_hash :
                  [ sinks : SUBSET CAPABILITY_SINKS,
                    taint_class : {"confidential", "internal", NULL} ] ]
Step == [ tool_name : Tool, path_hint : PathHint, verdict : Verdict, seen : 0..MaxSteps,
          capability_budget : Commitment ]

Init ==
    /\ steps = <<>>
    /\ pending = [a \in Agent |-> NULL]

\* The gate evaluates the proposal of an agent against the steps recorded so far.
Evaluate(a, tool, hint) ==
    /\ pending[a] = NULL
    /\ Len(steps) + Cardinality(InFlight) < MaxSteps
    /\ pending' = [pending EXCEPT ![a] =
                     [ tool_name |-> tool, path_hint |-> hint, seen |-> Len(steps),
                       evaluation |-> evaluateCapabilityBudget(steps, tool) ]]
    /\ UNCHANGED steps

\* The outcome is recorded.  A blocked proposal is denied; an allowed one may
\* still be denied or escalated by the rest of the policy.
Record(a, verdict) ==
    /\ pending[a] # NULL
    /\ ~pending[a].evaluation.allow => verdict = "DENY"
    /\ steps' = Append(steps,
                  [ tool_name |-> pending[a].tool_name,
                    path_hint |-> pending[a].path_hint,
                    verdict |-> verdict,
                    seen |-> pending[a].seen,
                    capability_budget |->
                      buildCapabilityBudgetCommitment(pending[a].evaluation.budget,
                                                      pending[a].evaluation.taintClass) ])
    /\ pending' = [pending EXCEPT ![a] = NULL]

\* An agent goes away between the evaluation of its proposal and its record.
Abandon(a) ==
    /\ pending[a] # NULL
    /\ pending' = [pending EXCEPT ![a] = NULL]
    /\ UNCHANGED steps

Next ==
    \E a \in Agent :
       \/ \E tool \in Tool, hint \in PathHint : Evaluate(a, tool, hint)
       \/ \E verdict \in Verdict : Record(a, verdict)
       \/ Abandon(a)

Spec == Init /\ [][Next]_vars

-----------------------------------------------------------------------------
\* Type invariant: the path holds well-formed steps, each evaluated against
\* steps recorded before it, and the bound covers what is still pending.
TypeOK ==
    /\ steps \in Seq(Step)
    /\ pending \in [Agent -> Proposal \cup {NULL}]
    /\ \A j \in 1..Len(steps) : steps[j].seen < j
    /\ Len(steps) + Cardinality(InFlight) <= MaxSteps

\* Permission laundering is blocked (the message of evaluateCapabilityBudget):
\* no step that ran needs a sink closed by a tainted read its evaluation saw,
\* however many steps lie between the two and whoever made them.
NoLaundering ==
    \A j \in 1..Len(steps) :
       Counts(steps[j]) =>
         \A i \in TaintedAt(steps) :
            i <= steps[j].seen =>
              Sinks(steps[j].tool_name) \cap Cleared(StepTaint(steps[i])) = {}

\* Monotonic attenuation: recording a step never re-opens a sink for the next
\* proposal, whatever class of data the step read
\* (verifyBudgetMonotonicityFromPartialSteps replays exactly this).
BudgetNeverWidens ==
    [][deriveCapabilityBudgetFromSteps(steps').budget
         \subseteq deriveCapabilityBudgetFromSteps(steps).budget]_vars

\* verifyMonotonicBudgetAttenuation, given the budgets committed with the
\* steps, raises no false alarm in a session whose evaluations did not
\* overlap: a rejection means some step was recorded between another's
\* evaluation and its record.
RejectionMeansOverlap ==
    ~verifyMonotonicBudgetAttenuation([j \in 1..Len(steps) |-> steps[j].capability_budget])
      => \E j \in 1..Len(steps) : steps[j].seen # j - 1
=============================================================================
