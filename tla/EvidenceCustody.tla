--------------------------- MODULE EvidenceCustody ---------------------------
(***************************************************************************)
(* A document between the builder that issued it and the verifier that is  *)
(* asked about it.  Custody may lose a field, mix in a field of another    *)
(* document of the same kind, do either to a part of a field, or turn a    *)
(* list round; it never computes a digest.  A producer of its own may seal *)
(* what it holds again (Reissue), whatever it then claims.                 *)
(***************************************************************************)
EXTENDS EvidenceDocument, SequencesExt

CONSTANTS Kinds,                \* kinds of document
          Tags,                 \* the issues of a kind
          Issue(_, _),          \* the document issued for a kind and a tag
          Verifies(_, _, _),    \* the verifier of a kind, with its options
          Options(_),           \* the options a kind's verifier is run with
          Reseal(_, _),         \* the document under a digest of its own
          Parts(_),             \* fields of a kind that are records
          Lists(_),             \* fields of a kind that are sequences
          Promised(_, _),       \* the part of a document its verifier vouches for
          Earned(_, _),         \* what the document says of itself is so
          MaxFaults

ASSUME EvidenceCustodyAssumption == MaxFaults \in Nat

\* NULL is none of the verdicts.
ASSUME NullAssumption == NULL \notin BOOLEAN

VARIABLES kind, issued, held, faults, resealed, verdict

vars == <<kind, issued, held, faults, resealed, verdict>>

TypeOK ==
    /\ kind \in Kinds
    /\ DOMAIN issued = Tags
    /\ \A t \in Tags : DOMAIN held = DOMAIN issued[t]
    /\ faults \in 0..MaxFaults
    /\ resealed \in BOOLEAN
    /\ verdict \in BOOLEAN \cup {NULL}

Init ==
    /\ kind \in Kinds
    /\ issued = [t \in Tags |-> Issue(kind, t)]
    /\ held \in {issued[t] : t \in Tags}
    /\ faults = 0
    /\ resealed = FALSE
    /\ verdict = NULL

Alter(doc) ==
    /\ verdict = NULL
    /\ faults < MaxFaults
    /\ doc # held
    /\ held' = doc
    /\ faults' = faults + 1
    /\ UNCHANGED <<kind, issued, resealed, verdict>>

Lose(f) == Alter([held EXCEPT ![f] = NULL])

LosePart(f, g) == Alter([held EXCEPT ![f][g] = NULL])

HasPart(t, f, g) == issued[t][f] # NULL /\ g \in DOMAIN issued[t][f]

\* A field of another document of the kind, issued for t.
MixIn(f, t) == Alter([held EXCEPT ![f] = issued[t][f]])

MixInPart(f, g, t) == Alter([held EXCEPT ![f][g] = issued[t][f][g]])

Turn(f) == Alter([held EXCEPT ![f] = Reverse(@)])

\* A producer seals what it holds.
Reissue ==
    /\ verdict = NULL
    /\ ~resealed
    /\ held' = Reseal(kind, held)
    /\ resealed' = TRUE
    /\ UNCHANGED <<kind, issued, faults, verdict>>

Verify(options) ==
    /\ verdict = NULL
    /\ verdict' = Verifies(kind, held, options)
    /\ UNCHANGED <<kind, issued, held, faults, resealed>>

Next ==
    \/ \E f \in DOMAIN held : Lose(f) \/ \E t \in Tags : MixIn(f, t)
    \/ \E f \in Parts(kind) :
         /\ held[f] # NULL
         /\ \E g \in DOMAIN held[f] :
              LosePart(f, g) \/ \E t \in Tags : HasPart(t, f, g) /\ MixInPart(f, g, t)
    \/ \E f \in Lists(kind) : held[f] # NULL /\ Turn(f)
    \/ Reissue
    \/ \E o \in Options(kind) : Verify(o)

Spec == Init /\ [][Next]_vars

-----------------------------------------------------------------------------
(* Properties *)

\* x is what was issued, or was lost, in whole or in part.
Left(f, x, whole) ==
    \/ x \in {NULL, whole}
    \/ /\ f \in Parts(kind) /\ whole # NULL
       /\ \A g \in DOMAIN x : x[g] = NULL \/ (g \in DOMAIN whole /\ x[g] = whole[g])

\* Whatever custody lost or mixed in, what a verifier vouches for of a document
\* it accepts was issued together: nothing in it is of another document.
AcceptedWasIssuedTogether ==
    (verdict = TRUE /\ ~resealed) =>
      \E t \in Tags :
        LET whole == Promised(kind, issued[t])
            vouched == Promised(kind, held)
        IN \A f \in DOMAIN vouched : Left(f, vouched[f], whole[f])

\* A document nobody touched is accepted: builder and verifier agree on what
\* is sealed and in which form.
UntouchedVerifies == (verdict # NULL /\ faults = 0) => verdict = TRUE

\* What an accepted document says of itself is so, even when it was sealed by a
\* producer of its own: the verifier goes by the evidence and not by the word.
ClaimsAreEarned == verdict = TRUE => Earned(kind, held)
=============================================================================
