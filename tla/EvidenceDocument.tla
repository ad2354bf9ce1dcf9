-------------------------- MODULE EvidenceDocument --------------------------
(***************************************************************************)
(* What the evidence documents of liability/ and core/ share.  A document  *)
(* is a record; a field that is missing, null or empty is NULL.  Its       *)
(* digest is sha256 over the canonical JSON of a preimage and is modelled  *)
(* by the preimage itself.  Lists a builder sorts are sets, so that a      *)
(* reader and a builder that sort differently still differ where the       *)
(* order counts.                                                           *)
(***************************************************************************)
EXTENDS JsNull, FiniteSets, Integers, SequencesExt, TLC

\* The fields are there and not empty.
Present(doc, fields) == \A f \in fields : doc[f] # NULL

\* x || d, x ?? d
Default(x, d) == IF x = NULL THEN d ELSE x

\* x?.f
At(x, f) == IF x = NULL THEN NULL ELSE x[f]

\* A payload of another party: a record of the fields it has.
Get(raw, f) == IF f \in DOMAIN raw THEN raw[f] ELSE NULL

\* raw.a || raw.b || ...
First(raw, names) ==
    LET some == {k \in DOMAIN names : Get(raw, names[k]) # NULL}
    IN IF some = {} THEN NULL ELSE raw[names[Min(some)]]

\* (xs || [])
Items(xs) == IF xs = NULL THEN {} ELSE xs
List(xs) == IF xs = NULL THEN <<>> ELSE xs

\* rows.filter((r) => r[f] === v), and the rows sorted by f (the sort is stable).
Where(rows, f, v) == SelectSeq(rows, LAMBDA r : r[f] = v)
SortedBy(rows, f) == [v \in {rows[k][f] : k \in DOMAIN rows} |-> Where(rows, f, v)]

\* The same rows in one sequence, for keys that are numbers.
OrderedBy(rows, f) ==
    LET by == SortedBy(rows, f)
        keys == SetToSortSeq(DOMAIN by, LAMBDA a, b : a < b)
    IN FlattenSeq([k \in DOMAIN keys |-> by[keys[k]]])

Without(doc, fields) == [f \in DOMAIN doc \ fields |-> doc[f]]
Only(doc, fields) == [f \in fields |-> doc[f]]

\* { ...doc, ...fields }: what TLC writes fields @@ doc.
Spread(doc, fields) ==
    [f \in DOMAIN doc \cup DOMAIN fields |-> IF f \in DOMAIN fields THEN fields[f] ELSE doc[f]]

\* { ...preimage, name: sha256HexUtf8(stableStringify(preimage)) }
Seal(preimage, name) ==
    [f \in DOMAIN preimage \cup {name} |-> IF f = name THEN preimage ELSE preimage[f]]

\* The digest is that of the rest of the document.
Sealed(doc, name) == doc[name] = Without(doc, {name})
=============================================================================
