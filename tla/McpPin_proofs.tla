--------------------------- MODULE McpPin_proofs ---------------------------
(***************************************************************************)
(* Proofs about the pinned manifest, for any set of processes, server ids  *)
(* and tools lists and any number of crashes: its types, that what is      *)
(* admitted was pinned, that one list is accepted unless two calls         *)
(* overlapped, that a settled pin is final, and that the file is the       *)
(* trust-on-first-use pin of TofuPin.                                      *)
(***************************************************************************)
EXTENDS McpPin, TLAPS

Busy(p) == call[p] # NULL

Manifests == [serverId : Server, tools : ToolsLists]

\* What the file holds was written to it.
WrittenInv == file \notin NotManifest => file.tools \in written

\* Without an overlap, one call at most is past its load, before anything
\* was accepted; what was accepted since is what the file holds.
SoleInv ==
    ~overlapped =>
      /\ \A p, q \in Process : Busy(p) /\ Busy(q) => p = q
      /\ \A p \in Process : Busy(p) =>
           /\ accepted = {} /\ file \in NotManifest
           /\ call[p].stage = "write" => file = Torn
      /\ \A l \in accepted : file \notin NotManifest /\ file.tools = l

\* The inductive invariant.
IInv == TypeOK /\ WrittenInv /\ AdmittedWasPinned /\ SoleInv

-----------------------------------------------------------------------------
\* A manifest is none of the values that stand for its absence.
LEMMA ManifestIsOne ==
    ASSUME NEW s \in Server, NEW l \in ToolsLists
    PROVE  /\ buildAttestMcpManifest(s, l) \in Manifests
           /\ buildAttestMcpManifest(s, l) \notin NotManifest
           /\ buildAttestMcpManifest(s, l).tools = l
  BY McpPinAssumption DEF buildAttestMcpManifest, Manifests, NotManifest

\* What a readable load yields.
LEMMA LoadIs ==
    ASSUME Readable(file)
    PROVE  /\ file # Torn
           /\ load(file) = NULL <=> file \in {Absent, Foreign} \cup {NULL}
           /\ load(file) # NULL => load(file) = file /\ file \notin NotManifest
<1> USE DEF Readable, load
<1>1. CASE file \in {Absent, Foreign}
  BY <1>1, McpPinAssumption
<1>2. CASE file \notin {Absent, Foreign}
  BY <1>2 DEF NotManifest
<1> QED
  BY <1>1, <1>2

\* What the decision of a call says of the file.
LEMMA DecisionIs ==
    ASSUME TypeOK, NEW tools \in ToolsLists, Readable(file)
    PROVE  LET decision == verifyOrPinToolsList(tools, load(file))
           IN /\ decision = "pin" => file \in {Absent, Foreign}
              /\ decision = "verified" => file \notin NotManifest /\ file.tools = tools
<1>1. file # NULL
  BY McpPinAssumption DEF TypeOK, NotManifest
<1> QED
  BY <1>1, LoadIs DEF verifyOrPinToolsList

-----------------------------------------------------------------------------
\* The initial states satisfy the invariant.
LEMMA IInvInit == Init => IInv
<1> SUFFICES ASSUME Init PROVE IInv
  OBVIOUS
<1>1. TypeOK
  <2>1. crashes \in 0..MaxCrashes
    BY McpPinAssumption DEF Init
  <2> QED
    BY <2>1 DEF Init, TypeOK, NotManifest
<1>2. WrittenInv /\ AdmittedWasPinned
  BY DEF Init, WrittenInv, AdmittedWasPinned, NotManifest
<1>3. SoleInv
  BY DEF Init, SoleInv, Busy
<1> QED
  BY <1>1, <1>2, <1>3 DEF IInv

\* A call that reads the file keeps the invariant: it accepts what the file
\* holds, or is the first to find no pin, or overlaps.
LEMMA IInvLoad ==
    ASSUME IInv, NEW p \in Process, NEW s \in Server, NEW tools \in ToolsLists,
           Load(p, s, tools)
    PROVE  IInv'
<1> DEFINE decision == verifyOrPinToolsList(tools, load(file))
           started == [server |-> s, tools |-> tools, stage |-> "pin"]
<1> USE DEF IInv
<1>1. /\ call[p] = NULL /\ Readable(file)
      /\ call' = IF decision # "pin" THEN call ELSE [call EXCEPT ![p] = started]
      /\ accepted' = IF decision = "verified" THEN accepted \cup {tools} ELSE accepted
      /\ overlapped' = (overlapped \/ (decision = "pin" /\ \E q \in Process : call[q] # NULL))
      /\ UNCHANGED <<file, crashes, written, admitted, named>>
  BY DEF Load
<1>2. /\ decision = "pin" => file \in {Absent, Foreign}
      /\ decision = "verified" => file \notin NotManifest /\ file.tools = tools
  BY <1>1, DecisionIs
<1> HIDE DEF decision
<1>3. TypeOK'
  BY <1>1 DEF TypeOK
<1>4. WrittenInv' /\ AdmittedWasPinned'
  BY <1>1 DEF WrittenInv, AdmittedWasPinned
<1>5. SoleInv'
  <2>1. CASE decision = "pin"
    <3> SUFFICES ASSUME ~overlapped' PROVE SoleInv'
      BY DEF SoleInv
    <3>1. ~overlapped /\ \A q \in Process : call[q] = NULL
      BY <1>1, <2>1
    <3>2. accepted = {} /\ file \in NotManifest
      BY <1>2, <2>1, <3>1 DEF SoleInv, NotManifest
    <3>3. \A q \in Process : q # p => call'[q] = NULL
      BY <1>1, <2>1, <3>1 DEF TypeOK
    <3>4. call'[p].stage = "pin"
      BY <1>1, <2>1 DEF TypeOK
    <3> QED
      BY <1>1, <2>1, <3>2, <3>3, <3>4 DEF SoleInv, Busy
  <2>2. CASE decision = "verified"
    BY <1>1, <1>2, <2>2 DEF SoleInv, Busy
  <2>3. CASE decision \notin {"pin", "verified"}
    BY <1>1, <2>3 DEF SoleInv, Busy
  <2> QED
    BY <2>1, <2>2, <2>3
<1> QED
  BY <1>3, <1>4, <1>5

\* Opening the file to write keeps the invariant.
LEMMA IInvTruncate ==
    ASSUME IInv, NEW p \in Process, Truncate(p)
    PROVE  IInv'
<1> USE DEF IInv, Truncate
<1>1. TypeOK'
  BY DEF TypeOK, NotManifest
<1>2. WrittenInv' /\ AdmittedWasPinned'
  BY DEF WrittenInv, AdmittedWasPinned, NotManifest
<1>3. SoleInv'
  <2>1. /\ \A q \in Process : q # p => call'[q] = call[q]
        /\ Busy(p) /\ overlapped' = overlapped /\ accepted' = accepted
    BY DEF TypeOK, Busy
  <2>2. file' = Torn /\ Torn \in NotManifest
    BY DEF NotManifest
  <2> QED
    BY <2>1, <2>2 DEF SoleInv, Busy
<1> QED
  BY <1>1, <1>2, <1>3

\* Writing the manifest keeps the invariant: alone, it replaces a torn file.
LEMMA IInvWrite ==
    ASSUME IInv, NEW p \in Process, Write(p)
    PROVE  IInv'
<1> DEFINE mine == buildAttestMcpManifest(call[p].server, call[p].tools)
<1> USE DEF IInv
<1>1. call[p].server \in Server /\ call[p].tools \in ToolsLists /\ call[p].stage = "write"
  BY DEF Write, TypeOK
<1>2. mine \in Manifests /\ mine \notin NotManifest /\ mine.tools = call[p].tools
  BY <1>1, ManifestIsOne
<1>3. /\ call[p] # NULL
      /\ file' \in {mine} \cup (IF file \in {Torn, mine} THEN {} ELSE {Torn})
      /\ written' = written \cup {call[p].tools}
      /\ accepted' = accepted \cup {call[p].tools}
      /\ call' = [call EXCEPT ![p] = NULL]
      /\ UNCHANGED <<crashes, admitted, named, overlapped>>
  BY DEF Write
<1> HIDE DEF mine
<1>4. TypeOK'
  BY <1>1, <1>2, <1>3 DEF TypeOK, Manifests, NotManifest
<1>5. WrittenInv'
  BY <1>2, <1>3 DEF WrittenInv, NotManifest
<1>6. AdmittedWasPinned'
  BY <1>3 DEF AdmittedWasPinned
<1>7. SoleInv'
  <2> SUFFICES ASSUME ~overlapped' PROVE SoleInv'
    BY DEF SoleInv
  <2>1. accepted = {} /\ file = Torn /\ \A q \in Process : Busy(q) => q = p
    BY <1>1, <1>3 DEF SoleInv, Busy
  <2>2. file' = mine /\ accepted' = {call[p].tools}
    BY <1>3, <2>1
  <2>3. \A q \in Process : ~Busy(q)'
    BY <1>3, <2>1 DEF Busy, TypeOK
  <2> QED
    BY <1>2, <2>2, <2>3 DEF SoleInv
<1> QED
  BY <1>4, <1>5, <1>6, <1>7

\* A process that dies leaves the file as it was.
LEMMA IInvCrash ==
    ASSUME IInv, NEW p \in Process, Crash(p)
    PROVE  IInv'
<1> USE DEF IInv, Crash
<1>1. TypeOK'
  BY McpPinAssumption DEF TypeOK
<1>2. WrittenInv' /\ AdmittedWasPinned'
  BY DEF WrittenInv, AdmittedWasPinned
<1>3. \A q \in Process : Busy(q)' => Busy(q) /\ call'[q] = call[q]
  BY DEF TypeOK, Busy
<1>4. SoleInv'
  BY <1>3 DEF SoleInv
<1> QED
  BY <1>1, <1>2, <1>4

\* The gates admit only what the file holds, and change nothing else.
LEMMA IInvGates ==
    ASSUME IInv, NEW p \in Process,
           \/ \E t \in Tool : assertToolCall(p, t)
           \/ \E n \in Names(Tool) : assertToolNameAllowed(p, n)
    PROVE  IInv'
<1> USE DEF IInv
<1>1. /\ Readable(file) /\ load(file) # NULL
      /\ UNCHANGED <<file, call, crashes, written, accepted, overlapped>>
      /\ admitted' \subseteq admitted \cup (load(file).tools \cap Tool)
      /\ named' \subseteq named \cup (Names(load(file).tools) \cap Names(Tool))
  BY DEF assertToolCall, assertToolNameAllowed, verifyToolAgainstManifest
<1>2. load(file) = file /\ file.tools \in written
  BY <1>1, LoadIs DEF WrittenInv
<1>3. TypeOK'
  BY <1>1 DEF TypeOK
<1>4. WrittenInv' /\ SoleInv'
  BY <1>1 DEF WrittenInv, SoleInv, Busy
<1>5. AdmittedWasPinned'
  BY <1>1, <1>2 DEF AdmittedWasPinned
<1> QED
  BY <1>3, <1>4, <1>5

\* Every step keeps the invariant.
LEMMA IInvNext == IInv /\ [Next]_vars => IInv'
<1> SUFFICES ASSUME IInv, [Next]_vars PROVE IInv'
  OBVIOUS
<1>1. CASE UNCHANGED vars
  BY <1>1 DEF vars, IInv, TypeOK, WrittenInv, AdmittedWasPinned, SoleInv, Busy
<1>2. CASE Next
  <2> PICK p \in Process :
        \/ \E s \in Server, l \in ToolsLists : Load(p, s, l)
        \/ Truncate(p) \/ Write(p) \/ Crash(p)
        \/ \E t \in Tool : assertToolCall(p, t)
        \/ \E n \in Names(Tool) : assertToolNameAllowed(p, n)
    BY <1>2 DEF Next
  <2> QED
    BY IInvLoad, IInvTruncate, IInvWrite, IInvCrash, IInvGates
<1> QED
  BY <1>1, <1>2

\* The invariant holds of every run, fair or not.
THEOREM Invariance == Spec => []IInv
  BY IInvInit, IInvNext, PTL DEF Spec

-----------------------------------------------------------------------------
\* The file is always absent, unreadable, of another schema or a manifest,
\* and what the histories hold was offered.
THEOREM TypeCorrect == Spec => []TypeOK
<1>1. IInv => TypeOK
  BY DEF IInv
<1> QED
  BY <1>1, Invariance, PTL

\* The gates (assertToolCall, assertToolNameAllowed) admit only tools of a
\* list some process pinned, for any processes, ids, lists and crashes.
THEOREM AdmissionsArePinned == Spec => []AdmittedWasPinned
<1>1. IInv => AdmittedWasPinned
  BY DEF IInv
<1> QED
  BY <1>1, Invariance, PTL

\* Without two calls that both found no pin, assertToolsList accepts one
\* list ever, for any number of processes and crashes.
THEOREM OneListAccepted == Spec => []OneListUnlessOverlap
<1>1. IInv => OneListUnlessOverlap
  BY DEF IInv, SoleInv, OneListUnlessOverlap
<1> QED
  BY <1>1, Invariance, PTL

\* A file that is written, with nobody left who found none, never changes:
\* no later call of any process pins again or breaks it.
THEOREM SettledPinStays == Spec => SettledPinIsFinal
<1>1. IInv /\ [Next]_vars => [Settled => (Settled' /\ file' = file)]_vars
  <2> SUFFICES ASSUME IInv, Next, Settled PROVE Settled' /\ file' = file
    BY DEF vars
  <2>1. file \notin {Absent, Foreign} /\ \A p \in Process : call[p] = NULL
    BY DEF Settled
  <2>2. SUFFICES file' = file /\ call' = call
    BY <2>1 DEF Settled
  <2>3. ASSUME NEW p \in Process, NEW s \in Server, NEW l \in ToolsLists, Load(p, s, l)
        PROVE  file' = file /\ call' = call
    <3>1. TypeOK /\ Readable(file)
      BY <2>3 DEF IInv, Load
    <3>2. verifyOrPinToolsList(l, load(file)) # "pin"
      BY <2>1, <3>1, DecisionIs
    <3> QED
      BY <2>3, <3>2 DEF Load
  <2> QED
    BY <2>1, <2>3 DEF Next, Truncate, Write, Crash, assertToolCall, assertToolNameAllowed
<1> QED
  BY <1>1, Invariance, PTL DEF Spec, SettledPinIsFinal

-----------------------------------------------------------------------------
\* What the refinement maps the file to.
PinOf(f) == CASE f \in {Absent, Foreign} -> Absent
              [] f = Torn -> Torn
              [] OTHER -> f.tools

\* Where no manifest is found the pin is none.
LEMMA PinOfNone ==
    ASSUME NEW f \in {Absent, Foreign}
    PROVE  PinOf(f) = Absent
  BY McpPinAssumption DEF PinOf

Contenders == { [process |-> p, tools |-> call[p].tools] :
                  p \in {q \in Process : call[q] # NULL} }

\* A step of the registry is a step of the abstract pin, or changes neither
\* the pin nor its contenders.
LEMMA StepRefines ==
    ASSUME IInv, [Next]_vars
    PROVE  [Pin!PinNext]_(Pin!pinVars)
<1> USE DEF IInv
<1>0. /\ Pin!pinVars = <<PinOf(file), Contenders>>
      /\ Pin!pinVars' = <<PinOf(file)', Contenders'>>
  BY DEF Pin!pinVars, PinOf, Contenders
<1>1. CASE UNCHANGED vars
  BY <1>0, <1>1 DEF vars, PinOf, Contenders
<1>2. ASSUME NEW p \in Process, NEW s \in Server, NEW l \in ToolsLists, Load(p, s, l)
      PROVE  [Pin!PinNext]_(Pin!pinVars)
  <2> DEFINE decision == verifyOrPinToolsList(l, load(file))
  <2>1. CASE decision # "pin"
    BY <1>0, <1>2, <2>1 DEF Load, PinOf, Contenders
  <2>2. CASE decision = "pin"
    <3>1. file \in {Absent, Foreign} /\ file' = file /\ call[p] = NULL
      BY <1>2, <2>2, DecisionIs DEF Load
    <3>2. call' = [call EXCEPT ![p] = [server |-> s, tools |-> l, stage |-> "pin"]]
      BY <1>2, <2>2 DEF Load
    <3>3. Contenders' = Contenders \cup {[process |-> p, tools |-> l]}
      BY <3>1, <3>2, McpPinAssumption DEF Contenders, TypeOK
    <3>4. PinOf(file) = Absent /\ PinOf(file)' = PinOf(file)
      BY <3>1, PinOfNone DEF PinOf
    <3>5. \A c \in Contenders : c.process # p
      BY <3>1 DEF Contenders
    <3>6. Pin!Contend(p, l)
      BY <3>3, <3>4, <3>5 DEF Pin!Contend, PinOf, Contenders
    <3> QED
      BY <3>6 DEF Pin!PinNext
  <2> QED
    BY <2>1, <2>2
<1>3. ASSUME NEW p \in Process, Truncate(p)
      PROVE  [Pin!PinNext]_(Pin!pinVars)
  <2> DEFINE c == [process |-> p, tools |-> call[p].tools]
  <2>1. c \in Contenders
    BY <1>3 DEF Truncate, Contenders
  <2>2. Contenders' = Contenders
    <3>1. \A q \in Process : /\ call'[q] # NULL <=> call[q] # NULL
                             /\ call[q] # NULL => call'[q].tools = call[q].tools
      BY <1>3, McpPinAssumption DEF Truncate, TypeOK
    <3> QED
      BY <3>1 DEF Contenders
  <2>3. PinOf(file)' = Torn
    BY <1>3, McpPinAssumption DEF Truncate, PinOf
  <2>4. Pin!Overwrite(c)
    BY <2>1, <2>2, <2>3 DEF Pin!Overwrite, PinOf, Contenders
  <2> QED
    BY <2>1, <2>4 DEF Pin!PinNext, Pin!Overwrite, Contenders
<1>4. ASSUME NEW p \in Process, call[p] # NULL, call' = [call EXCEPT ![p] = NULL]
      PROVE  /\ [process |-> p, tools |-> call[p].tools] \in Contenders
             /\ Contenders' = Contenders \ {[process |-> p, tools |-> call[p].tools]}
  BY <1>4 DEF Contenders, TypeOK
<1>5. ASSUME NEW p \in Process, Write(p)
      PROVE  [Pin!PinNext]_(Pin!pinVars)
  <2> DEFINE c == [process |-> p, tools |-> call[p].tools]
             mine == buildAttestMcpManifest(call[p].server, call[p].tools)
  <2>1. c \in Contenders /\ Contenders' = Contenders \ {c}
    BY <1>4, <1>5 DEF Write
  <2>2. mine \notin NotManifest /\ mine.tools = call[p].tools /\ file' \in {mine, Torn}
    BY <1>5, ManifestIsOne DEF Write, TypeOK
  <2>3. PinOf(file)' \in {c.tools, Torn}
    BY <2>2, McpPinAssumption DEF PinOf, NotManifest
  <2>4. Pin!Settle(c)
    BY <2>1, <2>3 DEF Pin!Settle, PinOf, Contenders
  <2>5. c \in Contenders
    BY <2>1
  <2> QED
    BY <2>4, <2>5 DEF Pin!PinNext, Pin!Settle, Contenders
<1>6. ASSUME NEW p \in Process, Crash(p)
      PROVE  [Pin!PinNext]_(Pin!pinVars)
  <2> DEFINE c == [process |-> p, tools |-> call[p].tools]
  <2>1. c \in Contenders /\ Contenders' = Contenders \ {c} /\ PinOf(file)' = PinOf(file)
    BY <1>4, <1>6 DEF Crash, PinOf
  <2>2. Pin!GiveUp(c)
    BY <2>1 DEF Pin!GiveUp, PinOf, Contenders
  <2>3. c \in Contenders
    BY <2>1
  <2> QED
    BY <2>2, <2>3 DEF Pin!PinNext, Pin!GiveUp, Contenders
<1>7. ASSUME NEW p \in Process, NEW t \in Tool, assertToolCall(p, t)
      PROVE  [Pin!PinNext]_(Pin!pinVars)
  BY <1>0, <1>7 DEF assertToolCall, PinOf, Contenders
<1>8. ASSUME NEW p \in Process, NEW n \in Names(Tool), assertToolNameAllowed(p, n)
      PROVE  [Pin!PinNext]_(Pin!pinVars)
  BY <1>0, <1>8 DEF assertToolNameAllowed, PinOf, Contenders
<1> QED
  BY <1>1, <1>2, <1>3, <1>5, <1>6, <1>7, <1>8 DEF Next

\* The file, its interleaved writers and its crashes implement the
\* trust-on-first-use pin: every run is one of TofuPin under the mapping.
THEOREM RegistryIsTofuPin == Spec => ImplementsTofuPin
<1>1. Init => Pin!PinInit
  <2> SUFFICES ASSUME Init PROVE Pin!PinInit
    OBVIOUS
  <2>1. PinOf(file) = Absent /\ Contenders = {}
    BY PinOfNone DEF Init, Contenders
  <2> QED
    BY <2>1 DEF Pin!PinInit, PinOf, Contenders
<1> QED
  BY <1>1, StepRefines, Invariance, PTL DEF Spec, ImplementsTofuPin, Pin!PinSpec
=============================================================================
