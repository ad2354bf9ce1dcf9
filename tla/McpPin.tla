------------------------------- MODULE McpPin -------------------------------
(***************************************************************************)
(* AttestMcpManifestRegistry (mcp/attestMcpToolManifest.ts): processes     *)
(* that pin an MCP server's tool list on first use and gate tool calls on  *)
(* the pin.  The registry keeps one file per server id, written in place   *)
(* and without a lock; a process may die at any point of a call.           *)
(*                                                                         *)
(* Files are independent, so one is modelled, with the server ids that     *)
(* lead to it: manifestFilePath replaces every character that is not safe, *)
(* and load does not compare the id a manifest names.  A tool is a name    *)
(* and a normalised definition; a hash is modelled by its preimage.  The   *)
(* calls are synchronous: a process is in one of them at a time.           *)
(***************************************************************************)
EXTENDS JsNull, FiniteSets, Naturals

CONSTANTS Process,      \* processes of one registry directory
          Server,       \* server ids that share the file
          Tool,         \* [name, definition]
          ToolsLists,   \* answers to tools/list: sets of tools
          Foreign,      \* a file of another schema
          Absent, Torn, \* no file; a file that does not parse
          MaxCrashes    \* bound on processes dying

ASSUME McpPinAssumption ==
    /\ ToolsLists \subseteq SUBSET Tool
    /\ MaxCrashes \in Nat
    /\ Foreign # Absent /\ Torn # Absent /\ Torn # Foreign
    /\ NULL \notin {Absent, Torn, Foreign}
    /\ \A s \in Server, l \in ToolsLists :
         [serverId |-> s, tools |-> l] \notin {Absent, Torn, Foreign, NULL}
    /\ \A s \in Server, l \in ToolsLists, g \in {"pin", "write"} :
         [server |-> s, tools |-> l, stage |-> g] # NULL

VARIABLES file,        \* Absent, Torn, Foreign or a manifest
          call,        \* per process: the assertToolsList call it is in, or NULL
          crashes,     \* how many processes died within a call
          written,     \* history: lists written to the file
          accepted,    \* history: lists an assertToolsList call returned for
          admitted,    \* history: tools a call was admitted with
          named,       \* history: names admitted by name alone
          overlapped   \* history: two calls found no pin at the same time

vars == <<file, call, crashes, written, accepted, admitted, named, overlapped>>

Names(tools) == {t.name : t \in tools}

\* Mutant: one tool is not copied.
MutantBuildAttestMcpManifest(serverId, tools) ==
    [serverId |-> serverId, tools |-> tools \ {CHOOSE t \in tools : TRUE}]

\* toolsListHash and the pinned entries are functions of the list.
buildAttestMcpManifest(serverId, tools) == [serverId |-> serverId, tools |-> tools]

NotManifest == {Absent, Torn, Foreign}

\* Mutant: a file that does not parse counts as none.
MutantLoad(f) == IF f \in NotManifest THEN NULL ELSE f

\* The manifest, or NULL where there is none; a file that does not parse
\* throws, which every caller lets through (see Readable).
load(f) == IF f \in {Absent, Foreign} THEN NULL ELSE f

Readable(f) == load(f) # Torn

\* Mutant: drift is not refused.
MutantVerifyOrPinToolsList(tools, existing) ==
    IF existing = NULL THEN "pin" ELSE "verified"

\* "pin", "verified" or "drift".
verifyOrPinToolsList(tools, existing) ==
    CASE existing = NULL -> "pin"
      [] existing # NULL /\ existing.tools # tools -> "drift"
      [] OTHER -> "verified"

\* Mutant: a pinned name is enough.
MutantVerifyToolAgainstManifest(manifest, tool) == tool.name \in Names(manifest.tools)

verifyToolAgainstManifest(manifest, tool) == tool \in manifest.tools

-----------------------------------------------------------------------------

TypeOK ==
    /\ file \in NotManifest \cup [serverId : Server, tools : ToolsLists]
    /\ call \in [Process -> {NULL} \cup
                   [server : Server, tools : ToolsLists, stage : {"pin", "write"}]]
    /\ crashes \in 0..MaxCrashes
    /\ written \subseteq ToolsLists /\ accepted \subseteq ToolsLists
    /\ admitted \subseteq Tool /\ named \subseteq Names(Tool)
    /\ overlapped \in BOOLEAN

Init ==
    /\ file \in {Absent, Foreign}
    /\ call = [p \in Process |-> NULL]
    /\ crashes = 0
    /\ written = {} /\ accepted = {} /\ admitted = {} /\ named = {}
    /\ overlapped = FALSE

\* assertToolsList up to its decision: a readable pin is verified, and the
\* call returns or throws; without one it goes on to save.
Load(p, server, tools) ==
    /\ call[p] = NULL
    /\ Readable(file)
    /\ LET decision == verifyOrPinToolsList(tools, load(file))
       IN /\ call' = IF decision # "pin" THEN call
                     ELSE [call EXCEPT ![p] =
                             [server |-> server, tools |-> tools, stage |-> "pin"]]
          /\ accepted' = IF decision = "verified" THEN accepted \cup {tools} ELSE accepted
          /\ overlapped' = (overlapped \/ (decision = "pin"
                                             /\ \E q \in Process : call[q] # NULL))
    /\ UNCHANGED <<file, crashes, written, admitted, named>>

\* save: writeFileSync opens and truncates ...
Truncate(p) ==
    /\ call[p] # NULL /\ call[p].stage = "pin"
    /\ file' = Torn
    /\ call' = [call EXCEPT ![p].stage = "write"]
    /\ UNCHANGED <<crashes, written, accepted, admitted, named, overlapped>>

\* Mutant: the file is opened and nothing is written.
MutantWrite(p) ==
    /\ call[p] # NULL /\ call[p].stage = "write"
    /\ accepted' = accepted \cup {call[p].tools}
    /\ call' = [call EXCEPT ![p] = NULL]
    /\ UNCHANGED <<file, crashes, written, admitted, named, overlapped>>

\* ... then writes from the start of the file.  What another process wrote
\* since may be longer: its end then stays behind, and the file does not parse.
Write(p) ==
    /\ call[p] # NULL /\ call[p].stage = "write"
    /\ LET mine == buildAttestMcpManifest(call[p].server, call[p].tools)
       IN file' \in {mine} \cup (IF file \in {Torn, mine} THEN {} ELSE {Torn})
    /\ written' = written \cup {call[p].tools}
    /\ accepted' = accepted \cup {call[p].tools}
    /\ call' = [call EXCEPT ![p] = NULL]
    /\ UNCHANGED <<crashes, admitted, named, overlapped>>

\* The process dies within the call; what it wrote stays.
Crash(p) ==
    /\ call[p] # NULL
    /\ crashes < MaxCrashes
    /\ crashes' = crashes + 1
    /\ call' = [call EXCEPT ![p] = NULL]
    /\ UNCHANGED <<file, written, accepted, admitted, named, overlapped>>

\* The gate before tools/call, with the tool's whole definition.
assertToolCall(p, tool) ==
    /\ call[p] = NULL
    /\ Readable(file) /\ load(file) # NULL
    /\ verifyToolAgainstManifest(load(file), tool)
    /\ admitted' = admitted \cup {tool}
    /\ UNCHANGED <<file, call, crashes, written, accepted, named, overlapped>>

\* The gate that knows only the tool's name.
assertToolNameAllowed(p, name) ==
    /\ call[p] = NULL
    /\ Readable(file) /\ load(file) # NULL
    /\ name \in Names(load(file).tools)
    /\ named' = named \cup {name}
    /\ UNCHANGED <<file, call, crashes, written, accepted, admitted, overlapped>>

Next ==
    \E p \in Process :
      \/ \E s \in Server, l \in ToolsLists : Load(p, s, l)
      \/ Truncate(p) \/ Write(p) \/ Crash(p)
      \/ \E t \in Tool : assertToolCall(p, t)
      \/ \E n \in Names(Tool) : assertToolNameAllowed(p, n)

\* A process that is alive runs on: the call is synchronous.  Starting one
\* and dying are not promised.
Fairness == \A p \in Process : WF_vars(Truncate(p)) /\ WF_vars(Write(p))

Spec == Init /\ [][Next]_vars /\ Fairness

-----------------------------------------------------------------------------
(* Properties *)

\* A tool admitted to run, or a name admitted, is on a list that some
\* process wrote as the pin: whatever the interleaving of saves, crashes and
\* gates (assertToolCall, assertToolNameAllowed).
AdmittedWasPinned ==
    /\ \A t \in admitted : \E l \in written : t \in l
    /\ \A n \in named : \E l \in written : n \in Names(l)

\* Trust on first use: unless two calls found no pin at the same time, every
\* list ever accepted is the same list (assertToolsList).
OneListUnlessOverlap ==
    ~overlapped => \A l1, l2 \in accepted : l1 = l2

\* Some file was written, whole or torn, and nobody is left who found none.
Settled == file \notin {Absent, Foreign} /\ \A p \in Process : call[p] = NULL

\* From then on no call of any process finds no pin again, so the file never
\* changes: a pin is not replaced, and a torn file is not taken for none
\* (load, assertToolsList).
SettledPinIsFinal == [][Settled => (Settled' /\ file' = file)]_vars

\* A call that found no pin ends with a pin in place, unless a process died
\* within such a call or two of them overlapped.
FirstUsePins ==
    \A p \in Process :
      (call[p] # NULL)
        ~> (call[p] = NULL /\ (file \notin NotManifest \/ crashes > 0 \/ overlapped))

\* The file is a trust-on-first-use pin as TofuPin states it.
Pin == INSTANCE TofuPin WITH
         ToolsList <- ToolsLists, None <- Absent, Broken <- Torn,
         pin <- CASE file \in {Absent, Foreign} -> Absent
                  [] file = Torn -> Torn
                  [] OTHER -> file.tools,
         contenders <- { [process |-> p, tools |-> call[p].tools] :
                           p \in {q \in Process : call[q] # NULL} }
ImplementsTofuPin == Pin!PinSpec
=============================================================================
