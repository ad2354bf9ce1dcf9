------------------------------ MODULE TofuPin -------------------------------
(***************************************************************************)
(* What a trust-on-first-use pin on an unlocked file promises.  Whoever    *)
(* finds no pin becomes a contender with the list it was offered; each     *)
(* contender may replace the pin until it has settled or died; a pin that  *)
(* no contender is left to replace is final.                               *)
(***************************************************************************)
EXTENDS FiniteSets

CONSTANTS Process, ToolsList, None, Broken

VARIABLES pin,          \* None, Broken (unreadable) or a list
          contenders    \* [process, tools]: found no pin, have not settled

pinVars == <<pin, contenders>>

PinInit == pin = None /\ contenders = {}

\* A process that finds no pin will write the list it was offered.
Contend(p, l) ==
    /\ pin = None
    /\ \A c \in contenders : c.process # p
    /\ contenders' = contenders \cup {[process |-> p, tools |-> l]}
    /\ UNCHANGED pin

\* A contender starts to write: the pin is unreadable until it is done.
Overwrite(c) ==
    /\ c \in contenders
    /\ pin' = Broken
    /\ UNCHANGED contenders

\* A contender is done: its list is the pin, unless its text got mixed with
\* that of another.
Settle(c) ==
    /\ c \in contenders
    /\ pin' \in {c.tools, Broken}
    /\ contenders' = contenders \ {c}

\* A contender dies.
GiveUp(c) ==
    /\ c \in contenders
    /\ contenders' = contenders \ {c}
    /\ UNCHANGED pin

PinNext ==
    \/ \E p \in Process, l \in ToolsList : Contend(p, l)
    \/ \E c \in contenders : Overwrite(c) \/ Settle(c) \/ GiveUp(c)

PinSpec == PinInit /\ [][PinNext]_pinVars
=============================================================================
