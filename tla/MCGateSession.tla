--------------------------- MODULE MCGateSession ---------------------------
(* A session of two interchangeable agents with a read tool, whose hint may
   be plain, internal, confidential or both, and two sink tools: an exporter
   only confidential data closes and a mailer both classes close. *)
EXTENDS GateSession, TLC

CONSTANTS a1, a2

MCTool == {"read_file", "export_file", "send_email"}
MCIncludesRead == {"read_file"}
MCIncludesEmail == {"send_email"}
MCNone == {}
MCAgent == {a1, a2}
MCSymmetry == Permutations(MCAgent)
=============================================================================
