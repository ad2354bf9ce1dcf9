---------------------------- MODULE MCOversight ----------------------------
(* Two actions that differ in their arguments, one that names none.        *)
EXTENDS Oversight

Pay(args) == [intent_id |-> "intent", tool_name |-> "pay", args_digest |-> args]

MCActions == {Pay("small"), Pay("large"), Pay(NULL)}
=============================================================================
