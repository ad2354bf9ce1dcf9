------------------------------ MODULE MCMcpPin ------------------------------
(* Two processes, two server ids that share a file, and a server that      *)
(* answers tools/list differently from one call to the next: a changed     *)
(* definition, a tool more.                                                *)
EXTENDS McpPin

CONSTANTS p1, p2

Search == [name |-> "search", definition |-> "v1"]
SearchChanged == [name |-> "search", definition |-> "v2"]
Send == [name |-> "send", definition |-> "v1"]

MCTool == {Search, SearchChanged, Send}
MCToolsLists == {{Search}, {SearchChanged}, {Search, Send}}
=============================================================================
