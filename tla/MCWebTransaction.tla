--------------------------- MODULE MCWebTransaction ---------------------------
(***************************************************************************)
(* Instances of WebTransaction for TLC: panels with and without a dialog,  *)
(* one kind of request.                                                    *)
(***************************************************************************)
EXTENDS WebTransaction

CONSTANTS here, there, a1, request, button, dialog

MCAccounts == {a1}
MCNetworks == {here, there}
MCConnects == 1 .. 2
MCOps == {request}
MCPanels == {button, dialog}
MCDialogs == {dialog}

=============================================================================
