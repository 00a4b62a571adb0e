SPECIFICATION Spec
CONSTANTS
    None = None
    here = here
    there = there
    a1 = a1
    request = request
    button = button
    dialog = dialog
    Accounts <- MCAccounts
    Networks <- MCNetworks
    Configured = here
    Connects <- MCConnects
    Panels <- MCPanels
    Dialogs <- MCDialogs
    Ops <- MCOps
    MaxFlows = 2
CHECK_DEADLOCK FALSE
INVARIANTS
    RejectedIsDeclined
