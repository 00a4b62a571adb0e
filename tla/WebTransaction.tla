---------------------------- MODULE WebTransaction ----------------------------
(***************************************************************************)
(* The write actions of the web app: each panel on the page (the create    *)
(* form, top up, cancel, withdraw, trigger settlement) drives build, sign, *)
(* submit and poll through lib/use-transaction.ts and lib/wallet.ts and    *)
(* shows the state of its last transaction.  A panel can leave the page    *)
(* while its transaction goes on, the wallet can change between two steps, *)
(* and every call can fail or lose its answer.                             *)
(***************************************************************************)
EXTENDS WebWallet

CONSTANTS
    Panels,    \* components with a useTransaction of their own
    Dialogs,   \* the panels whose button is behind a ConfirmAction
    Ops,       \* what a transaction can ask the contracts
    MaxFlows   \* bound on clicks

ASSUME TransactionAssumption ==
    /\ Dialogs \subseteq Panels
    /\ None \notin Panels
    /\ MaxFlows \in Nat \ {0}

Flows == 1 .. MaxFlows

VARIABLES
    shown,   \* shown[p]: the TransactionState of panel p, with its hash or NoHash
    opened,  \* dialogs that are open
    flow,    \* flow[f]: the f-th click's call of run; f is its transaction's hash
    landed   \* landed[f]: what became of that transaction on the network

txVars == <<shown, opened, flow, landed>>

State(s, h) == [status |-> s, hash |-> h]
NoHash == 0
Idle == State("idle", NoHash)

BusyStatuses == {"building", "signing", "submitting", "pending"}
TxStatuses == BusyStatuses \cup {"idle", "confirmed", "unconfirmed", "rejected", "failed"}

\* How a call of run ended; "lost" and "threw" are a submission and a poll that
\* failed without an answer.
Ends == {"failed", "declined", "error", "lost", "threw", "answered"}

\* The snapshot and the request are those of the render the click was in; the panel
\* is None once it has left the page.
Flow == [at : {"building", "checking", "signing", "sending", "polling", "done"},
         panel : Panels \cup {None}, conn : Connection, op : Ops,
         end : Ends \cup {None}]

Unused == [at |-> "unused"]

TxTypeOK ==
    /\ shown \in [Panels -> [status : TxStatuses, hash : Flows \cup {NoHash}]]
    /\ opened \subseteq Dialogs
    /\ flow \in [Flows -> Flow \cup {Unused}]
    /\ landed \in [Flows -> {"no", "pool", "success", "failure"}]

TxInit ==
    /\ shown = [p \in Panels |-> Idle]
    /\ opened = {}
    /\ flow = [f \in Flows |-> Unused]
    /\ landed = [f \in Flows |-> "no"]

----------------------------------------------------------------------------
(* Starting.                                                                *)

Busy(p) == shown[p].status \in BusyStatuses

Used == {f \in Flows : flow[f] # Unused}
NextFlow(f) == f = Cardinality(Used) + 1

\* run: a wallet on another network is turned away before anything is built.
Run(p, op, f) ==
    /\ connection # None
    /\ NextFlow(f)
    /\ flow' = [flow EXCEPT ![f] =
           [at |-> IF Allowed(connection) THEN "building" ELSE "done",
            panel |-> p, conn |-> connection, op |-> op,
            end |-> IF Allowed(connection) THEN None ELSE "failed"]]
    /\ shown' = [shown EXCEPT ![p] =
           IF Allowed(connection) THEN State("building", NoHash) ELSE State("failed", NoHash)]
    /\ UNCHANGED landed

Offered(p) == connection # None /\ ~Blocked /\ ~Busy(p)

\* A button that runs at once.
Click(p, op, f) ==
    /\ p \notin Dialogs
    /\ Offered(p)
    /\ Run(p, op, f)
    /\ UNCHANGED opened

OpenDialog(p) ==
    /\ p \in Dialogs \ opened
    /\ Offered(p)
    /\ opened' = opened \cup {p}
    /\ UNCHANGED <<shown, flow, landed>>

CloseDialog(p) ==
    /\ p \in opened
    /\ opened' = opened \ {p}
    /\ UNCHANGED <<shown, flow, landed>>

\* The dialog stays open whatever becomes of the wallet; confirming uses the
\* connection there is then.
ConfirmDialog(p, op, f) ==
    /\ p \in opened
    /\ opened' = opened \ {p}
    /\ Run(p, op, f)

----------------------------------------------------------------------------
(* The steps of run.                                                        *)

\* A state update reaches the panel only while it is on the page.
Set(f, s) ==
    shown' = [p \in Panels |-> IF p = flow[f].panel THEN s ELSE shown[p]]

Goes(f, at, s) ==
    /\ flow' = [flow EXCEPT ![f].at = at]
    /\ Set(f, s)
    /\ UNCHANGED opened

Finish(f, end, s) ==
    /\ flow' = [flow EXCEPT ![f].at = "done", ![f].end = end]
    /\ Set(f, s)
    /\ UNCHANGED opened

Fails(f) == Finish(f, "failed", State("failed", NoHash)) /\ UNCHANGED landed

\* The builder's own checks, getAccount, and the simulation, which a call the
\* contract would refuse does not pass.
Built(f) ==
    /\ flow[f].at = "building"
    /\ Goes(f, "checking", State("signing", NoHash))
    /\ UNCHANGED landed

BuildFailed(f) == flow[f].at = "building" /\ Fails(f)

\* signTransaction: the snapshot again, then the network the extension is on now.
NetworkChecked(f) ==
    /\ flow[f].at = "checking"
    /\ Allowed(flow[f].conn)
    /\ Allowed(extension)
    /\ Goes(f, "signing", State("signing", NoHash))
    /\ UNCHANGED landed

NetworkRefused(f) == flow[f].at = "checking" /\ Fails(f)

\* The visitor signs, for the snapshot's network, wherever the extension is now.
Signed(f) ==
    /\ flow[f].at = "signing"
    /\ Goes(f, "sending", State("submitting", NoHash))
    /\ UNCHANGED landed

Declined(f) ==
    /\ flow[f].at = "signing"
    /\ Finish(f, "declined", State("rejected", NoHash))
    /\ UNCHANGED landed

SignFailed(f) == flow[f].at = "signing" /\ Fails(f)

\* PENDING or DUPLICATE: onSubmitted shows the hash.
Accepted(f) ==
    /\ flow[f].at = "sending"
    /\ landed' = [landed EXCEPT ![f] = "pool"]
    /\ Goes(f, "polling", State("pending", f))

\* ERROR is thrown as "The network rejected the transaction...", which
\* isUserRejection takes for the visitor's refusal.
Refused(f) ==
    /\ flow[f].at = "sending"
    /\ Finish(f, "error", State("rejected", NoHash))
    /\ UNCHANGED landed

TryAgainLater(f) ==
    /\ flow[f].at = "sending"
    /\ Finish(f, "failed", State("failed", NoHash))
    /\ UNCHANGED landed

\* The answer never comes, whether or not the network has the transaction.
SendLost(f) ==
    /\ flow[f].at = "sending"
    /\ \E l \in {"no", "pool"} : landed' = [landed EXCEPT ![f] = l]
    /\ Finish(f, "lost", State("failed", NoHash))

\* Mutant: the message alone.
WithoutHash(f) == State("unconfirmed", NoHash)

WithHash(f) == State("unconfirmed", f)

\* Mutant: any answer is taken for a success.
PolledAnswer(f) ==
    /\ flow[f].at = "polling"
    /\ landed[f] \in {"success", "failure"}
    /\ Finish(f, "answered", State("confirmed", f))
    /\ UNCHANGED landed

\* pollTransaction ends with the ledger's answer, ...
PolledSuccess(f) ==
    /\ flow[f].at = "polling"
    /\ landed[f] = "success"
    /\ Finish(f, "answered", State("confirmed", f))
    /\ UNCHANGED landed

PolledFailure(f) ==
    /\ flow[f].at = "polling"
    /\ landed[f] = "failure"
    /\ Finish(f, "answered", State("failed", f))
    /\ UNCHANGED landed

\* Mutant: it goes on for as long as the network does not know the transaction.
PollsOn(f) == FALSE

\* ... or gives up after 30 attempts that did not find it, ...
AttemptsOver(f) == landed[f] = "pool"

PollGivesUp(f) ==
    /\ flow[f].at = "polling"
    /\ AttemptsOver(f)
    /\ Finish(f, "answered", WithHash(f))
    /\ UNCHANGED landed

\* ... or throws, and the hash is forgotten.
PollThrew(f) ==
    /\ flow[f].at = "polling"
    /\ Finish(f, "threw", State("failed", NoHash))
    /\ UNCHANGED landed

\* Everything but what needs the visitor, the answer onSuccess waits for and a poll
\* that breaks.
Progress(f) ==
    \/ Built(f) \/ BuildFailed(f) \/ NetworkChecked(f) \/ NetworkRefused(f)
    \/ Accepted(f) \/ Refused(f) \/ TryAgainLater(f) \/ SendLost(f)
    \/ PolledFailure(f) \/ PollGivesUp(f)

Unforced(f) == Signed(f) \/ Declined(f) \/ SignFailed(f) \/ PollThrew(f)

\* TransactionStatus: the hash a panel has on screen.
HashShown(p) ==
    IF shown[p].status \in {"pending", "confirmed", "unconfirmed", "failed"}
    THEN shown[p].hash ELSE NoHash

----------------------------------------------------------------------------
(* The page and the network.                                                *)

\* Panels in P leave the page; each comes back without a memory of its run.
Unmounted(P) ==
    /\ shown' = [p \in Panels |-> IF p \in P THEN Idle ELSE shown[p]]
    /\ opened' = opened \ P
    /\ flow' = [f \in Flows |-> IF f \in Used /\ flow[f].panel \in P
                                THEN [flow[f] EXCEPT !.panel = None] ELSE flow[f]]
    /\ UNCHANGED landed

\* A ledger takes the transaction in, and the contract accepts it or not; one the
\* network drops stays in the pool for ever.
Include(f, ok) ==
    /\ landed[f] = "pool"
    /\ landed' = [landed EXCEPT ![f] = IF ok THEN "success" ELSE "failure"]
    /\ UNCHANGED <<shown, opened, flow>>

----------------------------------------------------------------------------
(* A page of panels that come and go.                                       *)

vars == <<extension, startup, status, connection, connect, raced,
          shown, opened, flow, landed>>

Init == WalletInit /\ TxInit

Next ==
    \/ (Visitor \/ Session) /\ UNCHANGED txVars
    \/ /\ UNCHANGED walletVars
       /\ \/ \E p \in Panels :
                \/ OpenDialog(p) \/ CloseDialog(p) \/ Unmounted({p})
                \/ \E f \in Flows, op \in Ops : Click(p, op, f) \/ ConfirmDialog(p, op, f)
          \/ \E f \in Used :
                \/ Progress(f) \/ PolledSuccess(f) \/ Unforced(f)
                \/ Include(f, TRUE) \/ Include(f, FALSE)

(* Every call a run awaits is answered or fails, without counting on a poll *)
(* to break; the visitor may leave a signature request open for ever.       *)
Fairness == \A f \in Flows :
    WF_vars(UNCHANGED walletVars /\ f \in Used /\ (Progress(f) \/ PolledSuccess(f)))

Spec == Init /\ [][Next]_vars /\ Fairness

TransactionTypeOK == WalletTypeOK /\ TxTypeOK

----------------------------------------------------------------------------
(* Properties.                                                              *)

Of(p) == {f \in Used : flow[f].panel = p}
Last(p, f) == f \in Of(p) /\ \A g \in Of(p) : g <= f

\* What a panel says of its last transaction is what happened: confirmed and
\* failed with a hash are the ledger's answer, and rejected, or failed without a
\* hash, means the network never had it, unless a submission or a poll threw.
TerminalStateIsTrue ==
    \A p \in Panels, f \in Flows : Last(p, f) =>
        /\ shown[p].status = "confirmed" => shown[p].hash = f /\ landed[f] = "success"
        /\ shown[p].status = "failed" /\ shown[p].hash # NoHash =>
              shown[p].hash = f /\ landed[f] = "failure"
        /\ shown[p].status \in {"rejected", "failed"} /\ shown[p].hash = NoHash =>
              landed[f] = "no" \/ flow[f].end \in {"lost", "threw"}

\* A transaction the network took is on its panel with its hash for as long as the
\* panel stays, until another run replaces it, unless a submission or a poll threw.
TakenIsReferenced ==
    \A p \in Panels, f \in Flows :
        Last(p, f) /\ landed[f] # "no" /\ flow[f].end \notin {"lost", "threw"} =>
            HashShown(p) = f \/ shown[p] = Idle

\* No transaction goes to the network that was not signed for this deployment's,
\* whatever networks the wallet went through since it was connected.
SentForDeployment ==
    \A f \in Used : landed[f] # "no" => flow[f].conn.network = Configured

\* A run never waits for anything but the visitor: it ends, or asks for a
\* signature.
EndsOrAsks ==
    \A f \in Flows :
        (flow[f].at \in {"building", "checking", "sending", "polling"})
            ~> (flow[f].at \in {"signing", "done"})

\* "The user declined in their wallet. Nothing was submitted." (the rejected state
\* of lib/use-transaction.ts).
RejectedIsDeclined ==
    \A p \in Panels, f \in Flows :
        Last(p, f) /\ shown[p].status = "rejected" => flow[f].end = "declined"

=============================================================================
