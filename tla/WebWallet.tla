------------------------------ MODULE WebWallet ------------------------------
(***************************************************************************)
(* The wallet session of the web app (components/wallet/wallet-provider.tsx *)
(* and lib/wallet.ts) and the Freighter extension behind it.  The provider *)
(* holds a snapshot of one account and one network; the visitor changes    *)
(* both in the extension at any time, without the app being told.  More    *)
(* than one connect call can be open: the dashboard's button is not        *)
(* disabled while another call is waiting.                                 *)
(***************************************************************************)
EXTENDS Naturals, FiniteSets

CONSTANTS
    Accounts,    \* accounts of the extension
    Networks,    \* networks it can be on
    Configured,  \* the network of this deployment
    Connects,    \* connect calls that can be open at a time
    None         \* no connection, no address, no end

VARIABLES
    extension,   \* the account and the network selected in the extension
    startup,     \* the provider's effect on mount: its step, and the address it read
    status,      \* WalletStatus
    connection,  \* the snapshot write actions use, or None
    connect,     \* connect[k]: the step of connect call k, and the address it got
    raced        \* history: the connection was set while another connect call was open

walletVars == <<extension, startup, status, connection, connect, raced>>

Connection == [address : Accounts, network : Networks]

ASSUME WalletAssumption ==
    /\ Configured \in Networks
    /\ None \notin Connection

Statuses == {"checking", "unavailable", "disconnected", "connecting", "connected", "error"}
Step(steps) == [at : steps, address : Accounts \cup {None}]

WalletTypeOK ==
    /\ extension \in Connection
    /\ startup \in Step({"available", "address", "network", "done"})
    /\ status \in Statuses
    /\ connection \in Connection \cup {None}
    /\ connect \in [Connects -> Step({"idle", "access", "network"})]
    /\ raced \in BOOLEAN

WalletInit ==
    /\ extension \in Connection
    /\ startup = [at |-> "available", address |-> None]
    /\ status = "checking"
    /\ connection = None
    /\ connect = [k \in Connects |-> [at |-> "idle", address |-> None]]
    /\ raced = FALSE

----------------------------------------------------------------------------
(* The visitor in the extension.                                            *)

Switch(field, S) ==
    /\ \E v \in S : extension' = [extension EXCEPT ![field] = v]
    /\ UNCHANGED <<startup, status, connection, connect, raced>>

SwitchNetwork == Switch("network", Networks \ {extension.network})
SwitchAccount == Switch("address", Accounts \ {extension.address})

----------------------------------------------------------------------------
(* The effect on mount: is the extension there, was access granted before,  *)
(* which network.  Nothing else sets the status until it is through, as no  *)
(* button connects while the status is "checking".                          *)

StartupEnds(s, c) ==
    /\ startup' = [at |-> "done", address |-> None]
    /\ status' = s
    /\ connection' = c
    /\ UNCHANGED <<extension, connect, raced>>

StartupGoesOn(at, a) ==
    /\ startup' = [at |-> at, address |-> a]
    /\ UNCHANGED <<extension, status, connection, connect, raced>>

\* isFreighterAvailable
CheckAvailable ==
    /\ startup.at = "available"
    /\ \/ StartupGoesOn("address", None)
       \/ StartupEnds("unavailable", connection)

\* getAddress: an account only when this site was granted access before.
CheckAddress ==
    /\ startup.at = "address"
    /\ \/ StartupGoesOn("network", extension.address)
       \/ StartupEnds("disconnected", connection)

\* getNetworkDetails, which may report an error
CheckNetwork ==
    /\ startup.at = "network"
    /\ \/ StartupEnds("connected", [address |-> startup.address,
                                    network |-> extension.network])
       \/ StartupEnds("disconnected", connection)

----------------------------------------------------------------------------
(* connect and disconnect.                                                  *)

\* The header's button, disabled while connecting or checking, is replaced by the
\* wallet menu when connected; the dashboard shows its own whenever there is no
\* connection.
ConnectOffered ==
    \/ status \in {"disconnected", "error"}
    \/ status \notin {"checking", "unavailable"} /\ connection = None

Open(k) == connect[k].at # "idle"

Connect(k) ==
    /\ ConnectOffered
    /\ ~Open(k)
    /\ connect' = [connect EXCEPT ![k].at = "access"]
    /\ status' = "connecting"
    /\ UNCHANGED <<extension, startup, connection, raced>>

\* Mutant: the account is not kept.
AccessForgotten(k) ==
    /\ connect[k].at = "access"
    /\ connect' = [connect EXCEPT ![k].at = "network"]
    /\ UNCHANGED <<extension, startup, status, connection, raced>>

\* requestAccess: the visitor grants it, for the account selected now.
AccessGranted(k) ==
    /\ connect[k].at = "access"
    /\ connect' = [connect EXCEPT ![k] = [at |-> "network", address |-> extension.address]]
    /\ UNCHANGED <<extension, startup, status, connection, raced>>

\* getNetworkDetails answered.
Connected(k) ==
    /\ connect[k].at = "network"
    /\ connect' = [connect EXCEPT ![k] = [at |-> "idle", address |-> None]]
    /\ status' = "connected"
    /\ connection' = [address |-> connect[k].address, network |-> extension.network]
    /\ raced' = \E j \in Connects \ {k} : Open(j)
    /\ UNCHANGED <<extension, startup>>

\* Either call refused or failed: the connection is left as it is.
ConnectFailed(k) ==
    /\ Open(k)
    /\ connect' = [connect EXCEPT ![k] = [at |-> "idle", address |-> None]]
    /\ status' = "error"
    /\ UNCHANGED <<extension, startup, connection, raced>>

\* Mutant: only what the header shows is reset.
StatusCleared ==
    /\ status' = "disconnected"
    /\ UNCHANGED connection

SessionCleared ==
    /\ status' = "disconnected"
    /\ connection' = None

\* From the wallet menu, which is there only when connected.
Disconnect ==
    /\ status = "connected"
    /\ connection # None
    /\ SessionCleared
    /\ raced' = FALSE
    /\ UNCHANGED <<extension, startup, connect>>

Visitor == SwitchNetwork \/ SwitchAccount

Session ==
    \/ CheckAvailable \/ CheckAddress \/ CheckNetwork \/ Disconnect
    \/ \E k \in Connects : Connect(k) \/ AccessGranted(k) \/ Connected(k) \/ ConnectFailed(k)

----------------------------------------------------------------------------
(* What the rest of the app asks of the session.                            *)

\* Mutant: a wallet on any network will do.
AnyNetwork(c) == TRUE

\* checkWalletNetwork
Allowed(c) == c.network = Configured

\* useNetworkGuard: without a connection nothing is blocked here.
Blocked == connection # None /\ ~Allowed(connection)

\* The provider shows "connected" exactly when it holds a connection, and then no
\* connect call is open whose answer could replace it, or bring it back after the
\* visitor disconnects (wallet-provider.tsx:72-98).  Only a connection that was set
\* while another connect call was open is exempt, for as long as it lasts.
SessionConsistent ==
    /\ status = "connected" => connection # None
    /\ ~raced /\ connection # None => status = "connected" /\ \A k \in Connects : ~Open(k)

=============================================================================
