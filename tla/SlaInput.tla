------------------------------- MODULE SlaInput -------------------------------
(***************************************************************************)
(* What a provider types into the create and top-up forms, and what the SDK *)
(* accepts in a transaction: lib/create-sla-validation.ts and the          *)
(* assertions of packages/sdk/src/sla-vault.ts, which were written apart.  *)
(* A number typed is its digits and how many of them come after the point; *)
(* anything that is not a plain non-negative decimal is Unreadable.        *)
(***************************************************************************)
EXTENDS Integers

CONSTANTS
    Endpoints,    \* texts that are absolute http or https URLs
    Contracts,    \* contract IDs, C...
    PublicKeys,   \* account addresses, G...
    MaxI128, MaxU32, MaxBps,
    Unreadable    \* an input that is not a number, an endpoint or an address

ASSUME InputAssumption ==
    /\ MaxI128 \in Nat /\ MaxU32 \in Nat /\ MaxBps \in Nat
    /\ MaxBps <= MaxU32
    /\ Unreadable \notin Endpoints \cup Contracts \cup PublicKeys \cup Int
    /\ Unreadable \notin [digits : Nat, places : Nat]

Number == [digits : Nat, places : Nat]
Decimals == 0 .. 38
Addresses == Contracts \cup PublicKeys

\* A text typed for the endpoint, with or without ASCII whitespace around it.
EndpointInput == [text : Endpoints \cup {Unreadable}, padded : BOOLEAN]

Values == [endpoint : EndpointInput, token : Contracts \cup {Unreadable},
           beneficiary : Addresses \cup {Unreadable},
           bond : Number \cup {Unreadable}, penalty : Number \cup {Unreadable},
           uptime : Number \cup {Unreadable}, quorum : Number \cup {Unreadable}]

\* computeEndpointHash: SHA-256 of the trimmed text and of nothing else, here that text
\* itself; the daemon's endpoint.go does the same with its TARGET_URL.
EndpointHash(i) == i.text

\* parseTokenAmount: base units, if the token has that many places
Units(n, decimals) ==
    IF n = Unreadable \/ n.places > decimals THEN Unreadable
    ELSE n.digits * 10 ^ (decimals - n.places)

WholeNumber(n) == IF n = Unreadable \/ n.places > 0 THEN Unreadable ELSE n.digits

\* formatTokenAmount: as few places as the amount needs.
Formatted(units, decimals) ==
    LET p == CHOOSE p \in 0 .. decimals :
                 /\ units % 10 ^ (decimals - p) = 0
                 /\ \A q \in 0 .. p - 1 : units % 10 ^ (decimals - q) # 0
    IN  [digits |-> units \div 10 ^ (decimals - p), places |-> p]

Within(v, low, high) == v \in low .. high

\* The fields validateStaticFields finds at fault.
StaticErrors(v) ==
    {f \in {"endpoint"} : EndpointHash(v.endpoint) = Unreadable}
    \cup {f \in {"token", "beneficiary"} : v[f] = Unreadable}
    \cup {f \in {"quorum"} : ~Within(WholeNumber(v.quorum), 1, MaxU32)}
    \cup {f \in {"uptime"} : ~Within(Units(v.uptime, 2), 1, MaxBps)}

\* Mutant: a bond and a penalty, each on its own.
LoneAmountErrors(v, decimals) ==
    {f \in {"bond", "penalty"} : ~Within(Units(v[f], decimals), 1, MaxI128)}

\* parsePositiveAmount for each, and in validateAmounts the one against the other.
AmountErrors(v, decimals) ==
    {f \in {"bond", "penalty"} : ~Within(Units(v[f], decimals), 1, MaxI128)}
    \cup {f \in {"penalty"} :
            /\ Within(Units(v.bond, decimals), 1, MaxI128)
            /\ Within(Units(v.penalty, decimals), 1, MaxI128)
            /\ Units(v.penalty, decimals) > Units(v.bond, decimals)}

\* What the form shows for review, and signs.
Reviewed(v, decimals) ==
    [endpointHash |-> EndpointHash(v.endpoint), token |-> v.token, beneficiary |-> v.beneficiary,
     bondAmount |-> Units(v.bond, decimals),
     penaltyPerBreach |-> Units(v.penalty, decimals),
     uptimeTargetBps |-> Units(v.uptime, 2),
     quorumThreshold |-> WholeNumber(v.quorum)]

----------------------------------------------------------------------------
(* The SDK.                                                                 *)

AssertPositiveAmount(a) == Within(a, 1, MaxI128)
AssertU32(n, low, high) == Within(n, low, high)
AssertAddress(a) == a \in Addresses
AssertContractId(a) == a \in Contracts

\* resolveEndpointHash: the URL or its hash, not both.
ResolveEndpointHash(url, hash) ==
    IF url = Unreadable THEN hash ELSE IF hash = Unreadable THEN EndpointHash(url) ELSE Unreadable

\* buildCreateSlaTx, for a provider the wallet named
CreateAccepted(c) ==
    /\ AssertContractId(c.token)
    /\ AssertAddress(c.beneficiary)
    /\ AssertPositiveAmount(c.bondAmount)
    /\ AssertPositiveAmount(c.penaltyPerBreach)
    /\ AssertU32(c.uptimeTargetBps, 1, MaxBps)
    /\ AssertU32(c.quorumThreshold, 1, MaxU32)
    /\ ResolveEndpointHash(Unreadable, c.endpointHash) \in Endpoints

\* buildTopUpBondTx
TopUpAccepted(amount) == AssertPositiveAmount(amount)

\* getTokenDecimals
DecimalsRead(d) == d \in Decimals

\* A penalty the bond covers; the form checks it, the SDK does not.
PenaltyCovered(c) == c.penaltyPerBreach <= c.bondAmount

=============================================================================
