----------------------------- MODULE MCDashboard -----------------------------
(***************************************************************************)
(* An instance of Dashboard for TLC: two accounts, a token with one decimal *)
(* place, and drafts that are wrong in the ways the form looks for.        *)
(***************************************************************************)
EXTENDS Dashboard

CONSTANTS a1, a2, url, token, payee

Decimal(d, p) == [digits |-> d, places |-> p]

MCEmpty == [endpoint |-> [text |-> Unreadable, padded |-> FALSE], token |-> Unreadable, beneficiary |-> Unreadable,
            bond |-> Unreadable, penalty |-> Unreadable,
            uptime |-> Unreadable, quorum |-> Unreadable]

\* A bond of 1.5 and a penalty of 0.5, or of 2.
Draft(penalty) == [endpoint |-> [text |-> url, padded |-> TRUE], token |-> token, beneficiary |-> payee,
                   bond |-> Decimal(15, 1), penalty |-> penalty,
                   uptime |-> Decimal(999, 1), quorum |-> Decimal(2, 0)]

MCDrafts == {MCEmpty, Draft(Decimal(5, 1)), Draft(Decimal(2, 0))}

MCAccounts == {a1, a2}
MCVaults == {<<>>, <<[owner |-> a1, status |-> "Active", funded |-> TRUE]>>}
MCPlaces == [c \in {token} |-> 1]

=============================================================================
