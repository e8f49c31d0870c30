--------------------------- MODULE AllocationLedger ---------------------------
(***************************************************************************)
(* What the allocation pipeline promises, whatever its passes, retries and *)
(* stale copies do: one ledger of who holds which device, changed by       *)
(* atomic grants and releases.                                             *)
(***************************************************************************)
CONSTANTS
    Claimants,    \* the claims
    Entries       \* what a claim can be given: records with device and shared

VARIABLE held     \* the entries each claim holds

LedgerInit == held = [c \in Claimants |-> {}]

\* An entry does not clash with another one for the same device when both are
\* shares of it.
Compatible(e, f) == e.device = f.device => e.shared /\ f.shared

\* A claim that holds nothing is given all it asked for at once.
Grant(c) ==
    LET E == held'[c]
    IN  /\ held[c] = {}
        /\ E # {}
        /\ E \subseteq Entries
        /\ \A e, f \in E : e # f => Compatible(e, f)
        /\ \A b \in Claimants : \A e \in E, f \in held[b] : Compatible(e, f)
        /\ held' = [held EXCEPT ![c] = E]

\* A claim gives back all it holds.
Release(c) == held' = [held EXCEPT ![c] = {}]

LedgerNext == \E c \in Claimants : Grant(c) \/ Release(c)

LedgerSpec == LedgerInit /\ [][LedgerNext]_held
=============================================================================
