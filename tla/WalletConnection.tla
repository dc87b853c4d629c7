--------------------------- MODULE WalletConnection ---------------------------
(***************************************************************************)
(* What the client promises its user about wallets, and nothing of how:    *)
(* which wallets exist with the user's own signer, which of them storage   *)
(* calls deployed, which one is connected, and which one a reload would    *)
(* restore.  CredentialLifecycle implements it.                            *)
(***************************************************************************)

CONSTANTS Wallets, None

VARIABLES
    created,     \* wallets on the ledger whose birth names the user's signer
    verified,    \* wallets the local records call deployed
    connected,   \* the wallet in memory, or None
    remembered   \* the wallet of the stored session, or None

vars == <<created, verified, connected, remembered>>

Init ==
    /\ created = {}
    /\ verified = {}
    /\ connected = None
    /\ remembered = None

\* The ledger creates a wallet, for good.
Appear(w) ==
    /\ created' = created \cup {w}
    /\ UNCHANGED <<verified, connected, remembered>>

\* A creation is confirmed.  Occupancy or a prediction is not enough.
Verify(w) ==
    /\ w \in created
    /\ verified' = verified \cup {w}
    /\ UNCHANGED <<created, connected, remembered>>

\* A record is deleted, overwritten or marked otherwise.
Doubt(w) ==
    /\ verified' = verified \ {w}
    /\ UNCHANGED <<created, connected, remembered>>

\* Connecting remembers that same wallet, or leaves what was remembered.
Connect(w) ==
    /\ w \in created
    /\ connected' = w
    /\ remembered' \in {w, remembered}
    /\ UNCHANGED <<created, verified>>

Forget ==
    /\ remembered' = None
    /\ UNCHANGED <<created, verified, connected>>

Disconnect ==
    /\ connected' = None
    /\ remembered' = None
    /\ UNCHANGED <<created, verified>>

Restart ==
    /\ connected' = None
    /\ UNCHANGED <<created, verified, remembered>>

Next ==
    \/ \E w \in Wallets : Appear(w) \/ Verify(w) \/ Doubt(w) \/ Connect(w)
    \/ Forget \/ Disconnect \/ Restart

Spec == Init /\ [][Next]_vars

=============================================================================
