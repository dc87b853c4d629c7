--------------------------- MODULE ExternalWallets --------------------------
(***************************************************************************)
(* kit.externalSigners (ExternalSignerManager) on the pages of one site,   *)
(* over the StellarWalletsKitAdapter.  Secret keys and connected wallets   *)
(* are a page's own and die with it; the list of wallets to reconnect is   *)
(* in the storage the pages share.  A wallet is asked through the wallets  *)
(* kit, which has one selected module per page: connecting, reconnecting   *)
(* and disconnecting wait for a wallet or for the user, and other calls    *)
(* run meanwhile, further connects and removals among them.  A wallet may  *)
(* answer with another account than before.                                *)
(***************************************************************************)
EXTENDS Integers, Sequences, Functions

CONSTANTS
    Pages,         \* tabs that share the storage
    Wallets,       \* wallet modules
    Addresses,     \* accounts
    Owner,         \* the wallet that holds each account
    Secrets,       \* accounts whose secret key the user may enter
    MaxCalls,      \* calls and reloads, to bound them
    None

ASSUME ExternalWalletsAssumption ==
    /\ Owner \in [Addresses -> Wallets]
    /\ Secrets \subseteq Addresses
    /\ MaxCalls \in Nat
    /\ Wallets \cap {None, "modal"} = {} /\ None # "modal"

VARIABLES
    saved,       \* external_wallets, in the storage
    ready,       \* the adapter is initialized
    keypairs,    \* keypairSigners
    ed25519,     \* ed25519Signers, by their address
    connected,   \* connectedWallets
    module,      \* selectedModule of the wallets kit
    connecting,  \* how many connects wait for the modal, and for each wallet
    restored,    \* restoreConnections was called
    restoring,   \* what it has still to reconnect, the one asked first
    removing,    \* how many removeAll are in flight
    calls,       \* calls so far
    began,       \* history: what the restore found in the storage,
    came,        \* the addresses whose wallet has come back,
    touched,     \* those saved or removed by somebody else since;
    removed,     \* those the user removed, and has not connected since,
    gone,        \* the same on the page, and not while it restored;
    overtaken,   \* a wallet was selected on the page while another was waited
                 \* for,
    crossed      \* and the addresses of the wallets that answered after that

memory == <<ready, keypairs, ed25519, connected, module, restored>>
flights == <<connecting, restoring, removing>>
restores == <<began, came, touched>>
removals == <<removed, gone>>
crossings == <<overtaken, crossed>>
vars == <<saved, memory, flights, calls, restores, removals, crossings>>

\* Where a connect may wait.
Waits == Wallets \cup {"modal"}

Connection(a, w) == [address |-> a, wallet |-> w]
AddressesOf(connections) == {c.address : c \in connections}

\* canSignFor, and canSignEd25519.
Signable(p) == keypairs[p] \cup ed25519[p] \cup AddressesOf(connected[p])

\* The filter of removeWalletFromStorage: kept[n] is what is left of the first
\* n wallets of the list.
Without(list, a) ==
    LET kept[n \in 0..Len(list)] ==
            IF n = 0 THEN << >>
            ELSE IF list[n].address = a THEN kept[n - 1]
            ELSE Append(kept[n - 1], list[n])
    IN  kept[Len(list)]

\* saveWalletToStorage.  The slip adds to what is there.
Appended(list, c) == Append(list, c)
Saved(list, c) == Append(Without(list, c.address), c)

\* connectedWallets.set
Tracked(connections, c) == {d \in connections : d.address # c.address} \cup {c}

\* connectedWallets.clear.  The slip forgets it.
Uncleared(connections) == connections
Cleared(connections) == {}

\* Some connect of the page has had its wallet selected, and waits for it.
Connects(p) == \E w \in Wallets : connecting[p][w] > 0

-----------------------------------------------------------------------------

Init ==
    /\ saved = << >>
    /\ ready = [p \in Pages |-> FALSE]
    /\ keypairs = [p \in Pages |-> {}]
    /\ ed25519 = [p \in Pages |-> {}]
    /\ connected = [p \in Pages |-> {}]
    /\ module = [p \in Pages |-> None]
    /\ connecting = [p \in Pages |-> [k \in Waits |-> 0]]
    /\ restored = [p \in Pages |-> FALSE]
    /\ restoring = [p \in Pages |-> << >>]
    /\ removing = [p \in Pages |-> 0]
    /\ calls = 0
    /\ began = [p \in Pages |-> << >>]
    /\ came = [p \in Pages |-> {}]
    /\ touched = [p \in Pages |-> {}]
    /\ removed = {}
    /\ gone = [p \in Pages |-> {}]
    /\ overtaken = [p \in Pages |-> FALSE]
    /\ crossed = {}

Called ==
    /\ calls < MaxCalls
    /\ calls' = calls + 1

\* Storage changes of a page reach what the others' restores rely on.
Touches(p, as) ==
    touched' = [q \in Pages |-> IF q = p THEN touched[q] ELSE touched[q] \cup as]
TouchesAll(as) == touched' = [q \in Pages |-> touched[q] \cup as]

\* The adapter's init, once it is done.
InitAdapter(p) ==
    /\ ~ready[p]
    /\ ready' = [ready EXCEPT ![p] = TRUE]
    /\ UNCHANGED <<saved, keypairs, ed25519, connected, module, restored, flights,
                   calls, restores, removals, crossings>>

(* Secret keys. *)

AddFromSecret(p, a) ==
    /\ Called
    /\ keypairs' = [keypairs EXCEPT ![p] = @ \cup {a}]
    /\ gone' = [gone EXCEPT ![p] = @ \ {a}]
    /\ UNCHANGED <<saved, ready, ed25519, connected, module, restored, flights,
                   restores, removed, crossings>>

AddEd25519FromSecret(p, a) ==
    /\ Called
    /\ ed25519' = [ed25519 EXCEPT ![p] = @ \cup {a}]
    /\ gone' = [gone EXCEPT ![p] = @ \ {a}]
    /\ UNCHANGED <<saved, ready, keypairs, connected, module, restored, flights,
                   restores, removed, crossings>>

-----------------------------------------------------------------------------
(* addFromWallet: the user chooses a wallet in the modal, and it answers. *)

OpenModal(p) ==
    /\ Called
    /\ ready[p]
    /\ connecting' = [connecting EXCEPT ![p]["modal"] = @ + 1]
    /\ UNCHANGED <<saved, memory, restoring, removing, restores, removals, crossings>>

ChooseWallet(p, w) ==
    /\ connecting[p]["modal"] > 0
    /\ connecting' = [connecting EXCEPT ![p]["modal"] = @ - 1, ![p][w] = @ + 1]
    /\ module' = [module EXCEPT ![p] = w]
    /\ overtaken' = [overtaken EXCEPT ![p] = Connects(p) \/ restoring[p] # << >>]
    /\ UNCHANGED <<saved, ready, keypairs, ed25519, connected, restored, restoring,
                   removing, calls, restores, removals, crossed>>

\* An address is recorded by a call that another one may have crossed.
Records(p, a) == crossed' = IF overtaken[p] THEN crossed \cup {a} ELSE crossed

\* The wallet's ID is read off the selected module once the wallet answered.
WalletAnswers(p, a) ==
    /\ connecting[p][Owner[a]] > 0
    /\ LET c == Connection(a, module[p])
       IN  /\ connected' = [connected EXCEPT ![p] = Tracked(@, c)]
           /\ saved' = Saved(saved, c)
    /\ connecting' = [connecting EXCEPT ![p][Owner[a]] = @ - 1]
    /\ Records(p, a)
    /\ TouchesAll({a})
    /\ removed' = removed \ {a}
    /\ gone' = [gone EXCEPT ![p] = @ \ {a}]
    /\ UNCHANGED <<ready, keypairs, ed25519, module, restored, restoring, removing,
                   calls, began, came, overtaken>>

\* Dismissed, which returns null, or failed, which throws.
ConnectFails(p, k) ==
    /\ connecting[p][k] > 0
    /\ connecting' = [connecting EXCEPT ![p][k] = @ - 1]
    /\ UNCHANGED <<saved, memory, restoring, removing, calls, restores, removals,
                   crossings>>

-----------------------------------------------------------------------------
(* restoreConnections. *)

\* reconnect selects the module of the first wallet of the list, if there is
\* one, and waits for its address.  The slip leaves the module selected before.
LeaveSelected(p, list) == module
Select(p, list) ==
    IF list = << >> THEN module ELSE [module EXCEPT ![p] = Head(list).wallet]

Ask(p, list) ==
    /\ restoring' = [restoring EXCEPT ![p] = list]
    /\ module' = Select(p, list)
    /\ overtaken' = IF list = << >> THEN overtaken
                    ELSE [overtaken EXCEPT ![p] = Connects(p)]

\* What a wallet that has not come back leaves in the storage: the others of
\* those that are there now.  The slip: of those that were there to begin with.
DroppedFromFound(p, a) == Without(began[p], a)
Dropped(p, a) == Without(saved, a)

\* What is left to reconnect.  The slip gives up at the first failure.
UntilFailure(p, back) == IF back THEN Tail(restoring[p]) ELSE << >>
Rest(p, back) == Tail(restoring[p])

\* Before init() every reconnect throws, so every wallet is dropped.
RestoreConnections(p) ==
    /\ Called
    /\ ~restored[p]
    /\ restored' = [restored EXCEPT ![p] = TRUE]
    /\ began' = [began EXCEPT ![p] = saved]
    /\ gone' = [gone EXCEPT ![p] = {}]
    /\ \/ /\ ready[p]
          /\ Ask(p, saved)
          /\ touched' = [touched EXCEPT ![p] = {}]
          /\ UNCHANGED saved
       \/ /\ ~ready[p]
          /\ saved' = << >>
          /\ touched' = [q \in Pages |-> IF q = p THEN {} ELSE
                            touched[q] \cup AddressesOf(Range(saved))]
          /\ UNCHANGED <<restoring, module, overtaken>>
    /\ came' = [came EXCEPT ![p] = {}]
    /\ UNCHANGED <<ready, keypairs, ed25519, connected, connecting, removing,
                   removed, crossed>>

\* The wallet comes back, with any of its accounts.
Reconnected(p, a) ==
    /\ restoring[p] # << >>
    /\ Owner[a] = Head(restoring[p]).wallet
    /\ connected' = [connected EXCEPT ![p] = Tracked(@, Connection(a, module[p]))]
    /\ came' = [came EXCEPT ![p] = @ \cup {Head(restoring[p]).address}]
    /\ Records(p, a)
    /\ Ask(p, Rest(p, TRUE))
    /\ UNCHANGED <<saved, ready, keypairs, ed25519, restored, connecting, removing,
                   calls, began, touched, removals>>

\* It is not installed or authorized any more, or the user declines.
ReconnectFails(p) ==
    /\ restoring[p] # << >>
    /\ LET a == Head(restoring[p]).address
       IN  /\ saved' = Dropped(p, a)
           /\ Touches(p, {a})
    /\ Ask(p, Rest(p, FALSE))
    /\ UNCHANGED <<ready, keypairs, ed25519, connected, restored, connecting,
                   removing, calls, began, came, removals, crossed>>

-----------------------------------------------------------------------------
(* remove and removeAll. *)

\* Of the wallets a restore found, those whose account may be this one's.
Found(p, w) == AddressesOf({c \in Range(began[p]) : c.wallet = w})

Remove(p, a) ==
    /\ Called
    /\ keypairs' = [keypairs EXCEPT ![p] = @ \ {a}]
    /\ ed25519' = [ed25519 EXCEPT ![p] = @ \ {a}]
    /\ connected' = [connected EXCEPT ![p] = {c \in @ : c.address # a}]
    /\ saved' = Without(saved, a)
    /\ touched' = [q \in Pages |-> touched[q] \cup {a} \cup Found(q, Owner[a])]
    /\ removed' = removed \cup {a}
    /\ gone' = [gone EXCEPT ![p] = IF restoring[p] = << >> THEN @ \cup {a} ELSE @]
    /\ UNCHANGED <<ready, module, restored, flights, began, came, crossings>>

\* Secret keys go at once.  Before init() the call then throws.
RemoveAll(p) ==
    /\ Called
    /\ keypairs' = [keypairs EXCEPT ![p] = {}]
    /\ ed25519' = [ed25519 EXCEPT ![p] = {}]
    /\ removing' = [removing EXCEPT ![p] = IF ready[p] THEN @ + 1 ELSE @]
    /\ UNCHANGED <<saved, ready, connected, module, restored, connecting, restoring,
                   restores, removals, crossings>>

\* The wallets kit has disconnected.
RemovedAll(p) ==
    /\ removing[p] > 0
    /\ removing' = [removing EXCEPT ![p] = @ - 1]
    /\ connected' = [connected EXCEPT ![p] = Cleared(@)]
    /\ saved' = << >>
    /\ TouchesAll(Addresses)
    /\ removed' = Addresses
    /\ gone' = [gone EXCEPT ![p] = IF restoring[p] = << >>
                                   THEN Addresses \ (keypairs[p] \cup ed25519[p])
                                   ELSE @]
    /\ UNCHANGED <<ready, keypairs, ed25519, module, restored, connecting, restoring,
                   calls, began, came, crossings>>

RemoveAllFails(p) ==
    /\ removing[p] > 0
    /\ removing' = [removing EXCEPT ![p] = @ - 1]
    /\ UNCHANGED <<saved, memory, connecting, restoring, calls, restores, removals,
                   crossings>>

\* A reload takes the page's memory and what it was doing.
Reload(p) ==
    /\ Called
    /\ ready' = [ready EXCEPT ![p] = FALSE]
    /\ keypairs' = [keypairs EXCEPT ![p] = {}]
    /\ ed25519' = [ed25519 EXCEPT ![p] = {}]
    /\ connected' = [connected EXCEPT ![p] = {}]
    /\ module' = [module EXCEPT ![p] = None]
    /\ restored' = [restored EXCEPT ![p] = FALSE]
    /\ connecting' = [connecting EXCEPT ![p] = [k \in Waits |-> 0]]
    /\ restoring' = [restoring EXCEPT ![p] = << >>]
    /\ removing' = [removing EXCEPT ![p] = 0]
    /\ began' = [began EXCEPT ![p] = << >>]
    /\ overtaken' = [overtaken EXCEPT ![p] = FALSE]
    /\ UNCHANGED <<saved, came, touched, removals, crossed>>

-----------------------------------------------------------------------------

Call(p) ==
    \/ \E a \in Secrets : AddFromSecret(p, a) \/ AddEd25519FromSecret(p, a)
    \/ OpenModal(p)
    \/ RestoreConnections(p)
    \/ \E a \in Addresses : Remove(p, a)
    \/ RemoveAll(p)
    \/ Reload(p)

Answer(p) ==
    \/ InitAdapter(p)
    \/ \E w \in Wallets : ChooseWallet(p, w)
    \/ \E a \in Addresses : WalletAnswers(p, a) \/ Reconnected(p, a)
    \/ \E k \in Waits : ConnectFails(p, k)
    \/ ReconnectFails(p)
    \/ RemovedAll(p)
    \/ RemoveAllFails(p)

Next == \E p \in Pages : Call(p) \/ Answer(p)

Spec == Init /\ [][Next]_vars

-----------------------------------------------------------------------------
(* Properties. *)

Connections == [address : Addresses, wallet : Wallets]

\* Values keep their types, and the storage and a page's wallets have an
\* address once, whatever was saved again (saveWalletToStorage).
TypeOK ==
    /\ \A i \in DOMAIN saved : saved[i] \in Connections
    /\ \A i, j \in DOMAIN saved : saved[i].address = saved[j].address => i = j
    /\ \A p \in Pages :
        /\ keypairs[p] \subseteq Secrets /\ ed25519[p] \subseteq Secrets
        /\ connected[p] \subseteq Connections
        /\ \A c, d \in connected[p] : c.address = d.address => c = d
        /\ module[p] \in Wallets \cup {None}
        /\ connecting[p] \in [Waits -> Nat]
        /\ restoring[p] # << >> => module[p] # None /\ ready[p] /\ restored[p]
        /\ removing[p] > 0 => ready[p]
    /\ calls \in 0..MaxCalls

\* restoreConnections leaves no wallet half restored: of those it found, and
\* that nobody has touched meanwhile, the saved ones are the ones that came
\* back, and an account of theirs is connected, though it may be another one and
\* connects and restores may overlap; one that fails is dropped and does not
\* keep the others from coming back.
RestoreSettlesSaved ==
    \A p \in Pages :
        restored[p] /\ restoring[p] = << >> =>
            \A i \in DOMAIN began[p] :
                LET c == began[p][i]
                IN  c.address \in touched[p] \/
                    /\ c.address \in AddressesOf(Range(saved)) <=>
                            c.address \in came[p]
                    /\ c.address \in came[p] =>
                            \E d \in connected[p] : Owner[d.address] = c.wallet

\* A signer the user removed stays removed: its wallet is not saved again by a
\* list that was read before, on any page, and it signs on this page no more,
\* unless it was removed in the middle of a restore, until the user adds it or
\* the page restores its wallets.
RemovedStaysRemoved ==
    /\ removed \cap AddressesOf(Range(saved)) = {}
    /\ \A p \in Pages : gone[p] \cap Signable(p) = {}

\* The wallet recorded for an address, in the storage and on the pages, is the
\* one that holds it, so that a reload asks the right one, although its ID is
\* taken from the selected module after waiting for the wallet (connect and
\* reconnect).  Nothing in the code keeps two connects, or a connect and a
\* restore, apart: an ID may be wrong, but for no other reason than
\* that the page selected a wallet for another call while this one waited.
WalletIdsAreTrue ==
    \A c \in Range(saved) \cup UNION {connected[p] : p \in Pages} :
        c.wallet # Owner[c.address] => c.address \in crossed

=============================================================================
