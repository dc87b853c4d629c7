------------------------- MODULE TransactionSigning -------------------------
(***************************************************************************)
(* Signing and submission: one operation of the kit at a time, from the    *)
(* call to its result, between steps of the rest of the page and of the    *)
(* network.  The operation is one of                                       *)
(*   submit    signAndSubmit, signAndSubmitAdmin, executeAndSubmit, upgrade*)
(*             and transfer                                                *)
(*   sign      sign and signAdmin                                          *)
(*   entry     signAuthEntry                                               *)
(*   headless  signAuthEntryWithSigners                                    *)
(*   multi     multiSigners.operation, adminOperation and transfer         *)
(*   fund      fundWallet                                                  *)
(* An action is the code between two awaits.  Meanwhile the page may       *)
(* connect another wallet or drop a signer, and another client upgrade a   *)
(* wallet.  Which rules a resolution finds is the subject of ContextRules: *)
(* here it finds any.                                                      *)
(***************************************************************************)
EXTENDS Integers, Sequences, FiniteSets, Functions

CONSTANTS
    Wallets,          \* smart accounts
    Passkeys,         \* WebAuthn credentials
    Keys,             \* Ed25519 external signers
    Accounts,         \* addresses of delegated signers
    Temp,             \* the account fundWallet() makes
    RuleLists,        \* lists of context rule IDs, none of them empty
    Expirations,      \* ledgers a signature may expire at
    Codes,            \* WASM hashes a wallet may run
    Accepted,         \* acceptedWasmHashes
    SchemeOf,         \* authDigestSchemes: a digest scheme for some of the codes
    Simulated,        \* entries of a simulation, and if it is for an admin
    Prepared,         \* the same for a caller that may have signed some before
    Options,          \* the credential and expiration a caller may ask for
    Selections,       \* the sets of signers an operation may be given
    Configs,          \* deployer, relayer and forceMethod of an operation
    Sessions,         \* wallets and passkeys the page connects with
    Holdings,         \* sets of external signers the page may have
    Upgrading,        \* wallets that other clients upgrade
    PollAttempts,     \* pollTransaction's attempts
    LookupAttempts,   \* FRIENDBOT_ACCOUNT_LOOKUP_ATTEMPTS
    None

ASSUME SigningAssumption ==
    /\ Expirations \subseteq Nat \ {0}
    /\ DOMAIN SchemeOf \subseteq Codes
    /\ None \notin Wallets \cup Passkeys \cup Keys \cup Accounts \cup RuleLists
    /\ None \notin Codes \cup Range(SchemeOf) \cup {"shared"}
    /\ Wallets \cap (Accounts \cup {Temp}) = {} /\ Passkeys \cap Accounts = {}
    /\ Sessions \subseteq [wallet : Wallets, passkey : Passkeys]
    /\ Options \subseteq [passkey : Passkeys \cup {None}, exp : Expirations \cup {0}]
    /\ Selections \subseteq SUBSET (Passkeys \cup Keys \cup Accounts)
    /\ \A who \in Selections : IsFiniteSet(who)
    /\ Upgrading \subseteq Wallets
    /\ Holdings \subseteq SUBSET (Keys \cup Accounts)
    /\ PollAttempts \in Nat \ {0} /\ LookupAttempts \in Nat \ {0}

VARIABLES
    session,    \* the wallet and passkey the kit is connected with
    held,       \* the keys and accounts externalSigners can sign for
    code,       \* what each wallet runs on chain
    call,       \* the operation and its arguments
    step,       \* where it is
    left,       \* entries it has not handled yet
    entry,      \* the entry it is signing
    todo,       \* signers that have still to sign that entry
    asked,      \* the signer it is waiting for
    expiry,     \* the expiration of entries that have none (multi)
    rules,      \* the rule IDs resolved for the entry
    scheme,     \* the digest scheme it has resolved
    config,     \* how it submits, chosen where it is first looked at
    signed,     \* the entries it will submit or return
    envelope,   \* source and signature of the transaction it built
    tries,      \* polls so far
    hash,       \* the hash it polls for, which its result carries
    outcome,    \* its result
    tx          \* what the network did with the transaction

env == <<session, held, code>>
work == <<left, entry, todo, asked, expiry, rules, scheme, signed>>
submission == <<config, envelope, tries, hash, outcome, tx>>
opVars == <<call, step, work, submission>>
vars == <<env, opVars>>

-----------------------------------------------------------------------------
(* The data. *)

Signers == Passkeys \cup Keys \cup Accounts
Addresses == Wallets \cup Accounts \cup {Temp}
Disconnected == [wallet |-> None, passkey |-> None]

\* What a signature is made over, besides the entry's own invocation and
\* address.  An account signs the entry itself: no rules and no scheme.
Digest(exp, ids, s) == [exp |-> exp, rules |-> ids, scheme |-> s]
By(who, d) == [s \in {who} |-> d]

\* An authorization entry: "mutations" are the wallet mutations in its tree,
\* "sigs" its signatures, and "binds" what a delegated signer's __check_auth
\* entry authorizes.
IsEntry(e) ==
    /\ DOMAIN e = {"cred", "addr", "exp", "mutations", "rules", "sigs", "binds"}
    /\ e.cred \in {"source", "address", "delegates"}
    /\ e.addr \in Addresses
    /\ e.exp \in Expirations \cup {0}
    /\ e.rules \in RuleLists \cup {None}
    /\ DOMAIN e.sigs \subseteq Signers \cup {Temp}

\* What is given to be signed.  Signatures are over what their entry says, with
\* rules if it is a wallet's; a simulation has none.  The source account of a
\* transaction is no wallet.
Covered(e) ==
    \A s \in DOMAIN e.sigs : e.sigs[s].exp = e.exp /\ e.sigs[s].rules = e.rules
Inputs == UNION {Range(t.entries) : t \in Simulated \cup Prepared}

ASSUME InputsAssumption ==
    /\ \A t \in Simulated \cup Prepared : t.entries \in Seq(Inputs)
    /\ \A e \in Inputs :
        /\ IsEntry(e) /\ Covered(e)
        /\ (e.addr \in Wallets /\ DOMAIN e.sigs # {}) => e.exp # 0 /\ e.rules # None
        /\ e.addr \notin Wallets => e.rules = None
        /\ e.cred = "source" => e.addr \notin Wallets
    /\ \A t \in Simulated : \A e \in Range(t.entries) : DOMAIN e.sigs = {}

\* assertWalletMutationIntent: one mutation, the root, the transaction's own
\* call, adding only valid signers, and upgrading only to code the kit accepts
\* and can sign for.  The slips forget the kind of path and the digest
\* scheme of the code a wallet is upgraded to.
UpgradeToAnyAccepted(target) == target = None \/ target \in Accepted
UpgradeAllowed(target) ==
    target = None \/ target \in Accepted \cap DOMAIN SchemeOf
IntendedAnywhere(e, admin) ==
    \A m \in e.mutations : m.depth = 0 /\ m.addsValid /\ UpgradeAllowed(m.target)
Intended(e, admin) ==
    \/ e.mutations = {}
    \/ /\ admin
       /\ Cardinality(e.mutations) = 1
       /\ \A m \in e.mutations :
             m.depth = 0 /\ m.isCall /\ m.addsValid /\ UpgradeAllowed(m.target)

\* upsertAuthPayloadSigner and writeAuthPayload.  The slip writes the scheme
\* where the rules belong.
UpsertSwapped(e, who, d) ==
    [e EXCEPT !.sigs = [s \in DOMAIN @ \cup who |-> IF s \in who THEN d ELSE @[s]],
              !.rules = d.scheme]
Upsert(e, who, d) ==
    [e EXCEPT !.sigs = [s \in DOMAIN @ \cup who |-> IF s \in who THEN d ELSE @[s]],
              !.rules = d.rules]

\* What readAuthPayload finds is nothing or the same rules.  It throws on the
\* signature of an account, which is no payload.
RulesAgree(e, ids) ==
    /\ e.addr \notin Wallets => DOMAIN e.sigs = {}
    /\ e.rules \in {None, ids}

\* getSubmissionMethod; fundWallet() submits through RPC unless told otherwise.
Method ==
    IF config.force # None THEN config.force
    ELSE IF call.path # "fund" /\ config.relayer THEN "relayer" ELSE "rpc"
Sponsored == Method = "relayer"

NoCall == [path |-> "none"]
NoEnvelope == [source |-> None, payer |-> None]

-----------------------------------------------------------------------------
(* Beginning and ending. *)

Init ==
    /\ session \in Sessions \cup {Disconnected}
    /\ held \in Holdings
    /\ code \in [Wallets -> DOMAIN SchemeOf]
    /\ call = NoCall /\ step = "idle" /\ left = << >> /\ entry = None
    /\ todo = {} /\ asked = None /\ expiry = 0 /\ rules = None /\ scheme = None
    /\ config = None /\ signed = << >> /\ envelope = NoEnvelope /\ tries = 0
    /\ hash = "none" /\ outcome = "none" /\ tx = "none"

Begin(c, entries, s) ==
    /\ step = "idle"
    /\ call' = c /\ left' = (IF s = "ended" THEN << >> ELSE entries) /\ step' = s
    /\ outcome' = IF s = "ended" THEN "failed" ELSE "none"
    /\ UNCHANGED <<env, entry, todo, asked, expiry, rules, scheme, signed, config,
                   envelope, tries, hash, tx>>

\* The operation goes on with the changes of the action that says so.
Ends(o) ==
    /\ step' = "ended" /\ outcome' = o
    /\ UNCHANGED <<env, call, work, config, envelope, tries, hash, tx>>
Fails == Ends("failed")

\* All is signed; the transaction is built and submitted the way the kit is
\* configured and the caller asks for.
Submits ==
    /\ step' = "source" /\ config' \in Configs
    /\ UNCHANGED <<env, call, work, envelope, tries, hash, outcome, tx>>

\* The page calls the kit again.
Return ==
    /\ step = "ended"
    /\ call' = NoCall /\ step' = "idle" /\ left' = << >> /\ entry' = None
    /\ todo' = {} /\ asked' = None /\ expiry' = 0 /\ rules' = None /\ scheme' = None
    /\ config' = None /\ signed' = << >> /\ envelope' = NoEnvelope /\ tries' = 0
    /\ hash' = "none" /\ outcome' = "none" /\ tx' = "none"
    /\ UNCHANGED env

-----------------------------------------------------------------------------
(* The single-signer paths. *)

Calls(path, t, p, x, who) ==
    [path |-> path, admin |-> t.admin, passkey |-> p, exp |-> x,
     signers |-> who, wallet |-> session.wallet]
IfConnected(s) == IF session = Disconnected THEN "ended" ELSE s

SignAndSubmit ==
    \E t \in Simulated, o \in Options :
        Begin(Calls("submit", t, o.passkey, o.exp, {}), t.entries,
              IfConnected("entry"))

\* sign() handles the entries of the wallet, with the passkey of this moment.
Sign ==
    \E t \in Prepared, o \in Options :
        LET p == IF o.passkey # None THEN o.passkey ELSE session.passkey
        IN  Begin(Calls("sign", t, p, o.exp, {}), t.entries, IfConnected("entry"))

Handles(e) ==
    call.path = "sign" => e.cred = "address" /\ e.addr = call.wallet

\* signAuthEntries of the SDK goes over the others.
SkipEntry ==
    /\ step = "entry" /\ left # << >> /\ ~Handles(Head(left))
    /\ left' = Tail(left)
    /\ UNCHANGED <<env, call, step, entry, todo, asked, expiry, rules, scheme,
                   signed, submission>>

\* What the kit builds itself: a transfer out of the wallet, and a call that the
\* wallet is asked to make, or to run other code.
OwnEntry(w, mutations) ==
    [cred |-> "address", addr |-> w, exp |-> 0, mutations |-> mutations,
     rules |-> None, sigs |-> << >>, binds |-> None]
TransferOf(w) == [admin |-> FALSE, entries |-> <<OwnEntry(w, {})>>]
CallOf(w, target) ==
    [admin |-> TRUE,
     entries |-> <<OwnEntry(w, {[depth |-> 0, isCall |-> TRUE, addsValid |-> TRUE,
                                 target |-> target]})>>]

\* transfer() is from the wallet of this moment, whatever is connected when the
\* amount is known and the transfer simulated.
Transfer ==
    \E o \in Options :
        LET t == TransferOf(session.wallet)
        IN  Begin(Calls("submit", t, o.passkey, 0, {}), t.entries,
                  IfConnected("amount"))

TransferWithSigners ==
    \E who \in Selections :
        LET t == TransferOf(session.wallet)
        IN  Begin(Calls("multi", t, None, 0, who), t.entries, IfConnected("amount"))

\* The token's decimals are read and the amount scaled by them, exactly.
ResolveAmount ==
    /\ step = "amount"
    /\ \/ Fails
       \/ /\ step' = "build"
          /\ UNCHANGED <<env, call, work, submission>>

ExecuteAndSubmit ==
    \E o \in Options :
        LET t == CallOf(session.wallet, None)
        IN  Begin(Calls("submit", t, o.passkey, o.exp, {}), t.entries,
                  IfConnected("build"))

\* The page submits what upgrade() builds.
Upgrade ==
    \E c \in Codes :
        LET t == CallOf(session.wallet, c)
        IN  Begin(Calls("submit", t, None, 0, {}), t.entries,
                  IF UpgradeAllowed(c) THEN IfConnected("build") ELSE "ended")

\* What a caller hands over to be signed: an entry, of this copy of the SDK or
\* decoded, or something that is none.
AuthEntryInputs ==
    LET plain == {t \in Prepared : t.entries # << >> /\ ~t.admin}
    IN  {None} \cup {Head(t.entries) : t \in plain}
NoTransaction == [admin |-> FALSE]

SignAuthEntry ==
    \E input \in AuthEntryInputs, o \in Options :
        Begin(Calls("entry", NoTransaction, o.passkey, o.exp, {}), <<input>>,
              IF input = None THEN "ended" ELSE IfConnected("entry"))

\* The credential is looked up when the expiration is known.
Prepare(e, ids, x) ==
    LET p == IF call.passkey # None THEN call.passkey ELSE session.passkey
    IN  IF p = None \/ ids = None \/ ~RulesAgree(e, ids)
        THEN Fails
        ELSE /\ step' = "lookup"
             /\ entry' = [e EXCEPT !.exp = x] /\ asked' = p /\ rules' = ids
             /\ UNCHANGED <<env, call, left, todo, expiry, scheme, signed,
                            submission>>

\* The rules are resolved, or the caller gave them, and signAuthEntry begins:
\* for an entry of the wallet that is connected by now, if its tree is one this
\* path may sign.
ResolveRules ==
    /\ step = "entry" /\ left # << >> /\ Handles(Head(left))
    /\ \/ Fails
       \/ \E ids \in RuleLists \cup {None} :
            LET e == Head(left)
                x == IF call.exp # 0 THEN call.exp ELSE e.exp
            IN  IF \/ e.cred # "address" \/ e.addr # session.wallet
                   \/ ~Intended(e, call.admin)
                THEN Fails
                ELSE IF x # 0
                THEN Prepare(e, ids, x)
                ELSE /\ step' = "expire" /\ rules' = ids
                     /\ UNCHANGED <<env, call, left, entry, todo, asked, expiry,
                                    scheme, signed, submission>>

CalculateExpiration ==
    /\ step = "expire"
    /\ Fails \/ \E x \in Expirations : Prepare(Head(left), rules, x)

\* The signer is found in the rules and the wallet's code read.
LookUp ==
    /\ step = "lookup"
    /\ \/ Fails
       \/ /\ code[entry.addr] \in DOMAIN SchemeOf
          /\ step' = "prompt" /\ scheme' = SchemeOf[code[entry.addr]]
          /\ UNCHANGED <<env, call, left, entry, todo, asked, expiry, rules, signed,
                         submission>>

\* The passkey signs what was computed before the prompt.
Signature == Digest(entry.exp, rules, scheme)

Prompt ==
    /\ step = "prompt" /\ call.path # "multi"
    /\ \/ Fails
       \/ /\ signed' = Append(signed, Upsert(entry, {asked}, Signature))
          /\ left' = Tail(left) /\ step' = "entry" /\ entry' = None /\ asked' = None
          /\ UNCHANGED <<env, call, todo, expiry, rules, scheme, submission>>

AllSigned ==
    /\ step = "entry" /\ left = << >>
    /\ IF call.path = "submit"
       THEN Submits
       ELSE Ends("signed")

\* signAuthEntryWithSigners is given everything and reads nothing.  The slip
\* forgets that existing signatures cover the old expiration.
NotCovered(e, x) == e.exp = 0 /\ DOMAIN e.sigs # {}
Uncovers(e, x) == DOMAIN e.sigs # {} /\ x # e.exp
Headless ==
    \E e \in AuthEntryInputs, keys \in SUBSET Keys, ids \in RuleLists \cup {None},
       s \in Range(SchemeOf), o \in Options :
        LET exp == IF o.exp # 0 THEN o.exp ELSE e.exp
            refused == \/ keys = {} \/ e = None
                       \/ e.cred # "address" \/ ~Intended(e, FALSE)
                       \/ exp = 0 \/ Uncovers(e, exp)
                       \/ ids = None \/ ~RulesAgree(e, ids)
        IN  /\ step = "idle"
            /\ call' = Calls("headless", NoTransaction, None, o.exp, keys)
            /\ step' = "ended"
            /\ outcome' = IF refused THEN "failed" ELSE "signed"
            /\ signed' = IF refused THEN << >>
                         ELSE <<Upsert([e EXCEPT !.exp = exp], keys,
                                       Digest(exp, ids, s))>>
            /\ UNCHANGED <<env, left, entry, todo, asked, expiry, rules, scheme,
                           config, envelope, tries, hash, tx>>

-----------------------------------------------------------------------------
(* The multi-signer path. *)

\* submitOperation and submitWithSelectedSigners up to the ledger request.
\* Without entries the built transaction is submitted as it is.
CanSign(who) == session # Disconnected /\ who \ Passkeys \subseteq held
SubmitWithSigners ==
    \E t \in Prepared, who \in Selections :
        Begin(Calls("multi", t, None, 0, who), t.entries,
              IF t.entries = << >> THEN "direct"
              ELSE IF CanSign(who) THEN "ledger" ELSE "ended")

\* A change of a rule is submitted by the rule's signers: by the passkey alone if
\* it is the only one, and else by all of them this client can sign for now.
NeedsMultiSigner(signers) ==
    signers \cap Passkeys # signers \/ Cardinality(signers) > 1
BuildSelectedSigners(signers, active) ==
    {s \in signers : IF s \in Passkeys THEN active \in {None, s} ELSE s \in held}
SubmitForRule ==
    \E t \in Simulated, signers \in Selections \cup {{p} : p \in Passkeys} :
        LET who == BuildSelectedSigners(signers, session.passkey)
        IN  /\ t.admin
            /\ IF NeedsMultiSigner(signers)
               THEN Begin(Calls("multi", t, None, 0, who), t.entries,
                          IF CanSign(who) THEN "ledger" ELSE "ended")
               ELSE Begin(Calls("submit", t, None, 0, {}), t.entries,
                          IfConnected("entry"))

\* What the kit built is simulated, and handed to signAndSubmit or to operation,
\* which look at the wallet that is connected now.
Build ==
    /\ step = "build"
    /\ \/ Fails
       \/ /\ IF call.path = "multi" THEN CanSign(call.signers)
                                     ELSE session # Disconnected
          /\ step' = IF call.path = "multi" THEN "ledger" ELSE "entry"
          /\ call' = [call EXCEPT !.wallet = session.wallet]
          /\ UNCHANGED <<env, work, submission>>

SubmitDirectly ==
    /\ step = "direct"
    /\ step' = "payer" /\ config' \in Configs
    /\ UNCHANGED <<env, call, work, envelope, tries, hash, outcome, tx>>

LatestLedger ==
    /\ step = "ledger"
    /\ \/ Fails
       \/ /\ expiry' \in Expirations /\ step' = "next"
          /\ UNCHANGED <<env, call, left, entry, todo, asked, rules, scheme, signed,
                         submission>>

\* The scheme is resolved on the first entry of the wallet.  The slip resolves
\* it for every entry.
ResolvesAlways == TRUE
Resolves == scheme = None

\* The next entry, up to the first thing it waits for.
NextEntry ==
    /\ step = "next" /\ left # << >>
    /\ LET e == Head(left)
           exp == IF e.exp # 0 THEN e.exp ELSE expiry
       IN  \/ /\ e.cred = "delegates"
              /\ Fails
           \/ /\ e.cred = "source"
              /\ signed' = Append(signed, e) /\ left' = Tail(left)
              /\ UNCHANGED <<env, call, step, entry, todo, asked, expiry, rules,
                             scheme, submission>>
           \/ /\ e.cred = "address" /\ e.addr # call.wallet
              /\ IF e.addr \notin call.signers \cap Accounts \cap held
                 THEN Fails
                 ELSE /\ step' = "account"
                      /\ entry' = [e EXCEPT !.exp = exp] /\ asked' = e.addr
                      /\ UNCHANGED <<env, call, left, todo, expiry, rules, scheme,
                                     signed, submission>>
           \/ /\ e.cred = "address" /\ e.addr = call.wallet
              /\ IF ~Intended(e, call.admin)
                 THEN Fails
                 ELSE /\ step' = IF Resolves THEN "scheme" ELSE "rules"
                      /\ entry' = [e EXCEPT !.exp = exp] /\ todo' = call.signers
                      /\ UNCHANGED <<env, call, left, asked, expiry, rules, scheme,
                                     signed, submission>>

NoMoreEntries ==
    /\ step = "next" /\ left = << >>
    /\ Submits

\* An account signs an entry of its own.
AccountSigns ==
    /\ step = "account"
    /\ \/ Fails
       \/ /\ signed' = Append(signed,
                [entry EXCEPT !.sigs = By(asked, Digest(entry.exp, None, None))])
          /\ left' = Tail(left) /\ step' = "next" /\ entry' = None /\ asked' = None
          /\ UNCHANGED <<env, call, todo, expiry, rules, scheme, submission>>

ResolveScheme ==
    /\ step = "scheme"
    /\ \/ Fails
       \/ /\ code[call.wallet] \in DOMAIN SchemeOf
          /\ step' = "rules" /\ scheme' = SchemeOf[code[call.wallet]]
          /\ UNCHANGED <<env, call, left, entry, todo, asked, expiry, rules, signed,
                         submission>>

\* A resolver of the caller's may return an empty list.
ResolveRulesOnce ==
    /\ step = "rules"
    /\ \/ Fails
       \/ \E ids \in RuleLists \cup {None} :
             /\ RulesAgree(entry, ids)
             /\ rules' = ids /\ step' = "passkeys"
             /\ UNCHANGED <<env, call, left, entry, todo, asked, expiry, scheme,
                            signed, submission>>

\* The signers the entry still waits for.  The slip keeps the one that signed.
StillAsked(s) == todo
Others(s) == todo \ {s}

\* signAuthEntry looks at the session again, for each passkey.
AskPasskey ==
    /\ step = "passkeys"
    /\ \E p \in todo \cap Passkeys :
        IF \/ session.wallet # entry.addr
           \/ rules = None \/ ~RulesAgree(entry, rules)
        THEN Fails
        ELSE /\ step' = "prompt" /\ asked' = p
             /\ UNCHANGED <<env, call, left, entry, todo, expiry, rules, scheme,
                            signed, submission>>

PasskeySigns ==
    /\ step = "prompt" /\ call.path = "multi"
    /\ \/ Fails
       \/ /\ entry' = Upsert(entry, {asked}, Signature)
          /\ todo' = Others(asked) /\ asked' = None /\ step' = "passkeys"
          /\ UNCHANGED <<env, call, left, expiry, rules, scheme, signed,
                         submission>>

\* The keys sign, the accounts are named in the payload, and the entry is done.
\* A key that was removed while the passkeys signed is an error.
Seal ==
    /\ step = "passkeys" /\ todo \cap Passkeys = {}
    /\ IF ~(todo \cap Keys \subseteq held)
       THEN Fails
       ELSE /\ LET ids == IF entry.rules = None THEN rules ELSE entry.rules
               IN  entry' = Upsert(entry, todo, Digest(entry.exp, ids, scheme))
            /\ signed' = Append(signed, entry')
            /\ step' = "delegates"
            /\ left' = Tail(left) /\ todo' = todo \cap Accounts
            /\ UNCHANGED <<env, call, asked, expiry, rules, scheme, submission>>

\* What a delegated signer's own entry authorizes, and until when.  The slip
\* gives it the default expiration.
AccountEntry(a, exp, binds) ==
    [cred |-> "address", addr |-> a, exp |-> exp, mutations |-> {}, rules |-> None,
     sigs |-> By(a, Digest(exp, None, None)), binds |-> binds]
ExpiresByDefault(a) ==
    AccountEntry(a, expiry, [wallet |-> entry.addr, digest |-> entry.sigs[a]])
DelegatedEntry(a) ==
    AccountEntry(a, entry.exp, [wallet |-> entry.addr, digest |-> entry.sigs[a]])

AskDelegate ==
    /\ step = "delegates"
    /\ \E a \in todo :
        IF a \notin held
        THEN Fails
        ELSE /\ step' = "delegate" /\ asked' = a
             /\ UNCHANGED <<env, call, left, entry, todo, expiry, rules, scheme,
                            signed, submission>>

DelegateSigns ==
    /\ step = "delegate"
    /\ \/ Fails
       \/ /\ signed' = Append(signed, DelegatedEntry(asked))
          /\ todo' = Others(asked) /\ asked' = None /\ step' = "delegates"
          /\ UNCHANGED <<env, call, left, entry, expiry, rules, scheme, submission>>

EntryDone ==
    /\ step = "delegates" /\ todo = {}
    /\ step' = "next" /\ entry' = None
    /\ UNCHANGED <<env, call, left, todo, asked, expiry, rules, scheme, signed,
                   submission>>

-----------------------------------------------------------------------------
(* Funding a wallet. *)

FundWallet ==
    Begin(Calls("fund", NoTransaction, None, 0, {}), << >>,
          IfConnected("friendbot"))

\* Friendbot answers before the RPC server knows the account, which is asked
\* for again and again.
Friendbot ==
    /\ step = "friendbot"
    /\ \/ Fails
       \/ /\ step' = "funded" /\ tries' = 0
          /\ UNCHANGED <<env, call, work, config, envelope, hash, outcome, tx>>

FundedAccount ==
    /\ step = "funded"
    /\ \/ /\ step' = "simulate" /\ tries' = 0
          /\ UNCHANGED <<env, call, work, config, envelope, hash, outcome, tx>>
       \/ IF tries + 1 = LookupAttempts
          THEN Fails
          ELSE /\ tries' = tries + 1
               /\ UNCHANGED <<env, call, step, work, config, envelope, hash, outcome, tx>>

\* The balance is read, the transfer simulated, and whatever authorization it
\* takes signed by the temporary account, with address credentials.
SignTransfer ==
    /\ step = "simulate"
    /\ \/ Fails
       \/ \E x \in Expirations :
            /\ signed' = <<AccountEntry(Temp, x, None)>>
            /\ step' = "source" /\ config' \in Configs
            /\ UNCHANGED <<env, call, left, entry, todo, asked, expiry, rules,
                           scheme, envelope, tries, hash, outcome, tx>>

-----------------------------------------------------------------------------
(* Building, submitting and following the transaction. *)

\* signFeePayer's key and resolveResimSource's account, and whether it may be
\* used.  The slip lets a caller force it.
Payer == IF call.path = "fund" THEN Temp ELSE config.deployer
HasSourceAuth == \E e \in Range(signed) : e.cred = "source"
RefusedUnlessForced == Payer = "shared" /\ config.force = None
Refused == Payer = "shared"

\* The envelope of a sponsored transaction is thrown away: any source will do.
ResimSource ==
    /\ step = "source"
    /\ IF Sponsored /\ call.path # "fund"
       THEN /\ step' = "resim" /\ envelope' = [NoEnvelope EXCEPT !.source = Payer]
            /\ UNCHANGED <<env, call, work, config, tries, hash, outcome, tx>>
       ELSE \/ Fails
            \/ /\ ~Refused
               /\ step' = "resim"
               /\ envelope' = [NoEnvelope EXCEPT !.source = Payer]
               /\ UNCHANGED <<env, call, work, config, tries, hash, outcome, tx>>

Resimulate ==
    /\ step = "resim"
    /\ \/ Fails
       \/ /\ step' = "payer"
          /\ UNCHANGED <<env, call, work, submission>>

Pays == ~Sponsored \/ HasSourceAuth

SignFeePayer ==
    /\ step = "payer"
    /\ IF Pays /\ Refused
       THEN Fails
       ELSE /\ step' = "send"
            /\ envelope' = [envelope EXCEPT !.payer = IF Pays THEN Payer ELSE @]
            /\ UNCHANGED <<env, call, work, config, tries, hash, outcome, tx>>

\* The transaction is on its way, or not: o is what the caller is told so far,
\* and h the hash it is told it by.
Leaves(reached, s, o, h) ==
    /\ step' = s /\ outcome' = o /\ hash' = h
    /\ tx' = IF reached THEN "sent" ELSE tx
    /\ tries' = 0
    /\ UNCHANGED <<env, call, work, config, envelope>>

\* The relayer answers with a hash, which need not be that of this transaction.
\* Or it refuses, does not answer in time or answers without a hash, and may have
\* submitted the transaction all the same: to the caller these are one failure.
SendToRelayer ==
    /\ step = "send" /\ Sponsored
    /\ IF config.relayer
       THEN \E reached \in BOOLEAN, h \in {"own", "foreign"} :
               Leaves(reached, "poll", "none", h)
       ELSE Fails
RelayerFails ==
    /\ step = "send" /\ Sponsored /\ config.relayer
    /\ \E reached \in BOOLEAN : Leaves(reached, "ended", "failed", "none")

\* A request that fails rejects, with no hash: the methods that return the
\* promise of sendAndPoll reject with it, and fundWallet, which awaits it,
\* reports a failure.
Rejected == IF call.path = "fund" THEN "failed" ELSE "thrown"

\* RPC answers ERROR: the transaction was refused.  Any other status has a hash
\* to poll for, TRY_AGAIN_LATER too.
SendToRpc ==
    /\ step = "send" /\ ~Sponsored
    /\ \/ Leaves(FALSE, "ended", "failed", "own")
       \/ \E reached \in BOOLEAN :
            \/ Leaves(reached, "poll", "none", "own")
            \/ Leaves(reached, "ended", Rejected, "none")

\* A poll tells the state of the transaction with the hash: another one's is
\* anything.
Polled == IF hash = "own" THEN {tx} ELSE {"none", "executed", "failed"}

\* Polling ends without an answer of the network: with the last attempt, which
\* to the caller is a failure like one on chain, or because a request fails.  The
\* slip gives the hash to the error and not to the result.
HashForgotten == "none"
HashReported == hash
Unanswered(o, h) ==
    /\ step' = "ended" /\ outcome' = o /\ hash' = h
    /\ UNCHANGED <<env, call, work, config, envelope, tries, tx>>

Poll ==
    /\ step = "poll"
    /\ \/ "executed" \in Polled /\ Ends("success")
       \/ "failed" \in Polled /\ Fails
       \/ /\ Polled \cap {"none", "sent"} # {}
          /\ IF tries + 1 = PollAttempts
             THEN Unanswered("failed", HashReported)
             ELSE /\ tries' = tries + 1
                  /\ UNCHANGED <<env, call, step, work, config, envelope, hash,
                                 outcome, tx>>
       \/ Unanswered(Rejected, "none")

-----------------------------------------------------------------------------
(* The rest of the page, other clients and the network. *)

Connect(s) ==
    /\ session' = s
    /\ UNCHANGED <<held, code, opVars>>

\* Between two of an operation's awaits the page adds and removes external
\* signers, or removes them all.
Hold(some) ==
    /\ held' = some
    /\ UNCHANGED <<session, code, opVars>>

\* Another client upgrades the wallet.
UpgradeElsewhere(w) ==
    \E c \in Codes :
        /\ code' = [code EXCEPT ![w] = c]
        /\ UNCHANGED <<session, held, opVars>>

\* The code an operation upgrades its wallet to.
Target(e, w) ==
    LET targets == {m.target : m \in {m \in e.mutations : e.addr = w /\ m.isCall}}
    IN  targets \ {None}

\* The network executes a transaction whose signatures are over what the
\* wallets' code checks, if it does not fail for another reason.
Verifies(e) ==
    /\ e.cred = "address" => DOMAIN e.sigs # {}
    /\ \A s \in DOMAIN e.sigs :
        /\ e.sigs[s].exp = e.exp /\ e.sigs[s].rules = e.rules
        /\ e.addr \in Wallets =>
             /\ code[e.addr] \in DOMAIN SchemeOf
             /\ e.sigs[s].scheme = SchemeOf[code[e.addr]]

Execute ==
    /\ tx = "sent"
    /\ \A e \in Range(signed) : Verifies(e)
    /\ tx' = "executed"
    /\ code' = [w \in Wallets |->
                  LET targets == UNION {Target(e, w) : e \in Range(signed)}
                  IN  IF targets = {} THEN code[w] ELSE CHOOSE c \in targets : TRUE]
    /\ UNCHANGED <<session, held, call, step, work, config, envelope, tries, hash,
                   outcome>>

Reject ==
    /\ tx = "sent"
    /\ tx' = "failed"
    /\ UNCHANGED <<env, call, step, work, config, envelope, tries, hash, outcome>>

-----------------------------------------------------------------------------

Call == \/ SignAndSubmit \/ Sign \/ SignAuthEntry \/ Headless
        \/ Transfer \/ ExecuteAndSubmit \/ Upgrade
        \/ SubmitWithSigners \/ SubmitForRule \/ TransferWithSigners \/ FundWallet

\* What an operation does by itself and what answers it waits for, but for the
\* people behind delegated accounts.
Proceed ==
    \/ ResolveAmount \/ Build
    \/ SkipEntry \/ ResolveRules \/ CalculateExpiration \/ LookUp \/ Prompt
    \/ AllSigned
    \/ SubmitDirectly \/ LatestLedger \/ NextEntry \/ NoMoreEntries \/ ResolveScheme
    \/ ResolveRulesOnce
    \/ AskPasskey \/ PasskeySigns \/ Seal \/ AskDelegate \/ EntryDone
    \/ Friendbot \/ FundedAccount \/ SignTransfer
    \/ ResimSource \/ Resimulate \/ SignFeePayer
    \/ SendToRelayer \/ RelayerFails \/ SendToRpc \/ Poll

Environment ==
    \/ \E s \in Sessions \cup {Disconnected} : Connect(s)
    \/ \E some \in Holdings : Hold(some)
    \/ \E w \in Upgrading : UpgradeElsewhere(w)
    \/ Execute \/ Reject

Next == Call \/ Proceed \/ AccountSigns \/ DelegateSigns \/ Return \/ Environment

Spec == Init /\ [][Next]_vars

\* Every answer the kit waits for comes in the end: prompts and requests have
\* timeouts.  The owner of a delegated account may take forever.
FairSpec == Spec /\ WF_vars(Proceed)

-----------------------------------------------------------------------------
(* Properties. *)

TypeOK ==
    /\ session \in Sessions \cup {Disconnected} /\ held \subseteq Keys \cup Accounts
    /\ code \in [Wallets -> Codes]
    /\ \A e \in Range(left) \cup Range(signed) : IsEntry(e)
    /\ entry # None => IsEntry(entry)
    /\ todo \subseteq Signers /\ asked \in Signers \cup {None}
    /\ expiry \in Expirations \cup {0} /\ rules \in RuleLists \cup {None}
    /\ scheme \in Range(SchemeOf) \cup {None}
    /\ tries \in Nat
    /\ hash \in {"none", "own", "foreign"}
    /\ outcome \in {"none", "success", "failed", "thrown", "signed"}
    /\ tx \in {"none", "sent", "executed", "failed"}

\* The transaction has left the kit.
Sent == tx # "none" \/ hash # "none"

\* What is submitted, and what signAuthEntryWithSigners returns, has no
\* signature over another expiration or other rules than its entry ends up
\* with, partially signed entries included (submitWithSelectedSigners keeps an
\* existing expiration; signAuthEntryWithSigners refuses a changed one).
SignaturesCoverTheirEntry ==
    (Sent \/ call.path = "headless") =>
        \A e \in Range(signed) : Covered(e)

\* All that one multi-signer operation signs for its wallet is under one digest
\* scheme, although the wallet may be upgraded between two signatures
\* (authDigestScheme ??= in submitWithSelectedSigners).
OneSchemePerOperation ==
    call.path = "multi" =>
        \A e \in Range(signed) : e.addr = call.wallet =>
            \A s \in call.signers \cap DOMAIN e.sigs :
                \A f \in Range(signed) : f.addr = call.wallet =>
                    \A t \in call.signers \cap DOMAIN f.sigs :
                        e.sigs[s].scheme = f.sigs[t].scheme

\* Every delegated signer a submitted payload names has signed an entry of its
\* own for exactly that payload, which expires with it (the nested
\* __check_auth entries of submitWithSelectedSigners).
DelegatedSignersAreBacked ==
    (Sent /\ call.path = "multi") =>
        \A e \in Range(signed) :
            \A a \in DOMAIN e.sigs \cap call.signers \cap Accounts :
              e.addr = call.wallet =>
                \E f \in Range(signed) :
                    /\ f.addr = a /\ f.exp = e.exp /\ a \in DOMAIN f.sigs
                    /\ f.binds = [wallet |-> e.addr, digest |-> e.sigs[a]]

\* No path but the administrative ones signs an entry whose tree changes a
\* wallet, and those only the change that is the transaction itself
\* (assertWalletMutationIntent, on the passkey and the multi-signer path).
OnlyAdminSignsMutations ==
    \A e \in Range(signed) :
        (e.addr \in Wallets /\ e.mutations # {}) =>
            /\ call.admin
            /\ \A m \in e.mutations : m.isCall /\ m.depth = 0

\* Upgrades by this kit leave the wallet on code the kit can sign for
\* ("so the SDK never leaves a wallet on code it cannot sign for",
\* assertKnownAuthDigestScheme), whatever it ran when the upgrade was signed.
UpgradesStaySignable ==
    [][\A w \in Wallets : (tx = "sent" /\ tx' = "executed" /\ code'[w] # code[w]) =>
            code'[w] \in Accepted \cap DOMAIN SchemeOf]_vars

\* The shared deployer neither sources nor pays for a transaction that is sent
\* to RPC, and never signs one, whatever the path and the configuration
\* (assertNotSharedDeployerSource in resolveResimSource and signFeePayer).
SharedDeployerNeverPays ==
    step \in {"send", "poll", "ended"} =>
        /\ envelope.payer # "shared"
        /\ (Sent /\ ~Sponsored) => envelope.source # "shared"

\* What a caller may do with a result.  Success through RPC, or with the hash of
\* this transaction, means that the network executed it.  A failure without a
\* hash means that nothing was sent and the operation may be repeated, but for
\* what the relayer was asked and for fundWallet, where a lost answer looks the
\* same ("Transaction hash, when one was assigned before the failure",
\* TransactionFailure; sendAndPoll).
ResultsCanBeActedOn ==
    /\ (outcome = "success" /\ (~Sponsored \/ hash = "own")) => tx = "executed"
    /\ (outcome = "failed" /\ hash = "none" /\ tx # "none") =>
            (Sponsored /\ config.relayer) \/ call.path = "fund"

\* An operation that asks no delegated account ends, whatever the page does to
\* the session and to the signers meanwhile (pollTransaction's attempts, the
\* lookup attempts of fundWallet, the prompts' timeout).
OperationEnds ==
    (step # "idle" /\ call.signers \cap Accounts = {}) ~> (step = "ended")

=============================================================================
