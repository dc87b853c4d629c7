# Smart Account Kit in TLA+

Specifications of the TypeScript SDK in `src/` (package `smart-account-kit`) and
of the relayer proxy beside it: how a WebAuthn passkey becomes a connected
smart-account wallet on Stellar, what the client may believe about it while
operations overlap, the network fails and the page reloads; how transactions are
signed and submitted; how the rules they are signed under are found; which
external wallets can sign; and what the proxy sponsors. TLC checks small
instances; TLAPS proves most safety properties for all of them.

## The system

One `SmartAccountKit` runs in a web page. It keeps a *connection* in memory
(`_contractId`, `_credentialId`), and *credential records* and one *session* in a
storage adapter (memory, localStorage or IndexedDB). Everything else is a
request: to a Stellar RPC server, a relayer, an indexer, a Horizon history
server, or the browser's WebAuthn API. Operations are async functions; nothing
locks, so between two awaits of one operation any other may run.

| Part | State | Operations | Hard behaviour |
|---|---|---|---|
| creation and deployment (`kit/wallet-ops.ts`, `kit/deploy-ops.ts`) | record, transaction in flight | `createWallet`, `submitDeploymentTx` | lost and late confirmations, relayer fallback, the predicted address taken by somebody else |
| connection and session (`kit/wallet-ops.ts`, `kit.ts`) | connection, session, record | `connectWallet`, `connectWithCredentials`, `disconnect` | record read long before it is written back, session cleared by a stale restore |
| credential manager (`managers/credential-manager.ts`) | records | `create`, `save`, `deploy`, `sync`, `syncAll`, `delete` | decisions on records read before an await |
| wallet provenance (`kit/wallet-provenance.ts`) | none | `verifyWalletBirth`, `verifyFreshAssertion` | order of checks, retention of RPC against history |
| storage adapters (`storage/`) | records, session | `save`, `update`, `delete`, ... | IndexedDB updates in two transactions, corrupt localStorage data |
| signing and submission (`kit/tx-ops.ts`, `relayer.ts`) | none kept | `sign`, `signAndSubmit`, `sendAndPoll` | simulation twice, relayer or RPC, polling |
| context rules (`kit/context-rules.ts`) | active-rule snapshot | `listContextRules`, `resolveContextRuleIdsForEntry` | probing gaps, specific rules against the default rule |
| auth entries (`kit/webauthn-ops.ts`, `kit/auth-digest-scheme.ts`, `kit/auth-payload.ts`) | none | `signAuthEntry` | digest scheme changing with an upgrade |
| multi-signer flow (`managers/multi-signer-manager.ts`) | signatures collected | `submitWithSelectedSigners` | several signers, several entries, one failing |
| signer managers (`managers/signer-manager.ts`) | secondary records | `addPasskey`, ... | record stored before the transaction is signed |
| external wallets (`external-signers.ts`, `wallet-adapter.ts`) | registry of wallets | `connect`, `restoreConnections`, `remove` | restore racing removal |
| relayer proxy (`relayer-proxy/src`) | API keys, rate windows | request handler | two first requests, fixed-window limits |
| indexer client, builders, validation, events, errors, bindings, demos | none | | plain I/O and conversions |

What makes each of them correct:

* creation and connection: nothing is connected, remembered or called deployed
  unless the ledger holds that wallet, created for the user's own signer; a
  silent restore needs a local approval; a recorded birth never changes; every
  operation ends;
* submission: a caller can act on what is reported: success under the
  transaction's own hash means executed, and a failure that leaves a transaction open
  names it, unless a relayer was asked or a wallet is being funded; the shared deployer, whose secret
  is public, never pays;
* signing: a signature stays attached to the expiration and the rules it was made
  over; only the administrative paths change a wallet, and never to code the kit
  cannot sign for; every delegated signer is backed by an entry of its own;
* context rules: a rule that is there is found, the rules chosen could be used,
  and the one meant for the call is preferred, because only the policies of the
  chosen rules are enforced; a passkey signs as the signer they were chosen for;
* external wallets: what is saved is what can be restored, and a removed wallet
  does not come back;
* relayer proxy: no more requests than the limits allow, only sponsorable
  submissions use a key, and only the client's own key; Friendbot pays again only
  where an answer of its was lost.

`PROJECT.json` lists the hazards of the code line by line, with the properties
that would catch each.

## Modules

| Module | Models |
|---|---|
| `CredentialLifecycle` | creation, deployment, reconciliation, connection and session of one kit |
| `WalletConnection` | the promise behind it: which wallet may be verified, connected, remembered |
| `TransactionSigning` | one operation that signs, from the call to its result |
| `WalletRules` | the rules of a wallet on chain, and what the managers do to them |
| `ContextRules` | listing the rules, and choosing those an entry is signed under |
| `ExternalWallets` | secret keys and connected wallets on several pages |
| `RateLimiter` | one fixed-window limiter of the proxy; also the abstract specification of the proxy's admission |
| `ProxyValidation` | which submissions the proxy sponsors, and the checks that decide it |
| `RelayerProxy` | the proxy's requests, their keys and their submissions |
| `...Proofs`, `CredentialLifecycleRefinement` | the theorems |
| `MC...` | values of the constants for TLC |

`RelayerProxy` composes `RateLimiter` and `ProxyValidation`; `ContextRules`
composes `WalletRules` with the client that reads it. `TransactionSigning` leaves
the choice of rules open (any list may be found) where `ContextRules` says which,
and takes the keys and accounts that can sign from any set where
`ExternalWallets` says which. `CredentialLifecycle` ends where they begin: with a
connected wallet.

### CredentialLifecycle

*State.* `cred` is the storage adapter's map of `StoredCredential`s, reduced to
the fields decisions are made on: `status`, whether `contractId` is set
(`bound`), `birthConstructorArgsHash` (`args`, written together with
`birthWasmHash`), and `creationTransactionHash` with its ledger (`creation`).
`session` is the stored session, `conn` the connection in memory. `task` holds
the continuation of each operation in flight: where it waits (`pc`) and the
locals it will use when it goes on. Instead of the whole record an operation
read before its await, a task keeps the facts the code derives from it
(`hasVerifiedBirth`, `candidateFromStoredCredential`, `locallyApproved`); they are
as stale as the record would be. `put` holds the record an IndexedDB update has
read and changed, until it is written. `txState` and `txCreate` are the ledger.

*Actions.* Each action is the code between two awaits. `createWallet` is
`CreateWallet` (passkey made, record saved), `Build` (deployment built and
described in the record), `SubmitToRelayer` or `SubmitToRpc`, the relayer's and
the network's answers, `RecordDeployed` (the confirmation re-read and the record
written) and `Finish` (connect, store the session). The failures between them
are `GiveUp`, `RelayerFails`, `RelayerFallsBack`, `RpcThrows`, `FailedOnChain`,
`TimedOut`, `NotConfirmed`, each with the status the `catch` blocks of
`submitDeploymentTx` give the record. `connectWallet` starts as `ConnectExplicit`,
`ConnectFresh`, `Restore` or `RestoreExpired` and runs through `ChainRead`,
`Lookup`, `BirthVerified`, `RuleApproved` or `RuleNeedsProof` and `ProofVerified` to
`Welcome`; `Rejected` is the three error classes that make a restore clear the
session, `ConnectThrows` every other error. `sync`, `syncAll` and `delete` are
`Reconcile`, `SyncAll`, `SyncNext`, the three outcomes of the read, and `Erase`.

*Storage.* Every change of a stored record goes through `Update`. With
`AtomicUpdate` it is one step, as in memory and localStorage. Without, it is the
IndexedDB adapter's: the record is read and changed in one transaction, and put in
another (`Write`), which the operation waits for. Whatever is stored or deleted in
between is overwritten, so a concurrent update is lost and a deleted record comes
back. A signature's update of `lastUsedAt` (`Touch`) is such an update too: the
field is not modelled, the record it writes back is.

*World.* A pending create lands or fails at any time; an address is created at
most once; another device, or anybody, may create the wallet of a passkey with
arguments that name the user's signer or a foreign one; the relayer and the
indexer may name any transaction; the page may reload at any await.

*Abstractions.* A passkey and the address derived from it are one model value,
since the derivation is injective. A hash stands for its transaction. Signature
and XDR checks are folded into the fact they establish (`CarriesDeployment`,
`BirthMatches`). `connectWallet` with the id of a contract that is not the
credential's derived one, and secondary passkeys, are not in this module.

### WalletConnection

Four variables (`created`, `verified`, `connected`, `remembered`) and seven steps.
`KeepsPromise` instantiates it with the refinement mapping "created with the
user's signer", "record says deployed", `conn` and `session.cred`.

### TransactionSigning

*State.* What outlives an operation is the page's (`session`, the external
signers it `held`s) and the chain's (`code`, the WASM hash each wallet runs). The
rest is the one operation in progress, with the variables named after the code's
locals: `call` its arguments, `step` the await it is at, `left` and `entry` the
authorization entries not handled yet and the one being signed, `signed` those
that are done, `scheme`, `rules`, `expiry` what it has resolved, `config` how it
submits, `hash` the transaction hash it polls for and reports, `tx` what became of
the transaction. A signature is what it is made over: expiration, rule IDs and
digest scheme.

*Actions.* Every action is the code between two awaits, and fails where the code
throws or returns a failure. `SignAndSubmit`, `Sign`, `SignAuthEntry`, `Transfer`,
`ExecuteAndSubmit` and `Upgrade` go through `ResolveRules`, `CalculateExpiration`,
`LookUp` and `Prompt` for each entry (`webauthn-ops.ts`). `SubmitWithSigners`,
`SubmitForRule` (the demo's hook) and `TransferWithSigners` go through
`multi-signer-manager.ts`: `NextEntry` decides what kind of entry it is,
`ResolveScheme` and `ResolveRulesOnce` come before the passkeys are asked one at a
time, `Seal` adds the keys' signatures and names the accounts, and every account
then signs an entry of its own. `Headless` is `signAuthEntryWithSigners`. `FundWallet`
waits for Friendbot's account. All of them end in `ResimSource`, `Resimulate`,
`SignFeePayer`, and the relayer or RPC.

*Results.* `outcome` is what `TransactionResult` can say and no more: `success`,
`failed`, or a rejection (`thrown`). A relayer that refuses, does not answer in time
or answers without a hash, a poll that runs out of attempts, and a failure on chain
are all `success: false`; only the `hash` tells some of them apart. The relayer may
answer with the hash of another transaction, which `sendAndPoll` polls without a
look (`foreign`): what it then reports is about that other one.

*World.* At any await the page connects another wallet or disconnects, adds or
removes signers, another client upgrades a wallet, and the network executes a
transaction whose signatures are over what the wallets' code checks, or rejects
it, also after the client has given up.

*Abstractions.* XDR, amounts and the content of invocations are data; what is kept
of an invocation is the wallet mutations in its tree, which
`assertWalletMutationIntent` decides on. `InputsAssumption` says what callers hand
in: partially signed entries are signed over what they say, those of a wallet
have rules, a simulation is unsigned, and the source of a transaction is no
wallet. One operation runs at a time: operations share nothing but what the
environment changes anyway.

*What the model shows besides its properties.* `transfer` fixes its wallet when it
is called, while signing looks at the wallet connected by then: a switch makes it
fail. `return deps.sendAndPoll(...)` is not awaited inside the `try` of
`signAndSubmit` (`tx-ops.ts:748`, `multi-signer-manager.ts:513` and `590`), so that a
transport error of RPC rejects (`thrown`) where the other failures are returned;
`fundWallet` awaits it (`fund-ops.ts:253`) and reports a failure with no hash, though
the transaction may have been sent. A caller that repeats an operation after a
failure without a hash is right to, except there and where a relayer was asked:
`ResultsCanBeActedOn` says so, and names both exceptions.
The kit's own `signAuthEntry` with an expiration may leave earlier signatures of
the entry invalid; `signAuthEntryWithSigners` refuses that, and
`SignaturesCoverTheirEntry` speaks of what is submitted and of the latter.
A selection that `buildSelectedSigners` has emptied, because this client can sign
for none of it, is submitted as it is.

### WalletRules and ContextRules

`WalletRules` is the chain: rules with a type, signers, policies and a last ledger,
and the calls of the managers that change them, with the limits of
`validation.ts`. IDs are not used twice. `updateName`, `count` and `get` change nothing
that is modelled; `addBatch` counts no existing signers unless told to.

`ContextRules` is `listContextRules` with its reads one at a time (`AskIndexer`,
`Probe`, `ReadIndexed`, `LatestLedger`) and `resolveContextRuleIdsForEntry` with the
operators `PreferSpecific` and `Chosen`. The single-signer paths read the rules
once and share them among their entries, the multi-signer path reads them for
every entry and does not probe (`kit.ts:620`). The indexer answers late
(`indexed` is what it knows), with another wallet's rules (`Foreign`: the page has
connected another wallet since, `kit.ts:743`), or not at all; any read may fail,
and a failed probe counts as a missing rule (`context-rules.ts:382`). The
single-signer paths find the signer of the passkey twice, among all rules before the
choice (`FindSigner`, which refuses a credential that is several signers) and in the chosen
rules after it (`LookUp`, which takes the first); between the two the rules may
change, and `SignsAsResolved` says when both find the same. The multi-signer path
has the second lookup only for a passkey it is given without signer metadata
(`webauthn-ops.ts:196`); selections are signers here, so it is left out. History
variables say which versions of rules were on chain at some moment, and at every
moment, since the operation began.

### ExternalWallets

`ExternalSignerManager` and `StellarWalletsKitAdapter` on pages that share the saved
list. Calls wait for a wallet (`WalletAnswers`, `Reconnected`) and overlap; a wallet
may answer with another account; a page may reload at any await. Nothing in the
code looks for a call in flight: any number of connects and `removeAll`s of a page
wait side by side (`connecting` and `removing` count them), and a restore beside them.
`began`, `came`, `touched`, `removed`, `gone`, `overtaken` and `crossed` are history for
the properties.

What it shows: a restore before the adapter's `init()` is done drops every saved
wallet; a restore that is waiting for a wallet the user removes connects it
again when the wallet answers; a wallet that comes back with another account
stays saved under the old one, so a removed signer can return on the next
reload; `connect` reads the selected module after waiting (`wallet-adapter.ts:193`), so
two connects, or a connect and a restore, can save an address under the other
wallet's ID. All of these happen in the model. `WalletIdsAreTrue` says that the last
is the only way to a wrong ID: the page selected a wallet while another one was
waited for (`overtaken`), and the address was recorded after that (`crossed`).
`RemovedStaysRemoved` speaks of a page's signers removed outside of a restore, and
`RestoreSettlesSaved` of the wallets that nobody touched meanwhile. The comment
that `restoreConnections` "is called automatically if storage is configured" has no
call behind it in the repository.

### RateLimiter, ProxyValidation, RelayerProxy

`RateLimiter` is a Durable Object: it answers one check at a time, starts a new
window when the stored one is over, and saves only what it admits. Time is a
clock with a bound. `ProxyValidation` writes the checks of `validateSubmission` as
operators (`SubmissionAllowed`) and, apart from them, what a sponsor means to pay
for (`Sponsorable`); whose deployments it pays is the list `AllowedDeployers`
(`ALLOWED_DEPLOYER_ADDRESSES`). `RelayerProxy` is the Worker's request handler from
one await to the next: both limiters asked at once, validation, the API key read, purged,
minted and stored in a KV namespace other requests use too, and the submit loop
with its testnet funding. A KV read may miss what is there, and the KV may hold
what an earlier version stored (`OldEntries`). Clients besides `Ips` use up the
global limiter (`OtherClient`). Friendbot pays or does not, and its answer may be
lost: `fundWithFriendbot` then returns false for an account that was paid, the
account is not remembered, and the next attempt may have it paid again.

## Runs

| Run | Instance | Shows |
|---|---|---|
| `shared_deployer` | 1 passkey, 2 transactions, 2 overlapping operations, shared deployer, IndexedDB updates | the safety properties; 2 340 000 states |
| `dedicated_deployer` | the same, own deployer, atomic updates | the same safety properties but the types, with envelopes and RPC fallback; 1 370 000 states |
| `promise` | 2 passkeys, 2 transactions, 1 operation, IndexedDB updates | `KeepsPromise`; 580 000 states |
| `progress` | 1 passkey, 2 transactions, 1 operation, own deployer, IndexedDB updates, no symmetry | `OperationsEnd` |
| `delete_throws`, `pending_is_undeployed`, `args_are_immutable` | 1 passkey, 2 policies, 1 operation | three statements of the docs that the code does not keep |
| `relayer_proxy` | 2 requests, 2 client IPs, 2 API keys, a limit of 2 for all and 1 per IP, a clock of 3 ticks; 335 bodies; 480 000 states | limits and bursts, `Retry-After`, what uses a key and whose, the submit loop and its payments; every request is answered |
| `transaction_signing` | 2 wallets, 2 passkeys, a key and an account; up to 2 entries, 4 configurations; 538 000 states | the safety properties of signing and submission, and that operations end |
| `context_rules` | rules 0 to 2, one change, one ledger closing; 572 000 states | what is listed and chosen, and who signs, while the chain changes and reads fail |
| `specific_rule_wins` | the same | a statement of a test that the code does not keep |
| `external_wallets` | 2 pages, 2 wallets, 3 addresses, 5 calls; 3 800 000 states | what is saved, restored and removed, and under which ID |

*Bounds of the lifecycle.* Two operations on one passkey are enough for every race between a
stale reader and a writer of its record, since an operation concerns one
credential (`syncAll` visits them one at a time) and records of different
passkeys share only the session and the connection, which `promise` covers with
two passkeys. Two transactions give a wallet's real creation and one other that
somebody may take for it: the loser of two deployments, a foreign create, a
claim of the indexer. `TxIds` bounds how often anything is submitted; it is the
only bound on behaviours, everything else is finite by itself. The proofs need
none of these bounds.

*Bounds of the proxy.* A limit of two in a window of two ticks, and a clock that
ends after two, have requests in one window, at its edge and in the next: the global
limiter admits one at 0, one at 1 and two at 2, three of them in a stretch of two
ticks, which is the burst that is allowed. A client's own limiter has a limit of
one, so that either may be the one that refuses. Two requests are one that reads or
deletes a key and one that stores it. With a second of one tick the rounding of
`Retry-After` does nothing; that it is right for longer ones is left to the theorem.
`LostAnswers` is one for each request and account: one payment more than needed. The
bodies
(`MCSubmissions`) are the four kinds that are sponsored, and each of them with
one part made different, so that every check stands alone between some body and
the key. `CHECK_DEADLOCK FALSE`: the worker stops when its requests are answered
and the clock has.

*Bounds of signing.* Two entries are what one entry can do to another (the scheme
resolved once, a second wallet, a source-account entry before or after); the
partially signed entry is signed under the older scheme. Only one wallet is
upgraded, and the other one starts on current code (`MCSpec`). The selections
are passkeys only, others only, and mixed; the page holds all other signers or
none. Two polls stand for ten.

*Bounds of the rules.* `MaxRuleId` and `MaxMisses` are 8 and 3 in `constants.ts:65`,
here 2 and 2: a gap may be shorter than what probing forgives, or as long. Three
rules are a default rule, a specific one, and one that expires or that differs in
its signers. One change and one ledger during an operation make every snapshot
stale.

*Bounds of external wallets.* Five calls are enough to connect two wallets at the same
time or one after the other, reload, restore, and remove or connect in the middle of
it.
`CHECK_DEADLOCK FALSE`: the calls are bounded. The pages are symmetric.

*Fairness.* `OperationsEnd` assumes weak fairness of each operation's own steps:
an awaited promise settles. WebAuthn prompts (60 s), relayer (6 min) and indexer
(10 s) calls have timeouts and `pollTransaction` ten attempts; for the RPC and
history servers the SDK sets none and the platform's `fetch` is relied on. Nothing
is assumed of the ledger: transactions may stay pending for ever. Deadlock is
checked; the application can always call something. `OperationEnds` and
`ResolutionEnds` assume the same of the steps of signing and of listing (`Proceed`);
the owner of a delegated account, whose wallet has no timeout, may take for ever,
so operations that ask one are left out of the first. `EveryRequestIsAnswered`
assumes that time passes and that, as long as requests wait for calls, some call comes
back: not even that each request gets its turn, since once the deadlines are over no
request has more than finitely many steps left.

*Statements the code does not keep.* Two rules for the very call with the same
signers make the exact match ambiguous, and a Default rule without policies is
chosen although a specific one matches (`specific_rule_wins`). `delete` erases the record of a deployed
wallet when one RPC read fails or its status is not `deployed`. One failed RPC
read while connecting sets a verified record back to `pending`. `deploy` called on
a deployed record with other policies replaces the recorded constructor
arguments, after which the wallet can no longer be connected locally.

Each property of a passing run is paired in `PROJECT.json` with a mutant: an
operator named as such in the module that changes one action the way a bug
would, and under which TLC finds the property violated.

## Proofs

The theorems hold for every value of the constants that meets the assumptions of
the modules, and use no other. `PROJECT.json` lists them with the property each of
them states.

### The lifecycle

`ConstantsAssumption` says only that the distinguished values are not members of
the sets they stand outside of. The safety properties are not inductive as they stand: that a record may be
called deployed depends on what the operation that writes it has learnt several
awaits before. `Inv` adds `TasksAreTrue`, which says for each await what the
operation waiting there knows (at `finish`, that its transaction created this
wallet for the user's signer; from `rule` on, that the claimed birth matches; at
`assert`, that it may prompt), `WritesAreTrue` (an update waiting for its put holds
a record that is true, although it may be an old one), and `BirthIsUnique`.

The argument of `CredentialLifecycleProofs`:

1. typing lemmas, one per group of actions, give `TypeOfStep`;
2. `LedgerMoves` lists the steps that touch the ledger; from it a creation is for
   good (`CreationsStay`) and happens once (`UniqueBirthOfStep`);
3. `StorageMoves` lists every way a step can move storage: storing or updating a
   record with one of the changes of `RecordChange`, or finishing an update. Such a
   change of a true record is true (`ChangeIsTrue`) and stays so however late it is
   written (`TruthStays`), which gives `RecordsOfStep` and `WritesOfStep`;
4. `ConnectionMoves` does the same for connection and session
   (`ConnectionOfStep`);
5. `WaitingTask`: what a task knows survives the steps of others, because it is
   about creations; `DeployingTask`, `ReconcilingTask` and `ConnectingTask` show
   what it learns in its own;
6. `WelcomeComesFrom` leaves two ways into the last turn of a connection, hence
   `RestoresOfStep`.

`CreationStaysStable` follows from `RecordsAreTrue` in both states and
`BirthIsUnique`. `CredentialLifecycleRefinement` shows that a step moves the
ledger, or one record, or connection and session, but never two of them
(`OneThingMoves`), and maps each case to the steps of `WalletConnection`.

`LifecyclesAreBounded` counts what lies ahead of each operation: the awaits up to its
end, three for every record `syncAll` has still to sync, eight for the prompt a
rejected restore may fall back to, twice that sum so that an update's second half
weighs less than an await. Each step of the operation lessens it; the steps of other
operations, a reload and the world do not raise it. That it is a number rests on
`Few`: whatever the number of passkeys, storage holds finitely many records, since a
step adds one at most. No assumption is made for it.

### Signing

`TransactionSigningProofs` proves type correctness and the seven safety properties of
`TransactionSigning` from invariants in layers; each uses the ones before it as
facts of both states, so that none has to carry the others.

1. `Honest`: until the transaction is sent nothing is on the network and there is
   neither a hash nor a result, and what is polled without a relayer is this
   transaction's own hash; hence `ResultsCanBeActedOn`. `Spares`: only an
   envelope that a relayer throws away names the
   shared deployer. Neither needs anything else.
2. `Staged`: which path is at which step, and that the entries left are ones the
   caller gave (`CallsStart` shows how every call begins).
3. `Scalars`: the signers, the scheme and the rules at hand have their types.
4. `Vetted`: every entry that is signed, or at hand past its check, passed the
   mutation check of this operation. `OnlyAdminSignsMutations` and
   `UpgradesStaySignable` follow.
5. `Ready`: the entry at hand has signatures over its own expiration and rules, and
   those of this operation are under the scheme it resolved. `Done`: so have the
   entries that are signed, and every account named in one of them has signed its
   own or has still to be asked. `Submitted` ties this to what is sent, which gives
   `SignaturesCoverTheirEntry`, `OneSchemePerOperation` and
   `DelegatedSignersAreBacked`.

`SubmissionsAreBounded` is about progress. `Ahead` counts the answers that an
operation may still wait for before it is done with an entry or with all: two for
each signer it has still to ask, an attempt each for Friendbot's account and for
polling. Every step of the operation leaves an entry less, or the same entries and
less ahead (`SingleNearer`, `MultiNearer`, `FundNearer`); no step of the page, of other
clients or of the network changes either. It needs `Counts`, that the signers still to
be asked are some of those selected and attempts stay below their bounds, and that a
selection is a finite set, which `SigningAssumption` says: it is an array.

### Context rules

`ContextRulesProofs` shows first that the state keeps its shape (`Shape`). `Reads` says
what the kit knows of the chain: versions it read were there, a rule with the same
version at every moment is unread, read or missed, and the IDs just missed are
never all in use, so probing cannot stop short of a rule that `Reached` describes;
that is `SteadyRulesFound`. `Choosing` says the same of the chosen IDs: each is a
version in the list, and where the one meant for the call is in the list,
`PreferSpecific` leaves no default rule (`MeantRuleIsPreferred`). `Resolved` remembers
that the signer the rules are resolved for is the only one with the credential in
the list; if the rule where the lookup finds a signer has stayed what it was in the
list, it is that one (`PasskeySignsAsResolved`).

`OperationsAreBounded` counts the requests, checks and prompts ahead of a listing or
of the next entry: the IDs still to probe or to read, the contexts to choose a rule
for, the rules to look the passkey up in. Every step of the operation lessens it or
leaves an entry less; rules changed by other clients meanwhile do not touch it,
because the IDs to read are fixed when they are discovered.

### The proxy

`LIInv` is the limiter's inductive invariant: counts equal what the open window
admitted. A stretch as long as a window is cut at the start of the open window:
what comes before is in the previous window but not at its start, so it misses the
admission that opened it; what comes after is within the count, and `BetweenCover`
adds the two cardinalities to less than twice the limit. `ProxyImplementsLimiter` is a
refinement: every step of `RelayerProxy` is a step of `RateLimiter` or leaves it
alone, and `ProxyWindows` and `ProxyBursts` are the limiter's theorem carried over by
it. `PIInv` says for each step what its request holds; the theorems about requests,
keys and payments follow: an account that was paid is either remembered, and not
asked for again, or has cost an answer (`ProxyPaysAgainOnlyUnanswered`).

`AllowedIsSponsorable` is about `ProxyValidation` alone: of any body, with any number
of entries, operations and invocation nodes, what `validateSubmission` lets pass is
`Sponsorable`. There is a lemma for each way to be let through (a wallet call, a
transfer, a deployment by a listed deployer, a signed envelope). All it takes of
the body is `IsDecoded`: one of the two modes of `parseSubmissionBody`, with lists
where XDR has lists; `SubmissionsAssumption` asks that of the bodies clients may
send. `Entitled` carries the verdict from the check to the last use of a key, and
`OnlySponsored` follows.

### External wallets

The saved list is filtered, appended to and gone through by several pages, so
everything rests on what `Without` leaves of a list: the wallets of the other
accounts, each once (`WithoutMembers`). This is an induction over the list. Since no
prover here takes a theorem with a predicate for a parameter, `NatInSet` states
induction for a set, from the least number outside it; the predicate is then a
subset of `Nat` (`KeptExists`: the recursive function exists; `WithoutMembers`: what
it has kept so far).

The inductive invariant has four layers (the run's instance was checked against each
before it was proved):

1. `Shape`: types, no address twice in a list or on a page, and what a call in flight
   may rely on. Everything else uses it. `WalletsTyped` is part of it.
2. `Removing`: `SavedMoves` shows that only a wallet that answers a connect adds an
   address to the list, which forgets that it was removed, and `GoneStep` that a page
   signs for nothing it took away; hence `RemovedStays`.
3. `Truthful`: as long as nothing has overtaken the calls of a page, the selected
   module is the wallet that each of them waits for (`Aimed`), so that the ID read off
   it after the wait is right; whatever is recorded otherwise is in `crossed`. Hence
   `WalletIdsTrue`.
4. `Settling`: a wallet the restore has found, and nobody else touched, is saved as
   long as its turn has not come, and from then on if and only if it came back. A
   step of another call or page that changes the list has touched what it changed
   (`ChangesTouch`), so only the restore itself moves a wallet from the first case to
   the second (`SettledMovesOn`); hence `RestoresSettle`.

### What is only model-checked

Liveness under fairness (`OperationsEnd`, `OperationEnds`, `ResolutionEnds`,
`EveryRequestIsAnswered`), which is out of the prover's reach. For the first three the
boundedness theorems prove the part that is about steps: an operation cannot go on
for ever. What TLC adds is that it never stops short of its end: at every await some
step of its own stays possible, and fairness takes it. A request of the proxy has no
such count: its attempts are bounded by the clock, which `ProxyDeadline` states.
Every other property of a passing run is a theorem as well. That the statements of
the violated runs do not hold is shown by TLC's counterexamples.

## Not modelled

* Secondary passkeys: the record `addPasskey` stores before its transaction is sent,
  and the connection with it (`localSecondary`). The rules that `addPasskey` changes
  are modelled.
* A storage call that fails, and `clear()`, which nothing in the kit calls.
* The inner order of checks of `verifyWalletBirth`: it reads one immutable
  transaction, and whichever check fails, the connection fails alike.
* Encodings: XDR, the host's map order, policy parameters (`policies-ops.ts`; the
  setters of `policy-clients.ts` are calls of `execute`), credential IDs (also that an
  ID in base64url that happens to be all hex digits is read as hex).
* Builders, events and errors: stateless, but for an emitter the kit does not listen
  to. The generated bindings. The demo applications, but for two hooks.

## What could follow

`CredentialLifecycle` with secondary passkeys, whose proofs would gain a second kind
of record.
