----------------------------- MODULE WalletRules ----------------------------
(***************************************************************************)
(* The context rules of one wallet on chain, and how the transactions of   *)
(* the rule, signer and policy managers change them, this client's and     *)
(* those of the wallet's other owners.  A manager validates what it can,   *)
(* looks up IDs, and returns a transaction; the action is its execution,   *)
(* so the contract has its say as well.  What the contract refuses is      *)
(* known from the errors the kit decodes.                                  *)
(***************************************************************************)
EXTENDS Integers, FiniteSets

CONSTANTS
    Types,         \* context types, "Default" among them
    Signers,       \* signers a rule may have
    Refused,       \* signers the kit does not add to this wallet
    Policies,
    NewRules,      \* the rules that are added
    InitialRules,  \* the rules of the wallet to begin with, by ID
    MaxId,         \* the highest ID a rule gets here
    MaxSigners,    \* MAX_SIGNERS
    MaxPolicies,   \* MAX_POLICIES
    MaxLedger,
    MaxChanges,    \* changes of the rules, to bound them
    None

Ids == 0..MaxId
Untils == 0..MaxLedger \cup {None}
Rules == [type : Types, signers : SUBSET Signers, policies : SUBSET Policies,
          until : Untils]

ASSUME WalletRulesAssumption ==
    /\ MaxId \in Nat /\ MaxLedger \in Nat /\ MaxChanges \in Nat
    /\ MaxSigners \in Nat /\ MaxPolicies \in Nat
    /\ None \notin Int
    /\ \A r \in NewRules : r \in Rules
    /\ \A rs \in InitialRules : DOMAIN rs = Ids
    /\ \A rs \in InitialRules, id \in Ids : rs[id] # None => rs[id] \in Rules

VARIABLES
    rules,      \* the wallet's rules on chain
    created,    \* get_context_rules_count: IDs are not used again
    ledger,
    changes     \* changes so far

wallet == <<rules, created, ledger, changes>>

Expired(r, now) == r.until # None /\ r.until < now

\* What the contract does not let a rule become: empty, or too large.
Admissible(r) ==
    /\ r.signers \cup r.policies # {}
    /\ Cardinality(r.signers) <= MaxSigners
    /\ Cardinality(r.policies) <= MaxPolicies

\* validateSigner: not the shared deployer, nor the wallet itself, nor a contract
\* that signs for it, nor a key that is too large.
ValidSigner(s) == s \notin Refused

-----------------------------------------------------------------------------

WalletInit ==
    /\ rules \in InitialRules
    /\ created \in {n \in 0..MaxId + 1 : \A id \in Ids : rules[id] # None => id < n}
    /\ ledger = 0 /\ changes = 0

Changes(id, r) ==
    /\ changes < MaxChanges
    /\ changes' = changes + 1
    /\ rules' = [rules EXCEPT ![id] = r]
    /\ UNCHANGED ledger

AddRule(r) ==
    /\ created \in Ids
    /\ Admissible(r) /\ (\A s \in r.signers : ValidSigner(s)) /\ ~Expired(r, ledger)
    /\ Changes(created, r)
    /\ created' = created + 1

RemoveRule(id) ==
    /\ rules[id] # None
    /\ Changes(id, None)
    /\ UNCHANGED created

\* A transaction on a rule that is there, and may become r.
Updates(id, r) ==
    /\ Admissible(r)
    /\ Changes(id, r)
    /\ UNCHANGED created

UpdateExpiration(id, until) ==
    /\ rules[id] # None
    /\ until # rules[id].until /\ ~Expired([until |-> until], ledger)
    /\ Updates(id, [rules[id] EXCEPT !.until = until])

\* addPasskey, addDelegated and addBatch.
AddSigner(id, s) ==
    /\ rules[id] # None
    /\ s \notin rules[id].signers /\ ValidSigner(s)
    /\ Updates(id, [rules[id] EXCEPT !.signers = @ \cup {s}])

RemoveSigner(id, s) ==
    /\ rules[id] # None
    /\ s \in rules[id].signers
    /\ Updates(id, [rules[id] EXCEPT !.signers = @ \ {s}])

AddPolicy(id, p) ==
    /\ rules[id] # None
    /\ p \notin rules[id].policies
    /\ Updates(id, [rules[id] EXCEPT !.policies = @ \cup {p}])

RemovePolicy(id, p) ==
    /\ rules[id] # None
    /\ p \in rules[id].policies
    /\ Updates(id, [rules[id] EXCEPT !.policies = @ \ {p}])

CloseLedger ==
    /\ ledger < MaxLedger
    /\ ledger' = ledger + 1
    /\ UNCHANGED <<rules, created, changes>>

ChangeRules ==
    \/ \E r \in NewRules : AddRule(r)
    \/ \E id \in Ids : RemoveRule(id)
    \/ \E id \in Ids, until \in Untils : UpdateExpiration(id, until)
    \/ \E id \in Ids, s \in Signers : AddSigner(id, s)
    \/ \E id \in Ids, s \in Signers : RemoveSigner(id, s)
    \/ \E id \in Ids, p \in Policies : AddPolicy(id, p)
    \/ \E id \in Ids, p \in Policies : RemovePolicy(id, p)

\* Rules have the shape of rules.
WalletTypeOK ==
    /\ DOMAIN rules = Ids
    /\ \A id \in Ids : rules[id] # None => rules[id] \in Rules
    /\ created \in 0..MaxId + 1 /\ changes \in 0..MaxChanges
    /\ ledger \in 0..MaxLedger

=============================================================================
