---------------------------- MODULE ContextRules ----------------------------
(***************************************************************************)
(* Context rules: how the kit finds the rules of a wallet and picks the    *)
(* ones an authorization entry is signed under.  The contract has no       *)
(* iterator over its rules, so they are pieced together from the indexer,  *)
(* which lags, and from probing low IDs one read at a time, while other    *)
(* clients add, change and remove rules, ledgers close and reads fail.     *)
(* The operation is one of                                                 *)
(*   list    rules.list and rules.getAll                                   *)
(*   sign    the single-signer paths, which read the rules once and share  *)
(*           them among their entries                                      *)
(*   multi   the multi-signer path, which reads them for every entry,      *)
(*           without probing                                               *)
(* The chosen IDs are part of what is signed, and the contract enforces    *)
(* the policies of the chosen rules only.                                  *)
(***************************************************************************)
EXTENDS WalletRules, Sequences, Functions

CONSTANTS
    MaxRuleId,     \* the highest ID that is probed
    MaxMisses,     \* maxConsecutiveMisses
    Entries,       \* entries to sign, as lists of their contexts' types
    Credentials,   \* passkeys; a signer has a credential and a verifier
    Selections,    \* sets of signers a multi-signer operation is given
    Foreign        \* rule IDs of another wallet, as the indexer has them

ASSUME ContextRulesAssumption ==
    /\ MaxRuleId \in 0..MaxId
    /\ MaxMisses \in Nat \ {0}
    /\ None \notin Credentials
    /\ Foreign \subseteq SUBSET Ids
    /\ \A es \in Entries :
          /\ es \in Seq(Seq((Types \ {"Default"}) \cup {None})) /\ es # << >>
          /\ \A i \in DOMAIN es : es[i] # << >>

VARIABLES
    indexed,    \* the IDs the indexer has, or None
    kind,       \* the operation, or "none"
    cred,       \* the passkey that is to sign
    probing,    \* if it probes rule IDs
    step,       \* where it is
    named,      \* the IDs the indexer answered with, or None
    probe,      \* the next ID to probe
    misses,     \* consecutive IDs that could not be read
    found,      \* the rules read, as versions
    unread,     \* IDs still to read
    list,       \* the rules it has found, the expired ones left out
    selected,   \* the signers it resolves rules for
    left,       \* entries still to sign
    ids,        \* the rules chosen for the first of them
    at,         \* the next of these to look for the signer in
    signer,     \* the signer found there, as which the passkey signs
    began,      \* history: the ledger when it began,
    ever,       \* the versions on chain at some moment since,
    always,     \* and at every moment,
    failed      \* and if a probe failed that had a rule to read

chain == <<wallet, indexed>>
call == <<kind, cred, probing>>
reading == <<named, probe, misses, found, unread, list>>
signing == <<selected, left, ids, at, signer>>
history == <<began, ever, always, failed>>
vars == <<chain, call, step, reading, signing, history>>

-----------------------------------------------------------------------------
(* Rules. *)

\* What a read of a rule returns.
Version(id, r) == [id |-> id, rule |-> r]
Live(rs) == {Version(id, rs[id]) : id \in {id \in Ids : rs[id] # None}}
IdsOf(versions) == {v.id : v \in versions}

\* contextRuleTypeMatches
Matches(r, context) == r.type \in {"Default", context}

\* preferSpecific.  The slip prefers nothing.
AnyOfThem(versions) == versions
PreferSpecific(versions) ==
    LET specific == {v \in versions : v.rule.type # "Default"}
    IN  IF specific # {} THEN specific ELSE versions

\* resolveContextRuleIdsForEntry, for one context: the rules that could be
\* meant, of which there has to be one.
Chosen(versions, context, who) ==
    LET candidates == {v \in versions : Matches(v.rule, context)}
        exact == PreferSpecific({v \in candidates : v.rule.signers = who})
        subset == PreferSpecific({v \in candidates :
                    v.rule.policies = {} /\ v.rule.signers \subseteq who})
        One(set) == Cardinality(set) = 1
    IN  CASE One(candidates) -> candidates
          [] ~One(candidates) /\ One(exact) -> exact
          [] ~One(candidates) /\ ~One(exact) -> subset

\* The signers of a credential among the rules.
SignersFor(versions, c) ==
    {s \in UNION {v.rule.signers : v \in versions} : s.cred = c}

Steps == {"idle", "indexer", "probe", "read", "ledger", "signer", "resolve",
          "lookup", "prompt", "ended"}

-----------------------------------------------------------------------------
(* Beginning and ending. *)

Init ==
    /\ WalletInit
    /\ indexed \in {None, {}, IdsOf(Live(rules))}
    /\ kind = "none" /\ cred = None /\ probing = FALSE /\ step = "idle"
    /\ named = None /\ probe = 0 /\ misses = 0 /\ found = {} /\ unread = {}
    /\ list = {} /\ selected = {} /\ left = << >> /\ ids = << >> /\ at = 1
    /\ signer = None /\ began = 0 /\ ever = {} /\ always = {} /\ failed = FALSE

Begin(k, c, p, es, who) ==
    /\ step = "idle"
    /\ kind' = k /\ cred' = c /\ probing' = p /\ step' = "indexer"
    /\ left' = es /\ selected' = who
    /\ began' = ledger /\ ever' = Live(rules) /\ always' = Live(rules)
    /\ UNCHANGED <<chain, reading, ids, at, signer, failed>>

ListRules ==
    \E p \in BOOLEAN : Begin("list", None, p, << >>, {})

SignEntries ==
    \E es \in Entries, c \in Credentials, p \in BOOLEAN :
        Begin("sign", c, p, es, {})

SignWithSigners ==
    \E es \in Entries, who \in Selections :
        Begin("multi", None, FALSE, es, who)

Throws ==
    /\ step' = "ended"
    /\ UNCHANGED <<chain, call, reading, signing, history>>

Return ==
    /\ step = "ended"
    /\ kind' = "none" /\ cred' = None /\ probing' = FALSE /\ step' = "idle"
    /\ named' = None /\ probe' = 0 /\ misses' = 0 /\ found' = {} /\ unread' = {}
    /\ list' = {} /\ selected' = {} /\ left' = << >> /\ ids' = << >> /\ at' = 1
    /\ signer' = None /\ began' = 0 /\ ever' = {} /\ always' = {} /\ failed' = FALSE
    /\ UNCHANGED chain

-----------------------------------------------------------------------------
(* listContextRules *)

\* Rules that were probed are not read again.  The slip reads all.
ReadAgain(known, versions) == known
NotRead(known, versions) == known \ IdsOf(versions)

\* What follows once all IDs are known: the rules that were not read yet are
\* read, all at the same time.
Discovered(answer, versions) ==
    LET known == IF answer = None THEN {} ELSE answer
    IN  /\ unread' = NotRead(known, versions)
        /\ step' = IF known = {} /\ versions = {}
                   THEN IF answer = None THEN "ended"
                        ELSE IF kind = "list" THEN "ended" ELSE "signer"
                   ELSE "read"

\* getContractDetails: what the indexer has of the wallet by now; or no indexer,
\* or one that does not know the wallet.
ContractDetails == {indexed, None}

\* The multi-signer path asks for the rules of the wallet the kit is connected
\* with by now.
Answers ==
    ContractDetails \cup (IF kind = "multi" THEN Foreign ELSE {})

\* A failed request counts as no answer, if there is probing.
AskIndexer ==
    /\ step = "indexer"
    /\ \E answer \in Answers :
        /\ named' = answer
        /\ IF probing
           THEN step' = "probe" /\ UNCHANGED unread
           ELSE Discovered(answer, {})
        /\ UNCHANGED <<chain, call, probe, misses, found, list, signing, history>>

\* The request fails, takes too long, or its answer cannot be read.
IndexerFails ==
    /\ step = "indexer" /\ ~probing
    /\ Throws

\* The misses and the ID after a read; any error is a miss.  The slip tries
\* again instead.
Retry(hit) == IF hit THEN <<0, probe + 1>> ELSE <<misses, probe>>
After(hit) == IF hit THEN <<0, probe + 1>> ELSE <<misses + 1, probe + 1>>

Probe ==
    /\ step = "probe"
    /\ \E hit \in {FALSE} \cup (IF rules[probe] # None THEN {TRUE} ELSE {}) :
        /\ found' = IF hit THEN found \cup {Version(probe, rules[probe])} ELSE found
        /\ misses' = After(hit)[1] /\ probe' = After(hit)[2]
        /\ failed' = (failed \/ (~hit /\ rules[probe] # None))
        /\ IF misses' >= MaxMisses \/ probe' > MaxRuleId
           THEN Discovered(named, found')
           ELSE UNCHANGED <<step, unread>>
        /\ UNCHANGED <<chain, call, named, list, signing, began, ever, always>>

\* isMissingContextRuleError.  The slip takes every error for it.
AnyError(error) == TRUE
IsMissing(error) == error = "missing"

\* The final reads.  A rule that is gone is left out, other errors are thrown.
ReadIndexed ==
    /\ step = "read"
    /\ \E id \in unread :
        \E read \in {"other", IF rules[id] = None THEN "missing" ELSE "read"} :
            IF read # "read" /\ ~IsMissing(read)
            THEN Throws
            ELSE /\ unread' = unread \ {id}
                 /\ found' = IF read = "read"
                             THEN found \cup {Version(id, rules[id])} ELSE found
                 /\ UNCHANGED <<chain, call, step, named, probe, misses, list,
                                signing, history>>

AllRead ==
    /\ step = "read" /\ unread = {}
    /\ step' = "ledger"
    /\ UNCHANGED <<chain, call, reading, signing, history>>

\* The slip keeps expired rules.
AllOf(versions) == versions
Unexpired(versions) == {v \in versions : ~Expired(v.rule, ledger)}

LatestLedger ==
    /\ step = "ledger"
    /\ \/ Throws
       \/ /\ list' = Unexpired(found)
          /\ step' = IF kind = "list" THEN "ended" ELSE "signer"
          /\ UNCHANGED <<chain, call, named, probe, misses, found, unread, signing,
                         history>>

-----------------------------------------------------------------------------
(* Signers and rules of an entry. *)

\* findWebAuthnSignerForCredential, unless the caller has selected the signers:
\* one passkey may be several signers.  The slip takes the first.
Several(signers) == signers # {}
Unambiguous(signers) == \E s \in signers : signers = {s}

FindSigner ==
    /\ step = "signer"
    /\ IF kind # "multi" /\ ~Unambiguous(SignersFor(list, cred))
       THEN Throws
       ELSE /\ step' = "resolve"
            /\ IF kind = "multi"
               THEN UNCHANGED selected
               ELSE \E s \in SignersFor(list, cred) : selected' = {s}
            /\ UNCHANGED <<chain, call, reading, left, ids, at, signer, history>>

Resolve ==
    /\ step = "resolve"
    /\ LET contexts == Head(left)
           choice == [k \in DOMAIN contexts |-> Chosen(list, contexts[k], selected)]
       IN  IF \E k \in DOMAIN contexts :
                 contexts[k] = None \/ Cardinality(choice[k]) # 1
           THEN Throws
           ELSE /\ ids' = [k \in DOMAIN contexts |->
                             CHOOSE id \in Ids : IdsOf(choice[k]) = {id}]
                /\ at' = 1
                /\ step' = IF kind = "multi" THEN "prompt" ELSE "lookup"
                /\ UNCHANGED <<chain, call, reading, selected, left, signer, history>>

\* findWebAuthnSignerInRules: the chosen rules are read again, until one has
\* the passkey, which signs as the first such signer of that rule.
LookUp ==
    /\ step = "lookup"
    /\ \/ Throws
       \/ /\ rules[ids[at]] # None
          /\ LET its == {s \in rules[ids[at]].signers : s.cred = cred}
             IN  IF its # {}
                 THEN step' = "prompt" /\ signer' \in its /\ UNCHANGED at
                 ELSE IF at = Len(ids)
                 THEN step' = "ended" /\ UNCHANGED <<signer, at>>
                 ELSE at' = at + 1 /\ UNCHANGED <<signer, step>>
          /\ UNCHANGED <<chain, call, reading, selected, left, ids, history>>

\* The entry is signed, and the next one begins.
Signs ==
    /\ step = "prompt"
    /\ left' = Tail(left) /\ ids' = << >> /\ signer' = None
    /\ step' = IF Tail(left) = << >> THEN "ended"
               ELSE IF kind = "multi" THEN "indexer" ELSE "resolve"
    /\ IF kind = "multi"
       THEN found' = {} /\ list' = {}
       ELSE UNCHANGED <<found, list>>
    /\ UNCHANGED <<chain, call, named, probe, misses, unread, selected, at,
                   history>>

PromptFails ==
    /\ step = "prompt"
    /\ Throws

-----------------------------------------------------------------------------
(* Other clients, the indexer and the ledger. *)

Change ==
    /\ ChangeRules
    /\ ever' = IF step = "idle" THEN ever ELSE ever \cup Live(rules')
    /\ always' = IF step = "idle" THEN always ELSE always \cap Live(rules')
    /\ UNCHANGED <<indexed, call, step, reading, signing, began, failed>>

CatchUp ==
    /\ indexed' = IdsOf(Live(rules))
    /\ UNCHANGED <<wallet, call, step, reading, signing, history>>

LedgerCloses ==
    /\ CloseLedger
    /\ UNCHANGED <<indexed, call, step, reading, signing, history>>

-----------------------------------------------------------------------------

Call == ListRules \/ SignEntries \/ SignWithSigners

Proceed ==
    \/ AskIndexer \/ IndexerFails \/ Probe \/ ReadIndexed \/ AllRead
    \/ LatestLedger \/ FindSigner \/ Resolve \/ LookUp \/ Signs \/ PromptFails

Environment == Change \/ CatchUp \/ LedgerCloses

Next == Call \/ Proceed \/ Return \/ Environment

Spec == Init /\ [][Next]_vars

\* Requests and prompts have timeouts: an operation never waits forever.
FairSpec == Spec /\ WF_vars(Proceed)

-----------------------------------------------------------------------------
(* Properties. *)

TypeOK ==
    /\ WalletTypeOK
    /\ indexed = None \/ indexed \subseteq Ids
    /\ named = None \/ named \subseteq Ids
    /\ began \in 0..ledger
    /\ step \in Steps
    /\ probe \in 0..MaxRuleId + 1 /\ misses \in 0..MaxMisses
    /\ found \subseteq [id : Ids, rule : Rules] /\ list \subseteq found
    /\ unread \subseteq Ids \ IdsOf(found)
    /\ ids \in Seq(Ids) /\ signer \in Signers \cup {None}

Listed == step \in {"signer", "resolve", "lookup", "prompt"}

\* Probing gets to an ID unless so many IDs before it are missing.
Reached(id) ==
    /\ probing /\ id <= MaxRuleId
    /\ \A i \in 0..id - MaxMisses : \E j \in i..i + MaxMisses - 1 :
          j \in IdsOf(always)

Findable(id) ==
    \/ named # None /\ id \in named
    \/ ~failed /\ Reached(id)

\* A rule that stays as it is is not missing from the list when the indexer
\* names it, whatever reads fail, nor when probing can get to it, if that does
\* not fail; a listing that does not have it throws (listContextRules).
SteadyRulesAreListed ==
    Listed => \A v \in always :
        Findable(v.id) => v \in list \/ Expired(v.rule, ledger)

\* Nothing is signed under a rule, as the kit knows it, that was not on chain
\* since the operation began or had expired by then, however long ago the
\* snapshot was taken that its entries share (resolveConnectedContextRuleIds).
ChosenRulesWereUsable ==
    \A k \in DOMAIN ids : \E v \in list :
        v.id = ids[k] /\ v \in ever /\ ~Expired(v.rule, began)

\* A rule for exactly the k-th context and exactly these signers.
MeantFor(v, k) == v.rule.type = Head(left)[k] /\ v.rule.signers = selected
NotDefault(k) ==
    \A w \in list : w.id = ids[k] => w.rule.type # "Default"

\* Default is never chosen past the one rule for exactly this context and these
\* signers, if the kit can find it: from a sparse probe, a late or foreign
\* answer of the indexer, or among rules that change (preferSpecific).
OnlySpecificRuleWins ==
    \A k \in DOMAIN ids, v \in always :
        /\ MeantFor(v, k) /\ Findable(v.id) /\ ~Expired(v.rule, ledger)
        /\ \A w \in list : MeantFor(w, k) => w = v
        => NotDefault(k)

\* "when a rule scoped to the exact context matches alongside a Default
\* fallback, the specific rule must win, otherwise its policies (e.g. spending
\* limits) would be silently skipped": whenever such a rule is in the list.
SpecificRuleWins ==
    \A k \in DOMAIN ids, v \in list : MeantFor(v, k) => NotDefault(k)

\* A passkey signs as the signer its rules were resolved for, if the rule it was
\* found in did not change meanwhile: the signer is found twice, by two lookups
\* in what was read at two times, and two verifiers may know the same passkey
\* (findWebAuthnSignerForCredential and findWebAuthnSignerInRules).
SignsAsResolved ==
    signer # None =>
        \A v \in list \cap always : v.id = ids[at] => selected = {signer}

\* Every operation ends, with all its reads failing and the rules changing all
\* the time (maxRuleId and maxConsecutiveMisses bound the probing).
ResolutionEnds == (step # "idle") ~> (step = "ended")

=============================================================================
