-------------------------- MODULE ContextRulesProofs --------------------------
(***************************************************************************)
(* Proofs about the discovery and the choice of context rules, for every   *)
(* wallet, every answer of the indexer and every bound of the probing.     *)
(***************************************************************************)
EXTENDS ContextRules, FiniteSetTheorems, TLAPS

-----------------------------------------------------------------------------
(* The wallet. *)

\* A rule that had not expired later had not expired before.
LEMMA ExpiresOnce ==
    ASSUME NEW r \in Rules, NEW m \in Nat, NEW n \in Nat, m <= n, ~Expired(r, n)
    PROVE  ~Expired(r, m)
  BY WalletRulesAssumption DEF Expired, Rules, Untils

\* A read returns the rule as it is, and there is one rule for an ID.
LEMMA LiveVersions ==
    ASSUME WalletTypeOK
    PROVE  /\ \A v \in Live(rules) : v \in [id : Ids, rule : Rules]
           /\ \A v \in Live(rules) : v.id \in Ids /\ rules[v.id] # None
           /\ \A v \in Live(rules) : v = Version(v.id, rules[v.id])
           /\ \A id \in Ids : rules[id] # None => Version(id, rules[id]) \in Live(rules)
  BY DEF WalletTypeOK, Live, Version

\* A version is a rule under its ID.
LEMMA VersionFields ==
    ASSUME NEW id, NEW r
    PROVE  Version(id, r).id = id /\ Version(id, r).rule = r
  BY DEF Version

\* The wallet begins with rules of their types.
LEMMA WalletBegins == WalletInit => WalletTypeOK
  BY WalletRulesAssumption DEF WalletInit, WalletTypeOK

\* A change keeps the shape of the rules.
LEMMA ChangesTyped ==
    ASSUME WalletTypeOK, NEW id \in Ids, NEW r, r = None \/ r \in Rules, Changes(id, r),
           created' \in 0..MaxId + 1
    PROVE  WalletTypeOK' /\ ledger' = ledger
  BY WalletRulesAssumption DEF WalletTypeOK, Changes

\* A change of the rules keeps their types and the ledger.
LEMMA WalletChanges ==
    ASSUME WalletTypeOK, ChangeRules
    PROVE  WalletTypeOK' /\ ledger' = ledger
  <1>0. \A id \in Ids : rules[id] # None => rules[id] \in Rules
    BY DEF WalletTypeOK
  <1>1. ASSUME NEW r \in NewRules, AddRule(r)  PROVE WalletTypeOK' /\ ledger' = ledger
    <2>1. r \in Rules /\ created \in Ids /\ Changes(created, r)
      BY <1>1, WalletRulesAssumption DEF AddRule
    <2>2. created' \in 0..MaxId + 1
      BY <1>1, <2>1, WalletRulesAssumption DEF AddRule, Ids
    <2> QED
      BY <2>1, <2>2, ChangesTyped
  <1>2. ASSUME NEW id \in Ids, RemoveRule(id)  PROVE WalletTypeOK' /\ ledger' = ledger
    BY <1>2, ChangesTyped DEF RemoveRule, WalletTypeOK
  <1>3. ASSUME NEW id \in Ids, NEW r \in Rules, Updates(id, r)
        PROVE  WalletTypeOK' /\ ledger' = ledger
    BY <1>3, ChangesTyped DEF Updates, WalletTypeOK
  <1>4. ASSUME NEW id \in Ids, NEW until \in Untils, UpdateExpiration(id, until)
        PROVE  WalletTypeOK' /\ ledger' = ledger
    <2>1. [rules[id] EXCEPT !.until = until] \in Rules
      BY <1>0, <1>4 DEF UpdateExpiration, Rules
    <2> QED
      BY <1>3, <1>4, <2>1 DEF UpdateExpiration
  <1>5. ASSUME NEW id \in Ids, NEW s \in Signers, AddSigner(id, s) \/ RemoveSigner(id, s)
        PROVE  WalletTypeOK' /\ ledger' = ledger
    <2>1. /\ [rules[id] EXCEPT !.signers = @ \cup {s}] \in Rules
          /\ [rules[id] EXCEPT !.signers = @ \ {s}] \in Rules
      BY <1>0, <1>5 DEF AddSigner, RemoveSigner, Rules
    <2> QED
      BY <1>3, <1>5, <2>1 DEF AddSigner, RemoveSigner
  <1>6. ASSUME NEW id \in Ids, NEW p \in Policies, AddPolicy(id, p) \/ RemovePolicy(id, p)
        PROVE  WalletTypeOK' /\ ledger' = ledger
    <2>1. /\ [rules[id] EXCEPT !.policies = @ \cup {p}] \in Rules
          /\ [rules[id] EXCEPT !.policies = @ \ {p}] \in Rules
      BY <1>0, <1>6 DEF AddPolicy, RemovePolicy, Rules
    <2> QED
      BY <1>3, <1>6, <2>1 DEF AddPolicy, RemovePolicy
  <1> QED
    BY <1>1, <1>2, <1>4, <1>5, <1>6 DEF ChangeRules

\* A ledger that closes keeps the rules and does not go back.
LEMMA LedgerAdvances ==
    ASSUME WalletTypeOK, CloseLedger
    PROVE  /\ WalletTypeOK'
           /\ rules' = rules /\ ledger \in Nat /\ ledger' \in Nat /\ ledger <= ledger'
  BY WalletRulesAssumption DEF WalletTypeOK, CloseLedger

-----------------------------------------------------------------------------
(* The shape of an operation's state. *)

\* Before a choice there are no chosen rules, before the list is made nothing
\* is in it, and an operation that signs has an entry to sign until it ends.
IsQueue(q) ==
    /\ q \in Seq(Seq((Types \ {"Default"}) \cup {None})) /\ q # << >>
    /\ \A i \in DOMAIN q : q[i] # << >>

Shape ==
    /\ TypeOK
    /\ IsFiniteSet(found)
    /\ step \in {"idle", "indexer", "probe", "read", "ledger", "signer", "resolve"} =>
          ids = << >>
    /\ step \in {"idle", "indexer", "probe", "read", "ledger"} => list = {}
    /\ step \in {"idle", "indexer"} => found = {}
    /\ (step \in {"idle", "indexer"} \/ kind = "multi") => probe = 0 /\ misses = 0
    /\ step \notin {"read", "ended"} => unread = {}
    /\ kind = "multi" => ~probing /\ step # "probe"
    /\ step = "probe" => probe <= MaxRuleId /\ misses < MaxMisses
    /\ (step \notin {"idle", "ended"} /\ kind # "list") => IsQueue(left)
    /\ step \in {"signer", "resolve", "lookup", "prompt"} => kind # "list"
    /\ step = "lookup" => at \in 1..Len(ids)

\* Nothing else touches the wallet.
LEMMA WalletStays == WalletTypeOK /\ UNCHANGED wallet => WalletTypeOK'
  BY DEF WalletTypeOK, wallet

\* The state has its shape before the first call.
LEMMA ShapeBegins == Init => Shape
  <1> SUFFICES ASSUME Init PROVE Shape
    OBVIOUS
  <1>1. WalletTypeOK
    BY WalletBegins DEF Init
  <1>2. indexed = None \/ indexed \subseteq Ids
    BY <1>1, LiveVersions DEF Init, IdsOf
  <1>3. IsFiniteSet(found)
    BY FS_EmptySet DEF Init
  <1>4. ledger \in Nat
    BY <1>1, WalletRulesAssumption DEF WalletTypeOK
  <1> QED
    BY <1>1, <1>2, <1>3, <1>4, ContextRulesAssumption, WalletRulesAssumption
    DEF Init, Shape, TypeOK, Steps, IdsOf

\* Every call begins in shape.
LEMMA ShapeBegin ==
    ASSUME Shape, NEW k \in {"list", "sign", "multi"}, NEW c, NEW p \in BOOLEAN,
           NEW es, NEW who, Begin(k, c, p, es, who),
           k # "list" => es \in Entries, k = "multi" => p = FALSE
    PROVE  Shape'
  <1>1. WalletTypeOK'
    BY WalletStays DEF Shape, TypeOK, Begin, chain, wallet
  <1>2. k # "list" => IsQueue(es)
    BY ContextRulesAssumption DEF IsQueue
  <1>3. ledger \in Nat
    BY WalletRulesAssumption DEF Shape, TypeOK, WalletTypeOK
  <1> QED
    BY <1>1, <1>2, <1>3
    DEF Shape, TypeOK, Begin, Steps, chain, wallet, reading

\* An operation that throws ends in shape.
LEMMA ShapeThrows == Shape /\ Throws => Shape'
  <1> SUFFICES ASSUME Shape, Throws PROVE Shape'
    OBVIOUS
  <1>1. WalletTypeOK'
    BY WalletStays DEF Shape, TypeOK, Throws, chain, wallet
  <1> QED
    BY <1>1
    DEF Shape, TypeOK, Throws, Steps, chain, wallet, reading, call, signing, history

\* So does one that returns.
LEMMA ShapeReturn == Shape /\ Return => Shape'
  <1> SUFFICES ASSUME Shape, Return PROVE Shape'
    OBVIOUS
  <1>1. WalletTypeOK'
    BY WalletStays DEF Shape, TypeOK, Return, chain, wallet
  <1>2. ledger \in Nat
    BY WalletRulesAssumption DEF Shape, TypeOK, WalletTypeOK
  <1> QED
    BY <1>1, <1>2, FS_EmptySet, ContextRulesAssumption
    DEF Shape, TypeOK, Return, Steps, chain, wallet, IdsOf

\* The indexer's answer is a set of IDs, or none.
LEMMA ShapeAskIndexer == Shape /\ AskIndexer => Shape'
  <1> SUFFICES ASSUME Shape, AskIndexer PROVE Shape'
    OBVIOUS
  <1>1. WalletTypeOK'
    BY WalletStays DEF Shape, TypeOK, AskIndexer, chain, wallet
  <1>2. PICK answer \in Answers :
          /\ named' = answer
          /\ IF probing THEN step' = "probe" /\ UNCHANGED unread
             ELSE Discovered(answer, {})
    BY DEF AskIndexer
  <1>3. answer = None \/ answer \subseteq Ids
    BY ContextRulesAssumption DEF Shape, TypeOK, Answers, ContractDetails
  <1>4. 0 <= MaxRuleId /\ 0 < MaxMisses
    BY ContextRulesAssumption
  <1>5. step = "indexer" /\ found = {} /\ list = {} /\ probe = 0 /\ misses = 0
    BY DEF Shape, AskIndexer
  <1>6. unread' \subseteq Ids
    BY <1>2, <1>3 DEF Shape, TypeOK, Discovered, NotRead
  <1>7. /\ step' \in {"probe", "ended", "signer", "read"}
        /\ step' = "signer" => kind # "list"
        /\ step' \in {"probe", "signer"} => unread' = {}
        /\ step' = "probe" => kind # "multi"
    <2>1. CASE probing
      BY <1>2, <1>5, <2>1 DEF Shape
    <2>2. CASE ~probing
      BY <1>2, <2>2 DEF Discovered, NotRead
    <2> QED
      BY <2>1, <2>2
  <1>8. UNCHANGED <<indexed, began, ledger, probe, misses, found, list, kind, probing,
                    ids, left, at, signer>>
    BY DEF AskIndexer, chain, wallet, call, signing, history
  <1> QED
    BY <1>1, <1>2, <1>3, <1>4, <1>5, <1>6, <1>7, <1>8
    DEF Shape, TypeOK, Steps, IdsOf

\* Probing goes on to the next ID, and not past the last.
LEMMA ShapeProbe == Shape /\ Probe => Shape'
  <1> SUFFICES ASSUME Shape, Probe PROVE Shape'
    OBVIOUS
  <1>1. WalletTypeOK /\ WalletTypeOK'
    BY WalletStays DEF Shape, TypeOK, Probe, chain, wallet
  <1>2. PICK hit \in BOOLEAN :
          /\ hit => rules[probe] # None
          /\ found' = IF hit THEN found \cup {Version(probe, rules[probe])} ELSE found
          /\ misses' = After(hit)[1] /\ probe' = After(hit)[2]
          /\ IF misses' >= MaxMisses \/ probe' > MaxRuleId
             THEN Discovered(named, found')
             ELSE UNCHANGED <<step, unread>>
    BY DEF Probe
  <1>3. /\ step = "probe" /\ probe \in 0..MaxRuleId /\ misses \in 0..MaxMisses
        /\ misses < MaxMisses /\ MaxMisses \in Nat /\ MaxRuleId \in Nat
        /\ probe \in Ids /\ list = {} /\ ids = << >>
    BY ContextRulesAssumption, WalletRulesAssumption DEF Shape, TypeOK, Probe, Ids
  <1>4. /\ probe' = probe + 1
        /\ misses' = IF hit THEN 0 ELSE misses + 1
    BY <1>2 DEF After
  <1>5. probe' \in 0..MaxRuleId + 1 /\ misses' \in 0..MaxMisses
    BY <1>3, <1>4
  <1>6. /\ found \subseteq [id : Ids, rule : Rules] /\ IsFiniteSet(found)
        /\ hit => Version(probe, rules[probe]) \in [id : Ids, rule : Rules]
    BY <1>1, <1>2, <1>3, LiveVersions DEF Shape, TypeOK
  <1>7. found' \subseteq [id : Ids, rule : Rules] /\ IsFiniteSet(found')
    BY <1>2, <1>6, FS_AddElement
  <1>8. /\ step' \in {"probe", "ended", "signer", "read"}
        /\ step' = "signer" => kind # "list"
        /\ step' = "probe" => probe' <= MaxRuleId /\ misses' < MaxMisses
        /\ step' \in {"probe", "signer"} => unread' = {}
    BY <1>2, <1>3, <1>5 DEF Discovered, NotRead, Shape
  <1>9. unread' \subseteq Ids \ IdsOf(found')
    <2>1. CASE Discovered(named, found')
      BY <2>1 DEF Shape, TypeOK, Discovered, NotRead
    <2>2. CASE ~Discovered(named, found')
      <3>1. step' = "probe" /\ UNCHANGED unread
        BY <1>2, <1>3, <2>2
      <3> QED
        BY <3>1, <1>3 DEF Shape
    <2> QED
      BY <2>1, <2>2
  <1>10. UNCHANGED <<indexed, named, began, ledger, list, kind, probing, ids, left, at,
                     signer>>
    BY DEF Probe, chain, wallet, call, signing, history
  <1>11. kind # "multi"
    BY <1>3, <1>10 DEF Shape, Probe
  <1> QED
    BY <1>1, <1>3, <1>5, <1>7, <1>8, <1>9, <1>10, <1>11
    DEF Shape, TypeOK, Steps

\* A rule the indexer named is read as it is on chain.
LEMMA ShapeReadIndexed == Shape /\ ReadIndexed => Shape'
  <1> SUFFICES ASSUME Shape, ReadIndexed PROVE Shape'
    OBVIOUS
  <1>1. CASE Throws
    BY <1>1, ShapeThrows
  <1>2. CASE ~Throws
    <2>1. PICK id \in unread :
            /\ unread' = unread \ {id}
            /\ \/ found' = found
               \/ /\ rules[id] # None
                  /\ found' = found \cup {Version(id, rules[id])}
            /\ UNCHANGED <<chain, call, step, named, probe, misses, list, signing,
                           history>>
      BY <1>2 DEF ReadIndexed
    <2>2. WalletTypeOK /\ WalletTypeOK' /\ id \in Ids
      BY <2>1, WalletStays DEF Shape, TypeOK, chain, wallet
    <2>3. found' \subseteq [id : Ids, rule : Rules]
      BY <2>1, <2>2, LiveVersions DEF Shape, TypeOK
    <2>6. IsFiniteSet(found')
      BY <2>1, FS_AddElement DEF Shape
    <2>4. unread' \subseteq Ids \ IdsOf(found')
      BY <2>1, VersionFields DEF Shape, TypeOK, IdsOf
    <2>5. step = "read"
      BY DEF ReadIndexed
    <2> QED
      BY <2>1, <2>2, <2>3, <2>4, <2>5, <2>6
      DEF Shape, TypeOK, Steps, chain, wallet, call, signing, history
  <1> QED
    BY <1>1, <1>2

\* With all read, the ledger is next.
LEMMA ShapeAllRead == Shape /\ AllRead => Shape'
  <1> SUFFICES ASSUME Shape, AllRead PROVE Shape'
    OBVIOUS
  <1>1. WalletTypeOK'
    BY WalletStays DEF Shape, TypeOK, AllRead, chain, wallet
  <1> QED
    BY <1>1
    DEF Shape, TypeOK, AllRead, Steps, chain, wallet, reading, call, signing, history

\* The list is made of what was read.
LEMMA ShapeLatestLedger == Shape /\ LatestLedger => Shape'
  <1> SUFFICES ASSUME Shape, LatestLedger PROVE Shape'
    OBVIOUS
  <1>1. CASE Throws
    BY <1>1, ShapeThrows
  <1>2. CASE ~Throws
    <2>1. /\ list' = Unexpired(found) /\ step = "ledger"
          /\ step' = IF kind = "list" THEN "ended" ELSE "signer"
          /\ UNCHANGED <<chain, call, named, probe, misses, found, unread, signing,
                         history>>
      BY <1>2 DEF LatestLedger
    <2>2. WalletTypeOK'
      BY <2>1, WalletStays DEF Shape, TypeOK, chain, wallet
    <2>3. list' \subseteq found
      BY <2>1 DEF Unexpired
    <2> QED
      BY <2>1, <2>2, <2>3
      DEF Shape, TypeOK, Steps, chain, wallet, call, signing, history
  <1> QED
    BY <1>1, <1>2

\* A passkey's signers are looked for in the list.
LEMMA ShapeFindSigner == Shape /\ FindSigner => Shape'
  <1> SUFFICES ASSUME Shape, FindSigner PROVE Shape'
    OBVIOUS
  <1>1. CASE Throws
    BY <1>1, ShapeThrows
  <1>2. CASE ~Throws
    <2>1. /\ step = "signer" /\ step' = "resolve"
          /\ UNCHANGED <<chain, call, reading, left, ids, at, signer, history>>
      BY <1>2 DEF FindSigner
    <2>2. WalletTypeOK'
      BY <2>1, WalletStays DEF Shape, TypeOK, chain, wallet
    <2> QED
      BY <2>1, <2>2
      DEF Shape, TypeOK, Steps, chain, wallet, call, reading, history
  <1> QED
    BY <1>1, <1>2

\* The rules chosen for a context are among the listed ones.
LEMMA ChosenAmongTheListed ==
    ASSUME NEW versions, NEW context, NEW who
    PROVE  Chosen(versions, context, who) \subseteq versions
  BY DEF Chosen, PreferSpecific

\* One rule chosen for a context gives its one ID.
LEMMA ChosenIsOneRule ==
    ASSUME NEW versions, versions \subseteq [id : Ids, rule : Rules], IsFiniteSet(versions),
           NEW context, NEW who, Cardinality(Chosen(versions, context, who)) = 1
    PROVE  \E v \in versions :
              /\ Chosen(versions, context, who) = {v}
              /\ v.id \in Ids
              /\ (CHOOSE id \in Ids :
                    IdsOf(Chosen(versions, context, who)) = {id}) = v.id
  <1> DEFINE one == Chosen(versions, context, who)
  <1>1. one \in SUBSET versions
    BY ChosenAmongTheListed
  <1>2. IsFiniteSet(one)
    BY <1>1, FS_Subset
  <1>3. PICK v : one = {v}
    BY <1>2, FS_Singleton
  <1>4. v \in versions /\ v.id \in Ids
    BY <1>1, <1>3
  <1>5. IdsOf(one) = {v.id}
    BY <1>3 DEF IdsOf
  <1>6. (CHOOSE id \in Ids : IdsOf(one) = {id}) = v.id
    BY <1>4, <1>5
  <1> QED
    BY <1>3, <1>4, <1>6

\* What a resolution that does not throw does.
LEMMA ResolveChooses ==
    ASSUME Shape, Resolve, ~Throws
    PROVE  /\ step = "resolve" /\ step' \in {"prompt", "lookup"}
           /\ at' = 1 /\ Head(left) \in Seq((Types \ {"Default"}) \cup {None})
           /\ Head(left) # << >>
           /\ DOMAIN ids' = DOMAIN Head(left) /\ ids' \in Seq(Ids)
           /\ \A k \in DOMAIN ids' :
                /\ Head(left)[k] # None
                /\ \E v \in list : /\ Chosen(list, Head(left)[k], selected) = {v}
                                   /\ ids'[k] = v.id
           /\ UNCHANGED <<chain, call, reading, selected, left, signer, history>>
  <1> DEFINE contexts == Head(left)
             choice == [k \in DOMAIN contexts |-> Chosen(list, contexts[k], selected)]
  <1>1. /\ step = "resolve" /\ at' = 1
        /\ \A k \in DOMAIN contexts : contexts[k] # None /\ Cardinality(choice[k]) = 1
        /\ ids' = [k \in DOMAIN contexts |-> CHOOSE id \in Ids : IdsOf(choice[k]) = {id}]
        /\ step' = IF kind = "multi" THEN "prompt" ELSE "lookup"
        /\ UNCHANGED <<chain, call, reading, selected, left, signer, history>>
    BY DEF Resolve
  <1>2. IsQueue(left)
    BY <1>1 DEF Shape
  <1>3. /\ Head(left) \in Seq((Types \ {"Default"}) \cup {None})
        /\ Head(left) # << >>
    BY <1>2 DEF IsQueue
  <1>4. list \subseteq [id : Ids, rule : Rules] /\ IsFiniteSet(list)
    <2>1. list \in SUBSET found /\ found \subseteq [id : Ids, rule : Rules]
      BY DEF Shape, TypeOK
    <2> QED
      BY <2>1, FS_Subset DEF Shape
  <1>5. \A k \in DOMAIN contexts :
           \E v \in list : /\ Chosen(list, contexts[k], selected) = {v}
                           /\ v.id \in Ids
                           /\ (CHOOSE id \in Ids : IdsOf(choice[k]) = {id}) = v.id
    <2>1. TAKE k \in DOMAIN contexts
    <2>2. Cardinality(Chosen(list, contexts[k], selected)) = 1
      BY <1>1
    <2> QED
      BY <1>4, <2>2, ChosenIsOneRule
  <1>6. DOMAIN contexts = 1..Len(contexts) /\ Len(contexts) \in Nat
    BY <1>3
  <1>7. ids' \in Seq(Ids) /\ DOMAIN ids' = DOMAIN contexts
    <2> DEFINE only(k) == CHOOSE id \in Ids : IdsOf(choice[k]) = {id}
    <2> HIDE DEF choice, contexts
    <2>1. \A k \in DOMAIN contexts : only(k) \in Ids
      BY <1>5
    <2>2. ids' = [k \in DOMAIN contexts |-> only(k)]
      BY <1>1
    <2> HIDE DEF only
    <2> QED
      BY <1>6, <2>1, <2>2
  <1>8. \A k \in DOMAIN contexts :
           \E v \in list : /\ Chosen(list, contexts[k], selected) = {v}
                           /\ ids'[k] = v.id
    <2> HIDE DEF choice, contexts
    <2> QED
      BY <1>1, <1>5
  <1> QED
    BY <1>1, <1>3, <1>7, <1>8

\* What is chosen for an entry are IDs of the list.
LEMMA ShapeResolve == Shape /\ Resolve => Shape'
  <1> SUFFICES ASSUME Shape, Resolve PROVE Shape'
    OBVIOUS
  <1>1. CASE Throws
    BY <1>1, ShapeThrows
  <1>2. CASE ~Throws
    <2>1. WalletTypeOK'
      BY <1>2, ResolveChooses, WalletStays DEF Shape, TypeOK, chain, wallet
    <2>2. ids' \in Seq(Ids) /\ 1 \in 1..Len(ids')
      <3>1. /\ ids' \in Seq(Ids) /\ DOMAIN ids' = DOMAIN Head(left)
            /\ Head(left) \in Seq((Types \ {"Default"}) \cup {None})
            /\ Head(left) # << >>
        BY <1>2, ResolveChooses
      <3> QED
        BY <3>1
    <2>3. /\ step = "resolve" /\ step' \in {"prompt", "lookup"} /\ at' = 1
          /\ UNCHANGED <<chain, call, reading, selected, left, signer, history>>
      BY <1>2, ResolveChooses
    <2> QED
      BY <2>1, <2>2, <2>3
      DEF Shape, TypeOK, Steps, chain, wallet, call, reading, history
  <1> QED
    BY <1>1, <1>2

\* The lookup goes through the chosen IDs.
LEMMA ShapeLookUp == Shape /\ LookUp => Shape'
  <1> SUFFICES ASSUME Shape, LookUp PROVE Shape'
    OBVIOUS
  <1>1. CASE Throws
    BY <1>1, ShapeThrows
  <1>2. CASE ~Throws
    <2>1. /\ step = "lookup"
          /\ \/ step' \in {"prompt", "ended"} /\ UNCHANGED at
             \/ step' = step /\ at' = at + 1 /\ at # Len(ids)
          /\ UNCHANGED <<chain, call, reading, selected, left, ids, history>>
      BY <1>2 DEF LookUp
    <2>2. signer' \in Signers \cup {None}
      <3>1. ids[at] \in Ids
        BY <2>1 DEF Shape, TypeOK
      <3>2. rules[ids[at]] # None => rules[ids[at]].signers \subseteq Signers
        BY <3>1 DEF Shape, TypeOK, WalletTypeOK, Rules
      <3> QED
        BY <1>2, <3>2 DEF LookUp, Shape, TypeOK
    <2>3. WalletTypeOK'
      BY <2>1, WalletStays DEF Shape, TypeOK, chain, wallet
    <2>4. step' = "lookup" => at' \in 1..Len(ids)
      BY <2>1 DEF Shape, TypeOK
    <2> QED
      BY <2>1, <2>3, <2>4, <2>2
      DEF Shape, TypeOK, Steps, chain, wallet, call, reading, history
  <1> QED
    BY <1>1, <1>2

\* Signing goes on to the next entry or ends.
LEMMA ShapeSigns == Shape /\ Signs => Shape'
  <1> SUFFICES ASSUME Shape, Signs PROVE Shape'
    OBVIOUS
  <1>1. WalletTypeOK'
    BY WalletStays DEF Shape, TypeOK, Signs, chain, wallet
  <1>2. /\ step = "prompt" /\ left' = Tail(left) /\ ids' = << >> /\ unread = {} /\ signer' = None
        /\ step' = IF Tail(left) = << >> THEN "ended"
                   ELSE IF kind = "multi" THEN "indexer" ELSE "resolve"
        /\ \/ kind = "multi" /\ found' = {} /\ list' = {}
           \/ kind # "multi" /\ UNCHANGED <<found, list>>
        /\ UNCHANGED <<chain, call, named, probe, misses, unread, selected, at, history>>
    BY DEF Signs, Shape
  <1>3. IsQueue(left)
    BY <1>2 DEF Shape
  <1>4. Tail(left) # << >> => IsQueue(Tail(left))
    <2>1. /\ \A i \in 1..Len(left) : left[i] # << >>
          /\ \A i \in 1..Len(Tail(left)) : Tail(left)[i] = left[i + 1]
          /\ Len(Tail(left)) = Len(left) - 1 /\ Len(left) \in Nat
          /\ Tail(left) \in Seq(Seq((Types \ {"Default"}) \cup {None}))
      BY <1>3 DEF IsQueue
    <2> QED
      BY <2>1 DEF IsQueue
  <1>5. /\ step' \in {"ended", "indexer", "resolve"}
        /\ step' = "indexer" => kind = "multi"
        /\ step' # "ended" => IsQueue(left')
    BY <1>2, <1>4
  <1>6. IsFiniteSet(found') /\ found' \subseteq found /\ list' \subseteq found'
    BY <1>2, FS_EmptySet DEF Shape, TypeOK
  <1>7. TypeOK'
    BY <1>1, <1>2, <1>5, <1>6 DEF Shape, TypeOK, Steps, IdsOf, chain, wallet, call, history
  <1>8. kind' = kind /\ probe' = probe /\ misses' = misses /\ probing' = probing
    BY <1>2 DEF call
  <1> QED
    BY <1>2, <1>5, <1>6, <1>7, <1>8 DEF Shape

\* The chain and the indexer move within their types.
LEMMA ShapeEnvironment == Shape /\ Environment => Shape'
  <1> SUFFICES ASSUME Shape, Environment PROVE Shape'
    OBVIOUS
  <1>1. WalletTypeOK' /\ ledger \in Nat /\ ledger' \in Nat /\ ledger <= ledger'
    <2>1. CASE Change
      BY <2>1, WalletChanges, WalletRulesAssumption
      DEF Change, Shape, TypeOK, WalletTypeOK
    <2>2. CASE CatchUp
      BY <2>2, WalletStays, WalletRulesAssumption
      DEF CatchUp, Shape, TypeOK, WalletTypeOK, wallet
    <2>3. CASE LedgerCloses
      BY <2>3, LedgerAdvances DEF LedgerCloses, Shape, TypeOK
    <2> QED
      BY <2>1, <2>2, <2>3 DEF Environment
  <1>2. indexed' = None \/ indexed' \subseteq Ids
    <2>1. IdsOf(Live(rules)) \subseteq Ids
      BY LiveVersions DEF Shape, TypeOK, IdsOf
    <2> QED
      BY <2>1 DEF Environment, Change, CatchUp, LedgerCloses, Shape, TypeOK
  <1>3. UNCHANGED <<call, step, reading, signing, began>>
    BY DEF Environment, Change, CatchUp, LedgerCloses, history
  <1> QED
    BY <1>1, <1>2, <1>3 DEF Shape, TypeOK, Steps, call, reading, signing

\* Every step keeps the shape.
LEMMA ShapeStep == Shape /\ [Next]_vars => Shape'
  <1> SUFFICES ASSUME Shape, [Next]_vars PROVE Shape'
    OBVIOUS
  <1>1. CASE Call
    <2>1. CASE ListRules
      BY <2>1, ShapeBegin DEF ListRules
    <2>2. CASE SignEntries
      BY <2>2, ShapeBegin DEF SignEntries
    <2>3. CASE SignWithSigners
      BY <2>3, ShapeBegin DEF SignWithSigners
    <2> QED
      BY <1>1, <2>1, <2>2, <2>3 DEF Call
  <1>2. CASE Proceed
    BY <1>2, ShapeAskIndexer, ShapeThrows, ShapeProbe, ShapeReadIndexed, ShapeAllRead,
       ShapeLatestLedger, ShapeFindSigner, ShapeResolve, ShapeLookUp, ShapeSigns
    DEF Proceed, IndexerFails, PromptFails
  <1>3. CASE Return
    BY <1>3, ShapeReturn
  <1>4. CASE Environment
    BY <1>4, ShapeEnvironment
  <1>5. CASE UNCHANGED vars
    <2>1. WalletTypeOK'
      BY <1>5, WalletStays DEF Shape, TypeOK, vars, chain, wallet
    <2> QED
      BY <1>5, <2>1
      DEF Shape, TypeOK, vars, chain, wallet, call, reading, signing, history
  <1> QED
    BY <1>1, <1>2, <1>3, <1>4, <1>5 DEF Next

\* The state of an operation has its types throughout: probing stays among the
\* IDs there are, what is read is a rule of the contract, and an ID is not read
\* twice (listContextRules in kit/context-rules.ts).
THEOREM RulesTyped == Spec => []TypeOK
  <1>1. Shape => TypeOK
    BY DEF Shape
  <1> QED
    BY <1>1, ShapeBegins, ShapeStep, PTL DEF Spec

-----------------------------------------------------------------------------
(* What has been read, and what the wallet has had since the beginning. *)

\* The history holds what is on chain; every version read was there at some
\* moment; and a version that was there all the time is the only one read.
Known ==
    /\ step # "idle" => Live(rules) \subseteq ever /\ always \subseteq Live(rules)
    /\ found \subseteq ever
    /\ \A v, w \in found : v.id = w.id => v = w
    /\ \A v \in always, w \in found : v.id = w.id => v = w
    /\ \A v \in list : ~Expired(v.rule, began)

\* Unless a probe has failed, what stays on chain was found as far as the probe
\* has come, and none of the IDs it has just missed is in use.  Later, what can be
\* found has been found or is still to be read.
Probing ==
    step = "probe" =>
        /\ \A w \in found : w.id < probe
        /\ ~failed =>
              /\ \A v \in always : v.id < probe => v \in found
              /\ misses <= probe
              /\ \A i \in probe - misses..probe - 1 : i \notin IdsOf(always)
Gathering ==
    step \in {"read", "ledger"} =>
        \A v \in always : Findable(v.id) => v \in found \/ v.id \in unread
Gathered == Probing /\ Gathering /\ SteadyRulesAreListed

Reads == Shape /\ Known /\ Gathered

\* Nothing is known before the first call.
LEMMA ReadsBegins == Init => Reads
  <1>1. Init => Known /\ Gathered
    BY DEF Init, Known, Gathered, Probing, Gathering, SteadyRulesAreListed, Listed
  <1> QED
    BY <1>1, ShapeBegins DEF Reads

\* An operation begins with what is on chain and nothing read.
LEMMA ReadsBegin ==
    ASSUME Shape, Known, NEW k, NEW c, NEW p, NEW es, NEW who, Begin(k, c, p, es, who)
    PROVE  Known' /\ Gathered'
  <1>1. /\ step = "idle" /\ step' = "indexer" /\ found' = {} /\ list' = {}
        /\ ever' = Live(rules) /\ always' = Live(rules) /\ rules' = rules
    BY DEF Begin, Shape, chain, wallet, reading
  <1>2. Live(rules)' = Live(rules)
    BY <1>1 DEF Live
  <1> QED
    BY <1>1, <1>2 DEF Known, Gathered, Probing, Gathering, SteadyRulesAreListed, Listed

\* Once there is a list, an operation reads nothing more.
LEMMA ReadsKept ==
    ASSUME Known, Gathered, step # "idle",
           UNCHANGED <<chain, probing, reading, history>>,
           step' = "ended" \/ (Listed /\ Listed')
    PROVE  Known' /\ Gathered'
  <1>1. UNCHANGED <<rules, ledger, probing, named, found, list, unread, ever, always,
                    began, failed>>
    BY DEF chain, wallet, reading, history
  <1>2. Live(rules)' = Live(rules) /\ \A id : Findable(id)' = Findable(id)
    BY <1>1 DEF Live, Findable, Reached
  <1>3. Known'
    BY <1>1, <1>2 DEF Known
  <1>4. Probing' /\ Gathering'
    BY DEF Probing, Gathering, Listed
  <1>5. SteadyRulesAreListed'
    BY <1>1, <1>2 DEF Gathered, SteadyRulesAreListed, Listed
  <1> QED
    BY <1>3, <1>4, <1>5 DEF Gathered

\* When all IDs are known, the ones not found yet are to be read.
LEMMA DiscoveredGathers ==
    ASSUME Known', found' \subseteq [id : Ids, rule : Rules], list' = {},
           NEW answer, Discovered(answer, found'), named' = answer,
           \A v \in always' : ~failed' /\ Reached(v.id)' => v \in found'
    PROVE  Gathered'
  <1>1. /\ unread' = (IF answer = None THEN {} ELSE answer) \ IdsOf(found')
        /\ step' \in {"ended", "signer", "read"}
        /\ step' = "signer" =>
              found' = {} /\ (IF answer = None THEN {} ELSE answer) = {}
    BY DEF Discovered, NotRead
  <1>2. \A v \in always' : Findable(v.id)' => v \in found' \/ v.id \in unread'
    <2> SUFFICES ASSUME NEW v \in always', Findable(v.id)', v.id \notin unread'
                 PROVE  v \in found'
      OBVIOUS
    <2>1. CASE answer # None /\ v.id \in answer
      <3>1. PICK w \in found' : w.id = v.id
        BY <1>1, <2>1 DEF IdsOf
      <3> QED
        BY <3>1 DEF Known
    <2>2. CASE ~(answer # None /\ v.id \in answer)
      BY <2>2 DEF Findable
    <2> QED
      BY <2>1, <2>2
  <1>3. Probing' /\ Gathering'
    BY <1>1, <1>2 DEF Probing, Gathering
  <1>4. SteadyRulesAreListed'
    BY <1>1, <1>2 DEF SteadyRulesAreListed, Listed
  <1> QED
    BY <1>3, <1>4 DEF Gathered

\* What the indexer names is still to be read.
LEMMA ReadsAskIndexer ==
    ASSUME Shape, Known, AskIndexer
    PROVE  Known' /\ Gathered'
  <1>1. PICK answer \in Answers :
          /\ named' = answer
          /\ IF probing THEN step' = "probe" /\ UNCHANGED unread
             ELSE Discovered(answer, {})
    BY DEF AskIndexer
  <1>2. /\ step = "indexer" /\ found' = {} /\ list' = {} /\ probe' = 0 /\ misses' = 0
        /\ UNCHANGED <<rules, ever, always, probing>>
    BY DEF AskIndexer, Shape, chain, wallet, call, history
  <1>3. Live(rules)' = Live(rules)
    BY <1>2 DEF Live
  <1>4. Known'
    BY <1>2, <1>3 DEF Known
  <1>5. CASE probing
    <2>1. always' \subseteq Live(rules)' /\ WalletTypeOK
      BY <1>2, <1>3, <1>4 DEF Known, Shape, TypeOK
    <2>2. \A v \in always' : v.id \in Nat
      BY <1>2, <1>3, <2>1, LiveVersions, WalletRulesAssumption DEF Ids
    <2>3. Probing'
      BY <1>2, <2>2 DEF Probing
    <2>4. step' = "probe"
      BY <1>1, <1>5
    <2> QED
      BY <1>4, <2>3, <2>4 DEF Gathered, Gathering, SteadyRulesAreListed, Listed
  <1>6. CASE ~probing
    <2>1. \A v \in always' : ~Reached(v.id)'
      BY <1>2, <1>6 DEF Reached
    <2>2. Discovered(answer, found')
      BY <1>1, <1>2, <1>6
    <2> QED
      BY <1>1, <1>2, <1>4, <2>1, <2>2, DiscoveredGathers
  <1> QED
    BY <1>5, <1>6

\* A version read now is the one that is on chain.
LEMMA ReadNow ==
    ASSUME Shape, Known, step # "idle", NEW id \in Ids, rules[id] # None
    PROVE  /\ Version(id, rules[id]) \in ever
           /\ \A v \in always : v.id = id => v = Version(id, rules[id])
  BY LiveVersions DEF Known, Shape, TypeOK

\* A probe reads what is there, or misses an ID that is not always in use.
LEMMA ReadsProbe ==
    ASSUME Shape, Known, Gathered, Probe
    PROVE  Known' /\ Gathered'
  <1> DEFINE now == Version(probe, rules[probe])
  <1>1. PICK hit \in BOOLEAN :
          /\ hit => rules[probe] # None
          /\ found' = IF hit THEN found \cup {now} ELSE found
          /\ misses' = After(hit)[1] /\ probe' = After(hit)[2]
          /\ failed' = (failed \/ (~hit /\ rules[probe] # None))
          /\ IF misses' >= MaxMisses \/ probe' > MaxRuleId
             THEN Discovered(named, found')
             ELSE UNCHANGED <<step, unread>>
    BY DEF Probe
  <1>2. /\ step = "probe" /\ probe \in 0..MaxRuleId /\ misses \in 0..MaxMisses
        /\ MaxMisses \in Nat \ {0} /\ MaxRuleId \in Nat /\ probe \in Ids /\ list = {}
    BY ContextRulesAssumption, WalletRulesAssumption DEF Shape, TypeOK, Probe, Ids
  <1>3. UNCHANGED <<rules, named, probing, list, ever, always, began>>
    BY DEF Probe, chain, wallet, call
  <1>4. probe' = probe + 1 /\ misses' = IF hit THEN 0 ELSE misses + 1
    BY <1>1 DEF After
  <1>5. /\ \A v \in always : v.id \in Nat /\ rules[v.id] # None
        /\ \A w \in found : w.id \in Nat /\ w.id < probe
    <2>1. always \subseteq Live(rules) /\ found \subseteq [id : Ids, rule : Rules]
      BY <1>2 DEF Known, Shape, TypeOK
    <2>2. \A w \in found : w.id \in Nat
      BY <2>1, WalletRulesAssumption DEF Ids
    <2>3. \A v \in always : v.id \in Nat /\ rules[v.id] # None
      BY <2>1, LiveVersions, WalletRulesAssumption DEF Ids, Shape, TypeOK
    <2> QED
      BY <1>2, <2>2, <2>3 DEF Gathered, Probing
  <1>6. /\ now.id = probe
        /\ hit => now \in ever /\ \A v \in always : v.id = probe => v = now
    BY <1>1, <1>2, ReadNow, VersionFields
  <1>7. Known'
    <2>1. Live(rules)' = Live(rules)
      BY <1>3 DEF Live
    <2>2. found' \subseteq ever
      BY <1>1, <1>6 DEF Known
    <2>3. \A v, w \in found' : v.id = w.id => v = w
      BY <1>1, <1>2, <1>5, <1>6 DEF Known
    <2>4. \A v \in always, w \in found' : v.id = w.id => v = w
      BY <1>1, <1>6 DEF Known
    <2>5. \A v \in list' : ~Expired(v.rule, began)
      BY <1>2, <1>3
    <2> QED
      BY <1>2, <1>3, <2>1, <2>2, <2>3, <2>4, <2>5 DEF Known
  <1>8. \A w \in found' : w.id < probe'
    BY <1>1, <1>2, <1>4, <1>5, <1>6
  <1>9. ASSUME ~failed'
        PROVE  /\ \A v \in always : v.id < probe' => v \in found'
               /\ misses' <= probe'
               /\ \A i \in probe' - misses'..probe' - 1 : i \notin IdsOf(always)
    <2>1. /\ ~failed /\ (~hit => rules[probe] = None)
          /\ \A v \in always : v.id < probe => v \in found
          /\ misses <= probe
          /\ \A i \in probe - misses..probe - 1 : i \notin IdsOf(always)
      BY <1>1, <1>2, <1>9 DEF Gathered, Probing
    <2>2. \A v \in always : v.id < probe' => v \in found'
      BY <1>1, <1>2, <1>4, <1>5, <1>6, <2>1
    <2>3. misses' <= probe'
      BY <1>2, <1>4, <2>1
    <2>4. ~hit => probe \notin IdsOf(always)
      BY <1>5, <2>1 DEF IdsOf
    <2>5. \A i \in probe' - misses'..probe' - 1 : i \notin IdsOf(always)
      <3> SUFFICES ASSUME NEW i \in probe' - misses'..probe' - 1
                   PROVE  i \notin IdsOf(always)
        OBVIOUS
      <3>1. ~hit /\ (i = probe \/ i \in probe - misses..probe - 1)
        BY <1>2, <1>4
      <3> QED
        BY <2>1, <2>4, <3>1
    <2> QED
      BY <2>2, <2>3, <2>5
  <1>10. Probing'
    BY <1>3, <1>8, <1>9 DEF Probing, IdsOf
  <1>11. CASE misses' >= MaxMisses \/ probe' > MaxRuleId
    <2>1. ASSUME NEW v \in always', ~failed', Reached(v.id)'
          PROVE  v \in found'
      <3>1. /\ v \in always /\ v.id \in Nat /\ v.id <= MaxRuleId
            /\ \A i \in 0..v.id - MaxMisses : \E j \in i..i + MaxMisses - 1 :
                  j \in IdsOf(always)
        BY <1>3, <1>5, <2>1 DEF Reached, IdsOf
      <3>2. CASE v.id < probe'
        BY <1>9, <2>1, <3>1, <3>2
      <3>3. CASE v.id >= probe'
        <4>1. misses' >= MaxMisses
          BY <1>2, <1>4, <1>11, <3>1, <3>3
        <4>2. /\ probe' - MaxMisses \in 0..v.id - MaxMisses
              /\ misses' \in Nat /\ misses' <= probe'
          BY <1>2, <1>4, <1>9, <2>1, <3>1, <3>3, <4>1
        <4>3. PICK j \in probe' - MaxMisses..probe' - MaxMisses + MaxMisses - 1 :
                j \in IdsOf(always)
          BY <3>1, <4>2
        <4>4. j \in probe' - misses'..probe' - 1
          BY <1>2, <1>4, <4>1, <4>2
        <4> QED
          BY <1>9, <2>1, <4>3, <4>4
      <3> QED
        BY <1>2, <1>4, <3>1, <3>2, <3>3
    <2>2. found' \subseteq [id : Ids, rule : Rules]
      BY ShapeProbe DEF Shape, TypeOK
    <2>3. Discovered(named, found') /\ named' = named /\ list' = {}
      BY <1>1, <1>2, <1>3, <1>11
    <2> QED
      BY <1>7, <2>1, <2>2, <2>3, DiscoveredGathers
  <1>12. CASE ~(misses' >= MaxMisses \/ probe' > MaxRuleId)
    <2>1. step' = "probe"
      BY <1>1, <1>2, <1>12
    <2> QED
      BY <1>7, <1>10, <2>1 DEF Gathered, Gathering, SteadyRulesAreListed, Listed
  <1> QED
    BY <1>11, <1>12

\* An operation that throws claims nothing.
LEMMA ReadsThrows ==
    ASSUME Known, Gathered, step # "idle", Throws
    PROVE  Known' /\ Gathered'
  BY ReadsKept DEF Throws, call

\* A rule that is read was there, and one that stays is not lost.
LEMMA ReadsReadIndexed ==
    ASSUME Shape, Known, Gathered, ReadIndexed
    PROVE  Known' /\ Gathered'
  <1>1. step = "read"
    BY DEF ReadIndexed
  <1>2. CASE Throws
    BY <1>1, <1>2, ReadsThrows
  <1>3. CASE ~Throws
    <2>1. PICK id \in unread :
            /\ unread' = unread \ {id}
            /\ \/ rules[id] = None /\ found' = found
               \/ rules[id] # None /\ found' = found \cup {Version(id, rules[id])}
            /\ UNCHANGED <<chain, call, step, named, probe, misses, list, signing,
                           history>>
      BY <1>3 DEF ReadIndexed, IsMissing
    <2>2. UNCHANGED <<rules, ledger, probing, step, named, list, ever, always, began,
                      failed>>
      BY <2>1 DEF chain, wallet, call, history
    <2>3. id \in Ids /\ \A w \in found : w.id # id
      BY <2>1 DEF Shape, TypeOK, IdsOf
    <2>4. rules[id] = None => \A v \in always : v.id # id
      BY <1>1, LiveVersions DEF Known, Shape, TypeOK
    <2>5. rules[id] # None =>
            /\ Version(id, rules[id]) \in ever
            /\ \A v \in always : v.id = id => v = Version(id, rules[id])
      BY <1>1, <2>3, ReadNow
    <2>6. Version(id, rules[id]).id = id
      BY VersionFields
    <2>7. Known'
      <3>1. Live(rules)' = Live(rules)
        BY <2>2 DEF Live
      <3>2. found' \subseteq ever
        BY <2>1, <2>5 DEF Known
      <3>3. \A v, w \in found' : v.id = w.id => v = w
        BY <2>1, <2>3, <2>6 DEF Known
      <3>4. \A v \in always, w \in found' : v.id = w.id => v = w
        BY <2>1, <2>5, <2>6 DEF Known
      <3> QED
        BY <2>2, <3>1, <3>2, <3>3, <3>4 DEF Known
    <2>8. Gathering'
      <3>1. \A x : Findable(x)' = Findable(x)
        BY <2>2 DEF Findable, Reached
      <3>2. \A v \in always : Findable(v.id) => v \in found \/ v.id \in unread
        BY <1>1 DEF Gathered, Gathering
      <3>3. \A v \in always : Findable(v.id) => v \in found' \/ v.id \in unread'
        BY <2>1, <2>4, <2>5, <3>2
      <3> QED
        BY <2>2, <3>1, <3>3 DEF Gathering
    <2> QED
      BY <1>1, <2>2, <2>7, <2>8 DEF Gathered, Probing, SteadyRulesAreListed, Listed
  <1> QED
    BY <1>2, <1>3

\* With nothing left to read, what can be found has been.
LEMMA ReadsAllRead ==
    ASSUME Shape, Known, Gathered, AllRead
    PROVE  Known' /\ Gathered'
  <1>1. /\ step = "read" /\ step' = "ledger"
        /\ UNCHANGED <<rules, ledger, probing, named, found, unread, list, ever, always,
                       began, failed>>
    BY DEF AllRead, chain, wallet, call, reading, history
  <1>2. Live(rules)' = Live(rules) /\ \A x : Findable(x)' = Findable(x)
    BY <1>1 DEF Live, Findable, Reached
  <1>3. Known'
    BY <1>1, <1>2 DEF Known
  <1>4. Gathering'
    BY <1>1, <1>2 DEF Gathered, Gathering
  <1> QED
    BY <1>1, <1>3, <1>4 DEF Gathered, Probing, SteadyRulesAreListed, Listed

\* What stays and has not expired goes into the list.
LEMMA ReadsLatestLedger ==
    ASSUME Shape, Known, Gathered, LatestLedger
    PROVE  Known' /\ Gathered'
  <1>1. CASE Throws
    BY <1>1, ReadsThrows DEF LatestLedger
  <1>2. CASE ~Throws
    <2>1. /\ step = "ledger" /\ step' \in {"ended", "signer"} /\ list' = Unexpired(found)
          /\ UNCHANGED <<chain, call, named, probe, misses, found, unread, signing,
                         history>>
      BY <1>2 DEF LatestLedger
    <2>2. UNCHANGED <<rules, ledger, probing, named, found, unread, ever, always, began,
                      failed>>
      BY <2>1 DEF chain, wallet, call, history
    <2>3. \A v \in found : v.rule \in Rules
      BY DEF Shape, TypeOK
    <2>4. began \in Nat /\ ledger \in Nat /\ began <= ledger
      BY WalletRulesAssumption DEF Shape, TypeOK, WalletTypeOK
    <2>5. \A v \in list' : v \in found /\ ~Expired(v.rule, ledger)
      BY <2>1 DEF Unexpired
    <2>6. \A v \in list' : ~Expired(v.rule, began)
      BY <2>3, <2>4, <2>5, ExpiresOnce
    <2>7. Live(rules)' = Live(rules) /\ \A x : Findable(x)' = Findable(x)
      BY <2>2 DEF Live, Findable, Reached
    <2>8. Known'
      BY <2>1, <2>2, <2>6, <2>7 DEF Known
    <2>9. \A v \in always : Findable(v.id) => v \in found
      BY <2>1 DEF Shape, Gathered, Gathering
    <2>10. \A v \in always : Findable(v.id) => v \in list' \/ Expired(v.rule, ledger)
      BY <2>1, <2>9 DEF Unexpired
    <2>11. SteadyRulesAreListed'
      BY <2>2, <2>7, <2>10 DEF SteadyRulesAreListed
    <2> QED
      BY <2>1, <2>8, <2>11 DEF Gathered, Probing, Gathering
  <1> QED
    BY <1>1, <1>2

\* Signing one entry changes nothing the kit has read.
LEMMA ReadsSigns ==
    ASSUME Shape, Known, Gathered, Signs
    PROVE  Known' /\ Gathered'
  <1>1. CASE kind # "multi"
    <2>1. /\ step = "prompt" /\ step' \in {"ended", "resolve"}
          /\ UNCHANGED <<chain, call, reading, history>>
      BY <1>1 DEF Signs, reading
    <2> QED
      BY <2>1, ReadsKept DEF Listed, call
  <1>2. CASE kind = "multi"
    <2>1. /\ step = "prompt" /\ step' \in {"ended", "indexer"} /\ found' = {} /\ list' = {}
          /\ UNCHANGED <<rules, ever, always, began>>
      BY <1>2 DEF Signs, chain, wallet, history
    <2>2. Live(rules)' = Live(rules)
      BY <2>1 DEF Live
    <2> QED
      BY <2>1, <2>2 DEF Known, Gathered, Probing, Gathering, SteadyRulesAreListed, Listed
  <1> QED
    BY <1>1, <1>2

\* Nothing is known after the operation.
LEMMA ReadsReturn == Return => Known' /\ Gathered'
  BY DEF Return, Known, Gathered, Probing, Gathering, SteadyRulesAreListed, Listed

\* A rule that changes is no longer expected, and time makes no rule usable.
LEMMA ReadsEnvironment ==
    ASSUME Shape, Known, Gathered, Environment
    PROVE  Known' /\ Gathered'
  <1>1. /\ UNCHANGED <<probing, step, named, probe, misses, found, unread, list, began,
                       failed>>
        /\ \/ step = "idle" /\ ever' = ever /\ always' = always
           \/ /\ step # "idle"
              /\ ever' = ever \cup Live(rules)' /\ always' = always \cap Live(rules)'
           \/ rules' = rules /\ ever' = ever /\ always' = always
    <2>1. CASE Change
      BY <2>1 DEF Change, call, reading
    <2>2. CASE CatchUp \/ LedgerCloses
      BY <2>2 DEF CatchUp, LedgerCloses, CloseLedger, call, reading, history, wallet
    <2> QED
      BY <2>1, <2>2 DEF Environment
  <1>2. ever \subseteq ever' /\ always' \subseteq always
    BY <1>1
  <1>3. step # "idle" => Live(rules)' \subseteq ever' /\ always' \subseteq Live(rules)'
    BY <1>1 DEF Known, Live
  <1>4. Known'
    BY <1>1, <1>2, <1>3 DEF Known
  <1>5. \A x : Reached(x)' => Reached(x)
    BY <1>1, <1>2 DEF Reached, IdsOf
  <1>6. \A x : Findable(x)' => Findable(x)
    BY <1>1, <1>5 DEF Findable
  <1>7. Probing'
    <2>1. \A x : x \notin IdsOf(always) => x \notin IdsOf(always')
      BY <1>2 DEF IdsOf
    <2>2. Probing
      BY DEF Gathered
    <2> QED
      BY <1>1, <1>2, <2>1, <2>2 DEF Probing
  <1>8. Gathering'
    BY <1>1, <1>2, <1>6 DEF Gathered, Gathering
  <1>9. SteadyRulesAreListed'
    <2> SUFFICES ASSUME Listed, NEW v \in always', Findable(v.id)'
                 PROVE  v \in list' \/ Expired(v.rule, ledger)'
      BY <1>1 DEF SteadyRulesAreListed, Listed
    <2>1. v \in list \/ Expired(v.rule, ledger)
      BY <1>2, <1>6 DEF Gathered, SteadyRulesAreListed
    <2>2. /\ ledger \in Nat /\ ledger' \in Nat /\ ledger <= ledger'
          /\ v.rule \in Rules
      <3>1. ledger' = ledger \/ CloseLedger
        BY WalletChanges
        DEF Environment, Change, CatchUp, LedgerCloses, Shape, TypeOK, wallet
      <3>2. ledger \in Nat
        BY WalletRulesAssumption DEF Shape, TypeOK, WalletTypeOK
      <3>3. v \in Live(rules)
        BY <1>2 DEF Known, Listed
      <3> QED
        BY <3>1, <3>2, <3>3, LiveVersions, LedgerAdvances DEF Shape, TypeOK
    <2>3. Expired(v.rule, ledger) => Expired(v.rule, ledger')
      BY <2>2, ExpiresOnce
    <2> QED
      BY <1>1, <2>1, <2>3 DEF Expired
  <1> QED
    BY <1>4, <1>7, <1>8, <1>9 DEF Gathered

\* So what the kit knows of the chain stays true.
LEMMA ReadsStep == Reads /\ [Next]_vars => Reads'
  <1> SUFFICES ASSUME Shape, Known, Gathered, [Next]_vars
               PROVE  Known' /\ Gathered'
    BY ShapeStep DEF Reads
  <1>1. CASE Call
    BY <1>1, ReadsBegin DEF Call, ListRules, SignEntries, SignWithSigners
  <1>2. CASE Proceed
    <2>1. CASE IndexerFails \/ PromptFails
      BY <2>1, ReadsThrows DEF IndexerFails, PromptFails
    <2>2. CASE FindSigner
      <3>1. step = "signer" /\ UNCHANGED <<chain, call, reading, history>>
        BY <2>2 DEF FindSigner, Throws
      <3>2. step' \in {"ended", "resolve"}
        BY <2>2 DEF FindSigner, Throws
      <3> QED
        BY <3>1, <3>2, ReadsKept DEF Listed, call
    <2>3. CASE Resolve
      <3>1. step = "resolve" /\ UNCHANGED <<chain, call, reading, history>>
        BY <2>3 DEF Resolve, Throws
      <3>2. step' \in {"ended", "prompt", "lookup"}
        BY <2>3 DEF Resolve, Throws
      <3> QED
        BY <3>1, <3>2, ReadsKept DEF Listed, call
    <2>4. CASE LookUp
      <3>1. step = "lookup" /\ UNCHANGED <<chain, call, reading, history>>
        BY <2>4 DEF LookUp, Throws
      <3>2. step' \in {"ended", "prompt", "lookup"}
        BY <2>4 DEF LookUp, Throws
      <3> QED
        BY <3>1, <3>2, ReadsKept DEF Listed, call
    <2> QED
      BY <1>2, <2>1, <2>2, <2>3, <2>4, ReadsAskIndexer, ReadsProbe, ReadsReadIndexed,
         ReadsAllRead, ReadsLatestLedger, ReadsSigns DEF Proceed
  <1>3. CASE Return
    BY <1>3, ReadsReturn
  <1>4. CASE Environment
    BY <1>4, ReadsEnvironment
  <1>5. CASE UNCHANGED vars
    <2>1. UNCHANGED <<rules, ledger, probing, step, named, probe, misses, found, unread,
                      list, ever, always, began, failed>>
      BY <1>5 DEF vars, chain, wallet, call, reading, history
    <2>2. Live(rules)' = Live(rules) /\ \A x : Findable(x)' = Findable(x)
      BY <2>1 DEF Live, Findable, Reached
    <2>3. Known'
      BY <2>1, <2>2 DEF Known
    <2>4. Probing' /\ Gathering'
      BY <2>1, <2>2 DEF Gathered, Probing, Gathering
    <2>5. SteadyRulesAreListed'
      BY <2>1, <2>2 DEF Gathered, SteadyRulesAreListed, Listed
    <2> QED
      BY <2>3, <2>4, <2>5 DEF Gathered
  <1> QED
    BY <1>1, <1>2, <1>3, <1>4, <1>5 DEF Next

\* However the indexer lags and whatever reads fail, a rule that stays as it is
\* and that the indexer names, or that the probing cannot stop short of, is in
\* the list an operation goes on with (listContextRules).
THEOREM SteadyRulesFound == Spec => []SteadyRulesAreListed
  <1>1. Reads => SteadyRulesAreListed
    BY DEF Reads, Gathered
  <1> QED
    BY <1>1, ReadsBegins, ReadsStep, PTL DEF Spec

-----------------------------------------------------------------------------
(* The chosen rules. *)

Chose == ChosenRulesWereUsable /\ OnlySpecificRuleWins
Choosing == Reads /\ Chose

\* Where nothing is chosen there is nothing to show.
LEMMA NothingChosen == ids = << >> => Chose
  BY DEF Chose, ChosenRulesWereUsable, OnlySpecificRuleWins

\* Nor where nothing is chosen next.
LEMMA NothingChosenNext ==
    ASSUME ids' = << >>
    PROVE  Chose'
  BY DEF Chose, ChosenRulesWereUsable, OnlySpecificRuleWins

\* A choice is not looked at again when what it was made from stays.
LEMMA ChoiceKept ==
    ASSUME Chose,
           UNCHANGED <<chain, probing, named, failed, list, selected, left, ids,
                       began, ever, always>>
    PROVE  Chose'
  <1>1. UNCHANGED <<ledger, probing, named, failed, list, selected, left, ids, began,
                    ever, always>>
    BY DEF chain, wallet
  <1>2. /\ \A x : Findable(x)' = Findable(x) /\ NotDefault(x)' = NotDefault(x)
        /\ \A v, k : MeantFor(v, k)' = MeantFor(v, k)
    BY <1>1 DEF Findable, Reached, MeantFor, NotDefault
  <1>3. ChosenRulesWereUsable'
    BY <1>1 DEF Chose, ChosenRulesWereUsable
  <1>4. OnlySpecificRuleWins'
    BY <1>1, <1>2 DEF Chose, OnlySpecificRuleWins
  <1> QED
    BY <1>3, <1>4 DEF Chose

\* The one rule for exactly the context and the signers is preferred to Default,
\* whether it is the only candidate or one of several.
LEMMA MeantRuleIsPreferred ==
    ASSUME NEW versions, NEW v \in versions,
           IsFiniteSet(versions), v.rule.type # "Default",
           \A w \in versions :
              w.rule.type = v.rule.type /\ w.rule.signers = v.rule.signers => w = v
    PROVE  Chosen(versions, v.rule.type, v.rule.signers) = {v}
  <1> DEFINE context == v.rule.type
             who == v.rule.signers
  <1> DEFINE candidates == {w \in versions : Matches(w.rule, context)}
             same == {w \in candidates : w.rule.signers = who}
             exact == PreferSpecific(same)
  <1>1. v \in candidates /\ candidates \in SUBSET versions
    BY DEF Matches
  <1>2. CASE Cardinality(candidates) = 1
    <2>1. candidates = {v}
      <3>1. IsFiniteSet(candidates)
        BY <1>1, FS_Subset
      <3>2. PICK x : candidates = {x}
        BY <1>2, <3>1, FS_Singleton
      <3> QED
        BY <1>1, <3>2
    <2>2. Chosen(versions, context, who) = candidates
      BY <1>2 DEF Chosen
    <2> QED
      BY <2>1, <2>2
  <1>3. CASE Cardinality(candidates) # 1
    <2>1. v \in same
      BY <1>1
    <2>2. {w \in same : w.rule.type # "Default"} = {v}
      BY <2>1 DEF Matches
    <2>3. exact = {v}
      BY <2>2 DEF PreferSpecific
    <2>4. Cardinality(exact) = 1
      BY <2>3, FS_Singleton
    <2>5. Chosen(versions, context, who) = exact
      BY <1>3, <2>4 DEF Chosen
    <2> QED
      BY <2>3, <2>5
  <1> QED
    BY <1>2, <1>3

\* What is chosen for an entry was on chain, and meant for the call where the
\* kit can tell.
LEMMA ChoiceResolve ==
    ASSUME Reads, Resolve, ~Throws
    PROVE  Chose'
  <1>1. /\ step = "resolve"
        /\ Head(left) \in Seq((Types \ {"Default"}) \cup {None})
        /\ DOMAIN ids' = DOMAIN Head(left)
        /\ \A k \in DOMAIN ids' :
             /\ Head(left)[k] # None
             /\ \E v \in list : /\ Chosen(list, Head(left)[k], selected) = {v}
                                /\ ids'[k] = v.id
        /\ UNCHANGED <<chain, call, reading, selected, left, signer, history>>
    BY ResolveChooses DEF Reads
  <1>2. UNCHANGED <<ledger, probing, named, failed, list, selected, left, began, ever,
                    always>>
    BY <1>1 DEF chain, wallet, call, reading, history
  <1>3. /\ list \subseteq found /\ found \subseteq ever
        /\ \A v, w \in list : v.id = w.id => v = w
        /\ \A v \in list : ~Expired(v.rule, began)
    BY DEF Reads, Shape, TypeOK, Known
  <1>4. ChosenRulesWereUsable'
    BY <1>1, <1>2, <1>3 DEF ChosenRulesWereUsable
  <1>5. OnlySpecificRuleWins'
    <2> SUFFICES ASSUME NEW k \in DOMAIN ids', NEW v \in always,
                        MeantFor(v, k)', Findable(v.id)', ~Expired(v.rule, ledger),
                        \A w \in list : MeantFor(w, k)' => w = v
                 PROVE  NotDefault(k)'
      BY <1>2 DEF OnlySpecificRuleWins
    <2>1. /\ v.rule.type = Head(left)[k] /\ v.rule.signers = selected
          /\ \A w \in list :
                w.rule.type = Head(left)[k] /\ w.rule.signers = selected => w = v
      BY <1>2 DEF MeantFor
    <2>2. Findable(v.id)
      BY <1>2 DEF Findable, Reached
    <2>3. v \in list
      BY <1>1, <2>2 DEF Reads, Gathered, SteadyRulesAreListed, Listed
    <2>4. Head(left)[k] # "Default"
      BY <1>1
    <2>5. IsFiniteSet(list)
      <3>1. list \in SUBSET found /\ IsFiniteSet(found)
        BY <1>3 DEF Reads, Shape
      <3> QED
        BY <3>1, FS_Subset
    <2>6. Chosen(list, Head(left)[k], selected) = {v}
      <3>1. /\ v.rule.type # "Default"
            /\ \A w \in list :
                  w.rule.type = v.rule.type /\ w.rule.signers = v.rule.signers => w = v
        BY <2>1, <2>4
      <3>2. Chosen(list, v.rule.type, v.rule.signers) = {v}
        BY <2>3, <2>5, <3>1, MeantRuleIsPreferred
      <3> QED
        BY <2>1, <3>2
    <2>7. ids'[k] = v.id
      <3>1. PICK u \in list :
              Chosen(list, Head(left)[k], selected) = {u} /\ ids'[k] = u.id
        BY <1>1
      <3>2. u = v
        BY <2>6, <3>1
      <3> QED
        BY <3>1, <3>2
    <2> QED
      BY <1>2, <1>3, <2>1, <2>3, <2>4, <2>7 DEF NotDefault
  <1> QED
    BY <1>4, <1>5 DEF Chose

\* A choice stays right whatever the chain does, since it is about the past.
LEMMA ChoiceEnvironment ==
    ASSUME Reads, Chose, Environment
    PROVE  Chose'
  <1>1. CASE ids = << >>
    <2>1. ids' = << >>
      BY <1>1 DEF Environment, Change, CatchUp, LedgerCloses, signing
    <2> QED
      BY <2>1, NothingChosenNext
  <1>2. CASE ids # << >>
    <2>1. /\ UNCHANGED <<probing, named, failed, list, selected, left, ids, began>>
          /\ step # "idle"
      BY <1>2
      DEF Environment, Change, CatchUp, LedgerCloses, call, reading, signing, history,
          Reads, Shape
    <2>2. ever \subseteq ever' /\ always' \subseteq always
      BY DEF Environment, Change, CatchUp, LedgerCloses, history
    <2>3. ChosenRulesWereUsable'
      BY <2>1, <2>2 DEF Chose, ChosenRulesWereUsable
    <2>4. \A x : Findable(x)' => Findable(x)
      BY <2>1, <2>2 DEF Findable, Reached, IdsOf
    <2>5. \A v \in always : ~Expired(v.rule, ledger') => ~Expired(v.rule, ledger)
      <3>1. ledger' = ledger \/ CloseLedger
        BY WalletChanges
        DEF Environment, Change, CatchUp, LedgerCloses, Reads, Shape, TypeOK, wallet
      <3>2. ledger \in Nat
        BY WalletRulesAssumption DEF Reads, Shape, TypeOK, WalletTypeOK
      <3>3. \A v \in always : v.rule \in Rules
        BY <2>1, LiveVersions DEF Reads, Known, Shape, TypeOK
      <3> QED
        BY <3>1, <3>2, <3>3, LedgerAdvances, ExpiresOnce DEF Reads, Shape, TypeOK
    <2>6. /\ \A v, k : MeantFor(v, k)' = MeantFor(v, k)
          /\ \A k : NotDefault(k)' = NotDefault(k)
      BY <2>1 DEF MeantFor, NotDefault
    <2>7. OnlySpecificRuleWins'
      <3> SUFFICES ASSUME NEW k \in DOMAIN ids, NEW v \in always',
                          MeantFor(v, k), Findable(v.id)', ~Expired(v.rule, ledger'),
                          \A w \in list : MeantFor(w, k) => w = v
                   PROVE  NotDefault(k)
        BY <2>1, <2>6 DEF OnlySpecificRuleWins
      <3>1. v \in always /\ Findable(v.id) /\ ~Expired(v.rule, ledger)
        BY <2>2, <2>4, <2>5
      <3> QED
        BY <3>1 DEF Chose, OnlySpecificRuleWins
    <2> QED
      BY <2>3, <2>7 DEF Chose
  <1> QED
    BY <1>1, <1>2

\* So the choices are right throughout.
LEMMA ChoosingStep == Choosing /\ [Next]_vars => Choosing'
  <1> SUFFICES ASSUME Reads, Chose, [Next]_vars PROVE Chose'
    BY ReadsStep DEF Choosing
  <1>1. CASE Call \/ AskIndexer \/ Probe \/ ReadIndexed \/ AllRead
    <2>1. step \in {"idle", "indexer", "probe", "read"}
      BY <1>1
      DEF Call, ListRules, SignEntries, SignWithSigners, Begin, AskIndexer, Probe,
          ReadIndexed, AllRead
    <2>2. ids = << >>
      BY <2>1 DEF Reads, Shape
    <2>3. UNCHANGED ids
      BY <1>1
      DEF Call, ListRules, SignEntries, SignWithSigners, Begin, AskIndexer, Probe,
          ReadIndexed, AllRead, Throws, signing
    <2> QED
      BY <2>2, <2>3, NothingChosenNext
  <1>2. CASE LatestLedger \/ FindSigner
    <2>1. ids' = << >> \/ Throws
      BY <1>2 DEF LatestLedger, FindSigner, Reads, Shape, signing
    <2> QED
      BY <2>1, NothingChosenNext, ChoiceKept DEF Throws, call, reading, signing, history
  <1>3. CASE Throws
    BY <1>3, ChoiceKept DEF Throws, call, reading, signing, history
  <1>4. CASE Resolve
    BY <1>3, <1>4, ChoiceResolve
  <1>5. CASE LookUp
    <2>1. Throws \/ UNCHANGED <<chain, call, reading, selected, left, ids, history>>
      BY <1>5 DEF LookUp
    <2> QED
      BY <1>3, <2>1, ChoiceKept DEF call, reading, history
  <1>6. CASE Signs \/ Return
    BY <1>6, NothingChosenNext DEF Signs, Return
  <1>7. CASE Environment
    BY <1>7, ChoiceEnvironment
  <1>8. CASE UNCHANGED vars
    BY <1>8, ChoiceKept DEF vars, call, reading, signing, history
  <1> QED
    BY <1>1, <1>2, <1>3, <1>4, <1>5, <1>6, <1>7, <1>8
    DEF Next, Proceed, IndexerFails, PromptFails

\* Every rule an entry is signed under is in the list the operation made, was on
\* chain at some moment since it began, and had not expired then, though its
\* entries share one snapshot (resolveConnectedContextRuleIds).
THEOREM ChosenRulesUsable == Spec => []ChosenRulesWereUsable
  <1>1. Init => Choosing
    BY ReadsBegins, NothingChosen DEF Choosing, Init
  <1>2. Choosing => ChosenRulesWereUsable
    BY DEF Choosing, Chose
  <1> QED
    BY <1>1, <1>2, ChoosingStep, PTL DEF Spec

\* The default rule, and with it a weaker policy, is never signed under when the
\* wallet has, all the time, the one rule for exactly the context and the signers
\* and the kit can find it (resolveContextRuleIdsForEntry and preferSpecific).
THEOREM SpecificRulePreferred == Spec => []OnlySpecificRuleWins
  <1>1. Init => Choosing
    BY ReadsBegins, NothingChosen DEF Choosing, Init
  <1>2. Choosing => OnlySpecificRuleWins
    BY DEF Choosing, Chose
  <1> QED
    BY <1>1, <1>2, ChoosingStep, PTL DEF Spec

-----------------------------------------------------------------------------
(* The signer. *)

\* What the rules are resolved for is the one signer the list has for the
\* passkey; the lookup comes after that, and finds one of the chosen rules' own.
Resolved ==
    /\ kind \in {"none", "list", "sign", "multi"}
    /\ step \notin {"idle", "ended"} => kind # "none"
    /\ step = "lookup" => kind = "sign"
    /\ (kind = "sign" /\ step \in {"resolve", "lookup", "prompt"}) =>
          \E s : SignersFor(list, cred) = {s} /\ selected = {s}
    /\ step \notin {"prompt", "ended"} => signer = None
    /\ SignsAsResolved

\* Where no signer has been found there is nothing to show.
LEMMA NobodyFound == signer' = None => SignsAsResolved'
  BY DEF SignsAsResolved

\* What was found is not looked at again when the choice stays.
LEMMA SignerKept ==
    ASSUME SignsAsResolved, UNCHANGED <<list, ids, at, selected, signer>>,
           always' \subseteq always
    PROVE  SignsAsResolved'
  BY DEF SignsAsResolved

\* What matters stays when nothing but the end of the operation comes.
LEMMA ResolvedThrows ==
    ASSUME Resolved, Throws
    PROVE  Resolved'
  BY SignerKept DEF Resolved, Throws, call, reading, signing, history

\* Until the rules are listed nobody is found.
LEMMA ResolvedLists ==
    ASSUME Shape, Resolved,
           Call \/ AskIndexer \/ Probe \/ ReadIndexed \/ AllRead \/ LatestLedger
    PROVE  Resolved'
  <1>1. CASE Throws
    BY <1>1, ResolvedThrows
  <1>2. CASE ~Throws
    <2>1. /\ step \in {"idle", "indexer", "probe", "read", "ledger"}
          /\ step' \notin {"resolve", "lookup", "prompt"} /\ UNCHANGED signer
          /\ kind' \in {"list", "sign", "multi"} \/ (kind' = kind /\ step # "idle")
      BY <1>2
      DEF Call, ListRules, SignEntries, SignWithSigners, Begin, AskIndexer, Discovered, Probe,
          ReadIndexed, AllRead, LatestLedger, signing, call
    <2>2. signer' = None
      BY <2>1 DEF Resolved
    <2> QED
      BY <2>1, <2>2, NobodyFound DEF Resolved
  <1> QED
    BY <1>1, <1>2

\* A passkey with one signer in the list has the rules resolved for that one.
LEMMA ResolvedSigner ==
    ASSUME Shape, Resolved, FindSigner \/ Resolve
    PROVE  Resolved'
  <1>1. CASE Throws
    BY <1>1, ResolvedThrows
  <1>2. CASE FindSigner /\ ~Throws
    <2>1. /\ step = "signer" /\ step' = "resolve"
          /\ UNCHANGED <<kind, cred, list, signer>>
          /\ kind = "sign" => /\ Unambiguous(SignersFor(list, cred))
                              /\ \E s \in SignersFor(list, cred) : selected' = {s}
      BY <1>2 DEF FindSigner, call, reading
    <2>2. signer' = None
      BY <2>1 DEF Resolved
    <2>3. SignersFor(list, cred)' = SignersFor(list, cred)
      BY <2>1 DEF SignersFor
    <2>4. kind = "sign" => \E s : SignersFor(list, cred) = {s} /\ selected' = {s}
      BY <2>1 DEF Unambiguous
    <2> QED
      BY <2>1, <2>2, <2>3, <2>4, NobodyFound DEF Resolved
  <1>3. CASE Resolve /\ ~Throws
    <2>1. /\ step = "resolve" /\ step' = IF kind = "multi" THEN "prompt" ELSE "lookup"
          /\ UNCHANGED <<kind, cred, list, selected, signer>>
      BY <1>3 DEF Resolve, call, reading
    <2>2. signer' = None /\ kind # "list" /\ kind # "none"
      BY <2>1 DEF Resolved, Shape
    <2>3. SignersFor(list, cred)' = SignersFor(list, cred)
      BY <2>1 DEF SignersFor
    <2> QED
      BY <2>1, <2>2, <2>3, NobodyFound DEF Resolved
  <1> QED
    BY <1>1, <1>2, <1>3

\* The rule read again is the one in the list if that stood all the time.
LEMMA ResolvedLookUp ==
    ASSUME Reads, Resolved, LookUp
    PROVE  Resolved'
  <1>1. CASE Throws
    BY <1>1, ResolvedThrows
  <1>2. CASE ~Throws
    <2>1. /\ step = "lookup" /\ rules[ids[at]] # None
          /\ UNCHANGED <<kind, cred, list, selected, ids, rules, always>>
          /\ \/ /\ step' = "prompt" /\ UNCHANGED at
                /\ signer' \in rules[ids[at]].signers /\ signer'.cred = cred
             \/ step' \in {"ended", "lookup"} /\ UNCHANGED signer
      BY <1>2 DEF LookUp, call, reading, history, chain, wallet
    <2>2. SignersFor(list, cred)' = SignersFor(list, cred)
      BY <2>1 DEF SignersFor
    <2>3. PICK s : SignersFor(list, cred) = {s} /\ selected = {s}
      BY <2>1 DEF Resolved
    <2>4. SignsAsResolved'
      <3>1. CASE UNCHANGED signer
        BY <2>1, <3>1, NobodyFound DEF Resolved
      <3>2. CASE /\ step' = "prompt" /\ UNCHANGED at
                 /\ signer' \in rules[ids[at]].signers /\ signer'.cred = cred
        <4>1. ASSUME NEW v \in list \cap always, v.id = ids[at]
              PROVE  selected = {signer'}
          <5>1. v \in Live(rules)
            BY <2>1, <4>1 DEF Reads, Known
          <5>2. v.rule = rules[ids[at]]
            BY <4>1, <5>1 DEF Live, Version
          <5>3. signer' \in SignersFor(list, cred)
            BY <3>2, <4>1, <5>2 DEF SignersFor
          <5> QED
            BY <2>3, <5>3
        <4> QED
          BY <2>1, <3>2, <4>1 DEF SignsAsResolved
      <3> QED
        BY <2>1, <3>1, <3>2
    <2> QED
      BY <2>1, <2>2, <2>3, <2>4 DEF Resolved
  <1> QED
    BY <1>1, <1>2

\* Neither the prompt nor the chain changes who was found.
LEMMA ResolvedEnds ==
    ASSUME Reads, Resolved, Signs \/ Return \/ Environment \/ UNCHANGED vars
    PROVE  Resolved'
  <1>1. CASE Return
    BY <1>1, NobodyFound DEF Return, Resolved
  <1>2. CASE Signs
    <2>1. /\ step = "prompt" /\ signer' = None /\ UNCHANGED <<kind, cred, selected>>
          /\ step' \in {"ended", "indexer", "resolve"}
          /\ kind # "multi" => UNCHANGED list
      BY <1>2 DEF Signs, call
    <2>2. kind # "multi" => SignersFor(list, cred)' = SignersFor(list, cred)
      BY <2>1 DEF SignersFor
    <2> QED
      BY <2>1, <2>2, NobodyFound DEF Resolved
  <1>3. CASE Environment \/ UNCHANGED vars
    <2>1. UNCHANGED <<step, kind, cred, list, ids, at, selected, signer>>
      BY <1>3
      DEF Environment, Change, CatchUp, LedgerCloses, vars, call, reading, signing
    <2>2. always' \subseteq always
      BY <1>3 DEF Environment, Change, CatchUp, LedgerCloses, vars, history
    <2>3. SignersFor(list, cred)' = SignersFor(list, cred)
      BY <2>1 DEF SignersFor
    <2> QED
      BY <2>1, <2>2, <2>3, SignerKept DEF Resolved
  <1> QED
    BY <1>1, <1>2, <1>3

\* A passkey never signs as another signer than the one its rules were resolved
\* for, unless the rule it was found in changed since the operation began,
\* although two verifiers may know it and the rules are read at two times
\* (findWebAuthnSignerForCredential, findWebAuthnSignerInRules).
THEOREM PasskeySignsAsResolved == Spec => []SignsAsResolved
  <1>1. Init => Reads /\ Resolved
    BY ReadsBegins DEF Init, Resolved, SignsAsResolved
  <1>2. Reads /\ Resolved /\ [Next]_vars => Reads' /\ Resolved'
    <2> SUFFICES ASSUME Reads, Resolved, [Next]_vars PROVE Resolved'
      BY ReadsStep
    <2>1. Shape
      BY DEF Reads
    <2> QED
      BY <2>1, ResolvedThrows, ResolvedLists, ResolvedSigner, ResolvedLookUp, ResolvedEnds
      DEF Next, Proceed, IndexerFails, PromptFails
  <1>3. Resolved => SignsAsResolved
    BY DEF Resolved
  <1> QED
    BY <1>1, <1>2, <1>3, PTL DEF Spec

-----------------------------------------------------------------------------
(* How long it takes.                                                      *)

\* The contexts of the entry that is signed next.
Contexts == IF kind = "list" THEN 0 ELSE Len(Head(left))

\* What lies at most ahead of an operation before an entry is signed, or its
\* list made: as many requests, checks and prompts.
Ahead ==
    CASE step = "indexer" -> 9 + Contexts + Cardinality(Ids) + MaxRuleId
      [] step = "probe"   -> 8 + Contexts + Cardinality(Ids) + MaxRuleId - probe
      [] step = "read"    -> 6 + Contexts + Cardinality(unread)
      [] step = "ledger"  -> 5 + Contexts
      [] step = "signer"  -> 4 + Contexts
      [] step = "resolve" -> 3 + Contexts
      [] step = "lookup"  -> 2 + Len(ids) - at
      [] step = "prompt"  -> 1
      [] step \in {"idle", "ended"} -> 0

\* An entry is done, or something of what lies ahead.
Nearer ==
    \/ kind # "list" /\ Len(left') < Len(left)
    \/ kind' = kind /\ left' = left /\ Ahead' < Ahead

\* Every step of its own brings an operation nearer to its end, and no step of
\* anybody else throws it back.
Bounded ==
    /\ Ahead \in Nat
    /\ Proceed => Nearer
    /\ Environment => UNCHANGED <<kind, left, Ahead>>

\* There are finitely many IDs, and as many to read at most.
LEMMA IdsAreFinite ==
    /\ IsFiniteSet(Ids) /\ Cardinality(Ids) \in Nat
    /\ \A s \in SUBSET Ids : /\ IsFiniteSet(s) /\ Cardinality(s) \in Nat
                             /\ Cardinality(s) <= Cardinality(Ids)
  <1>1. IsFiniteSet(Ids)
    BY FS_Interval, WalletRulesAssumption DEF Ids
  <1> QED
    BY <1>1, FS_Subset, FS_CardinalityType

\* The entry that is signed next has contexts.
LEMMA ContextsTyped ==
    ASSUME Shape, step \notin {"idle", "ended"}
    PROVE  /\ Contexts \in Nat
           /\ kind # "list" => Len(left) \in Nat /\ left # << >> /\ left \in Seq(Seq((Types \ {"Default"}) \cup {None}))
  <1>1. kind # "list" => IsQueue(left)
    BY DEF Shape
  <1>2. kind # "list" =>
          /\ left \in Seq(Seq((Types \ {"Default"}) \cup {None})) /\ left # << >>
          /\ Head(left) \in Seq((Types \ {"Default"}) \cup {None})
    BY <1>1 DEF IsQueue
  <1> QED
    BY <1>2 DEF Contexts

\* What lies ahead is a number.
LEMMA AheadTyped == Shape => Ahead \in Nat
  <1> SUFFICES ASSUME Shape
               PROVE  Ahead \in Nat
    OBVIOUS
  <1>1. step \in Steps /\ probe \in 0..MaxRuleId + 1 /\ unread \in SUBSET Ids
        /\ ids \in Seq(Ids) /\ MaxRuleId \in Nat
    BY ContextRulesAssumption, WalletRulesAssumption DEF Shape, TypeOK
  <1>2. Cardinality(Ids) \in Nat /\ Cardinality(unread) \in Nat
    BY <1>1, IdsAreFinite
  <1>3. step = "lookup" => at \in 1..Len(ids)
    BY DEF Shape
  <1>4. step = "probe" => probe <= MaxRuleId
    BY DEF Shape
  <1>5. step \notin {"idle", "ended"} => Contexts \in Nat
    BY ContextsTyped
  <1>6. CASE step \in {"indexer", "probe", "read"}
    <2>1. Contexts \in Nat
      BY <1>5, <1>6
    <2>2. CASE step = "indexer"
      BY <1>1, <1>2, <2>1, <2>2 DEF Ahead
    <2>3. CASE step = "probe"
      BY <1>1, <1>2, <1>4, <2>1, <2>3 DEF Ahead
    <2>4. CASE step = "read"
      BY <1>2, <2>1, <2>4 DEF Ahead
    <2> QED
      BY <1>6, <2>2, <2>3, <2>4
  <1>7. CASE step \in {"ledger", "signer", "resolve"}
    BY <1>5, <1>7 DEF Ahead
  <1>8. CASE step = "lookup"
    BY <1>1, <1>3, <1>8 DEF Ahead
  <1>9. CASE step \in {"prompt", "idle", "ended"}
    BY <1>9 DEF Ahead
  <1> QED
    BY <1>1, <1>6, <1>7, <1>8, <1>9 DEF Steps

\* And so it is after the next step.
LEMMA AheadTypedNext == Shape' => (Ahead \in Nat)'
  BY AheadTyped, PTL

\* An operation that throws has nothing more ahead.
LEMMA ThrowsNearer ==
    ASSUME Shape, Throws, step \in Steps \ {"idle", "ended"}
    PROVE  Nearer
  <1>1. step' = "ended" /\ kind' = kind /\ left' = left
    BY DEF Throws, call, signing
  <1>2. Ahead' = 0
    BY <1>1 DEF Ahead
  <1>3. Ahead \in Nat /\ Ahead # 0
    <2>1. Contexts \in Nat
      BY ContextsTyped
    <2>2. MaxRuleId \in Nat /\ Cardinality(Ids) \in Nat
      BY ContextRulesAssumption, WalletRulesAssumption, IdsAreFinite
    <2>3. Cardinality(unread) \in Nat
      <3>1. unread \in SUBSET Ids
        BY DEF Shape, TypeOK
      <3> QED
        BY <3>1, IdsAreFinite
    <2>4. CASE step = "indexer"
      BY <2>1, <2>2, <2>4 DEF Ahead
    <2>8. CASE step = "read"
      BY <2>1, <2>3, <2>8 DEF Ahead
    <2>5. CASE step = "probe"
      <3>1. probe \in 0..MaxRuleId
        BY <2>5, ContextRulesAssumption, WalletRulesAssumption DEF Shape, TypeOK
      <3> QED
        BY <2>1, <2>2, <2>5, <3>1 DEF Ahead
    <2>6. CASE step = "ledger"
      BY <2>1, <2>6 DEF Ahead
    <2>10. CASE step = "signer"
      BY <2>1, <2>10 DEF Ahead
    <2>9. CASE step = "resolve"
      BY <2>1, <2>9 DEF Ahead
    <2>11. CASE step = "prompt"
      BY <2>11 DEF Ahead
    <2>7. CASE step = "lookup"
      BY <2>7 DEF Ahead, Shape, TypeOK
    <2> QED
      BY <2>4, <2>5, <2>6, <2>7, <2>8, <2>9, <2>10, <2>11, AheadTyped DEF Steps
  <1> QED
    BY <1>1, <1>2, <1>3 DEF Nearer

\* Once all IDs are known, no more is to be read than there are IDs.
LEMMA DiscoveredNearer ==
    ASSUME Shape, Shape', NEW answer, NEW versions, Discovered(answer, versions),
           step \in {"indexer", "probe"}, kind' = kind, left' = left
    PROVE  Nearer
  <1>1. step' \in {"ended", "signer", "read"}
    BY DEF Discovered
  <1>2. /\ Contexts \in Nat /\ Contexts' = Contexts
        /\ MaxRuleId \in Nat /\ Cardinality(Ids) \in Nat
        /\ Cardinality(unread') \in Nat /\ Cardinality(unread') <= Cardinality(Ids)
    <2>1. unread' \in SUBSET Ids
      BY DEF Shape, TypeOK
    <2> QED
      BY <2>1, ContextsTyped, ContextRulesAssumption, WalletRulesAssumption, IdsAreFinite
         DEF Contexts
  <1>3. Ahead >= 8 + Contexts + Cardinality(Ids)
    <2>1. CASE step = "indexer"
      BY <1>2, <2>1 DEF Ahead
    <2>2. CASE step = "probe"
      <3>1. probe \in 0..MaxRuleId
        BY <2>2, ContextRulesAssumption, WalletRulesAssumption DEF Shape, TypeOK
      <3> QED
        BY <1>2, <2>2, <3>1 DEF Ahead
    <2> QED
      BY <2>1, <2>2
  <1>4. Ahead' <= 6 + Contexts + Cardinality(Ids) /\ Ahead' \in Nat
    BY <1>1, <1>2, AheadTypedNext DEF Ahead
  <1>5. Ahead \in Nat
    BY AheadTyped
  <1> QED
    BY <1>2, <1>3, <1>4, <1>5 DEF Nearer

\* The requests that find the rules (listContextRules).
LEMMA ListingNearer ==
    ASSUME Shape, Shape',
           AskIndexer \/ Probe \/ ReadIndexed \/ AllRead \/ LatestLedger
    PROVE  Nearer
  <1>1. CASE Throws
    BY <1>1, ThrowsNearer DEF Steps, AskIndexer, Probe, ReadIndexed, AllRead, LatestLedger
  <1>2. CASE ~Throws
    <2>1. kind' = kind /\ left' = left /\ Contexts' = Contexts /\ Contexts \in Nat
      BY <1>2, ContextsTyped DEF AskIndexer, Probe, ReadIndexed, AllRead, LatestLedger, call, signing,
         Contexts
    <2>2. Ahead \in Nat /\ Ahead' \in Nat /\ MaxRuleId \in Nat /\ Cardinality(Ids) \in Nat
      BY AheadTyped, AheadTypedNext, IdsAreFinite, ContextRulesAssumption, WalletRulesAssumption
    <2>3. CASE AskIndexer
      <3>1. (\E answer : Discovered(answer, {})) \/ (step' = "probe" /\ probe' = probe)
        BY <2>3 DEF AskIndexer
      <3>2. step = "indexer" /\ probe = 0
        BY <2>3 DEF AskIndexer, Shape
      <3>3. CASE \E answer : Discovered(answer, {})
        BY <2>1, <3>2, <3>3, DiscoveredNearer
      <3>4. CASE step' = "probe" /\ probe' = probe
        BY <2>1, <2>2, <3>2, <3>4 DEF Nearer, Ahead
      <3> QED
        BY <3>1, <3>3, <3>4
    <2>4. CASE Probe
      <3>1. (\E versions : Discovered(named, versions))
            \/ (step' = step /\ probe' = probe + 1)
        BY <2>4 DEF Probe, After
      <3>2. step = "probe" /\ probe \in Nat
        BY <2>4 DEF Probe, Shape, TypeOK
      <3>3. CASE \E versions : Discovered(named, versions)
        BY <2>1, <3>2, <3>3, DiscoveredNearer
      <3>4. CASE step' = step /\ probe' = probe + 1
        BY <2>1, <2>2, <3>2, <3>4 DEF Nearer, Ahead
      <3> QED
        BY <3>1, <3>3, <3>4
    <2>5. CASE ReadIndexed
      <3>1. PICK id \in unread : unread' = unread \ {id} /\ step' = step
        BY <1>2, <2>5 DEF ReadIndexed
      <3>2. unread \in SUBSET Ids
        BY DEF Shape, TypeOK
      <3>3. /\ Cardinality(unread') = Cardinality(unread) - 1
            /\ Cardinality(unread) \in Nat
        BY <3>1, <3>2, IdsAreFinite, FS_RemoveElement
      <3> QED
        BY <2>1, <2>2, <2>5, <3>1, <3>3 DEF Nearer, Ahead, ReadIndexed
    <2>6. CASE AllRead
      <3>1. Cardinality(unread) = 0
        BY <2>6, FS_EmptySet DEF AllRead
      <3> QED
        BY <2>1, <2>2, <2>6, <3>1 DEF Nearer, Ahead, AllRead
    <2>7. CASE LatestLedger
      BY <1>2, <2>1, <2>2, <2>7 DEF Nearer, Ahead, LatestLedger
    <2> QED
      BY <2>3, <2>4, <2>5, <2>6, <2>7
  <1> QED
    BY <1>1, <1>2

\* The checks and prompts that follow (resolveContextRuleIdsForEntry,
\* findWebAuthnSignerInRules, signAuthEntry).
LEMMA SigningNearer ==
    ASSUME Shape, Shape', FindSigner \/ Resolve \/ LookUp \/ Signs
    PROVE  Nearer
  <1>1. CASE Throws
    BY <1>1, ThrowsNearer DEF Steps, FindSigner, Resolve, LookUp, Signs
  <1>2. CASE ~Throws
    <2>1. /\ Contexts \in Nat /\ Ahead \in Nat /\ Ahead' \in Nat
          /\ kind # "list" /\ Len(left) \in Nat /\ left # << >>
          /\ left \in Seq(Seq((Types \ {"Default"}) \cup {None}))
      <3>1. step \in {"signer", "resolve", "lookup", "prompt"}
        BY DEF FindSigner, Resolve, LookUp, Signs
      <3>2. kind # "list"
        BY <3>1 DEF Shape
      <3> QED
        BY <3>1, <3>2, ContextsTyped, AheadTyped, AheadTypedNext
    <2>2. CASE FindSigner
      BY <1>2, <2>1, <2>2 DEF FindSigner, Nearer, Ahead, Contexts, call
    <2>3. CASE Resolve
      <3>1. /\ step = "resolve" /\ step' \in {"prompt", "lookup"} /\ at' = 1
            /\ kind' = kind /\ left' = left
            /\ Head(left) \in Seq((Types \ {"Default"}) \cup {None})
            /\ DOMAIN ids' = DOMAIN Head(left) /\ ids' \in Seq(Ids)
        BY <1>2, <2>3, ResolveChooses DEF call
      <3>2. Len(ids') = Contexts
        BY <2>1, <3>1 DEF Contexts
      <3> QED
        BY <2>1, <3>1, <3>2 DEF Nearer, Ahead
    <2>4. CASE LookUp
      <3>1. /\ step = "lookup" /\ kind' = kind /\ left' = left /\ ids' = ids
            /\ \/ step' \in {"prompt", "ended"}
               \/ step' = step /\ at' = at + 1
            /\ at \in 1..Len(ids) /\ Len(ids) \in Nat
        BY <1>2, <2>4 DEF LookUp, call, Shape, TypeOK
      <3> QED
        BY <2>1, <3>1 DEF Nearer, Ahead
    <2>5. CASE Signs
      BY <2>1, <2>5 DEF Signs, Nearer
    <2> QED
      BY <2>2, <2>3, <2>4, <2>5
  <1> QED
    BY <1>1, <1>2

\* Every operation makes a bounded number of requests, checks and prompts: each
\* brings it nearer to its end, an ID that is missing as well as one that is
\* read, and other clients, the indexer and the ledger cannot throw it back
\* (listContextRules, resolveConnectedContextRuleIds).
THEOREM OperationsAreBounded == Spec => [][Bounded]_vars
  <1>1. ASSUME Shape, Shape', Proceed
        PROVE  Nearer
    <2>1. CASE IndexerFails \/ PromptFails
      <3>1. Throws /\ step \in Steps \ {"idle", "ended"}
        BY <2>1 DEF IndexerFails, PromptFails, Steps
      <3> QED
        BY <1>1, <3>1, ThrowsNearer
    <2> QED
      BY <1>1, <2>1, ListingNearer, SigningNearer DEF Proceed
  <1>2. Environment => UNCHANGED <<kind, left, Ahead>>
    BY DEF Environment, Change, CatchUp, LedgerCloses, call, reading, signing, Ahead, Contexts
  <1>3. Shape /\ Shape' => Bounded
    BY <1>1, <1>2, AheadTyped DEF Bounded
  <1>4. Init => Shape
    BY ShapeBegins
  <1>5. Shape /\ [Next]_vars => Shape'
    BY ShapeStep
  <1> QED
    BY <1>3, <1>4, <1>5, PTL DEF Spec

=============================================================================
