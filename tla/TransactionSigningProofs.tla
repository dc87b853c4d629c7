------------------------ MODULE TransactionSigningProofs ------------------------
(***************************************************************************)
(* Proofs about signing and submission, for every set of wallets, signers, *)
(* rules and entries, and whatever the page, other clients and the network *)
(* do meanwhile.                                                           *)
(***************************************************************************)
EXTENDS TransactionSigning, FiniteSetTheorems, TLAPS

-----------------------------------------------------------------------------
(* Results. *)

\* Until the transaction is sent there is none on the network, no hash and no
\* result; what is polled has a hash, which through RPC is the transaction's own.
Honest ==
    /\ step \notin {"poll", "ended"} => ~Sent
    /\ step # "ended" => outcome = "none"
    /\ step = "poll" => hash # "none" /\ (~Sponsored => hash = "own")
    /\ ResultsCanBeActedOn

\* What an operation does before it sends is not seen by the network.
LEMMA HonestBefore ==
    ASSUME Honest, UNCHANGED <<tx, hash>>, step \notin {"poll", "ended"},
           \/ step' \notin {"poll", "ended"} /\ outcome' = "none"
           \/ step' = "ended" /\ outcome' \in {"failed", "signed"}
    PROVE  Honest'
  BY DEF Honest, ResultsCanBeActedOn, Sent

\* A call starts with nothing sent and nothing reported.
LEMMA HonestCalls == Honest /\ Call => Honest'
  <1> SUFFICES ASSUME Honest, Call PROVE Honest'
    OBVIOUS
  <1>1. ASSUME NEW c, NEW es, NEW s, Begin(c, es, s), s \notin {"poll", "idle"}
        PROVE  Honest'
    <2>1. /\ step = "idle" /\ step' = s /\ UNCHANGED <<tx, hash>>
          /\ outcome' = IF s = "ended" THEN "failed" ELSE "none"
      BY <1>1 DEF Begin
    <2>2. tx = "none" /\ hash = "none"
      BY <2>1 DEF Honest, Sent
    <2>3. CASE s = "ended"
      BY <2>1, <2>2, <2>3 DEF Honest, ResultsCanBeActedOn, Sent
    <2>4. CASE s # "ended"
      <3>1. outcome' = "none" /\ step' # "ended" /\ tx' = "none" /\ hash' = "none"
        BY <2>1, <2>2, <2>4
      <3> QED
        BY <1>1, <2>1, <3>1 DEF Honest, ResultsCanBeActedOn, Sent
    <2> QED
      BY <2>3, <2>4
  <1>7. \A s \in {"entry", "amount", "build", "friendbot"} :
           IfConnected(s) \notin {"poll", "idle"}
    BY DEF IfConnected
  <1>2. CASE SignAndSubmit
    BY <1>1, <1>2, <1>7 DEF SignAndSubmit
  <1>8. CASE Sign
    BY <1>1, <1>8, <1>7 DEF Sign
  <1>9. CASE SignAuthEntry
    BY <1>1, <1>9, <1>7 DEF SignAuthEntry
  <1>3. CASE Headless
    BY <1>3, HonestBefore DEF Headless
  <1>4. CASE Transfer \/ ExecuteAndSubmit \/ Upgrade
    BY <1>1, <1>4, <1>7 DEF Transfer, ExecuteAndSubmit, Upgrade
  <1>5. CASE SubmitWithSigners \/ SubmitForRule
    BY <1>1, <1>5, <1>7 DEF SubmitWithSigners, SubmitForRule
  <1>6. CASE TransferWithSigners \/ FundWallet
    BY <1>1, <1>6, <1>7 DEF TransferWithSigners, FundWallet
  <1> QED
    BY <1>2, <1>3, <1>4, <1>5, <1>6, <1>8, <1>9 DEF Call

\* A step reports success only for a hash the network executed.
LEMMA HonestProceeds ==
    ASSUME Honest, Proceed \/ AccountSigns \/ DelegateSigns
    PROVE  Honest'
  <1> USE DEF Fails, Ends, submission
  <1>1. CASE \/ ResolveAmount \/ Build \/ SkipEntry \/ ResolveRules \/ CalculateExpiration
             \/ LookUp \/ Prompt
    BY <1>1, HonestBefore
    DEF ResolveAmount, Build, SkipEntry, ResolveRules, CalculateExpiration, Prepare, LookUp,
        Prompt, Honest
  <1>2. CASE \/ AllSigned \/ SubmitDirectly \/ LatestLedger \/ NextEntry \/ NoMoreEntries
             \/ ResolveScheme \/ ResolveRulesOnce \/ AskPasskey \/ PasskeySigns
    BY <1>2, HonestBefore
    DEF AllSigned, SubmitDirectly, LatestLedger, NextEntry, NoMoreEntries, Submits,
        ResolveScheme, ResolveRulesOnce, AskPasskey, PasskeySigns, Honest
  <1>3. CASE \/ Seal \/ AskDelegate \/ EntryDone \/ AccountSigns \/ DelegateSigns
    BY <1>3, HonestBefore
    DEF Seal, AskDelegate, EntryDone, AccountSigns, DelegateSigns, Honest
  <1>4. CASE \/ Friendbot \/ FundedAccount \/ SignTransfer
             \/ ResimSource \/ Resimulate \/ SignFeePayer
    BY <1>4, HonestBefore
    DEF Friendbot, FundedAccount, SignTransfer, ResimSource, Resimulate, SignFeePayer,
        Honest
  <1>5. CASE SendToRelayer \/ RelayerFails \/ SendToRpc
    <2>1. Sponsored' = Sponsored /\ UNCHANGED <<call, config>>
      BY <1>5 DEF SendToRelayer, RelayerFails, SendToRpc, Leaves, Sponsored, Method
    <2>2. step = "send" /\ tx = "none" /\ hash = "none"
      BY <1>5 DEF SendToRelayer, RelayerFails, SendToRpc, Honest, Sent
    <2>3. CASE Fails
      BY <2>2, <2>3, HonestBefore
    <2>4. CASE SendToRelayer /\ ~Fails
      BY <2>1, <2>4 DEF SendToRelayer, Leaves, Honest, ResultsCanBeActedOn, Sent
    <2>5. CASE RelayerFails
      BY <2>1, <2>5 DEF RelayerFails, Leaves, Honest, ResultsCanBeActedOn, Sent
    <2>6. CASE SendToRpc
      BY <2>1, <2>2, <2>6 DEF SendToRpc, Rejected, Leaves, Honest, ResultsCanBeActedOn, Sent
    <2> QED
      BY <1>5, <2>3, <2>4, <2>5, <2>6
  <1>6. CASE Poll
    <2>1. Sponsored' = Sponsored /\ UNCHANGED <<call, config, tx>> /\ step = "poll"
      BY <1>6 DEF Poll, Unanswered, Sponsored, Method
    <2>2. hash # "none" /\ (~Sponsored => hash = "own")
      BY <2>1 DEF Honest
    <2>3. CASE step' = "poll"
      BY <1>6, <2>1, <2>2, <2>3 DEF Poll, Unanswered, Honest, ResultsCanBeActedOn
    <2>4. CASE step' = "ended"
      <3>1. ResultsCanBeActedOn'
        BY <1>6, <2>1, <2>2, <2>4
        DEF Poll, Unanswered, HashReported, Rejected, Polled, ResultsCanBeActedOn
      <3> QED
        BY <2>4, <3>1 DEF Honest
    <2> QED
      BY <1>6, <2>1, <2>3, <2>4 DEF Poll, Unanswered
  <1> QED
    BY <1>1, <1>2, <1>3, <1>4, <1>5, <1>6 DEF Proceed

\* The network and the page do not touch what was reported.
LEMMA HonestElsewhere ==
    ASSUME Honest, Return \/ Environment \/ UNCHANGED vars
    PROVE  Honest'
  <1>1. CASE Return
    BY <1>1 DEF Return, Honest, ResultsCanBeActedOn, Sent
  <1>2. CASE Environment \/ UNCHANGED vars
    <2>1. /\ UNCHANGED <<step, outcome, hash, call, config>>
          /\ tx' = tx \/ (tx = "sent" /\ tx' \in {"executed", "failed"})
      BY <1>2
      DEF Environment, Connect, Hold, UpgradeElsewhere, Execute, Reject, vars, opVars,
          submission
    <2>2. Sponsored' = Sponsored
      BY <2>1 DEF Sponsored, Method
    <2> QED
      BY <2>1, <2>2 DEF Honest, ResultsCanBeActedOn, Sent
  <1> QED
    BY <1>1, <1>2

\* So results are honest throughout.
LEMMA AlwaysHonest == Spec => []Honest
  <1>1. Init => Honest
    BY DEF Init, Honest, ResultsCanBeActedOn, Sent
  <1>2. Honest /\ [Next]_vars => Honest'
    BY HonestCalls, HonestProceeds, HonestElsewhere DEF Next
  <1> QED
    BY <1>1, <1>2, PTL DEF Spec

\* A caller may act on a result.  Success through RPC, or with the transaction's
\* own hash, is reported only when the network has executed it; and a failure
\* without a hash, when the transaction was sent, only by the relayer's path and by
\* fundWallet, whatever answers are lost and whenever the kit gives up
\* (sendAndPoll in kit/tx-ops.ts).
THEOREM ResultsActedOn == Spec => []ResultsCanBeActedOn
  <1>1. Honest => ResultsCanBeActedOn
    BY DEF Honest
  <1> QED
    BY <1>1, AlwaysHonest, PTL

-----------------------------------------------------------------------------
(* The shared deployer. *)

\* Only the envelope of a sponsored transaction, which is thrown away, names the
\* shared deployer, and there is no envelope before it is chosen how to submit.
Spares ==
    /\ DOMAIN envelope = {"source", "payer"}
    /\ envelope.payer # "shared"
    /\ envelope.source = "shared" => Sponsored
    /\ step \notin {"resim", "payer", "send", "poll", "ended"} => envelope = NoEnvelope

\* Without an envelope nobody is charged.
LEMMA NoEnvelopeSpares ==
    ASSUME envelope' = NoEnvelope
    PROVE  Spares'
  BY SigningAssumption DEF Spares, NoEnvelope

\* Before an envelope is built there is nothing to name it.
LEMMA SparesBefore ==
    ASSUME Spares, UNCHANGED envelope,
           step \notin {"resim", "payer", "send", "poll", "ended"}
    PROVE  Spares'
  BY NoEnvelopeSpares DEF Spares

\* Afterwards the way of submission stays.
LEMMA SparesAfter ==
    ASSUME Spares, UNCHANGED <<envelope, config, call>>,
           \/ step' \in {"resim", "payer", "send", "poll", "ended"}
           \/ UNCHANGED step
    PROVE  Spares'
  BY DEF Spares, Sponsored, Method

\* A call makes its envelope afresh.
LEMMA SparesCalls == Spares /\ Call => Spares'
  <1>1. ASSUME NEW c, NEW es, NEW s, Spares, Begin(c, es, s)
        PROVE  Spares'
    BY <1>1, SparesBefore DEF Begin
  <1>2. ASSUME Spares, Headless
        PROVE  Spares'
    BY <1>2, SparesBefore DEF Headless
  <1>3. ASSUME Spares, SignAndSubmit
        PROVE  Spares'
    BY <1>1, <1>3 DEF SignAndSubmit
  <1>4. ASSUME Spares, Sign
        PROVE  Spares'
    BY <1>1, <1>4 DEF Sign
  <1>5. ASSUME Spares, SignAuthEntry
        PROVE  Spares'
    BY <1>1, <1>5 DEF SignAuthEntry
  <1>6. ASSUME Spares, Transfer \/ ExecuteAndSubmit \/ Upgrade
        PROVE  Spares'
    BY <1>1, <1>6 DEF Transfer, ExecuteAndSubmit, Upgrade
  <1>7. ASSUME Spares, \/ SubmitWithSigners \/ SubmitForRule \/ TransferWithSigners
                       \/ FundWallet
        PROVE  Spares'
    BY <1>1, <1>7 DEF SubmitWithSigners, SubmitForRule, TransferWithSigners, FundWallet
  <1> QED
    BY <1>2, <1>3, <1>4, <1>5, <1>6, <1>7 DEF Call

\* A step that makes an envelope keeps the shared deployer out of it.
LEMMA SparesProceeds ==
    ASSUME Spares, Proceed \/ AccountSigns \/ DelegateSigns
    PROVE  Spares'
  <1> USE DEF Fails, Ends, submission
  <1>1. CASE \/ ResolveAmount \/ Build \/ SkipEntry \/ ResolveRules \/ CalculateExpiration
             \/ LookUp \/ Prompt
    BY <1>1, SparesBefore
    DEF ResolveAmount, Build, SkipEntry, ResolveRules, CalculateExpiration, Prepare, LookUp,
        Prompt
  <1>2. CASE \/ AllSigned \/ SubmitDirectly \/ LatestLedger \/ NextEntry \/ NoMoreEntries
             \/ ResolveScheme \/ ResolveRulesOnce \/ AskPasskey \/ PasskeySigns
    BY <1>2, SparesBefore
    DEF AllSigned, SubmitDirectly, LatestLedger, NextEntry, NoMoreEntries, Submits,
        ResolveScheme, ResolveRulesOnce, AskPasskey, PasskeySigns
  <1>3. CASE \/ Seal \/ AskDelegate \/ EntryDone \/ AccountSigns \/ DelegateSigns
             \/ Friendbot \/ FundedAccount \/ SignTransfer
    BY <1>3, SparesBefore
    DEF Seal, AskDelegate, EntryDone, AccountSigns, DelegateSigns, Friendbot, FundedAccount,
        SignTransfer
  <1>4. CASE ResimSource
    <2>1. CASE Fails
      BY <1>4, <2>1, SparesAfter
    <2>2. CASE ~Fails
      <3>1. /\ envelope' = [NoEnvelope EXCEPT !.source = Payer]
            /\ UNCHANGED <<call, config>> /\ step' = "resim"
            /\ Payer = "shared" => Sponsored
        BY <1>4, <2>2 DEF ResimSource, Refused
      <3>2. Sponsored' = Sponsored
        BY <3>1 DEF Sponsored, Method
      <3> QED
        BY <3>1, <3>2, SigningAssumption DEF Spares, NoEnvelope
    <2> QED
      BY <2>1, <2>2
  <1>5. CASE SignFeePayer
    <2>1. CASE Fails
      BY <1>5, <2>1, SparesAfter
    <2>2. CASE ~Fails
      <3>1. /\ envelope' = [envelope EXCEPT !.payer = IF Pays THEN Payer ELSE @]
            /\ UNCHANGED <<call, config>> /\ step' = "send"
            /\ Pays => Payer # "shared"
        BY <1>5, <2>2 DEF SignFeePayer, Refused
      <3>2. Sponsored' = Sponsored
        BY <3>1 DEF Sponsored, Method
      <3> QED
        BY <3>1, <3>2 DEF Spares
    <2> QED
      BY <2>1, <2>2
  <1>6. CASE Resimulate \/ SendToRelayer \/ RelayerFails \/ SendToRpc \/ Poll
    BY <1>6, SparesAfter
    DEF Resimulate, SendToRelayer, RelayerFails, SendToRpc, Leaves, Unanswered, Poll
  <1> QED
    BY <1>1, <1>2, <1>3, <1>4, <1>5, <1>6 DEF Proceed

\* Nothing outside an operation touches its envelope.
LEMMA SparesElsewhere ==
    ASSUME Spares, Return \/ Environment \/ UNCHANGED vars
    PROVE  Spares'
  <1>1. CASE Return
    BY <1>1, NoEnvelopeSpares DEF Return
  <1>2. CASE Environment
    BY <1>2, SparesAfter
    DEF Environment, Connect, Hold, UpgradeElsewhere, Execute, Reject, opVars, submission
  <1>3. CASE UNCHANGED vars
    BY <1>3, SparesAfter DEF vars, opVars, submission
  <1> QED
    BY <1>1, <1>2, <1>3

\* The deployer whose secret everybody has neither sources nor pays for a
\* transaction sent to RPC and never signs an envelope, whichever path submits
\* and whatever is forced (assertNotSharedDeployerSource in resolveResimSource
\* and signFeePayer).
THEOREM SharedDeployerSpared == Spec => []SharedDeployerNeverPays
  <1>1. Init => Spares
    BY SigningAssumption DEF Init, Spares, NoEnvelope
  <1>2. Spares /\ [Next]_vars => Spares'
    BY SparesCalls, SparesProceeds, SparesElsewhere DEF Next
  <1>3. Spares => SharedDeployerNeverPays
    BY DEF Spares, SharedDeployerNeverPays
  <1> QED
    BY <1>1, <1>2, <1>3, PTL DEF Spec

-----------------------------------------------------------------------------
(* Entries. *)

\* What an operation may be given: what callers hand over, and what the kit
\* builds for a connected wallet itself.  Simulations have not been signed.
Own ==
    {OwnEntry(w, {}) : w \in Wallets} \cup
    {OwnEntry(wc[1], {[depth |-> 0, isCall |-> TRUE, addsValid |-> TRUE,
                       target |-> wc[2]]}) : wc \in Wallets \X (Codes \cup {None})}
Given == Inputs \cup Own
Fresh == {e \in Given : DOMAIN e.sigs = {}}

\* What the simulation of the kit's own transaction asks for.
LEMMA OwnEntryFields ==
    ASSUME NEW w \in Wallets, NEW m
    PROVE  /\ IsEntry(OwnEntry(w, m)) /\ DOMAIN OwnEntry(w, m).sigs = {}
           /\ OwnEntry(w, m).addr \in Wallets /\ OwnEntry(w, m).cred = "address"
  BY DEF OwnEntry, IsEntry, Addresses

\* What every entry satisfies before this operation touches it.
LEMMA GivenEntries ==
    ASSUME NEW e \in Given
    PROVE  /\ IsEntry(e) /\ Covered(e)
           /\ (e.addr \in Wallets /\ DOMAIN e.sigs # {}) => e.exp # 0 /\ e.rules # None
           /\ e.addr \notin Wallets => e.rules = None
           /\ e.cred = "source" => e.addr \notin Wallets
  <1>1. CASE e \in Inputs
    BY <1>1, InputsAssumption
  <1>2. CASE e \in Own
    <2>1. PICK w \in Wallets : \E m : e = OwnEntry(w, m)
      BY <1>2 DEF Own
    <2> QED
      BY <2>1, OwnEntryFields DEF Covered
  <1> QED
    BY <1>1, <1>2 DEF Given

\* The transactions the kit builds ask for entries without signatures.
LEMMA OwnGiven ==
    ASSUME NEW w \in Wallets, NEW c \in Codes \cup {None}
    PROVE  /\ TransferOf(w).entries \in Seq(Fresh)
           /\ CallOf(w, c).entries \in Seq(Fresh)
  <1>1. OwnEntry(w, {}) \in Fresh
    BY OwnEntryFields DEF Own, Given, Fresh
  <1>2. OwnEntry(w, {[depth |-> 0, isCall |-> TRUE, addsValid |-> TRUE,
                      target |-> c]}) \in Fresh
    <2> DEFINE e == OwnEntry(w, {[depth |-> 0, isCall |-> TRUE, addsValid |-> TRUE,
                                  target |-> c]})
    <2>1. <<w, c>> \in Wallets \X (Codes \cup {None})
      OBVIOUS
    <2>2. e \in Own
      BY <2>1 DEF Own
    <2>3. DOMAIN e.sigs = {}
      BY OwnEntryFields
    <2> QED
      BY <2>2, <2>3 DEF Given, Fresh
  <1> QED
    BY <1>1, <1>2 DEF TransferOf, CallOf

\* So do those the caller brings, except that prepared ones may be partly
\* signed.
LEMMA InputsGiven ==
    /\ \A t \in Simulated \cup Prepared : t.entries \in Seq(Given)
    /\ \A t \in Simulated : t.entries \in Seq(Fresh)
    /\ \A input \in AuthEntryInputs \ {None} : input \in Given
  <1>1. \A t \in Simulated \cup Prepared : t.entries \in Seq(Inputs)
    BY InputsAssumption
  <1>2. ASSUME NEW t \in Simulated
        PROVE  t.entries \in Seq(Fresh)
    <2>1. \A i \in 1..Len(t.entries) : t.entries[i] \in Fresh
      <3>1. TAKE i \in 1..Len(t.entries)
      <3>2. t.entries[i] \in Inputs /\ t.entries[i] \in Range(t.entries)
        BY <1>1 DEF Range
      <3> QED
        BY <3>2, InputsAssumption DEF Fresh, Given
    <2> QED
      BY <1>1, <2>1
  <1>3. ASSUME NEW t \in Simulated \cup Prepared
        PROVE  t.entries \in Seq(Given)
    <2>1. \A i \in 1..Len(t.entries) : t.entries[i] \in Given
      BY <1>1 DEF Given
    <2> QED
      BY <1>1, <2>1
  <1>4. \A input \in AuthEntryInputs \ {None} : input \in Given
    BY <1>1 DEF AuthEntryInputs, Given
  <1> QED
    BY <1>2, <1>3, <1>4

\* What setting an expiration or signatures leaves of an entry.
LEMMA ExpirationSet ==
    ASSUME NEW e, IsEntry(e), NEW x \in Expirations \cup {0}
    PROVE  LET f == [e EXCEPT !.exp = x]
           IN  /\ IsEntry(f) /\ f.exp = x
               /\ f.cred = e.cred /\ f.addr = e.addr /\ f.mutations = e.mutations
               /\ f.rules = e.rules /\ f.sigs = e.sigs
  BY DEF IsEntry

Upserted(f, e, who, d) ==
    /\ IsEntry(f) /\ f.exp = e.exp /\ f.cred = e.cred /\ f.addr = e.addr
    /\ f.mutations = e.mutations /\ f.rules = d.rules
    /\ DOMAIN f.sigs = DOMAIN e.sigs \cup who
    /\ \A s \in who : f.sigs[s] = d
    /\ \A s \in DOMAIN e.sigs \ who : f.sigs[s] = e.sigs[s]

\* What upsertAuthPayloadSigner leaves, field by field.
LEMMA Upserts ==
    ASSUME NEW e, IsEntry(e), NEW who \in SUBSET Signers, NEW d,
           d.rules \in RuleLists \cup {None}
    PROVE  Upserted(Upsert(e, who, d), e, who, d)
  BY DEF Upserted, Upsert, IsEntry

\* The entry a delegated account signs, field by field.
LEMMA AccountEntryFields ==
    ASSUME NEW a \in Accounts \cup {Temp}, NEW x \in Expirations \cup {0}, NEW b
    PROVE  LET f == AccountEntry(a, x, b)
           IN  /\ IsEntry(f) /\ f.exp = x /\ f.cred = "address" /\ f.addr = a
               /\ f.mutations = {} /\ f.rules = None /\ f.binds = b
               /\ DOMAIN f.sigs = {a} /\ f.sigs[a] = Digest(x, None, None)
  BY DEF AccountEntry, By, Digest, IsEntry, Signers, Addresses

\* Whether a path may sign an entry depends on what it changes alone.
LEMMA IntendedByMutations ==
    ASSUME NEW e, NEW f, e.mutations = f.mutations, NEW admin
    PROVE  Intended(e, admin) <=> Intended(f, admin)
  BY DEF Intended

\* What was signed stays, and the new entry is added.
IsList(s) == s \in Seq(Range(s))

\* An entry more in a list.
LEMMA Appended ==
    ASSUME NEW s, IsList(s), NEW e
    PROVE  IsList(Append(s, e)) /\ Range(Append(s, e)) = Range(s) \cup {e}
  <1> DEFINE S == Range(s) \cup {e}
             q == Append(s, e)
  <1>1. s \in Seq(S) /\ s \in Seq(Range(s))
    BY DEF IsList
  <1>2. /\ q \in Seq(S) /\ Len(q) = Len(s) + 1 /\ Len(s) \in Nat
        /\ \A i \in 1..Len(s) : q[i] = s[i]
        /\ q[Len(s) + 1] = e
    BY <1>1
  <1>3. DOMAIN q = 1..Len(s) + 1 /\ DOMAIN s = 1..Len(s)
    BY <1>1, <1>2
  <1> HIDE DEF q, S
  <1>4. Range(q) = S
    <2>1. Range(q) \subseteq S
      BY <1>2, <1>3 DEF Range
    <2>2. e \in Range(q)
      BY <1>2, <1>3 DEF Range
    <2>3. Range(s) \subseteq Range(q)
      BY <1>2, <1>3 DEF Range
    <2> QED
      BY <2>1, <2>2, <2>3 DEF S
  <1> QED
    BY <1>2, <1>4 DEF IsList, q, S

\* No entries are a list.
LEMMA EmptyList == IsList(<< >>) /\ Range(<< >>) = {}
  BY DEF IsList, Range

\* A single entry is a list.
LEMMA OneEntry ==
    ASSUME NEW e
    PROVE  IsList(<<e>>) /\ Range(<<e>>) = {e}
  BY DEF IsList, Range

-----------------------------------------------------------------------------
(* The beginning of an operation. *)

Paths == {"submit", "sign", "entry", "multi", "fund"}
Starts(path) ==
    CASE path = "submit" -> {"entry", "amount", "build", "ended"}
      [] path = "sign"   -> {"entry", "ended"}
      [] path = "entry"  -> {"entry", "ended"}
      [] path = "multi"  -> {"amount", "direct", "ledger", "ended"}
      [] path = "fund"   -> {"friendbot", "ended"}

\* A call, the entries it is given and where it begins.
IsCall(c) ==
    /\ DOMAIN c = {"path", "admin", "passkey", "exp", "signers", "wallet"}
    /\ c.path \in Paths
    /\ c.signers \in SUBSET Signers
    /\ c.passkey \in Passkeys \cup {None} /\ c.exp \in Expirations \cup {0}
IsStart(c, es, s) ==
    /\ IsCall(c) /\ s \in Starts(c.path)
    /\ s \notin {"ended", "direct"} => c.wallet \in Wallets
    /\ s # "ended" => /\ es \in Seq(Given)
                      /\ c.path = "submit" => es \in Seq(Fresh)
    /\ s = "direct" => es = << >>

\* What a call sets, field by field.
LEMMA CallsFields ==
    ASSUME NEW path, NEW t, NEW p, NEW x, NEW who
    PROVE  LET c == Calls(path, t, p, x, who)
           IN  /\ DOMAIN c = {"path", "admin", "passkey", "exp", "signers", "wallet"}
               /\ c.path = path /\ c.admin = t.admin /\ c.passkey = p /\ c.exp = x
               /\ c.signers = who /\ c.wallet = session.wallet
  BY DEF Calls

\* An operation that goes on past its first check has a wallet.
LEMMA Connected ==
    ASSUME session \in Sessions \cup {Disconnected}
    PROVE  /\ session # Disconnected => session.wallet \in Wallets
           /\ session.passkey \in Passkeys \cup {None}
           /\ \A s : IfConnected(s) = "ended" \/ (IfConnected(s) = s /\ session # Disconnected)
  BY SigningAssumption DEF Disconnected, IfConnected

\* What a call must give for its operation to begin in order.
LEMMA IsStartOf ==
    ASSUME session \in Sessions \cup {Disconnected},
           NEW path \in Paths, NEW t, NEW p \in Passkeys \cup {None},
           NEW x \in Expirations \cup {0}, NEW who \in SUBSET Signers, NEW es, NEW s,
           s \in Starts(path),
           s \notin {"ended", "direct"} => session # Disconnected,
           s # "ended" => es \in Seq(Given),
           path = "submit" /\ s # "ended" => es \in Seq(Fresh),
           s = "direct" => es = << >>
    PROVE  IsStart(Calls(path, t, p, x, who), es, s)
  <1> DEFINE c == Calls(path, t, p, x, who)
  <1>1. /\ c.path = path /\ c.passkey = p /\ c.exp = x /\ c.signers = who
        /\ c.wallet = session.wallet
        /\ DOMAIN c = {"path", "admin", "passkey", "exp", "signers", "wallet"}
    BY CallsFields
  <1> HIDE DEF c
  <1>2. s \notin {"ended", "direct"} => c.wallet \in Wallets
    BY <1>1, Connected
  <1>3. IsCall(c) /\ s \in Starts(c.path)
    BY <1>1 DEF IsCall
  <1>4. IsStart(c, es, s)
    BY <1>1, <1>2, <1>3 DEF IsStart
  <1> QED
    BY <1>4 DEF c

\* The caller's options have their types.
LEMMA OptionTypes ==
    ASSUME NEW o \in Options
    PROVE  o.passkey \in Passkeys \cup {None} /\ o.exp \in Expirations \cup {0}
  BY SigningAssumption

\* The selected signers are signers.
LEMMA SelectionTypes ==
    ASSUME NEW who \in Selections \cup {{}}
    PROVE  who \in SUBSET Signers
  BY SigningAssumption DEF Signers

\* A call without a connection ends at once.
LEMMA ConnectedStart ==
    ASSUME session \in Sessions \cup {Disconnected}, NEW s
    PROVE  /\ IfConnected(s) \in {"ended", s}
           /\ IfConnected(s) # "ended" => session # Disconnected
  BY Connected

Begun == \E c, es, s : IsStart(c, es, s) /\ Begin(c, es, s)

\* The single-signer calls begin in order.
LEMMA SinglePathsStart ==
    ASSUME session \in Sessions \cup {Disconnected}, SignAndSubmit \/ Sign \/ SignAuthEntry
    PROVE  Begun
  <1>1. CASE SignAndSubmit
    <2>1. PICK t \in Simulated, o \in Options :
            Begin(Calls("submit", t, o.passkey, o.exp, {}), t.entries, IfConnected("entry"))
      BY <1>1 DEF SignAndSubmit
    <2>2. t.entries \in Seq(Fresh) /\ t.entries \in Seq(Given)
      BY InputsGiven
    <2>3. IfConnected("entry") \in Starts("submit") /\ IfConnected("entry") # "direct"
      BY ConnectedStart DEF Starts
    <2>4. IsStart(Calls("submit", t, o.passkey, o.exp, {}), t.entries, IfConnected("entry"))
      BY <2>2, <2>3, ConnectedStart, IsStartOf, OptionTypes DEF Paths
    <2> QED
      BY <2>1, <2>4 DEF Begun
  <1>2. CASE Sign
    <2>1. PICK t \in Prepared, o \in Options :
            LET p == IF o.passkey # None THEN o.passkey ELSE session.passkey
            IN  Begin(Calls("sign", t, p, o.exp, {}), t.entries, IfConnected("entry"))
      BY <1>2 DEF Sign
    <2> DEFINE p == IF o.passkey # None THEN o.passkey ELSE session.passkey
    <2>2. t.entries \in Seq(Given)
      BY InputsGiven
    <2>3. IfConnected("entry") \in Starts("sign") /\ IfConnected("entry") # "direct"
      BY ConnectedStart DEF Starts
    <2>4. p \in Passkeys \cup {None} /\ o.exp \in Expirations \cup {0}
      BY OptionTypes, Connected
    <2>5. Begin(Calls("sign", t, p, o.exp, {}), t.entries, IfConnected("entry"))
      BY <2>1
    <2> HIDE DEF p
    <2>6. IsStart(Calls("sign", t, p, o.exp, {}), t.entries, IfConnected("entry"))
      BY <2>2, <2>3, <2>4, ConnectedStart, IsStartOf DEF Paths
    <2> QED
      BY <2>5, <2>6 DEF Begun
  <1>3. CASE SignAuthEntry
    <2>1. PICK input \in AuthEntryInputs, o \in Options :
            Begin(Calls("entry", NoTransaction, o.passkey, o.exp, {}), <<input>>,
                  IF input = None THEN "ended" ELSE IfConnected("entry"))
      BY <1>3 DEF SignAuthEntry
    <2> DEFINE s == IF input = None THEN "ended" ELSE IfConnected("entry")
    <2>2. s # "ended" => <<input>> \in Seq(Given)
      BY InputsGiven
    <2>3. /\ s \in Starts("entry") /\ s # "direct"
          /\ s # "ended" => session # Disconnected
      BY ConnectedStart DEF Starts
    <2>4. Begin(Calls("entry", NoTransaction, o.passkey, o.exp, {}), <<input>>, s)
      BY <2>1
    <2> HIDE DEF s
    <2>5. IsStart(Calls("entry", NoTransaction, o.passkey, o.exp, {}), <<input>>, s)
      BY <2>2, <2>3, IsStartOf, OptionTypes DEF Paths
    <2> QED
      BY <2>4, <2>5 DEF Begun
  <1> QED
    BY <1>1, <1>2, <1>3

\* So do the calls that build their own transaction.
LEMMA BuiltStart ==
    ASSUME session \in Sessions \cup {Disconnected}, Transfer \/ ExecuteAndSubmit \/ Upgrade
    PROVE  Begun
  <1> DEFINE w == session.wallet
  <1>1. CASE Transfer
    <2>1. PICK o \in Options :
            Begin(Calls("submit", TransferOf(w), o.passkey, 0, {}), TransferOf(w).entries,
                  IfConnected("amount"))
      BY <1>1 DEF Transfer
    <2>2. IfConnected("amount") # "ended" =>
            TransferOf(w).entries \in Seq(Fresh) /\ TransferOf(w).entries \in Seq(Given)
      <3>1. session # Disconnected => w \in Wallets
        BY Connected
      <3>2. session # Disconnected => TransferOf(w).entries \in Seq(Fresh)
        BY <3>1, OwnGiven
      <3> QED
        BY <3>2, ConnectedStart DEF Fresh
    <2>3. IfConnected("amount") \in Starts("submit") /\ IfConnected("amount") # "direct"
      BY ConnectedStart DEF Starts
    <2> HIDE DEF w
    <2>4. IsStart(Calls("submit", TransferOf(w), o.passkey, 0, {}), TransferOf(w).entries,
                  IfConnected("amount"))
      BY <2>2, <2>3, ConnectedStart, IsStartOf, OptionTypes DEF Paths
    <2> QED
      BY <2>1, <2>4 DEF Begun
  <1>2. ASSUME NEW c \in Codes \cup {None}
        PROVE  session # Disconnected =>
                 CallOf(w, c).entries \in Seq(Fresh) /\ CallOf(w, c).entries \in Seq(Given)
    <2>1. session # Disconnected => CallOf(w, c).entries \in Seq(Fresh)
      BY Connected, OwnGiven
    <2> QED
      BY <2>1 DEF Fresh
  <1>3. CASE ExecuteAndSubmit
    <2>1. PICK o \in Options :
            Begin(Calls("submit", CallOf(w, None), o.passkey, o.exp, {}),
                  CallOf(w, None).entries, IfConnected("build"))
      BY <1>3 DEF ExecuteAndSubmit
    <2>2. IfConnected("build") \in Starts("submit") /\ IfConnected("build") # "direct"
      BY ConnectedStart DEF Starts
    <2> HIDE DEF w
    <2>3. IsStart(Calls("submit", CallOf(w, None), o.passkey, o.exp, {}),
                  CallOf(w, None).entries, IfConnected("build"))
      BY <1>2, <2>2, ConnectedStart, IsStartOf, OptionTypes DEF Paths
    <2> QED
      BY <2>1, <2>3 DEF Begun
  <1>4. CASE Upgrade
    <2>1. PICK c \in Codes :
            Begin(Calls("submit", CallOf(w, c), None, 0, {}), CallOf(w, c).entries,
                  IF UpgradeAllowed(c) THEN IfConnected("build") ELSE "ended")
      BY <1>4 DEF Upgrade
    <2> DEFINE s == IF UpgradeAllowed(c) THEN IfConnected("build") ELSE "ended"
    <2>2. /\ s \in Starts("submit") /\ s # "direct"
          /\ s # "ended" => session # Disconnected
      BY ConnectedStart DEF Starts
    <2>3. Begin(Calls("submit", CallOf(w, c), None, 0, {}), CallOf(w, c).entries, s)
      BY <2>1
    <2> HIDE DEF w, s
    <2>4. IsStart(Calls("submit", CallOf(w, c), None, 0, {}), CallOf(w, c).entries, s)
      BY <1>2, <2>2, IsStartOf DEF Paths
    <2> QED
      BY <2>3, <2>4 DEF Begun
  <1> QED
    BY <1>1, <1>3, <1>4

\* So do the multi-signer calls and the funding of a wallet.
LEMMA MultiPathStarts ==
    ASSUME session \in Sessions \cup {Disconnected},
           SubmitWithSigners \/ SubmitForRule \/ TransferWithSigners \/ FundWallet
    PROVE  Begun
  <1>1. CASE SubmitWithSigners
    <2>1. PICK t \in Prepared, who \in Selections :
            Begin(Calls("multi", t, None, 0, who), t.entries,
                  IF t.entries = << >> THEN "direct"
                  ELSE IF CanSign(who) THEN "ledger" ELSE "ended")
      BY <1>1 DEF SubmitWithSigners
    <2> DEFINE s == IF t.entries = << >> THEN "direct"
                    ELSE IF CanSign(who) THEN "ledger" ELSE "ended"
    <2>2. /\ s \in Starts("multi")
          /\ s = "direct" => t.entries = << >>
          /\ s \notin {"ended", "direct"} => session # Disconnected
      BY DEF Starts, CanSign
    <2>3. t.entries \in Seq(Given) /\ who \in SUBSET Signers
      BY InputsGiven, SelectionTypes
    <2>4. Begin(Calls("multi", t, None, 0, who), t.entries, s)
      BY <2>1
    <2> HIDE DEF s
    <2>5. IsStart(Calls("multi", t, None, 0, who), t.entries, s)
      BY <2>2, <2>3, IsStartOf DEF Paths
    <2> QED
      BY <2>4, <2>5 DEF Begun
  <1>2. CASE SubmitForRule
    <2>1. PICK t \in Simulated, signers \in Selections \cup {{p} : p \in Passkeys} :
            LET who == BuildSelectedSigners(signers, session.passkey)
            IN  IF NeedsMultiSigner(signers)
                THEN Begin(Calls("multi", t, None, 0, who), t.entries,
                           IF CanSign(who) THEN "ledger" ELSE "ended")
                ELSE Begin(Calls("submit", t, None, 0, {}), t.entries,
                           IfConnected("entry"))
      BY <1>2 DEF SubmitForRule
    <2> DEFINE who == BuildSelectedSigners(signers, session.passkey)
               s == IF CanSign(who) THEN "ledger" ELSE "ended"
    <2>2. t.entries \in Seq(Fresh) /\ t.entries \in Seq(Given)
      BY InputsGiven
    <2>3. CASE NeedsMultiSigner(signers)
      <3>1. /\ s \in Starts("multi") /\ s # "direct"
            /\ s # "ended" => session # Disconnected
        BY DEF Starts, CanSign
      <3>2. who \in SUBSET Signers
        <4>1. signers \in SUBSET Signers
          BY SelectionTypes DEF Signers
        <4> QED
          BY <4>1 DEF BuildSelectedSigners
      <3>3. Begin(Calls("multi", t, None, 0, who), t.entries, s)
        BY <2>1, <2>3
      <3> HIDE DEF who, s
      <3>4. IsStart(Calls("multi", t, None, 0, who), t.entries, s)
        BY <2>2, <3>1, <3>2, IsStartOf DEF Paths
      <3> QED
        BY <3>3, <3>4 DEF Begun
    <2>4. CASE ~NeedsMultiSigner(signers)
      <3>1. IfConnected("entry") \in Starts("submit") /\ IfConnected("entry") # "direct"
        BY ConnectedStart DEF Starts
      <3>2. IsStart(Calls("submit", t, None, 0, {}), t.entries, IfConnected("entry"))
        BY <2>2, <3>1, ConnectedStart, IsStartOf DEF Paths
      <3>3. Begin(Calls("submit", t, None, 0, {}), t.entries, IfConnected("entry"))
        BY <2>1, <2>4
      <3> QED
        BY <3>2, <3>3 DEF Begun
    <2> QED
      BY <2>3, <2>4
  <1>3. CASE TransferWithSigners
    <2> DEFINE t == TransferOf(session.wallet)
    <2>1. PICK who \in Selections :
            Begin(Calls("multi", t, None, 0, who), t.entries, IfConnected("amount"))
      BY <1>3 DEF TransferWithSigners
    <2>2. session # Disconnected => t.entries \in Seq(Given)
      <3>1. session # Disconnected => t.entries \in Seq(Fresh)
        BY Connected, OwnGiven
      <3> QED
        BY <3>1 DEF Fresh
    <2>3. IfConnected("amount") \in Starts("multi") /\ IfConnected("amount") # "direct"
      BY ConnectedStart DEF Starts
    <2>4. who \in SUBSET Signers
      BY SelectionTypes
    <2> HIDE DEF t
    <2>5. IsStart(Calls("multi", t, None, 0, who), t.entries, IfConnected("amount"))
      BY <2>2, <2>3, <2>4, ConnectedStart, IsStartOf DEF Paths
    <2> QED
      BY <2>1, <2>5 DEF Begun
  <1>4. CASE FundWallet
    <2>1. Begin(Calls("fund", NoTransaction, None, 0, {}), << >>, IfConnected("friendbot"))
      BY <1>4 DEF FundWallet
    <2>2. IfConnected("friendbot") \in Starts("fund") /\ IfConnected("friendbot") # "direct"
      BY ConnectedStart DEF Starts
    <2>3. << >> \in Seq(Given) /\ {} \in SUBSET Signers /\ "fund" \in Paths
      BY DEF Paths
    <2>4. "fund" # "submit" /\ None \in Passkeys \cup {None} /\ 0 \in Expirations \cup {0}
      OBVIOUS
    <2> DEFINE s == IfConnected("friendbot")
    <2>5. s \in Starts("fund") /\ s # "direct" /\ (s # "ended" => session # Disconnected)
      BY <2>2, ConnectedStart
    <2> HIDE DEF s
    <2>6. IsStart(Calls("fund", NoTransaction, None, 0, {}), << >>, s)
      BY <2>3, <2>4, <2>5, IsStartOf
    <2> QED
      BY <2>1, <2>6 DEF Begun, s
  <1> QED
    BY <1>1, <1>2, <1>3, <1>4

\* Every call begins in order, or signs outside an operation.
LEMMA CallsStart ==
    ASSUME session \in Sessions \cup {Disconnected}, Call
    PROVE  Headless \/ Begun
  BY SinglePathsStart, BuiltStart, MultiPathStarts DEF Call

-----------------------------------------------------------------------------
(* Where an operation is, and what it still has before it. *)

Single == {"entry", "expire", "lookup", "prompt"}
Submission == {"source", "resim", "payer", "send", "poll"}
Steps(path) ==
    CASE path = "none"     -> {"idle"}
      [] path = "headless" -> {"ended"}
      [] path = "sign"     -> Single \cup {"ended"}
      [] path = "entry"    -> Single \cup {"ended"}
      [] path = "submit"   -> Single \cup Submission \cup {"amount", "build", "ended"}
      [] path = "fund"     -> Submission \cup {"friendbot", "funded", "simulate", "ended"}
      [] path = "multi"    -> Submission \cup
            {"amount", "build", "direct", "ledger", "next", "scheme", "rules", "passkeys",
             "prompt", "delegates", "delegate", "account", "ended"}

\* The steps that handle the first entry left.
Handling == {"expire", "lookup", "prompt", "account", "scheme", "rules", "passkeys"}
Before == {"amount", "build", "ledger", "entry", "next", "delegates", "delegate"}

Staged ==
    /\ session \in Sessions \cup {Disconnected}
    /\ step # "idle" /\ call.path # "headless" => IsCall(call)
    /\ call.path \in Paths \cup {"none", "headless"} /\ step \in Steps(call.path)
    /\ step \in Before \cup Handling => call.wallet \in Wallets
    /\ left \in Seq(Given) /\ (call.path = "submit" => left \in Seq(Fresh))
    /\ step \in Handling => left # << >>

\* A call begins at a step of its path.
LEMMA StagedCalls ==
    ASSUME Staged, Call
    PROVE  Staged'
  <1>1. CASE Begun
    <2>1. PICK c, es, s : IsStart(c, es, s) /\ Begin(c, es, s)
      BY <1>1 DEF Begun
    <2>2. /\ call' = c /\ left' = (IF s = "ended" THEN << >> ELSE es) /\ step' = s
          /\ UNCHANGED session
      BY <2>1 DEF Begin, env
    <2>3. /\ IsCall(c) /\ s \in Starts(c.path) /\ c.path \in Paths
          /\ s \notin {"ended", "direct"} => c.wallet \in Wallets
          /\ s # "ended" => es \in Seq(Given) /\ (c.path = "submit" => es \in Seq(Fresh))
      BY <2>1 DEF IsStart, IsCall
    <2>4. s \in Steps(c.path) /\ s \notin Handling /\ s # "idle"
      BY <2>3 DEF Starts, Steps, Single, Submission, Handling, Paths
    <2>5. "direct" \notin Before \cup Handling /\ "ended" \notin Before \cup Handling
      BY DEF Before, Handling
    <2>6. left' \in Seq(Given) /\ (c.path = "submit" => left' \in Seq(Fresh))
      BY <2>2, <2>3
    <2> QED
      BY <2>2, <2>3, <2>4, <2>5, <2>6 DEF Staged
  <1>2. CASE Headless
    <2>1. step' = "ended" /\ call'.path = "headless" /\ step = "idle"
          /\ UNCHANGED <<session, left>>
      BY <1>2 DEF Headless, Calls, env
    <2> QED
      BY <2>1 DEF Staged, Steps, Before, Handling
  <1> QED
    BY <1>1, <1>2, CallsStart DEF Staged

\* Most steps of an operation are a step of its path, and leave the rest.
LEMMA StagedStays ==
    ASSUME Staged, UNCHANGED <<session, call, left>>, step # "idle",
           step' \in Steps(call.path),
           step' \in Before \cup Handling => step \in Before \cup Handling,
           step' \in Handling => left # << >>
    PROVE  Staged'
  BY DEF Staged, Steps

\* One entry is done with.
LEMMA StagedTail ==
    ASSUME Staged, UNCHANGED <<session, call>>, left # << >>, left' = Tail(left),
           step \in Before \cup Handling, step # "idle",
           step' \in Steps(call.path) \ Handling
    PROVE  Staged'
  <1>1. left' \in Seq(Given) /\ (call.path = "submit" => left' \in Seq(Fresh))
    BY DEF Staged
  <1> QED
    BY <1>1 DEF Staged, Steps

\* Where an operation is tells which it is.
LEMMA PathOfStep ==
    ASSUME Staged
    PROVE  /\ step = "idle" <=> call.path = "none"
           /\ step \in {"entry", "expire", "lookup"} => call.path \in {"sign", "entry", "submit"}
           /\ step = "prompt" => call.path \in {"sign", "entry", "submit", "multi"}
           /\ step \in {"amount", "build"} => call.path \in {"submit", "multi"}
           /\ step \in {"direct", "ledger", "next", "scheme", "rules", "passkeys",
                        "delegates", "delegate", "account"} => call.path = "multi"
           /\ step \in {"friendbot", "funded", "simulate"} => call.path = "fund"
           /\ step \in Submission => call.path \in {"submit", "multi", "fund"}
           /\ step \notin {"idle", "ended"} => IsCall(call)
  <1>1. CASE call.path \in {"none", "headless"}
    BY <1>1 DEF Staged, Steps, Submission
  <1>2. CASE call.path \in {"sign", "entry"}
    BY <1>2 DEF Staged, Steps, Single, Submission
  <1>3. CASE call.path = "submit"
    BY <1>3 DEF Staged, Steps, Single, Submission
  <1>4. CASE call.path = "fund"
    BY <1>4 DEF Staged, Steps, Submission
  <1>5. CASE call.path = "multi"
    BY <1>5 DEF Staged, Steps, Submission
  <1> QED
    BY <1>1, <1>2, <1>3, <1>4, <1>5 DEF Staged, Paths

\* An operation may end at any step.
LEMMA StagedEnds ==
    ASSUME Staged, UNCHANGED <<session, call, left>>, step # "idle", step' = "ended"
    PROVE  Staged'
  <1>1. "ended" \in Steps(call.path)
    BY PathOfStep DEF Staged, Steps, Paths
  <1> QED
    BY <1>1, StagedStays DEF Before, Handling

\* The steps of a submission follow those of signing.
LEMMA StagedSubmits ==
    ASSUME Staged, UNCHANGED <<session, call, left>>,
           call.path \in {"submit", "multi", "fund"},
           step' \in Submission
    PROVE  Staged'
  <1>1. step' \in Steps(call.path) /\ step' \notin Before \cup Handling /\ step # "idle"
    BY PathOfStep DEF Steps, Submission, Before, Handling
  <1> QED
    BY <1>1, StagedStays

\* The steps of the single-signer path stay on it.
LEMMA StagedSingle ==
    ASSUME Staged, \/ ResolveAmount \/ Build \/ SkipEntry \/ ResolveRules \/ CalculateExpiration
                   \/ LookUp \/ (Prompt /\ step = "prompt") \/ AllSigned
    PROVE  Staged'
  <1> USE DEF Fails, Ends, submission, work, env
  <1>1. CASE step' = "ended" /\ UNCHANGED <<session, call, left>>
    BY <1>1, StagedEnds
    DEF ResolveAmount, Build, SkipEntry, ResolveRules, CalculateExpiration, LookUp, Prompt,
        AllSigned
  <1>2. CASE ResolveAmount
    <2>1. UNCHANGED <<session, call, left>> /\ step = "amount" /\ step' \in {"build", "ended"}
      BY <1>2 DEF ResolveAmount
    <2> QED
      BY <2>1, StagedStays, PathOfStep DEF Steps, Before, Handling
  <1>3. CASE Build /\ ~Fails
    <2>1. /\ step = "build" /\ UNCHANGED <<session, left>>
          /\ session # Disconnected
          /\ step' = IF call.path = "multi" THEN "ledger" ELSE "entry"
          /\ call' = [call EXCEPT !.wallet = session.wallet]
      BY <1>3 DEF Build, CanSign
    <2>2. call.path \in {"submit", "multi"} /\ IsCall(call)
      BY <2>1, PathOfStep
    <2>3. session.wallet \in Wallets
      BY <2>1, Connected DEF Staged
    <2>4. /\ IsCall(call') /\ call'.path = call.path /\ call'.wallet \in Wallets
      BY <2>1, <2>2, <2>3 DEF IsCall
    <2>5. step' \in Steps(call.path) /\ step' \notin Handling /\ step' # "idle"
      BY <2>1, <2>2 DEF Steps, Single, Handling
    <2> QED
      BY <2>1, <2>2, <2>4, <2>5 DEF Staged
  <1>4. CASE SkipEntry
    <2>1. /\ step = "entry" /\ step' = "entry" /\ left # << >> /\ left' = Tail(left)
          /\ UNCHANGED <<session, call>>
      BY <1>4 DEF SkipEntry
    <2>2. step' \in Steps(call.path) \ Handling
      BY <2>1, PathOfStep DEF Steps, Single, Handling
    <2> QED
      BY <2>1, <2>2, StagedTail DEF Before
  <1>5. CASE (ResolveRules \/ CalculateExpiration \/ LookUp) /\ step' # "ended"
    <2>1. /\ UNCHANGED <<session, call, left>> /\ step \in {"entry", "expire", "lookup"}
          /\ left # << >> /\ step' \in {"expire", "lookup", "prompt"}
      BY <1>5 DEF ResolveRules, CalculateExpiration, LookUp, Prepare, Staged, Handling
    <2>2. step' \in Steps(call.path)
      BY <2>1, PathOfStep DEF Steps, Single
    <2> QED
      BY <2>1, <2>2, StagedStays DEF Before, Handling
  <1>6. CASE Prompt /\ ~Fails
    <2>1. /\ step = "prompt" /\ step' = "entry" /\ left' = Tail(left) /\ call.path # "multi"
          /\ UNCHANGED <<session, call>>
      BY <1>6 DEF Prompt
    <2>2. step' \in Steps(call.path) \ Handling /\ step \in Handling /\ left # << >>
      BY <2>1, PathOfStep DEF Steps, Single, Handling, Staged
    <2> QED
      BY <2>1, <2>2, StagedTail
  <1>7. CASE AllSigned /\ call.path = "submit"
    <2>1. step = "entry" /\ UNCHANGED <<session, call, left>> /\ step' = "source"
      BY <1>7 DEF AllSigned, Submits
    <2> QED
      BY <1>7, <2>1, StagedSubmits DEF Submission
  <1> QED
    BY <1>1, <1>2, <1>3, <1>4, <1>5, <1>6, <1>7
    DEF ResolveRules, CalculateExpiration, LookUp, Prompt, Build, AllSigned, Prepare

\* The steps of the multi-signer path stay on it.
LEMMA StagedMulti ==
    ASSUME Staged,
           \/ SubmitDirectly \/ LatestLedger \/ NextEntry \/ NoMoreEntries \/ ResolveScheme
           \/ ResolveRulesOnce \/ AskPasskey \/ PasskeySigns \/ Seal \/ AskDelegate
           \/ EntryDone \/ AccountSigns \/ DelegateSigns
    PROVE  Staged'
  <1> USE DEF Fails, Ends, submission, work, env
  <1>1. CASE step' = "ended" /\ UNCHANGED <<session, call, left>>
    <2>1. step # "idle"
      BY <1>1
      DEF SubmitDirectly, LatestLedger, NextEntry, NoMoreEntries, ResolveScheme,
          ResolveRulesOnce, AskPasskey, PasskeySigns, Seal, AskDelegate, EntryDone,
          AccountSigns, DelegateSigns
    <2> QED
      BY <1>1, <2>1, StagedEnds
  <1>2. CASE /\ SubmitDirectly \/ NoMoreEntries
    <2>1. /\ step \in {"direct", "next"} /\ UNCHANGED <<session, call, left>>
          /\ step' \in Submission
      BY <1>2 DEF SubmitDirectly, NoMoreEntries, Submits, Submission
    <2> QED
      BY <2>1, PathOfStep, StagedSubmits
  <1>3. CASE LatestLedger /\ ~Fails
    <2>1. /\ step = "ledger" /\ step' = "next" /\ UNCHANGED <<session, call, left>>
      BY <1>3 DEF LatestLedger
    <2> QED
      BY <2>1, PathOfStep, StagedStays DEF Before, Handling, Steps
  <1>4. CASE NextEntry /\ ~Fails
    <2>1. step = "next" /\ left # << >> /\ UNCHANGED <<session, call>>
      BY <1>4 DEF NextEntry
    <2>2. \/ step' = "next" /\ left' = Tail(left)
          \/ step' \in {"account", "scheme", "rules"} /\ UNCHANGED left
      BY <1>4 DEF NextEntry
    <2>3. step' \in Steps(call.path) /\ step \in Before
      BY <2>1, <2>2, PathOfStep DEF Steps, Before
    <2>4. CASE step' = "next" /\ left' = Tail(left)
      BY <2>1, <2>3, <2>4, StagedTail DEF Handling
    <2>5. CASE step' \in {"account", "scheme", "rules"} /\ UNCHANGED left
      BY <2>1, <2>3, <2>5, StagedStays
    <2> QED
      BY <2>2, <2>4, <2>5
  <1>5. CASE (ResolveScheme \/ ResolveRulesOnce \/ AskPasskey \/ PasskeySigns) /\ ~Fails
    <2>1. /\ step \in {"scheme", "rules", "passkeys", "prompt"}
          /\ UNCHANGED <<session, call, left>> /\ call.path = "multi"
          /\ step' \in {"rules", "passkeys", "prompt"}
      BY <1>5, PathOfStep DEF ResolveScheme, ResolveRulesOnce, AskPasskey, PasskeySigns
    <2>2. left # << >>
      BY <2>1 DEF Staged, Handling
    <2> QED
      BY <2>1, <2>2, StagedStays DEF Before, Handling, Steps
  <1>6. CASE (Seal \/ AccountSigns) /\ ~Fails
    <2>1. /\ step \in {"passkeys", "account"} /\ UNCHANGED <<session, call>>
          /\ step' \in {"delegates", "next"} /\ left' = Tail(left)
      BY <1>6 DEF Seal, AccountSigns
    <2>2. left # << >>
      BY <2>1 DEF Staged, Handling
    <2> QED
      BY <2>1, <2>2, PathOfStep, StagedTail DEF Handling, Steps
  <1>7. CASE (AskDelegate \/ DelegateSigns \/ EntryDone) /\ ~Fails
    <2>1. /\ step \in {"delegates", "delegate"} /\ UNCHANGED <<session, call, left>>
          /\ step' \in {"delegates", "delegate", "next"}
      BY <1>7 DEF AskDelegate, DelegateSigns, EntryDone
    <2> QED
      BY <2>1, PathOfStep, StagedStays DEF Before, Handling, Steps
  <1>8. CASE Fails /\ ~(SubmitDirectly \/ NoMoreEntries)
    BY <1>1, <1>8
  <1> QED
    BY <1>2, <1>3, <1>4, <1>5, <1>6, <1>7, <1>8 DEF EntryDone

\* The steps of funding and submission stay on their path.
LEMMA StagedFund ==
    ASSUME Staged,
           \/ Friendbot \/ FundedAccount \/ SignTransfer \/ ResimSource \/ Resimulate
           \/ SignFeePayer \/ SendToRelayer \/ RelayerFails \/ SendToRpc \/ Poll
    PROVE  Staged'
  <1> USE DEF Fails, Ends, Leaves, submission, work, env
  <1>1. /\ UNCHANGED <<session, call, left>> /\ step # "idle"
        /\ \/ step' = "ended"
           \/ step \in {"friendbot", "funded"} /\ step' \in {"funded", "simulate"}
           \/ step \in {"simulate"} \cup Submission /\ step' \in Submission
    <2>1. CASE Friendbot \/ FundedAccount
      BY <2>1 DEF Friendbot, FundedAccount
    <2>2. CASE SignTransfer \/ ResimSource \/ Resimulate \/ SignFeePayer
      BY <2>2 DEF SignTransfer, ResimSource, Resimulate, SignFeePayer, Submission
    <2>3. CASE SendToRelayer \/ RelayerFails \/ SendToRpc \/ Poll
      BY <2>3 DEF SendToRelayer, RelayerFails, SendToRpc, Poll, Unanswered, Submission
    <2> QED
      BY <2>1, <2>2, <2>3
  <1>2. CASE step' = "ended"
    BY <1>1, <1>2, StagedEnds
  <1>3. CASE step \in {"friendbot", "funded"} /\ step' \in {"funded", "simulate"}
    BY <1>1, <1>3, StagedStays, PathOfStep DEF Before, Handling, Steps
  <1>4. CASE step \in {"simulate"} \cup Submission /\ step' \in Submission
    BY <1>1, <1>4, StagedSubmits, PathOfStep
  <1> QED
    BY <1>1, <1>2, <1>3, <1>4

\* Nothing outside an operation moves it.
LEMMA StagedElsewhere ==
    ASSUME Staged, Return \/ Environment \/ UNCHANGED vars
    PROVE  Staged'
  <1>1. CASE Return
    BY <1>1 DEF Return, env, NoCall, Staged, Steps, Before, Handling
  <1>2. CASE Environment
    <2>1. /\ UNCHANGED <<call, step, left>>
          /\ session' = session \/ session' \in Sessions \cup {Disconnected}
      BY <1>2
      DEF Environment, Connect, Hold, UpgradeElsewhere, Execute, Reject, opVars, work, env
    <2> QED
      BY <2>1 DEF Staged
  <1>3. CASE UNCHANGED vars
    BY <1>3 DEF vars, env, opVars, work, Staged
  <1> QED
    BY <1>1, <1>2, <1>3

\* So an operation is always at a step of its path, with entries it was given.
LEMMA AlwaysStaged == Spec => []Staged
  <1>1. Init => Staged
    BY DEF Init, NoCall, Staged, Steps, Before, Handling
  <1>2. Staged /\ [Next]_vars => Staged'
    BY StagedCalls, StagedSingle, StagedMulti, StagedFund, StagedElsewhere
    DEF Next, Proceed, Prompt
  <1> QED
    BY <1>1, <1>2, PTL DEF Spec

-----------------------------------------------------------------------------
(* The signers, rules and scheme of the entry at hand. *)

Scalars ==
    /\ held \subseteq Keys \cup Accounts
    /\ todo \in SUBSET Signers /\ asked \in Signers \cup {None}
    /\ expiry \in Expirations \cup {0} /\ rules \in RuleLists \cup {None}
    /\ scheme \in Range(SchemeOf) \cup {None}
    /\ tries \in Nat
    /\ hash \in {"none", "own", "foreign"}
    /\ outcome \in {"none", "success", "failed", "thrown", "signed"}
    /\ tx \in {"none", "sent", "executed", "failed"}

\* In most steps nothing but the result changes.
LEMMA ScalarsStay ==
    ASSUME Scalars, UNCHANGED <<held, todo, asked, expiry, rules, scheme, tries, hash, tx>>,
           outcome' \in {outcome, "none", "success", "failed", "thrown", "signed"}
    PROVE  Scalars'
  BY DEF Scalars

\* A call sets signers, scheme and rules within their types.
LEMMA ScalarsCalls ==
    ASSUME Scalars, Staged, Call
    PROVE  Scalars'
  <1>1. CASE Begun
    BY <1>1, ScalarsStay DEF Begun, Begin, env
  <1>2. CASE Headless
    BY <1>2, ScalarsStay DEF Headless, env
  <1> QED
    BY <1>1, <1>2, CallsStart DEF Staged

\* Code the kit knows has a scheme.
LEMMA SchemeTypes ==
    ASSUME NEW c \in DOMAIN SchemeOf
    PROVE  SchemeOf[c] \in Range(SchemeOf) /\ SchemeOf[c] # None
  BY SigningAssumption DEF Range

\* The single-signer steps keep these types.
LEMMA ScalarsSingle ==
    ASSUME Scalars, Staged,
           \/ ResolveAmount \/ Build \/ SkipEntry \/ ResolveRules \/ CalculateExpiration
           \/ LookUp \/ Prompt \/ AllSigned
    PROVE  Scalars'
  <1> USE DEF submission, work, env
  <1>1. CASE Fails \/ Ends("signed")
    BY <1>1, ScalarsStay DEF Fails, Ends
  <1>2. CASE ResolveAmount \/ Build \/ SkipEntry \/ AllSigned
    BY <1>1, <1>2, ScalarsStay DEF ResolveAmount, Build, SkipEntry, AllSigned, Submits
  <1>3. ASSUME NEW e, NEW x, NEW ids \in RuleLists \cup {None}, Prepare(e, ids, x),
               step \in {"entry", "expire"}
        PROVE  Scalars'
    <2>1. CASE ~Fails
      <3> DEFINE p == IF call.passkey # None THEN call.passkey ELSE session.passkey
      <3>1. /\ asked' = p /\ rules' = ids
            /\ UNCHANGED <<held, todo, expiry, scheme, tries, hash, tx, outcome>>
        BY <1>3, <2>1 DEF Prepare
      <3>2. session.passkey \in Passkeys \cup {None}
        BY Connected DEF Staged
      <3>3. IsCall(call)
        BY <1>3, PathOfStep
      <3>4. p \in Signers \cup {None}
        BY <3>2, <3>3 DEF IsCall, Signers
      <3> HIDE DEF p
      <3> QED
        BY <3>1, <3>4 DEF Scalars
    <2> QED
      BY <1>1, <2>1
  <1>4. CASE ResolveRules /\ ~Fails
    <2>1. PICK ids \in RuleLists \cup {None} :
            \/ \E e, x : Prepare(e, ids, x)
            \/ /\ rules' = ids
               /\ UNCHANGED <<held, todo, asked, expiry, scheme, tries, hash, tx, outcome>>
      BY <1>4 DEF ResolveRules
    <2> QED
      BY <1>3, <1>4, <2>1 DEF ResolveRules, Scalars
  <1>5. CASE CalculateExpiration
    BY <1>1, <1>3, <1>5 DEF CalculateExpiration, Scalars
  <1>6. CASE (LookUp \/ Prompt) /\ ~Fails
    BY <1>6, SchemeTypes DEF LookUp, Prompt, Scalars
  <1> QED
    BY <1>1, <1>2, <1>4, <1>5, <1>6

\* The multi-signer steps keep them.
LEMMA ScalarsMulti ==
    ASSUME Scalars, Staged,
           \/ SubmitDirectly \/ LatestLedger \/ NextEntry \/ NoMoreEntries \/ ResolveScheme
           \/ ResolveRulesOnce \/ AskPasskey \/ PasskeySigns \/ Seal \/ AskDelegate
           \/ EntryDone \/ AccountSigns \/ DelegateSigns
    PROVE  Scalars'
  <1> USE DEF submission, work, env
  <1>1. CASE Fails
    BY <1>1, ScalarsStay DEF Fails, Ends
  <1>2. CASE SubmitDirectly \/ NoMoreEntries \/ EntryDone
    BY <1>2, ScalarsStay DEF SubmitDirectly, NoMoreEntries, EntryDone, Submits
  <1>3. CASE (LatestLedger \/ ResolveScheme \/ ResolveRulesOnce) /\ ~Fails
    BY <1>3, SchemeTypes DEF LatestLedger, ResolveScheme, ResolveRulesOnce, Scalars
  <1>4. CASE NextEntry /\ ~Fails
    <2>1. step = "next"
      BY <1>4 DEF NextEntry
    <2>2. call.signers \in SUBSET Signers
      BY <2>1, PathOfStep DEF IsCall
    <2>3. /\ UNCHANGED <<held, expiry, rules, scheme, tries, hash, tx, outcome>>
          /\ asked' \in {asked} \cup Accounts
          /\ todo' \in {todo, call.signers}
      BY <1>4 DEF NextEntry
    <2> QED
      BY <2>2, <2>3 DEF Scalars, Signers
  <1>5. CASE (AskPasskey \/ PasskeySigns \/ AskDelegate \/ DelegateSigns) /\ ~Fails
    BY <1>5 DEF AskPasskey, PasskeySigns, AskDelegate, DelegateSigns, Others, Scalars
  <1>6. CASE (Seal \/ AccountSigns) /\ ~Fails
    BY <1>6 DEF Seal, AccountSigns, Scalars
  <1> QED
    BY <1>1, <1>2, <1>3, <1>4, <1>5, <1>6

\* The steps of funding and submission keep them.
LEMMA ScalarsFund ==
    ASSUME Scalars,
           \/ Friendbot \/ FundedAccount \/ SignTransfer \/ ResimSource \/ Resimulate
           \/ SignFeePayer \/ SendToRelayer \/ RelayerFails \/ SendToRpc \/ Poll
    PROVE  Scalars'
  <1> USE DEF submission, work, env, Scalars
  <1>1. CASE Fails
    BY <1>1 DEF Fails, Ends
  <1>2. CASE (Friendbot \/ FundedAccount \/ SignTransfer) /\ ~Fails
    BY <1>2 DEF Friendbot, FundedAccount, SignTransfer
  <1>3. CASE (ResimSource \/ Resimulate \/ SignFeePayer) /\ ~Fails
    BY <1>3 DEF ResimSource, Resimulate, SignFeePayer
  <1>4. CASE (SendToRelayer \/ RelayerFails \/ SendToRpc) /\ ~Fails
    BY <1>4 DEF SendToRelayer, RelayerFails, SendToRpc, Rejected, Leaves
  <1>5. CASE Poll /\ ~Fails
    BY <1>5 DEF Poll, Ends, Unanswered, Rejected, HashReported
  <1> QED
    BY <1>1, <1>2, <1>3, <1>4, <1>5

\* Nothing outside an operation touches them.
LEMMA ScalarsElsewhere ==
    ASSUME Scalars, Return \/ Environment \/ UNCHANGED vars
    PROVE  Scalars'
  <1>1. CASE Return
    BY <1>1 DEF Return, env, Scalars
  <1>2. CASE Environment
    BY <1>2, SigningAssumption
    DEF Environment, Connect, Hold, UpgradeElsewhere, Execute, Reject, opVars, work,
        submission, env, Scalars
  <1>3. CASE UNCHANGED vars
    BY <1>3, ScalarsStay DEF vars, env, opVars, work, submission
  <1> QED
    BY <1>1, <1>2, <1>3

\* So signers, scheme and rules have their types throughout.
LEMMA AlwaysScalars == Spec => []Scalars
  <1>1. Init => Scalars
    BY SigningAssumption DEF Init, Scalars
  <1>2. Staged /\ Scalars /\ [Next]_vars => Scalars'
    BY ScalarsCalls, ScalarsSingle, ScalarsMulti, ScalarsFund, ScalarsElsewhere
    DEF Next, Proceed
  <1> QED
    BY <1>1, <1>2, AlwaysStaged, PTL DEF Spec

-----------------------------------------------------------------------------
(* Every entry that is signed is one its operation may sign. *)

Signable(e) == IsEntry(e) /\ (e.addr \in Wallets => Intended(e, call.admin))

Vetted ==
    /\ IsList(signed) /\ \A e \in Range(signed) : Signable(e)
    /\ step \in {"idle", "amount", "build", "direct", "ledger", "friendbot", "funded",
                 "simulate"} => signed = << >>
    /\ entry = None \/ IsEntry(entry)
    /\ step \in {"lookup", "prompt", "account", "scheme", "rules", "passkeys", "delegates",
                 "delegate"} => Signable(entry)
    /\ step = "expire" => Signable(Head(left))
    /\ step \in {"lookup", "prompt"} => asked \in Passkeys
    /\ step \in {"account", "delegate"} => asked \in Accounts
    /\ step \in {"delegates", "delegate"} => todo \subseteq Accounts

\* An entry that may be signed may be after a change of anything else in it.
LEMMA SignableKept ==
    ASSUME NEW e, Signable(e), NEW f, IsEntry(f), f.addr = e.addr,
           f.mutations = e.mutations
    PROVE  Signable(f)
  BY DEF Signable, Intended

\* In particular after a signature.
LEMMA SignableUpserted ==
    ASSUME NEW e, Signable(e), NEW who \in SUBSET Signers, NEW d,
           d.rules \in RuleLists \cup {None}
    PROVE  Signable(Upsert(e, who, d))
  <1> DEFINE f == Upsert(e, who, d)
  <1>1. IsEntry(f) /\ f.addr = e.addr /\ f.mutations = e.mutations
    BY Upserts DEF Signable, Upserted
  <1> HIDE DEF f
  <1>2. Signable(f)
    BY <1>1, SignableKept
  <1> QED
    BY <1>2 DEF f

\* The next entry is one the operation was given.
LEMMA HeadGiven ==
    ASSUME Staged, left # << >>
    PROVE  Head(left) \in Given
  BY DEF Staged

\* Nothing is signed in most steps.
Waiting == {"lookup", "prompt", "account", "scheme", "rules", "passkeys", "delegates",
            "delegate"}
Unsigned == {"idle", "amount", "build", "direct", "ledger", "friendbot", "funded",
             "simulate"}

\* A step that leaves the entries alone leaves them vetted.
LEMMA VettedStays ==
    ASSUME Vetted, UNCHANGED <<signed, entry, call>>,
           step' \notin Waiting \cup {"expire"},
           step' \in Unsigned => step \in Unsigned
    PROVE  Vetted'
  BY DEF Vetted, Signable, Waiting, Unsigned

\* An entry is taken up.
LEMMA VettedTaken ==
    ASSUME Vetted, UNCHANGED <<signed, call, left>>,
           step' \in Waiting \ {"delegates", "delegate"}, Signable(entry'),
           step' \in {"lookup", "prompt"} => asked' \in Passkeys,
           step' = "account" => asked' \in Accounts
    PROVE  Vetted'
  BY DEF Vetted, Signable, Waiting

\* An entry is signed.
LEMMA VettedAppended ==
    ASSUME Vetted, UNCHANGED call, NEW e, Signable(e), signed' = Append(signed, e),
           entry' = None \/ IsEntry(entry'),
           step' \in {"entry", "next", "delegates"},
           step' = "delegates" => Signable(entry') /\ todo' \subseteq Accounts
    PROVE  Vetted'
  <1>1. IsList(signed') /\ Range(signed') = Range(signed) \cup {e}
    BY Appended DEF Vetted
  <1>2. \A f \in Range(signed') : Signable(f)'
    BY <1>1 DEF Vetted, Signable
  <1>3. step' = "delegates" => Signable(entry)'
    BY DEF Signable
  <1> QED
    BY <1>1, <1>2, <1>3 DEF Vetted

\* What signAuthEntryWithSigners does when it does not refuse.
WithKeys(e, x, keys, ids, s) == <<Upsert([e EXCEPT !.exp = x], keys, Digest(x, ids, s))>>
HeadlessSigned ==
    \E e \in Given, keys \in SUBSET Keys, ids \in RuleLists,
       s \in Range(SchemeOf), x \in Expirations \cup {0} :
        /\ Intended(e, FALSE) /\ RulesAgree(e, ids) /\ ~Uncovers(e, x)
        /\ signed' = WithKeys(e, x, keys, ids, s)

\* signAuthEntry ends with the call, with its one entry signed or none.
LEMMA HeadlessSigns ==
    ASSUME Headless
    PROVE  /\ step = "idle" /\ step' = "ended" /\ call'.path = "headless"
           /\ call'.admin = FALSE /\ UNCHANGED <<entry, todo, asked, rules, scheme>>
           /\ signed' = << >> \/ HeadlessSigned
  <1>1. PICK e \in AuthEntryInputs, keys \in SUBSET Keys, ids \in RuleLists \cup {None},
             s \in Range(SchemeOf), o \in Options :
          LET exp == IF o.exp # 0 THEN o.exp ELSE e.exp
              refused == \/ keys = {} \/ e = None
                         \/ e.cred # "address" \/ ~Intended(e, FALSE)
                         \/ exp = 0 \/ Uncovers(e, exp)
                         \/ ids = None \/ ~RulesAgree(e, ids)
          IN  /\ step = "idle"
              /\ call' = Calls("headless", NoTransaction, None, o.exp, keys)
              /\ step' = "ended"
              /\ outcome' = IF refused THEN "failed" ELSE "signed"
              /\ signed' = IF refused THEN << >>
                           ELSE <<Upsert([e EXCEPT !.exp = exp], keys,
                                         Digest(exp, ids, s))>>
              /\ UNCHANGED <<env, left, entry, todo, asked, expiry, rules, scheme,
                             config,
                             envelope, tries, hash, tx>>
    BY DEF Headless
  <1> DEFINE x == IF o.exp # 0 THEN o.exp ELSE e.exp
  <1>2. /\ step = "idle" /\ step' = "ended" /\ call'.path = "headless"
        /\ call'.admin = FALSE /\ UNCHANGED <<entry, todo, asked, rules, scheme>>
    BY <1>1, CallsFields DEF NoTransaction
  <1>3. CASE signed' # << >>
    <2>1. /\ e # None /\ ids # None /\ Intended(e, FALSE) /\ RulesAgree(e, ids)
          /\ ~Uncovers(e, x)
          /\ signed' = WithKeys(e, x, keys, ids, s)
      BY <1>1, <1>3 DEF WithKeys
    <2>2. e \in Given /\ ids \in RuleLists
      BY <2>1, InputsGiven
    <2>3. x \in Expirations \cup {0}
      BY <2>2, GivenEntries, OptionTypes DEF IsEntry
    <2> HIDE DEF x
    <2>4. HeadlessSigned
      BY <2>1, <2>2, <2>3 DEF HeadlessSigned
    <2> QED
      BY <1>2, <2>4
  <1> QED
    BY <1>2, <1>3

\* A call has no entries at hand.
LEMMA VettedCalls ==
    ASSUME Vetted, Staged, Call
    PROVE  Vetted'
  <1>1. CASE Begun
    <2>1. PICK c, es, s : IsStart(c, es, s) /\ Begin(c, es, s)
      BY <1>1 DEF Begun
    <2>2. /\ step = "idle" /\ UNCHANGED <<signed, entry>> /\ step' = s
          /\ s \in Starts(c.path) /\ c.path \in Paths
      BY <2>1 DEF IsStart, IsCall, Begin
    <2>3. s \notin Waiting \cup {"expire"}
      BY <2>2 DEF Starts, Paths, Waiting
    <2>4. signed = << >> /\ Range(signed) = {}
      BY <2>2, EmptyList DEF Vetted
    <2> QED
      BY <2>2, <2>3, <2>4 DEF Vetted, Waiting
  <1>2. CASE Headless
    <2>1. step' = "ended" /\ call'.admin = FALSE /\ UNCHANGED entry
      BY <1>2, HeadlessSigns
    <2>2. CASE signed' = << >>
      BY <2>1, <2>2, EmptyList DEF Vetted
    <2>3. CASE HeadlessSigned
      <3>1. PICK e \in Given, keys \in SUBSET Keys, ids \in RuleLists, s \in Range(SchemeOf),
                 x \in Expirations \cup {0} :
              /\ Intended(e, FALSE)
              /\ signed' = WithKeys(e, x, keys, ids, s)
        BY <2>3 DEF HeadlessSigned
      <3> DEFINE d == Digest(x, ids, s)
                 f == [e EXCEPT !.exp = x]
                 g == Upsert(f, keys, d)
      <3>2. IsEntry(e) /\ keys \in SUBSET Signers /\ d.rules \in RuleLists \cup {None}
        BY GivenEntries DEF Signers, Digest
      <3>3. IsEntry(f) /\ f.mutations = e.mutations
        BY <3>2, ExpirationSet
      <3> HIDE DEF d, f
      <3>4. IsEntry(g) /\ g.mutations = e.mutations
        BY <3>2, <3>3, Upserts DEF Upserted
      <3> HIDE DEF g
      <3>5. Intended(g, FALSE)
        BY <3>1, <3>4, IntendedByMutations
      <3>6. signed' = <<g>>
        BY <3>1 DEF WithKeys, g, d, f
      <3>7. IsList(signed') /\ Range(signed') = {g}
        BY <3>6, OneEntry
      <3>8. Signable(g)'
        BY <2>1, <3>4, <3>5 DEF Signable
      <3> QED
        BY <2>1, <3>7, <3>8 DEF Vetted
    <2> QED
      BY <1>2, <2>2, <2>3, HeadlessSigns
  <1> QED
    BY <1>1, <1>2, CallsStart DEF Staged

\* An entry is taken up only past the mutation check.
LEMMA PrepareTakes ==
    ASSUME Vetted, Staged, NEW e, Signable(e), NEW x \in Expirations \cup {0}, NEW ids,
           Prepare(e, ids, x), ~Fails, step \in {"entry", "expire"}
    PROVE  Vetted'
  <1> DEFINE p == IF call.passkey # None THEN call.passkey ELSE session.passkey
             f == [e EXCEPT !.exp = x]
  <1>1. /\ p # None /\ asked' = p /\ entry' = f /\ step' = "lookup"
        /\ UNCHANGED <<signed, call, left>>
    BY DEF Prepare
  <1>2. IsCall(call) /\ session.passkey \in Passkeys \cup {None}
    BY PathOfStep, Connected DEF Staged
  <1>3. p \in Passkeys
    BY <1>1, <1>2 DEF IsCall
  <1>4. IsEntry(e)
    BY DEF Signable
  <1>5. IsEntry(f) /\ f.addr = e.addr /\ f.mutations = e.mutations
    BY <1>4, ExpirationSet
  <1> HIDE DEF p, f
  <1>6. Signable(f)
    BY <1>5, SignableKept
  <1> QED
    BY <1>1, <1>3, <1>6, VettedTaken DEF Waiting

\* The single-signer path signs vetted entries only.
LEMMA VettedSingle ==
    ASSUME Vetted, Staged, Scalars,
           \/ ResolveAmount \/ Build \/ SkipEntry \/ ResolveRules \/ CalculateExpiration
           \/ LookUp \/ Prompt \/ AllSigned
    PROVE  Vetted'
  <1> USE DEF submission, work, env
  <1>1. CASE Fails \/ Ends("signed")
    BY <1>1, VettedStays DEF Fails, Ends, Waiting, Unsigned
  <1>2. CASE ResolveAmount \/ SkipEntry \/ AllSigned
    BY <1>1, <1>2, VettedStays
    DEF ResolveAmount, SkipEntry, AllSigned, Submits, Waiting, Unsigned
  <1>3. CASE Build /\ ~Fails
    <2>1. /\ step = "build" /\ step' \in {"ledger", "entry"} /\ UNCHANGED <<signed, entry>>
      BY <1>3 DEF Build
    <2>2. signed' = << >> /\ Range(signed') = {}
      BY <2>1, EmptyList DEF Vetted
    <2> QED
      BY <2>1, <2>2 DEF Vetted
  <1>4. CASE ResolveRules /\ ~Fails
    <2> DEFINE e == Head(left)
               x == IF call.exp # 0 THEN call.exp ELSE e.exp
    <2>1. PICK ids \in RuleLists \cup {None} :
            /\ Intended(e, call.admin)
            /\ \/ Prepare(e, ids, x)
               \/ step' = "expire" /\ UNCHANGED <<signed, entry, call, left>>
      BY <1>4 DEF ResolveRules
    <2>2. step = "entry" /\ left # << >>
      BY <1>4 DEF ResolveRules
    <2>3. IsEntry(e) /\ IsCall(call)
      BY <2>2, HeadGiven, GivenEntries, PathOfStep
    <2>4. x \in Expirations \cup {0}
      BY <2>3 DEF IsEntry, IsCall
    <2> HIDE DEF x, e
    <2>5. Signable(e)
      BY <2>1, <2>3 DEF Signable
    <2>6. CASE Prepare(e, ids, x)
      BY <1>4, <2>2, <2>4, <2>5, <2>6, PrepareTakes
    <2>7. CASE step' = "expire" /\ UNCHANGED <<signed, entry, call, left>>
      BY <2>5, <2>7 DEF e, Vetted, Signable
    <2> QED
      BY <2>1, <2>6, <2>7
  <1>5. CASE CalculateExpiration /\ ~Fails
    <2>1. PICK x \in Expirations : Prepare(Head(left), rules, x)
      BY <1>5 DEF CalculateExpiration
    <2>2. step = "expire" /\ Signable(Head(left))
      BY <1>5 DEF CalculateExpiration, Vetted
    <2> QED
      BY <1>5, <2>1, <2>2, PrepareTakes
  <1>6. CASE LookUp /\ ~Fails
    <2>1. /\ step = "lookup" /\ step' = "prompt"
          /\ UNCHANGED <<signed, call, left, entry, asked>>
      BY <1>6 DEF LookUp
    <2>2. Signable(entry) /\ asked \in Passkeys
      BY <2>1 DEF Vetted
    <2> QED
      BY <2>1, <2>2, VettedTaken DEF Waiting
  <1>7. CASE Prompt /\ ~Fails
    <2> DEFINE e == Upsert(entry, {asked}, Signature)
    <2>1. /\ step = "prompt" /\ step' = "entry" /\ UNCHANGED call
          /\ entry' = None /\ signed' = Append(signed, e)
      BY <1>7 DEF Prompt
    <2>2. Signable(entry) /\ asked \in Passkeys
      BY <2>1 DEF Vetted
    <2>3. {asked} \in SUBSET Signers /\ Signature.rules \in RuleLists \cup {None}
      BY <2>2 DEF Signature, Digest, Scalars, Signers
    <2>4. Signable(e)
      BY <2>2, <2>3, SignableUpserted
    <2> HIDE DEF e
    <2> QED
      BY <2>1, <2>4, VettedAppended
  <1> QED
    BY <1>1, <1>2, <1>3, <1>4, <1>5, <1>6, <1>7

\* The entry that is next, with its expiration.
Dated(e) == [e EXCEPT !.exp = IF e.exp # 0 THEN e.exp ELSE expiry]

\* Giving an entry its expiration changes nothing else in it.
LEMMA DatedEntry ==
    ASSUME Staged, Scalars, left # << >>
    PROVE  LET e == Head(left)
           IN  /\ e \in Given /\ IsEntry(e) /\ IsEntry(Dated(e))
               /\ Dated(e).addr = e.addr /\ Dated(e).cred = e.cred
               /\ Dated(e).mutations = e.mutations
               /\ Dated(e).rules = e.rules /\ Dated(e).sigs = e.sigs
               /\ Dated(e).exp = IF e.exp # 0 THEN e.exp ELSE expiry
  <1> DEFINE e == Head(left)
             x == IF e.exp # 0 THEN e.exp ELSE expiry
  <1>1. e \in Given /\ IsEntry(e)
    BY HeadGiven, GivenEntries
  <1>2. x \in Expirations \cup {0}
    BY <1>1 DEF IsEntry, Scalars
  <1> HIDE DEF e, x
  <1>3. LET f == [e EXCEPT !.exp = x]
        IN  /\ IsEntry(f) /\ f.exp = x
            /\ f.cred = e.cred /\ f.addr = e.addr /\ f.mutations = e.mutations
            /\ f.rules = e.rules /\ f.sigs = e.sigs
    BY <1>1, <1>2, ExpirationSet
  <1>4. [e EXCEPT !.exp = x] = Dated(e)
    BY DEF Dated, x
  <1> QED
    BY <1>1, <1>3, <1>4 DEF e, x

\* The multi-signer path takes up an entry only past the mutation check.
LEMMA VettedNext ==
    ASSUME Vetted, Staged, Scalars, NextEntry, ~Fails
    PROVE  Vetted'
  <1> DEFINE e == Head(left)
             f == Dated(e)
  <1>1. step = "next" /\ left # << >> /\ UNCHANGED call
    BY DEF NextEntry, Fails, Ends
  <1>2. \/ /\ e.cred = "source" /\ signed' = Append(signed, e)
           /\ step' = "next" /\ UNCHANGED entry
        \/ /\ e.addr \in Accounts /\ step' = "account" /\ entry' = f
           /\ asked' = e.addr /\ UNCHANGED <<signed, left>>
        \/ /\ Intended(e, call.admin) /\ step' \in {"scheme", "rules"}
           /\ entry' = f /\ UNCHANGED <<signed, left>>
    BY <1>1 DEF NextEntry, Dated, submission
  <1>3. /\ e \in Given /\ IsEntry(e) /\ IsEntry(f) /\ f.addr = e.addr
        /\ f.mutations = e.mutations
    BY <1>1, DatedEntry
  <1>4. e.cred = "source" => e.addr \notin Wallets
    BY <1>3, GivenEntries
  <1>5. e.addr \in Accounts => e.addr \notin Wallets
    BY SigningAssumption
  <1> HIDE DEF e, f
  <1>6. CASE e.cred = "source" /\ signed' = Append(signed, e) /\ step' = "next"
             /\ UNCHANGED entry
    <2>1. Signable(e)
      BY <1>3, <1>4, <1>6 DEF Signable
    <2>2. entry' = None \/ IsEntry(entry')
      BY <1>6 DEF Vetted
    <2> QED
      BY <1>1, <1>6, <2>1, <2>2, VettedAppended
  <1>7. CASE /\ e.addr \in Accounts /\ step' = "account" /\ entry' = f
             /\ asked' = e.addr /\ UNCHANGED <<signed, left>>
    <2>1. Signable(f)
      BY <1>3, <1>5, <1>7 DEF Signable
    <2> QED
      BY <1>1, <1>7, <2>1, VettedTaken DEF Waiting
  <1>8. CASE /\ Intended(e, call.admin) /\ step' \in {"scheme", "rules"}
             /\ entry' = f /\ UNCHANGED <<signed, left>>
    <2>1. Signable(e)
      BY <1>3, <1>8 DEF Signable
    <2>2. Signable(f)
      BY <1>3, <2>1, SignableKept
    <2> QED
      BY <1>1, <1>8, <2>2, VettedTaken DEF Waiting
  <1> QED
    BY <1>2, <1>6, <1>7, <1>8

\* It signs vetted entries only.
LEMMA VettedMulti ==
    ASSUME Vetted, Staged, Scalars,
           \/ SubmitDirectly \/ LatestLedger \/ NextEntry \/ NoMoreEntries \/ ResolveScheme
           \/ ResolveRulesOnce \/ AskPasskey \/ PasskeySigns \/ Seal \/ AskDelegate
           \/ EntryDone \/ AccountSigns \/ DelegateSigns
    PROVE  Vetted'
  <1> USE DEF submission, work, env
  <1>1. CASE Fails
    BY <1>1, VettedStays DEF Fails, Ends, Waiting, Unsigned
  <1>2. CASE (SubmitDirectly \/ LatestLedger \/ NoMoreEntries) /\ ~Fails
    BY <1>2, VettedStays
    DEF SubmitDirectly, LatestLedger, NoMoreEntries, Submits, Waiting, Unsigned
  <1>3. CASE (ResolveScheme \/ ResolveRulesOnce \/ AskPasskey) /\ ~Fails
    <2>1. /\ step \in {"scheme", "rules", "passkeys"}
          /\ step' \in {"rules", "passkeys", "prompt"}
          /\ step' = "prompt" => asked' \in Passkeys
          /\ UNCHANGED <<signed, call, left, entry>>
      BY <1>3 DEF ResolveScheme, ResolveRulesOnce, AskPasskey
    <2>2. Signable(entry)
      BY <2>1 DEF Vetted
    <2> QED
      BY <2>1, <2>2, VettedTaken DEF Waiting
  <1>4. CASE PasskeySigns /\ ~Fails
    <2>1. /\ step = "prompt" /\ step' = "passkeys" /\ UNCHANGED <<signed, call, left>>
          /\ entry' = Upsert(entry, {asked}, Signature)
      BY <1>4 DEF PasskeySigns
    <2>2. Signable(entry) /\ asked \in Passkeys
      BY <2>1 DEF Vetted
    <2>3. {asked} \in SUBSET Signers /\ Signature.rules \in RuleLists \cup {None}
      BY <2>2 DEF Signature, Digest, Scalars, Signers
    <2>4. Signable(entry')
      BY <2>1, <2>2, <2>3, SignableUpserted
    <2> QED
      BY <2>1, <2>4, VettedTaken DEF Waiting
  <1>5. CASE Seal /\ ~Fails
    <2> DEFINE ids == IF entry.rules = None THEN rules ELSE entry.rules
               d == Digest(entry.exp, ids, scheme)
    <2>1. /\ step = "passkeys" /\ step' = "delegates" /\ UNCHANGED call
          /\ entry' = Upsert(entry, todo, d) /\ signed' = Append(signed, entry')
          /\ todo' \subseteq Accounts
      BY <1>5 DEF Seal
    <2>2. Signable(entry)
      BY <2>1 DEF Vetted
    <2>3. todo \in SUBSET Signers /\ d.rules \in RuleLists \cup {None}
      BY <2>2 DEF Digest, Scalars, Signable, IsEntry
    <2> HIDE DEF d
    <2>4. Signable(entry')
      BY <2>1, <2>2, <2>3, SignableUpserted
    <2> QED
      BY <2>1, <2>4, VettedAppended DEF Signable
  <1>6. CASE AskDelegate /\ ~Fails
    <2>1. /\ step = "delegates" /\ step' = "delegate" /\ asked' \in todo
          /\ UNCHANGED <<signed, call, left, entry, todo>>
      BY <1>6 DEF AskDelegate
    <2> QED
      BY <2>1 DEF Vetted, Signable
  <1>7. CASE DelegateSigns /\ ~Fails
    <2> DEFINE e == DelegatedEntry(asked)
    <2>1. /\ step = "delegate" /\ step' = "delegates" /\ UNCHANGED <<call, entry>>
          /\ signed' = Append(signed, e) /\ todo' \subseteq todo
      BY <1>7 DEF DelegateSigns, Others
    <2>2. Signable(entry) /\ asked \in Accounts /\ todo \subseteq Accounts
      BY <2>1 DEF Vetted
    <2>3. entry.exp \in Expirations \cup {0} /\ asked \notin Wallets
      BY <2>2, SigningAssumption DEF Signable, IsEntry
    <2>4. Signable(e)
      BY <2>2, <2>3, AccountEntryFields DEF DelegatedEntry, Signable
    <2> HIDE DEF e
    <2> QED
      BY <2>1, <2>2, <2>4, VettedAppended DEF Signable
  <1>8. CASE EntryDone
    BY <1>8 DEF EntryDone, Vetted, Signable
  <1>9. CASE AccountSigns /\ ~Fails
    <2> DEFINE d == Digest(entry.exp, None, None)
               e == [entry EXCEPT !.sigs = By(asked, d)]
    <2>1. /\ step = "account" /\ step' = "next" /\ UNCHANGED call
          /\ signed' = Append(signed, e) /\ entry' = None
      BY <1>9 DEF AccountSigns
    <2>2. Signable(entry) /\ asked \in Accounts
      BY <2>1 DEF Vetted
    <2>3. IsEntry(e) /\ e.addr = entry.addr /\ e.mutations = entry.mutations
      <3>1. IsEntry(entry)
        BY <2>2 DEF Signable
      <3> HIDE DEF d
      <3> QED
        BY <2>2, <3>1 DEF IsEntry, By, Signers
    <2> HIDE DEF e
    <2>4. Signable(e)
      BY <2>2, <2>3, SignableKept
    <2> QED
      BY <2>1, <2>4, VettedAppended
  <1> QED
    BY <1>1, <1>2, <1>3, <1>4, <1>5, <1>6, <1>7, <1>8, <1>9, VettedNext

\* Funding and submission sign no entry of a wallet.
LEMMA VettedFund ==
    ASSUME Vetted, Staged,
           \/ Friendbot \/ FundedAccount \/ SignTransfer \/ ResimSource \/ Resimulate
           \/ SignFeePayer \/ SendToRelayer \/ RelayerFails \/ SendToRpc \/ Poll
    PROVE  Vetted'
  <1> USE DEF submission, work, env
  <1>1. CASE Fails
    BY <1>1, VettedStays DEF Fails, Ends, Waiting, Unsigned
  <1>2. CASE (Friendbot \/ FundedAccount) /\ ~Fails
    BY <1>2, VettedStays DEF Friendbot, FundedAccount, Waiting, Unsigned
  <1>3. CASE SignTransfer /\ ~Fails
    <2>1. PICK x \in Expirations :
            /\ step = "simulate" /\ step' = "source" /\ UNCHANGED <<call, entry>>
            /\ signed' = <<AccountEntry(Temp, x, None)>>
      BY <1>3 DEF SignTransfer
    <2> DEFINE e == AccountEntry(Temp, x, None)
    <2>2. IsEntry(e) /\ e.addr \notin Wallets
      BY AccountEntryFields, SigningAssumption
    <2> HIDE DEF e
    <2>3. IsList(signed') /\ Range(signed') = {e}
      BY <2>1, OneEntry DEF e
    <2> QED
      BY <2>1, <2>2, <2>3 DEF Vetted, Signable
  <1>4. CASE (ResimSource \/ Resimulate \/ SignFeePayer) /\ ~Fails
    BY <1>4, VettedStays DEF ResimSource, Resimulate, SignFeePayer, Waiting, Unsigned
  <1>5. CASE (SendToRelayer \/ RelayerFails \/ SendToRpc \/ Poll) /\ ~Fails
    BY <1>5, VettedStays
    DEF SendToRelayer, RelayerFails, SendToRpc, Poll, Unanswered, Leaves, Ends, Waiting, Unsigned
  <1> QED
    BY <1>1, <1>2, <1>3, <1>4, <1>5

\* Nothing outside an operation adds an entry.
LEMMA VettedElsewhere ==
    ASSUME Vetted, Return \/ Environment \/ UNCHANGED vars
    PROVE  Vetted'
  <1>1. CASE Return
    BY <1>1, EmptyList DEF Return, Vetted
  <1>2. CASE Environment \/ UNCHANGED vars
    <2>1. UNCHANGED <<call, step, left, entry, todo, asked, signed>>
      BY <1>2
      DEF Environment, Connect, Hold, UpgradeElsewhere, Execute, Reject, vars, opVars, work,
          env
    <2> QED
      BY <2>1 DEF Vetted, Signable
  <1> QED
    BY <1>1, <1>2

\* So every entry that is signed passed the mutation check.
LEMMA AlwaysVetted == Spec => []Vetted
  <1>1. Init => Vetted
    BY EmptyList DEF Init, Vetted
  <1>2. Staged /\ Scalars /\ Vetted /\ [Next]_vars => Vetted'
    BY VettedCalls, VettedSingle, VettedMulti, VettedFund, VettedElsewhere
    DEF Next, Proceed
  <1> QED
    BY <1>1, <1>2, AlwaysStaged, AlwaysScalars, PTL DEF Spec

-----------------------------------------------------------------------------
(* The code of the wallets, and what an operation may sign. *)

\* An operation does not change the code of a wallet, the network does.
LEMMA CodeStays ==
    ASSUME session \in Sessions \cup {Disconnected},
           Call \/ Proceed \/ AccountSigns \/ DelegateSigns \/ Return
    PROVE  UNCHANGED code
  <1> USE DEF env
  <1>1. CASE Call
    <2>1. CASE Begun
      BY <2>1 DEF Begun, Begin
    <2>2. CASE Headless
      BY <2>2 DEF Headless
    <2> QED
      BY <1>1, <2>1, <2>2, CallsStart
  <1>2. CASE \/ ResolveAmount \/ Build \/ SkipEntry \/ ResolveRules \/ CalculateExpiration
             \/ LookUp \/ Prompt
    BY <1>2
    DEF ResolveAmount, Build, SkipEntry, ResolveRules, CalculateExpiration, Prepare, LookUp,
        Prompt, Fails, Ends
  <1>3. CASE \/ AllSigned \/ SubmitDirectly \/ LatestLedger \/ NextEntry \/ NoMoreEntries
             \/ ResolveScheme \/ ResolveRulesOnce \/ AskPasskey \/ PasskeySigns
    BY <1>3
    DEF AllSigned, SubmitDirectly, LatestLedger, NextEntry, NoMoreEntries, Submits,
        ResolveScheme, ResolveRulesOnce, AskPasskey, PasskeySigns, Fails, Ends
  <1>4. CASE \/ Seal \/ AskDelegate \/ EntryDone \/ AccountSigns \/ DelegateSigns
             \/ Friendbot \/ FundedAccount \/ SignTransfer \/ Return
    BY <1>4
    DEF Seal, AskDelegate, EntryDone, AccountSigns, DelegateSigns, Friendbot, FundedAccount,
        SignTransfer, Return, Fails, Ends
  <1>5. CASE \/ ResimSource \/ Resimulate \/ SignFeePayer \/ SendToRelayer \/ RelayerFails
             \/ SendToRpc \/ Poll
    BY <1>5
    DEF ResimSource, Resimulate, SignFeePayer, SendToRelayer, RelayerFails, SendToRpc, Poll,
        Unanswered,
        Leaves, Fails, Ends
  <1> QED
    BY <1>1, <1>2, <1>3, <1>4, <1>5 DEF Proceed

\* A wallet runs what it ran, or code that the kit accepts and can sign for.
LEMMA ExecuteUpgrades ==
    ASSUME Vetted, Execute, NEW w \in Wallets, code \in [Wallets -> Codes]
    PROVE  code'[w] \in {code[w]} \cup (Accepted \cap DOMAIN SchemeOf)
  <1> DEFINE targets == UNION {Target(e, w) : e \in Range(signed)}
  <1>1. code'[w] = IF targets = {} THEN code[w] ELSE CHOOSE c \in targets : TRUE
    BY DEF Execute
  <1>2. ASSUME NEW c \in targets
        PROVE  c \in Accepted \cap DOMAIN SchemeOf
    <2>1. PICK e \in Range(signed) : c \in Target(e, w)
      BY <1>2
    <2>2. c # None /\ \E m \in e.mutations : e.addr = w /\ c = m.target
      BY <2>1 DEF Target
    <2>3. Intended(e, call.admin) /\ e.mutations # {}
      BY <2>1, <2>2 DEF Vetted, Signable
    <2>4. \A m \in e.mutations : UpgradeAllowed(m.target)
      BY <2>3 DEF Intended
    <2> QED
      BY <2>2, <2>4 DEF UpgradeAllowed
  <1> HIDE DEF targets
  <1> QED
    BY <1>1, <1>2

\* Every wallet runs some code.
LEMMA CodeTyped == Spec => [](code \in [Wallets -> Codes])
  <1>1. Init => code \in [Wallets -> Codes]
    BY SigningAssumption DEF Init
  <1>2. Staged /\ Vetted /\ code \in [Wallets -> Codes] /\ [Next]_vars
            => (code \in [Wallets -> Codes])'
    <2> SUFFICES ASSUME Staged, Vetted, code \in [Wallets -> Codes], [Next]_vars
                 PROVE  code' \in [Wallets -> Codes]
      OBVIOUS
    <2>1. CASE Call \/ Proceed \/ AccountSigns \/ DelegateSigns \/ Return
      BY <2>1, CodeStays DEF Staged
    <2>2. CASE Execute
      <3>1. \A w \in Wallets : code'[w] \in Codes
        BY <2>2, ExecuteUpgrades, SigningAssumption
      <3> QED
        BY <2>2, <3>1 DEF Execute
    <2>3. CASE Environment /\ ~Execute
      BY <2>3 DEF Environment, Connect, Hold, UpgradeElsewhere, Reject, env
    <2>4. CASE UNCHANGED vars
      BY <2>4 DEF vars, env
    <2> QED
      BY <2>1, <2>2, <2>3, <2>4 DEF Next
  <1> QED
    BY <1>1, <1>2, AlwaysStaged, AlwaysVetted, PTL DEF Spec

\* Whatever an operation is given, what is asked of the signers and what answers
\* come when, its state is what the code expects at each step (kit/tx-ops.ts,
\* managers/multi-signer-manager.ts).
THEOREM SigningTyped == Spec => []TypeOK
  <1>1. Staged /\ Scalars /\ Vetted /\ code \in [Wallets -> Codes] => TypeOK
    <2> SUFFICES ASSUME Staged, Scalars, Vetted, code \in [Wallets -> Codes]
                 PROVE  TypeOK
      OBVIOUS
    <2>1. \A e \in Range(left) : IsEntry(e)
      <3>1. \A i \in 1..Len(left) : left[i] \in Given
        BY DEF Staged
      <3>2. \A e \in Range(left) : e \in Given
        BY <3>1 DEF Range, Staged
      <3> QED
        BY <3>2, GivenEntries
    <2>2. \A e \in Range(signed) : IsEntry(e)
      BY DEF Vetted, Signable
    <2>3. entry # None => IsEntry(entry)
      BY DEF Vetted
    <2>4. session \in Sessions \cup {Disconnected}
      BY DEF Staged
    <2> QED
      BY <2>1, <2>2, <2>3, <2>4 DEF TypeOK, Scalars
  <1> QED
    BY <1>1, CodeTyped, AlwaysStaged, AlwaysScalars, AlwaysVetted, PTL

\* No path but the administrative ones has a wallet entry signed whose tree
\* changes the wallet, and those only one whose change is the transaction itself
\* (assertWalletMutationIntent).
THEOREM OnlyAdminMutates == Spec => []OnlyAdminSignsMutations
  <1>1. Vetted => OnlyAdminSignsMutations
    BY DEF Vetted, Signable, Intended, OnlyAdminSignsMutations
  <1> QED
    BY <1>1, AlwaysVetted, PTL

\* A wallet this kit upgrades runs code that the kit accepts and has a digest
\* scheme for, in whatever state other clients left it before
\* (assertKnownAuthDigestScheme in kit/tx-ops.ts).
THEOREM UpgradesSignable == Spec => UpgradesStaySignable
  <1> DEFINE A == \A w \in Wallets :
                    (tx = "sent" /\ tx' = "executed" /\ code'[w] # code[w]) =>
                        code'[w] \in Accepted \cap DOMAIN SchemeOf
  <1>1. Staged /\ Vetted /\ code \in [Wallets -> Codes] /\ [Next]_vars => [A]_vars
    <2> SUFFICES ASSUME Staged, Vetted, code \in [Wallets -> Codes], [Next]_vars
                 PROVE  A
      OBVIOUS
    <2>1. CASE Execute
      BY <2>1, ExecuteUpgrades
    <2>2. CASE ~Execute
      <3>1. UNCHANGED code \/ UNCHANGED tx
        <4>1. CASE Call \/ Proceed \/ AccountSigns \/ DelegateSigns \/ Return
          BY <4>1, CodeStays DEF Staged
        <4>2. CASE Environment
          BY <2>2, <4>2
          DEF Environment, Connect, Hold, UpgradeElsewhere, Reject, env, opVars, submission
        <4>3. CASE UNCHANGED vars
          BY <4>3 DEF vars, env
        <4> QED
          BY <4>1, <4>2, <4>3 DEF Next
      <3> QED
        BY <3>1
    <2> QED
      BY <2>1, <2>2
  <1>2. Spec => []([A]_vars)
    BY <1>1, CodeTyped, AlwaysStaged, AlwaysVetted, PTL DEF Spec
  <1> QED
    BY <1>2, PTL DEF UpgradesStaySignable

-----------------------------------------------------------------------------
(* The entry at hand. *)

\* While its wallet's signers sign it.
OwnSteps == {"scheme", "rules", "passkeys", "prompt"}
Consistent(e) == Covered(e) /\ (DOMAIN e.sigs # {} => e.rules # None)
InHand ==
    /\ entry.addr = call.wallet /\ Consistent(entry)
    /\ scheme = None <=> step = "scheme"
    /\ call.signers \cap Accounts \subseteq todo
    /\ step \in {"scheme", "rules"} => todo = call.signers
    /\ \A s \in (DOMAIN entry.sigs \cap call.signers) \ todo : entry.sigs[s].scheme = scheme
    /\ step = "prompt" => rules # None /\ RulesAgree(entry, rules)

Ready ==
    /\ call.path = "submit" /\ step \in {"lookup", "prompt"} => DOMAIN entry.sigs = {}
    /\ step = "account" => entry.rules = None /\ entry.addr \notin Wallets
    /\ call.path = "multi" /\ step \in OwnSteps => InHand

\* Away from the steps that sign there is nothing to be ready.
LEMMA ReadyAway ==
    ASSUME step' \notin OwnSteps \cup {"lookup", "account"}
    PROVE  Ready'
  BY DEF Ready, OwnSteps

\* An entry taken up holds only signatures over what it is prepared with.
LEMMA ReadyPrepared ==
    ASSUME Staged, NEW x \in Expirations \cup {0}, NEW ids, left # << >>,
           step \in {"entry", "expire"}, Prepare(Head(left), ids, x)
    PROVE  Ready'
  <1> DEFINE e == Head(left)
             f == [e EXCEPT !.exp = x]
  <1>1. CASE Fails
    BY <1>1, ReadyAway DEF Fails, Ends, OwnSteps
  <1>2. CASE ~Fails
    <2>1. step' = "lookup" /\ entry' = f /\ UNCHANGED call
      BY <1>2 DEF Prepare
    <2>2. IsEntry(e)
      BY HeadGiven, GivenEntries
    <2>3. call.path = "submit" => DOMAIN e.sigs = {}
      <3>1. call.path = "submit" => e \in Fresh
        BY DEF Staged
      <3> QED
        BY <3>1 DEF Fresh
    <2> HIDE DEF e
    <2>4. f.sigs = e.sigs
      BY <2>2, ExpirationSet
    <2> QED
      BY <2>1, <2>3, <2>4 DEF Ready, OwnSteps
  <1> QED
    BY <1>1, <1>2

\* The single-signer steps keep the entry at hand ready.
LEMMA ReadySingle ==
    ASSUME Ready, Staged,
           \/ ResolveAmount \/ Build \/ SkipEntry \/ ResolveRules \/ CalculateExpiration
           \/ LookUp \/ Prompt \/ AllSigned
    PROVE  Ready'
  <1> USE DEF submission, work, env
  <1>1. CASE Fails \/ Ends("signed")
    BY <1>1, ReadyAway DEF Fails, Ends, OwnSteps
  <1>2. CASE ResolveAmount \/ Build \/ SkipEntry \/ Prompt \/ AllSigned
    BY <1>1, <1>2, ReadyAway
    DEF ResolveAmount, Build, SkipEntry, Prompt, AllSigned, Submits, OwnSteps
  <1>3. CASE ResolveRules /\ ~Fails
    <2> DEFINE e == Head(left)
               x == IF call.exp # 0 THEN call.exp ELSE e.exp
    <2>1. PICK ids \in RuleLists \cup {None} : Prepare(e, ids, x) \/ step' = "expire"
      BY <1>3 DEF ResolveRules
    <2>2. step = "entry" /\ left # << >>
      BY <1>3 DEF ResolveRules
    <2>3. IsEntry(e) /\ IsCall(call)
      BY <2>2, HeadGiven, GivenEntries, PathOfStep
    <2>4. x \in Expirations \cup {0}
      BY <2>3 DEF IsEntry, IsCall
    <2> HIDE DEF x
    <2> QED
      BY <2>1, <2>2, <2>4, ReadyPrepared, ReadyAway DEF OwnSteps
  <1>4. CASE CalculateExpiration /\ ~Fails
    <2>1. PICK x \in Expirations : Prepare(Head(left), rules, x)
      BY <1>4 DEF CalculateExpiration
    <2>2. step = "expire" /\ left # << >>
      BY <1>4 DEF CalculateExpiration, Staged, Handling
    <2> QED
      BY <2>1, <2>2, ReadyPrepared
  <1>5. CASE LookUp /\ ~Fails
    <2>1. step = "lookup" /\ step' = "prompt" /\ UNCHANGED <<call, entry>>
      BY <1>5 DEF LookUp
    <2>2. call.path # "multi"
      BY <2>1, PathOfStep
    <2> QED
      BY <2>1, <2>2 DEF Ready
  <1> QED
    BY <1>1, <1>2, <1>3, <1>4, <1>5

\* So does taking up the next one on the multi-signer path.
LEMMA ReadyNext ==
    ASSUME Staged, Scalars, NextEntry
    PROVE  Ready'
  <1> DEFINE e == Head(left)
             f == Dated(e)
  <1>1. step = "next" /\ left # << >>
    BY DEF NextEntry
  <1>2. \/ step' \in {"next", "ended"}
        \/ /\ e.addr \in Accounts /\ step' = "account" /\ entry' = f
           /\ UNCHANGED call
        \/ /\ e.addr = call.wallet /\ step' = (IF scheme = None THEN "scheme" ELSE "rules")
           /\ entry' = f /\ todo' = call.signers /\ UNCHANGED <<call, scheme>>
    BY <1>1 DEF NextEntry, Dated, Resolves, submission, Fails, Ends
  <1>3. /\ e \in Given /\ f.addr = e.addr /\ f.sigs = e.sigs /\ f.rules = e.rules
        /\ f.exp = IF e.exp # 0 THEN e.exp ELSE expiry
    BY <1>1, DatedEntry
  <1>4. call.wallet \in Wallets
    BY <1>1 DEF Staged, Before
  <1>5. /\ Covered(e)
        /\ (e.addr \in Wallets /\ DOMAIN e.sigs # {}) => e.exp # 0 /\ e.rules # None
        /\ e.addr \notin Wallets => e.rules = None
    BY <1>3, GivenEntries
  <1> HIDE DEF e, f
  <1>6. CASE step' \in {"next", "ended"}
    BY <1>6, ReadyAway DEF OwnSteps
  <1>7. CASE e.addr \in Accounts /\ step' = "account" /\ entry' = f /\ UNCHANGED call
    BY <1>3, <1>5, <1>7, SigningAssumption DEF Ready, OwnSteps
  <1>8. CASE /\ e.addr = call.wallet /\ step' = (IF scheme = None THEN "scheme" ELSE "rules")
             /\ entry' = f /\ todo' = call.signers /\ UNCHANGED <<call, scheme>>
    <2>1. Consistent(f)
      BY <1>3, <1>4, <1>5, <1>8 DEF Consistent, Covered
    <2>2. InHand'
      BY <1>3, <1>8, <2>1 DEF InHand, Consistent, Covered
    <2> QED
      BY <1>8, <2>2 DEF Ready
  <1> QED
    BY <1>2, <1>6, <1>7, <1>8

\* So do the other multi-signer steps.
LEMMA ReadyMulti ==
    ASSUME Ready, Staged, Scalars, Vetted,
           \/ SubmitDirectly \/ LatestLedger \/ NextEntry \/ NoMoreEntries \/ ResolveScheme
           \/ ResolveRulesOnce \/ AskPasskey \/ PasskeySigns \/ Seal \/ AskDelegate
           \/ EntryDone \/ AccountSigns \/ DelegateSigns
    PROVE  Ready'
  <1> USE DEF submission, work, env
  <1>1. CASE Fails
    BY <1>1, ReadyAway DEF Fails, Ends, OwnSteps
  <1>2. CASE SubmitDirectly \/ LatestLedger \/ NoMoreEntries \/ Seal \/ AskDelegate
             \/ EntryDone \/ AccountSigns \/ DelegateSigns
    BY <1>1, <1>2, ReadyAway
    DEF SubmitDirectly, LatestLedger, NoMoreEntries, Submits, Seal, AskDelegate, EntryDone,
        AccountSigns, DelegateSigns, OwnSteps
  <1>3. CASE ResolveScheme /\ ~Fails
    <2>1. /\ step = "scheme" /\ step' = "rules" /\ UNCHANGED <<call, entry, todo>>
          /\ scheme' # None
      BY <1>3, SchemeTypes DEF ResolveScheme
    <2>2. call.path = "multi" /\ InHand
      BY <2>1, PathOfStep DEF Ready, OwnSteps
    <2>3. InHand'
      BY <2>1, <2>2 DEF InHand, Consistent, Covered
    <2> QED
      BY <2>1, <2>3 DEF Ready
  <1>4. CASE ResolveRulesOnce /\ ~Fails
    <2>1. /\ step = "rules" /\ step' = "passkeys" /\ UNCHANGED <<call, entry, todo, scheme>>
      BY <1>4 DEF ResolveRulesOnce
    <2>2. call.path = "multi" /\ InHand
      BY <2>1, PathOfStep DEF Ready, OwnSteps
    <2>3. InHand'
      BY <2>1, <2>2 DEF InHand, Consistent, Covered
    <2> QED
      BY <2>1, <2>3 DEF Ready
  <1>5. CASE AskPasskey /\ ~Fails
    <2>1. /\ step = "passkeys" /\ step' = "prompt"
          /\ UNCHANGED <<call, entry, todo, scheme, rules>>
          /\ rules # None /\ RulesAgree(entry, rules)
      BY <1>5 DEF AskPasskey
    <2>2. call.path = "multi" /\ InHand
      BY <2>1, PathOfStep DEF Ready, OwnSteps
    <2>3. InHand'
      BY <2>1, <2>2 DEF InHand, Consistent, Covered, RulesAgree
    <2> QED
      BY <2>1, <2>2, <2>3 DEF Ready
  <1>6. CASE PasskeySigns /\ ~Fails
    <2>1. /\ step = "prompt" /\ step' = "passkeys" /\ call.path = "multi"
          /\ UNCHANGED <<call, scheme, rules>>
          /\ entry' = Upsert(entry, {asked}, Signature) /\ todo' = todo \ {asked}
      BY <1>6 DEF PasskeySigns, Others
    <2>2. InHand
      BY <2>1 DEF Ready, OwnSteps
    <2>3. IsEntry(entry) /\ asked \in Passkeys
      BY <2>1 DEF Vetted, Signable
    <2> DEFINE d == Signature
    <2>4. d.exp = entry.exp /\ d.rules = rules /\ d.scheme = scheme
      BY DEF Signature, Digest
    <2>5. asked \in Signers /\ d.rules \in RuleLists \cup {None}
      BY <2>3, <2>4 DEF Scalars, Signers
    <2> DEFINE f == Upsert(entry, {asked}, d)
    <2>6. entry' = f
      BY <2>1
    <2> HIDE DEF d
    <2>7. /\ entry'.exp = entry.exp /\ entry'.addr = entry.addr /\ entry'.rules = d.rules
          /\ DOMAIN entry'.sigs = DOMAIN entry.sigs \cup {asked}
          /\ entry'.sigs[asked] = d
          /\ \A s \in DOMAIN entry.sigs \ {asked} : entry'.sigs[s] = entry.sigs[s]
      <3>1. {asked} \in SUBSET Signers
        BY <2>5
      <3>2. Upserted(f, entry, {asked}, d)
        BY <2>3, <2>5, <3>1, Upserts
      <3> HIDE DEF f
      <3> QED
        BY <2>6, <3>2 DEF Upserted
    <2>8. Consistent(entry')
      BY <2>1, <2>2, <2>4, <2>7 DEF InHand, Consistent, Covered, RulesAgree
    <2>9. call.signers \cap Accounts \subseteq todo \ {asked}
      BY <2>2, <2>3, SigningAssumption DEF InHand
    <2>10. \A s \in (DOMAIN entry'.sigs \cap call.signers) \ todo' :
              entry'.sigs[s].scheme = scheme
      BY <2>1, <2>2, <2>4, <2>7 DEF InHand
    <2>11. InHand'
      BY <2>1, <2>2, <2>7, <2>8, <2>9, <2>10 DEF InHand, Consistent, Covered
    <2> QED
      BY <2>1, <2>11 DEF Ready
  <1> QED
    BY <1>1, <1>2, <1>3, <1>4, <1>5, <1>6, ReadyNext

\* No other step touches the entry at hand.
LEMMA ReadyElsewhere ==
    ASSUME Ready, Staged,
           \/ Call \/ Return \/ Environment \/ UNCHANGED vars
           \/ Friendbot \/ FundedAccount \/ SignTransfer \/ ResimSource \/ Resimulate
           \/ SignFeePayer \/ SendToRelayer \/ RelayerFails \/ SendToRpc \/ Poll
    PROVE  Ready'
  <1> USE DEF submission, work, env
  <1>1. CASE Call
    <2>1. CASE Begun
      <3>1. PICK c, es, s : IsStart(c, es, s) /\ Begin(c, es, s)
        BY <2>1 DEF Begun
      <3>2. step' = s /\ s \in Starts(c.path) /\ c.path \in Paths
        BY <3>1 DEF IsStart, IsCall, Begin
      <3>3. s \notin OwnSteps \cup {"lookup", "account"}
        BY <3>2 DEF Starts, Paths, OwnSteps
      <3> QED
        BY <3>2, <3>3, ReadyAway
    <2>2. CASE Headless
      BY <2>2, HeadlessSigns, ReadyAway DEF OwnSteps
    <2> QED
      BY <1>1, <2>1, <2>2, CallsStart DEF Staged
  <1>2. CASE Environment \/ UNCHANGED vars
    <2>1. UNCHANGED opVars \/ UNCHANGED <<call, step, left, entry, todo, rules, scheme>>
      BY <1>2
      DEF Environment, Connect, Hold, UpgradeElsewhere, Execute, Reject, vars
    <2>2. UNCHANGED <<call, step, entry, todo, rules, scheme>>
      BY <2>1 DEF opVars
    <2>3. Ready' = Ready
      BY <2>2 DEF Ready, InHand, Consistent, Covered, RulesAgree
    <2> QED
      BY <2>3
  <1>3. CASE Return \/ Friendbot \/ FundedAccount \/ SignTransfer \/ ResimSource \/ Resimulate
    <2>1. step' \in {"idle", "ended", "funded", "simulate", "source", "resim", "payer"}
      BY <1>3
      DEF Return, Friendbot, FundedAccount, SignTransfer, ResimSource, Resimulate, Fails, Ends
    <2> QED
      BY <2>1, ReadyAway DEF OwnSteps
  <1>4. CASE SignFeePayer \/ SendToRelayer \/ RelayerFails \/ SendToRpc \/ Poll
    <2>1. step' \in {"ended", "send", "poll"}
      BY <1>4
      DEF SignFeePayer, SendToRelayer, RelayerFails, SendToRpc, Poll, Unanswered, Leaves, Fails, Ends
    <2> QED
      BY <2>1, ReadyAway DEF OwnSteps
  <1> QED
    BY <1>1, <1>2, <1>3, <1>4

\* So the signatures on the entry at hand always cover it.
LEMMA AlwaysReady == Spec => []Ready
  <1>1. Init => Ready
    BY DEF Init, Ready, OwnSteps
  <1>2. Staged /\ Scalars /\ Vetted /\ Ready /\ [Next]_vars => Ready'
    BY ReadySingle, ReadyMulti, ReadyElsewhere DEF Next, Proceed
  <1> QED
    BY <1>1, <1>2, AlwaysStaged, AlwaysScalars, AlwaysVetted, PTL DEF Spec

-----------------------------------------------------------------------------
(* The entries that are signed. *)

\* An account has signed for what an entry names it for.
Backs(f, e, a) ==
    /\ f.addr = a /\ f.exp = e.exp /\ a \in DOMAIN f.sigs
    /\ f.binds = [wallet |-> e.addr, digest |-> e.sigs[a]]
Backed(e, a) == \E f \in Range(signed) : Backs(f, e, a)
Awaited(e, a) == step \in {"delegates", "delegate"} /\ e = entry /\ a \in todo

UnderScheme(e) ==
    /\ scheme # None
    /\ \A s \in call.signers \cap DOMAIN e.sigs : e.sigs[s].scheme = scheme
Named(e) == DOMAIN e.sigs \cap call.signers \cap Accounts

\* The operation has not failed, or only after it sent what it had signed.
Alive == outcome = "none" \/ Sent

Done ==
    /\ call.path \notin {"sign", "entry"} => \A e \in Range(signed) : Covered(e)
    /\ call.path = "multi" =>
        \A e \in Range(signed) : e.addr = call.wallet =>
            /\ UnderScheme(e)
            /\ Alive => \A a \in Named(e) : Backed(e, a) \/ Awaited(e, a)

\* With nothing signed there is nothing to cover.
LEMMA DoneEmpty == signed' = << >> => Done'
  BY EmptyList DEF Done

\* Most steps sign nothing.
LEMMA DoneStays ==
    ASSUME Done, outcome = "none", UNCHANGED <<signed, call, scheme>>,
           step \notin {"delegates", "delegate"} \/ ~Alive'
    PROVE  Done'
  BY DEF Done, Alive, UnderScheme, Named, Backed, Backs, Awaited

\* An entry that is not the wallet's is signed.
LEMMA DoneOther ==
    ASSUME Done, Vetted, outcome = "none", step \notin {"delegates", "delegate"},
           UNCHANGED <<call, scheme>>, NEW e, signed' = Append(signed, e),
           call.path \notin {"sign", "entry"} => Covered(e),
           call.path = "multi" => e.addr # call.wallet
    PROVE  Done'
  <1>1. Range(signed') = Range(signed) \cup {e}
    BY Appended DEF Vetted
  <1> QED
    BY <1>1 DEF Done, Alive, UnderScheme, Named, Backed, Backs, Awaited

\* The single-signer path adds an entry only when its signature covers it.
LEMMA DoneSingle ==
    ASSUME Done, Ready, Vetted, Staged, Scalars, Honest,
           \/ ResolveAmount \/ Build \/ SkipEntry \/ ResolveRules \/ CalculateExpiration
           \/ LookUp \/ Prompt \/ AllSigned
    PROVE  Done'
  <1> USE DEF submission, work, env
  <1>1. /\ outcome = "none"
        /\ step \in {"amount", "build", "entry", "expire", "lookup", "prompt"}
    BY DEF ResolveAmount, Build, SkipEntry, ResolveRules, CalculateExpiration, LookUp, Prompt,
           AllSigned, Honest
  <1>2. CASE Build
    BY <1>2, DoneEmpty DEF Build, Fails, Ends, Vetted
  <1>3. CASE ResolveAmount \/ SkipEntry \/ ResolveRules \/ CalculateExpiration \/ AllSigned
    BY <1>1, <1>3, DoneStays
    DEF ResolveAmount, SkipEntry, ResolveRules, CalculateExpiration, Prepare, AllSigned,
        Submits, Fails, Ends
  <1>4. CASE Fails
    BY <1>1, <1>4, DoneStays DEF Fails, Ends
  <1>5. CASE LookUp /\ ~Fails
    <2>1. step = "lookup" /\ UNCHANGED <<signed, call>>
      BY <1>5 DEF LookUp
    <2>2. call.path # "multi"
      BY <2>1, PathOfStep
    <2> QED
      BY <2>1, <2>2 DEF Done
  <1>6. CASE Prompt /\ ~Fails
    <2> DEFINE d == Signature
               f == Upsert(entry, {asked}, d)
    <2>1. /\ step = "prompt" /\ signed' = Append(signed, f) /\ UNCHANGED <<call, scheme>>
          /\ call.path # "multi"
      BY <1>6 DEF Prompt
    <2>2. IsEntry(entry) /\ asked \in Passkeys
      BY <2>1 DEF Vetted, Signable
    <2>3. {asked} \in SUBSET Signers /\ d.rules \in RuleLists \cup {None}
      BY <2>2 DEF Scalars, Signers, Signature, Digest
    <2>4. d.exp = entry.exp
      BY DEF Signature, Digest
    <2> HIDE DEF d
    <2>5. Upserted(f, entry, {asked}, d)
      BY <2>2, <2>3, Upserts
    <2> HIDE DEF f
    <2>6. call.path \notin {"sign", "entry"} => Covered(f)
      <3>1. call.path \notin {"sign", "entry"} => DOMAIN entry.sigs = {}
        BY <2>1, PathOfStep DEF Ready
      <3> QED
        BY <2>4, <2>5, <3>1 DEF Upserted, Covered
    <2> QED
      BY <1>1, <2>1, <2>6, DoneOther
  <1> QED
    BY <1>2, <1>3, <1>4, <1>5, <1>6

\* An entry the multi-signer path only passes on was covered before.
LEMMA DoneNext ==
    ASSUME Done, Vetted, Staged, Honest, NextEntry
    PROVE  Done'
  <1> USE DEF submission
  <1> DEFINE e == Head(left)
  <1>1. step = "next" /\ left # << >> /\ outcome = "none"
    BY DEF NextEntry, Honest
  <1>2. UNCHANGED <<call, scheme>>
    BY DEF NextEntry, Fails, Ends, work
  <1>3. UNCHANGED signed \/ (e.cred = "source" /\ signed' = Append(signed, e))
    BY DEF NextEntry, Fails, Ends, work
  <1>4. CASE UNCHANGED signed
    BY <1>1, <1>2, <1>4, DoneStays
  <1>5. CASE e.cred = "source" /\ signed' = Append(signed, e)
    <2>1. e \in Given /\ Covered(e) /\ e.addr \notin Wallets
      BY <1>1, <1>5, HeadGiven, GivenEntries
    <2>2. call.wallet \in Wallets
      BY <1>1 DEF Staged, Before
    <2> HIDE DEF e
    <2> QED
      BY <1>1, <1>2, <1>5, <2>1, <2>2, DoneOther
  <1> QED
    BY <1>3, <1>4, <1>5

\* An account's own entry is covered by its signature.
LEMMA DoneAccount ==
    ASSUME Done, Ready, Vetted, Staged, Honest, AccountSigns
    PROVE  Done'
  <1> DEFINE d == Digest(entry.exp, None, None)
             f == [entry EXCEPT !.sigs = By(asked, d)]
  <1>1. step = "account" /\ outcome = "none"
    BY DEF AccountSigns, Honest
  <1>2. CASE Fails
    BY <1>1, <1>2, DoneStays DEF Fails, Ends, work, Alive, Honest, Sent
  <1>3. CASE ~Fails
    <2>1. signed' = Append(signed, f) /\ UNCHANGED <<call, scheme>>
      BY <1>3 DEF AccountSigns
    <2>2. IsEntry(entry) /\ entry.rules = None /\ entry.addr \notin Wallets
      BY <1>1 DEF Vetted, Signable, Ready
    <2>3. call.wallet \in Wallets
      BY <1>1 DEF Staged, Handling
    <2>4. d.exp = entry.exp /\ d.rules = None
      BY DEF Digest
    <2> HIDE DEF d
    <2>5. /\ f.addr = entry.addr /\ f.exp = entry.exp /\ f.rules = None
          /\ \A s \in DOMAIN f.sigs : f.sigs[s] = d
      BY <2>2 DEF IsEntry, By
    <2> HIDE DEF f
    <2>6. Covered(f)
      BY <2>4, <2>5 DEF Covered
    <2> QED
      BY <1>1, <2>1, <2>2, <2>3, <2>5, <2>6, DoneOther
  <1> QED
    BY <1>2, <1>3

\* A sealed entry is covered, and its accounts have still to be asked.
LEMMA DoneSeal ==
    ASSUME Done, Ready, Vetted, Staged, Scalars, Honest, Seal
    PROVE  Done'
  <1> USE DEF submission
  <1> DEFINE ids == IF entry.rules = None THEN rules ELSE entry.rules
             d == Digest(entry.exp, ids, scheme)
             f == Upsert(entry, todo, d)
  <1>1. step = "passkeys" /\ outcome = "none"
    BY DEF Seal, Honest
  <1>2. CASE Fails
    BY <1>1, <1>2, DoneStays DEF Fails, Ends, work, Alive, Honest, Sent
  <1>3. CASE ~Fails
    <2>1. /\ signed' = Append(signed, f) /\ entry' = f /\ todo' = todo \cap Accounts
          /\ step' = "delegates" /\ UNCHANGED <<call, scheme, outcome>>
      BY <1>3 DEF Seal
    <2>2. call.path = "multi" /\ InHand /\ IsEntry(entry)
      BY <1>1, PathOfStep DEF Ready, OwnSteps, Vetted, Signable
    <2>3. d.exp = entry.exp /\ d.rules = ids /\ d.scheme = scheme
      BY DEF Digest
    <2>4. todo \in SUBSET Signers /\ d.rules \in RuleLists \cup {None}
      BY <2>2, <2>3 DEF Scalars, IsEntry
    <2> HIDE DEF d
    <2>5. Upserted(f, entry, todo, d)
      BY <2>2, <2>4, Upserts
    <2> HIDE DEF f
    <2>6. Covered(f)
      BY <2>2, <2>3, <2>5 DEF Upserted, InHand, Consistent, Covered
    <2>7. scheme # None /\ \A s \in call.signers \cap DOMAIN f.sigs : f.sigs[s].scheme = scheme
      BY <1>1, <2>2, <2>3, <2>5 DEF Upserted, InHand
    <2>8. \A a \in Named(f) : a \in todo \cap Accounts
      BY <2>2 DEF Named, InHand
    <2>9. Range(signed') = Range(signed) \cup {f}
      BY <2>1, Appended DEF Vetted
    <2>10. \A e \in Range(signed') : Covered(e)
      BY <2>2, <2>6, <2>9 DEF Done
    <2>11. ASSUME NEW e \in Range(signed'), e.addr = call.wallet
           PROVE  UnderScheme(e)' /\ \A a \in Named(e)' : (Backed(e, a) \/ Awaited(e, a))'
      <3>1. CASE e = f
        BY <2>1, <2>7, <2>8, <3>1 DEF UnderScheme, Named, Awaited
      <3>2. CASE e \in Range(signed)
        <4>1. UnderScheme(e) /\ \A a \in Named(e) : Backed(e, a)
          BY <1>1, <2>2, <2>11, <3>2 DEF Done, Alive, Awaited
        <4> QED
          BY <2>1, <2>9, <4>1 DEF UnderScheme, Named, Backed, Backs
      <3> QED
        BY <2>9, <3>1, <3>2
    <2> QED
      BY <2>1, <2>10, <2>11 DEF Done, Covered
  <1> QED
    BY <1>2, <1>3

\* A delegated account that signs backs the sealed entry.
LEMMA DoneDelegate ==
    ASSUME Done, Vetted, Staged, Honest, DelegateSigns
    PROVE  Done'
  <1> DEFINE f == DelegatedEntry(asked)
             d == Digest(entry.exp, None, None)
  <1>1. step = "delegate" /\ outcome = "none"
    BY DEF DelegateSigns, Honest
  <1>2. CASE Fails
    BY <1>1, <1>2, DoneStays DEF Fails, Ends, work, Alive, Honest, Sent
  <1>3. CASE ~Fails
    <2>1. /\ signed' = Append(signed, f) /\ todo' = todo \ {asked} /\ step' = "delegates"
          /\ UNCHANGED <<call, scheme, outcome, entry>>
      BY <1>3 DEF DelegateSigns, Others, submission
    <2>2. IsEntry(entry) /\ asked \in Accounts /\ call.path = "multi"
      BY <1>1, PathOfStep DEF Vetted, Signable
    <2>3. call.wallet \in Wallets /\ asked # call.wallet
      BY <1>1, <2>2, SigningAssumption DEF Staged, Before
    <2>4. entry.exp \in Expirations \cup {0}
      BY <2>2 DEF IsEntry
    <2>5. /\ f.exp = entry.exp /\ f.addr = asked /\ f.rules = None
          /\ f.binds = [wallet |-> entry.addr, digest |-> entry.sigs[asked]]
          /\ DOMAIN f.sigs = {asked} /\ f.sigs[asked] = d
      BY <2>2, <2>4, AccountEntryFields DEF DelegatedEntry
    <2>6. d.exp = entry.exp /\ d.rules = None
      BY DEF Digest
    <2> HIDE DEF f, d
    <2>7. Covered(f)
      BY <2>5, <2>6 DEF Covered
    <2>8. Range(signed') = Range(signed) \cup {f}
      BY <2>1, Appended DEF Vetted
    <2>9. \A e \in Range(signed') : Covered(e)
      BY <2>2, <2>7, <2>8 DEF Done
    <2>10. ASSUME NEW e \in Range(signed'), e.addr = call.wallet
           PROVE  UnderScheme(e)' /\ \A a \in Named(e)' : (Backed(e, a) \/ Awaited(e, a))'
      <3>1. e \in Range(signed)
        BY <2>3, <2>5, <2>8, <2>10
      <3>2. UnderScheme(e) /\ \A a \in Named(e) : Backed(e, a) \/ Awaited(e, a)
        BY <1>1, <2>2, <2>10, <3>1 DEF Done, Alive
      <3>3. UnderScheme(e)' /\ Named(e)' = Named(e)
        BY <2>1, <3>2 DEF UnderScheme, Named
      <3>4. ASSUME NEW a \in Named(e)
            PROVE  (Backed(e, a) \/ Awaited(e, a))'
        <4>1. CASE Backed(e, a)
          BY <2>8, <4>1 DEF Backed, Backs
        <4>2. CASE Awaited(e, a) /\ a # asked
          BY <2>1, <4>2 DEF Awaited
        <4>3. CASE Awaited(e, a) /\ a = asked
          <5>1. Backs(f, e, a)
            BY <2>5, <4>3 DEF Awaited, Backs
          <5> QED
            BY <2>8, <5>1 DEF Backed, Backs
        <4> QED
          BY <3>2, <4>1, <4>2, <4>3
      <3> QED
        BY <3>3, <3>4
    <2> QED
      BY <2>1, <2>9, <2>10 DEF Done, Covered
  <1> QED
    BY <1>2, <1>3

\* The multi-signer path keeps what is signed covered and backed.
LEMMA DoneMulti ==
    ASSUME Done, Ready, Vetted, Staged, Scalars, Honest,
           \/ SubmitDirectly \/ LatestLedger \/ NextEntry \/ NoMoreEntries \/ ResolveScheme
           \/ ResolveRulesOnce \/ AskPasskey \/ PasskeySigns \/ Seal \/ AskDelegate
           \/ EntryDone \/ AccountSigns \/ DelegateSigns
    PROVE  Done'
  <1> USE DEF submission, work, env
  <1>1. CASE SubmitDirectly \/ LatestLedger \/ NoMoreEntries \/ ResolveRulesOnce
             \/ AskPasskey \/ PasskeySigns
    <2>1. step \notin {"delegates", "delegate", "ended"} /\ UNCHANGED <<signed, call, scheme>>
      BY <1>1
      DEF SubmitDirectly, LatestLedger, NoMoreEntries, Submits, ResolveRulesOnce, AskPasskey,
          PasskeySigns, Fails, Ends
    <2> QED
      BY <2>1, DoneStays DEF Honest
  <1>2. CASE ResolveScheme
    <2>1. step = "scheme" /\ UNCHANGED <<signed, call>> /\ outcome = "none"
      BY <1>2 DEF ResolveScheme, Fails, Ends, Honest
    <2>2. scheme = None
      BY <2>1, PathOfStep DEF Ready, OwnSteps, InHand
    <2>3. call.path = "multi" => \A e \in Range(signed) : e.addr # call.wallet
      BY <2>2 DEF Done, UnderScheme
    <2> QED
      BY <2>1, <2>3 DEF Done
  <1>3. CASE AskDelegate \/ EntryDone
    <2>1. CASE Fails
      BY <1>3, <2>1, DoneStays DEF AskDelegate, EntryDone, Honest, Fails, Ends, Alive, Sent
    <2>2. CASE ~Fails
      <3>1. /\ step = "delegates" /\ UNCHANGED <<signed, call, scheme, outcome, todo>>
            /\ \/ step' = "delegate" /\ UNCHANGED entry
               \/ todo = {}
        BY <1>3, <2>2 DEF AskDelegate, EntryDone
      <3>2. ASSUME NEW e, NEW a, Awaited(e, a)
            PROVE  Awaited(e, a)'
        BY <3>1, <3>2 DEF Awaited
      <3>3. Alive
        BY <3>1 DEF Honest, Alive
      <3> QED
        BY <3>1, <3>2, <3>3 DEF Done, UnderScheme, Named, Backed, Backs
    <2> QED
      BY <2>1, <2>2
  <1> QED
    BY <1>1, <1>2, <1>3, DoneNext, DoneAccount, DoneSeal, DoneDelegate

\* signAuthEntry returns an entry that its signature covers.
LEMMA DoneHeadless ==
    ASSUME Done, Headless
    PROVE  Done'
  <1>1. call'.path = "headless" /\ (signed' = << >> \/ HeadlessSigned)
    BY HeadlessSigns
  <1>2. CASE HeadlessSigned
    <2>1. PICK e \in Given, keys \in SUBSET Keys, ids \in RuleLists, s \in Range(SchemeOf),
               x \in Expirations \cup {0} :
            /\ RulesAgree(e, ids) /\ ~Uncovers(e, x)
            /\ signed' = WithKeys(e, x, keys, ids, s)
      BY <1>2 DEF HeadlessSigned
    <2> DEFINE d == Digest(x, ids, s)
               f == [e EXCEPT !.exp = x]
               g == Upsert(f, keys, d)
    <2>2. /\ IsEntry(e) /\ Covered(e)
          /\ (e.addr \in Wallets /\ DOMAIN e.sigs # {}) => e.rules # None
      BY GivenEntries
    <2>3. IsEntry(f) /\ f.exp = x /\ f.rules = e.rules /\ f.sigs = e.sigs
      BY <2>2, ExpirationSet
    <2>4. d.exp = x /\ d.rules = ids /\ keys \in SUBSET Signers
      BY DEF Digest, Signers
    <2>5. signed' = <<g>>
      BY <2>1 DEF WithKeys
    <2> HIDE DEF d, f
    <2>6. Upserted(g, f, keys, d)
      BY <2>3, <2>4, Upserts
    <2> HIDE DEF g
    <2>7. Covered(g)
      BY <2>1, <2>2, <2>3, <2>4, <2>6 DEF Upserted, Covered, RulesAgree, Uncovers
    <2>8. Range(signed') = {g}
      BY <2>5, OneEntry
    <2> QED
      BY <1>1, <2>7, <2>8 DEF Done
  <1> QED
    BY <1>1, <1>2, DoneEmpty

\* No other step touches what is signed.
LEMMA DoneElsewhere ==
    ASSUME Done, Vetted, Staged, Honest,
           \/ Call \/ Return \/ Environment \/ UNCHANGED vars
           \/ Friendbot \/ FundedAccount \/ SignTransfer \/ ResimSource \/ Resimulate
           \/ SignFeePayer \/ SendToRelayer \/ RelayerFails \/ SendToRpc \/ Poll
    PROVE  Done'
  <1> USE DEF submission, work, env
  <1>1. CASE Call
    <2>1. Begun => signed' = << >>
      BY DEF Begun, Begin, Vetted
    <2> QED
      BY <1>1, <2>1, CallsStart, DoneEmpty, DoneHeadless DEF Staged
  <1>2. CASE Environment \/ UNCHANGED vars
    <2>1. /\ UNCHANGED <<call, step, entry, todo, scheme, signed, outcome, hash>>
          /\ tx' = tx \/ tx = "sent"
      BY <1>2
      DEF Environment, Connect, Hold, UpgradeElsewhere, Execute, Reject, vars, opVars
    <2>2. Alive' => Alive
      BY <2>1 DEF Alive, Sent
    <2> QED
      BY <2>1, <2>2 DEF Done, UnderScheme, Named, Backed, Backs, Awaited
  <1>3. CASE Return
    BY <1>3, DoneEmpty DEF Return
  <1>4. CASE SignTransfer /\ ~Fails
    <2>1. PICK x \in Expirations : step = "simulate" /\ UNCHANGED call
                                   /\ signed' = <<AccountEntry(Temp, x, None)>>
      BY <1>4 DEF SignTransfer
    <2> DEFINE e == AccountEntry(Temp, x, None)
    <2>2. Covered(e)
      BY DEF Covered, AccountEntry, By, Digest
    <2> HIDE DEF e
    <2>3. Range(signed') = {e}
      BY <2>1, OneEntry DEF e
    <2>4. call.path = "fund"
      BY <2>1, PathOfStep
    <2> QED
      BY <2>1, <2>2, <2>3, <2>4 DEF Done
  <1>5. CASE \/ Friendbot \/ FundedAccount \/ ResimSource \/ Resimulate \/ SignFeePayer
             \/ SendToRelayer \/ RelayerFails \/ SendToRpc \/ Poll \/ (SignTransfer /\ Fails)
    <2>1. step \in {"friendbot", "funded", "simulate", "source", "resim", "payer", "send",
                    "poll"}
      BY <1>5
      DEF Friendbot, FundedAccount, ResimSource, Resimulate, SignFeePayer, SendToRelayer,
          RelayerFails, SendToRpc, Poll, SignTransfer
    <2>2. UNCHANGED <<signed, call, scheme>>
      BY <1>5
      DEF Friendbot, FundedAccount, ResimSource, Resimulate, SignFeePayer, SendToRelayer,
          RelayerFails, SendToRpc, Poll, Unanswered, Leaves, Fails, Ends
    <2> QED
      BY <2>1, <2>2, DoneStays DEF Honest
  <1> QED
    BY <1>1, <1>2, <1>3, <1>4, <1>5

\* So what is signed is covered and backed throughout.
LEMMA AlwaysDone == Spec => []Done
  <1>1. Init => Done
    BY EmptyList DEF Init, NoCall, Done
  <1>2. Staged /\ Scalars /\ Vetted /\ Honest /\ Ready /\ Done /\ [Next]_vars => Done'
    BY DoneSingle, DoneMulti, DoneElsewhere DEF Next, Proceed
  <1> QED
    BY <1>1, <1>2, AlwaysStaged, AlwaysScalars, AlwaysVetted, AlwaysHonest, AlwaysReady, PTL
    DEF Spec

\* Only an operation that submits has a transaction sent.
Submitted == Sent => call.path \in {"submit", "multi", "fund"}

\* What is sent is what was signed.
LEMMA AlwaysSubmitted == Spec => []Submitted
  <1>1. Init => Submitted
    BY DEF Init, Submitted, Sent
  <1>2. Staged /\ Honest /\ Submitted /\ [Next]_vars => Submitted'
    <2> SUFFICES ASSUME Staged, Honest, Submitted, [Next]_vars
                 PROVE  Submitted'
      OBVIOUS
    <2> USE DEF submission, work, env
    <2>1. CASE step \notin {"poll", "ended", "send"} /\ UNCHANGED <<tx, hash>>
      BY <2>1 DEF Submitted, Sent, Honest
    <2>2. CASE Call
      <3>1. step = "idle" /\ UNCHANGED <<tx, hash>>
        <4>1. CASE Begun
          BY <4>1 DEF Begun, Begin
        <4>2. CASE Headless
          BY <4>2 DEF Headless
        <4> QED
          BY <2>2, <4>1, <4>2, CallsStart DEF Staged
      <3> QED
        BY <2>1, <3>1
    <2>3. CASE Return \/ Environment \/ UNCHANGED vars
      BY <2>3
      DEF Return, Environment, Connect, Hold, UpgradeElsewhere, Execute, Reject, vars, opVars,
          Submitted, Sent
    <2>4. CASE RelayerFails \/ SendToRelayer \/ SendToRpc \/ Poll
      <3>1. step \in {"send", "poll"} /\ UNCHANGED call
        BY <2>4
        DEF RelayerFails, SendToRelayer, SendToRpc, Poll, Unanswered, Leaves, Fails, Ends
      <3> QED
        BY <3>1, PathOfStep DEF Submitted, Submission
    <2>5. CASE \/ ResolveAmount \/ Build \/ SkipEntry \/ ResolveRules \/ CalculateExpiration
               \/ LookUp \/ Prompt \/ AllSigned \/ SubmitDirectly \/ LatestLedger
      BY <2>1, <2>5
      DEF ResolveAmount, Build, SkipEntry, ResolveRules, CalculateExpiration, Prepare, LookUp,
          Prompt, AllSigned, Submits, SubmitDirectly, LatestLedger, Fails, Ends
    <2>6. CASE \/ NextEntry \/ NoMoreEntries \/ ResolveScheme \/ ResolveRulesOnce
               \/ AskPasskey \/ PasskeySigns \/ Seal \/ AskDelegate \/ EntryDone
      BY <2>1, <2>6
      DEF NextEntry, NoMoreEntries, Submits, ResolveScheme, ResolveRulesOnce, AskPasskey,
          PasskeySigns, Seal, AskDelegate, EntryDone, Fails, Ends
    <2>7. CASE \/ AccountSigns \/ DelegateSigns \/ Friendbot \/ FundedAccount \/ SignTransfer
               \/ ResimSource \/ Resimulate \/ SignFeePayer
      BY <2>1, <2>7
      DEF AccountSigns, DelegateSigns, Friendbot, FundedAccount, SignTransfer, ResimSource,
          Resimulate, SignFeePayer, Fails, Ends
    <2> QED
      BY <2>2, <2>3, <2>4, <2>5, <2>6, <2>7 DEF Next, Proceed
  <1> QED
    BY <1>1, <1>2, AlwaysStaged, AlwaysHonest, PTL DEF Spec

\* Whatever is submitted, and whatever signAuthEntryWithSigners returns, its
\* signatures are over the expiration and the rules its entry ends up with, those
\* it had before included (submitWithSelectedSigners, signAuthEntryWithSigners).
THEOREM SubmittedCovered == Spec => []SignaturesCoverTheirEntry
  <1>1. Submitted /\ Done => SignaturesCoverTheirEntry
    <2> SUFFICES ASSUME Submitted, Done, Sent \/ call.path = "headless"
                 PROVE  \A e \in Range(signed) : Covered(e)
      BY DEF SignaturesCoverTheirEntry
    <2> QED
      BY DEF Submitted, Done
  <1> QED
    BY <1>1, AlwaysSubmitted, AlwaysDone, PTL

\* One multi-signer operation signs for its wallet under one digest scheme, even
\* if the wallet is upgraded between two of its signatures (authDigestScheme ??=
\* in submitWithSelectedSigners).
THEOREM OneScheme == Spec => []OneSchemePerOperation
  <1>1. Done => OneSchemePerOperation
    BY DEF Done, UnderScheme, OneSchemePerOperation
  <1> QED
    BY <1>1, AlwaysDone, PTL

\* No payload is submitted that names a delegated signer who has not signed an
\* entry of its own for this very payload, until the same ledger
\* (submitWithSelectedSigners).
THEOREM DelegatesBacked == Spec => []DelegatedSignersAreBacked
  <1>1. Honest /\ Done => DelegatedSignersAreBacked
    <2> SUFFICES ASSUME Honest, Done, Sent, call.path = "multi",
                        NEW e \in Range(signed), e.addr = call.wallet,
                        NEW a \in Named(e)
                 PROVE  Backed(e, a)
      BY DEF DelegatedSignersAreBacked, Named, Backed, Backs
    <2>1. Alive /\ step \notin {"delegates", "delegate"}
      BY DEF Alive, Honest
    <2> QED
      BY <2>1 DEF Done, Awaited
  <1> QED
    BY <1>1, AlwaysHonest, AlwaysDone, PTL

-----------------------------------------------------------------------------
(* How long it takes.                                                      *)

\* What lies at most ahead of an operation before it is done with an entry, or
\* with all: as many prompts, requests and attempts.
Ahead ==
    LET all == 2 * Cardinality(call.signers)
        some == 2 * Cardinality(todo)
        P == PollAttempts
    IN  CASE step = "amount"    -> P + 11 + all
          [] step = "build"     -> P + 10 + all
          [] step = "ledger"    -> P + 9 + all
          [] step = "delegates" -> P + 9 + all + some
          [] step = "delegate"  -> P + 8 + all + some
          [] step = "next"      -> P + 8 + all
          [] step = "scheme"    -> P + 7 + all
          [] step = "rules"     -> P + 6 + all
          [] step = "entry"     -> P + 8 + some
          [] step = "expire"    -> P + 7 + some
          [] step = "lookup"    -> P + 6 + some
          [] step = "passkeys"  -> P + 5 + some
          [] step = "prompt"    -> P + 4 + some
          [] step = "account"   -> P + 5
          [] step = "friendbot" -> P + 6 + LookupAttempts
          [] step = "funded"    -> P + 5 + LookupAttempts - tries
          [] step \in {"simulate", "direct"} -> P + 5
          [] step = "source"    -> P + 4
          [] step = "resim"     -> P + 3
          [] step = "payer"     -> P + 2
          [] step = "send"      -> P + 1
          [] step = "poll"      -> P - tries
          [] step \in {"idle", "ended"} -> 0

\* An entry is done, or something of what lies ahead.
Nearer ==
    \/ Len(left') < Len(left)
    \/ left' = left /\ Ahead' < Ahead

\* Every answer an operation waits for brings it nearer to its end, and nothing
\* that others do meanwhile throws it back.
Bounded ==
    /\ Ahead \in Nat
    /\ Proceed \/ AccountSigns \/ DelegateSigns => Nearer
    /\ Environment => UNCHANGED <<left, Ahead>>

\* The signers asked are some of those selected, attempts are counted up to
\* their bounds.
Counts ==
    /\ step \notin {"idle", "ended"} => IsFiniteSet(call.signers)
    /\ IF step = "idle" THEN todo = {} ELSE todo \subseteq call.signers
    /\ step = "delegate" \/ (step = "prompt" /\ call.path = "multi") => asked \in todo
    /\ step = "poll" => tries < PollAttempts
    /\ step = "funded" => tries < LookupAttempts

\* A set the operation goes through is finite, and shrinks by what is taken out.
LEMMA TodoCounted ==
    ASSUME Counts, step \notin {"idle", "ended"}
    PROVE  /\ IsFiniteSet(call.signers) /\ Cardinality(call.signers) \in Nat
           /\ IsFiniteSet(todo) /\ Cardinality(todo) \in Nat
           /\ Cardinality(todo) <= Cardinality(call.signers)
           /\ \A s \in todo : /\ Cardinality(todo \ {s}) = Cardinality(todo) - 1
                              /\ Cardinality(todo) >= 1
  <1>1. IsFiniteSet(call.signers) /\ todo \in SUBSET call.signers
    BY DEF Counts
  <1>2. /\ IsFiniteSet(todo) /\ Cardinality(todo) \in Nat
        /\ Cardinality(call.signers) \in Nat
        /\ Cardinality(todo) <= Cardinality(call.signers)
    BY <1>1, FS_Subset, FS_CardinalityType
  <1>3. ASSUME NEW s \in todo
        PROVE  Cardinality(todo \ {s}) = Cardinality(todo) - 1 /\ Cardinality(todo) >= 1
    <2>1. Cardinality(todo \ {s}) = Cardinality(todo) - 1 /\ Cardinality(todo \ {s}) \in Nat
      BY <1>2, FS_RemoveElement, FS_CardinalityType
    <2> QED
      BY <1>2, <2>1
  <1> QED
    BY <1>1, <1>2, <1>3

\* The signers of a call are the selected ones, or none.
LEMMA CountsCalls == Counts /\ Call => Counts'
  <1> SUFFICES ASSUME Counts, Call PROVE Counts'
    OBVIOUS
  <1>1. ASSUME NEW path, NEW t, NEW p, NEW x, NEW who, NEW es, NEW s, IsFiniteSet(who),
               s \in {"entry", "amount", "build", "direct", "ledger", "friendbot", "ended"},
               Begin(Calls(path, t, p, x, who), es, s)
        PROVE  Counts'
    <2>1. call'.signers = who /\ step' = s /\ todo' = todo /\ todo = {}
      BY <1>1, CallsFields DEF Begin, work, Counts
    <2> QED
      BY <1>1, <2>1 DEF Counts
  <1>2. \A s : IfConnected(s) \in {"ended", s}
    BY DEF IfConnected
  <1>3. IsFiniteSet({}) /\ \A who \in Selections : IsFiniteSet(who)
    BY FS_EmptySet, SigningAssumption
  <1>4. CASE SignAndSubmit
    BY <1>1, <1>2, <1>3, <1>4 DEF SignAndSubmit
  <1>5. CASE Sign
    BY <1>1, <1>2, <1>3, <1>5 DEF Sign
  <1>6. CASE SignAuthEntry
    BY <1>1, <1>2, <1>3, <1>6 DEF SignAuthEntry
  <1>7. CASE Headless
    <2>1. step' = "ended" /\ todo' = todo /\ todo = {}
      BY <1>7 DEF Headless, Counts
    <2> QED
      BY <2>1 DEF Counts
  <1>8. CASE Transfer
    BY <1>1, <1>2, <1>3, <1>8 DEF Transfer
  <1>9. CASE ExecuteAndSubmit
    BY <1>1, <1>2, <1>3, <1>9 DEF ExecuteAndSubmit
  <1>10. CASE Upgrade
    BY <1>1, <1>2, <1>3, <1>10 DEF Upgrade
  <1>11. CASE SubmitWithSigners
    BY <1>1, <1>3, <1>11 DEF SubmitWithSigners
  <1>12. CASE SubmitForRule
    <2>1. PICK t \in Simulated, signers \in Selections \cup {{p} : p \in Passkeys} :
            LET who == BuildSelectedSigners(signers, session.passkey)
            IN  IF NeedsMultiSigner(signers)
                THEN Begin(Calls("multi", t, None, 0, who), t.entries,
                           IF CanSign(who) THEN "ledger" ELSE "ended")
                ELSE Begin(Calls("submit", t, None, 0, {}), t.entries, IfConnected("entry"))
      BY <1>12 DEF SubmitForRule
    <2> DEFINE who == BuildSelectedSigners(signers, session.passkey)
    <2>2. IsFiniteSet(who)
      <3>1. IsFiniteSet(signers)
        BY <1>3, FS_Singleton
      <3>2. who \in SUBSET signers
        BY DEF BuildSelectedSigners
      <3> QED
        BY <3>1, <3>2, FS_Subset
    <2> HIDE DEF who
    <2>3. \/ Begin(Calls("multi", t, None, 0, who), t.entries, "ledger")
          \/ Begin(Calls("multi", t, None, 0, who), t.entries, "ended")
          \/ Begin(Calls("submit", t, None, 0, {}), t.entries, IfConnected("entry"))
      BY <2>1 DEF who
    <2> QED
      BY <1>1, <1>2, <1>3, <2>2, <2>3
  <1>13. CASE TransferWithSigners
    BY <1>1, <1>2, <1>3, <1>13 DEF TransferWithSigners
  <1>14. CASE FundWallet
    BY <1>1, <1>2, <1>3, <1>14 DEF FundWallet
  <1> QED
    BY <1>4, <1>5, <1>6, <1>7, <1>8, <1>9, <1>10, <1>11, <1>12, <1>13, <1>14 DEF Call

\* Most steps ask nobody, and leave those to ask as they are.
LEMMA CountsStay ==
    ASSUME Counts, step \notin {"idle", "ended"}, step' # "idle",
           call'.signers = call.signers, todo' = todo,
           step' = "delegate" \/ (step' = "prompt" /\ call'.path = "multi") => asked' \in todo,
           step' = "poll" => tries' < PollAttempts,
           step' = "funded" => tries' < LookupAttempts
    PROVE  Counts'
  BY DEF Counts

\* The steps of the single-signer path.
LEMMA CountsSingle ==
    ASSUME Counts, Staged,
           \/ ResolveAmount \/ Build \/ SkipEntry \/ ResolveRules \/ CalculateExpiration
           \/ LookUp \/ Prompt \/ AllSigned
    PROVE  Counts'
  <1> USE DEF Fails, Ends, submission, work, env
  <1>1. CASE ResolveAmount
    BY <1>1, CountsStay DEF ResolveAmount
  <1>2. CASE Build
    <2>1. /\ step = "build" /\ todo' = todo /\ step' \in {"ledger", "entry", "ended"}
          /\ call' = call \/ call' = [call EXCEPT !.wallet = session.wallet]
      BY <1>2 DEF Build
    <2>2. IsCall(call)
      BY <2>1, PathOfStep
    <2>3. call'.signers = call.signers
      BY <2>1, <2>2 DEF IsCall
    <2> QED
      BY <2>1, <2>3, CountsStay
  <1>3. CASE SkipEntry
    BY <1>3, CountsStay DEF SkipEntry
  <1>4. CASE ResolveRules \/ CalculateExpiration
    <2>1. /\ step \in {"entry", "expire"} /\ todo' = todo /\ call' = call
          /\ step' \in {"expire", "lookup", "ended"}
      BY <1>4 DEF ResolveRules, CalculateExpiration, Prepare
    <2> QED
      BY <2>1, CountsStay
  <1>5. CASE LookUp
    <2>1. step = "lookup" /\ call.path # "multi"
      BY <1>5, PathOfStep DEF LookUp
    <2> QED
      BY <1>5, <2>1, CountsStay DEF LookUp
  <1>6. CASE Prompt
    BY <1>6, CountsStay DEF Prompt
  <1>7. CASE AllSigned
    BY <1>7, CountsStay DEF AllSigned, Submits
  <1> QED
    BY <1>1, <1>2, <1>3, <1>4, <1>5, <1>6, <1>7

\* The steps of the multi-signer path.
LEMMA CountsMulti ==
    ASSUME Counts, Staged,
           \/ SubmitDirectly \/ LatestLedger \/ NextEntry \/ NoMoreEntries \/ ResolveScheme
           \/ ResolveRulesOnce \/ AskPasskey \/ PasskeySigns \/ Seal \/ AskDelegate
           \/ EntryDone \/ AccountSigns \/ DelegateSigns
    PROVE  Counts'
  <1> USE DEF Fails, Ends, submission, work, env
  <1>1. CASE step' = "ended" /\ todo' = todo /\ call' = call
    <2>1. step \notin {"idle", "ended"}
      BY <1>1
      DEF SubmitDirectly, LatestLedger, NextEntry, NoMoreEntries, ResolveScheme,
          ResolveRulesOnce, AskPasskey, PasskeySigns, Seal, AskDelegate, EntryDone,
          AccountSigns, DelegateSigns
    <2> QED
      BY <1>1, <2>1, CountsStay
  <1>2. CASE SubmitDirectly \/ NoMoreEntries \/ (LatestLedger /\ ~Fails)
    <2>1. /\ step \in {"direct", "next", "ledger"} /\ todo' = todo /\ call' = call
          /\ step' \in {"payer", "source", "next"}
      BY <1>2 DEF SubmitDirectly, NoMoreEntries, LatestLedger, Submits
    <2> QED
      BY <2>1, CountsStay
  <1>3. CASE (ResolveScheme \/ ResolveRulesOnce \/ AccountSigns \/ EntryDone) /\ ~Fails
    <2>1. /\ step \in {"scheme", "rules", "account", "delegates"} /\ todo' = todo /\ call' = call
          /\ step' \in {"rules", "passkeys", "next"}
      BY <1>3 DEF ResolveScheme, ResolveRulesOnce, AccountSigns, EntryDone
    <2> QED
      BY <2>1, CountsStay
  <1>4. CASE NextEntry /\ ~Fails
    <2>1. /\ step = "next" /\ call' = call /\ step' \in {"next", "account", "scheme", "rules"}
          /\ todo' = todo \/ todo' = call.signers
      BY <1>4 DEF NextEntry
    <2> QED
      BY <2>1 DEF Counts
  <1>5. CASE (AskPasskey \/ AskDelegate) /\ ~Fails
    <2>1. /\ step \in {"passkeys", "delegates"} /\ call' = call /\ todo' = todo
          /\ asked' \in todo /\ step' \in {"prompt", "delegate"}
      BY <1>5 DEF AskPasskey, AskDelegate
    <2> QED
      BY <2>1, CountsStay
  <1>6. CASE (PasskeySigns \/ DelegateSigns \/ Seal) /\ ~Fails
    <2>1. /\ step \in {"prompt", "delegate", "passkeys"} /\ call' = call /\ todo' \subseteq todo
          /\ step' \in {"passkeys", "delegates"}
      BY <1>6 DEF PasskeySigns, DelegateSigns, Seal, Others
    <2> QED
      BY <2>1 DEF Counts
  <1>7. CASE Fails
    BY <1>1, <1>7
  <1> QED
    BY <1>2, <1>3, <1>4, <1>5, <1>6, <1>7

\* The steps of funding and submission count their attempts.
LEMMA CountsFund ==
    ASSUME Counts, Scalars,
           \/ Friendbot \/ FundedAccount \/ SignTransfer \/ ResimSource \/ Resimulate
           \/ SignFeePayer \/ SendToRelayer \/ RelayerFails \/ SendToRpc \/ Poll
    PROVE  Counts'
  <1> USE DEF Fails, Ends, Leaves, submission, work, env
  <1>0. /\ PollAttempts \in Nat /\ PollAttempts > 0 /\ LookupAttempts \in Nat
        /\ LookupAttempts > 0 /\ tries \in Nat
    BY SigningAssumption DEF Scalars
  <1>1. todo' = todo /\ call' = call
    BY DEF Friendbot, FundedAccount, SignTransfer, ResimSource, Resimulate,
           SignFeePayer, SendToRelayer, RelayerFails, SendToRpc, Poll, Unanswered
  <1>2. CASE Friendbot \/ FundedAccount
    <2>1. /\ step \in {"friendbot", "funded"} /\ step' \in {"funded", "simulate", "ended"}
          /\ step' = "funded" => \/ tries' = 0
                                 \/ step = "funded" /\ tries' = tries + 1
                                    /\ tries + 1 # LookupAttempts
      BY <1>2 DEF Friendbot, FundedAccount
    <2>2. step' = "funded" => tries' < LookupAttempts
      BY <1>0, <2>1 DEF Counts
    <2> QED
      BY <1>1, <2>1, <2>2, CountsStay
  <1>3. CASE SignTransfer \/ ResimSource \/ Resimulate \/ SignFeePayer
    <2>1. /\ step \in {"simulate", "source", "resim", "payer"}
          /\ step' \in {"source", "resim", "payer", "send", "ended"}
      BY <1>3 DEF SignTransfer, ResimSource, Resimulate, SignFeePayer
    <2> QED
      BY <1>1, <2>1, CountsStay
  <1>4. CASE SendToRelayer \/ RelayerFails \/ SendToRpc
    <2>1. /\ step = "send" /\ step' \in {"poll", "ended"}
          /\ step' = "poll" => tries' = 0
      BY <1>4 DEF SendToRelayer, RelayerFails, SendToRpc
    <2> QED
      BY <1>0, <1>1, <2>1, CountsStay
  <1>5. CASE Poll
    <2>1. /\ step = "poll" /\ step' \in {"poll", "ended"}
          /\ step' = "poll" => tries' = tries + 1 /\ tries + 1 # PollAttempts
      BY <1>5 DEF Poll, Unanswered
    <2>2. step' = "poll" => tries' < PollAttempts
      BY <1>0, <2>1 DEF Counts
    <2> QED
      BY <1>1, <2>1, <2>2, CountsStay
  <1> QED
    BY <1>2, <1>3, <1>4, <1>5

\* Signers and attempts are counted right throughout.
LEMMA AlwaysCounts == Spec => []Counts
  <1>1. Init => Counts
    BY DEF Init, Counts
  <1>2. ASSUME Counts, Return \/ Environment \/ UNCHANGED vars
        PROVE  Counts'
    <2>1. CASE Return
      BY <2>1 DEF Return, Counts
    <2>2. CASE Environment \/ UNCHANGED vars
      <3>1. /\ call' = call /\ step' = step /\ todo' = todo /\ asked' = asked
            /\ tries' = tries
        BY <2>2
        DEF Environment, Connect, Hold, UpgradeElsewhere, Execute, Reject, vars, opVars, work,
            submission
      <3> QED
        BY <1>2, <3>1 DEF Counts
    <2> QED
      BY <1>2, <2>1, <2>2
  <1>3. Staged /\ Scalars /\ Counts /\ [Next]_vars => Counts'
    BY <1>2, CountsCalls, CountsSingle, CountsMulti, CountsFund DEF Next, Proceed
  <1> QED
    BY <1>1, <1>3, AlwaysStaged, AlwaysScalars, PTL DEF Spec

\* What lies ahead at each step.
Values ==
    /\ step = "amount" => Ahead = PollAttempts + 11 + 2 * Cardinality(call.signers)
    /\ step = "build" => Ahead = PollAttempts + 10 + 2 * Cardinality(call.signers)
    /\ step = "ledger" => Ahead = PollAttempts + 9 + 2 * Cardinality(call.signers)
    /\ step = "delegates" =>
         Ahead = PollAttempts + 9 + 2 * Cardinality(call.signers) + 2 * Cardinality(todo)
    /\ step = "delegate" =>
         Ahead = PollAttempts + 8 + 2 * Cardinality(call.signers) + 2 * Cardinality(todo)
    /\ step = "next" => Ahead = PollAttempts + 8 + 2 * Cardinality(call.signers)
    /\ step = "scheme" => Ahead = PollAttempts + 7 + 2 * Cardinality(call.signers)
    /\ step = "rules" => Ahead = PollAttempts + 6 + 2 * Cardinality(call.signers)
    /\ step = "entry" => Ahead = PollAttempts + 8 + 2 * Cardinality(todo)
    /\ step = "expire" => Ahead = PollAttempts + 7 + 2 * Cardinality(todo)
    /\ step = "lookup" => Ahead = PollAttempts + 6 + 2 * Cardinality(todo)
    /\ step = "passkeys" => Ahead = PollAttempts + 5 + 2 * Cardinality(todo)
    /\ step = "prompt" => Ahead = PollAttempts + 4 + 2 * Cardinality(todo)
    /\ step = "account" => Ahead = PollAttempts + 5
    /\ step = "friendbot" => Ahead = PollAttempts + 6 + LookupAttempts
    /\ step = "funded" => Ahead = PollAttempts + 5 + LookupAttempts - tries
    /\ step = "simulate" => Ahead = PollAttempts + 5
    /\ step = "direct" => Ahead = PollAttempts + 5
    /\ step = "source" => Ahead = PollAttempts + 4
    /\ step = "resim" => Ahead = PollAttempts + 3
    /\ step = "payer" => Ahead = PollAttempts + 2
    /\ step = "send" => Ahead = PollAttempts + 1
    /\ step = "poll" => Ahead = PollAttempts - tries
    /\ step = "idle" => Ahead = 0
    /\ step = "ended" => Ahead = 0

\* They are these by definition.
LEMMA AheadValues == Values
  <1> USE DEF Values, Ahead
  <1>1. CASE step = "amount"
    BY <1>1
  <1>2. CASE step = "build"
    BY <1>2
  <1>3. CASE step = "ledger"
    BY <1>3
  <1>4. CASE step = "delegates"
    BY <1>4
  <1>5. CASE step = "delegate"
    BY <1>5
  <1>6. CASE step = "next"
    BY <1>6
  <1>7. CASE step = "scheme"
    BY <1>7
  <1>8. CASE step = "rules"
    BY <1>8
  <1>9. CASE step = "entry"
    BY <1>9
  <1>10. CASE step = "expire"
    BY <1>10
  <1>11. CASE step = "lookup"
    BY <1>11
  <1>12. CASE step = "passkeys"
    BY <1>12
  <1>13. CASE step = "prompt"
    BY <1>13
  <1>14. CASE step = "account"
    BY <1>14
  <1>15. CASE step = "friendbot"
    BY <1>15
  <1>16. CASE step = "funded"
    BY <1>16
  <1>17. CASE step = "simulate"
    BY <1>17
  <1>18. CASE step = "direct"
    BY <1>18
  <1>19. CASE step = "source"
    BY <1>19
  <1>20. CASE step = "resim"
    BY <1>20
  <1>21. CASE step = "payer"
    BY <1>21
  <1>22. CASE step = "send"
    BY <1>22
  <1>23. CASE step = "poll"
    BY <1>23
  <1>24. CASE step = "idle"
    BY <1>24
  <1>25. CASE step = "ended"
    BY <1>25
  <1>26. CASE step \notin {"amount", "build", "ledger", "delegates", "delegate", "next",
                           "scheme", "rules", "entry", "expire", "lookup", "passkeys",
                           "prompt", "account", "friendbot", "funded", "simulate",
                           "direct", "source", "resim", "payer", "send", "poll", "idle",
                           "ended"}
    BY <1>26
  <1> QED
    BY <1>1, <1>2, <1>3, <1>4, <1>5, <1>6, <1>7, <1>8, <1>9, <1>10, <1>11, <1>12,
       <1>13, <1>14, <1>15, <1>16, <1>17, <1>18, <1>19, <1>20, <1>21, <1>22, <1>23,
       <1>24, <1>25, <1>26

\* And after the next step.
LEMMA AheadValuesNext == Values'
  BY AheadValues, PTL

\* The bounds of what is counted.
Limits ==
    /\ PollAttempts \in Nat /\ LookupAttempts \in Nat /\ tries \in Nat
    /\ step \notin {"idle", "ended"} =>
         /\ Cardinality(call.signers) \in Nat /\ Cardinality(todo) \in Nat
         /\ Cardinality(todo) <= Cardinality(call.signers)
    /\ step = "poll" => tries < PollAttempts
    /\ step = "funded" => tries < LookupAttempts

\* They follow from counting right.
LEMMA LimitsOfCounts == Scalars /\ Counts => Limits
  <1> SUFFICES ASSUME Scalars, Counts PROVE Limits
    OBVIOUS
  <1>1. PollAttempts \in Nat /\ LookupAttempts \in Nat /\ tries \in Nat
    BY SigningAssumption DEF Scalars
  <1>2. (step = "poll" => tries < PollAttempts) /\ (step = "funded" => tries < LookupAttempts)
    BY DEF Counts
  <1> QED
    BY <1>1, <1>2, TodoCounted DEF Limits

\* And hold after the next step.
LEMMA LimitsOfCountsNext == Scalars' /\ Counts' => Limits'
  BY LimitsOfCounts, PTL

\* The steps there are.
LEMMA StepNames ==
    ASSUME Staged
    PROVE  step \in {"amount", "build", "ledger", "delegates", "delegate", "next", "scheme",
                     "rules", "entry", "expire", "lookup", "passkeys", "prompt", "account",
                     "friendbot", "funded", "simulate", "direct", "source", "resim", "payer",
                     "send", "poll", "idle", "ended"}
  <1>1. CASE call.path \in {"none", "headless", "sign", "entry"}
    BY <1>1 DEF Staged, Steps, Single
  <1>2. CASE call.path \in {"submit", "fund"}
    BY <1>2 DEF Staged, Steps, Single, Submission
  <1>3. CASE call.path = "multi"
    BY <1>3 DEF Staged, Steps, Submission
  <1> QED
    BY <1>1, <1>2, <1>3 DEF Staged, Paths

\* Something lies ahead until an operation ends.
LEMMA AheadTyped ==
    ASSUME Staged, Scalars, Counts
    PROVE  Ahead \in Nat /\ (step \notin {"idle", "ended"} => Ahead > 0)
  <1> USE DEF Values, Limits
  <1>1. CASE step \in {"amount", "build", "ledger", "next", "scheme", "rules"}
    BY <1>1, AheadValues, LimitsOfCounts
  <1>2. CASE step \in {"delegates", "delegate", "entry", "expire", "lookup", "passkeys",
                       "prompt"}
    BY <1>2, AheadValues, LimitsOfCounts
  <1>3. CASE step \in {"account", "friendbot", "simulate", "direct", "source", "resim", "payer",
                       "send", "idle", "ended"}
    BY <1>3, AheadValues, LimitsOfCounts
  <1>4. CASE step \in {"funded", "poll"}
    BY <1>4, AheadValues, LimitsOfCounts
  <1> QED
    BY <1>1, <1>2, <1>3, <1>4, StepNames

\* An operation that ends has nothing more ahead.
LEMMA EndsNearer ==
    ASSUME Staged, Scalars, Counts, step \notin {"idle", "ended"},
           step' = "ended", left' = left
    PROVE  Nearer
  <1>1. Ahead' = 0
    BY AheadValuesNext DEF Values
  <1> QED
    BY <1>1, AheadTyped DEF Nearer

\* An entry that is done is one less.
LEMMA TailNearer ==
    ASSUME Staged, left # << >>, left' = Tail(left)
    PROVE  Nearer
  <1>1. left \in Seq(Given)
    BY DEF Staged
  <1> QED
    BY <1>1 DEF Nearer

\* The steps of the single-signer path.
LEMMA SingleNearer ==
    ASSUME Staged, Scalars, Counts, Staged', Scalars', Counts',
           \/ ResolveAmount \/ Build \/ SkipEntry \/ ResolveRules \/ CalculateExpiration
           \/ LookUp \/ Prompt \/ AllSigned
    PROVE  Nearer
  <1> USE DEF Fails, Ends, submission, work, env
  <1>1. CASE step' = "ended" /\ left' = left
    <2>1. step \notin {"idle", "ended"}
      BY DEF ResolveAmount, Build, SkipEntry, ResolveRules, CalculateExpiration, LookUp,
             Prompt, AllSigned
    <2> QED
      BY <1>1, <2>1, EndsNearer
  <1>2. CASE SkipEntry \/ (Prompt /\ ~Fails)
    <2>1. left # << >> /\ left' = Tail(left)
      <3>1. step = "prompt" => left # << >>
        BY DEF Staged, Handling
      <3> QED
        BY <1>2, <3>1 DEF SkipEntry, Prompt
    <2> QED
      BY <2>1, TailNearer
  <1>3. CASE ~Fails /\ step' # "ended" /\ ~SkipEntry /\ ~Prompt
    <2>1. /\ left' = left /\ todo' = todo
          /\ \/ step = "amount" /\ step' = "build" /\ call' = call
             \/ step = "build" /\ step' \in {"ledger", "entry"}
             \/ step = "entry" /\ step' \in {"expire", "lookup", "source"}
             \/ step = "expire" /\ step' = "lookup"
             \/ step = "lookup" /\ step' = "prompt"
      BY <1>3
      DEF ResolveAmount, Build, ResolveRules, CalculateExpiration, Prepare, LookUp, AllSigned,
          Submits
    <2>2. step = "build" => call'.signers = call.signers
      <3>1. step = "build" => IsCall(call)
        BY PathOfStep
      <3>2. step = "build" => call' = [call EXCEPT !.wallet = session.wallet]
        BY <1>3, <2>1
        DEF ResolveAmount, Build, ResolveRules, CalculateExpiration, LookUp, AllSigned
      <3> QED
        BY <3>1, <3>2 DEF IsCall
    <2>3. CASE step \in {"amount", "build"}
      <3>1. /\ call'.signers = call.signers /\ left' = left /\ todo' = todo
            /\ \/ step = "amount" /\ step' = "build"
               \/ step = "build" /\ step' \in {"ledger", "entry"}
        BY <2>1, <2>2, <2>3
      <3>2. CASE step = "amount"
        <4>1. Ahead' = PollAttempts + 10 + 2 * Cardinality(call.signers)
          BY <3>1, <3>2, AheadValuesNext DEF Values
        <4> QED
          BY <3>1, <3>2, <4>1, AheadValues, LimitsOfCounts DEF Values, Limits, Nearer
      <3>3. CASE step = "build"
        <4>1. \/ Ahead' = PollAttempts + 9 + 2 * Cardinality(call.signers)
              \/ Ahead' = PollAttempts + 8 + 2 * Cardinality(todo)
          BY <3>1, <3>3, AheadValuesNext DEF Values
        <4> QED
          BY <3>1, <3>3, <4>1, AheadValues, LimitsOfCounts DEF Values, Limits, Nearer
      <3> QED
        BY <2>3, <3>2, <3>3
    <2>4. CASE step \in {"entry", "expire", "lookup"}
      BY <2>1, <2>4, AheadValues, AheadValuesNext, LimitsOfCounts DEF Values, Limits, Nearer
    <2> QED
      BY <2>1, <2>3, <2>4
  <1>4. step' = "ended" => left' = left \/ SkipEntry \/ (Prompt /\ ~Fails)
    BY DEF ResolveAmount, Build, ResolveRules, CalculateExpiration, Prepare, LookUp, Prompt,
           AllSigned, Submits
  <1> QED
    BY <1>1, <1>2, <1>3, <1>4

\* The steps of the multi-signer path.
LEMMA MultiNearer ==
    ASSUME Staged, Scalars, Counts, Staged', Scalars', Counts',
           \/ SubmitDirectly \/ LatestLedger \/ NextEntry \/ NoMoreEntries \/ ResolveScheme
           \/ ResolveRulesOnce \/ AskPasskey \/ PasskeySigns \/ Seal \/ AskDelegate
           \/ EntryDone \/ AccountSigns \/ DelegateSigns
    PROVE  Nearer
  <1> USE DEF Fails, Ends, Submits, submission, work, env
  <1>1. CASE step' = "ended" /\ left' = left
    <2>1. step \notin {"idle", "ended"}
      BY DEF SubmitDirectly, LatestLedger, NextEntry, NoMoreEntries, ResolveScheme,
             ResolveRulesOnce, AskPasskey, PasskeySigns, Seal, AskDelegate, EntryDone,
             AccountSigns, DelegateSigns
    <2> QED
      BY <1>1, <2>1, EndsNearer
  <1>2. CASE Fails
    BY <1>1, <1>2
  <1>3. CASE left # << >> /\ left' = Tail(left)
    BY <1>3, TailNearer
  <1>4. CASE (Seal \/ AccountSigns) /\ ~Fails
    <2>1. left' = Tail(left) /\ left # << >>
      BY <1>4 DEF Seal, AccountSigns, Staged, Handling
    <2> QED
      BY <1>3, <2>1
  <1>5. CASE (SubmitDirectly \/ LatestLedger \/ NoMoreEntries) /\ ~Fails
    <2>1. /\ left' = left /\ call' = call
          /\ \/ step = "direct" /\ step' = "payer"
             \/ step = "ledger" /\ step' = "next"
             \/ step = "next" /\ step' = "source"
      BY <1>5 DEF SubmitDirectly, LatestLedger, NoMoreEntries
    <2> QED
      BY <2>1, AheadValues, AheadValuesNext, LimitsOfCounts DEF Values, Limits, Nearer
  <1>6. CASE NextEntry /\ ~Fails /\ ~(left' = Tail(left))
    <2>1. /\ left' = left /\ call' = call /\ step = "next"
          /\ step' \in {"account", "scheme", "rules"}
      BY <1>6 DEF NextEntry
    <2> QED
      BY <2>1, AheadValues, AheadValuesNext, LimitsOfCounts DEF Values, Limits, Nearer
  <1>7. CASE (ResolveScheme \/ ResolveRulesOnce \/ AskPasskey \/ AskDelegate \/ EntryDone) /\ ~Fails
    <2>1. /\ left' = left /\ call' = call /\ todo' = todo
          /\ \/ step = "scheme" /\ step' = "rules"
             \/ step = "rules" /\ step' = "passkeys"
             \/ step = "passkeys" /\ step' = "prompt"
             \/ step = "delegates" /\ step' = "delegate"
             \/ step = "delegates" /\ step' = "next"
      BY <1>7 DEF ResolveScheme, ResolveRulesOnce, AskPasskey, AskDelegate, EntryDone
    <2> QED
      BY <2>1, AheadValues, AheadValuesNext, LimitsOfCounts DEF Values, Limits, Nearer
  <1>8. CASE (PasskeySigns \/ DelegateSigns) /\ ~Fails
    <2>1. /\ left' = left /\ call' = call /\ todo' = todo \ {asked}
          /\ \/ step = "prompt" /\ call.path = "multi" /\ step' = "passkeys"
             \/ step = "delegate" /\ step' = "delegates"
      BY <1>8 DEF PasskeySigns, DelegateSigns, Others
    <2>2. asked \in todo
      BY <2>1 DEF Counts
    <2>3. Cardinality(todo') = Cardinality(todo) - 1
      BY <2>1, <2>2, TodoCounted
    <2> QED
      BY <2>1, <2>3, AheadValues, AheadValuesNext, LimitsOfCounts DEF Values, Limits, Nearer
  <1>9. NextEntry => Fails \/ left' = Tail(left) \/ left' = left
    BY DEF NextEntry
  <1>10. NextEntry => left # << >>
    BY DEF NextEntry
  <1> QED
    BY <1>2, <1>3, <1>4, <1>5, <1>6, <1>7, <1>8, <1>9, <1>10

\* The steps of funding and submission.
LEMMA FundNearer ==
    ASSUME Staged, Scalars, Counts, Staged', Scalars', Counts',
           \/ Friendbot \/ FundedAccount \/ SignTransfer \/ ResimSource \/ Resimulate
           \/ SignFeePayer \/ SendToRelayer \/ RelayerFails \/ SendToRpc \/ Poll
    PROVE  Nearer
  <1> USE DEF Fails, Ends, Leaves, submission, work, env
  <1>1. left' = left
    BY DEF Friendbot, FundedAccount, SignTransfer, ResimSource, Resimulate,
           SignFeePayer, SendToRelayer, RelayerFails, SendToRpc, Poll, Unanswered
  <1>2. CASE step' = "ended"
    <2>1. step \notin {"idle", "ended"}
      BY DEF Friendbot, FundedAccount, SignTransfer, ResimSource, Resimulate,
             SignFeePayer, SendToRelayer, RelayerFails, SendToRpc, Poll, Unanswered
    <2> QED
      BY <1>1, <1>2, <2>1, EndsNearer
  <1>3. CASE (Friendbot \/ FundedAccount) /\ step' # "ended"
    <2>1. \/ step = "friendbot" /\ step' = "funded" /\ tries' = 0
          \/ step = "funded" /\ step' = "funded" /\ tries' = tries + 1
          \/ step = "funded" /\ step' = "simulate"
      BY <1>3 DEF Friendbot, FundedAccount
    <2> QED
      BY <1>1, <2>1, AheadValues, AheadValuesNext, LimitsOfCounts DEF Values, Limits, Nearer
  <1>4. CASE /\ SignTransfer \/ ResimSource \/ Resimulate \/ SignFeePayer
             /\ step' # "ended"
    <2>1. \/ step = "simulate" /\ step' = "source"
          \/ step = "source" /\ step' = "resim"
          \/ step = "resim" /\ step' = "payer"
          \/ step = "payer" /\ step' = "send"
      BY <1>4 DEF SignTransfer, ResimSource, Resimulate, SignFeePayer
    <2> QED
      BY <1>1, <2>1, AheadValues, AheadValuesNext, LimitsOfCounts DEF Values, Limits, Nearer
  <1>5. CASE (SendToRelayer \/ RelayerFails \/ SendToRpc \/ Poll) /\ step' # "ended"
    <2>1. \/ step = "send" /\ step' = "poll" /\ tries' = 0
          \/ step = "poll" /\ step' = "poll" /\ tries' = tries + 1
      BY <1>5 DEF SendToRelayer, RelayerFails, SendToRpc, Poll, Unanswered
    <2> QED
      BY <1>1, <2>1, AheadValues, AheadValuesNext, LimitsOfCounts DEF Values, Limits, Nearer
  <1> QED
    BY <1>2, <1>3, <1>4, <1>5

\* An operation waits for a bounded number of answers: each brings it nearer to
\* its end, an attempt that finds nothing as well as a signature, and neither the
\* page, which may connect another wallet or drop a signer, nor other clients nor
\* the network throw it back (signAuthEntry, submitWithSelectedSigners,
\* fundWallet, pollTransaction).
THEOREM SubmissionsAreBounded == Spec => [][Bounded]_vars
  <1>1. ASSUME Staged, Scalars, Counts, Staged', Scalars', Counts'
        PROVE  Bounded
    <2>1. Ahead \in Nat
      BY <1>1, AheadTyped
    <2>2. Proceed \/ AccountSigns \/ DelegateSigns => Nearer
      BY <1>1, SingleNearer, MultiNearer, FundNearer DEF Proceed
    <2>3. Environment => UNCHANGED <<left, Ahead>>
      BY DEF Environment, Connect, Hold, UpgradeElsewhere, Execute, Reject, opVars, work,
             submission, Ahead
    <2> QED
      BY <2>1, <2>2, <2>3 DEF Bounded
  <1> QED
    BY <1>1, AlwaysStaged, AlwaysScalars, AlwaysCounts, PTL

=============================================================================
