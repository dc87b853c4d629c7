------------------------ MODULE MCTransactionSigning ------------------------
(* TransactionSigning with two wallets, one of which has its code upgraded.   *)
EXTENDS TransactionSigning, TLC

CONSTANTS a, b, p1, p2, k, g, temp, r1, r2, none

MCWallets == {a, b}
MCSchemeOf == [v7 |-> "legacy-concat", v8 |-> "preimage-v1"]

Entry(cred, addr, exp, mutations) ==
    [cred |-> cred, addr |-> addr, exp |-> exp, mutations |-> mutations, rules |-> none,
     sigs |-> << >>, binds |-> none]
Plain(w) == Entry("address", w, 0, {})
Mutation(depth, isCall, addsValid, target) ==
    [depth |-> depth, isCall |-> isCall, addsValid |-> addsValid, target |-> target]
\* Another signer has signed with rule list r1, under the older scheme.
Partial == [Entry("address", a, 1, {}) EXCEPT
              !.rules = r1, !.sigs = (p2 :> Digest(1, r1, "legacy-concat"))]
\* An account has signed its own entry.
SignedByAccount ==
    [Entry("address", g, 2, {}) EXCEPT !.sigs = (g :> Digest(2, none, none))]
Source == Entry("source", temp, 0, {})

Plainly(es) == [admin |-> FALSE, entries |-> es]
Admin(m) == [admin |-> TRUE, entries |-> <<Entry("address", a, 0, {m})>>]

MCSimulated ==
    {Plainly(<<Plain(a)>>), Plainly(<<Plain(b), Source>>),
     Plainly(<<Entry("address", a, 0, {Mutation(0, TRUE, TRUE, none)})>>),
     Admin(Mutation(0, TRUE, TRUE, "v8")), Admin(Mutation(0, TRUE, TRUE, "v9")),
     Admin(Mutation(1, TRUE, TRUE, none))}
MCPrepared ==
    MCSimulated \cup
    {Plainly(<< >>), Plainly(<<Source>>), Plainly(<<Partial, Plain(a)>>),
     Plainly(<<SignedByAccount, Plain(a)>>),
     Plainly(<<Entry("delegates", a, 0, {})>>),
     Admin(Mutation(0, FALSE, TRUE, none)), Admin(Mutation(0, TRUE, FALSE, none))}
MCOptions == {[passkey |-> none, exp |-> 0], [passkey |-> p2, exp |-> 2]}
MCSessions == {[wallet |-> a, passkey |-> p1], [wallet |-> b, passkey |-> p1]}
MCHoldings == {{}, {k, g}}
MCSelections == {{p1, p2}, {k, g}, {p1, g}}
MCConfigs ==
    {[deployer |-> "shared", relayer |-> TRUE, force |-> none],
     [deployer |-> "shared", relayer |-> TRUE, force |-> "rpc"],
     [deployer |-> "own", relayer |-> FALSE, force |-> none],
     [deployer |-> "shared", relayer |-> FALSE, force |-> "relayer"]}

\* Only one of the wallets runs older code, or other code than the kit signs for.
MCInit == Init /\ code[b] = "v8"
MCSpec == MCInit /\ [][Next]_vars /\ WF_vars(Proceed)
=============================================================================
