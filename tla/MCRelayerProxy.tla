---------------------------- MODULE MCRelayerProxy ----------------------------
(***************************************************************************)
(* RelayerProxy on a small instance.  The bodies are the four kinds the    *)
(* proxy sponsors, and each of them with one part made different: every    *)
(* check is the only one that stands between some body and the sponsor.    *)
(***************************************************************************)
EXTENDS RelayerProxy

CONSTANTS i1, i2, k1

MCNames == {i1, i2, Global}
MCLimit == [n \in MCNames |-> IF n = Global THEN 2 ELSE 1]

\* What the first client may find: the clients are alike, a read that misses finds
\* nothing, and a stored key is what every later request finds.
MCOldEntries ==
    [ip : {i1}, value : {[form |-> "junk", key |-> NoKey], [form |-> "bare", key |-> k1]}]

-----------------------------------------------------------------------------

Call == [kind |-> "call", target |-> "wallet", fn |-> "execute", args |-> <<"contract">>]
Transfer == [kind |-> "call", target |-> "assetToken", fn |-> "transfer",
             args |-> <<"wallet", "account", "amount">>]
Create(deployer) ==
    [kind |-> "create", code |-> "approved", deployer |-> deployer, salt |-> "cred",
     signers |-> <<[tag |-> "External", verifier |-> "contract", credential |-> "cred"]>>,
     policies |-> {"contract"}]
Upload == [kind |-> "upload"]

Entry(cred, signer, root) == [cred |-> cred, signer |-> signer, root |-> root, subs |-> {}]
Func(func, entry) == [mode |-> "func", func |-> func, auth |-> <<entry>>]

WalletBody   == Func(Call, Entry("V1", "wallet", Call))
TransferBody == Func(Transfer, Entry("V2", "wallet", Transfer))
DeployBody   == Func(Create("shared"), Entry("V1", "shared", Create("shared")))
Signed(deploy) ==
    [mode |-> "xdr",
     tx |-> [source |-> "dedicated", fee |-> 3, signedBy |-> {"dedicated"},
             operations |-> <<[source |-> "", func |-> deploy,
                               auth |-> <<Entry("source", "dedicated", deploy)>>]>>,
             declared |-> [fee |-> 2, readWrite |-> {"w"}, readOnly |-> {"c"}]]]
XdrBody == Signed(Create("dedicated"))

\* Another function, authorized as it stands.
Retargeted(body, func) == Func(func, [body.auth[1] EXCEPT !.root = func])

\* One part of a call, of an entry, of a deployment, of an envelope.
Calls(c) ==
    {[c EXCEPT !.target = a] : a \in Addresses} \cup
    {[c EXCEPT !.fn = f] : f \in WalletFunctions \cup {"transfer", "drain"}} \cup
    {[c EXCEPT !.args = <<a, "account", "amount">>] : a \in Addresses}
Entries(e) ==
    {[e EXCEPT !.cred = k] : k \in {"V1", "V2", "source", "delegates"}} \cup
    {[e EXCEPT !.signer = a] : a \in Addresses} \cup
    {[e EXCEPT !.root = f] : f \in {Call, Transfer, Upload, Create("shared"),
                                    [Call EXCEPT !.args = <<"account">>]}} \cup
    {[e EXCEPT !.subs = {f}] : f \in {Call, Transfer, Create("shared")}}
Creates(d) ==
    {[d EXCEPT !.code = "asset"], [d EXCEPT !.code = "other"], [d EXCEPT !.salt = "other"],
     [d EXCEPT !.signers = @ \o @], [d EXCEPT !.signers[1].tag = "Delegated"],
     [d EXCEPT !.signers = << >>]} \cup
    {[d EXCEPT !.deployer = a] : a \in Addresses} \cup
    {[d EXCEPT !.signers[1].verifier = a] : a \in Addresses} \cup
    {[d EXCEPT !.policies = @ \cup {a}] : a \in Addresses}
Envelopes(b) ==
    {[b EXCEPT !.tx.source = a] : a \in Addresses} \cup
    {[b EXCEPT !.tx.signedBy = {a}] : a \in Addresses} \cup
    {[b EXCEPT !.tx.fee = f] : f \in 2..5} \cup
    {[b EXCEPT !.tx.operations = @ \o @], [b EXCEPT !.tx.operations = << >>]} \cup
    {[b EXCEPT !.tx.operations[1].source = a] : a \in Accounts} \cup
    {[b EXCEPT !.tx.operations[1].func = f] : f \in Creates(Create("dedicated")) \cup {Call}} \cup
    {[b EXCEPT !.tx.operations[1].auth = << >>]} \cup
    {[b EXCEPT !.tx.operations[1].auth = <<e>>] :
        e \in Entries(b.tx.operations[1].auth[1])} \cup
    {[b EXCEPT !.tx.declared.fee = f] : f \in 0..4} \cup
    {[b EXCEPT !.tx.declared.readWrite = s] : s \in SUBSET {"w", "c"}} \cup
    {[b EXCEPT !.tx.declared.readOnly = s] : s \in SUBSET {"w", "c"}}

MCSubmissions ==
    UNION {{Retargeted(b, f) : f \in Calls(b.func)} : b \in {WalletBody, TransferBody}} \cup
    {Retargeted(DeployBody, f) : f \in Creates(DeployBody.func) \cup {Upload}} \cup
    UNION {{[b EXCEPT !.auth = <<e>>] : e \in Entries(b.auth[1])} :
              b \in {WalletBody, TransferBody, DeployBody}} \cup
    {[b EXCEPT !.auth = @ \o @] : b \in {WalletBody, TransferBody, DeployBody}} \cup
    {[WalletBody EXCEPT !.auth = [i \in 1..n |-> @[1]]] :
        n \in {0, MaxAuthEntries, MaxAuthEntries + 1}} \cup
    {Signed(d) : d \in Creates(Create("dedicated"))} \cup
    Envelopes(XdrBody) \cup Envelopes([XdrBody EXCEPT !.tx.source = "shared",
                                                      !.tx.signedBy = {"shared"}])

MCOutlooks ==
    [up : BOOLEAN,
     sim : {[ok |-> o, minFee |-> f, readWrite |-> {"w"}, readOnly |-> {"c"}] :
               o \in BOOLEAN, f \in {1, 4}}]

=============================================================================
