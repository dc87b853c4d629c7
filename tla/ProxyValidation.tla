--------------------------- MODULE ProxyValidation ---------------------------
(***************************************************************************)
(* What the relayer proxy refuses to sponsor.  A submission is decoded XDR *)
(* reduced to the parts the checks read; an outlook is what the RPC server *)
(* says while the submission is checked.                                   *)
(***************************************************************************)
EXTENDS Integers, Sequences, FiniteSets

CONSTANTS
    MaxResourceFee,   \* MAX_RESOURCE_FEE_STROOPS
    MaxTotalFee,      \* MAX_TOTAL_FEE_STROOPS
    FeeSlack,         \* DECLARED_RESOURCE_FEE_SLACK_STROOPS
    AllowedDeployers  \* ALLOWED_DEPLOYER_ADDRESSES, the shared deployer among them

\* Addresses by what they are: a wallet that runs approved code, one that is
\* listed by id, another contract, a Stellar Asset Contract, a listed custom
\* token, an account, the dedicated and the shared deployer, and an address
\* that is neither a contract nor an account.
Contracts == {"wallet", "listedWallet", "contract", "assetToken", "listedToken"}
Accounts  == {"account", "dedicated", "shared"}
Addresses == Contracts \cup Accounts \cup {"muxed"}

WalletFunctions == {"execute", "upgrade", "add_signer"}

\* accountOrContractIdOf throws for every other address.
Named(a) == a \in Contracts \cup Accounts

\* getLedgerEntries answers, or fails and the check is a 503.
WalletAllowed(c, rpc) ==
    c \in Contracts /\ (c = "listedWallet" \/ (rpc.up /\ c = "wallet"))

TokenAllowed(c, rpc) == c = "listedToken" \/ (rpc.up /\ c = "assetToken")

-----------------------------------------------------------------------------
(* Calls, authorizations and deployments. *)

\* A call is [kind |-> "call", target, fn, args]; a deployment is
\* [kind |-> "create", code, deployer, salt, signers, policies]; anything else
\* a host function may be is [kind |-> "upload"].  An authorization entry is
\* [cred, signer, root, subs], subs being the nodes below the root.

\* The slip of looking at the root only.
RootAllowed(entry, c) == entry.root.kind = "call" /\ entry.root.target = c

\* Every node of the invocation tree is a contract call on this contract.
InvocationAllowed(entry, c) ==
    \A node \in {entry.root} \cup entry.subs :
        node.kind = "call" /\ node.target = c

\* walletAuthAddress throws for source-account and delegated credentials.
AddressCredential(entry) == entry.cred \in {"V1", "V2"} /\ Named(entry.signer)

WalletCallAllowed(call, auth, rpc) ==
    /\ WalletAllowed(call.target, rpc)
    /\ call.fn \in WalletFunctions
    /\ \A i \in DOMAIN auth :
          /\ AddressCredential(auth[i])
          /\ auth[i].signer = call.target
          /\ InvocationAllowed(auth[i], call.target)
          /\ auth[i].root = call

TransferAllowed(call, auth, rpc) ==
    /\ Len(auth) = 1
    /\ Len(call.args) = 3
    /\ call.args[1] \in Contracts
    /\ AddressCredential(auth[1])
    /\ auth[1].signer = call.args[1]
    /\ WalletAllowed(auth[1].signer, rpc)
    /\ auth[1].subs = {}
    /\ auth[1].root = call
    /\ TokenAllowed(call.target, rpc)

\* One External signer whose verifier is a contract, the salt derived from its
\* credential, every policy key a contract.
ConstructorAllowed(deploy) ==
    /\ Len(deploy.signers) = 1
    /\ LET signer == deploy.signers[1]
       IN  /\ signer.tag = "External"
           /\ signer.verifier \in Contracts
           /\ deploy.salt = signer.credential
    /\ deploy.policies \subseteq Contracts

DeployAllowed(deploy, deployers) ==
    /\ deploy.kind = "create"
    /\ deploy.code = "approved"
    /\ Named(deploy.deployer)
    /\ deploy.deployer \in deployers
    /\ ConstructorAllowed(deploy)

\* validateDeployFunction and the one matching entry of func mode.
ListedDeployAllowed(deploy, auth) ==
    /\ Len(auth) = 1
    /\ DeployAllowed(deploy, AllowedDeployers)
    /\ auth[1].cred = "V1"
    /\ auth[1].signer = deploy.deployer
    /\ auth[1].subs = {}
    /\ auth[1].root = deploy

\* The host function and the matching validator.
FuncAllowed(body, rpc) ==
    CASE body.func.kind = "create" -> ListedDeployAllowed(body.func, body.auth)
      [] body.func.kind = "call"   ->
            IF body.func.fn = "transfer"
            THEN TransferAllowed(body.func, body.auth, rpc)
            ELSE WalletCallAllowed(body.func, body.auth, rpc)
      [] OTHER -> FALSE

-----------------------------------------------------------------------------
(* Fees, simulation and signed envelopes. *)

\* simulateWithinFeeCeiling: a failed simulation and one that needs a restore
\* are refused alike.
SimulationAllowed(sim) == sim.ok /\ sim.minFee <= MaxResourceFee

\* declaredSorobanDataProblem.
CoversSimulation(declared, sim) ==
    /\ declared.fee <= 2 * sim.minFee + FeeSlack
    /\ sim.readWrite \subseteq declared.readWrite
    /\ sim.readOnly \subseteq declared.readOnly \cup declared.readWrite

\* validateXdrDeployAuth.
XdrAuthAllowed(deploy, auth) ==
    /\ Len(auth) = 1
    /\ auth[1].cred = "source"
    /\ auth[1].subs = {}
    /\ auth[1].root = deploy

\* An envelope is [source, fee, operations, signedBy, declared], its one
\* operation [source, func, auth]; "" is an operation without a source.
XdrAllowed(tx, sim) ==
    /\ tx.source # "shared"
    /\ tx.fee <= MaxTotalFee
    /\ Len(tx.operations) = 1
    /\ tx.source \in Accounts
    /\ tx.source \in tx.signedBy
    /\ LET op == tx.operations[1]
       IN  /\ op.source \in {"", tx.source}
           /\ DeployAllowed(op.func, {tx.source})
           /\ XdrAuthAllowed(op.func, op.auth)
    /\ tx.declared.fee <= MaxResourceFee
    /\ SimulationAllowed(sim)
    /\ CoversSimulation(tx.declared, sim)

\* validateSubmission.  No more than MaxAuthEntries entries are parsed.
MaxAuthEntries == 8

SubmissionAllowed(body, rpc) ==
    IF body.mode = "xdr"
    THEN XdrAllowed(body.tx, rpc.sim)
    ELSE /\ Len(body.auth) \in 1..MaxAuthEntries
         /\ FuncAllowed(body, rpc)
         /\ SimulationAllowed(rpc.sim)

\* What parseSubmissionBody and the XDR decoder make of a body: one of two modes,
\* with lists for the entries, the operations and the signers of a constructor.
IsList(s) == s \in Seq({s[i] : i \in DOMAIN s})

IsDecoded(body) ==
    \/ /\ body.mode = "func"
       /\ IsList(body.auth)
       /\ body.func.kind = "create" => IsList(body.func.signers)
    \/ /\ body.mode = "xdr"
       /\ IsList(body.tx.operations)
       /\ \A i \in DOMAIN body.tx.operations :
             LET op == body.tx.operations[i]
             IN  /\ IsList(op.auth)
                 /\ op.func.kind = "create" => IsList(op.func.signers)

-----------------------------------------------------------------------------
(* What the sponsor is exposed to. *)

\* The entries a submission carries, and all it makes the network do in the
\* name of somebody.
EntriesOf(body) ==
    IF body.mode = "func" THEN {body.auth[i] : i \in DOMAIN body.auth}
    ELSE UNION {{op.auth[i] : i \in DOMAIN op.auth} :
                op \in {body.tx.operations[i] : i \in DOMAIN body.tx.operations}}

FunctionsOf(body) ==
    IF body.mode = "func" THEN {body.func}
    ELSE {body.tx.operations[i].func : i \in DOMAIN body.tx.operations}

Nodes(body) == UNION {{e.root} \cup e.subs : e \in EntriesOf(body)}

\* Whatever route it took, a sponsored submission does one thing, which every
\* entry authorizes as it stands: an allowed function of an approved wallet, or
\* a transfer of an approved token; nothing is authorized on another contract; a
\* deployment installs approved code that traps on no constructor argument; a
\* listed deployer signs for nothing but a deployment of its own; no fee is above
\* the ceilings and the footprint is what the simulation read and wrote.
Sponsorable(body, rpc) ==
    LET functions == FunctionsOf(body)
        wallets   == {"listedWallet", "wallet"}
        tokens    == {"listedToken", "assetToken"}
    IN  /\ \A f, g \in functions : f = g
        /\ \A f \in functions, e \in EntriesOf(body) : e.root = f
        /\ \A f \in functions : f.kind = "call" =>
              \/ f.target \in wallets /\ f.fn \in WalletFunctions
              \/ f.target \in tokens /\ f.fn = "transfer"
        /\ \A node \in functions \cup Nodes(body) :
              \/ node.kind = "call" /\ node.target \in wallets
              \/ node.kind = "call" /\ node.target \in tokens /\ node.fn = "transfer"
              \/ /\ node.kind = "create"
                 /\ node.code = "approved"
                 /\ node.deployer \in
                       IF body.mode = "xdr" THEN {body.tx.source} ELSE AllowedDeployers
                 /\ Len(node.signers) = 1
                 /\ \A i \in DOMAIN node.signers :
                       /\ node.signers[i].verifier \in Contracts
                       /\ node.salt = node.signers[i].credential
                 /\ node.policies \subseteq Contracts
        /\ \A e \in EntriesOf(body) : e.cred = "source" => body.mode = "xdr"
        /\ \A e \in {entry \in EntriesOf(body) : entry.cred # "source"} :
              \/ /\ e.root.kind = "create" /\ e.subs = {}
                 /\ e.signer = e.root.deployer
              \/ /\ e.root.kind = "call"
                 /\ e.signer \in wallets
                 /\ e.root.fn = "transfer" => e.root.args[1] = e.signer
                 /\ \A node \in e.subs : node.kind = "call" /\ node.target = e.signer
        /\ body.mode = "func" => Len(body.auth) <= MaxAuthEntries
        /\ rpc.sim.ok /\ rpc.sim.minFee <= MaxResourceFee
        /\ body.mode = "xdr" =>
              /\ body.tx.source # "shared"
              /\ body.tx.source \in body.tx.signedBy
              /\ body.tx.fee <= MaxTotalFee
              /\ body.tx.declared.fee <= MaxResourceFee
              /\ body.tx.declared.fee <= 2 * rpc.sim.minFee + FeeSlack
              /\ rpc.sim.readWrite \cup rpc.sim.readOnly
                    \subseteq body.tx.declared.readWrite \cup body.tx.declared.readOnly
              /\ rpc.sim.readWrite \subseteq body.tx.declared.readWrite

=============================================================================
