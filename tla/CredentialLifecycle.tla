------------------------- MODULE CredentialLifecycle -------------------------
(***************************************************************************)
(* How a passkey becomes a connected smart-account wallet, and what the    *)
(* client keeps about it: credential records in storage, the stored        *)
(* session, the in-memory connection of one SmartAccountKit, and the       *)
(* operations that move them (createWallet, connectWallet, disconnect and  *)
(* the CredentialManager), each cut at its awaits so that any number of    *)
(* them interleave with each other, with the network and with a page       *)
(* reload.                                                                 *)
(*                                                                         *)
(* A credential has one derived wallet address, so a member of Creds also  *)
(* names that address (deriveContractAddress is injective).  A storage     *)
(* call takes effect when it is made and its caller goes on in a later     *)
(* step; only update of the IndexedDB adapter reads in one transaction and *)
(* writes in another, and whatever happens between the two it overwrites.  *)
(***************************************************************************)

CONSTANTS
    Creds,           \* passkeys, and the wallet address derived from each
    Args,            \* constructor arguments naming the user's own signer
    DefaultArgs,     \* the member of Args with config.defaultPolicies
    Foreign,         \* constructor arguments naming somebody else's signer
    TxIds,           \* transaction hashes: bounds the creates ever submitted
    Tasks,           \* operations one page may have in flight at a time
    NoCred, NoArgs, NoTx,
    SharedDeployer,  \* kit.usingSharedDeployer: auth-entry or envelope route
    AtomicUpdate,    \* update is one step: memory and localStorage adapters
    HasRelayer       \* a relayer is configured

ASSUME ConstantsAssumption ==
    /\ DefaultArgs \in Args
    /\ Foreign \notin Args
    /\ NoCred \notin Creds
    /\ NoArgs \notin Args
    /\ NoTx \notin TxIds
    /\ SharedDeployer \in BOOLEAN
    /\ AtomicUpdate \in BOOLEAN
    /\ HasRelayer \in BOOLEAN

VARIABLES
    passkeys,   \* the passkeys that exist, here or on another device
    cred,       \* credential storage: the record of each passkey, or Absent
    put,        \* the record an operation's update has read and changed
    session,    \* the stored session, or NoSession
    conn,       \* kit.contractId / kit.credentialId, in memory
    task,       \* the continuation of each operation in flight
    txState,    \* what the network has done with each transaction
    txCreate    \* the CreateContractV2 each transaction carries

vars == <<passkeys, cred, put, session, conn, task, txState, txCreate>>

-----------------------------------------------------------------------------
(* Data. *)

Status == {"pending", "failed", "deployed", "occupied"}

\* StoredCredential.  "bound" tells a set contractId from "", "creation" is the
\* confirmed creationTransactionHash with its ledger, "args" the
\* birthConstructorArgsHash that is written together with birthWasmHash.
Record == [status : Status \cup {"absent"}, bound : BOOLEAN,
           args : Args \cup {NoArgs}, creation : TxIds \cup {NoTx}]

Absent == [status |-> "absent", bound |-> FALSE,
           args |-> NoArgs, creation |-> NoTx]

NewRecord(bound) == [Absent EXCEPT !.status = "pending", !.bound = bound]

Session == [cred : Creds \cup {NoCred}, expired : BOOLEAN]

NoSession == [cred |-> NoCred, expired |-> FALSE]

\* The operations.  The three last are connectWallet with nothing but a stored
\* session to go on, the same with { prompt: true }, and with a credential
\* the user has just asserted; "explicit" is connectWallet({ credentialId }).
Ops == {"none", "createWallet", "deploy", "sync", "syncAll", "delete",
        "explicit", "restore", "restorePrompt", "asserted"}

\* Where an operation waits.
Pcs == {"idle", "build", "submit", "sent", "rpc", "poll", "confirm", "finish",
        "next", "look", "erase", "chain", "lookup", "birth", "rule", "assert",
        "welcome", "ceremony"}

\* What an operation holds across its awaits.  "args": the arguments it deploys,
\* or those of the record it read.  "hash": the transaction it submitted, or the
\* creation it is verifying.  "ok": for a deployment, its simulation succeeded;
\* for sync, hasVerifiedBirth of the record it read; for a connection, that
\* record exists and is not "failed".  "todo": what syncAll has still to sync.
Task == [pc : Pcs, op : Ops, cred : Creds \cup {NoCred},
         args : Args \cup {NoArgs}, hash : TxIds \cup {NoTx},
         ok : BOOLEAN, todo : SUBSET Creds]

Idle == [pc |-> "idle", op |-> "none", cred |-> NoCred, args |-> NoArgs,
         hash |-> NoTx, ok |-> FALSE, todo |-> {}]

\* An operation in an update that is not atomic waits for its put.
Put == [cred : Creds \cup {NoCred}, record : Record]

NoPut == [cred |-> NoCred, record |-> Absent]

Create == [cred : Creds \cup {NoCred}, args : Args \cup {Foreign, NoArgs}]

TypeOK ==
    /\ passkeys \subseteq Creds
    /\ cred \in [Creds -> Record]
    /\ put \in [Tasks -> Put]
    /\ session \in Session
    /\ conn \in Creds \cup {NoCred}
    /\ task \in [Tasks -> Task]
    /\ txState \in [TxIds -> {"unused", "pending", "success", "failed"}]
    /\ txCreate \in [TxIds -> Create]

\* Transaction h created the wallet of c.
Created(h, c) == txState[h] = "success" /\ txCreate[h].cred = c

\* The contract instance of c is on the ledger.
Born(c) == \E h \in TxIds : Created(h, c)

\* It was created with constructor arguments that name the user's signer.
BornApproved(c) == \E h \in TxIds : Created(h, c) /\ txCreate[h].args \in Args

-----------------------------------------------------------------------------
(* Small steps the operations share. *)

chain == <<txState, txCreate>>

\* StorageAdapter.update, of the record r it makes of the one it reads: nothing
\* happens to a record that is not there.
Update(t, c, r) ==
    \/ /\ cred[c] = Absent
       /\ UNCHANGED <<cred, put>>
    \/ /\ cred[c] # Absent
       /\ AtomicUpdate
       /\ cred' = [cred EXCEPT ![c] = r]
       /\ UNCHANGED put
    \/ /\ cred[c] # Absent
       /\ ~AtomicUpdate
       /\ put' = [put EXCEPT ![t] = [cred |-> c, record |-> r]]
       /\ UNCHANGED cred

SetStatus(t, c, s) == Update(t, c, [cred[c] EXCEPT !.status = s])

\* The second half of an update that is not atomic: the record it read, changed,
\* over what is there by now, be it nothing.
Write(t) ==
    /\ put[t] # NoPut
    /\ cred' = [cred EXCEPT ![put[t].cred] = put[t].record]
    /\ put' = [put EXCEPT ![t] = NoPut]
    /\ UNCHANGED <<passkeys, session, conn, task, chain>>

Goto(t, p) == task' = [task EXCEPT ![t].pc = p]

End(t) == task' = [task EXCEPT ![t] = Idle]

At(t, p) == task[t].pc = p /\ put[t] = NoPut

-----------------------------------------------------------------------------
(* Creating a wallet: createWallet, credentials.create / save / deploy.    *)

\* createPasskey: the WebAuthn ceremony makes a passkey nobody has seen.
CreatePasskey(c) ==
    /\ c \notin passkeys
    /\ passkeys' = passkeys \cup {c}

\* createWallet up to its first storage call: the record of a new passkey is
\* saved before anything is built.
CreateWallet(t, c) ==
    /\ CreatePasskey(c)
    /\ At(t, "idle")
    /\ cred' = [cred EXCEPT ![c] = NewRecord(TRUE)]
    /\ task' = [task EXCEPT ![t] =
                  [Idle EXCEPT !.pc = "build", !.op = "createWallet",
                               !.cred = c, !.args = DefaultArgs]]
    /\ UNCHANGED <<put, session, conn, chain>>

\* credentials.create: the same, with an empty contractId and no deployment.
CreateCredential(c) ==
    /\ CreatePasskey(c)
    /\ cred' = [cred EXCEPT ![c] = NewRecord(FALSE)]
    /\ UNCHANGED <<put, session, conn, task, chain>>

\* credentials.save writes a whole new pending record over what was there.
SaveCredential(c) ==
    /\ c \in passkeys
    /\ \E bound \in BOOLEAN : cred' = [cred EXCEPT ![c] = NewRecord(bound)]
    /\ UNCHANGED <<passkeys, put, session, conn, task, chain>>

\* credentials.deploy: the record must exist; its status is not looked at.
Deploy(t, c, a) ==
    /\ cred[c] # Absent
    /\ At(t, "idle")
    /\ task' = [task EXCEPT ![t] =
                  [Idle EXCEPT !.pc = "build", !.op = "deploy",
                               !.cred = c, !.args = a]]
    /\ UNCHANGED <<passkeys, cred, put, session, conn, chain>>

\* A signature of a stored passkey ends in an update of lastUsedAt, which is not
\* modelled; the rest of the record is written back as it was read.
Touch(t, c) ==
    /\ At(t, "idle")
    /\ Update(t, c, cred[c])
    /\ UNCHANGED <<passkeys, session, conn, task, chain>>

\* An auth entry is signed when it is built, an envelope only if it simulated.
Signable(c) == SharedDeployer \/ ~Born(c)

\* buildDeployTransaction, then the update with describeDeploymentBirth.  The
\* shared deployer needs the simulated authorization, which the network does
\* not give for an address that is taken; the envelope route reads nothing of
\* the simulation here and describes the deployment all the same.
Build(t) ==
    LET c == task[t].cred IN
    /\ At(t, "build")
    /\ SharedDeployer => ~Born(c)
    /\ Update(t, c, [cred[c] EXCEPT !.args = task[t].args])
    /\ task' = [task EXCEPT ![t] = [@ EXCEPT !.pc = "submit", !.ok = Signable(c)]]
    /\ UNCHANGED <<passkeys, session, conn, chain>>

\* The operation ends with nothing sent.  The build throws (an RPC error, a
\* refused simulation); or the deployment is not submitted: an envelope whose
\* simulation failed cannot be signed, the shared deployer is refused off the
\* relayer route (sharedDeployerFeeError), or autoSubmit is off and the caller
\* never uses the artifacts.
GiveUp(t) ==
    /\ At(t, "build") \/ At(t, "submit")
    /\ End(t)
    /\ UNCHANGED <<passkeys, cred, put, session, conn, chain>>

\* A transaction that carries this deployment reaches the network under hash h.
Broadcast(t, h) ==
    /\ txState[h] = "unused"
    /\ txState' = [txState EXCEPT ![h] = "pending"]
    /\ txCreate' = [txCreate EXCEPT ![h] =
                      [cred |-> task[t].cred, args |-> task[t].args]]

Signed(t) == At(t, "submit") /\ task[t].ok

\* autoSubmit is off: the caller gets the artifacts and submits them itself.
HandOver(t, h) ==
    /\ Signed(t)
    /\ Broadcast(t, h)
    /\ End(t)
    /\ UNCHANGED <<passkeys, cred, put, session, conn>>

\* submitDeploymentTx through the relayer, on either route.
SubmitToRelayer(t, h) ==
    /\ Signed(t)
    /\ HasRelayer
    /\ Broadcast(t, h)
    /\ task' = [task EXCEPT ![t].pc = "sent", ![t].hash = h]
    /\ UNCHANGED <<passkeys, cred, put, session, conn>>

\* submitDeploymentTx through tx.send(), which only the envelope route has.
SubmitToRpc(t, h) ==
    /\ Signed(t)
    /\ ~SharedDeployer
    /\ Broadcast(t, h)
    /\ task' = [task EXCEPT ![t].pc = "rpc", ![t].hash = h]
    /\ UNCHANGED <<passkeys, cred, put, session, conn>>

\* The relayer answers with a hash.  It is an outside service: the hash may be
\* that of any transaction it knows.
RelayerAccepts(t, h) ==
    /\ At(t, "sent")
    /\ txState[h] # "unused"
    /\ task' = [task EXCEPT ![t].pc = "poll", ![t].hash = h]
    /\ UNCHANGED <<passkeys, cred, put, session, conn, chain>>

\* The submission ends without success: a storage update, and a result with
\* success false for the caller.
Settle(t, status) ==
    /\ SetStatus(t, task[t].cred, status)
    /\ End(t)
    /\ UNCHANGED <<passkeys, session, conn, chain>>

\* The relayer reports a failure, or no hash, whatever became of what it was
\* sent: no hash is known, so the record is "failed".
RelayerFails(t) ==
    /\ At(t, "sent")
    /\ Settle(t, "failed")

\* On the envelope route an unforced relayer failure falls back to tx.send()
\* with the same signed envelope, hence the same hash.
RelayerFallsBack(t) ==
    /\ At(t, "sent")
    /\ ~SharedDeployer
    /\ Goto(t, "rpc")
    /\ UNCHANGED <<passkeys, cred, put, session, conn, chain>>

\* tx.send() throws with no hash the code keeps: refused, or the network fails
\* while it waits.
RpcThrows(t) ==
    /\ At(t, "rpc")
    /\ Settle(t, "failed")

\* The wait for the transaction ends: after tx.send() or pollTransaction.
Confirmed(t) ==
    /\ task[t].pc \in {"rpc", "poll"}
    /\ txState[task[t].hash] = "success"
    /\ Goto(t, "confirm")
    /\ UNCHANGED <<passkeys, cred, put, session, conn, chain>>

FailedOnChain(t) ==
    /\ task[t].pc \in {"rpc", "poll"}
    /\ txState[task[t].hash] = "failed"
    /\ Settle(t, "failed")

\* Mutant of TimedOut: polling has no limit of attempts.
TimedOutOverRpcOnly(t) ==
    /\ At(t, "rpc")
    /\ Settle(t, "pending")

\* Ten attempts, or a polling error, with the hash known: still "pending".
TimedOut(t) ==
    /\ task[t].pc \in {"rpc", "poll"}
    /\ Settle(t, "pending")

\* Mutant of CarriesDeployment: any successful transaction will do.
CarriesAnything(t) == txState[task[t].hash] = "success"

\* confirmSubmittedDeployment: the transaction is read again and must have
\* succeeded with exactly this deployment's CreateContractV2.
CarriesDeployment(t) ==
    /\ txState[task[t].hash] = "success"
    /\ txCreate[task[t].hash] = [cred |-> task[t].cred, args |-> task[t].args]

RecordDeployed(t) ==
    /\ At(t, "confirm")
    /\ CarriesDeployment(t)
    /\ Update(t, task[t].cred,
              [cred[task[t].cred] EXCEPT !.status = "deployed",
                                         !.creation = task[t].hash])
    /\ Goto(t, "finish")
    /\ UNCHANGED <<passkeys, session, conn, chain>>

\* It is unavailable, or is not this deployment; the hash is known.
NotConfirmed(t) ==
    /\ At(t, "confirm")
    /\ Settle(t, "pending")

\* Mutant of Finish: the session is stored and the connection forgotten.
FinishUnconnected(t) ==
    /\ At(t, "finish")
    /\ session' = IF task[t].op = "createWallet"
                  THEN [cred |-> task[t].cred, expired |-> FALSE] ELSE session
    /\ End(t)
    /\ UNCHANGED <<passkeys, cred, put, conn, chain>>

\* Back in the caller, with success: both connect; only createWallet stores a
\* session.
Finish(t) ==
    /\ At(t, "finish")
    /\ conn' = task[t].cred
    /\ session' = IF task[t].op = "createWallet"
                  THEN [cred |-> task[t].cred, expired |-> FALSE] ELSE session
    /\ End(t)
    /\ UNCHANGED <<passkeys, cred, put, chain>>

-----------------------------------------------------------------------------
(* Reconciling records with the chain: sync, syncAll and delete.           *)

\* hasVerifiedBirth.
VerifiedBirth(r) ==
    r.status = "deployed" /\ r.args # NoArgs /\ r.creation # NoTx

\* sync reads the record, and what it decides later it decides on this reading.
Looking(op, c, todo) ==
    [Idle EXCEPT !.pc = "look", !.op = op, !.cred = c,
                 !.ok = VerifiedBirth(cred[c]), !.todo = todo]

\* sync and delete both throw if there is no record.
Reconcile(t, c) ==
    /\ cred[c] # Absent
    /\ At(t, "idle")
    /\ \E op \in {"sync", "delete"} :
         task' = [task EXCEPT ![t] = Looking(op, c, {})]
    /\ UNCHANGED <<passkeys, cred, put, session, conn, chain>>

\* syncAll lists the records and syncs them one after the other.
SyncAll(t) ==
    /\ At(t, "idle")
    /\ task' = [task EXCEPT ![t] =
                  [Idle EXCEPT !.pc = "next", !.op = "syncAll",
                               !.todo = {c \in Creds : cred[c] # Absent}]]
    /\ UNCHANGED <<passkeys, cred, put, session, conn, chain>>

\* A record deleted meanwhile makes sync, and with it syncAll, throw.
SyncNext(t) ==
    /\ At(t, "next")
    /\ \/ /\ task[t].todo = {}
          /\ End(t)
       \/ \E c \in task[t].todo :
            \/ cred[c] = Absent /\ End(t)
            \/ /\ cred[c] # Absent
               /\ task' = [task EXCEPT ![t] = Looking("syncAll", c, @.todo \ {c})]
    /\ UNCHANGED <<passkeys, cred, put, session, conn, chain>>

\* How sync returns: to nobody, to syncAll's loop, or false to delete.
SyncReturns(t, deployed) ==
    CASE task[t].op = "syncAll" -> Goto(t, "next")
      [] task[t].op = "delete" /\ ~deployed -> Goto(t, "erase")
      [] OTHER -> End(t)

\* getContractData answers and the record was verified: sync is true, and
\* delete throws.
SyncDeployed(t) ==
    /\ At(t, "look")
    /\ Born(task[t].cred)
    /\ task[t].ok
    /\ SyncReturns(t, TRUE)
    /\ UNCHANGED <<passkeys, cred, put, session, conn, chain>>

\* Mutant of SyncOccupied: an error of the RPC server counts as an answer.
SyncOccupiedOnError(t) ==
    /\ At(t, "look")
    /\ ~task[t].ok
    /\ SetStatus(t, task[t].cred, "occupied")
    /\ SyncReturns(t, FALSE)
    /\ UNCHANGED <<passkeys, session, conn, chain>>

\* It answers and the record was not verified when it was read.
SyncOccupied(t) ==
    /\ At(t, "look")
    /\ Born(task[t].cred)
    /\ ~task[t].ok
    /\ SetStatus(t, task[t].cred, "occupied")
    /\ SyncReturns(t, FALSE)
    /\ UNCHANGED <<passkeys, session, conn, chain>>

\* Nothing at the address, or any error of the RPC server: sync is false.
SyncUnseen(t) ==
    /\ At(t, "look")
    /\ SyncReturns(t, FALSE)
    /\ UNCHANGED <<passkeys, cred, put, session, conn, chain>>

Erase(t) ==
    /\ At(t, "erase")
    /\ cred' = [cred EXCEPT ![task[t].cred] = Absent]
    /\ End(t)
    /\ UNCHANGED <<passkeys, put, session, conn, chain>>

-----------------------------------------------------------------------------
(* Connecting: connectWallet, connectWithCredentials and disconnect.       *)

\* candidateFromStoredCredential: the record itself claims a creation.
ClaimsBirth(r) == r.bound /\ r.args # NoArgs /\ r.creation # NoTx

\* The credential record is read first, and whatever the connection takes from
\* it, to the record it saves at the end, is of this reading.
Connecting(op, c) ==
    [Idle EXCEPT !.pc = "chain", !.op = op, !.cred = c, !.args = cred[c].args,
                 !.hash = IF ClaimsBirth(cred[c]) THEN cred[c].creation ELSE NoTx,
                 !.ok = cred[c].status \notin {"absent", "failed"}]

Prompting == [Idle EXCEPT !.pc = "ceremony", !.op = "asserted"]

\* connectWallet({ credentialId }).
ConnectExplicit(t, c) ==
    /\ At(t, "idle")
    /\ task' = [task EXCEPT ![t] = Connecting("explicit", c)]
    /\ UNCHANGED <<passkeys, cred, put, session, conn, chain>>

\* connectWallet({ fresh: true }), or { prompt: true } with no session to try:
\* straight to the WebAuthn ceremony.
ConnectFresh(t) ==
    /\ At(t, "idle")
    /\ task' = [task EXCEPT ![t] = Prompting]
    /\ UNCHANGED <<passkeys, cred, put, session, conn, chain>>

\* connectWallet() and connectWallet({ prompt: true }) with a live session.
Restore(t) ==
    /\ session.cred # NoCred
    /\ ~session.expired
    /\ At(t, "idle")
    /\ \E op \in {"restore", "restorePrompt"} :
         task' = [task EXCEPT ![t] = Connecting(op, session.cred)]
    /\ UNCHANGED <<passkeys, cred, put, session, conn, chain>>

\* The same with an expired one: it is cleared, and the prompt is the way on.
RestoreExpired(t) ==
    /\ session.expired
    /\ At(t, "idle")
    /\ session' = NoSession
    /\ \/ UNCHANGED task
       \/ task' = [task EXCEPT ![t] = Prompting]
    /\ UNCHANGED <<passkeys, cred, put, conn, chain>>

\* The user picks a passkey in the prompt, or the ceremony throws.
Asserted(t) ==
    /\ At(t, "ceremony")
    /\ \/ End(t)
       \/ \E c \in passkeys :
            task' = [task EXCEPT ![t] = Connecting("asserted", c)]
    /\ UNCHANGED <<passkeys, cred, put, session, conn, chain>>

\* WalletProvenanceError, WalletOwnershipError or WalletCodeNotAcceptedError:
\* a restore drops the stored session, whatever it holds by now, and goes on to
\* the prompt if it was asked to; every other caller just sees the error.
Rejected(t) ==
    /\ session' = IF task[t].op \in {"restore", "restorePrompt"}
                  THEN NoSession ELSE session
    /\ IF task[t].op = "restorePrompt"
       THEN task' = [task EXCEPT ![t] = Prompting]
       ELSE End(t)
    /\ UNCHANGED <<passkeys, cred, put, conn, chain>>

\* getContractData throws: nothing at the address, or any error of the RPC
\* server.  Unless it read a failed record the code now calls it pending.
ChainMissing(t) ==
    /\ At(t, "chain")
    /\ IF task[t].ok
       THEN SetStatus(t, task[t].cred, "pending") ELSE UNCHANGED <<cred, put>>
    /\ End(t)
    /\ UNCHANGED <<passkeys, session, conn, chain>>

\* locallyApproved, for a primary passkey: the record had birth arguments.
LocallyApproved(t) == task[t].args # NoArgs

\* The instance is there.  Its code is accepted, and the birth claim comes from
\* the record or else from the indexer; or it is not.
ChainRead(t) ==
    /\ At(t, "chain")
    /\ Born(task[t].cred)
    /\ \/ /\ task' = [task EXCEPT ![t] =
                        [@ EXCEPT !.pc = IF task[t].hash # NoTx THEN "birth" ELSE "lookup"]]
          /\ UNCHANGED <<passkeys, cred, put, session, conn, chain>>
       \/ Rejected(t)

\* lookupWalletCandidates: a complete answer names a creation transaction, but
\* nothing says that it is the right one.
Candidate(h) == txState[h] # "unused"

\* The indexer gives one fresh and complete claim for the address, or there is no
\* such answer.
Lookup(t) ==
    /\ At(t, "lookup")
    /\ \/ /\ \E h \in TxIds :
               /\ Candidate(h)
               /\ task' = [task EXCEPT ![t].pc = "birth", ![t].hash = h]
          /\ UNCHANGED <<passkeys, cred, put, session, conn, chain>>
       \/ Rejected(t)

\* Mutant of BirthMatches: whoever the arguments name is good enough.
BirthMatchesAnyArgs(t) == Created(task[t].hash, task[t].cred)

\* Mutant of BirthMatches: the result of the transaction is not looked at.
BirthMatchesUnexecuted(t) ==
    txCreate[task[t].hash] =
      [cred |-> task[t].cred,
       args |-> IF LocallyApproved(t) THEN task[t].args ELSE DefaultArgs]

\* validateConstructor: what the wallet must have been created with is what the
\* record approved or else the default policies.
ApprovedArgs(t) == IF LocallyApproved(t) THEN task[t].args ELSE DefaultArgs

\* verifyWalletBirth and signerMatchesCredential: the claimed transaction
\* succeeded, created this wallet, with the approved arguments, and for this
\* passkey.
BirthMatches(t) ==
    /\ Created(task[t].hash, task[t].cred)
    /\ txCreate[task[t].hash].args = ApprovedArgs(t)

BirthVerified(t) ==
    /\ At(t, "birth")
    /\ BirthMatches(t)
    /\ Goto(t, "rule")
    /\ UNCHANGED <<passkeys, cred, put, session, conn, chain>>

\* It does not match, or neither RPC nor the history server knows it any more.
BirthRejected(t) ==
    /\ At(t, "birth")
    /\ Rejected(t)

\* The record written over the old one once everything is verified.
VerifiedRecord(h) == [status |-> "deployed", bound |-> TRUE,
                      args |-> txCreate[h].args, creation |-> h]

SaveVerified(t) ==
    /\ cred' = [cred EXCEPT ![task[t].cred] = VerifiedRecord(task[t].hash)]
    /\ Goto(t, "welcome")
    /\ UNCHANGED <<passkeys, put, session, conn, chain>>

\* The passkey is one exact live signer of rule 0 and nothing else is needed.
RuleApproved(t) ==
    /\ At(t, "rule")
    /\ LocallyApproved(t)
    /\ SaveVerified(t)

\* Mutant of RuleNeedsProof: allowAuthentication is not looked at.
RuleNeedsProofOfAnyone(t) ==
    /\ At(t, "rule")
    /\ ~LocallyApproved(t)
    /\ Goto(t, "assert")
    /\ UNCHANGED <<passkeys, cred, put, session, conn, chain>>

\* It is, and a fresh assertion is needed: the one of the prompt, or a new one
\* unless this is a silent restore (allowAuthentication false).
RuleNeedsProof(t) ==
    /\ At(t, "rule")
    /\ ~LocallyApproved(t)
    /\ task[t].op \in {"explicit", "asserted"}
    /\ Goto(t, "assert")
    /\ UNCHANGED <<passkeys, cred, put, session, conn, chain>>

\* It is not, or the restore has no proof to give.
RuleRejected(t) ==
    /\ At(t, "rule")
    /\ Rejected(t)

ProofVerified(t) ==
    /\ At(t, "assert")
    /\ SaveVerified(t)

\* Any other error of a read or of the authenticator, thrown to the caller: it
\* leaves the session as it is.
ConnectThrows(t) ==
    /\ task[t].pc \in {"lookup", "birth", "rule", "assert"}
    /\ End(t)
    /\ UNCHANGED <<passkeys, cred, put, session, conn, chain>>

\* setConnectedState and saveSession, in one turn of the event loop.
Welcome(t) ==
    /\ At(t, "welcome")
    /\ conn' = task[t].cred
    /\ session' = [cred |-> task[t].cred, expired |-> FALSE]
    /\ End(t)
    /\ UNCHANGED <<passkeys, cred, put, chain>>

Disconnect ==
    /\ conn' = NoCred
    /\ session' = NoSession
    /\ UNCHANGED <<passkeys, cred, put, task, chain>>

-----------------------------------------------------------------------------
(* The rest of the world.                                                  *)

\* The page goes away with everything in memory; storage stays.
Reload ==
    /\ conn' = NoCred
    /\ task' = [t \in Tasks |-> Idle]
    /\ put' = [t \in Tasks |-> NoPut]
    /\ UNCHANGED <<passkeys, cred, session, chain>>

SessionExpires ==
    /\ session.cred # NoCred
    /\ session' = [session EXCEPT !.expired = TRUE]
    /\ UNCHANGED <<passkeys, cred, put, conn, task, chain>>

\* The network executes a pending create: an address is created at most once.
Land(h) ==
    /\ txState[h] = "pending"
    /\ txState' = [txState EXCEPT ![h] =
                     IF Born(txCreate[h].cred) THEN "failed" ELSE "success"]
    /\ UNCHANGED <<passkeys, cred, put, session, conn, task, txCreate>>

Fail(h) ==
    /\ txState[h] = "pending"
    /\ txState' = [txState EXCEPT ![h] = "failed"]
    /\ UNCHANGED <<passkeys, cred, put, session, conn, task, txCreate>>

\* Another device of the user, or anybody, creates the wallet of a passkey.
CreatedElsewhere(h, c, a) ==
    /\ c \in passkeys
    /\ ~Born(c)
    /\ txState[h] = "unused"
    /\ txState' = [txState EXCEPT ![h] = "success"]
    /\ txCreate' = [txCreate EXCEPT ![h] = [cred |-> c, args |-> a]]
    /\ UNCHANGED <<passkeys, cred, put, session, conn, task>>

-----------------------------------------------------------------------------

Init ==
    /\ passkeys \in SUBSET Creds
    /\ cred = [c \in Creds |-> Absent]
    /\ session = NoSession
    /\ conn = NoCred
    /\ task = [t \in Tasks |-> Idle]
    /\ put = [t \in Tasks |-> NoPut]
    /\ txState = [h \in TxIds |-> "unused"]
    /\ txCreate = [h \in TxIds |-> [cred |-> NoCred, args |-> NoArgs]]

\* What the user or the application may call at any time.
Call(t) ==
    \/ \E c \in Creds :
         \/ CreateWallet(t, c)
         \/ \E a \in Args : Deploy(t, c, a)
         \/ Touch(t, c)
         \/ Reconcile(t, c)
         \/ ConnectExplicit(t, c)
    \/ SyncAll(t)
    \/ ConnectFresh(t)
    \/ Restore(t)
    \/ RestoreExpired(t)

\* What an operation in flight does next.
DeployStep(t) ==
    \/ Build(t) \/ GiveUp(t)
    \/ \E h \in TxIds : \/ HandOver(t, h)
                        \/ SubmitToRelayer(t, h)
                        \/ SubmitToRpc(t, h)
                        \/ RelayerAccepts(t, h)
    \/ RelayerFails(t) \/ RelayerFallsBack(t) \/ RpcThrows(t)
    \/ Confirmed(t) \/ FailedOnChain(t) \/ TimedOut(t)
    \/ RecordDeployed(t) \/ NotConfirmed(t) \/ Finish(t)

SyncStep(t) ==
    SyncNext(t) \/ SyncDeployed(t) \/ SyncOccupied(t) \/ SyncUnseen(t) \/ Erase(t)

ConnectStep(t) ==
    \/ Asserted(t) \/ ChainMissing(t) \/ ChainRead(t) \/ Lookup(t)
    \/ BirthVerified(t) \/ BirthRejected(t)
    \/ RuleApproved(t) \/ RuleNeedsProof(t) \/ RuleRejected(t)
    \/ ProofVerified(t) \/ ConnectThrows(t) \/ Welcome(t)

Step(t) == Write(t) \/ DeployStep(t) \/ SyncStep(t) \/ ConnectStep(t)

World ==
    \/ \E c \in Creds : CreateCredential(c) \/ SaveCredential(c)
    \/ Disconnect \/ Reload \/ SessionExpires
    \/ \E h \in TxIds :
         \/ Land(h) \/ Fail(h)
         \/ \E c \in Creds, a \in Args \cup {Foreign} : CreatedElsewhere(h, c, a)

Next == World \/ \E t \in Tasks : Call(t) \/ Step(t)

\* Every promise an operation awaits settles: WebAuthn, indexer and relayer
\* calls have timeouts, pollTransaction makes ten attempts, and a request to the
\* RPC server is answered or refused by the platform's fetch.
Fairness == \A t \in Tasks : WF_vars(Step(t))

Spec == Init /\ [][Next]_vars /\ Fairness

-----------------------------------------------------------------------------
(* Safety. *)

\* wallet-ops.ts: "A derived address is only a prediction until deployment
\* succeeds."  Whatever overlaps, the wallet the kit is connected to, and the
\* one a reload would restore, was created on the ledger with constructor
\* arguments that name the user's own signer, never by somebody else's create
\* of the same address.
ConnectionIsApproved ==
    \A c \in Creds : (conn = c \/ session.cred = c) => BornApproved(c)

\* What record r of passkey c claims about the ledger.
RecordIsTrue(c, r) ==
    /\ r.status = "occupied" => Born(c)
    /\ r.status = "deployed" => r.creation # NoTx
    /\ r.creation # NoTx => /\ Created(r.creation, c)
                           /\ txCreate[r.creation].args \in Args

\* StoredCredential.deploymentStatus and creationTransactionHash state facts
\* about the ledger, however stale the record the write was decided on: an
\* occupied address exists, a deployed wallet has a confirmed creation, and
\* that creation, kept through later changes of status, is the transaction
\* that created the wallet, for the user's own signer.
RecordsAreTrue == \A c \in Creds : RecordIsTrue(c, cred[c])

\* connectWithCredentials with allowAuthentication false: a silent restore that
\* gets as far as connecting does so on a birth whose constructor arguments a
\* local deployment or an earlier verified connection put in the record.
SilentRestoreIsApproved ==
    \A t \in Tasks :
      task[t].op \in {"restore", "restorePrompt"} /\ task[t].pc = "welcome"
        => LocallyApproved(t) /\ txCreate[task[t].hash].args = task[t].args

\* The birth of a wallet happens once: no operation, however stale the record
\* it started from, replaces a recorded creation transaction by another one.
CreationIsStable ==
    [][\A c \in Creds :
         cred[c].creation # NoTx /\ cred'[c].creation # NoTx
           => cred'[c].creation = cred[c].creation]_vars

\* The client keeps the promises of WalletConnection: a connection, a session
\* or a deployed record only ever appears for a wallet that is there, a session
\* only together with the connection to the same wallet.
Promise == INSTANCE WalletConnection WITH
    Wallets <- Creds,
    None <- NoCred,
    created <- {c \in Creds : BornApproved(c)},
    verified <- {c \in Creds : cred[c].status = "deployed"},
    connected <- conn,
    remembered <- session.cred

KeepsPromise == Promise!Spec

\* The inductive strengthening of the safety properties: what each operation
\* knows at the await it is waiting at, and that an address is created once.
TaskIsTrue(t) ==
    LET k == task[t] IN
    /\ k.pc \notin {"idle", "next", "ceremony"} => k.cred \in Creds
    /\ k.pc \in {"build", "submit", "sent", "rpc", "poll", "confirm"}
         => k.args \in Args
    /\ k.pc \in {"sent", "rpc", "poll", "confirm", "birth"} => k.hash \in TxIds
    /\ k.pc = "finish" =>
         /\ k.hash \in TxIds
         /\ Created(k.hash, k.cred)
         /\ txCreate[k.hash].args \in Args
    /\ k.pc \in {"rule", "assert", "welcome"} => k.hash \in TxIds /\ BirthMatches(t)
    /\ k.pc = "assert" => k.op \in {"explicit", "asserted"}

TasksAreTrue == \A t \in Tasks : TaskIsTrue(t)

\* What an update is about to write is true, and was when it was read.
WritesAreTrue ==
    \A t \in Tasks : put[t] # NoPut =>
      put[t].cred \in Creds /\ RecordIsTrue(put[t].cred, put[t].record)

BirthIsUnique ==
    \A c \in Creds : \A g, h \in TxIds : Created(g, c) /\ Created(h, c) => g = h

Inv ==
    /\ TypeOK
    /\ TasksAreTrue
    /\ BirthIsUnique
    /\ RecordsAreTrue
    /\ WritesAreTrue
    /\ ConnectionIsApproved
    /\ SilentRestoreIsApproved

(* Liveness. *)

\* Every operation ends, whatever the network answers and however its user
\* cancels: no wait is open-ended, and no fallback or prompt leads back to
\* where it came from.
OperationsEnd == \A t \in Tasks : ~At(t, "idle") ~> At(t, "idle")

(* What the repository says of the program and it does not keep. *)

\* README.md:544, "Delete a pending credential (throws if it is actually
\* deployed on-chain)": a record that holds its wallet's confirmed creation is
\* never deleted.
DeleteThrowsIfDeployed ==
    [][\A c \in Creds : cred[c].creation # NoTx => cred'[c] # Absent]_vars

\* types.ts:97, "pending: Credential created locally, deployment not yet
\* attempted or in progress": no pending record has a confirmed creation.
PendingIsNotYetDeployed ==
    \A c \in Creds : cred[c].status = "pending" => cred[c].creation = NoTx

\* types.ts:99 and 119, "deployed: Deployment and immutable birth are verified"
\* and "Hash of the complete immutable constructor argument vector": the
\* arguments of a deployed record are those its wallet was created with.
DeployedArgsAreImmutable ==
    \A c \in Creds :
      cred[c].status = "deployed" /\ cred[c].args # NoArgs
        => cred[c].args = txCreate[cred[c].creation].args

=============================================================================
