----------------------- MODULE CredentialLifecycleProofs -----------------------
(***************************************************************************)
(* The safety properties of CredentialLifecycle, for every number of       *)
(* passkeys, transactions, policies and overlapping operations.            *)
(*                                                                         *)
(* Inv is inductive.  Each of its conjuncts is kept by a lemma of its own, *)
(* and those about records, connection and session rest on two lemmas that *)
(* list every way a step can change them: StorageMoves, ConnectionMoves.   *)
(***************************************************************************)
EXTENDS CredentialLifecycle, Integers, FiniteSetTheorems, TLAPS

-----------------------------------------------------------------------------
(* The types of what the operations put in the variables.                  *)

\* A task that does nothing is a task.
LEMMA IdleType == Idle \in Task
  BY DEF Idle, Task, Pcs, Ops

\* A task that waits for the WebAuthn prompt is a task.
LEMMA PromptingType == Prompting \in Task
  BY DEF Prompting, Idle, Task, Pcs, Ops

\* A connection begins as a task, whatever record it reads.
LEMMA ConnectingType ==
    ASSUME TypeOK, NEW op \in Ops, NEW c \in Creds
    PROVE  Connecting(op, c) \in Task
  <1>1. cred[c] \in Record
    BY DEF TypeOK
  <1> QED BY <1>1 DEF Connecting, Idle, Task, Pcs, Record

\* A task that moves to its next await is a task.
LEMMA GotoType ==
    ASSUME TypeOK, NEW t \in Tasks, NEW p \in Pcs, Goto(t, p)
    PROVE  task' \in [Tasks -> Task]
  BY DEF TypeOK, Goto, Task

\* A task that ends leaves tasks.
LEMMA EndType ==
    ASSUME TypeOK, NEW t \in Tasks, End(t)
    PROVE  task' \in [Tasks -> Task]
  BY IdleType DEF TypeOK, End

\* No record, and the two kinds of new record, are records.
LEMMA NewRecordType ==
    Absent \in Record /\ \A b \in BOOLEAN : NewRecord(b) \in Record
  BY ConstantsAssumption DEF NewRecord, Record, Absent, Status

\* Nothing to put is a put.
LEMMA NoPutType == NoPut \in Put
  BY NewRecordType DEF NoPut, Put

\* An update with a record keeps the types of storage.
LEMMA UpdateType ==
    ASSUME TypeOK, NEW t \in Tasks, NEW c \in Creds, NEW r \in Record, Update(t, c, r)
    PROVE  cred' \in [Creds -> Record] /\ put' \in [Tasks -> Put]
  <1>1. [cred |-> c, record |-> r] \in Put
    BY DEF Put
  <1> QED BY <1>1 DEF TypeOK, Update

\* So does a status update.
LEMMA SetStatusType ==
    ASSUME TypeOK, NEW t \in Tasks, NEW c \in Creds, NEW s \in Status,
           SetStatus(t, c, s)
    PROVE  cred' \in [Creds -> Record] /\ put' \in [Tasks -> Put]
  <1>1. [cred[c] EXCEPT !.status = s] \in Record
    BY DEF TypeOK, Record
  <1> QED BY <1>1, UpdateType DEF SetStatus

\* A create that reaches the network keeps the types of the ledger.
LEMMA BroadcastType ==
    ASSUME TypeOK, NEW t \in Tasks, NEW h \in TxIds, Broadcast(t, h)
    PROVE  /\ txState' \in [TxIds -> {"unused", "pending", "success", "failed"}]
           /\ txCreate' \in [TxIds -> Create]
  BY DEF TypeOK, Broadcast, Task, Create

\* Reading the record for sync gives a task.
LEMMA LookingType ==
    ASSUME NEW op \in {"sync", "delete", "syncAll"}, NEW c \in Creds,
           NEW todo \in SUBSET Creds
    PROVE  Looking(op, c, todo) \in Task
  <1>1. VerifiedBirth(cred[c]) \in BOOLEAN
    BY DEF VerifiedBirth
  <1> QED BY <1>1 DEF Looking, Idle, Task, Pcs, Ops

-----------------------------------------------------------------------------
(* Type correctness.                                                       *)

\* The calls of the application keep the types.
LEMMA TypeOfCall ==
    ASSUME TypeOK, NEW t \in Tasks, Call(t)
    PROVE  TypeOK'
  <1> USE DEF TypeOK, chain
  <1>1. ASSUME NEW c \in Creds, CreateWallet(t, c) PROVE TypeOK'
    <2>1. [Idle EXCEPT !.pc = "build", !.op = "createWallet",
                       !.cred = c, !.args = DefaultArgs] \in Task
      BY ConstantsAssumption DEF Idle, Task, Pcs, Ops
    <2> QED BY <1>1, <2>1, NewRecordType DEF CreateWallet, CreatePasskey
  <1>2. ASSUME NEW c \in Creds, NEW a \in Args, Deploy(t, c, a) PROVE TypeOK'
    <2>1. [Idle EXCEPT !.pc = "build", !.op = "deploy",
                       !.cred = c, !.args = a] \in Task
      BY DEF Idle, Task, Pcs, Ops
    <2> QED BY <1>2, <2>1 DEF Deploy
  <1>3. ASSUME NEW c \in Creds, Reconcile(t, c) PROVE TypeOK'
    BY <1>3, LookingType DEF Reconcile
  <1>4. ASSUME NEW c \in Creds, ConnectExplicit(t, c) PROVE TypeOK'
    BY <1>4, ConnectingType DEF ConnectExplicit, Ops
  <1>5. ASSUME SyncAll(t) PROVE TypeOK'
    <2>1. [Idle EXCEPT !.pc = "next", !.op = "syncAll",
                       !.todo = {c \in Creds : cred[c] # Absent}] \in Task
      BY DEF Idle, Task, Pcs, Ops
    <2> QED BY <1>5, <2>1 DEF SyncAll
  <1>6. ASSUME ConnectFresh(t) PROVE TypeOK'
    BY <1>6, PromptingType DEF ConnectFresh
  <1>7. ASSUME Restore(t) PROVE TypeOK'
    BY <1>7, ConnectingType DEF Restore, Ops, Session
  <1>8. ASSUME RestoreExpired(t) PROVE TypeOK'
    <2>1. session' \in Session
      BY <1>8 DEF RestoreExpired, Session, NoSession
    <2>2. task' \in [Tasks -> Task]
      BY <1>8, PromptingType DEF RestoreExpired
    <2> QED BY <1>8, <2>1, <2>2 DEF RestoreExpired
  <1>9. ASSUME NEW c \in Creds, Touch(t, c) PROVE TypeOK'
    BY <1>9, UpdateType DEF Touch
  <1> QED BY <1>1, <1>2, <1>3, <1>4, <1>5, <1>6, <1>7, <1>8, <1>9 DEF Call

\* The ends of a submission that did not succeed keep the types.
LEMMA TypeOfSettle ==
    ASSUME TypeOK, NEW t \in Tasks, task[t].cred \in Creds,
           NEW s \in Status, Settle(t, s)
    PROVE  TypeOK'
  BY SetStatusType, EndType DEF Settle, TypeOK, chain

\* The steps of a deployment keep the types.
LEMMA TypeOfDeployStep ==
    ASSUME Inv, NEW t \in Tasks, DeployStep(t)
    PROVE  TypeOK'
  <1> USE DEF TypeOK, chain
  <1>0. TypeOK /\ TasksAreTrue /\ task[t] \in Task
    BY DEF Inv
  <1>1. ASSUME Build(t) PROVE TypeOK'
    <2>1. task[t].args \in Args
      BY <1>0, <1>1 DEF TasksAreTrue, TaskIsTrue, Build, At
    <2>2. cred' \in [Creds -> Record] /\ put' \in [Tasks -> Put]
      <3>1. task[t].cred \in Creds
        BY <1>0, <1>1 DEF TasksAreTrue, TaskIsTrue, Build, At
      <3>2. [cred[task[t].cred] EXCEPT !.args = task[t].args] \in Record
        BY <1>0, <2>1, <3>1 DEF Record
      <3> QED BY <1>0, <1>1, <3>1, <3>2, UpdateType DEF Build
    <2>3. Signable(task[t].cred) \in BOOLEAN
      BY DEF Signable
    <2>4. task' \in [Tasks -> Task]
      BY <1>0, <1>1, <2>3 DEF Build, Task, Pcs
    <2> QED BY <1>0, <1>1, <2>2, <2>4 DEF Build
  <1>2. ASSUME GiveUp(t) PROVE TypeOK'
    BY <1>0, <1>2, EndType DEF GiveUp
  <1>3. ASSUME NEW h \in TxIds, HandOver(t, h) PROVE TypeOK'
    BY <1>0, <1>3, EndType, BroadcastType DEF HandOver
  <1>4. ASSUME NEW h \in TxIds, SubmitToRelayer(t, h) \/ SubmitToRpc(t, h) PROVE TypeOK'
    <2>1. task' \in [Tasks -> Task]
      BY <1>0, <1>4 DEF SubmitToRelayer, SubmitToRpc, Task, Pcs
    <2> QED BY <1>0, <1>4, <2>1, BroadcastType DEF SubmitToRelayer, SubmitToRpc
  <1>5. ASSUME NEW h \in TxIds, RelayerAccepts(t, h) PROVE TypeOK'
    BY <1>0, <1>5 DEF RelayerAccepts, Task, Pcs
  <1>6. ASSUME \/ RelayerFails(t) \/ RpcThrows(t) \/ FailedOnChain(t)
               \/ TimedOut(t) \/ NotConfirmed(t)
        PROVE TypeOK'
    <2>1. task[t].cred \in Creds
      BY <1>0, <1>6 DEF TasksAreTrue, TaskIsTrue, At,
            RelayerFails, RpcThrows, FailedOnChain, TimedOut, NotConfirmed
    <2> QED BY <1>0, <1>6, <2>1, TypeOfSettle
         DEF RelayerFails, RpcThrows, FailedOnChain, TimedOut, NotConfirmed, Status
  <1>7. ASSUME RelayerFallsBack(t) \/ Confirmed(t) PROVE TypeOK'
    BY <1>0, <1>7, GotoType DEF RelayerFallsBack, Confirmed, Pcs
  <1>8. ASSUME RecordDeployed(t) PROVE TypeOK'
    <2>1. cred' \in [Creds -> Record] /\ put' \in [Tasks -> Put]
      <3>1. task[t].hash \in TxIds \cup {NoTx}
        BY <1>0 DEF Task
      <3>2. task[t].cred \in Creds
        BY <1>0, <1>8 DEF TasksAreTrue, TaskIsTrue, At, RecordDeployed
      <3>3. ASSUME NEW r \in Record
            PROVE  [r EXCEPT !.status = "deployed", !.creation = task[t].hash] \in Record
        BY <3>1 DEF Record, Status
      <3>4. cred[task[t].cred] \in Record
        BY <1>0, <3>2
      <3> QED BY <1>0, <1>8, <3>2, <3>3, <3>4, UpdateType DEF RecordDeployed
    <2>2. task' \in [Tasks -> Task]
      BY <1>0, <1>8, GotoType DEF RecordDeployed, Pcs
    <2> QED BY <1>0, <1>8, <2>1, <2>2 DEF RecordDeployed
  <1>9. ASSUME Finish(t) PROVE TypeOK'
    <2>1. session' \in Session /\ conn' \in Creds \cup {NoCred}
      BY <1>0, <1>9 DEF Finish, Task, Session
    <2> QED BY <1>0, <1>9, <2>1, EndType DEF Finish
  <1> QED BY <1>1, <1>2, <1>3, <1>4, <1>5, <1>6, <1>7, <1>8, <1>9 DEF DeployStep

\* The steps of sync, syncAll and delete keep the types.
LEMMA TypeOfSyncStep ==
    ASSUME Inv, NEW t \in Tasks, SyncStep(t)
    PROVE  TypeOK'
  <1> USE DEF TypeOK, chain
  <1>0. TypeOK /\ task[t] \in Task
    BY DEF Inv
  <1>1. ASSUME SyncNext(t) PROVE TypeOK'
    <2>1. CASE End(t)
      BY <1>0, <1>1, <2>1, EndType DEF SyncNext
    <2>2. ASSUME NEW c \in task[t].todo,
                 task' = [task EXCEPT ![t] = Looking("syncAll", c, @.todo \ {c})]
          PROVE TypeOK'
      <3>1. c \in Creds /\ task[t].todo \ {c} \in SUBSET Creds
        BY <1>0 DEF Task
      <3>2. Looking("syncAll", c, task[t].todo \ {c}) \in Task
        BY <3>1, LookingType
      <3> QED BY <1>0, <1>1, <2>2, <3>2 DEF SyncNext
    <2> QED BY <1>1, <2>1, <2>2 DEF SyncNext
  <1>2. ASSUME NEW d \in BOOLEAN, SyncReturns(t, d) PROVE task' \in [Tasks -> Task]
    BY <1>0, <1>2, EndType, GotoType DEF SyncReturns, Pcs
  <1>3. ASSUME SyncDeployed(t) \/ SyncUnseen(t) PROVE TypeOK'
    BY <1>0, <1>2, <1>3 DEF SyncDeployed, SyncUnseen
  <1>4. ASSUME SyncOccupied(t) PROVE TypeOK'
    <2>1. task[t].cred \in Creds
      BY <1>4 DEF Inv, TasksAreTrue, TaskIsTrue, At, SyncOccupied
    <2> QED BY <1>0, <1>2, <1>4, <2>1, SetStatusType DEF SyncOccupied, Status
  <1>5. ASSUME Erase(t) PROVE TypeOK'
    BY <1>0, <1>5, EndType, NewRecordType DEF Erase
  <1> QED BY <1>1, <1>3, <1>4, <1>5 DEF SyncStep

\* What a connection has found out by the time it reads the live rule.
LEMMA VerifiedClaim ==
    ASSUME Inv, NEW t \in Tasks, task[t].pc \in {"rule", "assert", "welcome"}
    PROVE  /\ task[t].cred \in Creds
           /\ task[t].hash \in TxIds
           /\ Created(task[t].hash, task[t].cred)
           /\ txCreate[task[t].hash].args \in Args
  <1>1. /\ task[t].cred \in Creds
        /\ task[t].hash \in TxIds
        /\ BirthMatches(t)
    BY DEF Inv, TasksAreTrue, TaskIsTrue
  <1>2. task[t].args \in Args \cup {NoArgs}
    BY DEF Inv, TypeOK, Task
  <1> QED BY <1>1, <1>2, ConstantsAssumption DEF BirthMatches, ApprovedArgs,
        LocallyApproved

\* The steps of a connection keep the types.
LEMMA TypeOfConnectStep ==
    ASSUME Inv, NEW t \in Tasks, ConnectStep(t)
    PROVE  TypeOK'
  <1> USE DEF TypeOK, chain
  <1>0. TypeOK /\ task[t] \in Task
    BY DEF Inv
  <1>1. ASSUME Rejected(t) PROVE TypeOK'
    BY <1>0, <1>1, EndType, PromptingType DEF Rejected, Session, NoSession
  <1>2. ASSUME BirthRejected(t) \/ RuleRejected(t) PROVE TypeOK'
    BY <1>1, <1>2 DEF BirthRejected, RuleRejected
  <1>3. ASSUME Asserted(t) PROVE TypeOK'
    <2>1. ASSUME NEW c \in passkeys,
                 task' = [task EXCEPT ![t] = Connecting("asserted", c)]
          PROVE  task' \in [Tasks -> Task]
      BY <1>0, <2>1, ConnectingType DEF Ops
    <2> QED BY <1>0, <1>3, <2>1, EndType DEF Asserted
  <1>4. ASSUME ChainMissing(t) PROVE TypeOK'
    <2>1. task[t].cred \in Creds
      BY <1>4 DEF Inv, TasksAreTrue, TaskIsTrue, At, ChainMissing
    <2> QED BY <1>0, <1>4, <2>1, EndType, SetStatusType DEF ChainMissing, Status
  <1>5. ASSUME ChainRead(t) PROVE TypeOK'
    <2>1. ASSUME NEW p \in {"birth", "lookup"},
                 task' = [task EXCEPT ![t] = [@ EXCEPT !.pc = p]]
          PROVE  task' \in [Tasks -> Task]
      BY <1>0, <2>1 DEF Task, Pcs
    <2> QED BY <1>0, <1>1, <1>5, <2>1 DEF ChainRead
  <1>6. ASSUME Lookup(t) PROVE TypeOK'
    <2>1. ASSUME NEW h \in TxIds,
                 task' = [task EXCEPT ![t].pc = "birth", ![t].hash = h]
          PROVE  task' \in [Tasks -> Task]
      BY <1>0, <2>1 DEF Task, Pcs
    <2> QED BY <1>0, <1>1, <1>6, <2>1 DEF Lookup, Candidate
  <1>7. ASSUME BirthVerified(t) \/ RuleNeedsProof(t) PROVE TypeOK'
    BY <1>0, <1>7, GotoType DEF BirthVerified, RuleNeedsProof, Pcs
  <1>8. ASSUME RuleApproved(t) \/ ProofVerified(t) PROVE TypeOK'
    <2>1. task[t].pc \in {"rule", "assert"} /\ SaveVerified(t)
      BY <1>8 DEF RuleApproved, ProofVerified, At
    <2>2. VerifiedRecord(task[t].hash) \in Record
      BY <2>1, VerifiedClaim DEF VerifiedRecord, Record, Status
    <2>3. cred' \in [Creds -> Record]
      BY <1>0, <2>1, <2>2 DEF SaveVerified
    <2> QED BY <1>0, <2>1, <2>3, GotoType DEF SaveVerified, Pcs
  <1>9. ASSUME ConnectThrows(t) PROVE TypeOK'
    BY <1>0, <1>9, EndType DEF ConnectThrows
  <1>10. ASSUME Welcome(t) PROVE TypeOK'
    BY <1>0, <1>10, EndType DEF Welcome, Task, Session
  <1> QED BY <1>2, <1>3, <1>4, <1>5, <1>6, <1>7, <1>8, <1>9, <1>10 DEF ConnectStep

\* What happens outside the operations keeps the types.
LEMMA TypeOfWorld ==
    ASSUME TypeOK, World
    PROVE  TypeOK'
  <1> USE DEF TypeOK, chain
  <1>1. ASSUME NEW c \in Creds, CreateCredential(c) \/ SaveCredential(c) PROVE TypeOK'
    BY <1>1, NewRecordType DEF CreateCredential, CreatePasskey, SaveCredential
  <1>2. ASSUME Disconnect PROVE TypeOK'
    BY <1>2 DEF Disconnect, Session, NoSession
  <1>3. ASSUME Reload PROVE TypeOK'
    BY <1>3, IdleType, NoPutType DEF Reload
  <1>4. ASSUME SessionExpires PROVE TypeOK'
    BY <1>4 DEF SessionExpires, Session
  <1>5. ASSUME NEW h \in TxIds, Land(h) \/ Fail(h) PROVE TypeOK'
    BY <1>5 DEF Land, Fail
  <1>6. ASSUME NEW h \in TxIds, NEW c \in Creds, NEW a \in Args \cup {Foreign},
               CreatedElsewhere(h, c, a)
        PROVE TypeOK'
    BY <1>6 DEF CreatedElsewhere, Create
  <1> QED BY <1>1, <1>2, <1>3, <1>4, <1>5, <1>6 DEF World

\* Every step keeps the types.
LEMMA TypeOfStep ==
    ASSUME Inv, [Next]_vars
    PROVE  TypeOK'
  <1>0. TypeOK
    BY DEF Inv
  <1>1. CASE UNCHANGED vars
    BY <1>0, <1>1 DEF TypeOK, vars
  <1>2. ASSUME NEW t \in Tasks, Write(t) PROVE TypeOK'
    BY <1>0, <1>2, NoPutType DEF Write, TypeOK, Put, chain
  <1>3. CASE Next
    BY <1>0, <1>2, <1>3, TypeOfCall, TypeOfDeployStep, TypeOfSyncStep,
       TypeOfConnectStep, TypeOfWorld DEF Next, Step
  <1> QED BY <1>1, <1>3

-----------------------------------------------------------------------------
(* The ledger.                                                             *)

\* The steps that touch the ledger: a create is sent, executed, or arrives from
\* elsewhere.  All others leave it alone.
LEMMA LedgerMoves ==
    ASSUME [Next]_vars
    PROVE  \/ UNCHANGED chain
           \/ \E t \in Tasks, h \in TxIds : Broadcast(t, h)
           \/ \E h \in TxIds : Land(h) \/ Fail(h)
           \/ \E h \in TxIds, c \in Creds, a \in Args \cup {Foreign} :
                CreatedElsewhere(h, c, a)
  <1> USE DEF chain
  <1>1. CASE UNCHANGED vars
    BY <1>1 DEF vars
  <1>2. CASE World
    BY <1>2 DEF World, CreateCredential, CreatePasskey, SaveCredential,
           Disconnect, Reload, SessionExpires
  <1>3. ASSUME NEW t \in Tasks, Call(t) \/ Write(t) PROVE UNCHANGED chain
    BY <1>3 DEF Call, CreateWallet, CreatePasskey, Deploy, Reconcile, Touch, Write,
           ConnectExplicit, SyncAll, ConnectFresh, Restore, RestoreExpired
  <1>4. ASSUME NEW t \in Tasks, DeployStep(t)
        PROVE  UNCHANGED chain \/ \E h \in TxIds : Broadcast(t, h)
    BY <1>4 DEF DeployStep, Build, GiveUp, HandOver, SubmitToRelayer, SubmitToRpc,
          RelayerAccepts, RelayerFails, RelayerFallsBack, RpcThrows, Confirmed,
          FailedOnChain, TimedOut, RecordDeployed, NotConfirmed, Finish, Settle
  <1>5. ASSUME NEW t \in Tasks, SyncStep(t) PROVE UNCHANGED chain
    BY <1>5 DEF SyncStep, SyncNext, SyncDeployed, SyncOccupied, SyncUnseen, Erase
  <1>6. ASSUME NEW t \in Tasks, ConnectStep(t) PROVE UNCHANGED chain
    BY <1>6 DEF ConnectStep, Asserted, ChainMissing, ChainRead, Lookup,
           Candidate, BirthVerified, BirthRejected, RuleApproved,
           RuleNeedsProof, RuleRejected, ProofVerified, ConnectThrows, Welcome,
           Rejected, SaveVerified
  <1> QED BY <1>1, <1>2, <1>3, <1>4, <1>5, <1>6 DEF Next, Step

\* A creation is for good: it stays, with what it created.
LEMMA CreationsStay ==
    ASSUME TypeOK, [Next]_vars, NEW h \in TxIds, NEW c, Created(h, c)
    PROVE  Created(h, c)' /\ txCreate'[h] = txCreate[h]
  <1>1. CASE UNCHANGED chain
    BY <1>1 DEF chain, Created
  <1>2. ASSUME NEW t \in Tasks, NEW g \in TxIds, Broadcast(t, g)
        PROVE  Created(h, c)' /\ txCreate'[h] = txCreate[h]
    BY <1>2 DEF Broadcast, Created, TypeOK
  <1>3. ASSUME NEW g \in TxIds, Land(g) \/ Fail(g)
        PROVE  Created(h, c)' /\ txCreate'[h] = txCreate[h]
    BY <1>3 DEF Land, Fail, Created, TypeOK
  <1>4. ASSUME NEW g \in TxIds, NEW d \in Creds, NEW a \in Args \cup {Foreign},
               CreatedElsewhere(g, d, a)
        PROVE  Created(h, c)' /\ txCreate'[h] = txCreate[h]
    BY <1>4 DEF CreatedElsewhere, Created, TypeOK
  <1> QED BY <1>1, <1>2, <1>3, <1>4, LedgerMoves

\* So do the existence of a wallet and its approval.
LEMMA WalletsStay ==
    ASSUME TypeOK, [Next]_vars, NEW c
    PROVE  /\ Born(c) => Born(c)'
           /\ BornApproved(c) => BornApproved(c)'
  BY CreationsStay DEF Born, BornApproved

\* An address is created once.
LEMMA UniqueBirthOfStep ==
    ASSUME Inv, [Next]_vars
    PROVE  BirthIsUnique'
  <1>0. TypeOK /\ BirthIsUnique
    BY DEF Inv
  <1>1. CASE UNCHANGED chain
    BY <1>0, <1>1 DEF chain, Created, BirthIsUnique
  <1>2. ASSUME NEW t \in Tasks, NEW h \in TxIds, Broadcast(t, h)
        PROVE  BirthIsUnique'
    BY <1>0, <1>2 DEF Broadcast, Created, BirthIsUnique, TypeOK
  <1>3. ASSUME NEW h \in TxIds, Land(h) PROVE BirthIsUnique'
    BY <1>0, <1>3 DEF Land, Created, Born, BirthIsUnique, TypeOK
  <1>4. ASSUME NEW h \in TxIds, Fail(h) PROVE BirthIsUnique'
    BY <1>0, <1>4 DEF Fail, Created, BirthIsUnique, TypeOK
  <1>5. ASSUME NEW h \in TxIds, NEW c \in Creds, NEW a \in Args \cup {Foreign},
               CreatedElsewhere(h, c, a)
        PROVE  BirthIsUnique'
    BY <1>0, <1>5 DEF CreatedElsewhere, Created, Born, BirthIsUnique, TypeOK
  <1> QED BY <1>1, <1>2, <1>3, <1>4, <1>5, LedgerMoves

-----------------------------------------------------------------------------
(* Records.                                                                *)

\* What an operation may make of the record of c: leave it, delete it, write a
\* new one, describe a deployment, mark it without a claim about the ledger, mark
\* an address that is taken, or record a creation of c for the user's signer.
RecordChange(c, r) ==
    \/ r = cred[c]
    \/ r \in {Absent, NewRecord(TRUE), NewRecord(FALSE)}
    \/ \E a \in Args : r = [cred[c] EXCEPT !.args = a]
    \/ \E s \in {"pending", "failed"} : r = [cred[c] EXCEPT !.status = s]
    \/ Born(c) /\ r = [cred[c] EXCEPT !.status = "occupied"]
    \/ \E h \in TxIds :
         /\ Created(h, c)
         /\ txCreate[h].args \in Args
         /\ \/ r = [cred[c] EXCEPT !.status = "deployed", !.creation = h]
            \/ r = VerifiedRecord(h)

\* Record r is put in place in one transaction: save or delete.
Stored(c, r) == cred' = [cred EXCEPT ![c] = r] /\ UNCHANGED put

\* What a step may do to storage: nothing, forget the writes in flight, finish
\* one, or store or update a record with such a change of it.
StorageMove ==
    \/ UNCHANGED <<cred, put>>
    \/ put' = [t \in Tasks |-> NoPut] /\ UNCHANGED cred
    \/ \E t \in Tasks : Write(t)
    \/ \E c \in Creds : \E r :
         /\ RecordChange(c, r)
         /\ Stored(c, r) \/ \E t \in Tasks : Update(t, c, r)

\* A status update moves storage.
LEMMA StatusMove ==
    ASSUME NEW t \in Tasks, NEW c \in Creds, NEW s, SetStatus(t, c, s),
           s \in {"pending", "failed"} \/ (s = "occupied" /\ Born(c))
    PROVE  StorageMove
  <1>1. RecordChange(c, [cred[c] EXCEPT !.status = s])
    BY DEF RecordChange
  <1> QED BY <1>1 DEF SetStatus, StorageMove

\* What a deployment does to storage.
LEMMA StorageOfDeployStep ==
    ASSUME Inv, NEW t \in Tasks, DeployStep(t)
    PROVE  StorageMove
  <1>0. TasksAreTrue
    BY DEF Inv
  <1>1. CASE Build(t)
    <2>1. task[t].args \in Args /\ task[t].cred \in Creds
      BY <1>0, <1>1 DEF TasksAreTrue, TaskIsTrue, Build, At
    <2>2. RecordChange(task[t].cred, [cred[task[t].cred] EXCEPT !.args = task[t].args])
      BY <2>1 DEF RecordChange
    <2> QED BY <1>1, <2>1, <2>2 DEF Build, StorageMove
  <1>2. CASE \/ RelayerFails(t) \/ RpcThrows(t) \/ FailedOnChain(t)
             \/ TimedOut(t) \/ NotConfirmed(t)
    <2>1. task[t].cred \in Creds
      BY <1>0, <1>2 DEF TasksAreTrue, TaskIsTrue, At,
            RelayerFails, RpcThrows, FailedOnChain, TimedOut, NotConfirmed
    <2> QED BY <1>2, <2>1, StatusMove
         DEF RelayerFails, RpcThrows, FailedOnChain, TimedOut, NotConfirmed, Settle
  <1>3. CASE RecordDeployed(t)
    <2>1. /\ task[t].cred \in Creds
          /\ task[t].args \in Args
          /\ task[t].hash \in TxIds
      BY <1>0, <1>3 DEF TasksAreTrue, TaskIsTrue, RecordDeployed, At
    <2>2. Created(task[t].hash, task[t].cred) /\ txCreate[task[t].hash].args \in Args
      BY <1>3, <2>1 DEF RecordDeployed, CarriesDeployment, Created
    <2>3. RecordChange(task[t].cred,
                       [cred[task[t].cred] EXCEPT !.status = "deployed",
                                                  !.creation = task[t].hash])
      BY <2>1, <2>2 DEF RecordChange
    <2> QED BY <1>3, <2>1, <2>3 DEF RecordDeployed, StorageMove
  <1>4. CASE UNCHANGED <<cred, put>>
    BY <1>4 DEF StorageMove
  <1> QED BY <1>1, <1>2, <1>3, <1>4
       DEF DeployStep, GiveUp, HandOver, SubmitToRelayer, SubmitToRpc,
           RelayerAccepts, RelayerFallsBack, Confirmed, Finish

\* What sync, syncAll and delete do to storage.
LEMMA StorageOfSyncStep ==
    ASSUME Inv, NEW t \in Tasks, SyncStep(t)
    PROVE  StorageMove
  <1>0. TasksAreTrue
    BY DEF Inv
  <1>1. CASE SyncOccupied(t)
    <2>1. task[t].cred \in Creds
      BY <1>0, <1>1 DEF TasksAreTrue, TaskIsTrue, SyncOccupied, At
    <2> QED BY <1>1, <2>1, StatusMove DEF SyncOccupied
  <1>2. CASE Erase(t)
    <2>1. task[t].cred \in Creds
      BY <1>0, <1>2 DEF TasksAreTrue, TaskIsTrue, Erase, At
    <2>2. RecordChange(task[t].cred, Absent) /\ Stored(task[t].cred, Absent)
      BY <1>2 DEF RecordChange, Stored, Erase
    <2> QED BY <2>1, <2>2 DEF StorageMove
  <1>3. CASE UNCHANGED <<cred, put>>
    BY <1>3 DEF StorageMove
  <1> QED BY <1>1, <1>2, <1>3 DEF SyncStep, SyncNext, SyncDeployed, SyncUnseen

\* What a connection does to storage.
LEMMA StorageOfConnectStep ==
    ASSUME Inv, NEW t \in Tasks, ConnectStep(t)
    PROVE  StorageMove
  <1>0. TasksAreTrue
    BY DEF Inv
  <1>1. CASE UNCHANGED <<cred, put>>
    BY <1>1 DEF StorageMove
  <1>2. CASE ChainMissing(t)
    <2>1. task[t].cred \in Creds
      BY <1>0, <1>2 DEF TasksAreTrue, TaskIsTrue, ChainMissing, At
    <2> QED BY <1>1, <1>2, <2>1, StatusMove DEF ChainMissing
  <1>3. CASE RuleApproved(t) \/ ProofVerified(t)
    <2>1. task[t].pc \in {"rule", "assert"} /\ SaveVerified(t)
      BY <1>3 DEF RuleApproved, ProofVerified, At
    <2>2. RecordChange(task[t].cred, VerifiedRecord(task[t].hash))
      BY <2>1, VerifiedClaim DEF RecordChange
    <2>3. Stored(task[t].cred, VerifiedRecord(task[t].hash))
      BY <2>1 DEF SaveVerified, Stored
    <2> QED BY <2>1, <2>2, <2>3, VerifiedClaim DEF StorageMove
  <1> QED BY <1>1, <1>2, <1>3
       DEF ConnectStep, Asserted, ChainRead, Lookup, Candidate, BirthVerified,
           BirthRejected, RuleNeedsProof, RuleRejected, ConnectThrows, Welcome,
           Rejected

\* Every way a step can move storage.
LEMMA StorageMoves ==
    ASSUME Inv, [Next]_vars
    PROVE  StorageMove
  <1>1. CASE UNCHANGED <<cred, put>>
    BY <1>1 DEF StorageMove
  <1>2. ASSUME NEW c \in Creds, NEW b \in BOOLEAN,
               cred' = [cred EXCEPT ![c] = NewRecord(b)], UNCHANGED put
        PROVE  StorageMove
    <2>1. RecordChange(c, NewRecord(b)) /\ Stored(c, NewRecord(b))
      BY <1>2 DEF RecordChange, Stored
    <2> QED BY <2>1 DEF StorageMove
  <1>3. CASE World
    BY <1>1, <1>2, <1>3 DEF World, CreateCredential, CreatePasskey, SaveCredential,
           Disconnect, Reload, SessionExpires, Land, Fail, CreatedElsewhere,
           StorageMove
  <1>4. ASSUME NEW t \in Tasks, Call(t) PROVE StorageMove
    <2>1. ASSUME NEW c \in Creds, CreateWallet(t, c) PROVE StorageMove
      BY <1>2, <2>1 DEF CreateWallet
    <2>2. ASSUME NEW c \in Creds, Touch(t, c) PROVE StorageMove
      BY <2>2 DEF Touch, RecordChange, StorageMove
    <2> QED BY <1>1, <1>4, <2>1, <2>2 DEF Call, Deploy, Reconcile,
         ConnectExplicit, SyncAll, ConnectFresh, Restore, RestoreExpired
  <1>5. CASE UNCHANGED vars
    BY <1>1, <1>5 DEF vars
  <1> QED BY <1>3, <1>4, <1>5, StorageOfDeployStep, StorageOfSyncStep,
             StorageOfConnectStep DEF Next, Step, StorageMove

\* RecordIsTrue of r after the step, when the ledger has moved on.
StaysTrue(c, r) ==
    /\ r.status = "occupied" => Born(c)'
    /\ r.status = "deployed" => r.creation # NoTx
    /\ r.creation # NoTx => /\ txState'[r.creation] = "success"
                           /\ txCreate'[r.creation].cred = c
                           /\ txCreate'[r.creation].args \in Args

\* A creation of c for the user's signer is one after every step.
LEMMA CreationStaysTrue ==
    ASSUME TypeOK, [Next]_vars, NEW c, NEW h \in TxIds,
           Created(h, c), txCreate[h].args \in Args
    PROVE  /\ txState'[h] = "success"
           /\ txCreate'[h].cred = c
           /\ txCreate'[h].args \in Args
  BY CreationsStay DEF Created

\* A true record stays true, wherever it is held.
LEMMA TruthStays ==
    ASSUME TypeOK, [Next]_vars, NEW c, NEW r \in Record, RecordIsTrue(c, r)
    PROVE  StaysTrue(c, r)
  <1>1. r.creation # NoTx => r.creation \in TxIds
    BY DEF Record
  <1>2. Born(c) => Born(c)'
    BY WalletsStay
  <1> QED BY <1>1, <1>2, CreationStaysTrue DEF RecordIsTrue, StaysTrue

\* Every change of a true record is true.
LEMMA ChangeIsTrue ==
    ASSUME Inv, [Next]_vars, NEW c \in Creds, NEW r, RecordChange(c, r)
    PROVE  StaysTrue(c, r)
  <1>0. /\ TypeOK
        /\ cred[c] \in Record
        /\ RecordIsTrue(c, cred[c])
    BY DEF Inv, RecordsAreTrue, TypeOK
  <1>1. StaysTrue(c, cred[c])
    BY <1>0, TruthStays
  <1>2. Born(c) => Born(c)'
    BY <1>0, WalletsStay
  <1>3. CASE r \in {Absent, NewRecord(TRUE), NewRecord(FALSE)}
    <2>1. Absent.status = "absent" /\ Absent.creation = NoTx
      BY DEF Absent
    <2>2. ASSUME NEW b
          PROVE  NewRecord(b).status = "pending" /\ NewRecord(b).creation = NoTx
      BY DEF NewRecord, Absent
    <2> QED BY <1>3, <2>1, <2>2 DEF StaysTrue
  <1>4. ASSUME NEW a \in Args, r = [cred[c] EXCEPT !.args = a]
        PROVE  StaysTrue(c, r)
    <2>1. r.status = cred[c].status /\ r.creation = cred[c].creation
      BY <1>0, <1>4 DEF Record
    <2> QED BY <1>1, <2>1 DEF StaysTrue
  <1>5. ASSUME NEW s, r = [cred[c] EXCEPT !.status = s],
               s \in {"pending", "failed"} \/ (s = "occupied" /\ Born(c))
        PROVE  StaysTrue(c, r)
    <2>1. r.status = s /\ r.creation = cred[c].creation
      BY <1>0, <1>5 DEF Record
    <2> QED BY <1>1, <1>2, <1>5, <2>1 DEF StaysTrue
  <1>6. ASSUME NEW h \in TxIds, Created(h, c), txCreate[h].args \in Args,
               \/ r = [cred[c] EXCEPT !.status = "deployed", !.creation = h]
               \/ r = VerifiedRecord(h)
        PROVE  StaysTrue(c, r)
    <2>1. CASE r = [cred[c] EXCEPT !.status = "deployed", !.creation = h]
      <3>1. r.status = "deployed" /\ r.creation = h
        BY <1>0, <2>1 DEF Record
      <3> QED BY <1>0, <1>6, <3>1, CreationStaysTrue, ConstantsAssumption DEF StaysTrue
    <2>2. CASE r = VerifiedRecord(h)
      <3>1. r.status = "deployed" /\ r.creation = h
        BY <2>2 DEF VerifiedRecord
      <3> QED BY <1>0, <1>6, <3>1, CreationStaysTrue, ConstantsAssumption DEF StaysTrue
    <2> QED BY <1>6, <2>1, <2>2
  <1> QED BY <1>1, <1>3, <1>4, <1>5, <1>6 DEF RecordChange

\* An update in flight is typed and true.
LEMMA TruePut ==
    ASSUME Inv, NEW t \in Tasks, put[t] # NoPut
    PROVE  /\ put[t].cred \in Creds
           /\ put[t].record \in Record
           /\ RecordIsTrue(put[t].cred, put[t].record)
  BY DEF Inv, TypeOK, Put, WritesAreTrue

\* So the records stay true.
LEMMA RecordsOfStep ==
    ASSUME Inv, [Next]_vars
    PROVE  RecordsAreTrue'
  <1> SUFFICES ASSUME NEW c \in Creds PROVE StaysTrue(c, cred'[c])
    BY DEF RecordsAreTrue, RecordIsTrue, StaysTrue, Created
  <1>0. TypeOK
    BY DEF Inv
  <1>1. CASE cred'[c] = cred[c]
    BY <1>1, ChangeIsTrue DEF RecordChange
  <1>2. ASSUME NEW t \in Tasks, Write(t) PROVE StaysTrue(c, cred'[c])
    <2>1. cred'[c] = cred[c] \/ (c = put[t].cred /\ cred'[c] = put[t].record)
      BY <1>0, <1>2 DEF Write, TypeOK
    <2>2. put[t] # NoPut
      BY <1>2 DEF Write
    <2>3. StaysTrue(put[t].cred, put[t].record)
      BY <1>0, <2>2, TruePut, TruthStays
    <2> QED BY <1>1, <2>1, <2>3
  <1>3. ASSUME NEW d \in Creds, NEW r, RecordChange(d, r),
               Stored(d, r) \/ \E t \in Tasks : Update(t, d, r)
        PROVE  StaysTrue(c, cred'[c])
    <2>1. cred'[c] = cred[c] \/ (c = d /\ cred'[c] = r)
      BY <1>0, <1>3 DEF Stored, Update, TypeOK
    <2>2. StaysTrue(d, r)
      BY <1>3, ChangeIsTrue
    <2> QED BY <1>1, <2>1, <2>2
  <1> QED BY <1>1, <1>2, <1>3, StorageMoves DEF StorageMove

\* And so do the updates in flight, however long they take.
LEMMA WritesOfStep ==
    ASSUME Inv, [Next]_vars
    PROVE  WritesAreTrue'
  <1> DEFINE Holds(u, c) == put'[u].cred = c /\ StaysTrue(c, put'[u].record)
  <1>0. TypeOK
    BY DEF Inv
  <1>1. ASSUME NEW u \in Tasks, NEW c \in Creds, Holds(u, c)
        PROVE  /\ put'[u].cred \in Creds
               /\ RecordIsTrue(put[u].cred, put[u].record)'
    BY <1>1 DEF RecordIsTrue, StaysTrue, Born, Created
  <1> SUFFICES ASSUME NEW u \in Tasks, put'[u] # NoPut
               PROVE  \E c \in Creds : Holds(u, c)
    BY <1>1 DEF WritesAreTrue
  <1>2. CASE put'[u] = put[u]
    BY <1>0, <1>2, TruePut, TruthStays
  <1>3. CASE put' = [t \in Tasks |-> NoPut]
    BY <1>3
  <1>4. ASSUME NEW t \in Tasks, Write(t) PROVE put'[u] = put[u]
    BY <1>0, <1>4 DEF Write, TypeOK
  <1>5. ASSUME NEW c \in Creds, NEW r, RecordChange(c, r),
               Stored(c, r) \/ \E t \in Tasks : Update(t, c, r)
        PROVE  \E d \in Creds : Holds(u, d)
    <2>1. put'[u] = put[u] \/ put'[u] = [cred |-> c, record |-> r]
      BY <1>0, <1>5 DEF Stored, Update, TypeOK
    <2>2. StaysTrue(c, r)
      BY <1>5, ChangeIsTrue
    <2> QED BY <1>2, <2>1, <2>2
  <1> QED BY <1>2, <1>3, <1>4, <1>5, StorageMoves DEF StorageMove

-----------------------------------------------------------------------------
(* The connection and the session.                                         *)

\* What a step may do to the two: nothing but an expiry, forget the session
\* and perhaps the connection, lose the connection, or connect to a wallet
\* created for the user's signer.
ConnectionMove ==
    \/ conn' = conn /\ session'.cred = session.cred
    \/ conn' \in {conn, NoCred} /\ session'.cred = NoCred
    \/ conn' = NoCred /\ session'.cred = session.cred
    \/ \E c \in Creds : /\ BornApproved(c)
                        /\ conn' = c
                        /\ session'.cred \in {c, session.cred}

\* No session holds no credential.
LEMMA NoSessionHoldsNone == NoSession.cred = NoCred
  BY DEF NoSession

\* Every way a step can move the connection and the session.
LEMMA ConnectionMoves ==
    ASSUME Inv, [Next]_vars
    PROVE  ConnectionMove
  <1>0. TypeOK /\ TasksAreTrue
    BY DEF Inv
  <1>1. CASE UNCHANGED <<conn, session>>
    BY <1>1 DEF ConnectionMove
  <1>2. CASE World
    BY <1>0, <1>1, <1>2, NoSessionHoldsNone
       DEF World, CreateCredential, CreatePasskey, SaveCredential, Disconnect,
           Reload, SessionExpires, Land, Fail, CreatedElsewhere, TypeOK,
           Session, ConnectionMove
  <1>3. ASSUME NEW t \in Tasks, Call(t) \/ Write(t) PROVE ConnectionMove
    BY <1>1, <1>3, NoSessionHoldsNone
       DEF Call, CreateWallet, CreatePasskey, Deploy, Reconcile, Touch, Write,
           ConnectExplicit, SyncAll, ConnectFresh, Restore, RestoreExpired,
           ConnectionMove
  <1>4. ASSUME NEW t \in Tasks, Finish(t) PROVE ConnectionMove
    <2>1. /\ task[t].cred \in Creds
          /\ BornApproved(task[t].cred)
      BY <1>0, <1>4 DEF Finish, At, TasksAreTrue, TaskIsTrue, BornApproved
    <2>2. session'.cred \in {task[t].cred, session.cred}
      BY <1>4 DEF Finish
    <2> QED BY <1>4, <2>1, <2>2 DEF Finish, ConnectionMove
  <1>5. ASSUME NEW t \in Tasks, DeployStep(t) PROVE ConnectionMove
    BY <1>1, <1>4, <1>5
       DEF DeployStep, Build, GiveUp, HandOver, SubmitToRelayer, SubmitToRpc,
           RelayerAccepts, RelayerFails, RelayerFallsBack, RpcThrows, Confirmed,
           FailedOnChain, TimedOut, RecordDeployed, NotConfirmed, Settle
  <1>6. ASSUME NEW t \in Tasks, SyncStep(t) PROVE ConnectionMove
    BY <1>1, <1>6 DEF SyncStep, SyncNext, SyncDeployed, SyncOccupied, SyncUnseen, Erase
  <1>7. ASSUME NEW t \in Tasks, Welcome(t) PROVE ConnectionMove
    <2>1. At(t, "welcome")
      BY <1>7 DEF Welcome
    <2>2. task[t].cred \in Creds /\ BornApproved(task[t].cred)
      BY <2>1, VerifiedClaim DEF At, BornApproved
    <2>3. conn' = task[t].cred /\ session'.cred = task[t].cred
      BY <1>7 DEF Welcome
    <2> QED BY <2>2, <2>3 DEF ConnectionMove
  <1>8. ASSUME NEW t \in Tasks, Rejected(t) PROVE ConnectionMove
    BY <1>8, NoSessionHoldsNone DEF Rejected, ConnectionMove
  <1>9. ASSUME NEW t \in Tasks, ConnectStep(t) PROVE ConnectionMove
    BY <1>1, <1>7, <1>8, <1>9
       DEF ConnectStep, Asserted, ChainMissing, ChainRead, Lookup, Candidate,
           BirthVerified, BirthRejected, RuleApproved, RuleNeedsProof,
           RuleRejected, ProofVerified, ConnectThrows, SaveVerified
  <1>10. CASE UNCHANGED vars
    BY <1>1, <1>10 DEF vars
  <1> QED BY <1>2, <1>3, <1>5, <1>6, <1>9, <1>10 DEF Next, Step

\* So the connection stays one to an approved wallet.
LEMMA ConnectionOfStep ==
    ASSUME Inv, [Next]_vars
    PROVE  ConnectionIsApproved'
  <1>1. \A c \in Creds : BornApproved(c) => BornApproved(c)'
    BY WalletsStay DEF Inv
  <1>2. \A c \in Creds : c # NoCred /\ (conn = c \/ session.cred = c => BornApproved(c))
    BY ConstantsAssumption DEF Inv, ConnectionIsApproved
  <1>3. ConnectionMove
    BY ConnectionMoves
  <1> QED BY <1>1, <1>2, <1>3 DEF ConnectionMove, ConnectionIsApproved

-----------------------------------------------------------------------------
(* What the operations know at their awaits.                               *)

\* What an operation knows stays true while others move.
LEMMA WaitingTask ==
    ASSUME Inv, [Next]_vars, NEW t \in Tasks, task'[t] = task[t]
    PROVE  TaskIsTrue(t)'
  <1>1. TypeOK /\ TaskIsTrue(t)
    BY DEF Inv, TasksAreTrue
  <1>2. ASSUME NEW h \in TxIds, NEW c, Created(h, c)
        PROVE  txState'[h] = "success" /\ txCreate'[h].cred = c /\ txCreate'[h] = txCreate[h]
    BY <1>1, <1>2, CreationsStay DEF Created
  <1>3. task[t].pc = "finish" => /\ task[t].hash \in TxIds
                                 /\ Created(task[t].hash, task[t].cred)
                                 /\ txCreate[task[t].hash].args \in Args
    BY <1>1 DEF TaskIsTrue
  <1>4. task[t].pc = "finish" => /\ Created(task[t].hash, task[t].cred)'
                                 /\ txCreate'[task[t].hash].args \in Args
    BY <1>2, <1>3 DEF Created
  <1>5. task[t].pc \in {"rule", "assert", "welcome"} => BirthMatches(t)'
    BY <1>1, <1>2 DEF TaskIsTrue, BirthMatches, ApprovedArgs, LocallyApproved,
           Created
  <1> QED BY <1>1, <1>4, <1>5 DEF TaskIsTrue, Created

\* An operation that has ended has nothing to be wrong about.
LEMMA EndedTask ==
    ASSUME TypeOK, NEW t \in Tasks, task'[t].pc \in {"idle", "next", "ceremony"}
    PROVE  TaskIsTrue(t)'
  BY DEF TaskIsTrue

\* A call or a step of one operation leaves the others where they are.
LEMMA OthersWait ==
    ASSUME TypeOK, NEW t \in Tasks, Call(t) \/ Step(t), NEW u \in Tasks, u # t
    PROVE  task'[u] = task[u]
  <1> USE DEF TypeOK, End, Goto
  <1>1. CASE Call(t) \/ Write(t)
    BY <1>1 DEF Call, CreateWallet, CreatePasskey, Deploy, Reconcile, Touch, Write,
           ConnectExplicit, SyncAll, ConnectFresh, Restore, RestoreExpired
  <1>2. CASE DeployStep(t)
    BY <1>2 DEF DeployStep, Build, GiveUp, HandOver, SubmitToRelayer, SubmitToRpc,
          RelayerAccepts, RelayerFails, RelayerFallsBack, RpcThrows, Confirmed,
          FailedOnChain, TimedOut, RecordDeployed, NotConfirmed, Finish, Settle
  <1>3. CASE SyncStep(t)
    BY <1>3 DEF SyncStep, SyncNext, SyncDeployed, SyncOccupied, SyncUnseen,
          SyncReturns, Erase
  <1>4. CASE ConnectStep(t)
    BY <1>4 DEF ConnectStep, Asserted, ChainMissing, ChainRead, Lookup,
           Candidate, BirthVerified, BirthRejected, RuleApproved,
           RuleNeedsProof, RuleRejected, ProofVerified, ConnectThrows, Welcome,
           Rejected, SaveVerified
  <1> QED BY <1>1, <1>2, <1>3, <1>4 DEF Step

\* An operation knows nothing yet when it is called.
LEMMA CalledTask ==
    ASSUME TypeOK, NEW t \in Tasks, Call(t)
    PROVE  TaskIsTrue(t)'
  <1> USE DEF TypeOK
  <1>1. ASSUME NEW c \in Creds, CreateWallet(t, c) PROVE TaskIsTrue(t)'
    BY <1>1, ConstantsAssumption DEF CreateWallet, CreatePasskey, Idle, TaskIsTrue
  <1>2. ASSUME NEW c \in Creds, NEW a \in Args, Deploy(t, c, a) PROVE TaskIsTrue(t)'
    BY <1>2 DEF Deploy, Idle, TaskIsTrue
  <1>3. ASSUME NEW c \in Creds, Reconcile(t, c) PROVE TaskIsTrue(t)'
    BY <1>3 DEF Reconcile, Looking, Idle, TaskIsTrue
  <1>4. ASSUME NEW op, NEW c \in Creds, task'[t] = Connecting(op, c)
        PROVE  TaskIsTrue(t)'
    BY <1>4 DEF Connecting, Idle, TaskIsTrue
  <1>5. ASSUME NEW c \in Creds, ConnectExplicit(t, c) PROVE TaskIsTrue(t)'
    BY <1>4, <1>5 DEF ConnectExplicit
  <1>9. ASSUME Restore(t) PROVE TaskIsTrue(t)'
    BY <1>4, <1>9 DEF Restore, Session
  <1>6. ASSUME SyncAll(t) PROVE TaskIsTrue(t)'
    BY <1>6, EndedTask DEF SyncAll, Idle
  <1>7. ASSUME ConnectFresh(t) PROVE TaskIsTrue(t)'
    BY <1>7, EndedTask DEF ConnectFresh, Prompting, Idle
  <1>8. ASSUME RestoreExpired(t) PROVE TaskIsTrue(t)'
    BY <1>8, EndedTask DEF RestoreExpired, At, Prompting, Idle
  <1>10. ASSUME NEW c \in Creds, Touch(t, c) PROVE TaskIsTrue(t)'
    BY <1>10, EndedTask DEF Touch, At
  <1> QED BY <1>1, <1>2, <1>3, <1>5, <1>6, <1>7, <1>8, <1>9, <1>10 DEF Call

\* A step back or forth keeps what the operation knows, if the next await asks
\* for no more.
LEMMA NextAwait ==
    ASSUME TypeOK, NEW t \in Tasks, NEW p, Goto(t, p), UNCHANGED chain
    PROVE  /\ task'[t] = [task[t] EXCEPT !.pc = p]
           /\ task'[t].pc = p /\ task'[t].op = task[t].op
           /\ task'[t].cred = task[t].cred /\ task'[t].args = task[t].args
           /\ task'[t].hash = task[t].hash
           /\ BirthMatches(t)' = BirthMatches(t)
  <1>1. task[t] \in Task /\ task'[t] = [task[t] EXCEPT !.pc = p]
    BY DEF TypeOK, Goto
  <1>2. /\ task'[t].pc = p /\ task'[t].op = task[t].op
        /\ task'[t].cred = task[t].cred /\ task'[t].args = task[t].args
        /\ task'[t].hash = task[t].hash
    BY <1>1 DEF Task
  <1> QED BY <1>1, <1>2 DEF BirthMatches, ApprovedArgs, LocallyApproved,
        Created, chain

\* An operation that ends knows nothing.
LEMMA TaskThatEnds ==
    ASSUME TypeOK, NEW t \in Tasks, End(t)
    PROVE  TaskIsTrue(t)'
  BY EndedTask DEF End, TypeOK, Idle

\* What a deployment knows at its next await.
LEMMA DeployingTask ==
    ASSUME Inv, NEW t \in Tasks, DeployStep(t)
    PROVE  TaskIsTrue(t)'
  <1>0. TypeOK /\ TaskIsTrue(t) /\ task[t] \in Task
    BY DEF Inv, TasksAreTrue, TypeOK
  <1>1. ASSUME Build(t) PROVE TaskIsTrue(t)'
    <2>1. /\ task'[t].pc = "submit"
          /\ task'[t].cred = task[t].cred
          /\ task'[t].args = task[t].args
      BY <1>0, <1>1 DEF Build, Task, TypeOK
    <2> QED BY <1>0, <1>1, <2>1 DEF Build, At, TaskIsTrue
  <1>2. ASSUME NEW h \in TxIds, SubmitToRelayer(t, h) \/ SubmitToRpc(t, h)
        PROVE  TaskIsTrue(t)'
    <2>1. /\ task'[t].pc \in {"sent", "rpc"}
          /\ task'[t].cred = task[t].cred
          /\ task'[t].args = task[t].args
          /\ task'[t].hash = h
      BY <1>0, <1>2 DEF SubmitToRelayer, SubmitToRpc, Task, TypeOK
    <2> QED BY <1>0, <1>2, <2>1
         DEF SubmitToRelayer, SubmitToRpc, Signed, At, TaskIsTrue
  <1>3. ASSUME NEW h \in TxIds, RelayerAccepts(t, h) PROVE TaskIsTrue(t)'
    <2>1. /\ task'[t].pc = "poll"
          /\ task'[t].cred = task[t].cred
          /\ task'[t].args = task[t].args
          /\ task'[t].hash = h
      BY <1>0, <1>3 DEF RelayerAccepts, Task, TypeOK
    <2> QED BY <1>0, <1>3, <2>1 DEF RelayerAccepts, At, TaskIsTrue
  <1>4. ASSUME RelayerFallsBack(t) \/ Confirmed(t) PROVE TaskIsTrue(t)'
    <2>1. PICK p \in {"rpc", "confirm"} : Goto(t, p)
      BY <1>4 DEF RelayerFallsBack, Confirmed
    <2>2. UNCHANGED chain /\ task[t].pc \in {"sent", "rpc", "poll"}
      BY <1>4 DEF RelayerFallsBack, Confirmed, At
    <2>3. /\ task'[t].pc = p
          /\ task'[t].cred = task[t].cred
          /\ task'[t].args = task[t].args
          /\ task'[t].hash = task[t].hash
      BY <1>0, <2>1, <2>2, NextAwait
    <2> QED BY <1>0, <2>2, <2>3 DEF TaskIsTrue
  <1>5. ASSUME RecordDeployed(t) PROVE TaskIsTrue(t)'
    <2>1. /\ task[t].hash \in TxIds
          /\ Created(task[t].hash, task[t].cred)
          /\ txCreate[task[t].hash].args \in Args
      BY <1>0, <1>5 DEF RecordDeployed, At, TaskIsTrue, CarriesDeployment, Created
    <2> QED BY <1>0, <1>5, <2>1, NextAwait
         DEF RecordDeployed, At, TaskIsTrue, Created, chain
  <1>6. ASSUME End(t) PROVE TaskIsTrue(t)'
    BY <1>0, <1>6, TaskThatEnds
  <1> QED BY <1>1, <1>2, <1>3, <1>4, <1>5, <1>6
       DEF DeployStep, GiveUp, HandOver, RelayerFails, RpcThrows, FailedOnChain,
           TimedOut, NotConfirmed, Finish, Settle

\* What a reconciliation knows at its next await: whose record it is about.
LEMMA ReconcilingTask ==
    ASSUME Inv, NEW t \in Tasks, SyncStep(t)
    PROVE  TaskIsTrue(t)'
  <1>0. TypeOK /\ TaskIsTrue(t) /\ task[t] \in Task
    BY DEF Inv, TasksAreTrue, TypeOK
  <1>1. ASSUME SyncNext(t) PROVE TaskIsTrue(t)'
    <2>1. ASSUME NEW c \in task[t].todo,
                 task' = [task EXCEPT ![t] = Looking("syncAll", c, @.todo \ {c})]
          PROVE  TaskIsTrue(t)'
      BY <1>0, <2>1 DEF Looking, Idle, Task, TaskIsTrue, TypeOK
    <2> QED BY <1>0, <1>1, <2>1, TaskThatEnds DEF SyncNext
  <1>2. ASSUME NEW d, SyncReturns(t, d), At(t, "look"), UNCHANGED chain
        PROVE  TaskIsTrue(t)'
    <2>1. CASE Goto(t, "next")
      BY <1>0, <1>2, <2>1, NextAwait, EndedTask
    <2>2. CASE Goto(t, "erase")
      <3>1. task'[t].pc = "erase" /\ task'[t].cred = task[t].cred
        BY <1>0, <1>2, <2>2, NextAwait
      <3> QED BY <1>0, <1>2, <3>1 DEF At, TaskIsTrue
    <2> QED BY <1>0, <1>2, <2>1, <2>2, TaskThatEnds DEF SyncReturns
  <1> QED BY <1>0, <1>1, <1>2, TaskThatEnds
       DEF SyncStep, SyncDeployed, SyncOccupied, SyncUnseen, Erase

\* What a connection knows at its next await.
LEMMA ConnectingTask ==
    ASSUME Inv, NEW t \in Tasks, ConnectStep(t)
    PROVE  TaskIsTrue(t)'
  <1>0. TypeOK /\ TaskIsTrue(t) /\ task[t] \in Task
    BY DEF Inv, TasksAreTrue, TypeOK
  <1>1. ASSUME Rejected(t) PROVE TaskIsTrue(t)'
    <2>1. task'[t] = Prompting \/ End(t)
      BY <1>0, <1>1 DEF Rejected, TypeOK
    <2> QED BY <1>0, <2>1, EndedTask, TaskThatEnds DEF Prompting, Idle
  <1>2. ASSUME Asserted(t) PROVE TaskIsTrue(t)'
    <2>1. ASSUME NEW c \in passkeys,
                 task' = [task EXCEPT ![t] = Connecting("asserted", c)]
          PROVE  TaskIsTrue(t)'
      BY <1>0, <2>1 DEF Connecting, Idle, TaskIsTrue, TypeOK
    <2> QED BY <1>0, <1>2, <2>1, TaskThatEnds DEF Asserted
  <1>3. ASSUME ChainRead(t) PROVE TaskIsTrue(t)'
    <2>1. ASSUME NEW p, p = (IF task[t].hash # NoTx THEN "birth" ELSE "lookup"),
                 task' = [task EXCEPT ![t] = [@ EXCEPT !.pc = p]]
          PROVE  TaskIsTrue(t)'
      <3>1. /\ task'[t].pc = p
            /\ task'[t].cred = task[t].cred
            /\ task'[t].hash = task[t].hash
        BY <1>0, <2>1 DEF Task, TypeOK
      <3> QED BY <1>0, <1>3, <2>1, <3>1 DEF ChainRead, At, TaskIsTrue, Task
    <2> QED BY <1>0, <1>1, <1>3, <2>1 DEF ChainRead
  <1>4. ASSUME Lookup(t) PROVE TaskIsTrue(t)'
    <2>1. ASSUME NEW h \in TxIds,
                 task' = [task EXCEPT ![t].pc = "birth", ![t].hash = h]
          PROVE  TaskIsTrue(t)'
      <3>1. task'[t].pc = "birth" /\ task'[t].cred = task[t].cred /\ task'[t].hash = h
        BY <1>0, <2>1 DEF Task, TypeOK
      <3> QED BY <1>0, <1>4, <3>1 DEF Lookup, Candidate, At, TaskIsTrue
    <2> QED BY <1>0, <1>1, <1>4, <2>1 DEF Lookup, Candidate
  <1>5. ASSUME BirthVerified(t) \/ RuleNeedsProof(t) PROVE TaskIsTrue(t)'
    <2>1. PICK p \in {"rule", "assert"} :
            /\ Goto(t, p)
            /\ p = "assert" => task[t].op \in {"explicit", "asserted"}
      BY <1>5 DEF BirthVerified, RuleNeedsProof
    <2>2. /\ UNCHANGED chain
          /\ task[t].hash \in TxIds
          /\ BirthMatches(t)
          /\ task[t].cred \in Creds
      BY <1>0, <1>5 DEF BirthVerified, RuleNeedsProof, At, TaskIsTrue
    <2>3. /\ task'[t].pc = p /\ task'[t].op = task[t].op
          /\ task'[t].cred = task[t].cred
          /\ task'[t].hash = task[t].hash
          /\ BirthMatches(t)'
      BY <1>0, <2>1, <2>2, NextAwait
    <2> QED BY <2>1, <2>2, <2>3 DEF TaskIsTrue
  <1>6. ASSUME RuleApproved(t) \/ ProofVerified(t) PROVE TaskIsTrue(t)'
    <2>1. /\ Goto(t, "welcome")
          /\ UNCHANGED chain
          /\ task[t].pc \in {"rule", "assert"}
      BY <1>6 DEF RuleApproved, ProofVerified, SaveVerified, At
    <2>2. /\ task[t].hash \in TxIds
          /\ BirthMatches(t)
          /\ task[t].cred \in Creds
      BY <1>0, <2>1 DEF TaskIsTrue
    <2>3. /\ task'[t].pc = "welcome"
          /\ task'[t].cred = task[t].cred
          /\ task'[t].hash = task[t].hash
          /\ BirthMatches(t)'
      BY <1>0, <2>1, <2>2, NextAwait
    <2> QED BY <2>2, <2>3 DEF TaskIsTrue
  <1>7. ASSUME End(t) PROVE TaskIsTrue(t)'
    BY <1>0, <1>7, TaskThatEnds
  <1> QED BY <1>1, <1>2, <1>3, <1>4, <1>5, <1>6, <1>7
       DEF ConnectStep, ChainMissing, BirthRejected, RuleRejected, ConnectThrows,
           Welcome

\* So the operations keep knowing what they should.
LEMMA TasksOfStep ==
    ASSUME Inv, [Next]_vars
    PROVE  TasksAreTrue'
  <1> SUFFICES ASSUME NEW t \in Tasks PROVE TaskIsTrue(t)'
    BY DEF TasksAreTrue
  <1>0. TypeOK
    BY DEF Inv
  <1>1. CASE UNCHANGED task
    BY <1>1, WaitingTask
  <1>2. CASE Reload
    BY <1>0, <1>2, EndedTask DEF Reload, Idle
  <1>3. CASE World
    BY <1>1, <1>2, <1>3 DEF World, CreateCredential, CreatePasskey,
           SaveCredential, Disconnect, SessionExpires, Land, Fail,
           CreatedElsewhere
  <1>4. ASSUME NEW u \in Tasks, Call(u) \/ Step(u) PROVE TaskIsTrue(t)'
    <2>1. CASE u # t
      BY <1>0, <1>4, <2>1, OthersWait, WaitingTask
    <2>2. CASE u = t
      <3>1. Write(t) => UNCHANGED task
        BY DEF Write
      <3> QED BY <1>0, <1>1, <1>4, <2>2, <3>1, CalledTask, DeployingTask,
           ReconcilingTask, ConnectingTask DEF Step
    <2> QED BY <2>1, <2>2
  <1> QED BY <1>1, <1>3, <1>4 DEF Next, vars

\* A connection arrives in its last turn only with an approval or a proof.
LEMMA WelcomeComesFrom ==
    ASSUME Inv, [Next]_vars, NEW t \in Tasks, task'[t].pc = "welcome"
    PROVE  task'[t] = task[t] \/ RuleApproved(t) \/ ProofVerified(t)
  <1>0. TypeOK /\ task[t] \in Task
    BY DEF Inv, TypeOK
  <1>1. ASSUME End(t) PROVE FALSE
    BY <1>0, <1>1 DEF End, TypeOK, Idle
  <1>2. ASSUME NEW p, Goto(t, p), p # "welcome" PROVE FALSE
    <2>1. task'[t] = [task[t] EXCEPT !.pc = p]
      BY <1>0, <1>2 DEF Goto, TypeOK
    <2>2. task'[t].pc = p
      BY <1>0, <2>1 DEF Task
    <2> QED BY <1>2, <2>2
  <1>3. CASE Call(t)
    <2>1. ASSUME NEW r, task' = [task EXCEPT ![t] = r], r.pc # "welcome"
          PROVE  FALSE
      BY <1>0, <2>1 DEF TypeOK
    <2>2. ASSUME NEW c, CreateWallet(t, c) PROVE FALSE
      BY <1>0, <2>1, <2>2 DEF CreateWallet, CreatePasskey, At, Idle
    <2>3. ASSUME NEW c, NEW a, Deploy(t, c, a) PROVE FALSE
      BY <1>0, <2>1, <2>3 DEF Deploy, At, Idle
    <2>4. ASSUME NEW c, Reconcile(t, c) PROVE FALSE
      BY <1>0, <2>1, <2>4 DEF Reconcile, Looking, At, Idle
    <2>5. ASSUME NEW op, NEW c PROVE Connecting(op, c).pc # "welcome"
      BY DEF Connecting, Idle
    <2>6. ASSUME NEW c, ConnectExplicit(t, c) PROVE FALSE
      BY <2>1, <2>5, <2>6 DEF ConnectExplicit
    <2>7. ASSUME Restore(t) PROVE FALSE
      BY <2>1, <2>5, <2>7 DEF Restore, At
    <2>8. ASSUME SyncAll(t) PROVE FALSE
      BY <2>1, <2>8 DEF SyncAll, At, Idle
    <2>9. Prompting.pc # "welcome"
      BY DEF Prompting, Idle
    <2>10. ASSUME ConnectFresh(t) PROVE FALSE
      BY <2>1, <2>9, <2>10 DEF ConnectFresh
    <2>11. ASSUME RestoreExpired(t) PROVE task'[t] = task[t]
      BY <2>1, <2>9, <2>11 DEF RestoreExpired
    <2>12. ASSUME NEW c, Touch(t, c) PROVE task'[t] = task[t]
      BY <2>12 DEF Touch
    <2> QED BY <1>3, <2>2, <2>3, <2>4, <2>6, <2>7, <2>8, <2>10, <2>11, <2>12 DEF Call
  <1>4. CASE DeployStep(t)
    <2>1. ASSUME Build(t) PROVE FALSE
      BY <1>0, <2>1 DEF Build, Task, TypeOK
    <2>2. ASSUME NEW h, SubmitToRelayer(t, h) \/ SubmitToRpc(t, h) \/ RelayerAccepts(t, h)
          PROVE  FALSE
      BY <1>0, <2>2 DEF SubmitToRelayer, SubmitToRpc, RelayerAccepts, Task, TypeOK
    <2> QED BY <1>1, <1>2, <1>4, <2>1, <2>2
         DEF DeployStep, GiveUp, HandOver, RelayerFails, RelayerFallsBack,
             RpcThrows, Confirmed, FailedOnChain, TimedOut, RecordDeployed,
             NotConfirmed, Finish, Settle
  <1>5. CASE SyncStep(t)
    <2>1. ASSUME NEW c, NEW todo, task' = [task EXCEPT ![t] = Looking("syncAll", c, todo)]
          PROVE  FALSE
      BY <1>0, <2>1 DEF Looking, Idle, TypeOK
    <2>2. ASSUME SyncNext(t) PROVE FALSE
      BY <1>1, <2>1, <2>2 DEF SyncNext
    <2> QED BY <1>1, <1>2, <1>5, <2>2
         DEF SyncStep, SyncDeployed, SyncOccupied, SyncUnseen, SyncReturns, Erase
  <1>6. CASE ConnectStep(t)
    <2>1. ASSUME Rejected(t) PROVE FALSE
      BY <1>0, <1>1, <2>1 DEF Rejected, Prompting, Idle, TypeOK
    <2>2. ASSUME Asserted(t) PROVE FALSE
      BY <1>0, <1>1, <2>2 DEF Asserted, Connecting, Idle, TypeOK
    <2>3. ASSUME NEW p \in {"birth", "lookup"},
                 task' = [task EXCEPT ![t] = [@ EXCEPT !.pc = p]]
          PROVE  FALSE
      BY <1>0, <2>3 DEF TypeOK, Task
    <2>4. ASSUME ChainRead(t) PROVE FALSE
      BY <2>1, <2>3, <2>4 DEF ChainRead
    <2>5. ASSUME Lookup(t) PROVE FALSE
      BY <1>0, <2>1, <2>5 DEF Lookup, Candidate, TypeOK, Task
    <2>6. ASSUME BirthVerified(t) \/ RuleNeedsProof(t) PROVE FALSE
      BY <1>2, <2>6 DEF BirthVerified, RuleNeedsProof
    <2>7. ASSUME ChainMissing(t) \/ ConnectThrows(t) \/ Welcome(t) PROVE FALSE
      BY <1>1, <2>7 DEF ChainMissing, ConnectThrows, Welcome
    <2>8. ASSUME BirthRejected(t) \/ RuleRejected(t) PROVE FALSE
      BY <2>1, <2>8 DEF BirthRejected, RuleRejected
    <2> QED BY <1>6, <2>2, <2>4, <2>5, <2>6, <2>7, <2>8 DEF ConnectStep
  <1>7. ASSUME NEW u \in Tasks, Call(u) \/ Step(u), u # t PROVE task'[t] = task[t]
    BY <1>0, <1>7, OthersWait
  <1>8. CASE World
    <2>1. ASSUME Reload PROVE FALSE
      <3>1. task'[t] = Idle
        BY <2>1 DEF Reload
      <3> QED BY <3>1 DEF Idle
    <2> QED BY <1>8, <2>1 DEF World, CreateCredential, CreatePasskey,
          SaveCredential, Disconnect, SessionExpires, Land, Fail,
          CreatedElsewhere
  <1>9. CASE Write(t)
    BY <1>9 DEF Write
  <1> QED BY <1>3, <1>4, <1>5, <1>6, <1>7, <1>8, <1>9 DEF Next, vars, Step

\* A silent restore that arrives was approved locally.
LEMMA RestoresOfStep ==
    ASSUME Inv, [Next]_vars
    PROVE  SilentRestoreIsApproved'
  <1> DEFINE Silent(t) == /\ task[t].op \in {"restore", "restorePrompt"}
                          /\ task[t].pc = "welcome"
             Approved(t) == /\ LocallyApproved(t)
                            /\ txCreate[task[t].hash].args = task[t].args
  <1> SUFFICES ASSUME NEW t \in Tasks, Silent(t)' PROVE Approved(t)'
    BY DEF SilentRestoreIsApproved
  <1>0. TypeOK /\ task[t] \in Task /\ TaskIsTrue(t)
    BY DEF Inv, TasksAreTrue, TypeOK
  <1>1. TaskIsTrue(t)'
    BY TasksOfStep DEF TasksAreTrue
  <1>2. SUFFICES LocallyApproved(t)'
    BY <1>1 DEF TaskIsTrue, BirthMatches, ApprovedArgs
  <1>3. CASE task'[t] = task[t]
    BY <1>3 DEF Inv, SilentRestoreIsApproved, LocallyApproved
  <1>4. CASE RuleApproved(t)
    <2>1. Goto(t, "welcome") /\ UNCHANGED chain /\ LocallyApproved(t)
      BY <1>4 DEF RuleApproved, SaveVerified
    <2> QED BY <1>0, <2>1, NextAwait DEF LocallyApproved
  <1>5. CASE ProofVerified(t)
    <2>1. Goto(t, "welcome") /\ UNCHANGED chain
      BY <1>5 DEF ProofVerified, SaveVerified
    <2>2. task[t].op \in {"explicit", "asserted"}
      BY <1>0, <1>5 DEF ProofVerified, At, TaskIsTrue
    <2>3. task'[t].op = task[t].op
      BY <1>0, <2>1, NextAwait
    <2> QED BY <2>2, <2>3
  <1> QED BY <1>3, <1>4, <1>5, WelcomeComesFrom

-----------------------------------------------------------------------------
(* The theorems.                                                           *)

\* Inv holds before anything has happened.
LEMMA InvOfInit ==
    ASSUME Init
    PROVE  Inv
  <1>1. TypeOK
    BY IdleType, NoPutType, NewRecordType, ConstantsAssumption
       DEF Init, TypeOK, Session, NoSession, Create
  <1>2. TasksAreTrue /\ SilentRestoreIsApproved
    BY DEF Init, Idle, TasksAreTrue, TaskIsTrue, SilentRestoreIsApproved
  <1>3. BirthIsUnique
    BY DEF Init, BirthIsUnique, Created
  <1>4. RecordsAreTrue /\ WritesAreTrue
    BY DEF Init, RecordsAreTrue, RecordIsTrue, WritesAreTrue, Absent
  <1>5. ConnectionIsApproved
    BY ConstantsAssumption DEF Init, ConnectionIsApproved, NoSession
  <1> QED BY <1>1, <1>2, <1>3, <1>4, <1>5 DEF Inv

\* Inv is an invariant: what storage, session and connection claim about the
\* ledger is true, and every operation in flight knows what it needs for that.
THEOREM InvIsInvariant == Spec => []Inv
  <1>1. Inv /\ [Next]_vars => Inv'
    BY TypeOfStep, TasksOfStep, UniqueBirthOfStep, RecordsOfStep, WritesOfStep,
       ConnectionOfStep, RestoresOfStep DEF Inv
  <1> QED BY <1>1, InvOfInit, PTL DEF Spec

\* The variables keep their types through every interleaving.
THEOREM TypesAreKept == Spec => []TypeOK
  BY InvIsInvariant, PTL DEF Inv

\* Deployment status and creation transaction of every record are true of the
\* ledger.
THEOREM RecordsStayTrue == Spec => []RecordsAreTrue
  BY InvIsInvariant, PTL DEF Inv

\* The kit is never connected to, and never remembers, a wallet whose creation
\* does not name the user's signer.
THEOREM ConnectionStaysApproved == Spec => []ConnectionIsApproved
  BY InvIsInvariant, PTL DEF Inv

\* A silent restore only arrives with a local approval of the arguments.
THEOREM SilentRestoreStaysApproved == Spec => []SilentRestoreIsApproved
  BY InvIsInvariant, PTL DEF Inv

\* No step replaces the recorded creation of a wallet by another transaction.
THEOREM CreationStaysStable == Spec => CreationIsStable
  <1> DEFINE Stable(c) == cred[c].creation # NoTx /\ cred'[c].creation # NoTx
                            => cred'[c].creation = cred[c].creation
  <1>1. ASSUME Inv, Inv', [Next]_vars, NEW c \in Creds PROVE Stable(c)
    <2>1. CASE cred[c].creation # NoTx /\ cred'[c].creation # NoTx
      <3>1. cred[c].creation \in TxIds /\ cred'[c].creation \in TxIds
        BY <1>1, <2>1 DEF Inv, TypeOK, Record
      <3>2. Created(cred[c].creation, c)
        BY <1>1, <2>1 DEF Inv, RecordsAreTrue, RecordIsTrue
      <3>3. txState'[cred[c].creation] = "success" /\ txCreate'[cred[c].creation].cred = c
        BY <1>1, <3>1, <3>2, CreationsStay DEF Inv, Created
      <3>4. txState'[cred'[c].creation] = "success" /\ txCreate'[cred'[c].creation].cred = c
        BY <1>1, <2>1 DEF Inv, RecordsAreTrue, RecordIsTrue, Created
      <3> QED BY <1>1, <3>1, <3>3, <3>4 DEF Inv, BirthIsUnique, Created
    <2> QED BY <2>1
  <1>2. Inv /\ Inv' /\ [Next]_vars => [\A c \in Creds : Stable(c)]_vars
    BY <1>1
  <1> QED BY <1>2, InvIsInvariant, PTL DEF Spec, CreationIsStable

-----------------------------------------------------------------------------
(* How long it takes.                                                      *)

\* How many awaits an operation has at most before it at each of them, as far
\* as this record of syncAll and this attempt to connect go.
Awaits == [idle |-> 0, build |-> 7, submit |-> 6, sent |-> 5, rpc |-> 4, poll |-> 4,
           confirm |-> 3, finish |-> 2, next |-> 3, look |-> 4, erase |-> 2,
           ceremony |-> 7, chain |-> 6, lookup |-> 5, birth |-> 4, rule |-> 3,
           assert |-> 2, welcome |-> 1]

\* With the records syncAll has still to sync, and the prompt that a restore may
\* fall back to.
Stages(t) ==
    Awaits[task[t].pc] + 3 * Cardinality(task[t].todo)
      + (IF task[t].op = "restorePrompt" THEN 8 ELSE 0)

\* With the second half of an update.
Ahead(t) == 2 * Stages(t) + (IF put[t] = NoPut THEN 0 ELSE 1)

\* Every step of an operation brings it nearer to its end, and neither the other
\* operations nor the world throw it back.
Bounded ==
    \A t \in Tasks :
        /\ Ahead(t) \in Nat
        /\ Step(t) => Ahead(t)' < Ahead(t)
        /\ World \/ (\E u \in Tasks \ {t} : Call(u) \/ Step(u)) => Ahead(t)' <= Ahead(t)

\* Storage holds finitely many records, and syncAll goes through finitely many.
Few ==
    /\ IsFiniteSet({c \in Creds : cred[c] # Absent})
    /\ \A t \in Tasks : IsFiniteSet(task[t].todo)

\* One record at most is put where there was none.
LEMMA FewRecords ==
    ASSUME TypeOK, Few, StorageMove
    PROVE  IsFiniteSet({c \in Creds : cred'[c] # Absent})
  <1> DEFINE Records == {c \in Creds : cred[c] # Absent}
  <1>1. CASE UNCHANGED cred
    BY <1>1 DEF Few
  <1>2. ASSUME NEW c, NEW r, cred' = [cred EXCEPT ![c] = r]
        PROVE  IsFiniteSet({d \in Creds : cred'[d] # Absent})
    <2>1. {d \in Creds : cred'[d] # Absent} \in SUBSET (Records \cup {c})
      BY <1>2 DEF TypeOK
    <2>2. IsFiniteSet(Records \cup {c})
      BY FS_AddElement DEF Few
    <2> QED
      BY <2>1, <2>2, FS_Subset
  <1> QED
    BY <1>1, <1>2 DEF StorageMove, Write, Update, Stored

\* What a deployment, a reconciliation or a connection has to sync it had before.
LEMMA TodoOfStep ==
    ASSUME TypeOK, NEW t \in Tasks, Step(t)
    PROVE  task'[t].todo \subseteq task[t].todo
  <1>0. task[t] \in Task /\ task \in [Tasks -> Task]
    BY DEF TypeOK
  <1>1. CASE UNCHANGED task
    BY <1>1
  <1>2. CASE End(t)
    BY <1>0, <1>2 DEF End, Idle
  <1>3. ASSUME NEW p, Goto(t, p)
        PROVE  task'[t].todo \subseteq task[t].todo
    BY <1>0, <1>3 DEF Goto, Task
  <1>4. CASE DeployStep(t)
    <2>1. CASE Build(t)
      BY <1>0, <2>1 DEF Build, Task
    <2>2. ASSUME NEW h \in TxIds, SubmitToRelayer(t, h) \/ SubmitToRpc(t, h) \/ RelayerAccepts(t, h)
          PROVE  task'[t].todo \subseteq task[t].todo
      BY <1>0, <2>2 DEF SubmitToRelayer, SubmitToRpc, RelayerAccepts, Task
    <2> QED
      BY <1>2, <1>3, <1>4, <2>1, <2>2
      DEF DeployStep, GiveUp, HandOver, RelayerFails, RelayerFallsBack, RpcThrows, Confirmed,
          FailedOnChain, TimedOut, RecordDeployed, NotConfirmed, Finish, Settle
  <1>5. CASE SyncStep(t)
    <2>1. CASE SyncNext(t)
      <3>1. ASSUME NEW c \in task[t].todo,
                   task' = [task EXCEPT ![t] = Looking("syncAll", c, @.todo \ {c})]
            PROVE  task'[t].todo \subseteq task[t].todo
        <4>1. task'[t] = Looking("syncAll", c, task[t].todo \ {c})
          BY <1>0, <3>1
        <4> QED
          BY <4>1 DEF Looking, Idle
      <3> QED
        BY <1>2, <2>1, <3>1 DEF SyncNext
    <2> QED
      BY <1>2, <1>3, <1>5, <2>1
      DEF SyncStep, SyncDeployed, SyncOccupied, SyncUnseen, SyncReturns, Erase
  <1>6. CASE ConnectStep(t)
    <2>1. CASE Rejected(t)
      BY <1>0, <1>2, <2>1 DEF Rejected, Prompting, Idle
    <2>2. CASE Asserted(t)
      BY <1>0, <1>2, <2>2 DEF Asserted, Connecting, Idle
    <2>3. CASE ChainRead(t)
      BY <1>0, <2>1, <2>3 DEF ChainRead, Task
    <2>4. CASE Lookup(t)
      BY <1>0, <2>1, <2>4 DEF Lookup, Task
    <2> QED
      BY <1>2, <1>3, <1>6, <2>1, <2>2, <2>3, <2>4
      DEF ConnectStep, ChainMissing, BirthVerified, BirthRejected, RuleApproved,
          RuleNeedsProof, RuleRejected, ProofVerified, ConnectThrows, Welcome, SaveVerified
  <1> QED
    BY <1>1, <1>4, <1>5, <1>6 DEF Step, Write

\* What a call has to sync is in storage.
LEMMA TodoOfCall ==
    ASSUME TypeOK, NEW t \in Tasks, Call(t)
    PROVE  \/ task'[t].todo \subseteq task[t].todo
           \/ task'[t].todo = {c \in Creds : cred[c] # Absent}
  <1> USE DEF TypeOK
  <1>1. CASE SyncAll(t)
    BY <1>1 DEF SyncAll, Idle
  <1>2. CASE UNCHANGED task
    BY <1>2
  <1>3. ASSUME NEW c \in Creds, CreateWallet(t, c) \/ (\E a \in Args : Deploy(t, c, a))
        PROVE  task'[t].todo = {}
    <2>1. CASE CreateWallet(t, c)
      BY <2>1 DEF CreateWallet, CreatePasskey, Idle
    <2>2. ASSUME NEW a \in Args, Deploy(t, c, a)
          PROVE  task'[t].todo = {}
      BY <2>2 DEF Deploy, Idle
    <2> QED
      BY <1>3, <2>1, <2>2
  <1>4. ASSUME NEW c \in Creds, Reconcile(t, c) \/ ConnectExplicit(t, c)
        PROVE  task'[t].todo = {}
    <2>1. (\E op : task'[t] = Looking(op, c, {})) \/ task'[t] = Connecting("explicit", c)
      BY <1>4 DEF Reconcile, ConnectExplicit
    <2> QED
      BY <2>1 DEF Looking, Connecting, Idle
  <1>5. CASE ConnectFresh(t) \/ Restore(t) \/ RestoreExpired(t)
    BY <1>2, <1>5 DEF ConnectFresh, Restore, RestoreExpired, Connecting, Prompting, Idle
  <1> QED
    BY <1>1, <1>2, <1>3, <1>4, <1>5 DEF Call, Touch

\* So there stay few.
LEMMA FewOfStep ==
    ASSUME Inv, Few, [Next]_vars
    PROVE  Few'
  <1>0. TypeOK
    BY DEF Inv
  <1>1. IsFiniteSet({c \in Creds : cred'[c] # Absent})
    BY <1>0, StorageMoves, FewRecords
  <1>2. ASSUME NEW t \in Tasks
        PROVE  IsFiniteSet(task'[t].todo)
    <2>1. CASE UNCHANGED task
      BY <2>1 DEF Few
    <2>2. CASE Reload
      BY <2>2, FS_EmptySet DEF Reload, Idle
    <2>3. CASE World
      BY <2>1, <2>2, <2>3
      DEF World, CreateCredential, CreatePasskey, SaveCredential, Disconnect, SessionExpires,
          Land, Fail, CreatedElsewhere
    <2>4. ASSUME NEW u \in Tasks, Call(u) \/ Step(u)
          PROVE  IsFiniteSet(task'[t].todo)
      <3>1. CASE u # t
        BY <1>0, <2>4, <3>1, OthersWait DEF Few
      <3>2. CASE u = t
        <4>1. \/ task'[t].todo \in SUBSET task[t].todo
              \/ task'[t].todo = {c \in Creds : cred[c] # Absent}
          BY <1>0, <2>4, <3>2, TodoOfCall, TodoOfStep
        <4>2. IsFiniteSet(task[t].todo)
          BY DEF Few
        <4> QED
          BY <4>1, <4>2, FS_Subset DEF Few
      <3> QED
        BY <3>1, <3>2
    <2> QED
      BY <2>1, <2>3, <2>4 DEF Next, vars
  <1> QED
    BY <1>1, <1>2 DEF Few

\* There are awaits before an operation until it ends.
LEMMA AwaitsTyped == \A p \in Pcs : Awaits[p] \in Nat /\ (p # "idle" => Awaits[p] >= 1)
  BY DEF Pcs, Awaits

\* What lies ahead is a number.
LEMMA StagesTyped ==
    ASSUME TypeOK, Few, NEW t \in Tasks
    PROVE  /\ task[t] \in Task /\ IsFiniteSet(task[t].todo)
           /\ Cardinality(task[t].todo) \in Nat /\ Awaits[task[t].pc] \in Nat
           /\ Stages(t) \in Nat /\ Ahead(t) \in Nat
           /\ task[t].pc # "idle" => Stages(t) >= 1
  <1>1. task[t] \in Task /\ task[t].pc \in Pcs
    BY DEF TypeOK, Task
  <1>2. IsFiniteSet(task[t].todo) /\ Cardinality(task[t].todo) \in Nat
    BY FS_CardinalityType DEF Few
  <1>3. Awaits[task[t].pc] \in Nat /\ (task[t].pc # "idle" => Awaits[task[t].pc] >= 1)
    BY <1>1, AwaitsTyped
  <1>4. Stages(t) \in Nat /\ (task[t].pc # "idle" => Stages(t) >= 1)
    BY <1>2, <1>3 DEF Stages
  <1> QED
    BY <1>1, <1>2, <1>3, <1>4 DEF Ahead

\* A stage less is nearer, even if an update is under way by now.
LEMMA FewerStages ==
    ASSUME TypeOK, Few, NEW t \in Tasks, Stages(t)' \in Nat, Stages(t)' < Stages(t)
    PROVE  Ahead(t)' < Ahead(t)
  BY StagesTyped DEF Ahead

\* An operation that ends has nothing more ahead.
LEMMA EndNearer ==
    ASSUME TypeOK, Few, NEW t \in Tasks, task[t].pc # "idle", End(t)
    PROVE  Ahead(t)' < Ahead(t)
  <1>1. task'[t] = Idle
    BY DEF TypeOK, End
  <1>2. task'[t].pc = "idle" /\ task'[t].todo = {} /\ task'[t].op = "none"
    BY <1>1 DEF Idle
  <1>3. Stages(t)' = 0
    BY <1>2, FS_EmptySet DEF Stages, Awaits
  <1> QED
    BY <1>3, StagesTyped, FewerStages

\* One await less is nearer.
LEMMA MoveNearer ==
    ASSUME TypeOK, Few, NEW t \in Tasks, NEW p \in Pcs, Awaits[p] < Awaits[task[t].pc],
           task'[t].pc = p, task'[t].op = task[t].op, task'[t].todo = task[t].todo
    PROVE  Ahead(t)' < Ahead(t)
  <1>1. Awaits[p] \in Nat
    BY AwaitsTyped
  <1>2. Stages(t)' \in Nat /\ Stages(t)' < Stages(t)
    BY <1>1, StagesTyped DEF Stages
  <1> QED
    BY <1>2, FewerStages

\* So is going to a later await.
LEMMA GotoNearer ==
    ASSUME TypeOK, Few, NEW t \in Tasks, NEW p \in Pcs, Awaits[p] < Awaits[task[t].pc],
           Goto(t, p)
    PROVE  Ahead(t)' < Ahead(t)
  <1>1. task'[t].pc = p /\ task'[t].op = task[t].op /\ task'[t].todo = task[t].todo
    BY DEF TypeOK, Goto, Task
  <1> QED
    BY <1>1, MoveNearer

\* The steps of a deployment.
LEMMA DeployNearer ==
    ASSUME TypeOK, Few, NEW t \in Tasks, DeployStep(t)
    PROVE  Ahead(t)' < Ahead(t)
  <1>0. task \in [Tasks -> Task] /\ task[t] \in Task
    BY DEF TypeOK
  <1>1. CASE End(t)
    <2>1. task[t].pc # "idle"
      BY DEF DeployStep, At, Signed, Build, GiveUp, HandOver, SubmitToRelayer, SubmitToRpc,
             RelayerAccepts, RelayerFails, RelayerFallsBack, RpcThrows, Confirmed,
             FailedOnChain, TimedOut, RecordDeployed, NotConfirmed, Finish
    <2> QED
      BY <1>1, <2>1, EndNearer
  <1>2. CASE Build(t)
    <2>1. /\ task[t].pc = "build" /\ task'[t].pc = "submit"
          /\ task'[t].op = task[t].op /\ task'[t].todo = task[t].todo
      BY <1>0, <1>2 DEF Build, At, Task
    <2> QED
      BY <2>1, MoveNearer DEF Awaits, Pcs
  <1>3. ASSUME NEW h \in TxIds, SubmitToRelayer(t, h) \/ SubmitToRpc(t, h)
        PROVE  Ahead(t)' < Ahead(t)
    <2>1. /\ task[t].pc = "submit" /\ task'[t].pc \in {"sent", "rpc"}
          /\ task'[t].op = task[t].op /\ task'[t].todo = task[t].todo
      BY <1>0, <1>3 DEF SubmitToRelayer, SubmitToRpc, Signed, At, Task
    <2> QED
      BY <2>1, MoveNearer DEF Awaits, Pcs
  <1>4. ASSUME NEW h \in TxIds, RelayerAccepts(t, h)
        PROVE  Ahead(t)' < Ahead(t)
    <2>1. /\ task[t].pc = "sent" /\ task'[t].pc = "poll"
          /\ task'[t].op = task[t].op /\ task'[t].todo = task[t].todo
      BY <1>0, <1>4 DEF RelayerAccepts, At, Task
    <2> QED
      BY <2>1, MoveNearer DEF Awaits, Pcs
  <1>5. CASE RelayerFallsBack(t)
    BY <1>5, GotoNearer DEF RelayerFallsBack, At, Awaits, Pcs
  <1>6. CASE Confirmed(t)
    BY <1>6, GotoNearer DEF Confirmed, Awaits, Pcs
  <1>7. CASE RecordDeployed(t)
    BY <1>7, GotoNearer DEF RecordDeployed, At, Awaits, Pcs
  <1> QED
    BY <1>1, <1>2, <1>3, <1>4, <1>5, <1>6, <1>7
    DEF DeployStep, GiveUp, HandOver, RelayerFails, RpcThrows, FailedOnChain, TimedOut,
        NotConfirmed, Finish, Settle

\* The steps of sync, syncAll and delete: a record less to sync pays for looking
\* at it.
LEMMA SyncNearer ==
    ASSUME TypeOK, Few, NEW t \in Tasks, SyncStep(t)
    PROVE  Ahead(t)' < Ahead(t)
  <1>0. task \in [Tasks -> Task] /\ task[t] \in Task
    BY DEF TypeOK
  <1>1. CASE End(t)
    <2>1. task[t].pc # "idle"
      BY DEF SyncStep, At, SyncNext, SyncDeployed, SyncOccupied, SyncUnseen, Erase
    <2> QED
      BY <1>1, <2>1, EndNearer
  <1>2. CASE SyncNext(t) /\ ~End(t)
    <2>1. PICK c \in task[t].todo :
            task' = [task EXCEPT ![t] = Looking("syncAll", c, @.todo \ {c})]
      BY <1>2 DEF SyncNext
    <2>2. task'[t] = Looking("syncAll", c, task[t].todo \ {c})
      BY <1>0, <2>1
    <2>3. /\ task'[t].pc = "look" /\ task'[t].op = "syncAll"
          /\ task'[t].todo = task[t].todo \ {c} /\ task[t].pc = "next"
      BY <1>2, <2>2 DEF Looking, Idle, SyncNext, At
    <2>4. /\ Cardinality(task[t].todo \ {c}) = Cardinality(task[t].todo) - 1
          /\ Cardinality(task[t].todo \ {c}) \in Nat /\ Cardinality(task[t].todo) \in Nat
      <3>1. IsFiniteSet(task[t].todo)
        BY StagesTyped
      <3> QED
        BY <3>1, FS_RemoveElement, FS_CardinalityType
    <2>5. Stages(t)' = 4 + 3 * (Cardinality(task[t].todo) - 1)
      BY <2>3, <2>4 DEF Stages, Awaits
    <2>6. Stages(t) >= 3 + 3 * Cardinality(task[t].todo)
      BY <2>3, <2>4 DEF Stages, Awaits
    <2> QED
      BY <2>4, <2>5, <2>6, StagesTyped, FewerStages
  <1>3. CASE task[t].pc = "look" /\ (Goto(t, "next") \/ Goto(t, "erase"))
    BY <1>3, GotoNearer DEF Awaits, Pcs
  <1>4. CASE SyncDeployed(t) \/ SyncOccupied(t) \/ SyncUnseen(t)
    BY <1>1, <1>3, <1>4 DEF SyncDeployed, SyncOccupied, SyncUnseen, SyncReturns, At
  <1> QED
    BY <1>1, <1>2, <1>4 DEF SyncStep, Erase

\* The steps of a connection: a restore that is rejected falls back to the prompt
\* once.
LEMMA ConnectNearer ==
    ASSUME TypeOK, Few, NEW t \in Tasks, ConnectStep(t)
    PROVE  Ahead(t)' < Ahead(t)
  <1>0. task \in [Tasks -> Task] /\ task[t] \in Task
    BY DEF TypeOK
  <1>1. CASE End(t)
    <2>1. task[t].pc # "idle"
      BY DEF ConnectStep, At, Asserted, ChainMissing, ChainRead, Lookup, BirthVerified,
             BirthRejected, RuleApproved, RuleNeedsProof, RuleRejected, ProofVerified,
             ConnectThrows, Welcome
    <2> QED
      BY <1>1, <2>1, EndNearer
  <1>2. ASSUME Rejected(t), task[t].pc \in {"chain", "lookup", "birth", "rule"}
        PROVE  Ahead(t)' < Ahead(t)
    <2>1. CASE task[t].op # "restorePrompt"
      BY <1>1, <1>2, <2>1 DEF Rejected
    <2>2. CASE task[t].op = "restorePrompt"
      <3>1. task'[t] = Prompting
        BY <1>0, <1>2, <2>2 DEF Rejected
      <3>2. task'[t].pc = "ceremony" /\ task'[t].op = "asserted" /\ task'[t].todo = {}
        BY <3>1 DEF Prompting, Idle
      <3>3. Stages(t)' = 7
        BY <3>2, FS_EmptySet DEF Stages, Awaits
      <3>4. Cardinality(task[t].todo) \in Nat /\ Awaits[task[t].pc] \in Nat
        BY StagesTyped
      <3>5. Stages(t) >= 8
        BY <2>2, <3>4 DEF Stages
      <3> QED
        BY <3>3, <3>5, StagesTyped, FewerStages
    <2> QED
      BY <2>1, <2>2
  <1>3. CASE Asserted(t) /\ ~End(t)
    <2>1. PICK c \in passkeys : task' = [task EXCEPT ![t] = Connecting("asserted", c)]
      BY <1>3 DEF Asserted
    <2>2. task'[t] = Connecting("asserted", c)
      BY <1>0, <2>1
    <2>3. task'[t].pc = "chain" /\ task'[t].op = "asserted" /\ task'[t].todo = {}
      BY <2>2 DEF Connecting, Idle
    <2>4. Stages(t)' = 6
      BY <2>3, FS_EmptySet DEF Stages, Awaits
    <2>5. Cardinality(task[t].todo) \in Nat /\ task[t].pc = "ceremony"
      BY <1>3, StagesTyped DEF Asserted, At
    <2>6. Stages(t) >= 7
      BY <2>5 DEF Stages, Awaits
    <2> QED
      BY <2>4, <2>6, StagesTyped, FewerStages
  <1>4. CASE ChainRead(t)
    <2>1. task[t].pc = "chain"
      BY <1>4 DEF ChainRead, At
    <2>2. ASSUME NEW p \in {"birth", "lookup"}, task' = [task EXCEPT ![t] = [@ EXCEPT !.pc = p]]
          PROVE  Ahead(t)' < Ahead(t)
      <3>1. task'[t].pc = p /\ task'[t].op = task[t].op /\ task'[t].todo = task[t].todo
        BY <1>0, <2>2 DEF Task
      <3> QED
        BY <2>1, <3>1, MoveNearer DEF Awaits, Pcs
    <2> QED
      BY <1>2, <1>4, <2>1, <2>2 DEF ChainRead
  <1>5. CASE Lookup(t)
    <2>1. task[t].pc = "lookup"
      BY <1>5 DEF Lookup, At
    <2>2. ASSUME NEW h \in TxIds, task' = [task EXCEPT ![t].pc = "birth", ![t].hash = h]
          PROVE  Ahead(t)' < Ahead(t)
      <3>1. task'[t].pc = "birth" /\ task'[t].op = task[t].op /\ task'[t].todo = task[t].todo
        BY <1>0, <2>2 DEF Task
      <3> QED
        BY <2>1, <3>1, MoveNearer DEF Awaits, Pcs
    <2> QED
      BY <1>2, <1>5, <2>1, <2>2 DEF Lookup
  <1>6. CASE BirthVerified(t)
    BY <1>6, GotoNearer DEF BirthVerified, At, Awaits, Pcs
  <1>7. CASE RuleNeedsProof(t)
    BY <1>7, GotoNearer DEF RuleNeedsProof, At, Awaits, Pcs
  <1>8. CASE RuleApproved(t) \/ ProofVerified(t)
    BY <1>8, GotoNearer DEF RuleApproved, ProofVerified, SaveVerified, At, Awaits, Pcs
  <1>9. CASE BirthRejected(t) \/ RuleRejected(t)
    BY <1>2, <1>9 DEF BirthRejected, RuleRejected, At
  <1> QED
    BY <1>1, <1>3, <1>4, <1>5, <1>6, <1>7, <1>8, <1>9
    DEF ConnectStep, ChainMissing, ConnectThrows, Welcome

\* A call or a step of one operation leaves the updates of the others alone.
LEMMA OthersPut ==
    ASSUME TypeOK, NEW t \in Tasks, Call(t) \/ Step(t), NEW u \in Tasks, u # t
    PROVE  put'[u] = put[u]
  <1> USE DEF TypeOK, SetStatus, Update
  <1>1. CASE Call(t) \/ Write(t)
    BY <1>1 DEF Call, CreateWallet, CreatePasskey, Deploy, Reconcile, Touch, Write,
           ConnectExplicit, SyncAll, ConnectFresh, Restore, RestoreExpired
  <1>2. CASE DeployStep(t)
    BY <1>2 DEF DeployStep, Build, GiveUp, HandOver, SubmitToRelayer, SubmitToRpc,
          RelayerAccepts, RelayerFails, RelayerFallsBack, RpcThrows, Confirmed,
          FailedOnChain, TimedOut, RecordDeployed, NotConfirmed, Finish, Settle
  <1>3. CASE SyncStep(t)
    BY <1>3 DEF SyncStep, SyncNext, SyncDeployed, SyncOccupied, SyncUnseen, Erase
  <1>4. CASE ConnectStep(t)
    BY <1>4 DEF ConnectStep, Asserted, ChainMissing, ChainRead, Lookup,
           Candidate, BirthVerified, BirthRejected, RuleApproved,
           RuleNeedsProof, RuleRejected, ProofVerified, ConnectThrows, Welcome,
           Rejected, SaveVerified
  <1> QED
    BY <1>1, <1>2, <1>3, <1>4 DEF Step

\* What others do, and what happens in the world, throws no operation back.
LEMMA OthersKeepAhead ==
    ASSUME TypeOK, Few, NEW t \in Tasks,
           World \/ \E u \in Tasks \ {t} : Call(u) \/ Step(u)
    PROVE  Ahead(t)' <= Ahead(t)
  <1>1. ASSUME task'[t] = task[t], put'[t] = put[t]
        PROVE  Ahead(t)' <= Ahead(t)
    BY <1>1, StagesTyped DEF Ahead, Stages
  <1>2. CASE Reload
    <2>1. task'[t].pc = "idle" /\ task'[t].todo = {} /\ task'[t].op = "none"
          /\ put'[t] = NoPut
      BY <1>2 DEF Reload, Idle
    <2>2. Ahead(t)' = 0
      BY <2>1, FS_EmptySet DEF Ahead, Stages, Awaits
    <2> QED
      BY <2>2, StagesTyped
  <1>3. CASE World
    BY <1>1, <1>2, <1>3
    DEF World, CreateCredential, CreatePasskey, SaveCredential, Disconnect, SessionExpires,
        Land, Fail, CreatedElsewhere
  <1>4. ASSUME NEW u \in Tasks \ {t}, Call(u) \/ Step(u)
        PROVE  Ahead(t)' <= Ahead(t)
    <2>1. task'[t] = task[t]
      BY <1>4, OthersWait
    <2>2. put'[t] = put[t]
      BY <1>4, OthersPut
    <2> QED
      BY <1>1, <2>1, <2>2
  <1> QED
    BY <1>3, <1>4

\* Any number of operations at a time each take a bounded number of steps: every
\* answer brings its own nearer to its end, a record that syncAll looks at, a
\* rejected restore that falls back to the prompt and the second half of an
\* update included, and no other operation, no page reload and nothing on the
\* ledger throws it back (createWallet, connectWallet, CredentialManager).
THEOREM LifecyclesAreBounded == Spec => [][Bounded]_vars
  <1>1. ASSUME TypeOK, Few
        PROVE  Bounded
    <2> SUFFICES ASSUME NEW t \in Tasks
                 PROVE  /\ Ahead(t) \in Nat
                        /\ Step(t) => Ahead(t)' < Ahead(t)
                        /\ World \/ (\E u \in Tasks \ {t} : Call(u) \/ Step(u))
                             => Ahead(t)' <= Ahead(t)
      BY DEF Bounded
    <2>1. Write(t) => Ahead(t)' < Ahead(t)
      <3> SUFFICES ASSUME Write(t) PROVE Ahead(t)' < Ahead(t)
        OBVIOUS
      <3>1. task' = task /\ put[t] # NoPut /\ put'[t] = NoPut
        BY <1>1 DEF Write, TypeOK
      <3>2. Stages(t)' = Stages(t) /\ Stages(t) \in Nat
        BY <1>1, <3>1, StagesTyped DEF Stages
      <3> QED
        BY <3>1, <3>2 DEF Ahead
    <2>2. Step(t) => Ahead(t)' < Ahead(t)
      BY <1>1, <2>1, DeployNearer, SyncNearer, ConnectNearer DEF Step
    <2> QED
      BY <1>1, <2>2, StagesTyped, OthersKeepAhead
  <1>2. Init => Few
    <2> SUFFICES ASSUME Init PROVE Few
      OBVIOUS
    <2>1. {c \in Creds : cred[c] # Absent} = {}
      BY DEF Init
    <2>2. \A t \in Tasks : task[t].todo = {}
      BY DEF Init, Idle
    <2> QED
      BY <2>1, <2>2, FS_EmptySet DEF Few
  <1>3. Inv /\ Few /\ [Next]_vars => Few'
    BY FewOfStep
  <1>4. Inv => TypeOK
    BY DEF Inv
  <1> QED
    BY <1>1, <1>2, <1>3, <1>4, InvIsInvariant, PTL DEF Spec

=============================================================================
