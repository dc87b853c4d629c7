--------------------- MODULE CredentialLifecycleRefinement ---------------------
(***************************************************************************)
(* CredentialLifecycle implements WalletConnection: every step is a step   *)
(* of the promise or leaves what it is about alone.                        *)
(*                                                                         *)
(* A step of the client moves the ledger, one record, or the connection    *)
(* with the session, never two of them; the three cases are then the       *)
(* steps Appear, Verify or Doubt, and the rest of WalletConnection.        *)
(***************************************************************************)
EXTENDS CredentialLifecycleProofs

\* The promise's variables, as the refinement mapping of KeepsPromise has them.
created == {c \in Creds : BornApproved(c)}
verified == {c \in Creds : cred[c].status = "deployed"}

-----------------------------------------------------------------------------

\* A step moves the ledger, or one record, or connection and session.
LEMMA OneThingMoves ==
    ASSUME TypeOK, [Next]_vars
    PROVE  \/ UNCHANGED <<cred, conn, session>>
           \/ UNCHANGED <<cred, chain>>
           \/ /\ UNCHANGED <<conn, session, chain>>
              /\ \E c, r : cred' = [cred EXCEPT ![c] = r]
  <1> DEFINE ConnMoves == UNCHANGED <<cred, chain>>
             LedgerOnly == UNCHANGED <<cred, conn, session>>
             RecordMoves == /\ UNCHANGED <<conn, session, chain>>
                            /\ \E c, r : cred' = [cred EXCEPT ![c] = r]
  <1>1. CASE UNCHANGED vars
    BY <1>1 DEF vars
  <1>2. ASSUME NEW t, NEW c, NEW r, Update(t, c, r), UNCHANGED <<conn, session, chain>>
        PROVE  RecordMoves \/ LedgerOnly
    BY <1>2 DEF Update
  <1>3. CASE World
    <2>1. ASSUME NEW c \in Creds, CreateCredential(c) \/ SaveCredential(c)
          PROVE  RecordMoves
      BY <2>1 DEF CreateCredential, CreatePasskey, SaveCredential
    <2>2. ASSUME Disconnect \/ Reload \/ SessionExpires PROVE ConnMoves
      BY <2>2 DEF Disconnect, Reload, SessionExpires
    <2>3. ASSUME NEW h \in TxIds, Land(h) \/ Fail(h) PROVE LedgerOnly
      BY <2>3 DEF Land, Fail
    <2>4. ASSUME NEW h \in TxIds, NEW c \in Creds, NEW a \in Args \cup {Foreign},
                 CreatedElsewhere(h, c, a)
          PROVE  LedgerOnly
      BY <2>4 DEF CreatedElsewhere
    <2> QED BY <1>3, <2>1, <2>2, <2>3, <2>4 DEF World
  <1>4. ASSUME NEW t \in Tasks, Call(t)
        PROVE  RecordMoves \/ ConnMoves \/ LedgerOnly
    <2>1. ASSUME NEW c \in Creds, CreateWallet(t, c) PROVE RecordMoves
      BY <2>1 DEF CreateWallet, CreatePasskey
    <2>2. ASSUME NEW c \in Creds, Touch(t, c) PROVE RecordMoves \/ LedgerOnly
      BY <1>2, <2>2 DEF Touch
    <2> QED BY <1>4, <2>1, <2>2 DEF Call, Deploy, Reconcile, ConnectExplicit, SyncAll,
         ConnectFresh, Restore, RestoreExpired
  <1>5. ASSUME NEW t \in Tasks, NEW s, Settle(t, s)
        PROVE  RecordMoves \/ LedgerOnly
    BY <1>2, <1>5 DEF Settle, SetStatus
  <1>6. ASSUME NEW t \in Tasks, DeployStep(t)
        PROVE  RecordMoves \/ ConnMoves \/ LedgerOnly
    <2>1. ASSUME Build(t) \/ RecordDeployed(t) PROVE RecordMoves \/ LedgerOnly
      BY <1>2, <2>1 DEF Build, RecordDeployed
    <2>2. ASSUME \/ RelayerFails(t) \/ RpcThrows(t) \/ FailedOnChain(t)
                 \/ TimedOut(t) \/ NotConfirmed(t)
          PROVE RecordMoves \/ LedgerOnly
      BY <1>5, <2>2
         DEF RelayerFails, RpcThrows, FailedOnChain, TimedOut, NotConfirmed
    <2>3. ASSUME NEW h \in TxIds,
                 HandOver(t, h) \/ SubmitToRelayer(t, h) \/ SubmitToRpc(t, h)
          PROVE  LedgerOnly
      BY <2>3 DEF HandOver, SubmitToRelayer, SubmitToRpc
    <2> QED BY <1>6, <2>1, <2>2, <2>3
         DEF DeployStep, GiveUp, RelayerAccepts, RelayerFallsBack, Confirmed, Finish
  <1>7. ASSUME NEW t \in Tasks, SyncStep(t)
        PROVE  RecordMoves \/ ConnMoves \/ LedgerOnly
    <2>1. ASSUME SyncOccupied(t) PROVE RecordMoves \/ LedgerOnly
      BY <1>2, <2>1 DEF SyncOccupied, SetStatus
    <2>2. ASSUME Erase(t) PROVE RecordMoves
      BY <2>2 DEF Erase
    <2> QED BY <1>7, <2>1, <2>2 DEF SyncStep, SyncNext, SyncDeployed, SyncUnseen
  <1>8. ASSUME NEW t \in Tasks, ConnectStep(t)
        PROVE  RecordMoves \/ ConnMoves \/ LedgerOnly
    <2>1. ASSUME ChainMissing(t) PROVE RecordMoves \/ LedgerOnly
      BY <1>2, <2>1 DEF ChainMissing, SetStatus
    <2>2. ASSUME RuleApproved(t) \/ ProofVerified(t) PROVE RecordMoves
      BY <2>2 DEF RuleApproved, ProofVerified, SaveVerified
    <2> QED BY <1>8, <2>1, <2>2
         DEF ConnectStep, Asserted, ChainRead, Lookup, Candidate, BirthVerified,
             BirthRejected, RuleNeedsProof, RuleRejected, ConnectThrows,
             Welcome, Rejected
  <1>9. ASSUME NEW t \in Tasks, Write(t) PROVE RecordMoves
    BY <1>9 DEF Write
  <1> QED BY <1>1, <1>3, <1>4, <1>6, <1>7, <1>8, <1>9 DEF Next, Step

\* A ledger step creates at most one approved wallet, and undoes none.
LEMMA AppearanceOfStep ==
    ASSUME Inv, [Next]_vars
    PROVE  \/ created' = created
           \/ \E w \in Creds : created' = created \cup {w}
  <1>0. TypeOK
    BY DEF Inv
  <1>1. created \subseteq created'
    BY <1>0, WalletsStay DEF created
  <1>2. CASE UNCHANGED chain
    BY <1>2 DEF chain, created, BornApproved, Created
  <1>3. ASSUME NEW t \in Tasks, NEW g \in TxIds, Broadcast(t, g)
        PROVE  created' \subseteq created
    BY <1>0, <1>3 DEF Broadcast, TypeOK, created, BornApproved, Created
  <1>4. ASSUME NEW g \in TxIds, Fail(g) PROVE created' \subseteq created
    BY <1>0, <1>4 DEF Fail, TypeOK, created, BornApproved, Created
  <1>5. ASSUME NEW g \in TxIds, Land(g)
        PROVE  created' \subseteq created \cup {txCreate[g].cred}
    BY <1>0, <1>5 DEF Land, TypeOK, created, BornApproved, Created
  <1>6. ASSUME NEW g \in TxIds, NEW c \in Creds, NEW a \in Args \cup {Foreign},
               CreatedElsewhere(g, c, a)
        PROVE  created' \subseteq created \cup {c}
    BY <1>0, <1>6 DEF CreatedElsewhere, TypeOK, created, BornApproved, Created
  <1>7. ASSUME NEW w, created' \subseteq created \cup {w}
        PROVE  created' = created \/ (w \in Creds /\ created' = created \cup {w})
    BY <1>1, <1>7 DEF created
  <1> QED BY <1>1, <1>2, <1>3, <1>4, <1>5, <1>6, <1>7, LedgerMoves

\* A record that becomes a deployed one is that of an approved wallet.
LEMMA VerifiedOfStep ==
    ASSUME Inv, [Next]_vars
    PROVE  verified' \subseteq verified \cup created'
  BY RecordsOfStep, TypeOfStep DEF verified, created, RecordsAreTrue,
     RecordIsTrue, BornApproved,
     TypeOK, Record

-----------------------------------------------------------------------------

\* A step that moves the ledger makes a wallet appear, or none.
LEMMA LedgerStep ==
    ASSUME Inv, [Next]_vars, UNCHANGED <<cred, conn, session>>
    PROVE  [Promise!Next]_(Promise!vars)
  <1>1. verified' = verified /\ conn' = conn /\ session'.cred = session.cred
    BY DEF verified
  <1>2. CASE created' = created
    BY <1>1, <1>2 DEF Promise!vars, created, verified
  <1>3. ASSUME NEW w \in Creds, created' = created \cup {w} PROVE Promise!Next
    BY <1>1, <1>3 DEF Promise!Next, Promise!Appear, created, verified
  <1> QED BY <1>2, <1>3, AppearanceOfStep

\* A step that moves a record verifies its wallet or casts doubt on it.
LEMMA RecordStep ==
    ASSUME Inv, [Next]_vars, UNCHANGED <<conn, session, chain>>,
           NEW c, NEW r, cred' = [cred EXCEPT ![c] = r]
    PROVE  [Promise!Next]_(Promise!vars)
  <1>1. created' = created /\ conn' = conn /\ session'.cred = session.cred
    BY DEF created, BornApproved, Created, chain
  <1>2. \A d \in Creds \ {c} : cred'[d] = cred[d]
    BY DEF Inv, TypeOK
  <1>3. CASE verified' = verified
    BY <1>1, <1>3 DEF Promise!vars, created, verified
  <1>4. CASE verified' # verified
    <2>1. c \in Creds /\ (verified' = verified \cup {c} \/ verified' = verified \ {c})
      BY <1>2, <1>4 DEF verified
    <2>2. verified' = verified \cup {c} /\ c \in verified' => c \in created
      BY <1>1, <1>4, VerifiedOfStep
    <2>3. CASE verified' = verified \cup {c}
      BY <1>1, <2>1, <2>2, <2>3 DEF Promise!Next, Promise!Verify, created, verified
    <2>4. CASE verified' = verified \ {c}
      BY <1>1, <2>1, <2>4 DEF Promise!Next, Promise!Doubt, created, verified
    <2> QED BY <2>1, <2>3, <2>4
  <1> QED BY <1>3, <1>4

\* A step that moves the connection or the session connects or forgets.
LEMMA ConnectionStep ==
    ASSUME Inv, [Next]_vars, UNCHANGED <<cred, chain>>
    PROVE  [Promise!Next]_(Promise!vars)
  <1>1. created' = created /\ verified' = verified
    BY DEF created, verified, BornApproved, Created, chain
  <1>2. CASE conn' = conn /\ session'.cred = session.cred
    BY <1>1, <1>2 DEF Promise!vars, created, verified
  <1>3. CASE conn' \in {conn, NoCred} /\ session'.cred = NoCred
    BY <1>1, <1>3
       DEF Promise!Next, Promise!Forget, Promise!Disconnect, created, verified
  <1>4. CASE conn' = NoCred /\ session'.cred = session.cred
    BY <1>1, <1>4 DEF Promise!Next, Promise!Restart, created, verified
  <1>5. ASSUME NEW w \in Creds, BornApproved(w), conn' = w,
               session'.cred \in {w, session.cred}
        PROVE  Promise!Next
    BY <1>1, <1>5 DEF Promise!Next, Promise!Connect, created, verified
  <1> QED BY <1>2, <1>3, <1>4, <1>5, ConnectionMoves DEF ConnectionMove

\* The client keeps the promise.
THEOREM PromiseIsKept == Spec => KeepsPromise
  <1>1. Init => Promise!Init
    BY DEF Init, Promise!Init, NoSession, Absent, BornApproved, Created
  <1>2. Inv /\ [Next]_vars => [Promise!Next]_(Promise!vars)
    <2> SUFFICES ASSUME Inv, [Next]_vars PROVE [Promise!Next]_(Promise!vars)
      OBVIOUS
    <2>1. TypeOK
      BY DEF Inv
    <2> QED BY <2>1, OneThingMoves, LedgerStep, RecordStep, ConnectionStep
  <1> QED BY <1>1, <1>2, InvIsInvariant, PTL DEF Spec, KeepsPromise, Promise!Spec

=============================================================================
