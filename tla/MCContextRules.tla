--------------------------- MODULE MCContextRules ---------------------------
(* ContextRules with two passkeys, one of which two verifiers know, and       *)
(* wallets with a default rule, rules for a contract and gaps between them.   *)
EXTENDS ContextRules

CONSTANTS p, q, limit, none

Signer(c, verifier) == [cred |-> c, verifier |-> verifier]
P == Signer(p, 1)
Q == Signer(q, 1)
Q2 == Signer(q, 2)
Account == Signer(none, 0)
Rule(type, signers, policies, until) ==
    [type |-> type, signers |-> signers, policies |-> policies, until |-> until]

Default == Rule("Default", {P}, {}, none)
Limited == Rule("call", {P}, {limit}, none)
Shared == Rule("call", {P, Q}, {}, none)
Brief == Rule("call", {P}, {limit}, 0)
Twice == Rule("call", {Q, Q2}, {}, none)

MCTypes == {"Default", "call", "create"}
MCSigners == {P, Q, Q2, Account}
MCRefused == {Account}
MCNewRules == {Default, Limited, Brief}
Wallet(a, b, c) == [id \in 0..2 |-> IF id = 0 THEN a ELSE IF id = 1 THEN b ELSE c]
MCInitialRules ==
    {Wallet(Default, Limited, none), Wallet(none, Shared, Brief),
     Wallet(Default, none, Twice)}
MCEntries == {<<<<"call">>, <<"call", "create">>>>, <<<<none>>>>}
MCSelections == {{P}, {P, Q}}
MCForeign == {{0}}
=============================================================================
