------------------------ MODULE MCCredentialLifecycle ------------------------
(***************************************************************************)
(* CredentialLifecycle on small instances.                                 *)
(***************************************************************************)
EXTENDS CredentialLifecycle, TLC

\* Passkeys, transactions and operations are interchangeable; arguments are
\* not, DefaultArgs being one of them.  Sound for the safety runs only.
Symmetry == Permutations(Creds) \cup Permutations(TxIds) \cup Permutations(Tasks)

=============================================================================
