-------------------------- MODULE MCExternalWallets -------------------------
(* ExternalWallets on two pages, with a wallet of two accounts and another.   *)
EXTENDS ExternalWallets, TLC

CONSTANTS freighter, lobstr, a1, a2, b, here, there

MCOwner == [a \in Addresses |-> IF a = b THEN lobstr ELSE freighter]

\* The pages do not differ.
PageSymmetry == Permutations(Pages)
=============================================================================
