----------------------------- MODULE MCAccounts -----------------------------
(***************************************************************************)
(* Accounts on a small instance: three registrations for two names, with   *)
(* and without the admin key, and one change of role.                      *)
(***************************************************************************)
EXTENDS Accounts, TLC

CONSTANTS n1, n2, none, id1, id2, x1, x2, r1, r2, r3, h1

MCForms ==
  {[name |-> n, role |-> "USER", key |-> "none"] : n \in Names \cup {NoName}}
    \cup {[name |-> n1, role |-> "ADMIN", key |-> k] : k \in AdminKeys}

AccountSymmetry == Permutations(Registrations)
=============================================================================
