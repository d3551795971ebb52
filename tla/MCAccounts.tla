----------------------------- MODULE MCAccounts -----------------------------
(***************************************************************************)
(* A small instance of Accounts for TLC.                                   *)
(***************************************************************************)
EXTENDS Accounts, TLC

CONSTANTS r1, r2, r3, adminId, userId

ThreeRequests == {r1, r2, r3}

(* One mailbox in two spellings, and the dummy users' addresses, which     *)
(* anybody may register as well.                                           *)
MCAddresses == {"ann@x", "Ann@X", "dummy-admin@x", "dummy-user@x"}
MCNormal    == [a \in MCAddresses |-> IF a = "Ann@X" THEN "ann@x" ELSE a]

(* The third password is too long for bcrypt and begins like the first.    *)
MCPasswords == {"p1", "p2", "p1 and more"}
MCHashable  == {"p1", "p2"}
MCBcryptKey == [p \in MCPasswords |-> IF p = "p2" THEN "p2" ELSE "p1"]

MCDummyId    == [role \in Roles |-> IF role = "admin" THEN adminId ELSE userId]
MCDummyEmail == [role \in Roles |-> IF role = "admin" THEN "dummy-admin@x" ELSE "dummy-user@x"]

Symmetry == Permutations(Requests)
=============================================================================
