------------------------------- MODULE MCAccounts -------------------------------
(* Finite instances of Accounts for TLC. *)
EXTENDS AccountsHistory, TLC

CONSTANTS op1, op2, p1, p2, l1, l2, admin, address, other, otherAddress

InitialNames == [username |-> admin, email |-> address]

\* The second takes the super administrator's address for a user name.
Operators == {[username |-> other, email |-> otherAddress],
              [username |-> address, email |-> otherAddress]}

\* Keeps the instance small.
FewSteps == uses.pages + uses.logins + restarts <= 4

Alike == Permutations(Pages) \cup Permutations(Logins) \cup Permutations({op1, op2})
===============================================================================
