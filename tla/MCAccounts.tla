---------------------------- MODULE MCAccounts -----------------------------
(* Accounts on small instances, for TLC. *)
EXTENDS Accounts, TLC

\* The first administrators differ by name only, and so do sessions.
Renamings == Permutations(FirstAdmins) \cup Permutations(Accounts \ FirstAdmins)
                 \cup Permutations(Sessions)
=============================================================================
