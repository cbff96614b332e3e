----------------------------- MODULE MCAccounts -----------------------------
(* Two transactions at a time on an admin's account.                          *)
EXTENDS Accounts, TLC

CONSTANTS t1, t2
MCTxs == {t1, t2}
\* Sessions, the lockout and the TOTP secret share no row but the identity's.
MCScenarios == {{"verify", "login"}, {"login", "rotate", "revoke", "reset"},
                {"login", "refusal"}, {"login", "enroll", "confirm"}}
Symmetry == Permutations(MCTxs)
=============================================================================
