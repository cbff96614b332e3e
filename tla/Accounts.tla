------------------------------ MODULE Accounts ------------------------------
(* One identity and its sessions, as routes/auth.ts and the status handler of *)
(* routes/adminUsers.ts keep them: status, lockout counter, one-use links,    *)
(* TOTP secret, and the refresh-token families of core.auth_tokens.  All of   *)
(* these rows belong to one identity, so one identity is the whole model.     *)
(*                                                                            *)
(* A handler is one READ COMMITTED transaction that reads without locks and   *)
(* then writes by id.  It is a Begin action, which keeps what was decided     *)
(* from the reads, and a Finish action, which writes and commits; anything    *)
(* may commit in between.  A handler that only writes is one action, and a    *)
(* call that is refused before it writes is no step.                          *)
EXTENDS Integers, Sequences

CONSTANTS
  Txs,          \* the transactions that can be open at a time
  Scenarios,    \* bound: the sets of handlers that one behaviour may call
  IsAdmin,      \* the role of the sessions: 12 h cap and TOTP, or neither
  Threshold,    \* LOCKOUT_THRESHOLD
  MaxTokens,    \* bound: rows of core.auth_tokens
  MaxRefusals,  \* bound: refused passwords
  MaxLinks,     \* bound: password-reset links sent
  MaxSecrets    \* bound: TOTP secrets generated

Ops == {"idle", "login", "refusal", "rotate", "revoke", "verify", "reset", "enroll", "confirm"}

ASSUME AccountsAssumption ==
  /\ Scenarios \subseteq SUBSET Ops
  /\ IsAdmin \in BOOLEAN /\ Threshold \in Nat \ {0}
  /\ MaxTokens \in Nat /\ MaxRefusals \in Nat /\ MaxLinks \in Nat
  /\ MaxSecrets \in Nat

VARIABLES
  status,     \* core.identities.status; "none" before the row exists
  failed,     \* failed_logins
  locked,     \* locked_until lies in the future
  password,   \* which password the hash is of: 0, 1, ... one per reset
  tokens,     \* core.auth_tokens, in the order of issue
  links,      \* password-reset links sent so far, in order
  mailed,     \* the e-mail verification link can still be used
  mfa,        \* core.mfa_secrets: the secret's number (0: no row), confirmed_at set
  secrets,    \* TOTP secrets generated so far
  called,     \* the handlers that are called in this behaviour
  tx,         \* what each open transaction has decided
  refusals,   \* passwords refused since the last success
  aged,       \* families that began more than 12 hours ago
  over,       \* families that a revocation has covered
  crossed,    \* families a transaction wrote to on the ground of a read that no longer held
  proven,     \* secrets a valid code was shown for
  mfaCrossed, \* a secret was confirmed by a code of its predecessor
  spent,      \* how many resets each link has paid for
  linkCrossed \* links used by two resets that overlapped

identityVars == <<status, failed, locked, password, mailed>>
sessionVars  == <<tokens, aged, over, crossed>>
mfaVars      == <<mfa, secrets, proven, mfaCrossed>>
linkVars     == <<links, spent, linkCrossed>>
lockVars     == <<refusals, called>>
vars == <<identityVars, sessionVars, mfaVars, linkVars, lockVars, tx>>

Statuses == {"none", "pending_verification", "active", "suspended", "pending_deletion"}

\* arg is the password, token row, link or secret that was read; stray says that
\* another transaction has changed what was read.
Idle == [op |-> "idle", arg |-> 0, stray |-> FALSE]

TypeOK ==
  /\ status \in Statuses /\ failed \in Nat /\ locked \in BOOLEAN /\ password \in Nat
  /\ mailed \in BOOLEAN /\ called \in SUBSET Ops
  /\ tokens \in Seq([family: Nat, revoked: BOOLEAN, rotated: BOOLEAN, pw: Nat])
  /\ links \in Seq(BOOLEAN)
  /\ mfa \in [secret: Nat, confirmed: BOOLEAN] /\ secrets \in Nat
  /\ tx \in [Txs -> [op: Ops, arg: Nat, stray: BOOLEAN]]
  /\ refusals \in Nat
  /\ aged \subseteq Nat /\ over \subseteq Nat /\ crossed \subseteq Nat
  /\ proven \subseteq Nat /\ mfaCrossed \in BOOLEAN
  /\ spent \in [1 .. MaxLinks -> Nat] /\ linkCrossed \subseteq Nat

Init ==
  /\ status = "none" /\ failed = 0 /\ locked = FALSE /\ password = 0 /\ mailed = FALSE
  /\ tokens = <<>> /\ aged = {} /\ over = {} /\ crossed = {}
  /\ links = <<>> /\ spent = [l \in 1 .. MaxLinks |-> 0] /\ linkCrossed = {}
  /\ mfa = [secret |-> 0, confirmed |-> FALSE] /\ secrets = 0
  /\ proven = {} /\ mfaCrossed = FALSE
  /\ refusals = 0 /\ tx = [t \in Txs |-> Idle]
  /\ called \in Scenarios

Rows      == 1 .. Len(tokens)
Families  == {tokens[n].family : n \in Rows}
Usable(n) == ~tokens[n].revoked /\ ~tokens[n].rotated
Doing(op) == {t \in Txs : tx[t].op = op}

Begin(t, op, arg) ==
  /\ tx[t].op = "idle" /\ op \in called
  /\ tx' = [tx EXCEPT ![t] = [op |-> op, arg |-> arg, stray |-> FALSE]]
\* Transaction t commits; those in misled have read what it changed.
Mislead(misled) == [u \in Txs |-> IF u \in misled THEN [tx[u] EXCEPT !.stray = TRUE] ELSE tx[u]]
Commit(t, misled) == tx' = [Mislead(misled) EXCEPT ![t] = Idle]

\* revokeAuthTokenFamily, revokeAllAuthTokensForIdentity: the rows committed so
\* far.  A row that an open transaction is about to insert is not among them.
Revoke(fams) ==
  /\ tokens' = [n \in Rows |-> IF tokens[n].family \in fams
                               THEN [tokens[n] EXCEPT !.revoked = TRUE] ELSE tokens[n]]
  /\ over' = over \union fams
  /\ UNCHANGED <<aged, crossed>>
Rotating(fams) == {t \in Doing("rotate") : tokens[tx[t].arg].family \in fams}
SigningIn      == Doing("login") \union Doing("rotate")

\* createAuthToken, noting whether the transaction was misled.
Issued(fam, pw) == [family |-> fam, revoked |-> FALSE, rotated |-> FALSE, pw |-> pw]
Cross(t, fam)   == IF tx[t].stray THEN crossed \union {fam} ELSE crossed

-----------------------------------------------------------------------------
(* Registration, sign-in and the lockout.                                     *)

\* POST /auth/register; the unique e-mail decides between two at once.
Register ==
  /\ status = "none"
  /\ status' = "pending_verification" /\ mailed' = TRUE
  /\ UNCHANGED <<failed, locked, password, sessionVars, mfaVars, linkVars, lockVars, tx>>

BeginVerify(t) ==
  /\ mailed /\ Begin(t, "verify", 0)
  /\ UNCHANGED <<identityVars, sessionVars, mfaVars, linkVars, lockVars>>
\* activateIdentity asks nothing of the status it overwrites.
FinishVerify(t) ==
  /\ tx[t].op = "verify"
  /\ status' = "active" /\ mailed' = FALSE /\ Commit(t, {})
  /\ UNCHANGED <<failed, locked, password, sessionVars, mfaVars, linkVars, lockVars>>

\* POST /auth/login with the right password and, where one is asked for, a code.
BeginLogin(t) ==
  /\ ~locked /\ status = "active" /\ Begin(t, "login", password)
  /\ UNCHANGED <<identityVars, sessionVars, mfaVars, linkVars, lockVars>>
FinishLogin(t) ==
  /\ tx[t].op = "login" /\ Len(tokens) < MaxTokens
  /\ LET fam == Len(tokens) + 1 IN
       /\ tokens' = Append(tokens, Issued(fam, tx[t].arg))
       /\ crossed' = Cross(t, fam)
  /\ failed' = 0 /\ locked' = FALSE /\ refusals' = 0
  /\ Commit(t, {})
  /\ UNCHANGED <<status, password, mailed, aged, over, called, mfaVars, linkVars>>

\* POST /auth/login with a wrong password.
BeginRefusal(t) ==
  /\ ~locked /\ status # "none" /\ refusals < MaxRefusals /\ Begin(t, "refusal", 0)
  /\ UNCHANGED <<identityVars, sessionVars, mfaVars, linkVars, lockVars>>
\* Mutant of FinishRefusal: the ApiError rolls the count back.
FinishRefusalRolledBack(t) ==
  /\ tx[t].op = "refusal" /\ refusals' = refusals + 1
  /\ Commit(t, {})
  /\ UNCHANGED <<identityVars, called, sessionVars, mfaVars, linkVars>>
\* The ApiError that answers it commits: runInTransaction.
FinishRefusal(t) ==
  /\ tx[t].op = "refusal"
  /\ failed' = failed + 1 /\ refusals' = refusals + 1
  /\ locked' = (locked \/ failed' >= Threshold)
  /\ Commit(t, {})
  /\ UNCHANGED <<status, password, mailed, called, sessionVars, mfaVars, linkVars>>

\* locked_until passes.  failed_logins stays where it was.
LockLapses ==
  /\ locked /\ locked' = FALSE
  /\ UNCHANGED <<status, failed, password, mailed, refusals, called, sessionVars, mfaVars, linkVars, tx>>

-----------------------------------------------------------------------------
(* Refresh-token families.                                                    *)

\* Mutant of BeginRefresh: a rotated token is taken like any other.
BeginRefreshOfRotated(t, n) ==
  /\ status = "active" /\ ~tokens[n].revoked /\ Begin(t, "rotate", n)
  /\ UNCHANGED <<identityVars, sessionVars, mfaVars, linkVars, lockVars>>

\* POST /auth/refresh up to its reads.  An expired token is refused without a
\* trace, as one that nobody presents.
BeginRefresh(t, n) ==
  /\ IF ~Usable(n) \/ (IsAdmin /\ tokens[n].family \in aged)
     THEN Begin(t, "revoke", n)
     ELSE status = "active" /\ Begin(t, "rotate", n)
  /\ UNCHANGED <<identityVars, sessionVars, mfaVars, linkVars, lockVars>>

\* Reuse, or an admin session over its cap.  The ApiError commits the revocation.
FinishRevoke(t) ==
  /\ tx[t].op = "revoke"
  /\ LET fams == {tokens[tx[t].arg].family} IN Revoke(fams) /\ Commit(t, Rotating(fams))
  /\ UNCHANGED <<identityVars, mfaVars, linkVars, lockVars>>

\* markAuthTokenRotated and createAuthToken write by id, whatever has happened to
\* the row since it was read.
FinishRotate(t) ==
  /\ tx[t].op = "rotate" /\ Len(tokens) < MaxTokens
  /\ LET n == tx[t].arg
         fam == tokens[n].family IN
       /\ tokens' = Append([tokens EXCEPT ![n].rotated = TRUE], Issued(fam, tokens[n].pw))
       /\ crossed' = Cross(t, fam)
       /\ Commit(t, {u \in Doing("rotate") : tx[u].arg = n})
  /\ UNCHANGED <<aged, over, identityVars, mfaVars, linkVars, lockVars>>

\* 12 hours after its first token was issued.
CapPasses(f) ==
  /\ IsAdmin /\ aged' = aged \union {f}
  /\ UNCHANGED <<identityVars, tokens, over, crossed, mfaVars, linkVars, lockVars, tx>>

\* POST /auth/logout with the refresh token: its family.  Without one: the
\* families of the identity and role that still have a row not revoked.
LogoutFamilies(fams) ==
  /\ Revoke(fams) /\ tx' = Mislead(Rotating(fams))
  /\ UNCHANGED <<identityVars, mfaVars, linkVars, lockVars>>
Logout(n) == LogoutFamilies({tokens[n].family})
LogoutAll == LogoutFamilies({tokens[n].family : n \in {m \in Rows : ~tokens[m].revoked}})

-----------------------------------------------------------------------------
(* Password reset, account deletion, suspension.                              *)

RequestReset ==
  /\ status # "none" /\ Len(links) < MaxLinks
  /\ links' = Append(links, TRUE)
  /\ UNCHANGED <<spent, linkCrossed, identityVars, sessionVars, mfaVars, lockVars, tx>>
LinkExpires(l) ==
  /\ links[l] /\ links' = [links EXCEPT ![l] = FALSE]
  /\ UNCHANGED <<spent, linkCrossed, identityVars, sessionVars, mfaVars, lockVars, tx>>

BeginReset(t, l) ==
  /\ links[l] /\ Begin(t, "reset", l)
  /\ UNCHANGED <<identityVars, sessionVars, mfaVars, linkVars, lockVars>>
\* Mutant of FinishReset: sessions are left alone.
FinishResetKeepingSessions(t) ==
  /\ tx[t].op = "reset"
  /\ LET l == tx[t].arg IN
       /\ password' = password + 1
       /\ links' = [links EXCEPT ![l] = FALSE] /\ spent' = [spent EXCEPT ![l] = @ + 1]
       /\ linkCrossed' = linkCrossed
       /\ Commit(t, SigningIn \union {u \in Doing("reset") : tx[u].arg = l})
  /\ UNCHANGED <<sessionVars, status, failed, locked, mailed, mfaVars, lockVars>>
FinishReset(t) ==
  /\ tx[t].op = "reset"
  /\ LET l == tx[t].arg IN
       /\ password' = password + 1
       /\ links' = [links EXCEPT ![l] = FALSE] /\ spent' = [spent EXCEPT ![l] = @ + 1]
       /\ linkCrossed' = IF tx[t].stray THEN linkCrossed \union {l} ELSE linkCrossed
       /\ Commit(t, SigningIn \union {u \in Doing("reset") : tx[u].arg = l})
  /\ Revoke(Families)
  /\ UNCHANGED <<status, failed, locked, mailed, mfaVars, lockVars>>

\* POST /auth/account/delete and the admin's status call: what an access token
\* of the last hour may ask for, whatever the status is by now.
SetStatus(s, fams, misled) ==
  /\ status' = s /\ Revoke(fams) /\ tx' = Mislead(misled)
  /\ UNCHANGED <<failed, locked, password, mailed, mfaVars, linkVars, lockVars>>
DeleteAccount == tokens # <<>> /\ SetStatus("pending_deletion", Families, SigningIn)
Suspend       == status # "none" /\ SetStatus("suspended", Families, SigningIn)
Reactivate    == status # "none" /\ SetStatus("active", {}, {})

-----------------------------------------------------------------------------
(* TOTP.  Enrolling checks and writes in two transactions.                    *)

\* The caller shows a code when a confirmed secret exists.
BeginEnroll(t) ==
  /\ IsAdmin /\ tokens # <<>> /\ secrets < MaxSecrets /\ Begin(t, "enroll", mfa.secret)
  /\ UNCHANGED <<identityVars, sessionVars, mfaVars, linkVars, lockVars>>
FinishEnroll(t) ==
  /\ tx[t].op = "enroll" /\ secrets < MaxSecrets
  /\ secrets' = secrets + 1 /\ mfa' = [secret |-> secrets', confirmed |-> FALSE]
  /\ Commit(t, Doing("confirm"))
  /\ UNCHANGED <<proven, mfaCrossed, identityVars, sessionVars, linkVars, lockVars>>

\* Mutant of BeginConfirm: the code is not checked.
BeginConfirmUnchecked(t) ==
  /\ IsAdmin /\ mfa.secret # 0 /\ Begin(t, "confirm", mfa.secret)
  /\ UNCHANGED <<proven, identityVars, sessionVars, mfa, secrets, mfaCrossed, linkVars, lockVars>>
\* A code of the secret that was read is verified.
BeginConfirm(t) ==
  /\ IsAdmin /\ mfa.secret # 0 /\ Begin(t, "confirm", mfa.secret)
  /\ proven' = proven \union {mfa.secret}
  /\ UNCHANGED <<identityVars, sessionVars, mfa, secrets, mfaCrossed, linkVars, lockVars>>
\* confirmMfaSecret stamps the identity's row, whichever secret it holds by now.
FinishConfirm(t) ==
  /\ tx[t].op = "confirm"
  /\ mfa' = [mfa EXCEPT !.confirmed = TRUE] /\ mfaCrossed' = (mfaCrossed \/ tx[t].stray)
  /\ Commit(t, {})
  /\ UNCHANGED <<secrets, proven, identityVars, sessionVars, linkVars, lockVars>>

\* The process dies or the database fails: nothing is written.
Abort(t) ==
  /\ tx[t].op # "idle" /\ Commit(t, {})
  /\ UNCHANGED <<identityVars, sessionVars, mfaVars, linkVars, lockVars>>

Next ==
  \/ Register \/ LockLapses \/ RequestReset \/ DeleteAccount \/ Suspend \/ Reactivate \/ LogoutAll
  \/ \E n \in Rows : Logout(n)
  \/ \E k \in 1 .. Len(links) : LinkExpires(k)
  \/ \E f \in Families : CapPasses(f)
  \/ \E t \in Txs :
       \/ BeginVerify(t) \/ FinishVerify(t) \/ BeginLogin(t) \/ FinishLogin(t)
       \/ BeginRefusal(t) \/ FinishRefusal(t) \/ FinishRevoke(t) \/ FinishRotate(t)
       \/ FinishReset(t) \/ BeginEnroll(t) \/ FinishEnroll(t) \/ BeginConfirm(t)
       \/ FinishConfirm(t) \/ Abort(t)
       \/ \E n \in Rows : BeginRefresh(t, n)
       \/ \E k \in 1 .. Len(links) : BeginReset(t, k)

Spec == Init /\ [][Next]_vars

-----------------------------------------------------------------------------
(* Properties.                                                                *)

\* A session that a logout, a reuse, a reset, a deletion or a suspension ended
\* stays ended, opened with the old password or before; only a transaction that
\* had read before the revocation and committed after it leaves a live token.
RevocationHolds ==
  \A n \in Rows : ~tokens[n].revoked /\ tokens[n].family \notin crossed =>
    /\ tokens[n].family \notin over
    /\ tokens[n].pw = password

\* A family has one token that can still be used, unless two refreshes with the
\* same token overlapped: the second finds it rotated and ends the family.
SingleHeir ==
  \A m, n \in Rows : /\ Usable(m) /\ Usable(n) /\ tokens[m].family = tokens[n].family
                     /\ tokens[n].family \notin crossed
                     => m = n

\* Every refused password is counted, although the handler throws right after,
\* and however the refusals overlap.
RefusalsCounted == failed = refusals

\* A confirmed TOTP secret is one that somebody has shown a code of, unless an
\* enrolment replaced it between the check of the code and the stamp.
ConfirmedIsProven == mfa.confirmed /\ ~mfaCrossed => mfa.secret \in proven

\* A reset link pays for one reset, unless two resets with it overlapped.
LinkIsSpentOnce == \A l \in 1 .. MaxLinks : spent[l] > 1 => l \in linkCrossed

\* authRepository.ts: "on reset, all sessions of that identity are revoked."
ResetEndsSessions == \A n \in Rows : Usable(n) => tokens[n].pw = password
=============================================================================
