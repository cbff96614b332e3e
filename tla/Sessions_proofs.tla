--------------------------- MODULE Sessions_proofs ---------------------------
(* Proofs about both ends of a session: module Accounts, the server's, for any *)
(* number of transactions, tokens, links and secrets; then ShopSession, the    *)
(* browser's, for any number of tabs, calls and pairs.                         *)
(*                                                                             *)
(* A transaction that nobody has misled still has what it read when it writes: *)
(* a token that can be used, the password it compared with, a link that has    *)
(* paid for nothing, the secret it saw a code of.                              *)
EXTENDS Accounts, ShopSession, TLAPS, SequenceTheorems

Token == [family: Nat, revoked: BOOLEAN, rotated: BOOLEAN, pw: Nat]
Open  == [op: Ops, arg: Nat, stray: BOOLEAN]

-----------------------------------------------------------------------------
(* The invariant.                                                              *)

\* What transaction u has read of the sessions is still so.
SessionTx(u) ==
  /\ tx[u].op \in {"rotate", "revoke"} => tx[u].arg \in Rows
  /\ tx[u].op = "rotate" /\ ~tx[u].stray => Usable(tx[u].arg)
  /\ tx[u].op = "login" /\ ~tx[u].stray => tx[u].arg = password
\* The link it goes by exists, and has paid for nothing.
LinkTx(u) ==
  tx[u].op = "reset" => /\ tx[u].arg \in DOMAIN links
                        /\ tx[u].stray \/ spent[tx[u].arg] = 0
\* The secret it stamps was shown, and is the one of the row.
MfaTx(u) ==
  tx[u].op = "confirm" => /\ tx[u].arg \in proven
                          /\ tx[u].stray \/ tx[u].arg = mfa.secret

\* A family is named after its first row, so a new row opens a family that no row
\* has and no revocation has covered.
Named == /\ \A n \in Rows : tokens[n].family \in Rows
         /\ over \subseteq Rows

Sessions == Named /\ RevocationHolds /\ SingleHeir /\ \A u \in Txs : SessionTx(u)
Links    == /\ Len(links) <= MaxLinks
            /\ \A l \in 1 .. MaxLinks : spent[l] = 0 \/ (l \in DOMAIN links /\ ~links[l])
            /\ LinkIsSpentOnce
            /\ \A u \in Txs : LinkTx(u)
Secrets  == ConfirmedIsProven /\ \A u \in Txs : MfaTx(u)

IInv == TypeOK /\ Sessions /\ Links /\ Secrets /\ RefusalsCounted

-----------------------------------------------------------------------------
(* The transactions and the rows.                                              *)

\* Transaction u ends or goes on with what it has read, perhaps misled.
Fades(u) ==
  \/ tx'[u] = Idle
  \/ /\ tx'[u].op = tx[u].op /\ tx'[u].arg = tx[u].arg
     /\ tx[u].stray => tx'[u].stray

LEMMA Misled ==
  ASSUME TypeOK, NEW M
  PROVE  /\ Mislead(M) \in [Txs -> Open]
         /\ \A u \in Txs : /\ Mislead(M)[u].op = tx[u].op /\ Mislead(M)[u].arg = tx[u].arg
                           /\ Mislead(M)[u].stray <=> tx[u].stray \/ u \in M
<1>1. ASSUME NEW u \in Txs
      PROVE  /\ Mislead(M)[u] \in Open
             /\ Mislead(M)[u].op = tx[u].op /\ Mislead(M)[u].arg = tx[u].arg
             /\ Mislead(M)[u].stray <=> tx[u].stray \/ u \in M
  <2>1. tx[u] \in Open  BY DEF TypeOK, Open
  <2>2. Mislead(M)[u] = IF u \in M THEN [tx[u] EXCEPT !.stray = TRUE] ELSE tx[u]
    BY DEF Mislead
  <2>3. CASE u \in M  BY <2>1, <2>2, <2>3 DEF Open
  <2>4. CASE u \notin M  BY <2>1, <2>2, <2>4 DEF Open
  <2> QED  BY <2>3, <2>4
<1> QED  BY <1>1 DEF Mislead

LEMMA Committed ==
  ASSUME TypeOK, NEW t \in Txs, NEW M, Commit(t, M)
  PROVE  /\ tx' \in [Txs -> Open] /\ tx'[t] = Idle
         /\ \A u \in Txs \ {t} : /\ tx'[u].op = tx[u].op /\ tx'[u].arg = tx[u].arg
                                 /\ tx'[u].stray <=> tx[u].stray \/ u \in M
         /\ \A u \in Txs : Fades(u)
<1>1. Idle \in Open  BY DEF Idle, Open, Ops
<1>2. tx' = [Mislead(M) EXCEPT ![t] = Idle]  BY DEF Commit
<1>3. tx' \in [Txs -> Open] /\ tx'[t] = Idle /\ \A u \in Txs \ {t} : tx'[u] = Mislead(M)[u]
  BY <1>1, <1>2, Misled
<1>4. \A u \in Txs \ {t} : /\ tx'[u].op = tx[u].op /\ tx'[u].arg = tx[u].arg
                           /\ tx'[u].stray <=> tx[u].stray \/ u \in M
  BY <1>3, Misled
<1> QED  BY <1>3, <1>4 DEF Fades

LEMMA Began ==
  ASSUME TypeOK, NEW t \in Txs, NEW op \in Ops, NEW n \in Nat, Begin(t, op, n)
  PROVE  /\ tx' \in [Txs -> Open] /\ tx'[t].op = op
         /\ tx'[t] = [op |-> op, arg |-> n, stray |-> FALSE]
         /\ \A u \in Txs \ {t} : tx'[u] = tx[u] /\ Fades(u)
BY DEF Begin, TypeOK, Open, Fades

LEMMA TokenRows ==
  ASSUME TypeOK
  PROVE  /\ Len(tokens) \in Nat /\ DOMAIN tokens = Rows /\ Rows = 1 .. Len(tokens)
         /\ \A n \in Rows : tokens[n] \in Token
BY LenProperties, ElementOfSeq DEF TypeOK, Rows, Token

\* Revoke changes one flag of the rows of some families, and nothing else.
LEMMA Revoked ==
  ASSUME TypeOK, NEW fams, Revoke(fams)
  PROVE  /\ tokens' \in Seq(Token) /\ Rows' = Rows
         /\ \A n \in Rows : /\ tokens'[n].family = tokens[n].family
                            /\ tokens'[n].rotated = tokens[n].rotated
                            /\ tokens'[n].pw = tokens[n].pw
                            /\ tokens'[n].revoked <=> tokens[n].revoked \/ tokens[n].family \in fams
         /\ over' = over \union fams /\ crossed' = crossed /\ aged' = aged
<1>1. \A n \in Rows : tokens'[n] = IF tokens[n].family \in fams
                                   THEN [tokens[n] EXCEPT !.revoked = TRUE] ELSE tokens[n]
  BY DEF Revoke
<1>2. ASSUME NEW n \in Rows
      PROVE  /\ tokens'[n] \in Token
             /\ tokens'[n].family = tokens[n].family
             /\ tokens'[n].rotated = tokens[n].rotated
             /\ tokens'[n].pw = tokens[n].pw
             /\ tokens'[n].revoked <=> tokens[n].revoked \/ tokens[n].family \in fams
  <2>1. tokens[n] \in Token  BY TokenRows
  <2> QED  BY <1>1, <2>1 DEF Token
<1>3. tokens' \in [1 .. Len(tokens) -> Token]
  BY <1>2 DEF Revoke, Rows
<1>4. tokens' \in Seq(Token) /\ Len(tokens') = Len(tokens)  BY <1>3, TokenRows, SeqDef, LenProperties
<1> QED  BY <1>2, <1>4 DEF Revoke, Rows

\* A token that is issued comes after the rows that were there.
LEMMA TokenIssued ==
  ASSUME TypeOK, NEW s \in Seq(Token), Len(s) = Len(tokens), NEW r \in Token,
         tokens' = Append(s, r)
  PROVE  /\ tokens' \in Seq(Token) /\ Rows' = Rows \union {Len(tokens) + 1}
         /\ Len(tokens) + 1 \notin Rows
         /\ tokens'[Len(tokens) + 1] = r
         /\ \A n \in Rows : tokens'[n] = s[n]
<1>1. Len(tokens) \in Nat  BY TokenRows
<1>2. tokens' \in Seq(Token) /\ Len(tokens') = Len(tokens) + 1 /\ tokens'[Len(tokens) + 1] = r
  BY AppendProperties
<1>3. \A n \in 1 .. Len(tokens) : tokens'[n] = s[n]  BY AppendProperties
<1> QED  BY <1>1, <1>2, <1>3 DEF Rows

-----------------------------------------------------------------------------
(* What keeps each group of rows.                                              *)

LEMMA SessionsKept ==
  ASSUME IInv, UNCHANGED <<tokens, over, crossed, password>>,
         \A u \in Txs : Fades(u) \/ tx'[u].op \notin {"login", "rotate", "revoke"}
  PROVE  Sessions'
<1>1. Named' /\ RevocationHolds' /\ SingleHeir' /\ Rows' = Rows
  BY DEF IInv, Sessions, Named, RevocationHolds, SingleHeir, Rows, Usable
<1>2. ASSUME NEW u \in Txs PROVE SessionTx(u)'
  <2>1. SessionTx(u)  BY DEF IInv, Sessions
  <2>2. CASE tx'[u].op \notin {"login", "rotate", "revoke"}  BY <2>2 DEF SessionTx
  <2>3. CASE tx'[u] = Idle  BY <2>3 DEF SessionTx, Idle
  <2>4. CASE /\ tx'[u].op = tx[u].op /\ tx'[u].arg = tx[u].arg
             /\ tx[u].stray => tx'[u].stray
    BY <1>1, <2>1, <2>4 DEF SessionTx, Usable
  <2> QED  BY <2>2, <2>3, <2>4 DEF Fades
<1> QED  BY <1>1, <1>2 DEF Sessions

LEMMA LinksKept ==
  ASSUME IInv, UNCHANGED linkVars,
         \A u \in Txs : Fades(u) \/ tx'[u].op # "reset"
  PROVE  Links'
<1>1. ASSUME NEW u \in Txs PROVE LinkTx(u)'
  <2>1. LinkTx(u)  BY DEF IInv, Links
  <2> QED  BY <2>1 DEF LinkTx, Fades, Idle, linkVars
<1> QED  BY <1>1 DEF IInv, Links, LinkIsSpentOnce, linkVars

LEMMA SecretsKept ==
  ASSUME IInv, UNCHANGED mfaVars,
         \A u \in Txs : Fades(u) \/ tx'[u].op # "confirm"
  PROVE  Secrets'
<1>1. ASSUME NEW u \in Txs PROVE MfaTx(u)'
  <2>1. MfaTx(u)  BY DEF IInv, Secrets
  <2> QED  BY <2>1 DEF MfaTx, Fades, Idle, mfaVars
<1> QED  BY <1>1 DEF IInv, Secrets, ConfirmedIsProven, mfaVars

\* A revocation ends what it covers, and misleads whoever is about to issue a token
\* on the ground of what it ends.  With every family covered, the password may change.
LEMMA SessionsRevoked ==
  ASSUME IInv, NEW fams \in SUBSET Families, Revoke(fams),
         \A u \in Txs : Fades(u),
         \A u \in Rotating(fams) : tx'[u].op = "idle" \/ tx'[u].stray,
         \/ password' = password
         \/ fams = Families /\ \A u \in Doing("login") : tx'[u].op = "idle" \/ tx'[u].stray
  PROVE  Sessions'
<1> USE DEF IInv, Sessions
<1>0. TypeOK  OBVIOUS
<1>1. /\ Rows' = Rows
      /\ \A n \in Rows : /\ tokens'[n].family = tokens[n].family
                         /\ tokens'[n].rotated = tokens[n].rotated
                         /\ tokens'[n].pw = tokens[n].pw
                         /\ tokens'[n].revoked <=> tokens[n].revoked \/ tokens[n].family \in fams
      /\ over' = over \union fams /\ crossed' = crossed
  BY <1>0, Revoked
<1>2. Named'  BY <1>1 DEF Named, Families
<1>3. RevocationHolds'  BY <1>1 DEF RevocationHolds, Families
<1>4. SingleHeir'  BY <1>1 DEF SingleHeir, Usable
<1>5. ASSUME NEW u \in Txs PROVE SessionTx(u)'
  <2>1. SessionTx(u) /\ Fades(u)  OBVIOUS
  <2>2. CASE tx'[u] = Idle  BY <2>2 DEF SessionTx, Idle
  <2>3. CASE /\ tx'[u].op = tx[u].op /\ tx'[u].arg = tx[u].arg
             /\ tx[u].stray => tx'[u].stray
    <3>1. CASE tx[u].op = "rotate"
      <4>1. tx[u].arg \in Rows  BY <2>1, <3>1 DEF SessionTx
      <4>2. CASE tokens[tx[u].arg].family \in fams
        <5>1. u \in Rotating(fams)  BY <3>1, <4>2 DEF Rotating, Doing
        <5> QED  BY <1>1, <2>3, <3>1, <4>1, <5>1 DEF SessionTx
      <4>3. CASE tokens[tx[u].arg].family \notin fams
        BY <1>1, <2>1, <2>3, <3>1, <4>1, <4>3 DEF SessionTx, Usable
      <4> QED  BY <4>2, <4>3
    <3>2. CASE tx[u].op = "login"
      <4>1. u \in Doing("login")  BY <3>2 DEF Doing
      <4> QED  BY <2>1, <2>3, <3>2, <4>1 DEF SessionTx
    <3>3. CASE tx[u].op \notin {"rotate", "login"}
      BY <1>1, <2>1, <2>3, <3>3 DEF SessionTx
    <3> QED  BY <3>1, <3>2, <3>3
  <2> QED  BY <2>1, <2>2, <2>3 DEF Fades
<1> QED  BY <1>2, <1>3, <1>4, <1>5

-----------------------------------------------------------------------------
(* The initial states and the steps.                                           *)

LEMMA InitOK == ASSUME Init PROVE IInv
<1> USE AccountsAssumption
<1>1. tokens = <<>> /\ Rows = {} /\ Families = {}  BY DEF Init, Rows, Families
<1>2. TypeOK
  <2>1. \A t \in Txs : tx[t] \in Open  BY DEF Init, Idle, Open, Ops
  <2>2. tx \in [Txs -> Open]  BY <2>1 DEF Init
  <2>3. called \in SUBSET Ops  BY DEF Init
  <2>4. links \in Seq(BOOLEAN) /\ tokens \in Seq(Token)  BY DEF Init
  <2>5. spent \in [1 .. MaxLinks -> Nat]  BY DEF Init
  <2> QED  BY <2>2, <2>3, <2>4, <2>5 DEF Init, TypeOK, Open, Token, Statuses
<1>3. Sessions
  BY <1>1 DEF Init, Sessions, Named, RevocationHolds, SingleHeir, SessionTx, Idle
<1>4. Links
  <2>1. Len(links) = 0 /\ DOMAIN links = {}  BY DEF Init
  <2>2. \A u \in Txs : LinkTx(u)  BY DEF Init, LinkTx, Idle
  <2>3. LinkIsSpentOnce  BY DEF Init, LinkIsSpentOnce
  <2>4. \A l \in 1 .. MaxLinks : spent[l] = 0  BY DEF Init
  <2> QED  BY <2>1, <2>2, <2>3, <2>4 DEF Links
<1>5. Secrets  BY DEF Init, Secrets, ConfirmedIsProven, MfaTx, Idle
<1> QED  BY <1>2, <1>3, <1>4, <1>5 DEF IInv, RefusalsCounted, Init

\* A step that only begins to read, or writes columns of the identity's row.
LEMMA QuietStep ==
  ASSUME IInv, UNCHANGED <<sessionVars, mfaVars, linkVars, lockVars, password, failed>>,
         status' \in Statuses, locked' \in BOOLEAN, mailed' \in BOOLEAN,
         tx' \in [Txs -> Open],
         \A u \in Txs : Fades(u) \/ tx'[u].op \in {"verify", "refusal", "enroll"}
  PROVE  IInv'
<1>1. TypeOK'
  BY DEF IInv, TypeOK, Open, sessionVars, mfaVars, linkVars, lockVars
<1>2. Sessions'  BY SessionsKept DEF sessionVars
<1>3. Links'  BY LinksKept
<1>4. Secrets'  BY SecretsKept
<1> QED  BY <1>1, <1>2, <1>3, <1>4 DEF IInv, RefusalsCounted, lockVars

LEMMA SameTx == ASSUME TypeOK, UNCHANGED tx PROVE tx' \in [Txs -> Open] /\ \A u \in Txs : Fades(u)
BY DEF TypeOK, Open, Fades

LEMMA RowStep == ASSUME IInv, Register \/ LockLapses PROVE IInv'
<1>0. TypeOK  BY DEF IInv
<1> QED  BY <1>0, SameTx, QuietStep
         DEF Register, LockLapses, Statuses, TypeOK, identityVars, lockVars

LEMMA IdentityStep ==
  ASSUME IInv, NEW t \in Txs,
         \/ BeginVerify(t) \/ FinishVerify(t) \/ BeginRefusal(t) \/ BeginEnroll(t) \/ Abort(t)
  PROVE  IInv'
<1>0. TypeOK  BY DEF IInv
<1>1. CASE BeginVerify(t)
  <2>0. "verify" \in Ops  BY DEF Ops
  <2>1. Begin(t, "verify", 0)  BY <1>1 DEF BeginVerify
  <2>2. tx' \in [Txs -> Open] /\ \A u \in Txs : Fades(u) \/ tx'[u].op = "verify"
    BY <1>0, <2>0, <2>1, Began
  <2> QED  BY <1>0, <1>1, <2>2, QuietStep DEF BeginVerify, identityVars, TypeOK
<1>2. CASE FinishVerify(t)
  <2>1. tx' \in [Txs -> Open] /\ \A u \in Txs : Fades(u)
    BY <1>0, <1>2, Committed DEF FinishVerify
  <2> QED  BY <1>0, <1>2, <2>1, QuietStep DEF FinishVerify, identityVars, TypeOK, Statuses
<1>3. CASE BeginRefusal(t)
  <2>0. "refusal" \in Ops  BY DEF Ops
  <2>1. Begin(t, "refusal", 0)  BY <1>3 DEF BeginRefusal
  <2>2. tx' \in [Txs -> Open] /\ \A u \in Txs : Fades(u) \/ tx'[u].op = "refusal"
    BY <1>0, <2>0, <2>1, Began
  <2> QED  BY <1>0, <1>3, <2>2, QuietStep DEF BeginRefusal, identityVars, TypeOK
<1>4. CASE BeginEnroll(t)
  <2>0. "enroll" \in Ops  BY DEF Ops
  <2>1. Begin(t, "enroll", mfa.secret) /\ mfa.secret \in Nat  BY <1>0, <1>4 DEF BeginEnroll, TypeOK
  <2>2. tx' \in [Txs -> Open] /\ \A u \in Txs : Fades(u) \/ tx'[u].op = "enroll"
    BY <1>0, <2>0, <2>1, Began
  <2> QED  BY <1>0, <1>4, <2>2, QuietStep DEF BeginEnroll, identityVars, TypeOK
<1>5. CASE Abort(t)
  <2>1. tx' \in [Txs -> Open] /\ \A u \in Txs : Fades(u)
    BY <1>0, <1>5, Committed DEF Abort
  <2> QED  BY <1>0, <1>5, <2>1, QuietStep DEF Abort, identityVars, TypeOK
<1> QED  BY <1>1, <1>2, <1>3, <1>4, <1>5

\* Every refusal adds one to what is stored and one to what has happened.
LEMMA RefusalStep == ASSUME IInv, NEW t \in Txs, FinishRefusal(t) PROVE IInv'
<1>0. TypeOK  BY DEF IInv
<1>1. tx' \in [Txs -> Open] /\ \A u \in Txs : Fades(u)  BY <1>0, Committed DEF FinishRefusal
<1>2. TypeOK'
  <2>1. failed' \in Nat /\ refusals' \in Nat /\ locked' \in BOOLEAN
    BY <1>0, AccountsAssumption DEF FinishRefusal, TypeOK
  <2> QED  BY <1>0, <1>1, <2>1 DEF FinishRefusal, TypeOK, Open, sessionVars, mfaVars, linkVars
<1>3. Sessions'  BY <1>1, SessionsKept DEF FinishRefusal, sessionVars
<1>4. Links'  BY <1>1, LinksKept DEF FinishRefusal
<1>5. Secrets'  BY <1>1, SecretsKept DEF FinishRefusal
<1>6. RefusalsCounted'  BY DEF IInv, RefusalsCounted, FinishRefusal
<1> QED  BY <1>2, <1>3, <1>4, <1>5, <1>6 DEF IInv

-----------------------------------------------------------------------------
(* Sessions.                                                                   *)

\* A transaction that begins keeps what the others have read.
LEMMA SessionBegins ==
  ASSUME IInv, NEW t \in Txs, NEW op \in {"login", "rotate", "revoke"}, NEW n \in Nat,
         Begin(t, op, n), UNCHANGED <<identityVars, sessionVars, mfaVars, linkVars, lockVars>>,
         op # "login" => n \in Rows, op = "rotate" => Usable(n), op = "login" => n = password
  PROVE  IInv'
<1>0. TypeOK /\ op \in Ops  BY DEF IInv, Ops
<1>1. /\ tx' \in [Txs -> Open] /\ tx'[t] = [op |-> op, arg |-> n, stray |-> FALSE]
      /\ \A u \in Txs \ {t} : tx'[u] = tx[u] /\ Fades(u)
  BY <1>0, Began
<1>2. TypeOK'
  BY <1>0, <1>1 DEF TypeOK, Open, identityVars, sessionVars, mfaVars, linkVars, lockVars
<1>3. Sessions'
  <2>1. Named' /\ RevocationHolds' /\ SingleHeir' /\ Rows' = Rows
    BY DEF IInv, Sessions, Named, RevocationHolds, SingleHeir, Rows, Usable, identityVars, sessionVars
  <2>2. \A u \in Txs \ {t} : SessionTx(u)'
    BY <1>1, <2>1 DEF IInv, Sessions, SessionTx, Usable, identityVars, sessionVars
  <2>3. SessionTx(t)'
    BY <1>1, <2>1 DEF SessionTx, Usable, identityVars, sessionVars
  <2> QED  BY <2>1, <2>2, <2>3 DEF Sessions
<1>4. Links'  BY <1>1, LinksKept
<1>5. Secrets'  BY <1>1, SecretsKept
<1> QED  BY <1>2, <1>3, <1>4, <1>5 DEF IInv, RefusalsCounted, identityVars, lockVars

LEMMA LoginBegins == ASSUME IInv, NEW t \in Txs, BeginLogin(t) PROVE IInv'
<1>1. Begin(t, "login", password) /\ password \in Nat  BY DEF BeginLogin, IInv, TypeOK
<1> QED  BY <1>1, SessionBegins DEF BeginLogin

LEMMA RefreshBegins == ASSUME IInv, NEW t \in Txs, NEW n \in Rows, BeginRefresh(t, n) PROVE IInv'
<1>1. n \in Nat  BY TokenRows DEF IInv
<1>2. CASE Begin(t, "revoke", n)  BY <1>1, <1>2, SessionBegins DEF BeginRefresh
<1>3. CASE Usable(n) /\ Begin(t, "rotate", n)  BY <1>1, <1>3, SessionBegins DEF BeginRefresh
<1> QED  BY <1>2, <1>3 DEF BeginRefresh

\* The new row's family is its own: no row has it, no revocation has covered it.
LEMMA LoginStep == ASSUME IInv, NEW t \in Txs, FinishLogin(t) PROVE IInv'
<1> DEFINE fam == Len(tokens) + 1
           row == Issued(fam, tx[t].arg)
<1>0. /\ TypeOK /\ Len(tokens) \in Nat /\ Rows = 1 .. Len(tokens) /\ tx[t] \in Open
      /\ tokens \in Seq(Token)
  BY TokenRows DEF IInv, TypeOK, Open, Token
<1>1. row \in Token  BY <1>0 DEF Issued, Token, Open
<1>2. /\ tokens' \in Seq(Token) /\ Rows' = Rows \union {fam} /\ fam \notin Rows
      /\ tokens'[fam] = row /\ \A n \in Rows : tokens'[n] = tokens[n]
  BY <1>0, <1>1, TokenIssued DEF FinishLogin
<1>3. tx' \in [Txs -> Open] /\ tx'[t] = Idle /\ \A u \in Txs : Fades(u)
  BY <1>0, Committed DEF FinishLogin
<1>4. row.family = fam /\ ~row.revoked /\ row.pw = tx[t].arg  BY DEF Issued
<1>5. crossed \subseteq crossed' /\ (tx[t].stray => fam \in crossed') /\ crossed' \subseteq Nat
  <2>1. crossed' = Cross(t, fam)  BY DEF FinishLogin
  <2>2. crossed' = IF tx[t].stray THEN crossed \union {fam} ELSE crossed  BY <2>1 DEF Cross
  <2>3. fam \in Nat /\ crossed \subseteq Nat  BY <1>0 DEF TypeOK
  <2> HIDE DEF fam
  <2> QED  BY <2>2, <2>3
<1>6. UNCHANGED <<over, password>>  BY DEF FinishLogin
<1>7. Named'
  BY <1>2, <1>4, <1>6 DEF IInv, Sessions, Named
<1>8. RevocationHolds'
  <2> SUFFICES ASSUME NEW n \in Rows', ~tokens'[n].revoked, tokens'[n].family \notin crossed'
               PROVE  tokens'[n].family \notin over' /\ tokens'[n].pw = password'
    BY DEF RevocationHolds
  <2>1. CASE n \in Rows  BY <1>2, <1>5, <1>6, <2>1 DEF IInv, Sessions, RevocationHolds
  <2>2. CASE n = fam
    <3>1. ~tx[t].stray  BY <1>2, <1>4, <1>5, <2>2
    <3>2. tx[t].arg = password  BY <3>1 DEF IInv, Sessions, SessionTx, FinishLogin
    <3>3. fam \notin over  BY <1>2 DEF IInv, Sessions, Named
    <3> QED  BY <1>2, <1>4, <1>6, <2>2, <3>2, <3>3
  <2> QED  BY <1>2, <2>1, <2>2
<1>9. SingleHeir'
  <2>1. \A n \in Rows : tokens'[n].family # fam  BY <1>2 DEF IInv, Sessions, Named
  <2> SUFFICES ASSUME NEW m \in Rows', NEW n \in Rows', Usable(m)', Usable(n)',
                      tokens'[m].family = tokens'[n].family, tokens'[n].family \notin crossed'
               PROVE  m = n
    BY DEF SingleHeir
  <2>2. CASE m \in Rows /\ n \in Rows
    <3>1. Usable(m) /\ Usable(n)  BY <1>2, <2>2 DEF Usable
    <3> QED  BY <1>2, <1>5, <2>2, <3>1 DEF IInv, Sessions, SingleHeir
  <2>3. CASE m = fam \/ n = fam  BY <1>2, <1>4, <2>1, <2>3
  <2> QED  BY <1>2, <2>2, <2>3
<1>10. \A u \in Txs : SessionTx(u)'
  <2> SUFFICES ASSUME NEW u \in Txs PROVE SessionTx(u)'  OBVIOUS
  <2>1. CASE tx'[u] = Idle  BY <2>1 DEF SessionTx, Idle
  <2>2. CASE /\ tx'[u].op = tx[u].op /\ tx'[u].arg = tx[u].arg
             /\ tx[u].stray => tx'[u].stray
    BY <1>2, <1>6, <2>2 DEF IInv, Sessions, SessionTx, Usable
  <2> QED  BY <1>3, <2>1, <2>2 DEF Fades
<1>11. TypeOK'
  <2>1. failed' = 0 /\ locked' = FALSE /\ refusals' = 0  BY DEF FinishLogin
  <2>2. UNCHANGED <<status, password, mailed, aged, over, called, mfaVars, linkVars>>  BY DEF FinishLogin
  <2>3. tokens' \in Seq([family: Nat, revoked: BOOLEAN, rotated: BOOLEAN, pw: Nat])  BY <1>2 DEF Token
  <2> HIDE DEF fam
  <2> QED  BY <1>0, <1>3, <1>5, <2>1, <2>2, <2>3 DEF TypeOK, Open, mfaVars, linkVars
<1>12. Links'  BY <1>3, LinksKept DEF FinishLogin
<1>13. Secrets'  BY <1>3, SecretsKept DEF FinishLogin
<1>14. RefusalsCounted'  BY DEF FinishLogin, RefusalsCounted
<1> QED  BY <1>7, <1>8, <1>9, <1>10, <1>11, <1>12, <1>13, <1>14 DEF IInv, Sessions

\* A refresh writes by id: if nobody has misled it, its token could still be used, and
\* the new one takes its place in the family.
LEMMA RotateStep == ASSUME IInv, NEW t \in Txs, FinishRotate(t) PROVE IInv'
<1> DEFINE n == tx[t].arg
           marked == [tokens EXCEPT ![n].rotated = TRUE]
           row == Issued(tokens[n].family, tokens[n].pw)
           new == Len(tokens) + 1
<1>0. /\ TypeOK /\ Len(tokens) \in Nat /\ Rows = 1 .. Len(tokens) /\ tokens \in Seq(Token)
      /\ n \in Rows /\ tokens[n] \in Token
  BY TokenRows DEF IInv, TypeOK, Token, Sessions, SessionTx, FinishRotate
<1>1. /\ marked \in Seq(Token) /\ Len(marked) = Len(tokens)
      /\ \A m \in Rows : /\ marked[m].family = tokens[m].family
                         /\ marked[m].revoked = tokens[m].revoked
                         /\ marked[m].pw = tokens[m].pw
                         /\ marked[m].rotated <=> tokens[m].rotated \/ m = n
  <2> DEFINE e == [tokens[n] EXCEPT !.rotated = TRUE]
  <2>1. /\ e \in Token /\ e.family = tokens[n].family /\ e.revoked = tokens[n].revoked
        /\ e.pw = tokens[n].pw /\ e.rotated = TRUE
    BY <1>0 DEF Token
  <2>2. marked = [tokens EXCEPT ![n] = e]  OBVIOUS
  <2> HIDE DEF e, marked, n
  <2>3. /\ marked \in Seq(Token) /\ Len(marked) = Len(tokens)
        /\ \A m \in Rows : marked[m] = IF m = n THEN e ELSE tokens[m]
    BY <1>0, <2>1, <2>2, ExceptSeq
  <2>4. \A m \in Rows : tokens[m] \in Token  BY <1>0, TokenRows
  <2> QED  BY <2>1, <2>3, <2>4 DEF Token
<1>2. row \in Token /\ row.family = tokens[n].family /\ ~row.revoked /\ ~row.rotated
      /\ row.pw = tokens[n].pw
  BY <1>0 DEF Issued, Token
<1>3. tokens' = Append(marked, row) /\ crossed' = Cross(t, tokens[n].family)
      /\ Commit(t, {u \in Doing("rotate") : tx[u].arg = n})
  BY DEF FinishRotate
<1>4. /\ tokens' \in Seq(Token) /\ Rows' = Rows \union {new} /\ new \notin Rows
      /\ tokens'[new] = row /\ \A m \in Rows : tokens'[m] = marked[m]
  BY <1>0, <1>1, <1>2, <1>3, TokenIssued
<1>5. /\ tx' \in [Txs -> Open] /\ tx'[t] = Idle /\ \A u \in Txs : Fades(u)
      /\ \A u \in Txs \ {t} : tx'[u].stray <=> tx[u].stray \/ (tx[u].op = "rotate" /\ tx[u].arg = n)
  BY <1>0, <1>3, Committed DEF Doing
<1>6. /\ crossed \subseteq crossed' /\ crossed' \subseteq Nat
      /\ tx[t].stray => tokens[n].family \in crossed'
  BY <1>0, <1>3 DEF Cross, TypeOK, Token
<1>7. UNCHANGED <<over, password>>  BY DEF FinishRotate, identityVars
<1>8. ~tx[t].stray => Usable(n)  BY DEF IInv, Sessions, SessionTx, FinishRotate
<1> HIDE DEF n, marked, row, new
<1>9. Named'
  <2>1. \A m \in Rows : tokens[m].family \in Rows /\ tokens'[m].family = tokens[m].family
    BY <1>1, <1>4 DEF IInv, Sessions, Named
  <2>2. tokens'[new].family \in Rows  BY <1>0, <1>2, <1>4, <2>1
  <2>3. over' \subseteq Rows  BY <1>7 DEF IInv, Sessions, Named
  <2> QED  BY <1>4, <2>1, <2>2, <2>3 DEF Named
<1>10. RevocationHolds'
  <2> SUFFICES ASSUME NEW m \in Rows', ~tokens'[m].revoked, tokens'[m].family \notin crossed'
               PROVE  tokens'[m].family \notin over' /\ tokens'[m].pw = password'
    BY DEF RevocationHolds
  <2>1. CASE m \in Rows
    <3>1. ~tokens[m].revoked /\ tokens[m].family \notin crossed  BY <1>1, <1>4, <1>6, <2>1
    <3>2. tokens[m].family \notin over /\ tokens[m].pw = password
      BY <2>1, <3>1 DEF IInv, Sessions, RevocationHolds
    <3> QED  BY <1>1, <1>4, <1>7, <2>1, <3>2
  <2>2. CASE m = new
    <3>1. ~tx[t].stray  BY <1>2, <1>4, <1>6, <2>2
    <3>2. ~tokens[n].revoked /\ tokens[n].family \notin crossed
      BY <1>2, <1>4, <1>6, <1>8, <2>2, <3>1 DEF Usable
    <3>3. tokens[n].family \notin over /\ tokens[n].pw = password
      BY <1>0, <3>2 DEF IInv, Sessions, RevocationHolds
    <3> QED  BY <1>2, <1>4, <1>7, <2>2, <3>3
  <2> QED  BY <1>4, <2>1, <2>2
<1>11. SingleHeir'
  <2> SUFFICES ASSUME NEW i \in Rows', NEW j \in Rows', Usable(i)', Usable(j)',
                      tokens'[i].family = tokens'[j].family, tokens'[j].family \notin crossed'
               PROVE  i = j
    BY DEF SingleHeir
  <2>1. ASSUME NEW m \in Rows, Usable(m)'
        PROVE  Usable(m) /\ m # n /\ tokens'[m].family = tokens[m].family
    BY <1>1, <1>4, <2>1 DEF Usable
  <2>2. CASE i \in Rows /\ j \in Rows
    BY <1>6, <2>1, <2>2 DEF IInv, Sessions, SingleHeir
  <2>3. ASSUME NEW m \in Rows, Usable(m)', tokens'[m].family = row.family,
               row.family \notin crossed'
        PROVE  FALSE
    <3>1. ~tx[t].stray /\ Usable(n)  BY <1>2, <1>6, <1>8, <2>3
    <3>2. tokens[m].family = tokens[n].family /\ tokens[n].family \notin crossed
      BY <1>2, <1>6, <2>1, <2>3
    <3> QED  BY <1>0, <2>1, <2>3, <3>1, <3>2 DEF IInv, Sessions, SingleHeir
  <2>4. CASE i = new /\ j \in Rows  BY <1>4, <2>3, <2>4
  <2>5. CASE i \in Rows /\ j = new  BY <1>4, <2>3, <2>5
  <2> QED  BY <1>4, <2>2, <2>4, <2>5
<1>12. \A u \in Txs : SessionTx(u)'
  <2> SUFFICES ASSUME NEW u \in Txs PROVE SessionTx(u)'  OBVIOUS
  <2>1. CASE tx'[u] = Idle  BY <2>1 DEF SessionTx, Idle
  <2>2. CASE u # t /\ /\ tx'[u].op = tx[u].op /\ tx'[u].arg = tx[u].arg
                      /\ tx[u].stray => tx'[u].stray
    <3>1. SessionTx(u)  BY DEF IInv, Sessions
    <3>2. ASSUME NEW m \in Rows, m # n, Usable(m) PROVE Usable(m)'
      BY <1>1, <1>4, <3>2 DEF Usable
    <3> QED  BY <1>4, <1>5, <1>7, <2>2, <3>1, <3>2 DEF SessionTx
  <2> QED  BY <1>5, <2>1, <2>2 DEF Fades
<1>13. TypeOK'
  <2>1. tokens' \in Seq([family: Nat, revoked: BOOLEAN, rotated: BOOLEAN, pw: Nat])  BY <1>4 DEF Token
  <2>2. UNCHANGED <<aged, over, identityVars, mfaVars, linkVars, lockVars>>  BY DEF FinishRotate
  <2> QED  BY <1>0, <1>5, <1>6, <2>1, <2>2 DEF TypeOK, Open, identityVars, mfaVars, linkVars, lockVars
<1>14. Links'  BY <1>5, LinksKept DEF FinishRotate
<1>15. Secrets'  BY <1>5, SecretsKept DEF FinishRotate
<1>16. RefusalsCounted'  BY DEF IInv, RefusalsCounted, FinishRotate, identityVars, lockVars
<1> QED  BY <1>9, <1>10, <1>11, <1>12, <1>13, <1>14, <1>15, <1>16 DEF IInv, Sessions

\* Whatever revokes families, and lets the password be, keeps the rest.
LEMMA RevokingStep ==
  ASSUME IInv, NEW fams \in SUBSET Families, Revoke(fams),
         status' \in Statuses, tx' \in [Txs -> Open], \A u \in Txs : Fades(u),
         \A u \in Rotating(fams) : tx'[u].op = "idle" \/ tx'[u].stray,
         UNCHANGED <<failed, locked, password, mailed, mfaVars, linkVars, lockVars>>
  PROVE  IInv'
<1>0. TypeOK  BY DEF IInv
<1>1. TypeOK'
  <2>1. tokens' \in Seq([family: Nat, revoked: BOOLEAN, rotated: BOOLEAN, pw: Nat])
    BY <1>0, Revoked DEF Token
  <2>2. Families \subseteq Nat  BY <1>0, TokenRows DEF Families, Token
  <2>3. over' = over \union fams /\ UNCHANGED <<aged, crossed>>  BY DEF Revoke
  <2>4. over' \subseteq Nat  BY <1>0, <2>2, <2>3 DEF TypeOK
  <2> QED  BY <1>0, <2>1, <2>3, <2>4 DEF TypeOK, Open, mfaVars, linkVars, lockVars
<1>2. Sessions'  BY SessionsRevoked
<1>3. Links'  BY LinksKept
<1>4. Secrets'  BY SecretsKept
<1> QED  BY <1>1, <1>2, <1>3, <1>4 DEF IInv, RefusalsCounted, lockVars

LEMMA Led ==
  ASSUME TypeOK, NEW M, tx' = Mislead(M)
  PROVE  /\ tx' \in [Txs -> Open] /\ \A u \in Txs : Fades(u)
         /\ \A u \in M \cap Txs : tx'[u].stray
BY Misled DEF Fades

LEMMA RevokeStep ==
  ASSUME IInv,
         \/ \E t \in Txs : FinishRevoke(t)
         \/ (\E n \in Rows : Logout(n)) \/ LogoutAll
         \/ Suspend \/ Reactivate \/ DeleteAccount
  PROVE  IInv'
<1>0. TypeOK  BY DEF IInv
<1>r. ASSUME NEW fams PROVE Rotating(fams) \subseteq Txs /\ SigningIn \subseteq Txs /\ Rotating(fams) \subseteq SigningIn
  BY DEF Rotating, Doing, SigningIn
<1>1. ASSUME NEW t \in Txs, FinishRevoke(t) PROVE IInv'
  <2> DEFINE fams == {tokens[tx[t].arg].family}
  <2>1. tx[t].arg \in Rows  BY <1>1 DEF IInv, Sessions, SessionTx, FinishRevoke
  <2>2. fams \in SUBSET Families  BY <2>1 DEF Families
  <2>3. Revoke(fams) /\ Commit(t, Rotating(fams))  BY <1>1 DEF FinishRevoke
  <2>4. /\ tx' \in [Txs -> Open] /\ tx'[t] = Idle /\ \A u \in Txs : Fades(u)
        /\ \A u \in Txs \ {t} : tx'[u].stray <=> tx[u].stray \/ u \in Rotating(fams)
    BY <1>0, <2>3, Committed
  <2>5. \A u \in Rotating(fams) : tx'[u].op = "idle" \/ tx'[u].stray
    BY <1>r, <2>4 DEF Idle
  <2> HIDE DEF fams
  <2> QED  BY <1>0, <1>1, <2>2, <2>3, <2>4, <2>5, RevokingStep DEF FinishRevoke, identityVars, TypeOK
<1>2. ASSUME NEW fams \in SUBSET Families, LogoutFamilies(fams) PROVE IInv'
  <2>1. Revoke(fams) /\ tx' = Mislead(Rotating(fams))  BY <1>2 DEF LogoutFamilies
  <2>2. /\ tx' \in [Txs -> Open] /\ \A u \in Txs : Fades(u)
        /\ \A u \in Rotating(fams) : tx'[u].stray
    BY <1>0, <1>r, <2>1, Led
  <2> QED  BY <1>0, <1>2, <2>1, <2>2, RevokingStep DEF LogoutFamilies, identityVars, TypeOK
<1>3. CASE \E n \in Rows : Logout(n)  BY <1>2, <1>3 DEF Logout, Families
<1>4. CASE LogoutAll
  <2>1. {tokens[n].family : n \in {m \in Rows : ~tokens[m].revoked}} \in SUBSET Families  BY DEF Families
  <2> QED  BY <1>2, <1>4, <2>1 DEF LogoutAll
<1>5. ASSUME NEW s \in Statuses, NEW fams \in SUBSET Families, NEW M,
             SetStatus(s, fams, M), Rotating(fams) \subseteq M
      PROVE  IInv'
  <2>1. Revoke(fams) /\ tx' = Mislead(M)  BY <1>5 DEF SetStatus
  <2>2. /\ tx' \in [Txs -> Open] /\ \A u \in Txs : Fades(u)
        /\ \A u \in Rotating(fams) : tx'[u].stray
    BY <1>0, <1>r, <1>5, <2>1, Led
  <2> QED  BY <1>5, <2>1, <2>2, RevokingStep DEF SetStatus
<1>6. CASE Suspend \/ DeleteAccount
  <2>1. Families \in SUBSET Families /\ Rotating(Families) \subseteq SigningIn
        /\ "suspended" \in Statuses /\ "pending_deletion" \in Statuses
    BY <1>r DEF Statuses
  <2> QED  BY <1>5, <1>6, <2>1 DEF Suspend, DeleteAccount
<1>7. CASE Reactivate
  <2>1. Rotating({}) \subseteq {} /\ "active" \in Statuses  BY DEF Rotating, Statuses
  <2> QED  BY <1>5, <1>7, <2>1 DEF Reactivate
<1> QED  BY <1>1, <1>3, <1>4, <1>6, <1>7

LEMMA CapStep == ASSUME IInv, NEW f \in Families, CapPasses(f) PROVE IInv'
<1>0. TypeOK  BY DEF IInv
<1>1. f \in Nat  BY <1>0, TokenRows DEF Families, Token
<1>2. aged' \subseteq Nat  BY <1>0, <1>1 DEF CapPasses, TypeOK
<1>3. tx' \in [Txs -> Open] /\ \A u \in Txs : Fades(u)  BY <1>0, SameTx DEF CapPasses
<1>4. TypeOK'
  BY <1>0, <1>2, <1>3 DEF CapPasses, TypeOK, Open, identityVars, mfaVars, linkVars, lockVars
<1>5. Sessions'  BY <1>3, SessionsKept DEF CapPasses, identityVars
<1>6. Links'  BY <1>3, LinksKept DEF CapPasses
<1>7. Secrets'  BY <1>3, SecretsKept DEF CapPasses
<1> QED  BY <1>4, <1>5, <1>6, <1>7 DEF IInv, RefusalsCounted, CapPasses, identityVars, lockVars

-----------------------------------------------------------------------------
(* Links.                                                                      *)

LEMMA LinkRows == ASSUME TypeOK PROVE /\ Len(links) \in Nat /\ DOMAIN links = 1 .. Len(links)
                                      /\ \A l \in DOMAIN links : links[l] \in BOOLEAN
BY LenProperties, ElementOfSeq DEF TypeOK

LEMMA LinkSent == ASSUME IInv, RequestReset PROVE IInv'
<1>0. TypeOK /\ MaxLinks \in Nat  BY AccountsAssumption DEF IInv
<1>1. /\ links' \in Seq(BOOLEAN) /\ Len(links') = Len(links) + 1
      /\ DOMAIN links' = DOMAIN links \union {Len(links) + 1}
      /\ \A l \in DOMAIN links : links'[l] = links[l]
  <2>1. links \in Seq(BOOLEAN) /\ links' = Append(links, TRUE)  BY <1>0 DEF RequestReset, TypeOK
  <2>2. /\ links' \in Seq(BOOLEAN) /\ Len(links') = Len(links) + 1
        /\ \A l \in 1 .. Len(links) : links'[l] = links[l]
    BY <2>1, AppendProperties
  <2> QED  BY <1>0, <2>2, LinkRows, LenProperties
<1>2. tx' \in [Txs -> Open] /\ \A u \in Txs : Fades(u)  BY <1>0, SameTx DEF RequestReset
<1>3. TypeOK'
  BY <1>0, <1>1, <1>2 DEF RequestReset, TypeOK, Open, identityVars, sessionVars, mfaVars, lockVars
<1>4. Links'
  <2>1. Len(links') <= MaxLinks  BY <1>0, <1>1, LinkRows DEF RequestReset
  <2>2. \A l \in 1 .. MaxLinks : spent'[l] = 0 \/ (l \in DOMAIN links' /\ ~links'[l])
    BY <1>1 DEF IInv, Links, RequestReset
  <2>3. LinkIsSpentOnce'  BY DEF IInv, Links, LinkIsSpentOnce, RequestReset
  <2>4. \A u \in Txs : LinkTx(u)'  BY <1>1 DEF IInv, Links, LinkTx, RequestReset
  <2> QED  BY <2>1, <2>2, <2>3, <2>4 DEF Links
<1>5. Sessions'  BY <1>2, SessionsKept DEF RequestReset, identityVars, sessionVars
<1>6. Secrets'  BY <1>2, SecretsKept DEF RequestReset
<1> QED  BY <1>3, <1>4, <1>5, <1>6 DEF IInv, RefusalsCounted, RequestReset, identityVars, lockVars

\* A link that is struck out.
LEMMA Struck ==
  ASSUME TypeOK, NEW l \in DOMAIN links, links' = [links EXCEPT ![l] = FALSE]
  PROVE  /\ links' \in Seq(BOOLEAN) /\ Len(links') = Len(links) /\ DOMAIN links' = DOMAIN links
         /\ ~links'[l] /\ \A k \in DOMAIN links : links'[k] => links[k]
<1>1. links \in Seq(BOOLEAN) /\ l \in 1 .. Len(links)  BY LinkRows DEF TypeOK
<1>2. links' \in Seq(BOOLEAN) /\ Len(links') = Len(links)  BY <1>1, ExceptSeq
<1> QED  BY <1>2, LinkRows

LEMMA LinkLapses == ASSUME IInv, NEW l \in 1 .. Len(links), LinkExpires(l) PROVE IInv'
<1>0. TypeOK /\ l \in DOMAIN links  BY LinkRows DEF IInv
<1>1. /\ links' \in Seq(BOOLEAN) /\ Len(links') = Len(links) /\ DOMAIN links' = DOMAIN links
      /\ ~links'[l] /\ \A k \in DOMAIN links : links'[k] => links[k]
  BY <1>0, Struck DEF LinkExpires
<1>2. tx' \in [Txs -> Open] /\ \A u \in Txs : Fades(u)  BY <1>0, SameTx DEF LinkExpires
<1>3. TypeOK'
  BY <1>0, <1>1, <1>2 DEF LinkExpires, TypeOK, Open, identityVars, sessionVars, mfaVars, lockVars
<1>4. Links'
  <2>1. \A k \in 1 .. MaxLinks : spent'[k] = 0 \/ (k \in DOMAIN links' /\ ~links'[k])
    BY <1>1 DEF IInv, Links, LinkExpires
  <2>2. LinkIsSpentOnce'  BY DEF IInv, Links, LinkIsSpentOnce, LinkExpires
  <2>3. \A u \in Txs : LinkTx(u)'  BY <1>1 DEF IInv, Links, LinkTx, LinkExpires
  <2> QED  BY <1>1, <2>1, <2>2, <2>3 DEF IInv, Links
<1>5. Sessions'  BY <1>2, SessionsKept DEF LinkExpires, identityVars, sessionVars
<1>6. Secrets'  BY <1>2, SecretsKept DEF LinkExpires
<1> QED  BY <1>3, <1>4, <1>5, <1>6 DEF IInv, RefusalsCounted, LinkExpires, identityVars, lockVars

LEMMA ResetBegins == ASSUME IInv, NEW t \in Txs, NEW l \in 1 .. Len(links), BeginReset(t, l) PROVE IInv'
<1>0. TypeOK /\ l \in DOMAIN links /\ "reset" \in Ops /\ l \in Nat  BY LinkRows DEF IInv, Ops
<1>1. /\ tx' \in [Txs -> Open] /\ tx'[t] = [op |-> "reset", arg |-> l, stray |-> FALSE]
      /\ \A u \in Txs \ {t} : tx'[u] = tx[u] /\ Fades(u)
  BY <1>0, Began DEF BeginReset
<1>2. links[l] /\ UNCHANGED <<identityVars, sessionVars, mfaVars, linkVars, lockVars>>  BY DEF BeginReset
<1>3. TypeOK'
  BY <1>0, <1>1, <1>2 DEF TypeOK, Open, identityVars, sessionVars, mfaVars, linkVars, lockVars
<1>4. Links'
  <2>1. spent[l] = 0
    <3>1. Len(links) <= MaxLinks /\ Len(links) \in Nat /\ MaxLinks \in Nat
      BY <1>0, LinkRows, AccountsAssumption DEF IInv, Links
    <3>2. l \in 1 .. MaxLinks  BY <3>1
    <3> QED  BY <1>2, <3>2 DEF IInv, Links
  <2>2. LinkTx(t)'  BY <1>0, <1>1, <1>2, <2>1 DEF LinkTx, linkVars
  <2>3. \A u \in Txs \ {t} : LinkTx(u)'  BY <1>1, <1>2 DEF IInv, Links, LinkTx, linkVars
  <2> QED  BY <1>2, <2>2, <2>3 DEF IInv, Links, LinkIsSpentOnce, linkVars
<1>5. Sessions'  BY <1>1, <1>2, SessionsKept DEF identityVars, sessionVars
<1>6. Secrets'  BY <1>1, <1>2, SecretsKept
<1> QED  BY <1>2, <1>3, <1>4, <1>5, <1>6 DEF IInv, RefusalsCounted, identityVars, lockVars

\* A reset strikes out its link, and misleads the other resets with it and whoever has
\* compared a password.
LEMMA ResetStep == ASSUME IInv, NEW t \in Txs, FinishReset(t) PROVE IInv'
<1> DEFINE l == tx[t].arg
           M == SigningIn \union {u \in Doing("reset") : tx[u].arg = l}
<1>0. TypeOK /\ l \in DOMAIN links /\ LinkTx(t)  BY DEF IInv, Links, LinkTx, FinishReset
<1>1. /\ links' \in Seq(BOOLEAN) /\ Len(links') = Len(links) /\ DOMAIN links' = DOMAIN links
      /\ ~links'[l] /\ \A k \in DOMAIN links : links'[k] => links[k]
  BY <1>0, Struck DEF FinishReset
<1>2. /\ tx' \in [Txs -> Open] /\ tx'[t] = Idle /\ \A u \in Txs : Fades(u)
      /\ \A u \in Txs \ {t} : /\ tx'[u].op = tx[u].op /\ tx'[u].arg = tx[u].arg
                              /\ tx'[u].stray <=> tx[u].stray \/ u \in M
  <2>1. Commit(t, M)  BY DEF FinishReset
  <2> HIDE DEF M
  <2> QED  BY <1>0, <2>1, Committed
<1>3. l \in 1 .. MaxLinks /\ spent[l] \in Nat
  BY <1>0, LinkRows, AccountsAssumption DEF IInv, Links, TypeOK
<1>4. /\ password' = password + 1 /\ Revoke(Families)
      /\ spent' = [spent EXCEPT ![l] = @ + 1]
      /\ linkCrossed' = IF tx[t].stray THEN linkCrossed \union {l} ELSE linkCrossed
      /\ UNCHANGED <<status, failed, locked, mailed, mfaVars, lockVars>>
  BY DEF FinishReset
<1>m. /\ Rotating(Families) \subseteq M /\ Doing("login") \subseteq M
      /\ \A u \in Txs : tx[u].op = "reset" /\ tx[u].arg = l => u \in M
  BY DEF Rotating, Doing, SigningIn
<1>5. Sessions'
  <2>1. \A u \in Rotating(Families) \union Doing("login") : u \in Txs  BY DEF Rotating, Doing
  <2>2. \A u \in Rotating(Families) \union Doing("login") : tx'[u].op = "idle" \/ tx'[u].stray
    BY <1>2, <1>m, <2>1 DEF Idle
  <2> QED  BY <1>2, <1>4, <2>2, SessionsRevoked
<1> HIDE DEF l, M
<1>6. Links'
  <2>1. \A k \in 1 .. MaxLinks : spent'[k] = IF k = l THEN spent[l] + 1 ELSE spent[k]
    BY <1>0, <1>3, <1>4 DEF TypeOK
  <2>2. \A k \in 1 .. MaxLinks : spent'[k] = 0 \/ (k \in DOMAIN links' /\ ~links'[k])
    BY <1>0, <1>1, <2>1 DEF IInv, Links
  <2>3. LinkIsSpentOnce'
    <3>1. ASSUME ~tx[t].stray PROVE spent[l] = 0  BY <1>0, <3>1 DEF LinkTx, FinishReset, l
    <3>3. \A k \in 1 .. MaxLinks : spent[k] \in Nat /\ (spent[k] > 1 => k \in linkCrossed)
      BY <1>0 DEF IInv, Links, LinkIsSpentOnce, TypeOK
    <3>4. CASE ~tx[t].stray
      <4>1. linkCrossed' = linkCrossed /\ spent'[l] = 1  BY <1>3, <1>4, <2>1, <3>1, <3>4
      <4>2. \A k \in 1 .. MaxLinks : k # l => spent'[k] = spent[k]  BY <2>1
      <4> QED  BY <3>3, <4>1, <4>2 DEF LinkIsSpentOnce
    <3>5. CASE tx[t].stray  BY <1>3, <1>4, <2>1, <3>3, <3>5 DEF LinkIsSpentOnce
    <3> QED  BY <3>4, <3>5
  <2>4. ASSUME NEW u \in Txs PROVE LinkTx(u)'
    <3>1. LinkTx(u)  BY DEF IInv, Links
    <3>2. CASE u = t  BY <1>2, <3>2 DEF LinkTx, Idle
    <3>3. CASE u # t /\ tx[u].op = "reset"
      <4>1. tx[u].arg \in 1 .. MaxLinks
        BY <1>0, <3>1, <3>3, LinkRows, AccountsAssumption DEF IInv, Links, LinkTx
      <4> QED  BY <1>1, <1>2, <1>m, <2>1, <3>1, <3>3, <4>1 DEF LinkTx
    <3>4. CASE u # t /\ tx[u].op # "reset"  BY <1>2, <3>4 DEF LinkTx
    <3> QED  BY <3>2, <3>3, <3>4
  <2> QED  BY <1>1, <2>2, <2>3, <2>4 DEF IInv, Links
<1>7. Secrets'  BY <1>2, <1>4, SecretsKept
<1>8. TypeOK'
  <2>1. tokens' \in Seq([family: Nat, revoked: BOOLEAN, rotated: BOOLEAN, pw: Nat])
    BY <1>0, <1>4, Revoked DEF Token
  <2>2. Families \subseteq Nat  BY <1>0, TokenRows DEF Families, Token
  <2>3. over' = over \union Families /\ UNCHANGED <<aged, crossed>>  BY <1>4 DEF Revoke
  <2>4. over' \subseteq Nat  BY <1>0, <2>2, <2>3 DEF TypeOK
  <2>5. spent' \in [1 .. MaxLinks -> Nat]  BY <1>0, <1>3, <1>4 DEF TypeOK
  <2>6. linkCrossed' \subseteq Nat
    <3>1. l \in Nat /\ linkCrossed \subseteq Nat  BY <1>0, <1>3 DEF TypeOK
    <3> QED  BY <1>4, <3>1
  <2>7. password' \in Nat  BY <1>0, <1>4 DEF TypeOK
  <2> QED  BY <1>0, <1>1, <1>2, <1>4, <2>1, <2>3, <2>4, <2>5, <2>6, <2>7
           DEF TypeOK, Open, mfaVars, lockVars
<1> QED  BY <1>4, <1>5, <1>6, <1>7, <1>8 DEF IInv, RefusalsCounted, lockVars

-----------------------------------------------------------------------------
(* Secrets.                                                                    *)

\* A new secret misleads whoever has seen a code of the one before.
LEMMA EnrollStep == ASSUME IInv, NEW t \in Txs, FinishEnroll(t) PROVE IInv'
<1>0. TypeOK  BY DEF IInv
<1>1. /\ tx' \in [Txs -> Open] /\ tx'[t] = Idle /\ \A u \in Txs : Fades(u)
      /\ \A u \in Txs \ {t} : /\ tx'[u].op = tx[u].op /\ tx'[u].arg = tx[u].arg
                              /\ tx'[u].stray <=> tx[u].stray \/ tx[u].op = "confirm"
  BY <1>0, Committed DEF FinishEnroll, Doing
<1>2. /\ secrets' = secrets + 1 /\ mfa' = [secret |-> secrets', confirmed |-> FALSE]
      /\ UNCHANGED <<proven, mfaCrossed, identityVars, sessionVars, linkVars, lockVars>>
  BY DEF FinishEnroll
<1>3. TypeOK'
  <2>1. secrets' \in Nat /\ mfa' \in [secret: Nat, confirmed: BOOLEAN]  BY <1>0, <1>2 DEF TypeOK
  <2> QED  BY <1>0, <1>1, <1>2, <2>1 DEF TypeOK, Open, identityVars, sessionVars, linkVars, lockVars
<1>4. Secrets'
  <2>1. \A u \in Txs : MfaTx(u)'  BY <1>1, <1>2 DEF IInv, Secrets, MfaTx, Idle
  <2> QED  BY <1>2, <2>1 DEF Secrets, ConfirmedIsProven
<1>5. Sessions'  BY <1>1, <1>2, SessionsKept DEF identityVars, sessionVars
<1>6. Links'  BY <1>1, <1>2, LinksKept
<1> QED  BY <1>2, <1>3, <1>4, <1>5, <1>6 DEF IInv, RefusalsCounted, identityVars, lockVars

LEMMA ConfirmBegins == ASSUME IInv, NEW t \in Txs, BeginConfirm(t) PROVE IInv'
<1>0. TypeOK /\ "confirm" \in Ops /\ mfa.secret \in Nat  BY DEF IInv, TypeOK, Ops
<1>1. /\ tx' \in [Txs -> Open] /\ tx'[t] = [op |-> "confirm", arg |-> mfa.secret, stray |-> FALSE]
      /\ \A u \in Txs \ {t} : tx'[u] = tx[u] /\ Fades(u)
  BY <1>0, Began DEF BeginConfirm
<1>2. /\ proven' = proven \union {mfa.secret}
      /\ UNCHANGED <<identityVars, sessionVars, mfa, secrets, mfaCrossed, linkVars, lockVars>>
  BY DEF BeginConfirm
<1>3. TypeOK'
  <2>1. proven' \subseteq Nat  BY <1>0, <1>2 DEF TypeOK
  <2> QED  BY <1>0, <1>1, <1>2, <2>1 DEF TypeOK, Open, identityVars, sessionVars, linkVars, lockVars
<1>4. Secrets'
  <2>1. \A u \in Txs \ {t} : MfaTx(u)'  BY <1>1, <1>2 DEF IInv, Secrets, MfaTx
  <2>2. MfaTx(t)'  BY <1>1, <1>2 DEF MfaTx
  <2> QED  BY <1>2, <2>1, <2>2 DEF IInv, Secrets, ConfirmedIsProven
<1>5. Sessions'  BY <1>1, <1>2, SessionsKept DEF identityVars, sessionVars
<1>6. Links'  BY <1>1, <1>2, LinksKept
<1> QED  BY <1>2, <1>3, <1>4, <1>5, <1>6 DEF IInv, RefusalsCounted, identityVars, lockVars

LEMMA ConfirmStep == ASSUME IInv, NEW t \in Txs, FinishConfirm(t) PROVE IInv'
<1>0. TypeOK  BY DEF IInv
<1>1. tx' \in [Txs -> Open] /\ \A u \in Txs : Fades(u)  BY <1>0, Committed DEF FinishConfirm
<1>2. /\ mfa' = [mfa EXCEPT !.confirmed = TRUE] /\ mfaCrossed' = (mfaCrossed \/ tx[t].stray)
      /\ UNCHANGED <<secrets, proven, identityVars, sessionVars, linkVars, lockVars>>
  BY DEF FinishConfirm
<1>3. mfa' \in [secret: Nat, confirmed: BOOLEAN] /\ mfa'.secret = mfa.secret  BY <1>0, <1>2 DEF TypeOK
<1>4. mfaCrossed' \in BOOLEAN  BY <1>2
<1>5. TypeOK'
  BY <1>0, <1>1, <1>2, <1>3, <1>4 DEF TypeOK, Open, identityVars, sessionVars, linkVars, lockVars
<1>6. Secrets'
  <2>1. ~tx[t].stray => mfa.secret \in proven  BY DEF IInv, Secrets, MfaTx, FinishConfirm
  <2>2. \A u \in Txs : MfaTx(u)'  BY <1>1, <1>2, <1>3 DEF IInv, Secrets, MfaTx, Fades, Idle
  <2> QED  BY <1>2, <1>3, <2>1, <2>2 DEF Secrets, ConfirmedIsProven
<1>7. Sessions'  BY <1>1, <1>2, SessionsKept DEF identityVars, sessionVars
<1>8. Links'  BY <1>1, <1>2, LinksKept
<1> QED  BY <1>2, <1>5, <1>6, <1>7, <1>8 DEF IInv, RefusalsCounted, identityVars, lockVars

-----------------------------------------------------------------------------
(* The theorems.                                                               *)

LEMMA Stutter == ASSUME IInv, UNCHANGED vars PROVE IInv'
<1>0. TypeOK  BY DEF IInv
<1>1. UNCHANGED <<identityVars, sessionVars, mfaVars, linkVars, lockVars, tx>>  BY DEF vars
<1>2. tx' \in [Txs -> Open] /\ \A u \in Txs : Fades(u)  BY <1>0, <1>1, SameTx
<1> QED  BY <1>0, <1>1, <1>2, QuietStep DEF identityVars, TypeOK

LEMMA Inductive == IInv /\ [Next]_vars => IInv'
<1> SUFFICES ASSUME IInv, [Next]_vars PROVE IInv'  OBVIOUS
<1>1. CASE UNCHANGED vars  BY <1>1, Stutter
<1>2. CASE Next
  <2>1. ASSUME NEW t \in Txs,
               \/ BeginVerify(t) \/ FinishVerify(t) \/ BeginLogin(t) \/ FinishLogin(t)
               \/ BeginRefusal(t) \/ FinishRefusal(t) \/ FinishRevoke(t) \/ FinishRotate(t)
               \/ FinishReset(t) \/ BeginEnroll(t) \/ FinishEnroll(t) \/ BeginConfirm(t)
               \/ FinishConfirm(t) \/ Abort(t)
               \/ \E n \in Rows : BeginRefresh(t, n)
               \/ \E k \in 1 .. Len(links) : BeginReset(t, k)
        PROVE  IInv'
    BY <2>1, IdentityStep, LoginBegins, LoginStep, RefusalStep, RevokeStep, RotateStep, ResetStep,
       EnrollStep, ConfirmBegins, ConfirmStep, RefreshBegins, ResetBegins
  <2>2. CASE Register \/ LockLapses  BY <2>2, RowStep
  <2>3. CASE RequestReset  BY <2>3, LinkSent
  <2>4. CASE DeleteAccount \/ Suspend \/ Reactivate \/ LogoutAll \/ \E n \in Rows : Logout(n)
    BY <2>4, RevokeStep
  <2>5. CASE \E k \in 1 .. Len(links) : LinkExpires(k)  BY <2>5, LinkLapses
  <2>6. CASE \E f \in Families : CapPasses(f)  BY <2>6, CapStep
  <2> QED  BY <1>2, <2>1, <2>2, <2>3, <2>4, <2>5, <2>6 DEF Next
<1> QED  BY <1>1, <1>2

\* The inductive invariant: a transaction that nobody has crossed still has what it
\* read, and the rows agree with the history of what was ended, spent and proven.
THEOREM Invariance == Spec => []IInv
<1>1. Init => IInv  BY InitOK
<1> QED  BY <1>1, Inductive, PTL DEF Spec

\* The rows and the transactions keep their types, for any number of them.
THEOREM AccountsTyped == Spec => []TypeOK
<1>1. IInv => TypeOK  BY DEF IInv
<1> QED  BY <1>1, Invariance, PTL

\* What ended a session has ended it for good, whatever interleaves, short of a
\* transaction that had read before: logout, reuse, reset, deletion, suspension.
THEOREM RevocationHoldsAlways == Spec => []RevocationHolds
<1>1. IInv => RevocationHolds  BY DEF IInv, Sessions
<1> QED  BY <1>1, Invariance, PTL

\* A family never has two tokens that can be used, whatever is replayed, short of two
\* refreshes with one token that overlap.
THEOREM SingleHeirAlways == Spec => []SingleHeir
<1>1. IInv => SingleHeir  BY DEF IInv, Sessions
<1> QED  BY <1>1, Invariance, PTL

\* failed_logins is the number of passwords refused since the last success.
THEOREM RefusalsCountedAlways == Spec => []RefusalsCounted
<1>1. IInv => RefusalsCounted  BY DEF IInv
<1> QED  BY <1>1, Invariance, PTL

\* A confirmed TOTP secret was shown a code of, but for an enrolment in between.
THEOREM ConfirmedIsProvenAlways == Spec => []ConfirmedIsProven
<1>1. IInv => ConfirmedIsProven  BY DEF IInv, Secrets
<1> QED  BY <1>1, Invariance, PTL

\* A reset link pays for one reset, but for two that overlap.
THEOREM LinkIsSpentOnceAlways == Spec => []LinkIsSpentOnce
<1>1. IInv => LinkIsSpentOnce  BY DEF IInv, Links
<1> QED  BY <1>1, Invariance, PTL

-----------------------------------------------------------------------------
(* The storefront's session.                                                   *)
(*                                                                             *)
(* A pair is stored once: by the tab whose refresh obtained it, and never      *)
(* again once another pair or none has taken its place.  So a tab that sends a *)
(* refresh token again can only be the one whose first attempt was lost.       *)

RowType   == [revoked : BOOLEAN, rotated : BOOLEAN]
RenewType == [phase : {"none", "sent", "read", "answered"}, token : 0 .. MaxPairs,
              verdict : {"none", "rotate", "revoke"}, pair : 0 .. MaxPairs]

-----------------------------------------------------------------------------
(* The invariant.                                                               *)

\* A refresh that is out carries a token the server knows, and the pair it obtained is
\* not stored yet.
RenewOK(t) ==
  /\ renewing[t] = None <=> renewing[t].phase = "none"
  /\ renewing[t].phase # "none" => renewing[t].token \in 1 .. Len(rows)
  /\ renewing[t].pair \in 0 .. Len(rows)
  /\ renewing[t].pair # 0 => renewing[t].phase = "answered" /\ renewing[t].pair # stored

\* No two refreshes obtained the same pair.
OwnPairs == \A t, u \in Tabs : t # u /\ renewing[t].pair # 0 => renewing[t].pair # renewing[u].pair

\* A pair no browser has stored.
Unstored(n) == n > Len(rows) \/ \E u \in Tabs : renewing[u].pair = n

\* A token may be sent again only when every time it was sent before went unanswered.
Counted(t, n) ==
  /\ presented[t][n] <= 1 + lost[t][n]
  /\ Unstored(n) \/ (n = stored /\ renewing[t].token # n) => presented[t][n] <= lost[t][n]

\* The server has refused the token for good.
Refused(t) == renewing[t].phase = "answered" /\ renewing[t].pair = 0 => ~Live(renewing[t].token)

ShopIInv ==
  /\ ShopTypeOK
  /\ stored <= Len(rows) /\ late \subseteq 1 .. Len(rows)
  /\ \A t \in Tabs : RenewOK(t) /\ Refused(t)
  /\ OwnPairs
  /\ \A t \in Tabs, n \in Pairs : Counted(t, n)

-----------------------------------------------------------------------------
(* The rows of core.auth_tokens.                                                *)

LEMMA RowsAre == ASSUME ShopTypeOK PROVE /\ rows \in Seq(RowType) /\ Len(rows) \in Nat
                                     /\ DOMAIN rows = 1 .. Len(rows) /\ Len(rows) <= MaxPairs
                                     /\ MaxPairs \in Nat
  BY ShopAssumption, LenProperties DEF ShopTypeOK, RowType

LEMMA RevokedRowsAre ==
  ASSUME ShopTypeOK
  PROVE  /\ RevokedRows \in Seq(RowType) /\ Len(RevokedRows) = Len(rows)
         /\ \A n \in 1 .. Len(rows) : RevokedRows[n].revoked
<1>1. rows \in Seq(RowType) /\ Len(rows) \in Nat /\ DOMAIN rows = 1 .. Len(rows)  BY RowsAre
<1>2. \A n \in 1 .. Len(rows) : rows[n] \in RowType  BY <1>1
<1>3. \A n \in 1 .. Len(rows) : [rows[n] EXCEPT !.revoked = TRUE] \in RowType
                               /\ [rows[n] EXCEPT !.revoked = TRUE].revoked
  BY <1>2 DEF RowType
<1>4. DEFINE f(n) == [rows[n] EXCEPT !.revoked = TRUE]
<1>5. RevokedRows = [n \in 1 .. Len(rows) |-> f(n)]  BY <1>1 DEF RevokedRows
<1>6. \A n \in 1 .. Len(rows) : f(n) \in RowType /\ f(n).revoked  BY <1>3
<1> HIDE DEF f
<1>7. RevokedRows \in [1 .. Len(rows) -> RowType]  BY <1>5, <1>6
<1>8. RevokedRows \in Seq(RowType) /\ Len(RevokedRows) = Len(rows)  BY <1>1, <1>7, SeqDef, LenProperties
<1>9. QED  BY <1>5, <1>6, <1>8

LEMMA RotatedRowsAre ==
  ASSUME ShopTypeOK, NEW k \in 1 .. Len(rows)
  PROVE  /\ RotatedRows(k) \in Seq(RowType) /\ Len(RotatedRows(k)) = Len(rows) + 1
         /\ \A n \in 1 .. Len(rows) : /\ rows[n].revoked => RotatedRows(k)[n].revoked
                                      /\ rows[n].rotated => RotatedRows(k)[n].rotated
<1>1. rows \in Seq(RowType) /\ Len(rows) \in Nat /\ DOMAIN rows = 1 .. Len(rows)  BY RowsAre
<1>2. DEFINE marked == [rows EXCEPT ![k].rotated = TRUE]
             row    == [revoked |-> FALSE, rotated |-> FALSE]
<1>3. row \in RowType  BY DEF RowType
<1>4. /\ marked \in Seq(RowType) /\ Len(marked) = Len(rows)
      /\ \A n \in 1 .. Len(rows) : /\ rows[n].revoked => marked[n].revoked
                                   /\ rows[n].rotated => marked[n].rotated
  <2>1. rows \in [1 .. Len(rows) -> RowType]  BY <1>1
  <2>2. [rows[k] EXCEPT !.rotated = TRUE] \in RowType  BY <2>1 DEF RowType
  <2>3. marked \in [1 .. Len(rows) -> RowType]  BY <2>1, <2>2
  <2>4. marked \in Seq(RowType) /\ Len(marked) = Len(rows)  BY <1>1, <2>3, SeqDef, LenProperties
  <2>5. ASSUME NEW n \in 1 .. Len(rows)
        PROVE  (rows[n].revoked => marked[n].revoked) /\ (rows[n].rotated => marked[n].rotated)
    <3>1. rows[n] \in RowType  BY <2>1
    <3>2. marked[n] = IF n = k THEN [rows[n] EXCEPT !.rotated = TRUE] ELSE rows[n]  BY <2>1
    <3>3. QED  BY <3>1, <3>2 DEF RowType
  <2>6. QED  BY <2>4, <2>5
<1> HIDE DEF marked, row
<1>5. /\ Append(marked, row) \in Seq(RowType) /\ Len(Append(marked, row)) = Len(rows) + 1
      /\ \A n \in 1 .. Len(rows) : Append(marked, row)[n] = marked[n]
  BY <1>1, <1>3, <1>4, AppendProperties
<1>6. RotatedRows(k) = Append(marked, row)  BY DEF RotatedRows, marked, row
<1>7. QED  BY <1>4, <1>5, <1>6

\* A pair the server refuses, it refuses from then on.
LEMMA DeadStaysDead ==
  ASSUME ShopTypeOK, NEW n \in 1 .. Len(rows), ~Live(n),
         rows' = rows \/ rows' = RevokedRows \/ \E k \in 1 .. Len(rows) : rows' = RotatedRows(k)
  PROVE  ~Live(n)'
<1>1. CASE rows' = rows  BY <1>1 DEF Live
<1>2. CASE rows' = RevokedRows  BY <1>2, RevokedRowsAre DEF Live
<1>3. CASE \E k \in 1 .. Len(rows) : rows' = RotatedRows(k)
  BY <1>3, RotatedRowsAre DEF Live
<1>4. QED  BY <1>1, <1>2, <1>3

\* What a step may do to the rows.
RowsMove == \/ rows' = rows \/ rows' = RevokedRows
            \/ Len(rows) < MaxPairs /\ \E k \in 1 .. Len(rows) : rows' = RotatedRows(k)

LEMMA RowsMoved ==
  ASSUME ShopTypeOK, RowsMove
  PROVE  /\ rows' \in Seq(RowType) /\ Len(rows') \in Nat
         /\ Len(rows) <= Len(rows') /\ Len(rows') <= MaxPairs
         /\ \A n \in 1 .. Len(rows) : ~Live(n) => ~Live(n)'
<1>1. rows \in Seq(RowType) /\ Len(rows) \in Nat /\ Len(rows) <= MaxPairs /\ MaxPairs \in Nat  BY RowsAre
<1>2. \A n \in 1 .. Len(rows) : ~Live(n) => ~Live(n)'  BY DeadStaysDead DEF RowsMove
<1>3. CASE rows' = rows  BY <1>1, <1>2, <1>3
<1>4. CASE rows' = RevokedRows  BY <1>1, <1>2, <1>4, RevokedRowsAre
<1>5. CASE Len(rows) < MaxPairs /\ \E k \in 1 .. Len(rows) : rows' = RotatedRows(k)
  BY <1>1, <1>2, <1>5, RotatedRowsAre
<1>6. QED  BY <1>3, <1>4, <1>5 DEF RowsMove

-----------------------------------------------------------------------------
(* The first state, and the steps of the calls.                                 *)

LEMMA InitInv == ShopInit => ShopIInv
<1>1. SUFFICES ASSUME ShopInit PROVE ShopIInv  OBVIOUS
<1>2. MaxPairs \in Nat \ {0}  BY ShopAssumption
<1>3. rows \in Seq(RowType) /\ Len(rows) = 1  BY <1>1 DEF ShopInit, RowType
<1>4. ShopTypeOK  BY <1>1, <1>2, <1>3, ShopAssumption DEF ShopInit, ShopTypeOK, RowType, None
<1>5. \A t \in Tabs : renewing[t] = None  BY <1>1 DEF ShopInit
<1>6. ASSUME NEW t \in Tabs PROVE RenewOK(t) /\ Refused(t)
  <2>1. renewing[t] = None /\ None.phase = "none" /\ None.pair = 0  BY <1>5 DEF None
  <2>2. 0 \in 0 .. Len(rows)  BY <1>3
  <2>3. QED  BY <2>1, <2>2 DEF RenewOK, Refused
<1>7. OwnPairs  BY <1>5 DEF OwnPairs, None
<1>8. \A t \in Tabs, n \in Pairs : Counted(t, n)  BY <1>1 DEF ShopInit, Counted
<1>9. QED  BY <1>1, <1>3, <1>4, <1>6, <1>7, <1>8 DEF ShopIInv, ShopInit

CallType == [phase : {"idle", "sent", "waiting", "resent"}, bearer : 0 .. MaxPairs]

LEMMA Settles ==
  ASSUME ShopTypeOK, NEW cs, NEW p \in {"idle", "sent", "waiting", "resent"}, NEW b \in 0 .. MaxPairs
  PROVE  Settle(cs, p, b) \in [Calls -> CallType]
  BY DEF Settle, ShopTypeOK, CallType

LEMMA Zero == 0 \in 0 .. MaxPairs
  BY ShopAssumption

\* The invariant does not speak of the calls, or of what has expired.
LEMMA Untouched ==
  ASSUME ShopIInv, ShopTypeOK', UNCHANGED <<stored, rows, renewing, late, presented, lost>>
  PROVE  ShopIInv'
  BY DEF ShopIInv, RenewOK, Refused, OwnPairs, Counted, Unstored, Live

LEMMA CallsKeep ==
  ASSUME ShopIInv, NEW c \in Calls, Send(c) \/ Answered(c) \/ NetworkError(c) PROVE ShopIInv'
<1>1. ShopTypeOK  BY DEF ShopIInv
<1>2. call' \in [Calls -> CallType] /\ losses' \in 0 .. MaxLosses
  <2>1. CASE Send(c)
    <3>1. call' = Settle({c}, "sent", stored) /\ stored \in 0 .. MaxPairs /\ losses' = losses
      BY <1>1, <2>1 DEF Send, ShopTypeOK
    <3>2. QED  BY <1>1, <3>1, Settles DEF ShopTypeOK
  <2>2. CASE Answered(c) \/ NetworkError(c)
    <3>1. call' = Settle({c}, "idle", 0)  BY <2>2 DEF Answered, NetworkError, Return
    <3>2. losses' \in 0 .. MaxLosses
      BY <1>1, <2>2, ShopAssumption DEF Answered, NetworkError, ShopTypeOK
    <3>3. QED  BY <1>1, <3>1, <3>2, Settles, Zero
  <2>3. QED  BY <2>1, <2>2
<1>3. UNCHANGED <<stored, rows, renewing, late, presented, lost, expired, errors>>
  BY DEF Send, Answered, NetworkError
<1>4. ShopTypeOK'  BY <1>1, <1>2, <1>3 DEF ShopTypeOK, CallType
<1>5. QED  BY <1>3, <1>4, Untouched

LEMMA ExpireKeeps == ASSUME ShopIInv, NEW n \in DOMAIN rows, Expire(n) PROVE ShopIInv'
<1>1. ShopTypeOK  BY DEF ShopIInv
<1>2. n \in Pairs  BY <1>1, RowsAre DEF Pairs
<1>3. ShopTypeOK'  BY <1>1, <1>2 DEF ShopTypeOK, Expire
<1>4. QED  BY <1>3, Untouched DEF Expire

-----------------------------------------------------------------------------
(* A refresh.                                                                   *)

\* What holds of a renewal's record once its refresh is sent.
LEMMA PresentKeeps ==
  ASSUME ShopIInv, NEW t \in Tabs, renewing[t] = None, stored # 0, Present(t),
         ShopTypeOK', UNCHANGED <<stored, rows, late, lost>>
  PROVE  ShopIInv'
<1>1. ShopTypeOK /\ stored \in 1 .. Len(rows) /\ stored \in Pairs
  <2>1. ShopTypeOK /\ stored <= Len(rows) /\ stored # 0  BY DEF ShopIInv
  <2>2. stored \in 0 .. MaxPairs  BY <2>1 DEF ShopTypeOK
  <2>3. Len(rows) \in Nat /\ Len(rows) <= MaxPairs /\ MaxPairs \in Nat  BY <2>1, RowsAre
  <2>4. stored \in 1 .. Len(rows) /\ stored \in 1 .. MaxPairs  BY <2>1, <2>2, <2>3
  <2>5. QED  BY <2>1, <2>4 DEF Pairs
<1>2. DEFINE q == [None EXCEPT !.phase = "sent", !.token = stored]
<1>3. /\ renewing' = [renewing EXCEPT ![t] = q] /\ renewing \in [Tabs -> RenewType]
      /\ presented' = [presented EXCEPT ![t][stored] = @ + 1]
      /\ presented \in [Tabs -> [Pairs -> Nat]] /\ lost \in [Tabs -> [Pairs -> Nat]]
  BY <1>1 DEF Present, ShopTypeOK, RenewType
<1>4. q.phase = "sent" /\ q.token = stored /\ q.pair = 0 /\ q # None  BY DEF None
<1> HIDE DEF q
<1>5. renewing'[t] = q /\ \A u \in Tabs \ {t} : renewing'[u] = renewing[u]  BY <1>3
<1>6. renewing[t].pair = 0  BY DEF None
<1>7. \A u \in Tabs : RenewOK(u)' /\ Refused(u)'
  <2>1. RenewOK(t)' /\ Refused(t)'
    BY <1>1, <1>4, <1>5, RowsAre DEF RenewOK, Refused, None
  <2>2. ASSUME NEW u \in Tabs \ {t} PROVE RenewOK(u)' /\ Refused(u)'
    BY <1>5 DEF ShopIInv, RenewOK, Refused, Live
  <2>3. QED  BY <2>1, <2>2
<1>8. OwnPairs'  BY <1>4, <1>5, <1>6 DEF ShopIInv, OwnPairs
<1>9. \A n : Unstored(n)' => Unstored(n) \/ n = 0
  BY <1>4, <1>5 DEF Unstored
<1>10. ~Unstored(stored)
  BY <1>1, RowsAre DEF ShopIInv, Unstored, RenewOK
<1>11. ASSUME NEW u \in Tabs, NEW n \in Pairs PROVE Counted(u, n)'
  <2>1. Counted(u, n)  BY DEF ShopIInv
  <2>2. n # 0  BY ShopAssumption DEF Pairs
  <2>3. CASE u = t /\ n = stored
    <3>1. presented[u][n] <= lost[u][n]  BY <1>6, <2>1, <2>2, <2>3 DEF Counted, None
    <3>2. presented'[u][n] = presented[u][n] + 1 /\ lost' = lost  BY <1>3, <2>3
    <3>3. ~Unstored(n)' /\ renewing'[u].token = n /\ stored' = stored
      BY <1>4, <1>5, <1>9, <1>10, <2>2, <2>3
    <3>4. presented[u][n] \in Nat /\ lost[u][n] \in Nat  BY <1>3
    <3>5. QED  BY <3>1, <3>2, <3>3, <3>4 DEF Counted
  <2>4. CASE ~(u = t /\ n = stored)
    <3>1. presented'[u][n] = presented[u][n]  BY <1>1, <1>3, <2>4
    <3>2. n = stored => renewing'[u] = renewing[u]  BY <1>5, <2>4
    <3>3. QED  BY <1>9, <2>1, <2>2, <3>1, <3>2 DEF Counted
  <2>5. QED  BY <2>3, <2>4
<1>12. QED  BY <1>7, <1>8, <1>11 DEF ShopIInv

LEMMA UnauthorizedKeeps == ASSUME ShopIInv, NEW c \in Calls, Unauthorized(c) PROVE ShopIInv'
<1>1. ShopTypeOK /\ TabOf[c] \in Tabs  BY ShopAssumption DEF ShopIInv
<1>2. call' \in [Calls -> CallType]
  <2>1. call' = Settle({c}, "waiting", 0) \/ call' = Settle({c}, "idle", 0)
    BY DEF Unauthorized, Return
  <2>2. QED  BY <1>1, <2>1, Settles, Zero
<1>3. CASE UNCHANGED <<renewing, presented>>
  <2>1. ShopTypeOK'  BY <1>1, <1>2, <1>3 DEF ShopTypeOK, CallType, Unauthorized
  <2>2. QED  BY <1>3, <2>1, Untouched DEF Unauthorized
<1>4. CASE renewing[TabOf[c]] = None /\ stored # 0 /\ Present(TabOf[c])
  <2>1. PICK t \in Tabs : t = TabOf[c]  BY <1>1
  <2>2. stored \in Pairs /\ stored \in 0 .. MaxPairs  BY <1>1, <1>4 DEF ShopTypeOK, Pairs
  <2>3. renewing' \in [Tabs -> RenewType]
    BY <1>1, <1>4, <2>1, <2>2 DEF Present, ShopTypeOK, RenewType, None
  <2>4. presented' \in [Tabs -> [Pairs -> Nat]]
    BY <1>1, <1>4, <2>1, <2>2 DEF Present, ShopTypeOK
  <2>5. ShopTypeOK'  BY <1>1, <1>2, <2>3, <2>4 DEF ShopTypeOK, CallType, RenewType, Unauthorized
  <2>6. QED  BY <1>4, <2>1, <2>5, PresentKeeps DEF Unauthorized
<1>5. QED  BY <1>3, <1>4 DEF Unauthorized

\* A refresh that the server reads, or answers: the pair it obtained is a new one.
LEMMA ServerKeeps ==
  ASSUME ShopIInv, NEW t \in Tabs, NEW q \in RenewType,
         renewing' = [renewing EXCEPT ![t] = q], renewing[t].pair = 0,
         renewing[t].phase # "none", q.phase \in {"read", "answered"}, q.token = renewing[t].token,
         \/ q.pair = 0 \/ (q.pair = Len(rows) + 1 /\ Len(rows') = Len(rows) + 1 /\ q.phase = "answered"),
         q.phase = "answered" /\ q.pair = 0 => ~Live(q.token)',
         RowsMove, ShopTypeOK', UNCHANGED <<stored, late, presented, lost>>
  PROVE  ShopIInv'
<1>1. ShopTypeOK /\ stored \in 0 .. Len(rows)  BY RowsAre DEF ShopIInv, ShopTypeOK
<1>2. /\ Len(rows) \in Nat /\ Len(rows') \in Nat /\ Len(rows) <= Len(rows')
      /\ \A n \in 1 .. Len(rows) : ~Live(n) => ~Live(n)'
  BY <1>1, RowsMoved, RowsAre
<1>3. renewing'[t] = q /\ \A u \in Tabs \ {t} : renewing'[u] = renewing[u]  BY <1>1 DEF ShopTypeOK
<1>4. q # None  BY DEF None
<1>5. \A u \in Tabs : RenewOK(u) /\ Refused(u)  BY DEF ShopIInv
<1>6. RenewOK(t)' /\ Refused(t)'
  <2>1. q.token \in 1 .. Len(rows)  BY <1>5 DEF RenewOK
  <2>2. q.pair \in 0 .. Len(rows') /\ (q.pair # 0 => q.pair # stored)  BY <1>1, <1>2
  <2>3. RenewOK(t)'  BY <1>2, <1>3, <1>4, <2>1, <2>2 DEF RenewOK
  <2>4. Refused(t)'  BY <1>3 DEF Refused
  <2>5. QED  BY <2>3, <2>4
<1>7. ASSUME NEW u \in Tabs \ {t} PROVE RenewOK(u)' /\ Refused(u)'
  <2>1. RenewOK(u)'  BY <1>2, <1>3, <1>5 DEF RenewOK
  <2>2. Refused(u)'
    <3>1. SUFFICES ASSUME renewing[u].phase = "answered", renewing[u].pair = 0
                   PROVE  ~Live(renewing[u].token)'
      BY <1>3 DEF Refused
    <3>2. PICK n \in 1 .. Len(rows) : n = renewing[u].token  BY <1>5, <3>1 DEF RenewOK
    <3>3. ~Live(n)'  BY <1>2, <1>5, <3>1, <3>2 DEF Refused
    <3>4. renewing'[u].token = n  BY <1>3, <3>2
    <3>5. QED  BY <3>3, <3>4 DEF Live
  <2>3. QED  BY <2>1, <2>2
<1>8. OwnPairs'
  <2>1. \A u \in Tabs : renewing[u].pair \in 0 .. Len(rows)  BY <1>5 DEF RenewOK
  <2>2. \A u \in Tabs \ {t} : q.pair # 0 => renewing[u].pair # q.pair  BY <1>2, <2>1
  <2>3. QED  BY <1>3, <2>2 DEF ShopIInv, OwnPairs
<1>9. ASSUME NEW u \in Tabs, NEW n \in Pairs PROVE Counted(u, n)'
  <2>1. n \in Nat \ {0}  BY ShopAssumption DEF Pairs
  <2>2. Unstored(n)' => Unstored(n)  BY <1>2, <1>3, <2>1 DEF Unstored
  <2>3. renewing'[u].token = renewing[u].token  BY <1>3
  <2>4. Counted(u, n)  BY DEF ShopIInv
  <2>5. QED  BY <2>2, <2>3, <2>4 DEF Counted
<1>10. stored <= Len(rows') /\ late \subseteq 1 .. Len(rows')  BY <1>1, <1>2 DEF ShopIInv
<1>11. QED  BY <1>6, <1>7, <1>8, <1>9, <1>10 DEF ShopIInv

\* A refresh that is over: its pair is stored, or no pair is, or it went unanswered.
LEMMA EndKeeps ==
  ASSUME ShopIInv, NEW t \in Tabs, renewing' = [renewing EXCEPT ![t] = None], renewing[t].phase # "none",
         rows' = rows, presented' = presented, late' \subseteq 1 .. Len(rows), ShopTypeOK',
         \A u \in Tabs, n \in Pairs : lost'[u][n] >= lost[u][n],
         \/ stored' = 0 \/ (stored' # 0 /\ stored' = renewing[t].pair)
         \/ stored' = stored /\ \A n \in Pairs : n = renewing[t].token => lost'[t][n] = lost[t][n] + 1
  PROVE  ShopIInv'
<1>1. ShopTypeOK /\ stored \in 0 .. Len(rows) /\ Len(rows) \in Nat
  <2>1. ShopTypeOK /\ stored <= Len(rows)  BY DEF ShopIInv
  <2>2. Len(rows) \in Nat  BY <2>1, RowsAre
  <2>3. stored \in Nat  BY <2>1, ShopAssumption DEF ShopTypeOK
  <2>4. QED  BY <2>1, <2>2, <2>3
<1>2. renewing'[t] = None /\ \A u \in Tabs \ {t} : renewing'[u] = renewing[u]  BY <1>1 DEF ShopTypeOK
<1>3. None.phase = "none" /\ None.pair = 0 /\ None.token = 0  BY DEF None
<1>4. \A u \in Tabs : RenewOK(u) /\ Refused(u)  BY DEF ShopIInv
<1>5. stored' \in 0 .. Len(rows)  BY <1>1, <1>4 DEF RenewOK
<1>6. RenewOK(t)' /\ Refused(t)'
  <2>1. 0 \in 0 .. Len(rows')  BY <1>1
  <2>2. QED  BY <1>2, <1>3, <2>1 DEF RenewOK, Refused
<1>7. ASSUME NEW u \in Tabs \ {t} PROVE RenewOK(u)' /\ Refused(u)'
  <2>1. renewing[u].pair # 0 => renewing[u].pair # stored'
    BY <1>4 DEF ShopIInv, OwnPairs, RenewOK
  <2>2. QED  BY <1>2, <1>4, <2>1 DEF RenewOK, Refused, Live
<1>8. OwnPairs'  BY <1>2, <1>3 DEF ShopIInv, OwnPairs
<1>9. ASSUME NEW u \in Tabs, NEW n \in Pairs PROVE Counted(u, n)'
  <2>1. n \in Nat \ {0}  BY ShopAssumption DEF Pairs
  <2>2. Unstored(n)' => Unstored(n)  BY <1>2, <1>3, <2>1 DEF Unstored
  <2>3. Counted(u, n)  BY DEF ShopIInv
  <2>4. /\ presented[u][n] \in Nat /\ lost[u][n] \in Nat /\ lost'[u][n] \in Nat
        /\ lost'[u][n] >= lost[u][n]
    BY <1>1 DEF ShopTypeOK
  <2>5. CASE stored' = 0  BY <2>1, <2>2, <2>3, <2>4, <2>5 DEF Counted
  <2>6. CASE stored' # 0 /\ stored' = renewing[t].pair
    <3>1. n = stored' => Unstored(n)  BY <2>6 DEF Unstored
    <3>2. QED  BY <2>2, <2>3, <2>4, <3>1 DEF Counted
  <2>7. CASE stored' = stored /\ \A k \in Pairs : k = renewing[t].token => lost'[t][k] = lost[t][k] + 1
    <3>1. CASE u = t /\ n = renewing[t].token
      <4>1. presented[u][n] <= lost'[u][n]  BY <2>3, <2>4, <2>7, <3>1 DEF Counted
      <4>2. QED  BY <2>4, <4>1 DEF Counted
    <3>2. CASE u = t /\ n # renewing[t].token
      BY <2>2, <2>3, <2>4, <2>7, <3>2 DEF Counted
    <3>3. CASE u # t
      <4>1. renewing'[u] = renewing[u]  BY <1>2, <3>3
      <4>2. QED  BY <2>2, <2>3, <2>4, <2>7, <4>1 DEF Counted
    <3>4. QED  BY <3>1, <3>2, <3>3
  <2>8. QED  BY <2>5, <2>6, <2>7
<1>10. QED  BY <1>1, <1>5, <1>6, <1>7, <1>8, <1>9 DEF ShopIInv

\* A step that no refresh of the browser takes part in.
LEMMA OutsideKeeps ==
  ASSUME ShopIInv, RowsMove, ShopTypeOK', stored' = stored \/ stored' = 0, late' \subseteq late,
         UNCHANGED <<renewing, presented, lost>>
  PROVE  ShopIInv'
<1>1. ShopTypeOK /\ stored \in 0 .. Len(rows)  BY RowsAre DEF ShopIInv, ShopTypeOK
<1>2. /\ Len(rows) \in Nat /\ Len(rows') \in Nat /\ Len(rows) <= Len(rows')
      /\ \A n \in 1 .. Len(rows) : ~Live(n) => ~Live(n)'
  BY <1>1, RowsMoved, RowsAre
<1>3. \A u \in Tabs : RenewOK(u) /\ Refused(u)  BY DEF ShopIInv
<1>4. ASSUME NEW u \in Tabs PROVE RenewOK(u)' /\ Refused(u)'
  <2>1. RenewOK(u)'  BY <1>2, <1>3 DEF RenewOK
  <2>2. Refused(u)'
    <3>1. SUFFICES ASSUME renewing[u].phase = "answered", renewing[u].pair = 0
                   PROVE  ~Live(renewing[u].token)'
      BY DEF Refused
    <3>2. PICK n \in 1 .. Len(rows) : n = renewing[u].token  BY <1>3, <3>1 DEF RenewOK
    <3>3. ~Live(n)'  BY <1>2, <1>3, <3>1, <3>2 DEF Refused
    <3>4. renewing'[u].token = n  BY <3>2
    <3>5. QED  BY <3>3, <3>4 DEF Live
  <2>3. QED  BY <2>1, <2>2
<1>5. OwnPairs'  BY DEF ShopIInv, OwnPairs
<1>6. ASSUME NEW u \in Tabs, NEW n \in Pairs PROVE Counted(u, n)'
  <2>1. n \in Nat \ {0}  BY ShopAssumption DEF Pairs
  <2>2. Unstored(n)' => Unstored(n)  BY <1>2, <2>1 DEF Unstored
  <2>3. Counted(u, n)  BY DEF ShopIInv
  <2>4. QED  BY <2>1, <2>2, <2>3 DEF Counted
<1>7. stored' <= Len(rows') /\ late' \subseteq 1 .. Len(rows')  BY <1>1, <1>2 DEF ShopIInv
<1>8. QED  BY <1>4, <1>5, <1>6, <1>7 DEF ShopIInv

\* A renewal's record with another phase, verdict and pair.
Moved(r, p, v, n) == [r EXCEPT !.phase = p, !.verdict = v, !.pair = n]

LEMMA ReadKeeps == ASSUME ShopIInv, NEW t \in Tabs, Read(t) PROVE ShopIInv'
<1>1. ShopTypeOK /\ renewing[t] \in RenewType /\ RenewOK(t)  BY DEF ShopIInv, ShopTypeOK, RenewType
<1>2. PICK v \in {"none", "rotate", "revoke"} :
        v = IF Live(renewing[t].token) THEN "rotate" ELSE "revoke"
  OBVIOUS
<1>3. PICK q \in RenewType :
        /\ q = Moved(renewing[t], "read", v, renewing[t].pair)
        /\ q.phase = "read" /\ q.token = renewing[t].token /\ q.pair = renewing[t].pair
  <2>1. renewing[t].pair \in 0 .. MaxPairs  BY <1>1 DEF RenewType
  <2>2. DEFINE m == Moved(renewing[t], "read", v, renewing[t].pair)
  <2>3. m \in RenewType /\ m.phase = "read" /\ m.token = renewing[t].token /\ m.pair = renewing[t].pair
    BY <1>1, <2>1 DEF RenewType, Moved
  <2>4. QED  BY <2>3
<1>4. renewing' = [renewing EXCEPT ![t] = q]
  <2>1. q = [renewing[t] EXCEPT !.phase = "read", !.verdict = v]  BY <1>1, <1>3 DEF RenewType, Moved
  <2>2. QED  BY <1>1, <1>2, <2>1 DEF Read, ShopTypeOK
<1>5. renewing[t].pair = 0  BY <1>1 DEF Read, RenewOK
<1>6. ShopTypeOK'
  <2>1. renewing' \in [Tabs -> RenewType]  BY <1>1, <1>4 DEF ShopTypeOK, RenewType
  <2>2. QED  BY <1>1, <2>1 DEF ShopTypeOK, Read, RenewType
<1>7. RowsMove  BY DEF Read, RowsMove
<1>8. QED  BY <1>3, <1>4, <1>5, <1>6, <1>7, ServerKeeps DEF Read

LEMMA WriteKeeps == ASSUME ShopIInv, NEW t \in Tabs, Write(t) PROVE ShopIInv'
<1>1. ShopTypeOK /\ renewing[t] \in RenewType /\ RenewOK(t)  BY DEF ShopIInv, ShopTypeOK, RenewType
<1>2. renewing[t].pair = 0 /\ renewing[t].token \in 1 .. Len(rows)
  BY <1>1 DEF Write, RenewOK
<1>3. CASE rows' = RevokedRows /\ renewing' = [renewing EXCEPT ![t].phase = "answered"]
  <2>1. PICK q \in RenewType :
          /\ q = Moved(renewing[t], "answered", renewing[t].verdict, 0)
          /\ q.phase = "answered" /\ q.token = renewing[t].token /\ q.pair = 0
    <3>1. renewing[t].verdict \in {"none", "rotate", "revoke"}  BY <1>1 DEF RenewType
    <3>2. DEFINE m == Moved(renewing[t], "answered", renewing[t].verdict, 0)
    <3>3. m \in RenewType /\ m.phase = "answered" /\ m.token = renewing[t].token /\ m.pair = 0
      BY <1>1, <3>1, Zero DEF RenewType, Moved
    <3>4. QED  BY <3>3
  <2>2. renewing' = [renewing EXCEPT ![t] = q]
    <3>1. q = [renewing[t] EXCEPT !.phase = "answered"]  BY <1>1, <1>2, <2>1 DEF RenewType, Moved
    <3>2. QED  BY <1>1, <1>3, <3>1 DEF ShopTypeOK
  <2>3. RowsMove  BY <1>3 DEF RowsMove
  <2>4. ShopTypeOK'
    <3>1. rows' \in Seq(RowType) /\ Len(rows') <= MaxPairs  BY <1>1, <2>3, RowsMoved
    <3>2. QED  BY <1>1, <2>2, <3>1 DEF ShopTypeOK, Write, RenewType, RowType
  <2>5. ~Live(q.token)'
    <3>1. PICK n \in 1 .. Len(rows) : n = q.token  BY <1>2, <2>1
    <3>2. rows'[n].revoked  BY <1>1, <1>3, RevokedRowsAre
    <3>3. QED  BY <3>1, <3>2 DEF Live
  <2>6. QED  BY <1>2, <2>1, <2>2, <2>3, <2>4, <2>5, ServerKeeps DEF Write
<1>4. CASE /\ Len(rows) < MaxPairs /\ rows' = RotatedRows(renewing[t].token)
           /\ renewing' = [renewing EXCEPT ![t].phase = "answered", ![t].pair = Len(rows')]
  <2>1. RowsMove /\ Len(rows') = Len(rows) + 1 /\ rows' \in Seq(RowType) /\ Len(rows') <= MaxPairs
    BY <1>1, <1>2, <1>4, RotatedRowsAre, RowsAre, RowsMoved DEF RowsMove
  <2>2. Len(rows') \in 0 .. MaxPairs /\ Len(rows') # 0  BY <1>1, <2>1, RowsAre
  <2>3. PICK q \in RenewType :
          /\ q = Moved(renewing[t], "answered", renewing[t].verdict, Len(rows'))
          /\ q.phase = "answered" /\ q.token = renewing[t].token /\ q.pair = Len(rows')
    <3>1. renewing[t].verdict \in {"none", "rotate", "revoke"}  BY <1>1 DEF RenewType
    <3>2. DEFINE m == Moved(renewing[t], "answered", renewing[t].verdict, Len(rows'))
    <3>3. m \in RenewType /\ m.phase = "answered" /\ m.token = renewing[t].token /\ m.pair = Len(rows')
      BY <1>1, <2>2, <3>1 DEF RenewType, Moved
    <3>4. QED  BY <3>3
  <2>4. renewing' = [renewing EXCEPT ![t] = q]
    <3>1. q = [renewing[t] EXCEPT !.phase = "answered", !.pair = Len(rows')]
      BY <1>1, <2>3 DEF RenewType, Moved
    <3>2. QED  BY <1>1, <1>4, <3>1 DEF ShopTypeOK
  <2>5. ShopTypeOK'  BY <1>1, <2>1, <2>4 DEF ShopTypeOK, Write, RenewType, RowType
  <2>6. QED  BY <1>2, <2>1, <2>2, <2>3, <2>4, <2>5, ServerKeeps DEF Write
<1>5. QED  BY <1>3, <1>4 DEF Write

LEMMA NoneIs == None \in RenewType
  BY Zero DEF None, RenewType

LEMMA RenewedKeeps == ASSUME ShopIInv, NEW t \in Tabs, Renewed(t) PROVE ShopIInv'
<1>1. ShopTypeOK /\ RenewOK(t) /\ renewing[t].pair \in 0 .. MaxPairs  BY DEF ShopIInv, ShopTypeOK
<1>2. call' \in [Calls -> CallType]  BY <1>1, Settles DEF Renewed
<1>3. renewing' \in [Tabs -> RenewType]  BY <1>1, NoneIs DEF Renewed, ShopTypeOK, RenewType
<1>4. ShopTypeOK'  BY <1>1, <1>2, <1>3 DEF ShopTypeOK, CallType, RenewType, Renewed
<1>5. \A u \in Tabs, n \in Pairs : lost'[u][n] >= lost[u][n]  BY <1>1 DEF ShopTypeOK, Renewed
<1>6. QED  BY <1>4, <1>5, EndKeeps DEF Renewed, ShopIInv

LEMMA RejectedKeeps == ASSUME ShopIInv, NEW t \in Tabs, Rejected(t) PROVE ShopIInv'
<1>1. ShopTypeOK  BY DEF ShopIInv
<1>2. call' \in [Calls -> CallType]  BY <1>1, Settles, Zero DEF Rejected, Return
<1>3. renewing' \in [Tabs -> RenewType]  BY <1>1, NoneIs DEF Rejected, ShopTypeOK, RenewType
<1>4. ShopTypeOK'  BY <1>1, <1>2, <1>3, Zero DEF ShopTypeOK, CallType, RenewType, Rejected
<1>5. \A u \in Tabs, n \in Pairs : lost'[u][n] >= lost[u][n]  BY <1>1 DEF ShopTypeOK, Rejected
<1>6. QED  BY <1>4, <1>5, EndKeeps DEF Rejected, ShopIInv

LEMMA UnansweredKeeps == ASSUME ShopIInv, NEW t \in Tabs, Unanswered(t) PROVE ShopIInv'
<1>1. ShopTypeOK /\ RenewOK(t) /\ renewing[t] \in RenewType  BY DEF ShopIInv, ShopTypeOK, RenewType
<1>2. PICK k \in 1 .. Len(rows) : k = renewing[t].token  BY <1>1 DEF RenewOK, Unanswered, Lose, GiveUp
<1>3. k \in Pairs  BY <1>1, <1>2, RowsAre DEF Pairs
<1>4. call' \in [Calls -> CallType]  BY <1>1, Settles, Zero DEF Unanswered, Lose, GiveUp, Return
<1>5. renewing' \in [Tabs -> RenewType]  BY <1>1, NoneIs DEF Unanswered, Lose, GiveUp, ShopTypeOK, RenewType
<1>6. /\ lost \in [Tabs -> [Pairs -> Nat]]
      /\ lost' = [lost EXCEPT ![t] = [lost[t] EXCEPT ![k] = lost[t][k] + 1]]
  BY <1>1, <1>2 DEF Unanswered, Lose, GiveUp, ShopTypeOK
<1>7. [lost[t] EXCEPT ![k] = lost[t][k] + 1] \in [Pairs -> Nat]  BY <1>3, <1>6
<1>8. lost' \in [Tabs -> [Pairs -> Nat]]  BY <1>6, <1>7
<1>9. \A u \in Tabs, n \in Pairs :
        lost'[u][n] = IF u = t /\ n = k THEN lost[u][n] + 1 ELSE lost[u][n]
  BY <1>3, <1>6
<1>10. late' \subseteq 1 .. Len(rows)  BY <1>2 DEF Unanswered, Lose, GiveUp, ShopIInv
<1>11. late' \subseteq Pairs  BY <1>1, <1>10, RowsAre DEF Pairs
<1>12. losses' \in 0 .. MaxLosses  BY <1>1, ShopAssumption DEF Unanswered, Lose, GiveUp, ShopTypeOK
<1>13. ShopTypeOK'
  BY <1>1, <1>4, <1>5, <1>8, <1>11, <1>12 DEF ShopTypeOK, CallType, RenewType, Unanswered, Lose, GiveUp
<1>14. \A u \in Tabs, n \in Pairs : lost'[u][n] >= lost[u][n]  BY <1>6, <1>9
<1>15. \A n \in Pairs : n = renewing[t].token => lost'[t][n] = lost[t][n] + 1  BY <1>2, <1>9
<1>16. QED  BY <1>10, <1>13, <1>14, <1>15, EndKeeps DEF Unanswered, Lose, GiveUp

LEMMA ErrorAnswerKeeps == ASSUME ShopIInv, NEW t \in Tabs, ErrorAnswer(t) PROVE ShopIInv'
<1>1. ShopTypeOK /\ RenewOK(t)  BY DEF ShopIInv
<1>2. PICK k \in 1 .. Len(rows) : k = renewing[t].token  BY <1>1 DEF RenewOK, ErrorAnswer, GiveUp
<1>3. call' \in [Calls -> CallType]  BY <1>1, Settles, Zero DEF ErrorAnswer, GiveUp, Return
<1>4. renewing' \in [Tabs -> RenewType]
  BY <1>1, NoneIs DEF ErrorAnswer, GiveUp, ShopTypeOK, RenewType
<1>5. late' \subseteq 1 .. Len(rows)  BY <1>2 DEF ErrorAnswer, GiveUp, ShopIInv
<1>6. late' \subseteq Pairs  BY <1>1, <1>5, RowsAre DEF Pairs
<1>7. errors' \in 0 .. MaxErrors  BY <1>1, ShopAssumption DEF ErrorAnswer, ShopTypeOK
<1>8. ShopTypeOK'
  BY <1>1, <1>3, <1>4, <1>6, <1>7, Zero DEF ShopTypeOK, CallType, RenewType, ErrorAnswer
<1>9. \A u \in Tabs, n \in Pairs : lost'[u][n] >= lost[u][n]  BY <1>1 DEF ShopTypeOK, ErrorAnswer
<1>10. QED  BY <1>5, <1>8, <1>9, EndKeeps DEF ErrorAnswer, GiveUp

LEMMA ServeLateKeeps == ASSUME ShopIInv, NEW n \in late, ServeLate(n) PROVE ShopIInv'
<1>1. ShopTypeOK /\ n \in 1 .. Len(rows)  BY DEF ShopIInv
<1>2. RowsMove  BY <1>1 DEF ServeLate, RowsMove
<1>3. rows' \in Seq(RowType) /\ Len(rows') <= MaxPairs  BY <1>1, <1>2, RowsMoved
<1>4. ShopTypeOK'  BY <1>1, <1>3 DEF ShopTypeOK, ServeLate, RowType
<1>5. QED  BY <1>2, <1>4, OutsideKeeps DEF ServeLate

LEMMA LogoutKeeps == ASSUME ShopIInv, BrowserLogout PROVE ShopIInv'
<1>1. ShopTypeOK  BY DEF ShopIInv
<1>2. RowsMove /\ losses' \in 0 .. MaxLosses
  BY <1>1, ShopAssumption DEF BrowserLogout, RowsMove, ShopTypeOK
<1>3. rows' \in Seq(RowType) /\ Len(rows') <= MaxPairs  BY <1>1, <1>2, RowsMoved
<1>4. ShopTypeOK'  BY <1>1, <1>2, <1>3, Zero DEF ShopTypeOK, BrowserLogout, RowType
<1>5. QED  BY <1>2, <1>4, OutsideKeeps DEF BrowserLogout

-----------------------------------------------------------------------------
(* The theorems.                                                                *)

LEMMA NextInv == ShopIInv /\ [ShopNext]_shopVars => ShopIInv'
<1>1. SUFFICES ASSUME ShopIInv, [ShopNext]_shopVars PROVE ShopIInv'  OBVIOUS
<1>2. CASE BrowserLogout  BY <1>1, <1>2, LogoutKeeps
<1>3. ASSUME NEW c \in Calls, Send(c) \/ CallStep(c) \/ NetworkError(c) PROVE ShopIInv'
  BY <1>1, <1>3, CallsKeep, UnauthorizedKeeps DEF CallStep
<1>4. ASSUME NEW t \in Tabs, RenewStep(t) \/ Unanswered(t) \/ ErrorAnswer(t)
      PROVE  ShopIInv'
  BY <1>1, <1>4, ReadKeeps, WriteKeeps, RenewedKeeps, RejectedKeeps, UnansweredKeeps,
     ErrorAnswerKeeps DEF RenewStep
<1>5. ASSUME NEW n \in late, ServeLate(n) PROVE ShopIInv'  BY <1>1, <1>5, ServeLateKeeps
<1>6. ASSUME NEW n \in DOMAIN rows, Expire(n) PROVE ShopIInv'  BY <1>1, <1>6, ExpireKeeps
<1>7. CASE UNCHANGED shopVars
  <2>1. ShopTypeOK'  BY <1>1, <1>7 DEF ShopIInv, ShopTypeOK, shopVars
  <2>2. QED  BY <1>1, <1>7, <2>1, Untouched DEF shopVars
<1>8. QED  BY <1>1, <1>2, <1>3, <1>4, <1>5, <1>6, <1>7 DEF ShopNext

\* The invariant holds in every reachable state.
THEOREM ShopInvariance == ShopSpec => []ShopIInv
BY InitInv, NextInv, PTL DEF ShopSpec

\* Every variable keeps its type: no step needs more pairs than there are, and a
\* refresh only ever carries a pair that exists.
THEOREM ShopTypeCorrect == ShopSpec => []ShopTypeOK
<1>1. ShopIInv => ShopTypeOK  BY DEF ShopIInv
<1>2. QED  BY <1>1, ShopInvariance, PTL

\* However many calls of a tab meet a 401, a refresh token goes out again only when
\* its first refresh went unanswered.
THEOREM PresentedOnce == ShopSpec => []TabPresentsOnce
<1>1. ShopIInv => TabPresentsOnce  BY DEF ShopIInv, TabPresentsOnce, Counted
<1>2. QED  BY <1>1, ShopInvariance, PTL

\* One step of a refresh forgets only a pair that the server refuses, or it was
\* answered with an error.
LEMMA ForgetsTheDead ==
  ASSUME ShopIInv, [ShopNext]_shopVars, NEW t \in Tabs, Forgets(t)
  PROVE  ~Live(stored) \/ errors' > errors
<1>1. ShopTypeOK /\ RenewOK(t) /\ Refused(t)  BY DEF ShopIInv
<1>2. stored \in 1 .. Len(rows)  BY <1>1 DEF RenewOK, Forgets
<1>3. stored # 0 /\ stored' # stored /\ renewing' # renewing  BY <1>1, <1>2, RowsAre DEF Forgets
<1>4. PICK u \in Tabs : Renewed(u) \/ Rejected(u) \/ ErrorAnswer(u)
  BY <1>3 DEF ShopNext, shopVars, BrowserLogout, Send, CallStep, Answered, Unauthorized,
     NetworkError, RenewStep, Read, Write, Unanswered, ServeLate, Expire, Lose
<1>5. CASE ErrorAnswer(u)  BY <1>1, <1>5 DEF ErrorAnswer, ShopTypeOK
<1>6. CASE Rejected(u)
  <2>1. u = t  BY <1>1, <1>6 DEF Rejected, ShopTypeOK, Forgets
  <2>2. QED  BY <1>1, <1>6, <2>1 DEF Rejected, Refused, Forgets
<1>7. CASE Renewed(u)  BY <1>7 DEF Renewed, Forgets
<1>8. QED  BY <1>4, <1>5, <1>6, <1>7

\* A refresh that clears the browser's pair was refused, so that the server would not
\* take that pair again, or was answered with an error that was no verdict: losing
\* requests and answers, and what other tabs and late requests do, never clears it.
THEOREM ClearedOnlyDead == ShopSpec => ForgottenIsDead
<1>1. ShopIInv /\ [ShopNext]_shopVars
        => [\A t \in Tabs : Forgets(t) => ~Live(stored) \/ errors' > errors]_shopVars
  BY ForgetsTheDead
<1>2. QED  BY <1>1, ShopInvariance, PTL DEF ShopSpec, ForgottenIsDead
=============================================================================
