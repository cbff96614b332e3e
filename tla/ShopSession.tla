----------------------------- MODULE ShopSession -----------------------------
(* The storefront's session, apps/store/lib/authClient.ts, in several tabs of *)
(* one browser: the token pair in localStorage is shared, the refresh in      *)
(* flight (refreshInFlight) belongs to a tab.  A pair is numbered like the    *)
(* row of core.auth_tokens that its refresh token belongs to; the server      *)
(* reads and writes that row in two steps, as in Accounts.                    *)
(*                                                                            *)
(* What runs between two awaits is one step.  An access token outlives every  *)
(* round trip: it does not expire while it is being renewed or first used.    *)
EXTENDS Integers, Sequences

CONSTANTS
  Tabs,       \* the browser's tabs
  Calls,      \* authedFetch calls that may be under way at a time
  TabOf,      \* the tab each call is made in
  MaxPairs,   \* bound: token pairs issued
  Room,       \* bound: pairs still free when an access token expires
  MaxLosses,  \* bound: requests or answers that are lost
  MaxErrors   \* bound: refreshes answered with an error that is no verdict

ASSUME ShopAssumption ==
  TabOf \in [Calls -> Tabs] /\ MaxPairs \in Nat \ {0} /\ Room \in Nat
  /\ MaxLosses \in Nat /\ MaxErrors \in Nat

VARIABLES
  stored,     \* the pair in localStorage, 0 for none
  expired,    \* pairs whose access token has expired
  rows,       \* core.auth_tokens: revoked_at and rotated_at of each pair
  renewing,   \* refreshInFlight of each tab
  call,       \* the authedFetch calls
  late,       \* tokens of refreshes that a tab gave up and the server still gets
  presented,  \* how often each tab has sent each refresh token
  lost,       \* how often a refresh of a tab with a token went unanswered
  losses,     \* requests and answers lost so far
  errors      \* refreshes answered so far with an error that is no verdict

shopVars == <<stored, expired, rows, renewing, call, late, presented, lost, losses, errors>>

Pairs == 1 .. MaxPairs
None  == [phase |-> "none", token |-> 0, verdict |-> "none", pair |-> 0]

ShopTypeOK ==
  /\ stored \in 0 .. MaxPairs /\ expired \subseteq Pairs /\ late \subseteq Pairs
  /\ rows \in Seq([revoked: BOOLEAN, rotated: BOOLEAN]) /\ Len(rows) <= MaxPairs
  /\ renewing \in [Tabs -> [phase: {"none", "sent", "read", "answered"}, token: 0 .. MaxPairs,
                            verdict: {"none", "rotate", "revoke"}, pair: 0 .. MaxPairs]]
  /\ call \in [Calls -> [phase: {"idle", "sent", "waiting", "resent"}, bearer: 0 .. MaxPairs]]
  /\ presented \in [Tabs -> [Pairs -> Nat]] /\ lost \in [Tabs -> [Pairs -> Nat]]
  /\ losses \in 0 .. MaxLosses /\ errors \in 0 .. MaxErrors

\* A customer who has just signed in.
ShopInit ==
  /\ stored = 1 /\ expired = {} /\ rows = <<[revoked |-> FALSE, rotated |-> FALSE]>>
  /\ renewing = [t \in Tabs |-> None]
  /\ call = [c \in Calls |-> [phase |-> "idle", bearer |-> 0]]
  /\ late = {} /\ losses = 0 /\ errors = 0
  /\ presented = [t \in Tabs |-> [n \in Pairs |-> 0]] /\ lost = [t \in Tabs |-> [n \in Pairs |-> 0]]

Live(n)  == ~rows[n].revoked /\ ~rows[n].rotated
Waiting(t) == {c \in Calls : TabOf[c] = t /\ call[c].phase = "waiting"}
Settle(cs, phase, bearer) ==
  [c \in Calls |-> IF c \in cs THEN [phase |-> phase, bearer |-> bearer] ELSE call[c]]
Return(cs) == call' = Settle(cs, "idle", 0)

-----------------------------------------------------------------------------
(* authedFetch.                                                               *)

Send(c) ==
  /\ call[c].phase = "idle" /\ stored # 0
  /\ call' = Settle({c}, "sent", stored)
  /\ UNCHANGED <<stored, expired, rows, renewing, late, presented, lost, losses, errors>>

\* Answered with anything but 401, or not at all: authedFetch returns or throws.
Answered(c) ==
  /\ call[c].phase \in {"sent", "resent"} /\ call[c].bearer \notin expired
  /\ Return({c})
  /\ UNCHANGED <<stored, expired, rows, renewing, late, presented, lost, losses, errors>>
NetworkError(c) ==
  /\ call[c].phase \in {"sent", "resent"} /\ losses < MaxLosses
  /\ losses' = losses + 1 /\ Return({c})
  /\ UNCHANGED <<stored, expired, rows, renewing, late, presented, lost, errors>>

Present(t) ==
  /\ renewing' = [renewing EXCEPT ![t] = [None EXCEPT !.phase = "sent", !.token = stored]]
  /\ presented' = [presented EXCEPT ![t][stored] = @ + 1]

\* Mutant of Unauthorized: every 401 starts a refresh of its own.
UnauthorizedAlone(c) ==
  /\ call[c].phase = "sent" /\ call[c].bearer \in expired /\ stored # 0
  /\ call' = Settle({c}, "waiting", 0)
  /\ Present(TabOf[c])
  /\ UNCHANGED <<stored, expired, rows, late, lost, losses, errors>>

\* 401: share the refresh in flight, start one, or give up when nothing is stored.
Unauthorized(c) ==
  /\ call[c].phase = "sent" /\ call[c].bearer \in expired
  /\ IF renewing[TabOf[c]] # None
     THEN call' = Settle({c}, "waiting", 0) /\ UNCHANGED <<renewing, presented>>
     ELSE IF stored # 0
          THEN call' = Settle({c}, "waiting", 0) /\ Present(TabOf[c])
          ELSE Return({c}) /\ UNCHANGED <<renewing, presented>>
  /\ UNCHANGED <<stored, expired, rows, late, lost, losses, errors>>

-----------------------------------------------------------------------------
(* POST /auth/refresh: the server's two steps, and the tab's answer.          *)

Read(t) ==
  /\ renewing[t].phase = "sent"
  /\ renewing' = [renewing EXCEPT ![t].phase = "read",
                    ![t].verdict = IF Live(renewing[t].token) THEN "rotate" ELSE "revoke"]
  /\ UNCHANGED <<stored, expired, rows, call, late, presented, lost, losses, errors>>

RevokedRows    == [n \in DOMAIN rows |-> [rows[n] EXCEPT !.revoked = TRUE]]
RotatedRows(n) == Append([rows EXCEPT ![n].rotated = TRUE], [revoked |-> FALSE, rotated |-> FALSE])

Write(t) ==
  /\ renewing[t].phase = "read"
  /\ IF renewing[t].verdict = "revoke"
     THEN rows' = RevokedRows /\ renewing' = [renewing EXCEPT ![t].phase = "answered"]
     ELSE /\ Len(rows) < MaxPairs /\ rows' = RotatedRows(renewing[t].token)
          /\ renewing' = [renewing EXCEPT ![t].phase = "answered", ![t].pair = Len(rows')]
  /\ UNCHANGED <<stored, expired, call, late, presented, lost, losses, errors>>

\* Mutant of Renewed: only one of the calls that share the refresh goes on.
RenewedOne(t) ==
  /\ renewing[t].phase = "answered" /\ renewing[t].pair # 0
  /\ stored' = renewing[t].pair
  /\ \E c \in Waiting(t) : call' = Settle({c}, "resent", renewing[t].pair)
  /\ renewing' = [renewing EXCEPT ![t] = None]
  /\ UNCHANGED <<expired, rows, late, presented, lost, losses, errors>>

\* setSession, whatever is stored by now; every call that waited sends again.
Renewed(t) ==
  /\ renewing[t].phase = "answered" /\ renewing[t].pair # 0
  /\ stored' = renewing[t].pair
  /\ call' = Settle(Waiting(t), "resent", renewing[t].pair)
  /\ renewing' = [renewing EXCEPT ![t] = None]
  /\ UNCHANGED <<expired, rows, late, presented, lost, losses, errors>>

\* The server says no: clearToken and SESSION_EXPIRED for every call that waited.
Rejected(t) ==
  /\ renewing[t].phase = "answered" /\ renewing[t].pair = 0
  /\ stored' = 0 /\ Return(Waiting(t))
  /\ renewing' = [renewing EXCEPT ![t] = None]
  /\ UNCHANGED <<expired, rows, late, presented, lost, losses, errors>>

\* The refresh ends and no verdict has come; the server may still get the request.
GiveUp(t) ==
  /\ renewing[t].phase # "none"
  /\ late' = IF renewing[t].phase = "answered" THEN late ELSE late \union {renewing[t].token}
  /\ renewing' = [renewing EXCEPT ![t] = None]
  /\ Return(Waiting(t))

Lose(t) ==
  /\ GiveUp(t) /\ losses < MaxLosses /\ losses' = losses + 1
  /\ lost' = [lost EXCEPT ![t][renewing[t].token] = @ + 1]

\* Mutant of Unanswered: no answer is taken for a refusal.
UnansweredClears(t) ==
  /\ Lose(t) /\ stored' = 0
  /\ UNCHANGED <<expired, rows, presented, errors>>
\* NETWORK_ERROR for every call that waited; the pair is kept.
Unanswered(t) ==
  /\ Lose(t)
  /\ UNCHANGED <<stored, expired, rows, presented, errors>>

\* 429, 500, 502, or 200 without tokens: runRefresh returns null as for a refusal,
\* and every call that waited clears the pair, whatever the server thinks of it.
ErrorAnswer(t) ==
  /\ GiveUp(t) /\ errors < MaxErrors /\ errors' = errors + 1
  /\ stored' = 0
  /\ UNCHANGED <<expired, rows, presented, lost, losses>>

\* A request that its tab no longer waits for reaches the server, or never does.
ServeLate(n) ==
  /\ late' = late \ {n}
  /\ \/ rows' = rows
     \/ Live(n) /\ Len(rows) < MaxPairs /\ rows' = RotatedRows(n)
     \/ ~Live(n) /\ rows' = RevokedRows
  /\ UNCHANGED <<stored, expired, renewing, call, presented, lost, losses, errors>>

-----------------------------------------------------------------------------
\* logout(): the browser forgets the pair first.  The server ends the family only
\* when the request arrives with an access token that has not expired.
BrowserLogout ==
  /\ stored # 0 /\ stored' = 0
  /\ \/ stored \notin expired /\ rows' = RevokedRows /\ losses' = losses
     \/ stored \in expired /\ UNCHANGED <<rows, losses>>
     \/ losses < MaxLosses /\ losses' = losses + 1 /\ rows' = rows
  /\ UNCHANGED <<expired, renewing, call, late, presented, lost, errors>>

\* An hour has passed.
Expire(n) ==
  /\ Len(rows) + Room <= MaxPairs
  /\ n \notin expired /\ \A t \in Tabs : renewing[t] = None
  /\ \A c \in Calls : call[c] # [phase |-> "resent", bearer |-> n]
  /\ expired' = expired \union {n}
  /\ UNCHANGED <<stored, rows, renewing, call, late, presented, lost, losses, errors>>

CallStep(c)  == Answered(c) \/ Unauthorized(c)
RenewStep(t) == Read(t) \/ Write(t) \/ Renewed(t) \/ Rejected(t)

ShopNext ==
  \/ BrowserLogout
  \/ \E c \in Calls : Send(c) \/ CallStep(c) \/ NetworkError(c)
  \/ \E t \in Tabs : RenewStep(t) \/ Unanswered(t) \/ ErrorAnswer(t)
  \/ \E n \in late : ServeLate(n)
  \/ \E n \in DOMAIN rows : Expire(n)

ShopSpec == ShopInit /\ [][ShopNext]_shopVars

\* Every request is answered in the end or fails: fetch settles.
FairShopSpec ==
  /\ ShopSpec
  /\ \A c \in Calls : WF_shopVars(CallStep(c))
  /\ \A t \in Tabs : WF_shopVars(RenewStep(t))

-----------------------------------------------------------------------------
(* Properties.                                                                *)

\* A tab sends a refresh token a second time only when its first attempt went
\* unanswered: the calls of one tab that meet a 401 together share one refresh.
TabPresentsOnce == \A t \in Tabs, n \in Pairs : presented[t][n] <= 1 + lost[t][n]

Forgets(t) == /\ renewing[t] # None /\ renewing'[t] = None
              /\ stored = renewing[t].token /\ stored' = 0

\* A refresh forgets the pair it presented only when the server would refuse that
\* pair from now on, or when it was answered with an error: no dropped connection,
\* no refresh of another tab and no late request throws away a valid session.
ForgottenIsDead ==
  [][ \A t \in Tabs : Forgets(t) => ~Live(stored) \/ errors' > errors ]_shopVars

\* Every authed call that was sent returns or throws in the end, the ones that
\* share another call's refresh included.
CallsReturn == \A c \in Calls : call[c].phase = "sent" ~> call[c].phase = "idle"

\* authClient.ts:138-141: runRefresh "returns null only when the server definitively
\* rejects the refresh token".  The code refutes it: any answer that is not 2xx, and
\* a 2xx without tokens, returns null too (150, 152), and 191-192 clear the pair.
NullIsARejection ==
  [][ \A t \in Tabs : Forgets(t) => ~Live(stored) ]_shopVars

\* authClient.ts:133: concurrent 401s share one attempt, "or the second one would
\* log the customer out": with every request answered, none with an error, and nobody
\* signing out, the pair is not forgotten.
NobodyIsLoggedOut ==
  [][ losses + errors' = 0 /\ stored # 0 /\ stored' = 0
      => \A t \in Tabs : renewing'[t] = renewing[t] ]_shopVars
=============================================================================
