---------------------------- MODULE DriverQueue ----------------------------
(* The driver app's offline queue on one device, for one task of the server.  *)
(*                                                                            *)
(* A screen sends an action and queues it when the request gets no answer; a  *)
(* flush replays what is stored, oldest first.  Flushes may overlap, drivers  *)
(* may hand the device over, and a request that the client has given up may   *)
(* still reach the server.  Every database call names the database after the  *)
(* token that is in localStorage at that moment, or "anonymous".              *)
EXTENDS Integers

CONSTANTS
  Drivers,      \* who may sign in on the device
  Flushes,      \* flushQueue calls that can run at a time
  MaxAttempts,  \* MAX_ATTEMPTS
  MaxTaps,      \* bound: actions taken on a screen
  MaxLosses,    \* bound: requests or answers the network loses
  MaxLogins,    \* bound: sign-ins after the first
  MaxReassigns  \* bound: reassignments by an admin

NoToken   == "anonymous"
Keys      == Drivers \union {NoToken}      \* the databases, by driverIdFromToken
Screen    == "screen"
Callers   == Flushes \union {Screen}

\* The clientActionId is the task and the stop, so one task has six of them.
From == [at_pickup |-> {"accepted"}, picked_up |-> {"at_pickup"}, en_route |-> {"picked_up"},
         arrived |-> {"en_route"}, pod |-> {"arrived"},
         fail |-> {"at_pickup", "en_route", "arrived"}]
To   == [at_pickup |-> "at_pickup", picked_up |-> "picked_up", en_route |-> "en_route",
         arrived |-> "arrived", pod |-> "delivered", fail |-> "failed"]
Acts == DOMAIN From
Statuses == {"assigned", "accepted"} \union {To[a] : a \in Acts}

ASSUME QueueAssumption ==
  /\ MaxAttempts \in Nat \ {0}
  /\ MaxTaps \in Nat /\ MaxLosses \in Nat /\ MaxLogins \in Nat /\ MaxReassigns \in Nat
  /\ NoToken \notin Drivers /\ Screen \notin Flushes

VARIABLES
  status, driverOf,  \* delivery_tasks.status and driver_id
  events,            \* task_events.client_action_id
  landed,            \* how often each action took effect
  live,              \* drivers whose token the server accepts
  wandering,         \* requests given up by the client and not yet at the server
  token,             \* localStorage: whose token, or NoToken
  seen,              \* the status the task screen was loaded with, or "nothing"
  store,             \* the IndexedDB databases: rows by key
  pc, req, as,       \* each caller's request: the row and the token it is sent with
  verdict,           \* what comes back
  todo,              \* the rows a flush has read and not yet handled
  clock,             \* Date.now() of the last row queued
  used,              \* the bounded steps taken so far
  answered, spent,   \* actions the server has answered; given up after MaxAttempts
  session, promised  \* actions told "queued" in this session; and ever, with their driver

serverVars == <<status, driverOf, events, landed, live>>
deviceVars == <<token, seen, store, clock>>
ghostVars  == <<answered, spent, session, promised>>
callVars   == <<pc, req, as, verdict, todo>>
vars == <<serverVars, wandering, deviceVars, callVars, used,
                 ghostVars>>

Rows == [act : Acts, by : Drivers, at : Nat, attempts : 0 .. MaxAttempts - 1]
NoRow == [act |-> "none"]

ServerOK ==
  /\ status \in Statuses /\ driverOf \in Drivers /\ events \subseteq Acts
  /\ landed \in [Acts -> Nat] /\ live \subseteq Drivers
  /\ wandering \subseteq [act : Acts, as : Drivers]

DeviceOK ==
  /\ token \in Keys /\ seen \in Statuses \union {"nothing"} /\ clock \in Nat
  /\ store \in [Keys -> SUBSET Rows]
  /\ \A k \in Keys : \A r, s \in store[k] : r.act = s.act => r = s

CallsOK ==
  /\ pc \in [Callers -> {"idle", "ready", "sent", "back"}]
  /\ req \in [Callers -> Rows \union {NoRow}] /\ as \in [Callers -> Keys]
  /\ verdict \in [Callers -> {"none", "ok", "refused", "lost", "expired"}]
  /\ todo \in [Flushes -> SUBSET Rows]

BooksOK ==
  /\ used \in [taps : 0 .. MaxTaps, losses : 0 .. MaxLosses,
               logins : 0 .. MaxLogins, reassigns : 0 .. MaxReassigns]
  /\ answered \subseteq Acts /\ spent \subseteq Acts /\ session \subseteq Acts
  /\ promised \subseteq Acts \X Drivers

TypeOK == ServerOK /\ DeviceOK /\ CallsOK /\ BooksOK

\* A driver has accepted the task and opened it.
Init ==
  /\ status = "accepted" /\ driverOf \in Drivers /\ events = {}
  /\ landed = [a \in Acts |-> 0] /\ live = {driverOf} /\ wandering = {}
  /\ token = driverOf /\ seen = "accepted" /\ clock = 0
  /\ store = [k \in Keys |-> {}]
  /\ pc = [c \in Callers |-> "idle"] /\ req = [c \in Callers |-> NoRow]
  /\ as = [c \in Callers |-> NoToken] /\ verdict = [c \in Callers |-> "none"]
  /\ todo = [f \in Flushes |-> {}]
  /\ used = [taps |-> 0, losses |-> 0, logins |-> 0, reassigns |-> 0]
  /\ answered = {} /\ spent = {} /\ session = {} /\ promised = {}

\* Databases have the action's id as their primary key.
Without(k, a) == [store EXCEPT ![k] = {r \in @ : r.act # a}]

With(k, row) == [store EXCEPT ![k] = {r \in @ : r.act # row.act} \union {row}]

-----------------------------------------------------------------------------
(* The server: transition_task, capture_pod and fail_task.                    *)

Takes(a, d) == driverOf = d /\ a \notin events /\ status \in From[a]

Land(a) ==
  /\ status' = To[a] /\ events' = events \union {a}
  /\ landed' = [landed EXCEPT ![a] = @ + 1]

\* Mutant of Effect: the clientActionId is not looked up.
EffectAgain(a, d) ==
  IF driverOf = d /\ status \in From[a] THEN Land(a) ELSE UNCHANGED <<status, events, landed>>

Effect(a, d) == IF Takes(a, d) THEN Land(a) ELSE UNCHANGED <<status, events, landed>>

\* A stale token is 401; a repeat is the driver's own earlier success.
Answer(a, d) == IF d \notin live THEN "expired"
                ELSE IF driverOf = d /\ (a \in events \/ status \in From[a]) THEN "ok"
                ELSE "refused"

Serve(c) ==
  /\ pc[c] = "sent"
  /\ LET a == req[c].act  d == as[c] IN
       /\ verdict' = [verdict EXCEPT ![c] = Answer(a, d)]
       /\ IF d \in live
          THEN Effect(a, d) /\ answered' = answered \union {a}
          ELSE UNCHANGED <<status, events, landed, answered>>
  /\ pc' = [pc EXCEPT ![c] = "back"]
  /\ UNCHANGED <<driverOf, live, wandering, deviceVars, req, as, todo, used, spent,
                 session, promised>>

\* An error that is not a function's verdict (a wrong code, a gateway's page): the
\* client cannot tell it from one.
Bounce(c) ==
  /\ pc[c] = "sent" /\ used.losses < MaxLosses
  /\ used' = [used EXCEPT !.losses = @ + 1]
  /\ verdict' = [verdict EXCEPT ![c] = "refused"]
  /\ answered' = answered \union {req[c].act}
  /\ pc' = [pc EXCEPT ![c] = "back"]
  /\ UNCHANGED <<serverVars, wandering, deviceVars, req, as, todo, spent, session, promised>>

\* No answer: the request never arrived, or it still may.
Lose(c) ==
  /\ pc[c] = "sent" /\ used.losses < MaxLosses
  /\ used' = [used EXCEPT !.losses = @ + 1]
  /\ verdict' = [verdict EXCEPT ![c] = "lost"]
  /\ wandering' = wandering \union {[act |-> req[c].act, as |-> as[c]]}
  /\ pc' = [pc EXCEPT ![c] = "back"]
  /\ UNCHANGED <<serverVars, deviceVars, req, as, todo, ghostVars>>

ServeLate(w) ==
  /\ wandering' = wandering \ {w}
  /\ IF w.as \in live THEN Effect(w.act, w.as) ELSE UNCHANGED <<status, events, landed>>
  /\ UNCHANGED <<driverOf, live, deviceVars, callVars, used,
                 ghostVars>>

\* delivery.accept_task, which the app never queues.
Accept ==
  /\ status = "assigned" /\ token = driverOf /\ driverOf \in live
  /\ status' = "accepted" /\ seen' = "accepted"
  /\ UNCHANGED <<driverOf, events, landed, live, wandering, token, store, clock, callVars, used,
                 ghostVars>>

Reassign(d) ==
  /\ used.reassigns < MaxReassigns
  /\ used' = [used EXCEPT !.reassigns = @ + 1]
  /\ status' = "assigned" /\ driverOf' = d
  /\ UNCHANGED <<events, landed, live, wandering, deviceVars, callVars, ghostVars>>

-----------------------------------------------------------------------------
(* The session.                                                               *)

Expire(d) ==
  /\ d \in live /\ live' = live \ {d}
  /\ UNCHANGED <<status, driverOf, events, landed, wandering, deviceVars, callVars, used,
                 ghostVars>>

\* Also any other request of a page that comes back 401.
SignOut ==
  /\ token # NoToken
  /\ token' = NoToken /\ seen' = "nothing" /\ session' = {}
  /\ UNCHANGED <<serverVars, wandering, store, clock, callVars, used, answered, spent,
                 promised>>

Login(d) ==
  /\ token = NoToken /\ used.logins < MaxLogins
  /\ used' = [used EXCEPT !.logins = @ + 1]
  /\ token' = d /\ live' = live \union {d} /\ session' = {}
  /\ UNCHANGED <<status, driverOf, events, landed, wandering, seen, store, clock, callVars,
                 answered, spent, promised>>

\* The task screen reads the task; only its driver may.
Load ==
  /\ token = driverOf /\ token \in live
  /\ seen' = status
  /\ UNCHANGED <<serverVars, wandering, token, store, clock, callVars, used,
                 ghostVars>>

\* The tab is closed or reloaded, as after a 401: the databases and the token stay.
TabDies ==
  /\ \E c \in Callers : pc[c] # "idle"
  /\ pc' = [c \in Callers |-> "idle"]
  /\ req' = [c \in Callers |-> NoRow] /\ as' = [c \in Callers |-> NoToken]
  /\ verdict' = [c \in Callers |-> "none"]
  /\ todo' = [f \in Flushes |-> {}]
  /\ UNCHANGED <<serverVars, wandering, deviceVars, used, ghostVars>>

-----------------------------------------------------------------------------
(* sendOrQueue, called by a screen.                                           *)

Sends(c, row) ==
  /\ pc' = [pc EXCEPT ![c] = "sent"]
  /\ req' = [req EXCEPT ![c] = row] /\ as' = [as EXCEPT ![c] = token]

Rests(c) ==
  /\ pc' = [pc EXCEPT ![c] = "idle"]
  /\ req' = [req EXCEPT ![c] = NoRow] /\ as' = [as EXCEPT ![c] = NoToken]
  /\ verdict' = [verdict EXCEPT ![c] = "none"]

\* The screen offers the next transition, and the exception form of an open task.
Tap(a) ==
  /\ pc[Screen] = "idle" /\ token \in Drivers /\ used.taps < MaxTaps
  /\ seen \in From[a] \/ (a = "fail" /\ seen \notin {"nothing", "delivered", "failed"})
  /\ used' = [used EXCEPT !.taps = @ + 1]
  /\ Sends(Screen, [act |-> a, by |-> token, at |-> clock, attempts |-> 0])
  /\ UNCHANGED <<serverVars, wandering, deviceVars, verdict, todo, ghostVars>>

\* Only an answer is final; the screen shows it.
ScreenAnswered ==
  /\ pc[Screen] = "back" /\ verdict[Screen] \in {"ok", "refused"}
  /\ Rests(Screen)
  /\ UNCHANGED <<serverVars, wandering, deviceVars, todo, used, ghostVars>>

\* A 401 clears the token before the row is put, in the same turn of the event loop.
KeyAfter(v) == IF v = "expired" THEN NoToken ELSE token

MayClearToken(v) ==
  /\ token' = KeyAfter(v)
  /\ seen' = IF v = "expired" THEN "nothing" ELSE seen

ScreenQueues ==
  /\ pc[Screen] = "back" /\ verdict[Screen] \in {"lost", "expired"}
  /\ LET v == verdict[Screen]  a == req[Screen].act  d == req[Screen].by IN
       /\ MayClearToken(v)
       /\ clock' = clock + 1
       /\ store' = With(KeyAfter(v), [act |-> a, by |-> d, at |-> clock + 1, attempts |-> 0])
       /\ promised' = promised \union {<<a, d>>}
       /\ session' = IF KeyAfter(v) = NoToken THEN {} ELSE session \union {a}
  /\ Rests(Screen)
  /\ UNCHANGED <<serverVars, wandering, todo, used, answered, spent>>

-----------------------------------------------------------------------------
(* flushQueue.                                                                *)

StartFlush(f) ==
  /\ pc[f] = "idle" /\ store[token] # {}
  /\ todo' = [todo EXCEPT ![f] = store[token]]
  /\ pc' = [pc EXCEPT ![f] = "ready"]
  /\ UNCHANGED <<serverVars, wandering, deviceVars, req, as, verdict, used, ghostVars>>

Oldest(rows) == {r \in rows : \A s \in rows : r.at <= s.at}

FlushSend(f, row) ==
  /\ pc[f] = "ready" /\ row \in Oldest(todo[f])
  /\ token # NoToken
  /\ Sends(f, row)
  /\ UNCHANGED <<serverVars, wandering, deviceVars, verdict, todo, used, ghostVars>>

\* NOT_LOGGED_IN is no connectivity failure: the row is dropped as if refused.
FlushSignedOut(f, row) ==
  /\ pc[f] = "ready" /\ row \in Oldest(todo[f])
  /\ token = NoToken
  /\ store' = Without(NoToken, row.act) /\ todo' = [todo EXCEPT ![f] = @ \ {row}]
  /\ UNCHANGED <<serverVars, wandering, token, seen, clock, pc, req, as, verdict, used, ghostVars>>

\* The next row, if there is one.
GoesOn(f) ==
  /\ pc' = [pc EXCEPT ![f] = "ready"]
  /\ req' = [req EXCEPT ![f] = NoRow] /\ as' = [as EXCEPT ![f] = NoToken]
  /\ verdict' = [verdict EXCEPT ![f] = "none"]
  /\ todo' = [todo EXCEPT ![f] = @ \ {req[f]}]

FlushAnswered(f) ==
  /\ pc[f] = "back" /\ verdict[f] \in {"ok", "refused"}
  /\ store' = Without(token, req[f].act)
  /\ GoesOn(f)
  /\ UNCHANGED <<serverVars, wandering, token, seen, clock, used, ghostVars>>

SpentBy(row) == row.attempts + 1 >= MaxAttempts

EndsFlush(f) ==
  /\ Rests(f)
  /\ todo' = [todo EXCEPT ![f] = {}]

\* Mutant of FlushFails: no answer is taken for a refusal.
FlushFailsDropped(f) ==
  /\ pc[f] = "back" /\ verdict[f] \in {"lost", "expired"}
  /\ MayClearToken(verdict[f])
  /\ session' = IF verdict[f] = "expired" THEN {} ELSE session
  /\ store' = Without(KeyAfter(verdict[f]), req[f].act) /\ GoesOn(f)
  /\ UNCHANGED <<serverVars, wandering, clock, used, answered, spent, promised>>

FlushFails(f) ==
  /\ pc[f] = "back" /\ verdict[f] \in {"lost", "expired"}
  /\ LET v == verdict[f]  row == req[f] IN
       /\ MayClearToken(v)
       /\ session' = IF v = "expired" THEN {} ELSE session
       /\ IF SpentBy(row)
          THEN /\ store' = Without(KeyAfter(v), row.act) /\ GoesOn(f)
               /\ spent' = spent \union {row.act}
          ELSE /\ store' = With(KeyAfter(v), [row EXCEPT !.attempts = @ + 1]) /\ EndsFlush(f)
               /\ UNCHANGED spent
  /\ UNCHANGED <<serverVars, wandering, clock, used, answered, promised>>

EndFlush(f) ==
  /\ pc[f] = "ready" /\ todo[f] = {}
  /\ EndsFlush(f)
  /\ UNCHANGED <<serverVars, wandering, deviceVars, used, ghostVars>>

-----------------------------------------------------------------------------
Next ==
  \/ \E c \in Callers : Serve(c) \/ Bounce(c) \/ Lose(c)
  \/ \E w \in wandering : ServeLate(w)
  \/ Accept \/ \E d \in Drivers : Reassign(d) \/ Expire(d) \/ Login(d)
  \/ SignOut \/ Load \/ TabDies
  \/ \E a \in Acts : Tap(a)
  \/ ScreenAnswered \/ ScreenQueues
  \/ \E f \in Flushes : \/ StartFlush(f) \/ FlushAnswered(f) \/ FlushFails(f) \/ EndFlush(f)
                        \/ \E row \in todo[f] : FlushSend(f, row) \/ FlushSignedOut(f, row)

Spec == Init /\ [][Next]_vars

-----------------------------------------------------------------------------
Stored(k) == {r.act : r \in store[k]}
Settled   == answered \union spent

\* However often a request is repeated, by the screen, by overlapping flushes, late
\* or after the task was driven again, an action takes effect once: the
\* clientActionId lookup of the task functions (0049:40-44, 182-186, 0074:41-45).
AppliedOnce == \A a \in Acts : landed[a] <= 1

\* An action the driver was told is queued stays in the database of the signed-in
\* driver until some answer came or its attempts are used up, whatever overlapping
\* flushes with older copies of it write back or remove (actionQueue.ts:128-172).
KeptWhileSignedIn == token # NoToken => session \subseteq Settled \union Stored(token)

\* "It stays queued and retries once authClient.ts gets the driver signed back in"
\* (actionQueue.ts:83-84): what a driver was told is queued is in that driver's
\* database until it is settled.
QueuedIsKept == \A p \in promised : p[1] \in Settled \union Stored(p[2])

=============================================================================
