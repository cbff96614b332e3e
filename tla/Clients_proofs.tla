---------------------------- MODULE Clients_proofs ---------------------------
(* Proofs about what runs on a user's device: the driver's queue, the checkout  *)
(* page of the store and the pages that show what the API stores.               *)
EXTENDS DriverQueue, CheckoutScreen, Screens, Sums, TLAPS

-----------------------------------------------------------------------------
(* DriverQueue, for any drivers, any number of overlapping flushes, any         *)
(* attempts and bounds.                                                         *)

\* A request on its way has a row and a driver's token; one that came back with an
\* answer has been answered.
CallOK(c) ==
  /\ pc[c] \in {"sent", "back"} => req[c] \in Rows
  /\ pc[c] = "sent" => as[c] \in Drivers
  /\ pc[c] = "back" => verdict[c] # "none"
  /\ pc[c] = "back" /\ verdict[c] \in {"ok", "refused"} => req[c].act \in answered

\* An action has taken effect once if the log has its clientActionId, else never.
LogAgrees == \A a \in Acts : landed[a] = IF a \in events THEN 1 ELSE 0

IInv == /\ TypeOK
        /\ \A c \in Callers : CallOK(c)
        /\ LogAgrees
        /\ KeptWhileSignedIn

-----------------------------------------------------------------------------
(* The helpers the actions are written with.                                  *)

LEMMA ActsAre == Acts = {"at_pickup", "picked_up", "en_route", "arrived", "pod", "fail"}
BY DEF Acts, From

LEMMA StopsAreStatuses == \A a \in Acts : To[a] \in Statuses
BY DEF Statuses

LEMMA SomeStatuses == {"assigned", "accepted"} \subseteq Statuses
BY DEF Statuses

\* Effect on the server, of a request of any age.
LEMMA EffectKeepsLog ==
  ASSUME ServerOK, LogAgrees, NEW a \in Acts, NEW d, Effect(a, d)
  PROVE  /\ status' \in Statuses /\ events' \subseteq Acts /\ landed' \in [Acts -> Nat]
         /\ LogAgrees'
BY StopsAreStatuses DEF Effect, Takes, Land, ServerOK, LogAgrees

\* Putting a row under its action's id.
LEMMA WithKeeps ==
  ASSUME DeviceOK, NEW k \in Keys, NEW row \in Rows, store' = With(k, row)
  PROVE  /\ store' \in [Keys -> SUBSET Rows]
         /\ \A q \in Keys : \A r, s \in store'[q] : r.act = s.act => r = s
         /\ \A q \in Keys : Stored(q) \subseteq Stored(q)'
         /\ row.act \in Stored(k)'
<1>1. store' \in [Keys -> SUBSET Rows]
  BY DEF DeviceOK, With
<1>2. \A q \in Keys : store'[q] = IF q = k THEN {r \in store[k] : r.act # row.act} \union {row}
                                 ELSE store[q]
  BY DEF DeviceOK, With
<1>3. ASSUME NEW q \in Keys PROVE \A r, s \in store'[q] : r.act = s.act => r = s
  BY <1>2 DEF DeviceOK
<1>4. ASSUME NEW q \in Keys PROVE Stored(q) \subseteq Stored(q)'
  BY <1>2 DEF Stored
<1>5. row.act \in Stored(k)'
  BY <1>2 DEF Stored
<1> QED BY <1>1, <1>3, <1>4, <1>5

\* Removing the row of an action.
LEMMA WithoutKeeps ==
  ASSUME DeviceOK, NEW k \in Keys, NEW a \in Acts, store' = Without(k, a)
  PROVE  /\ store' \in [Keys -> SUBSET Rows]
         /\ \A q \in Keys : \A r, s \in store'[q] : r.act = s.act => r = s
         /\ \A q \in Keys : Stored(q) \subseteq Stored(q)' \union {a}
<1>1. store' \in [Keys -> SUBSET Rows]
  BY DEF DeviceOK, Without
<1>2. \A q \in Keys : store'[q] = IF q = k THEN {r \in store[k] : r.act # a} ELSE store[q]
  BY DEF DeviceOK, Without
<1>3. ASSUME NEW q \in Keys PROVE \A r, s \in store'[q] : r.act = s.act => r = s
  BY <1>2 DEF DeviceOK
<1>4. ASSUME NEW q \in Keys PROVE Stored(q) \subseteq Stored(q)' \union {a}
  BY <1>2 DEF Stored
<1> QED BY <1>1, <1>3, <1>4

\* What a call whose own variables stay, and whose action stays answered, keeps.
LEMMA CallKept ==
  ASSUME NEW c, CallOK(c), pc'[c] = pc[c], req'[c] = req[c], as'[c] = as[c],
         verdict'[c] = verdict[c], answered \subseteq answered'
  PROVE  CallOK(c)'
BY DEF CallOK

LEMMA KeptKept ==
  ASSUME KeptWhileSignedIn, token' = token, session' = session, store' = store,
         answered \subseteq answered', spent' = spent
  PROVE  KeptWhileSignedIn'
BY DEF KeptWhileSignedIn, Settled, Stored

LEMMA InitIInv == Init => IInv
<1> SUFFICES ASSUME Init PROVE IInv
  OBVIOUS
<1> USE QueueAssumption
<1>1. ServerOK
  BY SomeStatuses DEF Init, ServerOK
<1>2. DeviceOK
  BY SomeStatuses DEF Init, DeviceOK, Keys
<1>3. CallsOK
  BY DEF Init, CallsOK, Keys
<1>4. BooksOK
  BY DEF Init, BooksOK
<1>5. \A c \in Callers : CallOK(c)
  BY DEF Init, CallOK
<1>6. LogAgrees /\ KeptWhileSignedIn
  BY DEF Init, LogAgrees, KeptWhileSignedIn
<1> QED BY <1>1, <1>2, <1>3, <1>4, <1>5, <1>6 DEF IInv, TypeOK

-----------------------------------------------------------------------------
(* One lemma per action.                                                      *)

\* A request reaches the server.
LEMMA ServeStep == ASSUME IInv, NEW c \in Callers, Serve(c) PROVE IInv'
<1> DEFINE a == req[c].act
<1>0. a \in Acts /\ as[c] \in Drivers
  BY DEF IInv, TypeOK, CallOK, Serve, Rows
<1>1. ServerOK' /\ LogAgrees'
  <2>1. CASE as[c] \in live
    <3>1. Effect(a, as[c])
      BY <2>1 DEF Serve
    <3> QED BY <1>0, <3>1, EffectKeepsLog DEF Serve, IInv, TypeOK, ServerOK
  <2>2. CASE as[c] \notin live
    BY <2>2 DEF Serve, IInv, TypeOK, ServerOK, LogAgrees
  <2> QED BY <2>1, <2>2
<1>2. DeviceOK'
  BY DEF Serve, IInv, TypeOK, DeviceOK, deviceVars
<1>3. Answer(a, as[c]) \in {"ok", "refused", "expired"} /\ (as[c] \notin live => Answer(a, as[c]) = "expired")
  BY DEF Answer
<1>4. CallsOK'
  BY <1>3 DEF Serve, IInv, TypeOK, CallsOK
<1>5. answered \subseteq answered' /\ (as[c] \in live => a \in answered')
  BY DEF Serve
<1>6. BooksOK'
  BY <1>0 DEF Serve, IInv, TypeOK, BooksOK
<1>7. ASSUME NEW x \in Callers PROVE CallOK(x)'
  <2>1. CASE x = c
    <3>1. pc'[c] = "back" /\ req'[c] = req[c] /\ verdict'[c] = Answer(a, as[c])
      BY DEF Serve, IInv, TypeOK, CallsOK
    <3> QED BY <2>1, <3>1, <1>3, <1>5 DEF CallOK, IInv, Serve
  <2>2. CASE x # c
    <3>1. pc'[x] = pc[x] /\ req'[x] = req[x] /\ as'[x] = as[x] /\ verdict'[x] = verdict[x]
      BY <2>2 DEF Serve, IInv, TypeOK, CallsOK
    <3> QED BY <3>1, <1>5, CallKept DEF IInv
  <2> QED BY <2>1, <2>2
<1>8. KeptWhileSignedIn'
  BY <1>5, KeptKept DEF Serve, IInv, deviceVars
<1> QED BY <1>1, <1>2, <1>4, <1>6, <1>7, <1>8 DEF IInv, TypeOK

\* A request is answered with an error of its own, or not at all.
LEMMA BounceStep == ASSUME IInv, NEW c \in Callers, Bounce(c) PROVE IInv'
<1>0. req[c].act \in Acts
  BY DEF IInv, TypeOK, CallOK, Bounce, Rows
<1>1. ServerOK' /\ LogAgrees'
  BY DEF Bounce, IInv, TypeOK, ServerOK, LogAgrees, serverVars
<1>2. DeviceOK'
  BY DEF Bounce, IInv, TypeOK, DeviceOK, deviceVars
<1>4. CallsOK'
  BY DEF Bounce, IInv, TypeOK, CallsOK
<1>6. BooksOK'
  BY <1>0, QueueAssumption DEF Bounce, IInv, TypeOK, BooksOK
<1>7. ASSUME NEW x \in Callers PROVE CallOK(x)'
  BY CallKept DEF Bounce, IInv, TypeOK, CallsOK, CallOK
<1>8. KeptWhileSignedIn'
  BY KeptKept DEF Bounce, IInv, deviceVars
<1> QED BY <1>1, <1>2, <1>4, <1>6, <1>7, <1>8 DEF IInv, TypeOK

LEMMA LoseStep == ASSUME IInv, NEW c \in Callers, Lose(c) PROVE IInv'
<1>0. req[c].act \in Acts /\ as[c] \in Drivers
  BY DEF IInv, TypeOK, CallOK, Lose, Rows
<1>1. ServerOK' /\ LogAgrees'
  <2>1. [act |-> req[c].act, as |-> as[c]] \in [act : Acts, as : Drivers]
    BY <1>0
  <2>2. UNCHANGED <<status, driverOf, events, landed, live>> /\ wandering' \subseteq [act : Acts, as : Drivers]
    BY <2>1 DEF Lose, IInv, TypeOK, ServerOK, serverVars
  <2> QED BY <2>2 DEF IInv, TypeOK, ServerOK, LogAgrees
<1>2. DeviceOK'
  BY DEF Lose, IInv, TypeOK, DeviceOK, deviceVars
<1>4. CallsOK'
  BY DEF Lose, IInv, TypeOK, CallsOK
<1>6. BooksOK'
  BY QueueAssumption DEF Lose, IInv, TypeOK, BooksOK, ghostVars
<1>7. ASSUME NEW x \in Callers PROVE CallOK(x)'
  BY CallKept DEF Lose, IInv, TypeOK, CallsOK, CallOK, ghostVars
<1>8. KeptWhileSignedIn'
  BY KeptKept DEF Lose, IInv, deviceVars, ghostVars
<1> QED BY <1>1, <1>2, <1>4, <1>6, <1>7, <1>8 DEF IInv, TypeOK

\* A request that was given up arrives.
LEMMA ServeLateStep == ASSUME IInv, NEW w \in wandering, ServeLate(w) PROVE IInv'
<1>0. w.act \in Acts
  BY DEF IInv, TypeOK, ServerOK
<1>1. ServerOK' /\ LogAgrees'
  <2>1. CASE w.as \in live
    <3>1. Effect(w.act, w.as)
      BY <2>1 DEF ServeLate
    <3> QED BY <1>0, <3>1, EffectKeepsLog DEF ServeLate, IInv, TypeOK, ServerOK
  <2>2. CASE w.as \notin live
    BY <2>2 DEF ServeLate, IInv, TypeOK, ServerOK, LogAgrees
  <2> QED BY <2>1, <2>2
<1>2. DeviceOK' /\ CallsOK' /\ BooksOK'
  BY DEF ServeLate, IInv, TypeOK, DeviceOK, deviceVars, CallsOK, callVars, BooksOK, ghostVars
<1>7. ASSUME NEW x \in Callers PROVE CallOK(x)'
  BY CallKept DEF ServeLate, IInv, callVars, ghostVars
<1>8. KeptWhileSignedIn'
  BY KeptKept DEF ServeLate, IInv, deviceVars, ghostVars
<1> QED BY <1>1, <1>2, <1>7, <1>8 DEF IInv, TypeOK

\* What people do away from the queue: the task, the tokens and the session.
LEMMA TaskStep ==
  ASSUME IInv, Accept \/ (\E d \in Drivers : Reassign(d) \/ Expire(d)) \/ Load
  PROVE  IInv'
<1>0. /\ UNCHANGED <<events, landed, wandering, token, store, clock, callVars, ghostVars>>
      /\ live' \subseteq live /\ driverOf' \in Drivers
      /\ status' \in {status, "accepted", "assigned"} /\ seen' \in {seen, "accepted", status}
  BY DEF IInv, TypeOK, ServerOK, Accept, Reassign, Expire, Load, serverVars, deviceVars
<1>1. ServerOK' /\ LogAgrees'
  BY <1>0, SomeStatuses DEF IInv, TypeOK, ServerOK, LogAgrees
<1>2. DeviceOK'
  BY <1>0, SomeStatuses DEF IInv, TypeOK, ServerOK, DeviceOK
<1>4. CallsOK'
  BY <1>0 DEF IInv, TypeOK, CallsOK, callVars
<1>6. BooksOK'
  BY <1>0, QueueAssumption DEF IInv, TypeOK, BooksOK, ghostVars, Accept, Reassign, Expire, Load
<1>7. ASSUME NEW x \in Callers PROVE CallOK(x)'
  BY <1>0, CallKept DEF IInv, callVars, ghostVars
<1>8. KeptWhileSignedIn'
  BY <1>0, KeptKept DEF IInv, ghostVars
<1> QED BY <1>1, <1>2, <1>4, <1>6, <1>7, <1>8 DEF IInv, TypeOK

LEMMA SessionStep ==
  ASSUME IInv, SignOut \/ \E d \in Drivers : Login(d)
  PROVE  IInv'
<1>0. /\ UNCHANGED <<status, driverOf, events, landed, wandering, store, clock, callVars,
                     answered, spent, promised>>
      /\ live' \subseteq Drivers /\ token' \in Keys /\ seen' \in {seen, "nothing"}
      /\ session' = {}
  BY DEF IInv, TypeOK, ServerOK, SignOut, Login, serverVars, Keys
<1>1. ServerOK' /\ LogAgrees'
  BY <1>0 DEF IInv, TypeOK, ServerOK, LogAgrees
<1>2. DeviceOK'
  BY <1>0 DEF IInv, TypeOK, DeviceOK
<1>4. CallsOK'
  BY <1>0 DEF IInv, TypeOK, CallsOK, callVars
<1>6. BooksOK'
  BY <1>0, QueueAssumption DEF IInv, TypeOK, BooksOK, SignOut, Login
<1>7. ASSUME NEW x \in Callers PROVE CallOK(x)'
  BY <1>0, CallKept DEF IInv, callVars
<1>8. KeptWhileSignedIn'
  BY <1>0 DEF KeptWhileSignedIn
<1> QED BY <1>1, <1>2, <1>4, <1>6, <1>7, <1>8 DEF IInv, TypeOK

LEMMA TabDiesStep == ASSUME IInv, TabDies PROVE IInv'
<1>1. ServerOK' /\ LogAgrees'
  BY DEF TabDies, IInv, TypeOK, ServerOK, LogAgrees, serverVars
<1>2. DeviceOK' /\ BooksOK'
  BY DEF TabDies, IInv, TypeOK, DeviceOK, deviceVars, BooksOK, ghostVars
<1>4. CallsOK'
  BY DEF TabDies, CallsOK, Keys
<1>7. ASSUME NEW x \in Callers PROVE CallOK(x)'
  BY DEF TabDies, CallOK
<1>8. KeptWhileSignedIn'
  BY KeptKept DEF TabDies, IInv, deviceVars, ghostVars
<1> QED BY <1>1, <1>2, <1>4, <1>7, <1>8 DEF IInv, TypeOK

\* A screen sends, is answered, or queues what got no answer.
LEMMA TapStep == ASSUME IInv, NEW a \in Acts, Tap(a) PROVE IInv'
<1>0. [act |-> a, by |-> token, at |-> clock, attempts |-> 0] \in Rows
  BY QueueAssumption DEF Tap, IInv, TypeOK, DeviceOK, Rows
<1>1. ServerOK' /\ LogAgrees'
  BY DEF Tap, IInv, TypeOK, ServerOK, LogAgrees, serverVars
<1>2. DeviceOK'
  BY DEF Tap, IInv, TypeOK, DeviceOK, deviceVars
<1>4. CallsOK'
  BY <1>0 DEF Tap, Sends, IInv, TypeOK, CallsOK, DeviceOK, deviceVars
<1>6. BooksOK'
  BY QueueAssumption DEF Tap, IInv, TypeOK, BooksOK, ghostVars
<1>7. ASSUME NEW x \in Callers PROVE CallOK(x)'
  <2>1. CASE x = Screen
    BY <1>0, <2>1 DEF Tap, Sends, IInv, TypeOK, CallsOK, CallOK
  <2>2. CASE x # Screen
    BY <2>2, CallKept DEF Tap, Sends, IInv, TypeOK, CallsOK, ghostVars
  <2> QED BY <2>1, <2>2
<1>8. KeptWhileSignedIn'
  BY KeptKept DEF Tap, IInv, deviceVars, ghostVars
<1> QED BY <1>1, <1>2, <1>4, <1>6, <1>7, <1>8 DEF IInv, TypeOK

LEMMA ScreenAnsweredStep == ASSUME IInv, ScreenAnswered PROVE IInv'
<1>1. ServerOK' /\ LogAgrees' /\ DeviceOK' /\ BooksOK'
  BY DEF ScreenAnswered, IInv, TypeOK, ServerOK, LogAgrees, DeviceOK, BooksOK, serverVars,
         deviceVars, ghostVars
<1>4. CallsOK'
  BY DEF ScreenAnswered, Rests, IInv, TypeOK, CallsOK, Keys
<1>7. ASSUME NEW x \in Callers PROVE CallOK(x)'
  <2>1. CASE x = Screen
    BY <2>1 DEF ScreenAnswered, Rests, IInv, TypeOK, CallsOK, CallOK
  <2>2. CASE x # Screen
    BY <2>2, CallKept DEF ScreenAnswered, Rests, IInv, TypeOK, CallsOK, ghostVars
  <2> QED BY <2>1, <2>2
<1>8. KeptWhileSignedIn'
  BY KeptKept DEF ScreenAnswered, IInv, deviceVars, ghostVars
<1> QED BY <1>1, <1>4, <1>7, <1>8 DEF IInv, TypeOK

LEMMA ScreenQueuesStep == ASSUME IInv, ScreenQueues PROVE IInv'
<1> DEFINE v == verdict[Screen]
           row == [act |-> req[Screen].act, by |-> req[Screen].by, at |-> clock + 1, attempts |-> 0]
<1>0. /\ req[Screen].act \in Acts /\ req[Screen].by \in Drivers /\ row \in Rows
      /\ KeyAfter(v) \in Keys
  <2>1. Screen \in Callers
    BY DEF Callers
  <2>2. req[Screen] \in Rows
    BY <2>1 DEF ScreenQueues, IInv, CallOK
  <2>3. req[Screen].act \in Acts /\ req[Screen].by \in Drivers
    BY <2>2 DEF Rows
  <2>4. row \in Rows
    BY <2>3, QueueAssumption DEF IInv, TypeOK, DeviceOK, Rows
  <2> QED BY <2>3, <2>4 DEF KeyAfter, IInv, TypeOK, DeviceOK, Keys
<1>1. ServerOK' /\ LogAgrees'
  BY DEF ScreenQueues, IInv, TypeOK, ServerOK, LogAgrees, serverVars
<1>2. /\ store' \in [Keys -> SUBSET Rows]
      /\ \A q \in Keys : \A r, s \in store'[q] : r.act = s.act => r = s
      /\ \A q \in Keys : Stored(q) \subseteq Stored(q)'
      /\ \A q \in Keys : q = KeyAfter(v) => req[Screen].act \in Stored(q)'
  <2>1. store' = With(KeyAfter(v), row)
    BY DEF ScreenQueues
  <2>2. row.act = req[Screen].act
    OBVIOUS
  <2>3. DeviceOK
    BY DEF IInv, TypeOK
  <2> HIDE DEF row, v
  <2> QED BY <1>0, <2>1, <2>2, <2>3, WithKeeps
<1>3. DeviceOK'
  BY <1>0, <1>2 DEF ScreenQueues, MayClearToken, IInv, TypeOK, DeviceOK
<1>4. CallsOK'
  BY DEF ScreenQueues, Rests, IInv, TypeOK, CallsOK, Keys
<1>6. BooksOK'
  <2>1. promised' = promised \union {<<req[Screen].act, req[Screen].by>>}
    BY DEF ScreenQueues
  <2>2. session' \subseteq session \union {req[Screen].act}
    BY DEF ScreenQueues
  <2> QED BY <1>0, <2>1, <2>2 DEF ScreenQueues, IInv, TypeOK, BooksOK
<1>7. ASSUME NEW x \in Callers PROVE CallOK(x)'
  <2>1. CASE x = Screen
    BY <2>1 DEF ScreenQueues, Rests, IInv, TypeOK, CallsOK, CallOK
  <2>2. CASE x # Screen
    BY <2>2, CallKept DEF ScreenQueues, Rests, IInv, TypeOK, CallsOK
  <2> QED BY <2>1, <2>2
<1>8. KeptWhileSignedIn'
  <2>1. CASE KeyAfter(v) = NoToken
    BY <2>1 DEF ScreenQueues, MayClearToken, KeptWhileSignedIn
  <2>2. CASE KeyAfter(v) # NoToken
    <3>1. token' = token /\ KeyAfter(v) = token
      BY <2>2 DEF ScreenQueues, MayClearToken, KeyAfter
    <3>2. session' = session \union {req[Screen].act} /\ UNCHANGED <<answered, spent>>
      BY <2>2 DEF ScreenQueues
    <3>3. token \in Keys
      BY DEF IInv, TypeOK, DeviceOK
    <3> QED BY <1>2, <2>2, <3>1, <3>2, <3>3 DEF IInv, KeptWhileSignedIn, Settled
  <2> QED BY <2>1, <2>2
<1> QED BY <1>1, <1>3, <1>4, <1>6, <1>7, <1>8 DEF IInv, TypeOK

\* A flush starts, sends or ends.
LEMMA FlushCallStep ==
  ASSUME IInv, NEW f \in Flushes,
         StartFlush(f) \/ EndFlush(f) \/ \E row \in todo[f] : FlushSend(f, row)
  PROVE  IInv'
<1>0. f \in Callers /\ todo[f] \subseteq Rows
  BY DEF Callers, IInv, TypeOK, CallsOK
<1>1. UNCHANGED <<serverVars, wandering, deviceVars, used, ghostVars>>
  BY DEF StartFlush, EndFlush, FlushSend
<1>2. ServerOK' /\ LogAgrees' /\ DeviceOK' /\ BooksOK'
  BY <1>1 DEF IInv, TypeOK, ServerOK, LogAgrees, DeviceOK, BooksOK, serverVars, deviceVars,
              ghostVars
<1>4. CallsOK' /\ \A x \in Callers : CallOK(x)'
  <2>1. CASE StartFlush(f)
    <3>1. CallsOK'
      BY <2>1 DEF StartFlush, IInv, TypeOK, CallsOK, DeviceOK
    <3>2. ASSUME NEW x \in Callers PROVE CallOK(x)'
      BY <1>0, <1>1, <2>1 DEF StartFlush, IInv, TypeOK, CallsOK, CallOK, ghostVars
    <3> QED BY <3>1, <3>2
  <2>2. CASE EndFlush(f)
    <3>1. CallsOK'
      BY <2>2 DEF EndFlush, EndsFlush, Rests, IInv, TypeOK, CallsOK, Keys
    <3>2. ASSUME NEW x \in Callers PROVE CallOK(x)'
      BY <1>0, <1>1, <2>2 DEF EndFlush, EndsFlush, Rests, IInv, TypeOK, CallsOK, CallOK, ghostVars
    <3> QED BY <3>1, <3>2
  <2>3. ASSUME NEW row \in todo[f], FlushSend(f, row)
        PROVE  CallsOK' /\ \A x \in Callers : CallOK(x)'
    <3>0. row \in Rows /\ token \in Drivers
      BY <1>0, <2>3 DEF FlushSend, IInv, TypeOK, DeviceOK, Keys
    <3>1. CallsOK'
      BY <2>3, <3>0 DEF FlushSend, Sends, IInv, TypeOK, CallsOK, Keys
    <3>2. ASSUME NEW x \in Callers PROVE CallOK(x)'
      BY <1>0, <1>1, <2>3, <3>0 DEF FlushSend, Sends, IInv, TypeOK, CallsOK, CallOK, ghostVars
    <3> QED BY <3>1, <3>2
  <2> QED BY <2>1, <2>2, <2>3
<1>8. KeptWhileSignedIn'
  BY <1>1, KeptKept DEF IInv, deviceVars, ghostVars
<1> QED BY <1>2, <1>4, <1>8 DEF IInv, TypeOK

\* A flush drops a row because nobody is signed in.
LEMMA FlushSignedOutStep ==
  ASSUME IInv, NEW f \in Flushes, NEW row \in todo[f], FlushSignedOut(f, row)
  PROVE  IInv'
<1>0. row.act \in Acts /\ NoToken \in Keys
  BY DEF IInv, TypeOK, CallsOK, Rows, Keys
<1>1. ServerOK' /\ LogAgrees' /\ BooksOK'
  BY DEF FlushSignedOut, IInv, TypeOK, ServerOK, LogAgrees, BooksOK, serverVars, ghostVars
<1>2. DeviceOK'
  <2>1. store' = Without(NoToken, row.act) /\ DeviceOK
    BY DEF FlushSignedOut, IInv, TypeOK
  <2> QED BY <1>0, <2>1, WithoutKeeps DEF FlushSignedOut, DeviceOK
<1>4. CallsOK'
  BY DEF FlushSignedOut, IInv, TypeOK, CallsOK
<1>7. ASSUME NEW x \in Callers PROVE CallOK(x)'
  BY CallKept DEF FlushSignedOut, IInv, ghostVars
<1>8. KeptWhileSignedIn'
  BY DEF FlushSignedOut, KeptWhileSignedIn
<1> QED BY <1>1, <1>2, <1>4, <1>7, <1>8 DEF IInv, TypeOK

\* Going on leaves the other calls alone and this one at rest between two rows.
LEMMA GoesOnKeeps ==
  ASSUME CallsOK, \A x \in Callers : CallOK(x), NEW f \in Flushes, GoesOn(f),
         answered \subseteq answered'
  PROVE  CallsOK' /\ \A x \in Callers : CallOK(x)'
<1>0. f \in Callers
  BY DEF Callers
<1>1. CallsOK'
  BY DEF GoesOn, CallsOK, Keys
<1>2. ASSUME NEW x \in Callers PROVE CallOK(x)'
  BY <1>0 DEF GoesOn, CallsOK, CallOK
<1> QED BY <1>1, <1>2

LEMMA EndsFlushKeeps ==
  ASSUME CallsOK, \A x \in Callers : CallOK(x), NEW f \in Flushes, EndsFlush(f),
         answered \subseteq answered'
  PROVE  CallsOK' /\ \A x \in Callers : CallOK(x)'
<1>0. f \in Callers
  BY DEF Callers
<1>1. CallsOK'
  BY DEF EndsFlush, Rests, CallsOK, Keys
<1>2. ASSUME NEW x \in Callers PROVE CallOK(x)'
  BY <1>0 DEF EndsFlush, Rests, CallsOK, CallOK
<1> QED BY <1>1, <1>2

\* A replayed row is answered and removed, under whatever token is there now.
LEMMA FlushAnsweredStep == ASSUME IInv, NEW f \in Flushes, FlushAnswered(f) PROVE IInv'
<1>0. /\ req[f].act \in Acts /\ req[f].act \in answered /\ token \in Keys
      /\ DeviceOK /\ CallsOK
  <2>1. f \in Callers
    BY DEF Callers
  <2>2. req[f] \in Rows /\ req[f].act \in answered
    BY <2>1 DEF FlushAnswered, IInv, CallOK
  <2> QED BY <2>2 DEF IInv, TypeOK, DeviceOK, Rows
<1>1. ServerOK' /\ LogAgrees' /\ BooksOK'
  BY DEF FlushAnswered, IInv, TypeOK, ServerOK, LogAgrees, BooksOK, serverVars, ghostVars
<1>2. /\ store' \in [Keys -> SUBSET Rows]
      /\ \A q \in Keys : \A r, s \in store'[q] : r.act = s.act => r = s
      /\ \A q \in Keys : Stored(q) \subseteq Stored(q)' \union {req[f].act}
  <2>1. store' = Without(token, req[f].act)
    BY DEF FlushAnswered
  <2> QED BY <1>0, <2>1, WithoutKeeps
<1>3. DeviceOK'
  BY <1>2 DEF FlushAnswered, IInv, TypeOK, DeviceOK
<1>4. CallsOK' /\ \A x \in Callers : CallOK(x)'
  BY <1>0, GoesOnKeeps DEF FlushAnswered, IInv, ghostVars
<1>8. KeptWhileSignedIn'
  <2>1. UNCHANGED <<token, session, answered, spent>>
    BY DEF FlushAnswered, ghostVars
  <2> QED BY <1>0, <1>2, <2>1 DEF IInv, KeptWhileSignedIn, Settled
<1> QED BY <1>1, <1>3, <1>4, <1>8 DEF IInv, TypeOK

\* A replay that got no answer is counted and either kept or given up.
LEMMA FlushFailsStep == ASSUME IInv, NEW f \in Flushes, FlushFails(f) PROVE IInv'
<1> DEFINE v == verdict[f]
           again == [req[f] EXCEPT !.attempts = @ + 1]
<1>0. /\ req[f] \in Rows /\ req[f].act \in Acts /\ KeyAfter(v) \in Keys
      /\ DeviceOK /\ CallsOK /\ \A x \in Callers : CallOK(x)
  <2>1. f \in Callers
    BY DEF Callers
  <2>2. req[f] \in Rows
    BY <2>1 DEF FlushFails, IInv, CallOK
  <2> QED BY <2>2 DEF KeyAfter, IInv, TypeOK, DeviceOK, Rows, Keys
<1>1. ServerOK' /\ LogAgrees'
  BY DEF FlushFails, IInv, TypeOK, ServerOK, LogAgrees, serverVars
<1>2. /\ token' = KeyAfter(v) /\ seen' \in {seen, "nothing"}
      /\ session' \subseteq session /\ (token' # token => session' = {})
      /\ UNCHANGED <<clock, used, answered, promised>>
  BY DEF FlushFails, MayClearToken, KeyAfter
<1>3. CASE SpentBy(req[f])
  <2>1. store' = Without(KeyAfter(v), req[f].act) /\ GoesOn(f) /\ spent' = spent \union {req[f].act}
    BY <1>3 DEF FlushFails
  <2>2. /\ store' \in [Keys -> SUBSET Rows]
        /\ \A q \in Keys : \A r, s \in store'[q] : r.act = s.act => r = s
        /\ \A q \in Keys : Stored(q) \subseteq Stored(q)' \union {req[f].act}
    BY <1>0, <2>1, WithoutKeeps
  <2>3. DeviceOK'
    BY <1>0, <1>2, <2>2 DEF DeviceOK
  <2>4. CallsOK' /\ \A x \in Callers : CallOK(x)'
    BY <1>0, <1>2, <2>1, GoesOnKeeps
  <2>5. BooksOK'
    BY <1>0, <1>2, <2>1 DEF IInv, TypeOK, BooksOK
  <2>6. KeptWhileSignedIn'
    BY <1>0, <1>2, <2>1, <2>2 DEF IInv, KeptWhileSignedIn, Settled, DeviceOK
  <2> QED BY <1>1, <2>3, <2>4, <2>5, <2>6 DEF IInv, TypeOK
<1>4. CASE ~SpentBy(req[f])
  <2>1. store' = With(KeyAfter(v), again) /\ EndsFlush(f) /\ spent' = spent
    BY <1>4 DEF FlushFails
  <2>0. again \in Rows
    BY <1>0, <1>4, QueueAssumption DEF SpentBy, Rows
  <2>2. /\ store' \in [Keys -> SUBSET Rows]
        /\ \A q \in Keys : \A r, s \in store'[q] : r.act = s.act => r = s
        /\ \A q \in Keys : Stored(q) \subseteq Stored(q)'
    <3> HIDE DEF again, v
    <3> QED BY <1>0, <2>0, <2>1, WithKeeps
  <2>3. DeviceOK'
    BY <1>0, <1>2, <2>2 DEF DeviceOK
  <2>4. CallsOK' /\ \A x \in Callers : CallOK(x)'
    BY <1>0, <1>2, <2>1, EndsFlushKeeps
  <2>5. BooksOK'
    BY <1>2, <2>1 DEF IInv, TypeOK, BooksOK
  <2>6. KeptWhileSignedIn'
    BY <1>0, <1>2, <2>1, <2>2 DEF IInv, KeptWhileSignedIn, Settled, DeviceOK
  <2> QED BY <1>1, <2>3, <2>4, <2>5, <2>6 DEF IInv, TypeOK
<1> QED BY <1>3, <1>4

-----------------------------------------------------------------------------
LEMMA StepIInv == IInv /\ [Next]_vars => IInv'
<1> SUFFICES ASSUME IInv, [Next]_vars PROVE IInv'
  OBVIOUS
<1>1. ASSUME NEW c \in Callers, Serve(c) \/ Bounce(c) \/ Lose(c) PROVE IInv'
  BY <1>1, ServeStep, BounceStep, LoseStep
<1>2. ASSUME NEW w \in wandering, ServeLate(w) PROVE IInv'
  BY <1>2, ServeLateStep
<1>3. CASE Accept \/ (\E d \in Drivers : Reassign(d) \/ Expire(d)) \/ Load
  BY <1>3, TaskStep
<1>4. CASE SignOut \/ \E d \in Drivers : Login(d)
  BY <1>4, SessionStep
<1>5. CASE TabDies
  BY <1>5, TabDiesStep
<1>6. ASSUME NEW a \in Acts, Tap(a) PROVE IInv'
  BY <1>6, TapStep
<1>7. CASE ScreenAnswered \/ ScreenQueues
  BY <1>7, ScreenAnsweredStep, ScreenQueuesStep
<1>8. ASSUME NEW f \in Flushes, StartFlush(f) \/ FlushAnswered(f) \/ FlushFails(f) \/ EndFlush(f)
      PROVE  IInv'
  BY <1>8, FlushCallStep, FlushAnsweredStep, FlushFailsStep
<1>9. ASSUME NEW f \in Flushes, NEW row \in todo[f], FlushSend(f, row) \/ FlushSignedOut(f, row)
      PROVE  IInv'
  BY <1>9, FlushCallStep, FlushSignedOutStep
<1>10. CASE UNCHANGED vars
  <2>1. /\ UNCHANGED <<serverVars, wandering, deviceVars, callVars, used, ghostVars>>
    BY <1>10 DEF vars
  <2>2. TypeOK' /\ LogAgrees'
    BY <2>1 DEF serverVars, deviceVars, callVars, ghostVars, IInv, TypeOK, ServerOK, DeviceOK,
                CallsOK, BooksOK, LogAgrees
  <2>3. ASSUME NEW x \in Callers PROVE CallOK(x)'
    BY <2>1, CallKept DEF callVars, ghostVars, IInv
  <2>4. KeptWhileSignedIn'
    BY <2>1, KeptKept DEF deviceVars, ghostVars, IInv
  <2> QED BY <2>2, <2>3, <2>4 DEF IInv
<1> QED BY <1>1, <1>2, <1>3, <1>4, <1>5, <1>6, <1>7, <1>8, <1>9, <1>10 DEF Next

LEMMA Invariant == Spec => []IInv
BY InitIInv, StepIInv, PTL DEF Spec

\* Every reachable state of the device and the server is type correct: a database
\* has one row per action, and no row has used up its attempts.
THEOREM TypeCorrect == Spec => []TypeOK
<1>1. IInv => TypeOK
  BY DEF IInv
<1> QED BY <1>1, Invariant, PTL

\* An action takes effect at most once, however often and by whomever it is sent.
THEOREM EffectOnce == Spec => []AppliedOnce
<1>1. IInv => AppliedOnce
  BY DEF IInv, LogAgrees, AppliedOnce
<1> QED BY <1>1, Invariant, PTL

\* What the signed-in driver was told is queued stays stored until it is answered
\* or given up.
THEOREM QueuedStaysStored == Spec => []KeptWhileSignedIn
<1>1. IInv => KeptWhileSignedIn
  BY DEF IInv
<1> QED BY <1>1, Invariant, PTL

-----------------------------------------------------------------------------
(* CheckoutScreen, for any points, any number of requests, moves and losses.    *)
(*                                                                              *)
(* A cleanup keeps a late answer from being heeded: the invariant says of every *)
(* request that is out and still heeded what of the page it agrees with.        *)

-----------------------------------------------------------------------------
(* The requests.                                                                *)

Places  == 1 .. MaxCalls
CallRow == [kind : {"none", "cart", "addresses", "balance", "cap", "points", "save", "quote", "place"},
            arg : Anywhere \union {Nowhere}, points : -1 .. Points,
            stage : {"none", "asked", "served", "refused"}, live : BOOLEAN]

\* A place without a request is as it was at first, and a request says what it is for.
Made(x) ==
  /\ x.stage = "none" <=> x = NoCall
  /\ x.kind \in {"cap", "points", "place"} => x.points >= 0
  /\ x.kind \in {"save", "quote", "place"} => x.arg \in Anywhere
Well(cs) == cs \in [Places -> CallRow] /\ \A c \in Places : Made(cs[c])

LEMMA RowSet ==
  ASSUME NEW k1, NEW a1, NEW p1, NEW s1, NEW l, NEW k2, NEW a2, NEW p2, NEW s2
  PROVE  [[[[[kind |-> k1, arg |-> a1, points |-> p1, stage |-> s1, live |-> l]
              EXCEPT !.kind = k2] EXCEPT !.arg = a2] EXCEPT !.points = p2] EXCEPT !.stage = s2]
           = [kind |-> k2, arg |-> a2, points |-> p2, stage |-> s2, live |-> l]
<1> DEFINE r1 == [kind |-> k2, arg |-> a1, points |-> p1, stage |-> s1, live |-> l]
           r2 == [kind |-> k2, arg |-> a2, points |-> p1, stage |-> s1, live |-> l]
           r3 == [kind |-> k2, arg |-> a2, points |-> p2, stage |-> s1, live |-> l]
<1>1. [[kind |-> k1, arg |-> a1, points |-> p1, stage |-> s1, live |-> l] EXCEPT !.kind = k2] = r1
  OBVIOUS
<1>2. [r1 EXCEPT !.arg = a2] = r2  OBVIOUS
<1>3. [r2 EXCEPT !.points = p2] = r3  OBVIOUS
<1>4. [r3 EXCEPT !.stage = s2] = [kind |-> k2, arg |-> a2, points |-> p2, stage |-> s2, live |-> l]
  OBVIOUS
<1> HIDE DEF r1, r2, r3
<1> QED  BY <1>1, <1>2, <1>3, <1>4, Zenon

\* What Call makes of NoCall.
LEMMA CallIs ==
  ASSUME NEW kind \in {"cart", "addresses", "balance", "cap", "points", "save", "quote", "place"},
         NEW arg \in Anywhere \union {Nowhere}, NEW n \in -1 .. Points
  PROVE  /\ Call(kind, arg, n).kind = kind /\ Call(kind, arg, n).arg = arg
         /\ Call(kind, arg, n).points = n /\ Call(kind, arg, n).stage = "asked"
         /\ Call(kind, arg, n).live /\ Call(kind, arg, n) \in CallRow
<1> DEFINE r == [kind |-> kind, arg |-> arg, points |-> n, stage |-> "asked", live |-> TRUE]
<1>1. Call(kind, arg, n) = [[[[NoCall EXCEPT !.kind = kind] EXCEPT !.arg = arg] EXCEPT !.points = n]
                               EXCEPT !.stage = "asked"]
  BY DEF Call
<1>4. Call(kind, arg, n) = r  BY <1>1, RowSet, Zenon DEF NoCall
<1>2. r \in CallRow  BY DEF CallRow
<1>3. r.kind = kind /\ r.arg = arg /\ r.points = n /\ r.stage = "asked" /\ r.live  OBVIOUS
<1> QED  BY <1>2, <1>3, <1>4, Zenon

\* A request goes to a place that is free.
LEMMA SendIs ==
  ASSUME NEW cs, Well(cs), IdleCalls(cs) # {}, NEW call \in CallRow, Made(call), call.stage = "asked"
  PROVE  \E c \in Places : /\ cs[c] = NoCall /\ Send(cs, call) = [cs EXCEPT ![c] = call]
                           /\ Well(Send(cs, call))
                           /\ IdleCalls(Send(cs, call)) = IdleCalls(cs) \ {c}
<1>1. IdleCalls(cs) \in SUBSET Nat /\ IdleCalls(cs) \in SUBSET Places
  BY DEF IdleCalls, Well, Places
<1>2. \E c \in IdleCalls(cs) : \A d \in IdleCalls(cs) : c <= d  BY <1>1, LeastNatural
<1> DEFINE c == CHOOSE c \in IdleCalls(cs) : \A d \in IdleCalls(cs) : c <= d
<1>3. c \in IdleCalls(cs)  BY <1>2
<1>4. Send(cs, call) = [cs EXCEPT ![c] = call]  BY DEF Send
<1> HIDE DEF c
<1>5. c \in Places /\ cs[c] = NoCall  BY <1>1, <1>3 DEF IdleCalls, Well, Made
<1>6. Well(Send(cs, call))  BY <1>4, <1>5 DEF Well
<1>7. IdleCalls(Send(cs, call)) = IdleCalls(cs) \ {c}
  BY <1>4, <1>5 DEF IdleCalls, Well, NoCall
<1> QED  BY <1>4, <1>5, <1>6, <1>7

LEMMA IdleAre ==
  ASSUME NEW cs, Well(cs)
  PROVE  IsFiniteSet(IdleCalls(cs)) /\ Cardinality(IdleCalls(cs)) \in Nat
<1>1. IdleCalls(cs) \in SUBSET Places  BY DEF IdleCalls, Well
<1>2. MaxCalls \in Int /\ 1 \in Int  BY CheckoutAssumption
<1>3. IsFiniteSet(Places)  BY <1>2, FS_Interval DEF Places
<1>4. IsFiniteSet(IdleCalls(cs))  BY <1>1, <1>3, FS_Subset
<1> QED  BY <1>4, FS_CardinalityType

\* The same where the number of free places is known.
LEMMA SendOne ==
  ASSUME NEW cs, Well(cs), NEW n \in Nat, Cardinality(IdleCalls(cs)) >= n + 1,
         NEW call \in CallRow, Made(call), call.stage = "asked"
  PROVE  /\ Well(Send(cs, call)) /\ Cardinality(IdleCalls(Send(cs, call))) >= n
         /\ \A c \in Places : Send(cs, call)[c] = cs[c] \/ (cs[c] = NoCall /\ Send(cs, call)[c] = call)
<1>1. IsFiniteSet(IdleCalls(cs)) /\ Cardinality(IdleCalls(cs)) \in Nat  BY IdleAre
<1>2. IdleCalls(cs) # {}  BY <1>1, FS_EmptySet
<1>3. PICK c \in Places : /\ cs[c] = NoCall /\ Send(cs, call) = [cs EXCEPT ![c] = call]
                          /\ Well(Send(cs, call))
                          /\ IdleCalls(Send(cs, call)) = IdleCalls(cs) \ {c}
  BY <1>2, SendIs
<1>4. Cardinality(IdleCalls(cs) \ {c}) >= n  BY <1>1, FS_RemoveElement
<1>5. Cardinality(IdleCalls(Send(cs, call))) = Cardinality(IdleCalls(cs) \ {c})  BY <1>3, Zenon
<1>6. ASSUME NEW d \in Places
      PROVE  Send(cs, call)[d] = cs[d] \/ (cs[d] = NoCall /\ Send(cs, call)[d] = call)
  <2>1. DOMAIN cs = Places  BY DEF Well
  <2> HIDE DEF Send, NoCall
  <2>2. Send(cs, call)[d] = IF d = c THEN call ELSE cs[d]  BY <1>3, <2>1
  <2>3. CASE d = c
    <3>1. Send(cs, call)[d] = call  BY <2>2, <2>3
    <3>2. cs[d] = NoCall  BY <1>3, <2>3
    <3> QED  BY <3>1, <3>2
  <2>4. CASE d # c  BY <2>2, <2>4
  <2> QED  BY <2>3, <2>4
<1>7. Cardinality(IdleCalls(Send(cs, call))) >= n  BY <1>4, <1>5, Zenon
<1> QED  BY <1>3, <1>6, <1>7

\* The three requests of a load.
LEMMA LoadsAre ==
  ASSUME NEW cs, Well(cs), Cardinality(IdleCalls(cs)) >= 3
  PROVE  /\ Well(LoadCalls(cs))
         /\ \A c \in Places : LoadCalls(cs)[c] = cs[c]
                              \/ /\ cs[c] = NoCall
                                 /\ LoadCalls(cs)[c].kind \in {"cart", "addresses", "balance"}
<1> DEFINE k1 == Call("cart", Nowhere, Nothing)
           k2 == Call("addresses", Nowhere, Nothing)
           k3 == Call("balance", Nowhere, Nothing)
           cs1 == Send(cs, k1)
           cs2 == Send(cs1, k2)
           cs3 == Send(cs2, k3)
<1>1. Nothing \in -1 .. Points /\ Nowhere \in Anywhere \union {Nowhere}
  BY CheckoutAssumption DEF Nothing
<1>2. /\ k1 \in CallRow /\ k1.stage = "asked" /\ k1.kind = "cart"
      /\ k2 \in CallRow /\ k2.stage = "asked" /\ k2.kind = "addresses"
      /\ k3 \in CallRow /\ k3.stage = "asked" /\ k3.kind = "balance"
  BY <1>1, CallIs
<1> HIDE DEF k1, k2, k3
<1>3. Made(k1) /\ Made(k2) /\ Made(k3)  BY <1>2 DEF Made, NoCall
<1>4. /\ Well(cs1) /\ Cardinality(IdleCalls(cs1)) >= 2
      /\ \A c \in Places : cs1[c] = cs[c] \/ (cs[c] = NoCall /\ cs1[c] = k1)
  <2>1. Cardinality(IdleCalls(cs)) >= 2 + 1 /\ 2 \in Nat  OBVIOUS
  <2> QED  BY <1>2, <1>3, <2>1, SendOne
<1> HIDE DEF cs1
<1>5. /\ Well(cs2) /\ Cardinality(IdleCalls(cs2)) >= 1
      /\ \A c \in Places : cs2[c] = cs1[c] \/ (cs1[c] = NoCall /\ cs2[c] = k2)
  <2>1. Cardinality(IdleCalls(cs1)) >= 1 + 1 /\ 1 \in Nat  BY <1>4
  <2> QED  BY <1>2, <1>3, <1>4, <2>1, SendOne
<1> HIDE DEF cs2
<1>6. /\ Well(cs3)
      /\ \A c \in Places : cs3[c] = cs2[c] \/ (cs2[c] = NoCall /\ cs3[c] = k3)
  <2>1. Cardinality(IdleCalls(cs2)) >= 0 + 1 /\ 0 \in Nat  BY <1>5
  <2> QED  BY <1>2, <1>3, <1>5, <2>1, SendOne
<1>7. LoadCalls(cs) = cs3  BY DEF LoadCalls, cs2, cs1, k1, k2, k3
<1> HIDE DEF cs3
<1> QED  BY <1>2, <1>4, <1>5, <1>6, <1>7 DEF NoCall

\* An answer that was awaited leaves its place.
LEMMA Dropped ==
  ASSUME Well(calls), NEW c \in Places
  PROVE  /\ Well(Drop(c)) /\ Drop(c)[c] = NoCall /\ IdleCalls(Drop(c)) # {}
         /\ \A d \in Places \ {c} : Drop(c)[d] = calls[d]
<1>1. Drop(c) = [d \in Places |-> IF d = c THEN NoCall ELSE calls[d]]  BY DEF Drop, Well
<1>2. NoCall \in CallRow /\ Made(NoCall)
  <2>1. Nothing \in -1 .. Points  BY CheckoutAssumption DEF Nothing
  <2> QED  BY <2>1 DEF CallRow, NoCall, Made
<1>3. NoCall.stage = "none"  BY DEF NoCall
<1> HIDE DEF NoCall
<1>4. Well(Drop(c))  BY <1>1, <1>2 DEF Well
<1>5. c \in IdleCalls(Drop(c))  BY <1>1, <1>3 DEF IdleCalls
<1> QED  BY <1>1, <1>4, <1>5

\* The server carries a request out.
LEMMA Staged ==
  ASSUME Well(calls), NEW c \in Places, calls[c].stage # "none", NEW s \in {"served", "refused"},
         NEW ds, ds = [calls EXCEPT ![c].stage = s]
  PROVE  /\ Well(ds) /\ ds[c].kind = calls[c].kind
         /\ \A d \in Places \ {c} : ds[d] = calls[d]
<1> DEFINE x == [calls[c] EXCEPT !.stage = s]
<1>1. ds = [d \in Places |-> IF d = c THEN x ELSE calls[d]]  BY DEF Well
<1>2. calls[c] \in CallRow /\ Made(calls[c])  BY DEF Well
<1>3. x \in CallRow /\ x.kind = calls[c].kind /\ x.arg = calls[c].arg /\ x.points = calls[c].points
      /\ x.stage = s
  BY <1>2 DEF CallRow
<1> HIDE DEF x
<1>4. NoCall.stage = "none"  BY DEF NoCall
<1>5. Made(x)  BY <1>2, <1>3, <1>4 DEF Made
<1> QED  BY <1>1, <1>3, <1>5 DEF Well

\* A fetch has rejected, and what it asked for may still be carried out.
LEMMA Unheard ==
  ASSUME Well(calls), NEW c \in Places, calls[c].stage # "none",
         NEW ds, ds = [calls EXCEPT ![c].live = FALSE]
  PROVE  /\ Well(ds) /\ ds[c].kind = calls[c].kind
         /\ \A d \in Places \ {c} : ds[d] = calls[d]
<1> DEFINE x == [calls[c] EXCEPT !.live = FALSE]
<1>1. ds = [d \in Places |-> IF d = c THEN x ELSE calls[d]]  BY DEF Well
<1>2. calls[c] \in CallRow /\ Made(calls[c])  BY DEF Well
<1>3. x \in CallRow /\ x.kind = calls[c].kind /\ x.arg = calls[c].arg /\ x.points = calls[c].points
      /\ x.stage = calls[c].stage
  BY <1>2 DEF CallRow
<1> HIDE DEF x
<1>4. NoCall.stage = "none"  BY DEF NoCall
<1>5. Made(x)  BY <1>2, <1>3, <1>4 DEF Made
<1> QED  BY <1>1, <1>3, <1>5 DEF Well

\* The effect that asks for the cap, where what it depends on has changed: no question
\* but the new one is heeded, and there is one when there is something to redeem.
LEMMA CapEffectIs ==
  ASSUME NEW cs, Well(cs), IdleCalls(cs) # {}, NEW b \in 0 .. Points, NEW total,
         ~(b = balance /\ total = Total(cart)), NEW ds, ds = CapEffect(cs, b, total)
  PROVE  /\ Well(ds)
         /\ \A c \in Places : ds[c].kind = "cap" /\ ds[c].live => ds[c].points = b
         /\ \A c \in Places : ds[c].kind \in {cs[c].kind, "cap"}
         /\ b > 0 /\ total > 0 => \E c \in Places : ds[c].kind = "cap" /\ ds[c].live
         /\ ~(b > 0 /\ total > 0) => \A c \in Places : ds[c].kind = cs[c].kind
<1> DEFINE unheard(x) == [x EXCEPT !.live = FALSE]
           heard == [c \in DOMAIN cs |-> IF cs[c].kind = "cap" THEN unheard(cs[c]) ELSE cs[c]]
           call == Call("cap", Nowhere, b)
<1>1. ds = IF b > 0 /\ total > 0 THEN Send(heard, call) ELSE heard  BY DEF CapEffect
<1>2. DOMAIN cs = Places  BY DEF Well
<1>3. ASSUME NEW x \in CallRow, Made(x), x.kind = "cap"
      PROVE  /\ unheard(x) \in CallRow /\ Made(unheard(x)) /\ unheard(x).kind = "cap"
             /\ ~unheard(x).live /\ unheard(x).stage # "none"
  <2>1. /\ unheard(x) \in CallRow /\ unheard(x).kind = x.kind /\ unheard(x).points = x.points
        /\ unheard(x).stage = x.stage /\ ~unheard(x).live
    BY <1>3 DEF CallRow
  <2>2. NoCall.kind = "none" /\ NoCall.stage = "none"  BY DEF NoCall
  <2> HIDE DEF unheard
  <2> QED  BY <1>3, <2>1, <2>2 DEF Made
<1> HIDE DEF unheard
<1>4. heard = [c \in Places |-> IF cs[c].kind = "cap" THEN unheard(cs[c]) ELSE cs[c]]  BY <1>2
<1> HIDE DEF heard
<1>5. \A c \in Places : cs[c] \in CallRow /\ Made(cs[c])  BY DEF Well
<1>6. Well(heard)  BY <1>3, <1>4, <1>5 DEF Well
<1>7. \A c \in Places : /\ heard[c].kind = cs[c].kind
                        /\ ~(heard[c].kind = "cap" /\ heard[c].live)
  BY <1>3, <1>4, <1>5
<1>8. IdleCalls(heard) = IdleCalls(cs)
  <2>1. \A c \in Places : heard[c].stage = "none" <=> cs[c].stage = "none"
    <3> TAKE c \in Places
    <3>1. CASE cs[c].kind = "cap"
      <4>1. NoCall.kind = "none"  BY DEF NoCall
      <4>2. cs[c].stage # "none"  BY <1>5, <3>1, <4>1 DEF Made
      <4>3. heard[c] = unheard(cs[c])  BY <1>4, <3>1
      <4> QED  BY <1>3, <1>5, <3>1, <4>2, <4>3
    <3>2. CASE cs[c].kind # "cap"  BY <1>4, <3>2
    <3> QED  BY <3>1, <3>2
  <2>2. DOMAIN heard = Places  BY <1>4
  <2> QED  BY <1>2, <2>1, <2>2 DEF IdleCalls
<1>9. CASE b > 0 /\ total > 0
  <2>1. b \in -1 .. Points /\ Nowhere \in Anywhere \union {Nowhere}  BY CheckoutAssumption
  <2>2. /\ call \in CallRow /\ call.kind = "cap" /\ call.points = b /\ call.live
        /\ call.stage = "asked"
    BY <2>1, CallIs
  <2> HIDE DEF call
  <2>3. NoCall.stage = "none" /\ NoCall.kind = "none"  BY DEF NoCall
  <2>4. Made(call)  BY <2>2, <2>3, <1>9 DEF Made
  <2>5. IdleCalls(heard) # {}  BY <1>8
  <2>6. PICK c \in Places : /\ heard[c] = NoCall /\ Send(heard, call) = [heard EXCEPT ![c] = call]
                            /\ Well(Send(heard, call))
    BY <1>6, <2>2, <2>4, <2>5, SendIs
  <2>7. ds = Send(heard, call)  BY <1>1, <1>9
  <2>8. ds = [d \in Places |-> IF d = c THEN call ELSE heard[d]]
    <3>1. DOMAIN heard = Places  BY <1>4
    <3> QED  BY <2>6, <2>7, <3>1
  <2>9. Well(ds)  BY <2>6, <2>7, Zenon
  <2>10. ds[c] = call /\ \A d \in Places \ {c} : ds[d] = heard[d]  BY <2>8
  <2> QED  BY <1>7, <1>9, <2>2, <2>9, <2>10
<1>10. CASE ~(b > 0 /\ total > 0)
  <2>1. ds = heard  BY <1>1, <1>10
  <2> QED  BY <1>6, <1>7, <1>10, <2>1
<1> QED  BY <1>9, <1>10

-----------------------------------------------------------------------------
(* The inductive invariant of the page.                                         *)

\* What is displayed and stored is of its type, the requests aside.
ShownOK ==
  /\ step \in Steps \union {"left"} /\ cart \in {"none", "full", "empty"}
  /\ listed \in SUBSET Anywhere /\ addressId \in Anywhere \union {Nowhere}
  /\ quote \in Anywhere \union {Nowhere}
  /\ adding \in BOOLEAN /\ blocked \in BOOLEAN /\ timer \in BOOLEAN
  /\ busy \in BOOLEAN /\ error \in BOOLEAN
  /\ balance \in 0 .. Points /\ requested \in 0 .. Points /\ points \in 0 .. Points
  /\ cap.asked \in -1 .. Points /\ cap.allowed \in 0 .. Least(Points, Half)
  /\ redemption.asked \in -1 .. Points /\ redemption.allowed \in 0 .. Least(Points, Half)
  /\ saved \in SUBSET Anywhere
  /\ moves \in 0 .. MaxMoves /\ losses \in 0 .. MaxLost

\* The orders made of the cart.
OrderRow == [address : Anywhere, points : 0 .. Points, try : 1 .. MaxCalls]
Ordered  == orders = {} \/ \E x \in OrderRow : orders = {x}

\* A step after the first, or a quote that is out, has an address.
QuoteOut == \E c \in Places : calls[c].kind = "quote"
Located  == step \in Steps \ {"address"} \/ QuoteOut => addressId \in Anywhere

\* A question for the cap that is heeded is about the balance displayed; where nothing
\* can be redeemed none is asked; and a cap of an older balance has a question out.
CapOut == \E c \in Places : calls[c].kind = "cap" /\ calls[c].live
CapsOK ==
  /\ \A c \in Places : calls[c].kind = "cap" /\ calls[c].live => calls[c].points = balance
  /\ Half = 0 => cap.asked = Nothing /\ \A c \in Places : calls[c].kind # "cap"
  /\ balance > 0 /\ cart = "full" => cap.asked \in {Nothing, balance} \/ CapOut

CheckoutIInv == ShownOK /\ Well(calls) /\ Ordered /\ Located /\ CapsOK

\* The parts of the invariant that speak of the requests, where no question for the cap
\* comes or goes and no quote is asked for.
Undisturbed(ds) ==
  \A c \in Places : ds[c] = calls[c] \/ (calls[c].kind # "cap" /\ ds[c].kind \notin {"cap", "quote"})

LEMMA CapsKept ==
  ASSUME CapsOK, UNCHANGED <<balance, cart, cap>>,
         \A c \in Places : \/ calls'[c] = calls[c]
                           \/ (calls[c].kind # "cap" /\ calls'[c].kind # "cap")
  PROVE  CapsOK'
<1>1. \A c \in Places : /\ calls'[c].kind = "cap" <=> calls[c].kind = "cap"
                        /\ calls[c].kind = "cap" => calls'[c] = calls[c]
  OBVIOUS
<1>2. CapOut' <=> CapOut  BY <1>1 DEF CapOut
<1> QED  BY <1>1, <1>2 DEF CapsOK

LEMMA QuietKeeps ==
  ASSUME CapsOK, Located, Undisturbed(calls'),
         UNCHANGED <<balance, cart, cap>>,
         addressId' = addressId \/ addressId' \in Anywhere,
         step' \in Steps \ {"address"} => step \in Steps \ {"address"} \/ QuoteOut
  PROVE  CapsOK' /\ Located'
<1>1. QuoteOut' => QuoteOut  BY DEF Undisturbed, QuoteOut
<1>2. Located'  BY <1>1 DEF Located
<1>3. CapsOK'  BY CapsKept DEF Undisturbed
<1> QED  BY <1>2, <1>3

LEMMA CheckoutStart == ASSUME CheckoutInit PROVE CheckoutIInv
<1> USE DEF CheckoutInit
<1> DEFINE free == [c \in Places |-> NoCall]
<1>1. Nothing \in -1 .. Points  BY CheckoutAssumption DEF Nothing
<1>2. NoCall \in CallRow /\ Made(NoCall) /\ NoCall.stage = "none" /\ NoCall.kind = "none"
  BY <1>1 DEF NoCall, CallRow, Made
<1> HIDE DEF NoCall
<1>3. Well(free)  BY <1>2 DEF Well
<1>4. IdleCalls(free) = Places  BY <1>2 DEF IdleCalls
<1>5. Cardinality(IdleCalls(free)) >= 3
  <2>1. MaxCalls \in Int /\ 1 \in Int /\ MaxCalls >= 3  BY CheckoutAssumption
  <2>2. Cardinality(Places) = MaxCalls - 1 + 1  BY <2>1, FS_Interval DEF Places
  <2> QED  BY <1>4, <2>1, <2>2
<1>6. calls = LoadCalls(free)  BY DEF Places
<1>7. \A c \in Places : free[c] = NoCall  OBVIOUS
<1> HIDE DEF free, CheckoutInit
<1>8. Well(calls) /\ \A c \in Places : calls[c].kind \in {"none", "cart", "addresses", "balance"}
  <2>1. /\ Well(LoadCalls(free))
        /\ \A c \in Places : LoadCalls(free)[c] = free[c]
                            \/ LoadCalls(free)[c].kind \in {"cart", "addresses", "balance"}
    BY <1>3, <1>5, LoadsAre
  <2>2. \A c \in Places : LoadCalls(free)[c].kind \in {"none", "cart", "addresses", "balance"}
    BY <1>2, <1>7, <2>1
  <2> QED  BY <1>6, <2>1, <2>2, Zenon
<1>9. ShownOK
  <2>1. /\ Points \in Nat /\ Half \in Nat /\ MaxMoves \in Nat /\ MaxLost \in Nat
        /\ Addresses \in SUBSET Anywhere
    BY CheckoutAssumption DEF Anywhere
  <2>2. Least(Points, Half) \in Nat  BY <2>1 DEF Least
  <2>3. NoQuote.asked \in -1 .. Points /\ NoQuote.allowed \in 0 .. Least(Points, Half)
    BY <2>1, <2>2 DEF NoQuote, Nothing
  <2>4. /\ step = "address" /\ cart = "none" /\ listed = {} /\ addressId = Nowhere
        /\ adding = FALSE /\ quote = Nowhere /\ blocked = FALSE /\ balance = 0 /\ requested = 0
        /\ cap = NoQuote /\ redemption = NoQuote /\ timer = FALSE /\ busy = FALSE /\ error = FALSE
        /\ saved = Addresses /\ points = Points /\ moves = 0 /\ losses = 0
    BY DEF CheckoutInit
  <2> HIDE DEF CheckoutInit, Least
  <2>5. /\ cap.asked \in -1 .. Points /\ cap.allowed \in 0 .. Least(Points, Half)
        /\ redemption.asked \in -1 .. Points /\ redemption.allowed \in 0 .. Least(Points, Half)
    BY <2>3, <2>4, Zenon
  <2>6. listed \in SUBSET Anywhere /\ saved \in SUBSET Anywhere  BY <2>1, <2>4
  <2>7. /\ balance \in 0 .. Points /\ requested \in 0 .. Points /\ points \in 0 .. Points
        /\ moves \in 0 .. MaxMoves /\ losses \in 0 .. MaxLost
    BY <2>1, <2>4
  <2>8. /\ step \in Steps \union {"left"} /\ cart \in {"none", "full", "empty"}
        /\ addressId \in Anywhere \union {Nowhere} /\ quote \in Anywhere \union {Nowhere}
    BY <2>4 DEF Steps
  <2> QED  BY <2>4, <2>5, <2>6, <2>7, <2>8 DEF ShownOK
<1> USE DEF CheckoutInit
<1>10. Ordered  BY DEF Ordered
<1>11. Located  BY <1>8 DEF Located, QuoteOut
<1>12. CapsOK
  <2>1. \A c \in Places : calls[c].kind # "cap"  BY <1>8
  <2>2. cap = NoQuote /\ balance = 0 /\ cart = "none"  OBVIOUS
  <2>3. NoQuote.asked = Nothing  BY DEF NoQuote
  <2> HIDE DEF CheckoutInit
  <2> QED  BY <2>1, <2>2, <2>3 DEF CapsOK
<1> QED  BY <1>8, <1>9, <1>10, <1>11, <1>12 DEF CheckoutIInv

-----------------------------------------------------------------------------
(* What the actions do to the requests and to the wallet.                       *)

LEMMA DropQuiet ==
  ASSUME Well(calls), NEW c \in Places, calls[c].kind # "cap"
  PROVE  Well(Drop(c)) /\ Undisturbed(Drop(c))
<1>1. NoCall.kind = "none"  BY DEF NoCall
<1> QED  BY <1>1, Dropped DEF Undisturbed

\* A request goes out, whatever for.
LEMMA Asks ==
  ASSUME Well(calls), Room(1),
         NEW kind \in {"points", "save", "place", "quote"}, NEW arg \in Anywhere \union {Nowhere},
         NEW n \in -1 .. Points, kind \in {"points", "place"} => n >= 0,
         kind \in {"save", "place", "quote"} => arg \in Anywhere,
         NEW ds, ds = Send(calls, Call(kind, arg, n))
  PROVE  /\ Well(ds)
         /\ \A c \in Places : ds[c] = calls[c] \/ (calls[c].kind = "none" /\ ds[c].kind = kind)
<1> DEFINE call == Call(kind, arg, n)
<1>1. /\ call \in CallRow /\ call.kind = kind /\ call.arg = arg /\ call.points = n
      /\ call.stage = "asked"
  BY CallIs
<1>2. NoCall.kind = "none" /\ NoCall.stage = "none"  BY DEF NoCall
<1> HIDE DEF call
<1>3. Made(call)  BY <1>1, <1>2 DEF Made
<1>4. 0 \in Nat /\ Cardinality(IdleCalls(calls)) >= 0 + 1  BY DEF Room
<1>5. /\ Well(Send(calls, call))
      /\ \A c \in Places : Send(calls, call)[c] = calls[c]
                           \/ (calls[c] = NoCall /\ Send(calls, call)[c] = call)
  BY <1>1, <1>3, <1>4, SendOne
<1>6. ds = Send(calls, call)  BY DEF call
<1>7. /\ Well(ds)
      /\ \A c \in Places : ds[c] = calls[c] \/ (calls[c] = NoCall /\ ds[c] = call)
  BY <1>5, <1>6, Zenon
<1> QED  BY <1>1, <1>2, <1>7

\* What may be redeemed is within what is left, what was asked for and half of the order.
LEMMA AllowedIs ==
  ASSUME ShownOK, NEW n \in 0 .. Points
  PROVE  /\ Allowed(n) \in 0 .. Least(Points, Half) /\ Allowed(n) <= points
         /\ Allowed(n) \in 0 .. Points
BY CheckoutAssumption DEF Allowed, Least, ShownOK

LEMMA NoQuoteIs ==
  /\ NoQuote.asked = Nothing /\ NoQuote.asked \in -1 .. Points
  /\ NoQuote.allowed \in 0 .. Least(Points, Half)
BY CheckoutAssumption DEF NoQuote, Nothing, Least

LEMMA RedemptionEffectIs ==
  ASSUME ShownOK, NEW r, NEW total, RedemptionEffect(r, total)
  PROVE  /\ timer' \in BOOLEAN
         /\ redemption'.asked \in -1 .. Points /\ redemption'.allowed \in 0 .. Least(Points, Half)
<1>1. CASE r = requested /\ total = Total(cart)
  <2>1. timer' = timer /\ redemption' = redemption  BY <1>1 DEF RedemptionEffect
  <2> QED  BY <2>1 DEF ShownOK
<1>2. CASE ~(r = requested /\ total = Total(cart))
  <2>1. /\ timer' = (r > 0 /\ total > 0)
        /\ redemption' = IF r > 0 /\ total > 0 THEN redemption ELSE NoQuote
    BY <1>2 DEF RedemptionEffect
  <2>2. timer' \in BOOLEAN  BY <2>1
  <2>3. redemption' = redemption \/ redemption' = NoQuote  BY <2>1
  <2>4. CASE redemption' = redemption  BY <2>2, <2>4 DEF ShownOK
  <2>5. CASE redemption' = NoQuote
    <3>1. redemption'.asked = NoQuote.asked /\ redemption'.allowed = NoQuote.allowed
      BY <2>5, Zenon
    <3> QED  BY <2>2, <3>1, NoQuoteIs
  <2> QED  BY <2>3, <2>4, <2>5
<1> QED  BY <1>1, <1>2

-----------------------------------------------------------------------------
(* What the page and the customer do of their own.                              *)

LEMMA RetryLoadsKeeps == ASSUME CheckoutIInv, RetryLoads PROVE CheckoutIInv'
<1>0. ShownOK /\ Well(calls) /\ Ordered /\ Located /\ CapsOK  BY DEF CheckoutIInv
<1> USE DEF RetryLoads
<1>1. Well(calls)' /\ Undisturbed(calls')
  <2>1. Cardinality(IdleCalls(calls)) >= 3  BY DEF Room
  <2>2. NoCall.kind = "none"  BY DEF NoCall
  <2>3. calls' = LoadCalls(calls)  OBVIOUS
  <2>4. /\ Well(LoadCalls(calls))
        /\ \A c \in Places : LoadCalls(calls)[c] = calls[c]
              \/ (calls[c].kind = "none" /\ LoadCalls(calls)[c].kind \in {"cart", "addresses", "balance"})
    BY <1>0, <2>1, <2>2, LoadsAre
  <2>5. /\ Well(calls')
        /\ \A c \in Places : calls'[c] = calls[c]
              \/ (calls[c].kind = "none" /\ calls'[c].kind \in {"cart", "addresses", "balance"})
    BY <2>3, <2>4, Zenon
  <2> QED  BY <2>5 DEF Undisturbed, Well
<1>2. ShownOK'  BY <1>0 DEF ShownOK, form, wallet, server
<1>3. Ordered'  BY <1>0 DEF Ordered, server
<1>4. CapsOK' /\ Located'
  <2>1. UNCHANGED <<balance, cart, cap, addressId, step>>  BY DEF form, wallet
  <2> QED  BY <1>0, <1>1, <2>1, QuietKeeps
<1> QED  BY <1>1, <1>2, <1>3, <1>4 DEF CheckoutIInv

LEMMA TimerFiresKeeps == ASSUME CheckoutIInv, TimerFires PROVE CheckoutIInv'
<1>0. ShownOK /\ Well(calls) /\ Ordered /\ Located /\ CapsOK  BY DEF CheckoutIInv
<1> USE DEF TimerFires
<1>1. Well(calls)' /\ Undisturbed(calls')
  <2>1. requested \in -1 .. Points /\ requested >= 0 /\ Nowhere \in Anywhere \union {Nowhere}
    BY <1>0, CheckoutAssumption DEF ShownOK
  <2>2. calls' = Send(calls, Call("points", Nowhere, requested)) /\ Room(1)  OBVIOUS
  <2>3. /\ Well(calls')
        /\ \A c \in Places : calls'[c] = calls[c] \/ (calls[c].kind = "none" /\ calls'[c].kind = "points")
    BY <1>0, <2>1, <2>2, Asks
  <2> QED  BY <2>3 DEF Undisturbed, Well
<1>2. ShownOK'  BY <1>0 DEF ShownOK, form, server
<1>3. Ordered'  BY <1>0 DEF Ordered, server
<1>4. CapsOK' /\ Located'
  <2>1. UNCHANGED <<balance, cart, cap, addressId, step>>  BY DEF form
  <2> QED  BY <1>0, <1>1, <2>1, QuietKeeps
<1> QED  BY <1>1, <1>2, <1>3, <1>4 DEF CheckoutIInv

\* The customer looks, picks and slides: no request goes out.
LEMMA HandsKeep ==
  ASSUME CheckoutIInv,
         \/ OpenForm \/ CloseForm \/ PointsLapse
         \/ \E a \in Anywhere : SelectAddress(a)
         \/ \E s \in Steps : GoTo(s)
         \/ \E p \in 0 .. Points : Slide(p)
  PROVE  CheckoutIInv'
<1>0. ShownOK /\ Well(calls) /\ Ordered /\ Located /\ CapsOK  BY DEF CheckoutIInv
<1>1. UNCHANGED <<calls, balance, cart, cap, orders>>
  BY DEF OpenForm, CloseForm, PointsLapse, SelectAddress, GoTo, Slide, form, wallet, server
<1>2. Well(calls)' /\ Undisturbed(calls')
  <2>1. Well(calls')  BY <1>0, <1>1
  <2> QED  BY <1>1, <2>1 DEF Undisturbed, Well
<1>3. Ordered'  BY <1>0, <1>1 DEF Ordered
<1>4. ShownOK'
  <2>1. CASE OpenForm  BY <1>0, <2>1, CheckoutAssumption DEF OpenForm, Move, ShownOK, wallet, server
  <2>2. CASE CloseForm  BY <1>0, <2>2 DEF CloseForm, ShownOK, wallet, server
  <2>3. CASE PointsLapse  BY <1>0, <2>3, CheckoutAssumption DEF PointsLapse, ShownOK, wallet, form
  <2>4. ASSUME NEW a \in Anywhere, SelectAddress(a) PROVE ShownOK'
    <3>1. moves' \in 0 .. MaxMoves  BY <1>0, <2>4, CheckoutAssumption DEF SelectAddress, Move, ShownOK
    <3>2. /\ addressId' = a /\ blocked' = FALSE
          /\ UNCHANGED <<step, cart, listed, adding, quote, balance, requested, cap, redemption, timer,
                        busy, error, saved, points, losses>>
      BY <2>4 DEF SelectAddress, wallet, server
    <3> QED  BY <1>0, <3>1, <3>2 DEF ShownOK
  <2>5. ASSUME NEW s \in Steps, GoTo(s) PROVE ShownOK'
    BY <1>0, <2>5 DEF GoTo, ShownOK, wallet, server, form
  <2>6. ASSUME NEW p \in 0 .. Points, Slide(p) PROVE ShownOK'
    <3>1. /\ timer' \in BOOLEAN
          /\ redemption'.asked \in -1 .. Points /\ redemption'.allowed \in 0 .. Least(Points, Half)
      BY <1>0, <2>6, RedemptionEffectIs DEF Slide
    <3>2. moves' \in 0 .. MaxMoves  BY <1>0, <2>6, CheckoutAssumption DEF Slide, Move, ShownOK
    <3> QED  BY <1>0, <2>6, <3>1, <3>2 DEF Slide, ShownOK, server, form
  <2> QED  BY <2>1, <2>2, <2>3, <2>4, <2>5, <2>6
<1>5. addressId' = addressId \/ addressId' \in Anywhere
  BY DEF OpenForm, CloseForm, PointsLapse, SelectAddress, GoTo, Slide, form
<1>6. step' \in Steps \ {"address"} => step \in Steps \ {"address"}
  BY DEF OpenForm, CloseForm, PointsLapse, SelectAddress, GoTo, Slide, Steps
<1>7. CapsOK' /\ Located'  BY <1>0, <1>1, <1>2, <1>5, <1>6, QuietKeeps
<1> QED  BY <1>2, <1>3, <1>4, <1>7 DEF CheckoutIInv

-----------------------------------------------------------------------------
(* The three handlers ask.                                                      *)

LEMMA HandlersKeep ==
  ASSUME CheckoutIInv, ConfirmAddress \/ PlaceOrder \/ (\E a \in Anywhere : SaveAddress(a))
  PROVE  CheckoutIInv'
<1>0. ShownOK /\ Well(calls) /\ Ordered /\ Located /\ CapsOK  BY DEF CheckoutIInv
<1>1. Nothing \in -1 .. Points  BY CheckoutAssumption DEF Nothing
<1>2. ShownOK'
  <2>1. /\ busy' = TRUE /\ error' = FALSE /\ blocked' \in {blocked, FALSE}
        /\ UNCHANGED <<step, cart, listed, addressId, adding, quote, balance, requested, cap, redemption,
                      timer, saved, points, moves, losses>>
    BY DEF ConfirmAddress, PlaceOrder, SaveAddress, Await, form, wallet, server
  <2> QED  BY <1>0, <2>1 DEF ShownOK
<1>3. Ordered'
  <2>1. orders' = orders  BY DEF ConfirmAddress, PlaceOrder, SaveAddress, server
  <2> QED  BY <1>0, <2>1 DEF Ordered
<1>4. UNCHANGED <<balance, cart, cap, addressId, step>>
  BY DEF ConfirmAddress, PlaceOrder, SaveAddress, form, wallet
<1>5. CASE ConfirmAddress
  <2>1. addressId \in Anywhere  BY <1>0, <1>5 DEF ConfirmAddress, ShownOK
  <2>2. calls' = Send(calls, Call("quote", addressId, Nothing)) /\ Room(1)
    BY <1>5 DEF ConfirmAddress, Await
  <2>3. /\ Well(calls')
        /\ \A c \in Places : calls'[c] = calls[c] \/ (calls[c].kind = "none" /\ calls'[c].kind = "quote")
    BY <1>0, <1>1, <2>1, <2>2, Asks
  <2>4. CapsOK'  BY <1>0, <1>4, <2>3, CapsKept
  <2>5. Located'  BY <1>4, <2>1 DEF Located
  <2>6. Well(calls)'  BY <2>3 DEF Well
  <2> QED  BY <1>2, <1>3, <2>4, <2>5, <2>6 DEF CheckoutIInv
<1>6. CASE PlaceOrder
  <2>1. addressId \in Anywhere  BY <1>0, <1>6 DEF PlaceOrder, Located, Steps
  <2>2. calls' = Send(calls, Call("place", addressId, redemption.allowed)) /\ Room(1)
    BY <1>6 DEF PlaceOrder, Await
  <2>3. redemption.allowed \in -1 .. Points /\ redemption.allowed >= 0
    BY <1>0, CheckoutAssumption DEF ShownOK, Least
  <2>4. /\ Well(calls')
        /\ \A c \in Places : calls'[c] = calls[c] \/ (calls[c].kind = "none" /\ calls'[c].kind = "place")
    BY <1>0, <2>1, <2>2, <2>3, Asks
  <2>5. Well(calls)' /\ Undisturbed(calls')  BY <2>4 DEF Well, Undisturbed
  <2>6. CapsOK' /\ Located'  BY <1>0, <1>4, <2>5, QuietKeeps
  <2> QED  BY <1>2, <1>3, <2>5, <2>6 DEF CheckoutIInv
<1>7. ASSUME NEW a \in Anywhere, SaveAddress(a) PROVE CheckoutIInv'
  <2>1. calls' = Send(calls, Call("save", a, Nothing)) /\ Room(1)
    BY <1>7 DEF SaveAddress, Await
  <2>2. /\ Well(calls')
        /\ \A c \in Places : calls'[c] = calls[c] \/ (calls[c].kind = "none" /\ calls'[c].kind = "save")
    BY <1>0, <1>1, <2>1, Asks
  <2>3. Well(calls)' /\ Undisturbed(calls')  BY <2>2 DEF Well, Undisturbed
  <2>4. CapsOK' /\ Located'  BY <1>0, <1>4, <2>3, QuietKeeps
  <2> QED  BY <1>2, <1>3, <2>3, <2>4 DEF CheckoutIInv
<1> QED  BY <1>5, <1>6, <1>7

-----------------------------------------------------------------------------
(* The answers that come, and those that do not.                                *)

\* The balance or the cart displayed is another, and the cap is asked for again.
LEMMA Recapped ==
  ASSUME ShownOK, Well(calls), CapsOK, Located,
         NEW c \in Places, calls[c].kind \in {"cart", "balance"},
         balance' \in 0 .. Points, calls' = CapEffect(Drop(c), balance', Total(cart')),
         UNCHANGED <<cap, addressId, step>>
  PROVE  Well(calls)' /\ CapsOK' /\ Located'
<1>1. /\ Well(Drop(c)) /\ IdleCalls(Drop(c)) # {}
      /\ \A d \in Places : Drop(c)[d] = calls[d]
                           \/ (calls[d].kind \in {"cart", "balance"} /\ Drop(c)[d].kind = "none")
  <2>1. NoCall.kind = "none"  BY DEF NoCall
  <2> QED  BY <2>1, Dropped
<1>2. Half \in Nat /\ Points \in Nat  BY CheckoutAssumption
<1>3. CASE balance' = balance /\ Total(cart') = Total(cart)
  <2>1. calls' = Drop(c)  BY <1>3 DEF CapEffect
  <2>2. /\ Well(calls')
        /\ \A d \in Places : calls'[d] = calls[d]
                             \/ (calls[d].kind \in {"cart", "balance"} /\ calls'[d].kind = "none")
    BY <1>1, <2>1, Zenon
  <2>3. QuoteOut' => QuoteOut  BY <2>2 DEF QuoteOut
  <2>4. Located'  BY <2>3 DEF Located
  <2>5. \A d \in Places : /\ calls'[d].kind = "cap" <=> calls[d].kind = "cap"
                          /\ calls[d].kind = "cap" => calls'[d] = calls[d]
    BY <2>2
  <2>6. CapOut' <=> CapOut  BY <2>5 DEF CapOut
  <2>7. cart' = "full" => cart = "full" \/ Half = 0  BY <1>2, <1>3 DEF Total
  <2>8. CapsOK'  BY <1>3, <2>5, <2>6, <2>7 DEF CapsOK
  <2> QED  BY <2>2, <2>4, <2>8 DEF Well
<1>4. CASE ~(balance' = balance /\ Total(cart') = Total(cart))
  <2>1. /\ Well(calls')
        /\ \A d \in Places : calls'[d].kind = "cap" /\ calls'[d].live => calls'[d].points = balance'
        /\ \A d \in Places : calls'[d].kind \in {Drop(c)[d].kind, "cap"}
        /\ balance' > 0 /\ Total(cart') > 0 => \E d \in Places : calls'[d].kind = "cap" /\ calls'[d].live
        /\ ~(balance' > 0 /\ Total(cart') > 0) => \A d \in Places : calls'[d].kind = Drop(c)[d].kind
    BY <1>1, <1>4, CapEffectIs
  <2>2. QuoteOut' => QuoteOut  BY <1>1, <2>1 DEF QuoteOut
  <2>3. Located'  BY <2>2 DEF Located
  <2>4. ASSUME Half = 0 PROVE cap'.asked = Nothing /\ \A d \in Places : calls'[d].kind # "cap"
    <3>1. Total(cart') = 0  BY <2>4 DEF Total
    <3>2. \A d \in Places : calls[d].kind # "cap" /\ cap.asked = Nothing  BY <2>4 DEF CapsOK
    <3>3. \A d \in Places : calls'[d].kind = Drop(c)[d].kind  BY <2>1, <3>1
    <3> QED  BY <1>1, <2>4, <3>2, <3>3 DEF CapsOK
  <2>5. ASSUME balance' > 0, cart' = "full" PROVE cap'.asked = Nothing \/ CapOut'
    <3>1. CASE Half = 0  BY <2>4, <3>1
    <3>2. CASE Half # 0
      <4>1. Total(cart') > 0  BY <1>2, <2>5, <3>2 DEF Total
      <4> QED  BY <2>1, <2>5, <4>1 DEF CapOut
    <3> QED  BY <3>1, <3>2
  <2>6. CapsOK'  BY <2>1, <2>4, <2>5 DEF CapsOK
  <2> QED  BY <2>1, <2>3, <2>6 DEF Well
<1> QED  BY <1>3, <1>4

LEMMA CartAnsweredKeeps ==
  ASSUME CheckoutIInv, NEW c \in Places, CartAnswered(c) PROVE CheckoutIInv'
<1>0. ShownOK /\ Well(calls) /\ Ordered /\ Located /\ CapsOK  BY DEF CheckoutIInv
<1>1. balance' = balance /\ UNCHANGED <<cap, addressId, step>>  BY DEF CartAnswered, form
<1>2. balance \in 0 .. Points  BY <1>0 DEF ShownOK
<1>3. Well(calls)' /\ CapsOK' /\ Located'  BY <1>0, <1>1, <1>2, Recapped DEF CartAnswered
<1>4. ShownOK'
  <2>1. /\ timer' \in BOOLEAN
        /\ redemption'.asked \in -1 .. Points /\ redemption'.allowed \in 0 .. Least(Points, Half)
    BY <1>0, RedemptionEffectIs DEF CartAnswered
  <2>2. cart' \in {"full", "empty"}  BY DEF CartAnswered
  <2> QED  BY <1>0, <2>1, <2>2 DEF CartAnswered, ShownOK, form, server
<1>5. Ordered'  BY <1>0 DEF Ordered, CartAnswered, server
<1> QED  BY <1>3, <1>4, <1>5 DEF CheckoutIInv

LEMMA BalanceKeeps ==
  ASSUME CheckoutIInv, NEW c \in Places, BalanceAnswered(c) \/ BalanceFails(c) PROVE CheckoutIInv'
<1>0. ShownOK /\ Well(calls) /\ Ordered /\ Located /\ CapsOK  BY DEF CheckoutIInv
<1>1. PICK b \in {points, 0} : /\ BalanceIs(c, b) /\ calls[c].kind = "balance"
                               /\ losses' \in {losses, losses + 1}
                               /\ losses' # losses => losses < MaxLost
  BY <1>0, CheckoutAssumption DEF BalanceAnswered, BalanceFails, ShownOK
<1>2. b \in 0 .. Points  BY <1>0, CheckoutAssumption DEF ShownOK
<1>3. balance' = b /\ cart' = cart /\ UNCHANGED <<cap, addressId, step>>
  BY <1>1 DEF BalanceIs, form
<1>4. calls' = CapEffect(Drop(c), balance', Total(cart'))
  <2>1. calls' = CapEffect(Drop(c), b, Total(cart))  BY <1>1 DEF BalanceIs
  <2> QED  BY <1>3, <2>1, Zenon
<1>5. Well(calls)' /\ CapsOK' /\ Located'
  <2>1. balance' \in 0 .. Points  BY <1>2, <1>3
  <2> QED  BY <1>0, <1>1, <1>3, <1>4, <2>1, Recapped
<1>6. ShownOK'
  <2>1. losses' \in 0 .. MaxLost  BY <1>0, <1>1, CheckoutAssumption DEF ShownOK
  <2> QED  BY <1>0, <1>1, <1>2, <2>1 DEF BalanceIs, ShownOK, form, server
<1>7. Ordered'  BY <1>0, <1>1 DEF Ordered, BalanceIs, server
<1> QED  BY <1>5, <1>6, <1>7 DEF CheckoutIInv

LEMMA CapAnswersKeep ==
  ASSUME CheckoutIInv, NEW c \in Places, CapAnswered(c) \/ CapFails(c) PROVE CheckoutIInv'
<1>0. ShownOK /\ Well(calls) /\ Ordered /\ Located /\ CapsOK  BY DEF CheckoutIInv
<1> DEFINE q0 == [asked |-> calls[c].points, allowed |-> Allowed(calls[c].points)]
<1>1. PICK q \in {q0, NoQuote} : CapIs(c, q) /\ calls[c].kind = "cap"
                                 /\ losses' \in {losses, losses + 1}
                                 /\ (losses' # losses => losses < MaxLost)
  BY <1>0, CheckoutAssumption DEF CapAnswered, CapFails, ShownOK
<1>2. calls[c].points \in 0 .. Points
  BY <1>0, <1>1, CheckoutAssumption DEF Well, Made, CallRow
<1>3. /\ q.asked \in -1 .. Points /\ q.allowed \in 0 .. Least(Points, Half)
      /\ q.asked \in {Nothing, calls[c].points}
  <2>1. CASE q = q0  BY <1>2, <2>1, <1>0, AllowedIs
  <2>2. CASE q = NoQuote
    <3>1. q.asked = NoQuote.asked /\ q.allowed = NoQuote.allowed  BY <2>2, Zenon
    <3> QED  BY <3>1, NoQuoteIs
  <2> QED  BY <2>1, <2>2
<1> HIDE DEF q0
<1>4. calls' = Drop(c) /\ cap' = (IF calls[c].live THEN q ELSE cap)  BY <1>1 DEF CapIs
<1>5. UNCHANGED <<step, cart, listed, addressId, adding, quote, blocked, balance, requested, redemption,
                  timer, busy, error, saved, orders, points, moves>>
  BY <1>1 DEF CapIs, form, server
<1>6. ShownOK'
  <2>1. losses' \in 0 .. MaxLost  BY <1>0, <1>1, CheckoutAssumption DEF ShownOK
  <2>2. cap'.asked \in -1 .. Points /\ cap'.allowed \in 0 .. Least(Points, Half)
    <3>1. CASE calls[c].live
      <4>1. cap' = q  BY <1>4, <3>1
      <4> QED  BY <1>3, <4>1
    <3>2. CASE ~calls[c].live
      <4>1. cap' = cap  BY <1>4, <3>2
      <4> QED  BY <1>0, <4>1 DEF ShownOK
    <3> QED  BY <3>1, <3>2
  <2> QED  BY <1>0, <1>5, <2>1, <2>2 DEF ShownOK
<1>7. Ordered'  BY <1>0, <1>5 DEF Ordered
<1>8. /\ Well(calls')
      /\ \A d \in Places : calls'[d] = IF d = c THEN NoCall ELSE calls[d]
  <2>1. /\ Well(Drop(c)) /\ Drop(c)[c] = NoCall
        /\ \A d \in Places \ {c} : Drop(c)[d] = calls[d]
    BY <1>0, Dropped
  <2>2. Well(calls') /\ calls'[c] = NoCall /\ \A d \in Places \ {c} : calls'[d] = calls[d]
    BY <1>4, <2>1, Zenon
  <2> QED  BY <2>2
<1>9. NoCall.kind = "none"  BY DEF NoCall
<1>10. Located'
  <2>1. QuoteOut' => QuoteOut  BY <1>8, <1>9 DEF QuoteOut
  <2> QED  BY <1>0, <1>5, <2>1 DEF Located
<1>11. CapsOK'
  <2>1. \A d \in Places : calls'[d].kind = "cap" => calls'[d] = calls[d]  BY <1>8, <1>9
  <2>2. Half # 0  BY <1>0, <1>1 DEF CapsOK
  <2>3. CASE calls[c].live
    <3>1. calls[c].points = balance  BY <1>0, <1>1, <2>3 DEF CapsOK
    <3>2. cap'.asked \in {Nothing, balance}
      <4>1. cap' = q  BY <1>4, <2>3
      <4> QED  BY <1>3, <3>1, <4>1
    <3> QED  BY <1>0, <1>5, <2>1, <2>2, <3>2 DEF CapsOK
  <2>4. CASE ~calls[c].live
    <3>1. cap' = cap  BY <1>4, <2>4
    <3>2. CapOut => CapOut'
      <4>1. ASSUME NEW d \in Places, calls[d].kind = "cap", calls[d].live PROVE CapOut'
        <5>1. calls'[d] = calls[d]  BY <1>8, <2>4, <4>1
        <5> QED  BY <4>1, <5>1 DEF CapOut
      <4> QED  BY <4>1 DEF CapOut
    <3> QED  BY <1>0, <1>5, <2>1, <2>2, <3>1, <3>2 DEF CapsOK
  <2> QED  BY <2>3, <2>4
<1>12. Well(calls)'  BY <1>8 DEF Well
<1> QED  BY <1>6, <1>7, <1>10, <1>11, <1>12 DEF CheckoutIInv

LEMMA PointsAnswersKeep ==
  ASSUME CheckoutIInv, NEW c \in Places, PointsAnswered(c) \/ PointsFail(c) PROVE CheckoutIInv'
<1>0. ShownOK /\ Well(calls) /\ Ordered /\ Located /\ CapsOK  BY DEF CheckoutIInv
<1> DEFINE q0 == [asked |-> calls[c].points, allowed |-> Allowed(calls[c].points)]
<1>1. PICK q \in {q0, NoQuote} : PointsAre(c, q) /\ calls[c].kind = "points"
                                 /\ losses' \in {losses, losses + 1}
                                 /\ (losses' # losses => losses < MaxLost)
  BY <1>0, CheckoutAssumption DEF PointsAnswered, PointsFail, ShownOK
<1>2. calls[c].points \in 0 .. Points
  BY <1>0, <1>1, CheckoutAssumption DEF Well, Made, CallRow
<1>3. q.asked \in -1 .. Points /\ q.allowed \in 0 .. Least(Points, Half)
  <2>1. CASE q = q0  BY <1>2, <2>1, <1>0, AllowedIs
  <2>2. CASE q = NoQuote
    <3>1. q.asked = NoQuote.asked /\ q.allowed = NoQuote.allowed  BY <2>2, Zenon
    <3> QED  BY <3>1, NoQuoteIs
  <2> QED  BY <2>1, <2>2
<1> HIDE DEF q0
<1>4. calls' = Drop(c) /\ redemption' = q  BY <1>1 DEF PointsAre
<1>5. UNCHANGED <<step, cart, listed, addressId, adding, quote, blocked, balance, requested, cap,
                  timer, busy, error, saved, orders, points, moves>>
  BY <1>1 DEF PointsAre, form, server
<1>6. ShownOK'
  <2>1. losses' \in 0 .. MaxLost  BY <1>0, <1>1, CheckoutAssumption DEF ShownOK
  <2>2. redemption'.asked \in -1 .. Points /\ redemption'.allowed \in 0 .. Least(Points, Half)
    BY <1>3, <1>4
  <2> QED  BY <1>0, <1>5, <2>1, <2>2 DEF ShownOK
<1>7. Ordered'  BY <1>0, <1>5 DEF Ordered
<1>8. Well(calls)' /\ Undisturbed(calls')
  <2>1. Well(Drop(c)) /\ Undisturbed(Drop(c))  BY <1>0, <1>1, DropQuiet
  <2>2. Well(calls') /\ Undisturbed(calls')  BY <1>4, <2>1, Zenon
  <2> QED  BY <2>2 DEF Well
<1>9. CapsOK' /\ Located'  BY <1>0, <1>5, <1>8, QuietKeeps
<1> QED  BY <1>6, <1>7, <1>8, <1>9 DEF CheckoutIInv

\* Answers, refusals and failures that leave the wallet alone, told apart by what becomes
\* of the request.
LEMMA DropsKeep ==
  ASSUME CheckoutIInv, NEW c \in Places,
         \/ AddressesAnswered(c) \/ PageLoadFails(c) \/ Forget(c) \/ SaveAnswered(c) \/ QuoteAnswered(c)
         \/ QuoteBlocked(c) \/ PlaceAnswered(c) \/ PlaceRefused(c) \/ (Lost(c) /\ calls[c].kind = "quote")
  PROVE  CheckoutIInv'
<1>0. ShownOK /\ Well(calls) /\ Ordered /\ Located /\ CapsOK  BY DEF CheckoutIInv
<1> USE DEF AddressesAnswered, PageLoadFails, Forget, SaveAnswered, QuoteAnswered, QuoteBlocked,
            PlaceAnswered, PlaceRefused, Lost
<1>1. calls[c].kind # "cap" /\ calls' = Drop(c)  OBVIOUS
<1>2. UNCHANGED <<cart, balance, requested, cap, redemption, timer, saved, orders, points, moves>>
  BY DEF wallet, server
<1>3. Well(calls)' /\ Undisturbed(calls')
  <2>1. Well(Drop(c)) /\ Undisturbed(Drop(c))  BY <1>0, <1>1, DropQuiet
  <2>2. Well(calls') /\ Undisturbed(calls')  BY <1>1, <2>1, Zenon
  <2> QED  BY <2>2 DEF Well
<1>4. calls[c].kind \in {"save", "quote", "place"} => calls[c].arg \in Anywhere
  BY <1>0 DEF Well, Made
<1>5. addressId' = addressId \/ addressId' \in Anywhere
  <2>1. CASE AddressesAnswered(c)
    <3>1. saved \in SUBSET Anywhere  BY <1>0 DEF ShownOK
    <3>2. Preferred \in Anywhere  BY CheckoutAssumption DEF Anywhere
    <3>3. saved \cap New # {} => (CHOOSE n \in saved \cap New : TRUE) \in saved \cap New  OBVIOUS
    <3> QED  BY <2>1, <3>1, <3>2, <3>3
  <2>2. CASE SaveAnswered(c)  BY <1>4, <2>2
  <2>3. CASE ~AddressesAnswered(c) /\ ~SaveAnswered(c)  BY <2>3 DEF form
  <2> QED  BY <2>1, <2>2, <2>3
<1>6. step' \in Steps \ {"address"} => step \in Steps \ {"address"} \/ QuoteOut
  BY <1>0 DEF QuoteOut, form, Steps
<1>7. CapsOK' /\ Located'  BY <1>0, <1>2, <1>3, <1>5, <1>6, QuietKeeps
<1>8. Ordered'  BY <1>0, <1>2 DEF Ordered
<1>9. ShownOK'
  <2>1. losses' \in 0 .. MaxLost
    <3>1. losses' = losses \/ (losses < MaxLost /\ losses' = losses + 1)  OBVIOUS
    <3> QED  BY <1>0, <3>1, CheckoutAssumption DEF ShownOK
  <2>2. addressId' \in Anywhere \union {Nowhere}  BY <1>0, <1>5 DEF ShownOK
  <2>3. listed' \in SUBSET Anywhere
    <3>1. listed' = listed \/ listed' = saved \/ (SaveAnswered(c) /\ listed' = listed \union {calls[c].arg})
      BY DEF form
    <3> QED  BY <1>0, <1>4, <3>1 DEF ShownOK
  <2>4. quote' \in Anywhere \union {Nowhere}
    <3>1. quote' = quote \/ (QuoteAnswered(c) /\ quote' = calls[c].arg)  BY DEF form
    <3> QED  BY <1>0, <1>4, <3>1 DEF ShownOK
  <2>5. step' \in Steps \union {"left"}  BY <1>0 DEF ShownOK, Steps
  <2>6. adding' \in BOOLEAN /\ blocked' \in BOOLEAN
    <3>1. adding' \in {adding, FALSE} /\ blocked' \in {blocked, TRUE, FALSE}  BY DEF form
    <3> QED  BY <1>0, <3>1 DEF ShownOK
  <2>7. busy' \in BOOLEAN /\ error' \in BOOLEAN
    <3>1. busy' \in {busy, FALSE} /\ error' \in {error, TRUE}  BY DEF Rejected
    <3> QED  BY <1>0, <3>1 DEF ShownOK
  <2> HIDE DEF AddressesAnswered, PageLoadFails, Forget, SaveAnswered, QuoteAnswered, QuoteBlocked,
               PlaceAnswered, PlaceRefused, Lost
  <2> QED  BY <1>0, <1>2, <2>1, <2>2, <2>3, <2>4, <2>5, <2>6, <2>7 DEF ShownOK
<1> QED  BY <1>3, <1>7, <1>8, <1>9 DEF CheckoutIInv

\* A request that stays out, carried out or no longer listened to.
LEMMA StayersKeep ==
  ASSUME CheckoutIInv, NEW c \in Places, calls[c].kind \in {"save", "place"},
         \/ \E s \in {"served", "refused"} : calls' = [calls EXCEPT ![c].stage = s]
         \/ calls' = [calls EXCEPT ![c].live = FALSE],
         UNCHANGED <<balance, cart, cap, addressId, step>>
  PROVE  Well(calls)' /\ CapsOK' /\ Located'
<1>0. ShownOK /\ Well(calls) /\ Ordered /\ Located /\ CapsOK  BY DEF CheckoutIInv
<1>1. calls[c].stage # "none"
  <2>1. NoCall.kind = "none"  BY DEF NoCall
  <2> QED  BY <1>0, <2>1 DEF Well, Made
<1>2. /\ Well(calls') /\ calls'[c].kind = calls[c].kind
      /\ \A d \in Places \ {c} : calls'[d] = calls[d]
  BY <1>0, <1>1, Staged, Unheard
<1>3. Well(calls)' /\ Undisturbed(calls')  BY <1>2 DEF Well, Undisturbed
<1> QED  BY <1>0, <1>3, QuietKeeps

LEMMA SaveServedKeeps ==
  ASSUME CheckoutIInv, NEW c \in Places, SaveServed(c) PROVE CheckoutIInv'
<1>0. ShownOK /\ Well(calls) /\ Ordered /\ Located /\ CapsOK  BY DEF CheckoutIInv
<1>1. /\ calls' = [calls EXCEPT ![c].stage = "served"] /\ calls[c].kind = "save"
      /\ UNCHANGED <<step, cart, listed, addressId, adding, quote, blocked, balance, requested, cap,
                    redemption, timer, busy, error, orders, points, moves, losses>>
      /\ saved' = saved \union {calls[c].arg}
  BY DEF SaveServed, form, wallet
<1>2. Well(calls)' /\ CapsOK' /\ Located'  BY <1>1, StayersKeep
<1>3. calls[c].arg \in Anywhere  BY <1>0, <1>1 DEF Well, Made
<1>4. saved' \in SUBSET Anywhere  BY <1>0, <1>1, <1>3 DEF ShownOK
<1>5. ShownOK'  BY <1>0, <1>1, <1>4 DEF ShownOK
<1>6. Ordered'  BY <1>0, <1>1 DEF Ordered
<1> QED  BY <1>2, <1>5, <1>6 DEF CheckoutIInv

LEMMA LostKeeps ==
  ASSUME CheckoutIInv, NEW c \in Places, Lost(c), calls[c].kind # "quote" PROVE CheckoutIInv'
<1>0. ShownOK /\ Well(calls) /\ Ordered /\ Located /\ CapsOK  BY DEF CheckoutIInv
<1>1. /\ calls' = [calls EXCEPT ![c].live = FALSE] /\ calls[c].kind \in {"save", "place"}
      /\ losses < MaxLost /\ losses' = losses + 1 /\ error' = TRUE /\ busy' = FALSE
      /\ UNCHANGED <<step, cart, listed, addressId, adding, quote, blocked, balance, requested, cap,
                    redemption, timer, saved, orders, points, moves>>
  BY DEF Lost, Rejected, form, wallet, server
<1>2. Well(calls)' /\ CapsOK' /\ Located'  BY <1>1, StayersKeep
<1>3. losses' \in 0 .. MaxLost  BY <1>0, <1>1, CheckoutAssumption DEF ShownOK
<1>4. ShownOK'  BY <1>0, <1>1, <1>3 DEF ShownOK
<1>5. Ordered'  BY <1>0, <1>1 DEF Ordered
<1> QED  BY <1>2, <1>4, <1>5 DEF CheckoutIInv

\* An order is made only when the cart has none, and the points it takes are there.
LEMMA PlaceServedKeeps ==
  ASSUME CheckoutIInv, NEW c \in Places, PlaceServed(c) PROVE CheckoutIInv'
<1>0. ShownOK /\ Well(calls) /\ Ordered /\ Located /\ CapsOK  BY DEF CheckoutIInv
<1> DEFINE new == Order(calls[c], 1)
<1>1. PICK s \in {"served", "refused"}, made \in {{}, {new}} :
        Answers(c, s, made) /\ (made # {} => orders = {})
  BY DEF PlaceServed
<1>2. /\ calls' = [calls EXCEPT ![c].stage = s] /\ calls[c].kind = "place"
      /\ UNCHANGED <<step, cart, listed, addressId, adding, quote, blocked, balance, requested, cap,
                    redemption, timer, busy, error, saved, moves, losses>>
      /\ orders' = orders \union made
      /\ points' = IF orders' = orders THEN points ELSE points - Allowed(calls[c].points)
  BY <1>1 DEF Answers, PlaceServed, form, wallet
<1>3. Well(calls)' /\ CapsOK' /\ Located'  BY <1>2, StayersKeep
<1>4. calls[c].arg \in Anywhere /\ calls[c].points \in 0 .. Points
  BY <1>0, <1>2, CheckoutAssumption DEF Well, Made, CallRow
<1>5. /\ Allowed(calls[c].points) <= points /\ Allowed(calls[c].points) \in 0 .. Points
  BY <1>0, <1>4, AllowedIs
<1>6. new \in OrderRow
  <2>1. 1 \in 1 .. MaxCalls  BY CheckoutAssumption
  <2> QED  BY <1>4, <1>5, <2>1 DEF Order, OrderRow
<1> HIDE DEF new
<1>7. Ordered'
  <2>1. orders' = orders \/ (orders = {} /\ orders' = {new})  BY <1>1, <1>2
  <2> QED  BY <1>0, <1>6, <2>1 DEF Ordered
<1>8. points' \in 0 .. Points  BY <1>0, <1>2, <1>5, CheckoutAssumption DEF ShownOK
<1>9. ShownOK'  BY <1>0, <1>2, <1>8 DEF ShownOK
<1> QED  BY <1>3, <1>7, <1>9 DEF CheckoutIInv

-----------------------------------------------------------------------------
(* The theorems of CheckoutScreen.                                              *)

LEMMA CheckoutStep == ASSUME CheckoutIInv, CheckoutNext PROVE CheckoutIInv'
<1>1. CASE RetryLoads  BY <1>1, RetryLoadsKeeps
<1>2. CASE TimerFires  BY <1>2, TimerFiresKeeps
<1>3. CASE OpenForm \/ CloseForm \/ PointsLapse  BY <1>3, HandsKeep
<1>4. CASE ConfirmAddress \/ PlaceOrder  BY <1>4, HandlersKeep
<1>5. ASSUME NEW c \in Places, Reply(c) \/ Fault(c) PROVE CheckoutIInv'
  <2>1. CASE CartAnswered(c)  BY <2>1, CartAnsweredKeeps
  <2>2. CASE BalanceAnswered(c) \/ BalanceFails(c)  BY <2>2, BalanceKeeps
  <2>3. CASE CapAnswered(c) \/ CapFails(c)  BY <2>3, CapAnswersKeep
  <2>4. CASE PointsAnswered(c) \/ PointsFail(c)  BY <2>4, PointsAnswersKeep
  <2>5. CASE SaveServed(c)  BY <2>5, SaveServedKeeps
  <2>6. CASE PlaceServed(c)  BY <2>6, PlaceServedKeeps
  <2>7. CASE Lost(c)
    <3>1. CASE calls[c].kind = "quote"  BY <2>7, <3>1, DropsKeep
    <3>2. CASE calls[c].kind # "quote"  BY <2>7, <3>2, LostKeeps
    <3> QED  BY <3>1, <3>2
  <2>8. CASE \/ AddressesAnswered(c) \/ PageLoadFails(c) \/ Forget(c) \/ SaveAnswered(c)
             \/ QuoteAnswered(c) \/ QuoteBlocked(c) \/ PlaceAnswered(c) \/ PlaceRefused(c)
    BY <2>8, DropsKeep
  <2> QED  BY <1>5, <2>1, <2>2, <2>3, <2>4, <2>5, <2>6, <2>7, <2>8 DEF Reply, Fault
<1>6. ASSUME NEW a \in Anywhere, SelectAddress(a) PROVE CheckoutIInv'  BY <1>6, HandsKeep
<1>7. ASSUME NEW a \in Anywhere, SaveAddress(a) PROVE CheckoutIInv'  BY <1>7, HandlersKeep
<1>8. ASSUME NEW s \in Steps, GoTo(s) PROVE CheckoutIInv'  BY <1>8, HandsKeep
<1>9. ASSUME NEW p \in 0 .. Points, Slide(p) PROVE CheckoutIInv'  BY <1>9, HandsKeep
<1> QED
  BY <1>1, <1>2, <1>3, <1>4, <1>5, <1>6, <1>7, <1>8, <1>9 DEF CheckoutNext, Places

\* The invariant holds of every state the page and the server reach together.
THEOREM CheckoutInvariance == CheckoutSpec => []CheckoutIInv
<1>1. ASSUME CheckoutIInv, UNCHANGED checkoutVars PROVE CheckoutIInv'
  <2>1. UNCHANGED <<step, cart, listed, addressId, adding, quote, blocked, balance, requested, cap,
                    redemption, timer, busy, error, calls, saved, orders, points, moves, losses>>
    BY <1>1 DEF checkoutVars, form, wallet, server
  <2> QED
    BY <1>1, <2>1 DEF CheckoutIInv, ShownOK, Well, Ordered, Located, QuoteOut, CapsOK, CapOut
<1> QED  BY <1>1, CheckoutStart, CheckoutStep, PTL DEF CheckoutSpec

\* Requests, answers and what is displayed keep their types: no points are redeemed beyond
\* the balance or half of the order, and none are left below zero.
THEOREM CheckoutTypeCorrect == CheckoutSpec => []CheckoutTypeOK
<1>1. ASSUME CheckoutIInv PROVE CheckoutTypeOK
  <2>1. ShownOK /\ Well(calls) /\ Ordered  BY <1>1 DEF CheckoutIInv
  <2>2. orders \in SUBSET [address : Anywhere, points : 0 .. Points, try : 1 .. MaxCalls]
    BY <2>1 DEF Ordered, OrderRow
  <2>3. calls \in [1 .. MaxCalls ->
          [kind : {"none", "cart", "addresses", "balance", "cap", "points", "save", "quote", "place"},
           arg : Anywhere \union {Nowhere}, points : -1 .. Points,
           stage : {"none", "asked", "served", "refused"}, live : BOOLEAN]]
    BY <2>1 DEF Well, Places, CallRow
  <2>4. {adding, blocked, timer, busy, error} \subseteq BOOLEAN  BY <2>1 DEF ShownOK
  <2>5. \A q \in {cap, redemption} : q.asked \in -1 .. Points /\ q.allowed \in 0 .. Least(Points, Half)
    BY <2>1 DEF ShownOK
  <2>6. {balance, requested, points} \subseteq 0 .. Points  BY <2>1 DEF ShownOK
  <2>7. /\ step \in Steps \union {"left"} /\ cart \in {"none", "full", "empty"}
        /\ listed \subseteq Anywhere /\ {addressId, quote} \subseteq Anywhere \union {Nowhere}
        /\ saved \subseteq Anywhere /\ moves \in 0 .. MaxMoves /\ losses \in 0 .. MaxLost
    BY <2>1 DEF ShownOK
  <2> QED  BY <2>2, <2>3, <2>4, <2>5, <2>6, <2>7 DEF CheckoutTypeOK
<1> QED  BY <1>1, CheckoutInvariance, PTL

\* However the page, its retries and lost answers interleave, a cart becomes one order.
THEOREM CartIsOneOrder == CheckoutSpec => []OneOrder
<1>1. ASSUME CheckoutIInv PROVE OneOrder
  <2>1. CASE orders = {}
    <3>1. Cardinality(orders) = 0  BY <2>1, FS_EmptySet
    <3> QED  BY <3>1 DEF OneOrder
  <2>2. ASSUME NEW x, orders = {x} PROVE OneOrder
    <3>1. Cardinality(orders) = 1  BY <2>2, FS_Singleton
    <3> QED  BY <3>1 DEF OneOrder
  <2> QED  BY <1>1, <2>1, <2>2 DEF CheckoutIInv, Ordered
<1> QED  BY <1>1, CheckoutInvariance, PTL

\* The cap displayed belongs to the balance displayed, once no question for it is out.
THEOREM CapFollowsBalance == CheckoutSpec => []CapIsForTheBalance
<1>1. ASSUME CheckoutIInv PROVE CapIsForTheBalance
  BY <1>1 DEF CheckoutIInv, CapsOK, CapOut, CapIsForTheBalance, Places
<1> QED  BY <1>1, CheckoutInvariance, PTL

-----------------------------------------------------------------------------
(* The invariant of Screens, for every page whose row is coherent.              *)

Spots == 1 .. MaxLoads
Ops   == DOMAIN Pages[page].ops
LoadRec == [stage : {"none", "asked", "served"}, key : {1, 2}, snap : SUBSET Displayable,
            waiter : 0 .. MaxClicks, live : BOOLEAN]
ActRec == [stage : {"none", "asked", "served", "failing", "reloading", "done", "undone"},
           op : DOMAIN Pages[page].ops \union {"none"}, line : Lines,
           before : SUBSET Switches, snap : SUBSET Displayable]

\* A load that is out knows what the server has had, is waited for by one handler that
\* reloads, and asks for the filter chosen last unless its answer is not heeded any more.
LoadsOK ==
  \A l \in Spots : loads[l].stage # "none" =>
    /\ loads[l].snap \in SUBSET had
    /\ loads[l].waiter # 0 =>
         /\ acts[loads[l].waiter].stage = "reloading"
         /\ \A m \in Spots \ {l} : loads[m].stage # "none" => loads[m].waiter # loads[l].waiter
    /\ LoadRow.drops /\ loads[l].live => loads[l].key = key
    /\ ~LoadRow.drops => loads[l].live

\* What a switch that fails puts back was on at the server, unless it is contested.
CopyOK(a) ==
  \A x \in acts[a].before \ contested : OpOf(a).paints = "list" \/ x = Mine(a) => x \in had

\* What an answered operation changed the server had, and what came with the answer too.
ActOK(a) ==
  /\ acts[a].op \in Ops
  /\ acts[a].snap \in SUBSET had
  /\ acts[a].stage = "served" => IF IsSwitch(acts[a].op) THEN Wants(a) => Mine(a) \in had ELSE a \in had
  /\ acts[a].stage = "reloading" => ~IsSwitch(acts[a].op)
  /\ acts[a].stage \in {"asked", "served", "failing"} /\ IsSwitch(acts[a].op) => CopyOK(a)
ActsOK == \A a \in Clicks : acts[a].stage # "none" => ActOK(a)

HadOK == stored \in SUBSET had

\* What is displayed the server had, or is asked for; but for contested switches.
AsksOn(a, x) == UnderWay(a) /\ IsSwitch(acts[a].op) /\ x = Mine(a) /\ Wants(a)
Claimed == \A x \in data.acts \ contested : x \in had \/ \E a \in Clicks : AsksOn(a, x)

\* An exclusive slot is marked while an operation of it is out, and by that one only.
Alone(a) ==
  Exclusive(OpOf(a).slot) =>
    /\ slots[OpOf(a).slot] = <<"on", 0>>
    /\ \A b \in Clicks \ {a} : UnderWay(b) => OpOf(b).slot # OpOf(a).slot
OnceOut == \A a \in Clicks : UnderWay(a) => Alone(a)

\* A load is out whose answer will be displayed.
LiveOut == \E l \in Spots : loads[l].stage # "none" /\ loads[l].live

\* A list of another filter is displayed only while a load that replaces it is out.
Current == LoadRow.drops /\ data.loaded => data.key = key \/ (LoadRow.mute /\ LiveOut)

\* A slot is held by an operation that is out, or by one that left the page with it.
Holds(a, s) ==
  /\ acts[a].stage # "none" /\ OpOf(a).slot = s /\ OpOf(a).mark # "no"
  /\ UnderWay(a) \/ (acts[a].stage = "done" /\ OpOf(a).frees = "failure")
SlotsHeld == \A s \in DOMAIN slots : slots[s] # Free => \E a \in Clicks : Holds(a, s)

\* What is not loaded is reported or on its way: by a load, or by an operation that took
\* the error away and will load or fail with an error of its own.
Renewing(a) ==
  acts[a].stage \in {"asked", "served", "failing"} /\ OpOf(a).then = "load" /\ OpOf(a).error = "page"
Reported ==
  /\ ~LoadRow.loads /\ ~LoadRow.mute => data.loaded
  /\ RenewsError /\ ~LoadRow.mute =>
       data.loaded \/ notice.page # 0 \/ LiveOut \/ \E a \in Clicks : Renewing(a)

ScreenIInv ==
  /\ ScreenTypeOK /\ LoadsOK /\ ActsOK /\ HadOK /\ Claimed /\ Current /\ SlotsHeld
  /\ OnceOut /\ Reported

-----------------------------------------------------------------------------
(* The helpers the actions are written with.                                    *)

\* The row of the page that is open.
LEMMA PageIs ==
  ASSUME ScreenTypeOK
  PROVE  /\ ~LoadRow.loads => LoadRow.blanks = "no" /\ ~LoadRow.drops
         /\ LoadRow.drops => ~LoadRow.single /\ (LoadRow.mute \/ LoadRow.blanks \in {"load", "choice"})
         /\ \A o \in Ops :
              /\ Op(o).error \in {"page", "own"} /\ Op(o).paints \in {"no", "item", "list"}
              /\ IsSwitch(o) => /\ Op(o).then \in {"replace", "note"}
                               /\ \A q \in Ops : IsSwitch(q) => q = o
BY PagesAssumption DEF ScreenTypeOK, PageIsCoherent, LoadRow, Ops, Op, IsSwitch

LEMMA UnloadedIs ==
  /\ Unloaded \in [loaded : BOOLEAN, key : {1, 2}, acts : SUBSET Displayable]
  /\ ~Unloaded.loaded /\ Unloaded.acts = {} /\ Unloaded.key = 1
BY DEF Unloaded

LEMMA NoLoadIs == NoLoad \in LoadRec /\ NoLoad.stage = "none"
BY ScreensAssumption DEF NoLoad, LoadRec

\* An operation goes on, and the others stay as they are.
LEMMA OnwardIs ==
  ASSUME ScreenTypeOK, NEW a \in Clicks, NEW st, NEW bf \in SUBSET Switches, NEW sn \in SUBSET Displayable,
         st \in {"none", "asked", "served", "failing", "reloading", "done", "undone"},
         NEW nx, nx = Onward(a, st, bf, sn)
  PROVE  /\ nx \in [Clicks -> ActRec]
         /\ nx[a].stage = st /\ nx[a].op = acts[a].op /\ nx[a].snap = sn
         /\ nx[a].before = bf
         /\ nx[a].line = acts[a].line
         /\ \A b \in Clicks \ {a} : nx[b] = acts[b]
<1> DEFINE x == [stage |-> st, op |-> acts[a].op, line |-> acts[a].line, before |-> bf, snap |-> sn]
<1>1. acts \in [Clicks -> ActRec]  BY DEF ScreenTypeOK, ActRec
<1>2. nx = [acts EXCEPT ![a] = x]  BY DEF Onward
<1>3. acts[a] \in ActRec  BY <1>1
<1>4. x \in ActRec /\ x.stage = st /\ x.op = acts[a].op /\ x.snap = sn /\ x.line = acts[a].line
      /\ x.before = bf
  BY <1>3 DEF ActRec
<1> HIDE DEF x
<1> QED  BY <1>1, <1>2, <1>4

\* A load starts in a place that is free, or none does because one is out.
Asked(ls, ms, k, w) ==
  /\ ms \in [Spots -> LoadRec]
  /\ \/ ms = ls /\ LoadRow.single /\ \E l \in Spots : ls[l].stage # "none"
     \/ \E n \in Spots :
          /\ ms[n].stage = "asked" /\ ms[n].key = k /\ ms[n].snap = {} /\ ms[n].waiter = w
          /\ ms[n].live
          /\ \A l \in Spots \ {n} : ms[l] = ls[l]

LEMMA AskIs ==
  ASSUME NEW ls \in [Spots -> LoadRec], \E l \in Spots : ls[l].stage = "none",
         NEW k \in {1, 2}, NEW w \in 0 .. MaxClicks
  PROVE  Asked(ls, Ask(ls, k, w), k, w)
<1> DEFINE free == {l \in DOMAIN ls : ls[l].stage = "none"}
           n == CHOOSE l \in free : \A m \in free : l <= m
           x == [stage |-> "asked", key |-> k, snap |-> {}, waiter |-> w, live |-> TRUE]
           ms == Ask(ls, k, w)
           out == \E l \in DOMAIN ls : ls[l].stage # "none"
<1>1. DOMAIN ls = Spots  OBVIOUS
<1>2. ms = IF LoadRow.single /\ out THEN ls ELSE [ls EXCEPT ![n] = x]  BY DEF Ask
<1>3. free # {} /\ free \in SUBSET Spots /\ free \in SUBSET Nat
  BY <1>1, ScreensAssumption DEF Spots
<1>4. \E l \in free : \A m \in free : l <= m  BY <1>3, LeastNatural
<1>5. n \in free  BY <1>4
<1>6. n \in Spots  BY <1>3, <1>5
<1>7. /\ x \in LoadRec /\ x.stage = "asked" /\ x.key = k /\ x.snap = {} /\ x.waiter = w /\ x.live
  BY DEF LoadRec
<1> HIDE DEF n, x, free, ms
<1>8. CASE LoadRow.single /\ out
  <2>1. ms = ls  BY <1>2, <1>8
  <2>2. Asked(ls, ms, k, w)  BY <1>1, <1>8, <2>1 DEF Asked
  <2> QED  BY <2>2 DEF ms
<1>9. CASE ~(LoadRow.single /\ out)
  <2>1. ms = [ls EXCEPT ![n] = x]  BY <1>2, <1>9
  <2>2. ms \in [Spots -> LoadRec] /\ ms[n] = x /\ \A l \in Spots \ {n} : ms[l] = ls[l]
    BY <1>6, <1>7, <2>1
  <2>3. Asked(ls, ms, k, w)  BY <1>6, <1>7, <2>2 DEF Asked
  <2> QED  BY <2>3 DEF ms
<1> QED  BY <1>8, <1>9

\* The step that starts a load: it is out, or one was, and it will be displayed.
LEMMA StartLoadIs ==
  ASSUME ScreenTypeOK, LoadsOK, NEW w \in 0 .. MaxClicks, StartLoad(key, w),
         page' = page, key' = key, had' = had,
         w # 0 => acts[w].stage = "served" /\ acts'[w].stage = "reloading",
         \A b \in Clicks : acts[b].stage = "reloading" => acts'[b].stage = "reloading"
  PROVE  /\ loads' \in [Spots -> LoadRec]
         /\ LoadsOK' /\ LiveOut'
         /\ data' \in {data, Unloaded} /\ (~LoadRow.loads => data' = data)
         /\ notice' \in {notice, [notice EXCEPT !.page = 0]}
<1>1. loads \in [Spots -> LoadRec] /\ key \in {1, 2}  BY DEF ScreenTypeOK, Spots, LoadRec
<1>2. \E l \in Spots : loads[l].stage = "none"  BY DEF StartLoad, CanAsk, Loading, Spots
<1>3. Asked(loads, loads', key, w)
  <2>1. loads' = Ask(loads, key, w)  BY DEF StartLoad
  <2>2. Asked(loads, Ask(loads, key, w), key, w)  BY <1>1, <1>2, AskIs
  <2> QED  BY <2>1, <2>2, Zenon
<1> USE DEF Asked
<1>4. LoadRow' = LoadRow  BY DEF LoadRow
<1>5. \A l \in Spots : loads[l].waiter \in 0 .. MaxClicks  BY <1>1 DEF LoadRec
<1>6. \A l \in Spots : loads[l].waiter # 0 => loads[l].waiter \in Clicks
  BY <1>5, ScreensAssumption DEF Clicks
<1>7. LoadsOK'
  <2>1. CASE loads' = loads  BY <1>4, <1>6, <2>1 DEF LoadsOK
  <2>2. ASSUME NEW n \in Spots, loads'[n].stage = "asked", loads'[n].key = key, loads'[n].snap = {},
               loads'[n].waiter = w, loads'[n].live, \A l \in Spots \ {n} : loads'[l] = loads[l]
        PROVE  LoadsOK'
    <3>1. \A l \in Spots : loads[l].stage # "none" /\ loads[l].waiter # 0 => loads[l].waiter # w
      BY DEF LoadsOK
    <3> QED  BY <1>4, <1>6, <2>2, <3>1 DEF LoadsOK
  <2> QED  BY <1>3, <2>1, <2>2
<1>8. LiveOut'
  <2>1. CASE loads' = loads /\ LoadRow.single /\ \E l \in Spots : loads[l].stage # "none"
    BY <2>1, PageIs DEF LoadsOK, LiveOut
  <2>2. CASE \E n \in Spots : loads'[n].stage = "asked" /\ loads'[n].live
    BY <2>2 DEF LiveOut
  <2> QED  BY <1>3, <2>1, <2>2
<1>9. data' \in {data, Unloaded} /\ (~LoadRow.loads => data' = data)
  BY PageIs DEF StartLoad, Blanked
<1>10. notice' \in {notice, [notice EXCEPT !.page = 0]}  BY DEF StartLoad, Hushed
<1> QED  BY <1>3, <1>7, <1>8, <1>9, <1>10

DataRec   == [loaded : BOOLEAN, key : {1, 2}, acts : SUBSET Displayable]
NoticeRec == [page : 0 .. LoadFailed, own : 0 .. LoadFailed]

LEMMA TypeIs ==
  ASSUME ScreenTypeOK
  PROVE  /\ page \in DOMAIN Pages /\ open \in BOOLEAN /\ key \in {1, 2}
         /\ data \in DataRec /\ notice \in NoticeRec
         /\ acts \in [Clicks -> ActRec] /\ loads \in [Spots -> LoadRec]
         /\ stored \in SUBSET Displayable /\ had \in SUBSET Displayable /\ contested \in SUBSET Switches
         /\ faults \in 0 .. MaxFaults
         /\ DOMAIN slots = {Op(o).slot : o \in Ops}
BY DEF ScreenTypeOK, DataRec, NoticeRec, ActRec, Spots, LoadRec, Ops

\* The page stays what it is, and so do its rows.
LEMMA TypeAgain ==
  ASSUME ScreenTypeOK, page' = page, open' \in BOOLEAN, key' \in {1, 2},
         data' \in DataRec, notice' \in NoticeRec, DOMAIN slots' = DOMAIN slots,
         acts' \in [Clicks -> ActRec], loads' \in [Spots -> LoadRec],
         stored' \in SUBSET Displayable, had' \in SUBSET Displayable, contested' \in SUBSET Switches,
         faults' \in 0 .. MaxFaults
  PROVE  ScreenTypeOK'
BY DEF ScreenTypeOK, DataRec, NoticeRec, ActRec, Spots, LoadRec, Op

\* The error of a page is put up or taken away.
PutUp(n, m, e, v) ==
  /\ m \in NoticeRec /\ m[e] = v
  /\ e = "page" => m.page = v
  /\ e = "own" => m.page = n.page

LEMMA NoticeIs ==
  ASSUME NEW n \in NoticeRec, NEW e \in {"page", "own"}, NEW v \in 0 .. LoadFailed
  PROVE  PutUp(n, [n EXCEPT ![e] = v], e, v)
BY DEF NoticeRec, PutUp

LEMMA HushedIs ==
  ASSUME NEW n \in NoticeRec, NEW m \in {n, [n EXCEPT !.page = 0]}
  PROVE  m \in NoticeRec
BY ScreensAssumption DEF NoticeRec, LoadFailed

\* A step that leaves the operations, the slots and what is stored alone, and displays
\* what it did or nothing.
LEMMA OthersKept ==
  ASSUME ScreenIInv, UNCHANGED <<page, slots, acts, stored, had, contested>>, data' \in {data, Unloaded}
  PROVE  ActsOK' /\ HadOK' /\ Claimed' /\ SlotsHeld' /\ OnceOut'
<1>0. ActsOK /\ HadOK /\ Claimed /\ SlotsHeld /\ OnceOut  BY DEF ScreenIInv
<1>1. ActsOK' /\ HadOK'
  BY <1>0 DEF ActsOK, ActOK, HadOK, Ops, IsSwitch, Op, OpOf, Wants, Mine, CopyOK
<1>2. Claimed'
  <2>1. data'.acts \in {data.acts, {}}  BY UnloadedIs
  <2> QED  BY <1>0, <2>1 DEF Claimed, AsksOn, UnderWay, IsSwitch, Op, Mine, Wants
<1>3. SlotsHeld'  BY <1>0 DEF SlotsHeld, Holds, UnderWay, OpOf, Op
<1>4. OnceOut'  BY <1>0 DEF OnceOut, Alone, Exclusive, UnderWay, OpOf, Op, View
<1> QED  BY <1>1, <1>2, <1>3, <1>4

\* A request for a switch to be on that is left alone still asks for it.
LEMMA StillAsks ==
  ASSUME page' = page, NEW b \in Clicks, acts'[b] = acts[b], NEW x, AsksOn(b, x)
  PROVE  AsksOn(b, x)'
BY DEF AsksOn, UnderWay, IsSwitch, Op, Mine, Wants

\* A step of one operation that is out: it stays out with its slot, or ends and frees it.
LEMMA OnceKept ==
  ASSUME ScreenIInv, page' = page, NEW a \in Clicks, UnderWay(a), acts'[a].op = acts[a].op,
         \A b \in Clicks \ {a} : acts'[b] = acts[b],
         \/ slots' = slots
         \/ slots' = [slots EXCEPT ![OpOf(a).slot] = Free] /\ ~UnderWay(a)'
  PROVE  OnceOut'
<1>0. ScreenTypeOK /\ OnceOut  BY DEF ScreenIInv
<1>1. \A b \in Clicks : OpOf(b)' = OpOf(b)  BY DEF OpOf, Op
<1>2. \A b \in Clicks \ {a} : UnderWay(b)' <=> UnderWay(b)  BY DEF UnderWay
<1>3. \A s : Exclusive(s)' <=> Exclusive(s)  BY DEF Exclusive, Op, View
<1>4. ASSUME NEW b \in Clicks, UnderWay(b)', Exclusive(OpOf(b).slot)
      PROVE  /\ slots'[OpOf(b).slot] = <<"on", 0>>
             /\ \A d \in Clicks \ {b} : UnderWay(d)' => OpOf(d).slot # OpOf(b).slot
  <2>1. UnderWay(b)  BY <1>2, <1>4
  <2>2. /\ slots[OpOf(b).slot] = <<"on", 0>>
        /\ \A d \in Clicks \ {b} : UnderWay(d) => OpOf(d).slot # OpOf(b).slot
    BY <1>0, <1>4, <2>1 DEF OnceOut, Alone
  <2>3. slots'[OpOf(b).slot] = slots[OpOf(b).slot]
    <3>1. CASE slots' = slots  BY <3>1
    <3>2. CASE slots' = [slots EXCEPT ![OpOf(a).slot] = Free] /\ ~UnderWay(a)'
      <4>1. b # a  BY <1>4, <3>2
      <4>2. OpOf(a).slot # OpOf(b).slot  BY <2>2, <4>1
      <4> QED  BY <3>2, <4>2
    <3> QED  BY <3>1, <3>2
  <2>4. \A d \in Clicks : UnderWay(d)' => UnderWay(d)  BY <1>2
  <2> QED  BY <2>2, <2>3, <2>4
<1> QED  BY <1>1, <1>3, <1>4 DEF OnceOut, Alone

\* A load is out that will be displayed: what it replaces may stay for a while.
LEMMA AwaitedIsReported ==
  ASSUME ScreenIInv, page' = page, key' = key, LiveOut',
         data' \in {data, Unloaded}, ~LoadRow.loads => data' = data
  PROVE  Current' /\ Reported'
<1>0. Current /\ Reported  BY DEF ScreenIInv
<1>1. LoadRow' = LoadRow  BY DEF LoadRow
<1>2. Current'  BY <1>0, <1>1, UnloadedIs DEF Current
<1>3. Reported'  BY <1>0, <1>1 DEF Reported
<1> QED  BY <1>2, <1>3

-----------------------------------------------------------------------------
(* The loads.                                                                   *)

LEMMA AskAgainKeeps == ASSUME ScreenIInv, Retry \/ Poll PROVE ScreenIInv'
<1>0. ScreenTypeOK /\ LoadsOK  BY DEF ScreenIInv
<1>1. StartLoad(key, 0) /\ UNCHANGED <<page, open, key, slots, acts, stored, had, contested, faults>>
  BY DEF Retry, Poll
<1>2. /\ loads' \in [Spots -> LoadRec]
      /\ LoadsOK' /\ LiveOut'
      /\ data' \in {data, Unloaded} /\ (~LoadRow.loads => data' = data)
      /\ notice' \in {notice, [notice EXCEPT !.page = 0]}
  <2>1. 0 \in 0 .. MaxClicks  BY ScreensAssumption
  <2> QED  BY <1>0, <1>1, <2>1, StartLoadIs
<1>3. ScreenTypeOK'
  <2>1. data' \in DataRec  BY <1>0, <1>2, TypeIs, UnloadedIs DEF DataRec
  <2>2. notice' \in NoticeRec  BY <1>0, <1>2, TypeIs, HushedIs
  <2> QED  BY <1>0, <1>1, <1>2, <2>1, <2>2, TypeIs, TypeAgain
<1>4. ActsOK' /\ HadOK' /\ Claimed' /\ SlotsHeld' /\ OnceOut'  BY <1>1, <1>2, OthersKept
<1>5. Current' /\ Reported'  BY <1>1, <1>2, AwaitedIsReported
<1> QED  BY <1>2, <1>3, <1>4, <1>5 DEF ScreenIInv

LEMMA ChooseKeeps == ASSUME ScreenIInv, NEW k \in {1, 2}, Choose(k) PROVE ScreenIInv'
<1>0. ScreenTypeOK /\ LoadsOK  BY DEF ScreenIInv
<1> DEFINE dead(x) == [x EXCEPT !.live = FALSE]
           ls == [l \in DOMAIN loads |-> IF LoadRow.drops THEN dead(loads[l]) ELSE loads[l]]
<1>1. /\ key' = k /\ loads' = Ask(ls, k, 0) /\ CanAsk
      /\ UNCHANGED <<page, open, slots, acts, stored, had, contested, faults>>
      /\ data' = IF LoadRow.drops /\ Loading # {} THEN Unloaded ELSE Blanked(data, {"load", "choice"})
      /\ notice' = Hushed(notice)
  BY DEF Choose
<1>2. \A x \in LoadRec : /\ dead(x) \in LoadRec /\ dead(x).stage = x.stage /\ dead(x).snap = x.snap
                         /\ dead(x).waiter = x.waiter /\ ~dead(x).live
  BY DEF LoadRec
<1> HIDE DEF dead
<1>3. loads \in [Spots -> LoadRec]  BY <1>0, TypeIs
<1>4. ls = [l \in Spots |-> IF LoadRow.drops THEN dead(loads[l]) ELSE loads[l]]  BY <1>3
<1> HIDE DEF ls
<1>5. /\ ls \in [Spots -> LoadRec]
      /\ \A l \in Spots : /\ ls[l].stage = loads[l].stage /\ ls[l].snap = loads[l].snap
                          /\ ls[l].waiter = loads[l].waiter
                          /\ LoadRow.drops => ~ls[l].live
                          /\ ~LoadRow.drops => ls[l] = loads[l]
  BY <1>2, <1>3, <1>4
<1>6. Asked(ls, loads', k, 0)
  <2>1. \E l \in Spots : ls[l].stage = "none"  BY <1>1, <1>5 DEF CanAsk, Loading, Spots
  <2>2. 0 \in 0 .. MaxClicks  BY ScreensAssumption
  <2>3. Asked(ls, Ask(ls, k, 0), k, 0)  BY <1>5, <2>1, <2>2, AskIs
  <2> QED  BY <1>1, <2>3, Zenon
<1>7. LoadRow' = LoadRow  BY <1>1 DEF LoadRow
<1>8. LiveOut'
  <2>1. CASE loads' = ls /\ LoadRow.single /\ \E l \in Spots : ls[l].stage # "none"
    <3>1. ~LoadRow.drops  BY <1>0, <2>1, PageIs
    <3> QED  BY <1>0, <1>5, <2>1, <3>1 DEF LoadsOK, LiveOut
  <2>2. CASE \E n \in Spots : loads'[n].stage = "asked" /\ loads'[n].live
    BY <2>2 DEF LiveOut
  <2> QED  BY <1>6, <2>1, <2>2 DEF Asked
<1>9. LoadsOK'
  <2>1. \A l \in Spots : ls[l].stage # "none" =>
          /\ ls[l].snap \in SUBSET had
          /\ ls[l].waiter # 0 =>
               /\ acts[ls[l].waiter].stage = "reloading"
               /\ \A m \in Spots \ {l} : ls[m].stage # "none" => ls[m].waiter # ls[l].waiter
          /\ LoadRow.drops => ~ls[l].live
          /\ ~LoadRow.drops => ls[l].live
    BY <1>0, <1>5 DEF LoadsOK
  <2>2. \A l \in Spots : loads'[l].stage # "none" =>
          /\ loads'[l].snap \in SUBSET had
          /\ loads'[l].waiter # 0 =>
               /\ acts[loads'[l].waiter].stage = "reloading"
               /\ \A m \in Spots \ {l} : loads'[m].stage # "none" => loads'[m].waiter # loads'[l].waiter
          /\ LoadRow.drops /\ loads'[l].live => loads'[l].key = k
          /\ ~LoadRow.drops => loads'[l].live
    BY <1>6, <2>1 DEF Asked
  <2> QED  BY <1>1, <1>7, <2>2 DEF LoadsOK
<1>10. data' \in {data, Unloaded} /\ (~LoadRow.loads => data' = data)
  <2>1. ~LoadRow.loads => LoadRow.blanks = "no" /\ ~LoadRow.drops  BY <1>0, PageIs
  <2> QED  BY <1>1, <2>1 DEF Blanked
<1>11. ScreenTypeOK'
  <2>1. data' \in DataRec  BY <1>0, <1>10, TypeIs, UnloadedIs DEF DataRec
  <2>2. notice' \in {notice, [notice EXCEPT !.page = 0]}  BY <1>1 DEF Hushed
  <2>3. notice' \in NoticeRec  BY <1>0, <2>2, TypeIs, HushedIs
  <2>4. loads' \in [Spots -> LoadRec]  BY <1>6 DEF Asked
  <2> QED  BY <1>0, <1>1, <2>1, <2>3, <2>4, TypeIs, TypeAgain
<1>12. ActsOK' /\ HadOK' /\ Claimed' /\ SlotsHeld' /\ OnceOut'  BY <1>1, <1>10, OthersKept
<1>13. Current'
  <2>1. LoadRow.drops => LoadRow.mute \/ data' = Unloaded
    <3>1. LoadRow.drops => LoadRow.mute \/ LoadRow.blanks \in {"load", "choice"}  BY <1>0, PageIs
    <3> QED  BY <1>1, <3>1 DEF Blanked
  <2> QED  BY <1>7, <1>8, <2>1, UnloadedIs DEF Current
<1>14. Reported'  BY <1>7, <1>8, <1>10 DEF Reported, ScreenIInv
<1> QED  BY <1>9, <1>11, <1>12, <1>13, <1>14 DEF ScreenIInv

LEMMA LoadServedKeeps == ASSUME ScreenIInv, NEW l \in Spots, LoadServed(l) PROVE ScreenIInv'
<1>0. ScreenTypeOK /\ LoadsOK /\ HadOK /\ Current /\ Reported  BY DEF ScreenIInv
<1> DEFINE x == [stage |-> "served", key |-> loads[l].key, snap |-> stored,
                 waiter |-> loads[l].waiter, live |-> loads[l].live]
<1>1. /\ loads[l].stage = "asked" /\ loads' = [loads EXCEPT ![l] = x]
      /\ UNCHANGED <<page, open, key, data, notice, slots, acts, stored, had, contested, faults>>
  BY DEF LoadServed
<1>2. loads \in [Spots -> LoadRec] /\ stored \in SUBSET Displayable  BY <1>0, TypeIs
<1>3. /\ x \in LoadRec /\ x.stage = "served" /\ x.key = loads[l].key /\ x.snap = stored
      /\ x.waiter = loads[l].waiter /\ x.live = loads[l].live
  BY <1>2 DEF LoadRec
<1> HIDE DEF x
<1>4. loads' \in [Spots -> LoadRec] /\ loads'[l] = x /\ \A m \in Spots \ {l} : loads'[m] = loads[m]
  BY <1>1, <1>2, <1>3
<1>5. LoadRow' = LoadRow  BY <1>1 DEF LoadRow
<1>6. LoadsOK'  BY <1>0, <1>1, <1>3, <1>4, <1>5 DEF LoadsOK, HadOK
<1>7. LiveOut' <=> LiveOut  BY <1>1, <1>3, <1>4 DEF LiveOut
<1>8. ScreenTypeOK'  BY <1>0, <1>1, <1>4, TypeIs, TypeAgain
<1>9. ActsOK' /\ HadOK' /\ Claimed' /\ SlotsHeld' /\ OnceOut'  BY <1>1, OthersKept
<1>10. Current'  BY <1>0, <1>1, <1>5, <1>7 DEF Current
<1>11. Reported'  BY <1>0, <1>1, <1>5, <1>7 DEF Reported, RenewsError, Renewing, OpOf, Op, View
<1> QED  BY <1>6, <1>8, <1>9, <1>10, <1>11 DEF ScreenIInv

\* A load is over, and the handler that waited for it goes on to its finally.
LEMMA ResumeKeeps ==
  ASSUME ScreenIInv, NEW l \in Spots, loads[l].stage # "none", Resume(l),
         loads' = [loads EXCEPT ![l] = NoLoad], UNCHANGED <<page, key, stored, had, contested>>
  PROVE  /\ acts' \in [Clicks -> ActRec] /\ loads' \in [Spots -> LoadRec]
         /\ DOMAIN slots' = DOMAIN slots
         /\ LoadsOK' /\ ActsOK' /\ HadOK' /\ SlotsHeld' /\ OnceOut'
         /\ \A a \in Clicks : acts'[a] = acts[a] \/ (UnderWay(a) /\ ~IsSwitch(acts[a].op))
         /\ \A a \in Clicks : Renewing(a) => acts'[a] = acts[a]
         /\ \A m \in Spots \ {l} : loads'[m] = loads[m]
<1>0. ScreenTypeOK /\ LoadsOK /\ ActsOK /\ HadOK /\ SlotsHeld /\ OnceOut  BY DEF ScreenIInv
<1>1. acts \in [Clicks -> ActRec] /\ loads \in [Spots -> LoadRec]  BY <1>0, TypeIs
<1>2. loads' \in [Spots -> LoadRec] /\ loads'[l] = NoLoad /\ \A m \in Spots \ {l} : loads'[m] = loads[m]
  BY <1>1, NoLoadIs
<1>3. \A m \in Spots : loads'[m].stage # "none" => m # l  BY <1>2, NoLoadIs
<1>4. LoadRow' = LoadRow  BY DEF LoadRow
<1>5. \A m \in Spots : loads[m].waiter # 0 => loads[m].waiter \in Clicks
  <2>1. \A m \in Spots : loads[m].waiter \in 0 .. MaxClicks  BY <1>1 DEF LoadRec
  <2> QED  BY <2>1, ScreensAssumption DEF Clicks
<1>6. HadOK'  BY <1>0 DEF HadOK
<1> DEFINE a == loads[l].waiter
<1>7. CASE a = 0
  <2>1. acts' = acts /\ slots' = slots  BY <1>7 DEF Resume
  <2>2. LoadsOK'  BY <1>0, <1>2, <1>3, <1>4, <2>1 DEF LoadsOK
  <2>3. ActsOK'  BY <1>0, <2>1 DEF ActsOK, ActOK, Ops, IsSwitch, Op, OpOf, Wants, Mine, CopyOK
  <2>4. SlotsHeld'  BY <1>0, <2>1 DEF SlotsHeld, Holds, UnderWay, OpOf, Op
  <2>5. OnceOut'  BY <1>0, <2>1 DEF OnceOut, Alone, Exclusive, UnderWay, OpOf, Op, View
  <2> QED  BY <1>1, <1>2, <1>6, <2>1, <2>2, <2>3, <2>4, <2>5
<1>8. CASE a # 0
  <2>1. PICK w \in Clicks : w = loads[l].waiter  BY <1>5, <1>8
  <2>2. acts' = Ended(w, "done") /\ slots' = [slots EXCEPT ![OpOf(w).slot] = Free]
    BY <1>8, <2>1 DEF Resume
  <2>3. /\ acts[w].stage = "reloading"
        /\ \A m \in Spots \ {l} : loads[m].stage # "none" => loads[m].waiter # w
    BY <1>0, <1>8, <2>1 DEF LoadsOK
  <2>4. /\ acts' \in [Clicks -> ActRec]
        /\ acts'[w].stage = "done" /\ acts'[w].op = acts[w].op /\ acts'[w].snap = {}
        /\ \A b \in Clicks \ {w} : acts'[b] = acts[b]
    <3>1. {} \in SUBSET Switches /\ {} \in SUBSET Displayable  OBVIOUS
    <3>2. acts' = Onward(w, "done", {}, {})  BY <2>2 DEF Ended
    <3>3. "done" \in {"none", "asked", "served", "failing", "reloading", "done", "undone"}  OBVIOUS
    <3> QED  BY <1>0, <3>1, <3>2, <3>3, OnwardIs
  <2>5. ActOK(w)  BY <1>0, <2>2, <2>3 DEF ActsOK
  <2>6. LoadsOK'
    <3>1. ASSUME NEW m \in Spots, loads'[m].stage # "none"
          PROVE  /\ loads'[m] = loads[m]
                 /\ loads[m].waiter # 0 => acts'[loads[m].waiter] = acts[loads[m].waiter]
      <4>1. m # l /\ loads'[m] = loads[m]  BY <1>2, <1>3, <3>1
      <4>2. loads[m].waiter # w  BY <2>3, <3>1, <4>1
      <4> QED  BY <1>5, <2>4, <4>1, <4>2
    <3> QED  BY <1>0, <1>4, <3>1 DEF LoadsOK
  <2>7. ActsOK'
    <3>1. ActOK(w)'  BY <2>4, <2>5 DEF ActOK, Ops
    <3>2. ASSUME NEW b \in Clicks \ {w}, acts'[b].stage # "none" PROVE ActOK(b)'
      <4>1. acts'[b] = acts[b] /\ ActOK(b)  BY <1>0, <2>4, <3>2 DEF ActsOK
      <4> QED  BY <4>1 DEF ActOK, Ops, IsSwitch, Op, OpOf, Wants, Mine, CopyOK
    <3> QED  BY <3>1, <3>2 DEF ActsOK
  <2>8. SlotsHeld'
    <3>1. ASSUME NEW s \in DOMAIN slots, slots'[s] # Free PROVE \E b \in Clicks : Holds(b, s)'
      <4>1. s # OpOf(w).slot /\ slots[s] # Free  BY <2>2, <3>1
      <4>2. PICK b \in Clicks : Holds(b, s)  BY <1>0, <4>1 DEF SlotsHeld
      <4>3. acts'[b] = acts[b]  BY <2>4, <4>1, <4>2 DEF Holds
      <4> QED  BY <4>2, <4>3 DEF Holds, UnderWay, OpOf, Op
    <3>2. DOMAIN slots' = DOMAIN slots  BY <2>2
    <3> QED  BY <3>1, <3>2 DEF SlotsHeld
  <2>9. UnderWay(w) /\ ~UnderWay(w)' /\ ~IsSwitch(acts[w].op)
    BY <2>3, <2>4, <2>5 DEF UnderWay, ActOK
  <2>10. OnceOut'  BY <2>2, <2>4, <2>9, OnceKept
  <2>11. \A b \in Clicks : Renewing(b) => acts'[b] = acts[b]  BY <2>3, <2>4 DEF Renewing
  <2> QED  BY <1>2, <1>6, <2>2, <2>4, <2>6, <2>7, <2>8, <2>9, <2>10, <2>11
<1> QED  BY <1>7, <1>8

\* A load is over: what its answer puts on the page the server has had.
LEMMA StillClaimed ==
  ASSUME ScreenIInv, UNCHANGED <<page, had, contested>>,
         \A a \in Clicks : acts'[a] = acts[a] \/ (UnderWay(a) /\ ~IsSwitch(acts[a].op)),
         \A x \in data'.acts : x \in data.acts \/ x \in had
  PROVE  Claimed'
<1>1. Claimed  BY DEF ScreenIInv
<1>2. ASSUME NEW x \in data'.acts \ contested PROVE x \in had \/ \E b \in Clicks : AsksOn(b, x)'
  <2>1. x \in had \/ \E b \in Clicks : AsksOn(b, x)  BY <1>1, <1>2 DEF Claimed
  <2>2. ASSUME NEW b \in Clicks, AsksOn(b, x) PROVE AsksOn(b, x)'
    <3>1. acts'[b] = acts[b]  BY <2>2 DEF AsksOn
    <3> QED  BY <2>2, <3>1, StillAsks
  <2> QED  BY <2>1, <2>2
<1> QED  BY <1>2 DEF Claimed

LEMMA LoadAnsweredKeeps == ASSUME ScreenIInv, NEW l \in Spots, LoadAnswered(l) PROVE ScreenIInv'
<1>0. ScreenTypeOK /\ LoadsOK /\ Current /\ Reported  BY DEF ScreenIInv
<1>1. /\ loads[l].stage = "served" /\ loads' = [loads EXCEPT ![l] = NoLoad] /\ Resume(l)
      /\ UNCHANGED <<page, open, key, stored, had, contested, faults>>
  BY DEF LoadAnswered
<1>2. /\ acts' \in [Clicks -> ActRec] /\ loads' \in [Spots -> LoadRec]
      /\ DOMAIN slots' = DOMAIN slots
      /\ LoadsOK' /\ ActsOK' /\ HadOK' /\ SlotsHeld' /\ OnceOut'
      /\ \A a \in Clicks : acts'[a] = acts[a] \/ (UnderWay(a) /\ ~IsSwitch(acts[a].op))
      /\ \A a \in Clicks : Renewing(a) => acts'[a] = acts[a]
      /\ \A m \in Spots \ {l} : loads'[m] = loads[m]
  BY <1>1, ResumeKeeps
<1>3. LoadRow' = LoadRow  BY <1>1 DEF LoadRow
<1>4. loads \in [Spots -> LoadRec]  BY <1>0, TypeIs
<1>5. CASE loads[l].live
  <2>1. /\ data' = [loaded |-> TRUE, key |-> loads[l].key, acts |-> loads[l].snap]
        /\ notice' \in {notice, [notice EXCEPT !.page = 0]}
    BY <1>5 DEF LoadAnswered
  <2>2. data'.loaded /\ data'.key = loads[l].key /\ data'.acts = loads[l].snap /\ data' \in DataRec
    <3>1. loads[l] \in LoadRec  BY <1>4
    <3> QED  BY <2>1, <3>1 DEF LoadRec, DataRec
  <2>3. loads[l].snap \in SUBSET had  BY <1>0, <1>1 DEF LoadsOK
  <2>4. Claimed'  BY <1>1, <1>2, <2>2, <2>3, StillClaimed
  <2>5. Current'
    <3>1. LoadRow.drops => loads[l].key = key  BY <1>0, <1>1, <1>5 DEF LoadsOK
    <3> QED  BY <1>1, <1>3, <2>2, <3>1 DEF Current
  <2>6. Reported'  BY <2>2 DEF Reported
  <2>7. notice' \in NoticeRec  BY <1>0, <2>1, TypeIs, HushedIs
  <2>8. ScreenTypeOK'  BY <1>0, <1>1, <1>2, <2>2, <2>7, TypeIs, TypeAgain
  <2> QED  BY <1>2, <2>4, <2>5, <2>6, <2>8 DEF ScreenIInv
<1>6. CASE ~loads[l].live
  <2>1. data' = data /\ notice' = notice  BY <1>6 DEF LoadAnswered
  <2>2. LiveOut => LiveOut'  BY <1>2, <1>6 DEF LiveOut
  <2>3. Claimed'  BY <1>1, <1>2, <2>1, StillClaimed
  <2>4. Current'  BY <1>0, <1>1, <1>3, <2>1, <2>2 DEF Current
  <2>5. Reported'
    <3>1. \A a \in Clicks : Renewing(a) => Renewing(a)'  BY <1>1, <1>2 DEF Renewing, OpOf, Op
    <3>2. RenewsError' <=> RenewsError  BY <1>1 DEF RenewsError, View, LoadRow, Op
    <3> QED  BY <1>0, <1>3, <2>1, <2>2, <3>1, <3>2 DEF Reported
  <2>6. ScreenTypeOK'  BY <1>0, <1>1, <1>2, <2>1, TypeIs, TypeAgain
  <2> QED  BY <1>2, <2>3, <2>4, <2>5, <2>6 DEF ScreenIInv
<1> QED  BY <1>5, <1>6

LEMMA LoadFailsKeeps == ASSUME ScreenIInv, NEW l \in Spots, LoadFails(l) PROVE ScreenIInv'
<1>0. ScreenTypeOK /\ LoadsOK /\ Current /\ Reported  BY DEF ScreenIInv
<1>1. /\ loads[l].stage = "asked" /\ loads' = [loads EXCEPT ![l] = NoLoad] /\ Resume(l)
      /\ faults < MaxFaults /\ faults' = faults + 1
      /\ UNCHANGED <<page, open, key, stored, had, contested>>
  BY DEF LoadFails
<1>2. /\ acts' \in [Clicks -> ActRec] /\ loads' \in [Spots -> LoadRec]
      /\ DOMAIN slots' = DOMAIN slots
      /\ LoadsOK' /\ ActsOK' /\ HadOK' /\ SlotsHeld' /\ OnceOut'
      /\ \A a \in Clicks : acts'[a] = acts[a] \/ (UnderWay(a) /\ ~IsSwitch(acts[a].op))
      /\ \A a \in Clicks : Renewing(a) => acts'[a] = acts[a]
      /\ \A m \in Spots \ {l} : loads'[m] = loads[m]
  BY <1>1, ResumeKeeps
<1>3. LoadRow' = LoadRow /\ (RenewsError' <=> RenewsError)
  BY <1>1 DEF LoadRow, RenewsError, View, Op
<1>4. faults' \in 0 .. MaxFaults  BY <1>0, <1>1, TypeIs, ScreensAssumption
<1>5. \A a \in Clicks : Renewing(a) => Renewing(a)'  BY <1>1, <1>2 DEF Renewing, OpOf, Op
<1>6. data \in DataRec /\ notice \in NoticeRec
  BY <1>0, TypeIs DEF DataRec
<1>7. data' \in {data, Unloaded}  BY DEF LoadFails
<1>8. Claimed'
  <2>1. data'.acts \in {data.acts, {}}  BY <1>7, UnloadedIs
  <2> QED  BY <1>1, <1>2, <2>1, StillClaimed
<1>9. CASE ~loads[l].live
  <2>1. data' = data /\ notice' = notice  BY <1>9 DEF LoadFails
  <2>2. LiveOut => LiveOut'  BY <1>2, <1>9 DEF LiveOut
  <2>3. Current'  BY <1>0, <1>1, <1>3, <2>1, <2>2 DEF Current
  <2>4. Reported'  BY <1>0, <1>3, <1>5, <2>1, <2>2 DEF Reported
  <2>5. ScreenTypeOK'  BY <1>0, <1>1, <1>2, <1>4, <2>1, TypeIs, TypeAgain
  <2> QED  BY <1>2, <1>8, <2>3, <2>4, <2>5 DEF ScreenIInv
<1>10. CASE loads[l].live /\ LoadRow.mute
  <2>1. data' = Unloaded /\ notice' = notice  BY <1>10 DEF LoadFails
  <2>2. Current'  BY <2>1, UnloadedIs DEF Current
  <2>3. Reported'  BY <1>3, <1>10 DEF Reported
  <2>4. data' \in DataRec  BY <2>1, UnloadedIs DEF DataRec
  <2>5. ScreenTypeOK'  BY <1>0, <1>1, <1>2, <1>4, <2>1, <2>4, TypeIs, TypeAgain
  <2> QED  BY <1>2, <1>8, <2>2, <2>3, <2>5 DEF ScreenIInv
<1>11. CASE loads[l].live /\ ~LoadRow.mute
  <2>1. data' = data /\ notice' = [notice EXCEPT !.page = LoadFailed]  BY <1>11 DEF LoadFails
  <2>2. notice' \in NoticeRec /\ notice'.page = LoadFailed /\ LoadFailed # 0
    BY <1>6, <2>1, ScreensAssumption DEF NoticeRec, LoadFailed
  <2>3. Current'  BY <1>0, <1>1, <1>3, <1>11, <2>1 DEF Current
  <2>4. Reported'  BY <1>0, <1>3, <2>1, <2>2 DEF Reported
  <2>5. ScreenTypeOK'  BY <1>0, <1>1, <1>2, <1>4, <2>1, <2>2, TypeIs, TypeAgain
  <2> QED  BY <1>2, <1>8, <2>3, <2>4, <2>5 DEF ScreenIInv
<1> QED  BY <1>9, <1>10, <1>11

-----------------------------------------------------------------------------
(* The operations.                                                              *)

\* The page displays other operations.
Displays(d, e, X) == e \in DataRec /\ e.acts = X /\ e.loaded = d.loaded /\ e.key = d.key

LEMMA DataIs ==
  ASSUME NEW d \in DataRec, NEW X \in SUBSET Displayable
  PROVE  Displays(d, [d EXCEPT !.acts = X], X)
BY DEF DataRec, Displays

\* A switch is one of those of the page, and two operations that move it have its line.
LEMMA MineIs ==
  ASSUME NEW a \in Clicks, acts[a].line \in Lines
  PROVE  Mine(a) = -acts[a].line /\ Mine(a) \in Switches
BY DEF Mine, Switch, Switches, Lines

\* What a switch copies at the click is right, but for the switches that it crosses.
LEMMA CopyIsOK ==
  ASSUME ScreenIInv, NEW o \in Ops, NEW line \in Lines, IsSwitch(o), NEW x \in data.acts,
         x \notin contested, x \notin Crossed(o, line),
         Op(o).paints = "list" \/ x = Switch(line)
  PROVE  x \in had
<1>0. ScreenTypeOK /\ ActsOK /\ Claimed  BY DEF ScreenIInv
<1>1. SUFFICES ASSUME NEW b \in Clicks, AsksOn(b, x) PROVE FALSE  BY <1>0 DEF Claimed
<1>2. UnderWay(b) /\ IsSwitch(acts[b].op) /\ x = Mine(b)  BY <1>1 DEF AsksOn
<1>3. acts[b].op \in Ops  BY <1>0, <1>2 DEF ActsOK, ActOK, UnderWay
<1>4. acts[b].op = o  BY <1>0, <1>2, <1>3, PageIs
<1>5. acts[b].line \in Lines
  <2>1. acts \in [Clicks -> ActRec]  BY <1>0, TypeIs
  <2> QED  BY <2>1 DEF ActRec
<1>6. Op(o).paints = "list" \/ acts[b].line = line
  BY <1>2, <1>5, MineIs DEF Switch, Lines
<1>7. Mine(b) \in Crossed(o, line)  BY <1>2, <1>4, <1>6 DEF Crossed, Mine
<1> QED  BY <1>2, <1>7

\* An operation that starts takes its slot; an exclusive one is free by then.
LEMMA ClickedAlone ==
  ASSUME ScreenIInv, NEW a \in Clicks, NEW o \in Ops, NEW line \in Lines, page' = page,
         ~UnderWay(a), UnderWay(a)', acts'[a].op = o, \A b \in Clicks \ {a} : acts'[b] = acts[b],
         ~Shut(o, line),
         slots' = IF Op(o).mark = "no" THEN slots ELSE [slots EXCEPT ![Op(o).slot] = Mark(o, line)]
  PROVE  OnceOut'
<1>0. ScreenTypeOK /\ OnceOut  BY DEF ScreenIInv
<1>1. \A b \in Clicks \ {a} : (UnderWay(b)' <=> UnderWay(b)) /\ OpOf(b)' = OpOf(b)
  BY DEF UnderWay, OpOf, Op
<1>2. OpOf(a)' = Op(o)  BY DEF OpOf, Op
<1>3. \A s : Exclusive(s)' <=> Exclusive(s)  BY DEF Exclusive, Op, View
<1>4. Exclusive(Op(o).slot) => /\ Op(o).mark = "on" /\ Mark(o, line) = <<"on", 0>>
                              /\ slots[Op(o).slot] # <<"on", 0>>
  BY DEF Exclusive, Shut, Mark, Ops
<1>5. Op(o).slot \in DOMAIN slots  BY <1>0, TypeIs
<1>6. \A b \in Clicks : UnderWay(b) => Alone(b)  BY <1>0 DEF OnceOut
<1>7. ASSUME NEW b \in Clicks \ {a}, UnderWay(b), Exclusive(OpOf(b).slot)
      PROVE  OpOf(b).slot # Op(o).slot
  BY <1>4, <1>6, <1>7 DEF Alone
<1>8. Alone(a)'
  <2>1. SUFFICES ASSUME Exclusive(Op(o).slot)
        PROVE  /\ slots'[Op(o).slot] = <<"on", 0>>
               /\ \A b \in Clicks \ {a} : UnderWay(b)' => OpOf(b)'.slot # Op(o).slot
    BY <1>2, <1>3 DEF Alone
  <2>2. slots'[Op(o).slot] = <<"on", 0>>  BY <1>4, <1>5, <2>1
  <2>3. \A b \in Clicks \ {a} : UnderWay(b)' => OpOf(b)'.slot # Op(o).slot
    BY <1>1, <1>7, <2>1
  <2> QED  BY <2>2, <2>3
<1>9. ASSUME NEW b \in Clicks \ {a}, UnderWay(b)' PROVE Alone(b)'
  <2>1. UnderWay(b) /\ OpOf(b)' = OpOf(b)  BY <1>1, <1>9
  <2>2. SUFFICES ASSUME Exclusive(OpOf(b).slot)
        PROVE  /\ slots'[OpOf(b).slot] = <<"on", 0>>
               /\ \A d \in Clicks \ {b} : UnderWay(d)' => OpOf(d)'.slot # OpOf(b).slot
    BY <1>3, <2>1 DEF Alone
  <2>3. OpOf(b).slot # Op(o).slot  BY <1>7, <2>1, <2>2
  <2>4. slots[OpOf(b).slot] = <<"on", 0>>
        /\ \A d \in Clicks \ {b} : UnderWay(d) => OpOf(d).slot # OpOf(b).slot
    BY <1>6, <2>1, <2>2 DEF Alone
  <2>5. slots'[OpOf(b).slot] = <<"on", 0>>  BY <2>3, <2>4
  <2>6. \A d \in Clicks \ {b} : UnderWay(d)' => OpOf(d)'.slot # OpOf(b).slot
    BY <1>1, <1>2, <2>3, <2>4
  <2> QED  BY <2>5, <2>6
<1> QED  BY <1>8, <1>9 DEF OnceOut

LEMMA ClickKeeps ==
  ASSUME ScreenIInv, NEW a \in Clicks, NEW o \in Ops, NEW line \in Lines, Click(a, o, line)
  PROVE  ScreenIInv'
<1>0. ScreenTypeOK /\ LoadsOK /\ ActsOK /\ HadOK /\ Claimed /\ Current /\ SlotsHeld /\ Reported
  BY DEF ScreenIInv
<1> DEFINE bf == IF IsSwitch(o) THEN data.acts \cap Switches ELSE {}
           X == IF IsSwitch(o) THEN Flipped(line) ELSE data.acts
           x == [stage |-> "asked", op |-> o, line |-> line, before |-> bf, snap |-> {}]
<1>1. /\ acts[a].stage = "none" /\ Offered(o, line) /\ acts' = [acts EXCEPT ![a] = x]
      /\ slots' = IF Op(o).mark = "no" THEN slots ELSE [slots EXCEPT ![Op(o).slot] = Mark(o, line)]
      /\ IF IsSwitch(o) THEN data' = [data EXCEPT !.acts = X] ELSE data' = data
      /\ contested' = IF IsSwitch(o) THEN contested \union Crossed(o, line) ELSE contested
      /\ notice' = IF Op(o).hush THEN [notice EXCEPT ![Op(o).error] = 0] ELSE notice
      /\ UNCHANGED <<page, open, key, loads, stored, had, faults>>
  BY DEF Click
<1>2. /\ acts \in [Clicks -> ActRec] /\ data \in DataRec /\ notice \in NoticeRec
      /\ loads \in [Spots -> LoadRec] /\ page \in DOMAIN Pages /\ contested \in SUBSET Switches
  BY <1>0, TypeIs
<1>3. bf \in SUBSET Switches /\ (~IsSwitch(o) => bf = {})
      /\ (IsSwitch(o) => bf = data.acts \cap Switches)
  OBVIOUS
<1>4. X \in SUBSET Displayable /\ (~IsSwitch(o) => X = data.acts)
      /\ (IsSwitch(o) => /\ X \in SUBSET (data.acts \union {Switch(line)})
                         /\ Switch(line) \in X => Switch(line) \notin data.acts)
  <2>1. Switch(line) \in Switches /\ data.acts \in SUBSET Displayable  BY <1>2 DEF Switches, DataRec
  <2> QED  BY <2>1 DEF Flipped, Displayable
<1> HIDE DEF bf, X
<1>5. /\ x \in ActRec /\ x.stage = "asked" /\ x.op = o /\ x.snap = {} /\ x.before = bf /\ x.line = line
  BY <1>3 DEF ActRec, Ops
<1> HIDE DEF x
<1>6. acts' \in [Clicks -> ActRec] /\ acts'[a] = x /\ \A b \in Clicks \ {a} : acts'[b] = acts[b]
  BY <1>1, <1>2, <1>5
<1>7. data' \in DataRec /\ data'.acts = X /\ data'.loaded = data.loaded /\ data'.key = data.key
  <2>1. CASE IsSwitch(o)
    <3>1. Displays(data, [data EXCEPT !.acts = X], X)  BY <1>2, <1>4, DataIs
    <3>2. data' = [data EXCEPT !.acts = X]  BY <1>1, <2>1
    <3>3. Displays(data, data', X)  BY <3>1, <3>2, Zenon
    <3> QED  BY <3>3 DEF Displays
  <2>2. CASE ~IsSwitch(o)  BY <1>1, <1>2, <1>4, <2>2
  <2> QED  BY <2>1, <2>2
<1>8. contested' \in SUBSET Switches /\ contested \in SUBSET contested'
  <2>1. ASSUME NEW y \in Crossed(o, line) PROVE y \in Switches
    <3>1. PICK b \in Clicks : y = Switch(acts[b].line)  BY <2>1 DEF Crossed
    <3>2. acts[b].line \in Lines  BY <1>2 DEF ActRec
    <3> QED  BY <3>1, <3>2 DEF Switches
  <2>2. Crossed(o, line) \in SUBSET Switches  BY <2>1
  <2> QED  BY <1>1, <1>2, <2>2
<1>9. Op(o).error \in {"page", "own"}  BY <1>0, PageIs
<1>10. /\ notice' \in NoticeRec
       /\ notice'.page = notice.page \/ (Op(o).hush /\ Op(o).error = "page")
  <2>1. 0 \in 0 .. LoadFailed  BY ScreensAssumption DEF LoadFailed
  <2>2. CASE Op(o).hush
    <3> DEFINE e == Op(o).error
    <3>1. notice' = [notice EXCEPT ![e] = 0] /\ e \in {"page", "own"}  BY <1>1, <1>9, <2>2
    <3>2. e = "own" \/ (Op(o).hush /\ Op(o).error = "page")  BY <2>2, <3>1
    <3> HIDE DEF e
    <3>3. PutUp(notice, [notice EXCEPT ![e] = 0], e, 0)  BY <1>2, <2>1, <3>1, NoticeIs
    <3>4. PutUp(notice, notice', e, 0)  BY <3>1, <3>3, Zenon
    <3> QED  BY <3>2, <3>4 DEF PutUp
  <2>3. CASE ~Op(o).hush
    <3>1. notice' = notice  BY <1>1, <2>3
    <3> QED  BY <1>2, <3>1
  <2> QED  BY <2>2, <2>3
<1>11. LoadRow' = LoadRow /\ (RenewsError' <=> RenewsError)
  BY <1>1 DEF LoadRow, RenewsError, View, Op
<1>12. ScreenTypeOK'
  <2>1. DOMAIN slots' = DOMAIN slots  BY <1>1
  <2> QED  BY <1>0, <1>1, <1>6, <1>7, <1>8, <1>10, <2>1, TypeIs, TypeAgain
<1>13. LoadsOK'
  <2>1. \A m \in Spots : loads[m].waiter # 0 => loads[m].waiter \in Clicks
    <3>1. \A m \in Spots : loads[m].waiter \in 0 .. MaxClicks  BY <1>2 DEF LoadRec
    <3> QED  BY <3>1, ScreensAssumption DEF Clicks
  <2>2. \A b \in Clicks : acts[b].stage = "reloading" => acts'[b] = acts[b]
    BY <1>1, <1>6
  <2> QED  BY <1>0, <1>1, <1>11, <2>1, <2>2 DEF LoadsOK
<1>14. ActsOK'
  <2>1. ActOK(a)'
    <3>1. acts'[a].op = o /\ acts'[a].snap = {} /\ acts'[a].stage = "asked" /\ acts'[a].line = line
          /\ acts'[a].before = bf
      BY <1>5, <1>6
    <3>2. Mine(a)' = Switch(line)  BY <3>1 DEF Mine
    <3>3. IsSwitch(o)' <=> IsSwitch(o)  BY <1>1 DEF IsSwitch, Op
    <3>4. OpOf(a)' = Op(o)  BY <1>1, <3>1 DEF OpOf, Op
    <3>5. ASSUME IsSwitch(o) PROVE CopyOK(a)'
      <4>1. contested' = contested \union Crossed(o, line) /\ bf = data.acts \cap Switches
        BY <1>1, <1>3, <3>5
      <4>2. \A y \in bf \ contested' : Op(o).paints = "list" \/ y = Switch(line) => y \in had
        BY <3>5, <4>1, CopyIsOK
      <4> QED  BY <1>1, <3>1, <3>2, <3>4, <4>2 DEF CopyOK
    <3>6. Ops' = Ops  BY <1>1 DEF Ops
    <3> QED  BY <3>1, <3>3, <3>5, <3>6 DEF ActOK
  <2>2. ASSUME NEW b \in Clicks \ {a}, acts'[b].stage # "none" PROVE ActOK(b)'
    <3>1. acts'[b] = acts[b] /\ ActOK(b)  BY <1>0, <1>6, <2>2 DEF ActsOK
    <3>2. had' = had /\ page' = page  BY <1>1
    <3>3. CopyOK(b) => CopyOK(b)'  BY <1>8, <3>1, <3>2 DEF CopyOK, OpOf, Op, Mine
    <3> QED  BY <3>1, <3>2, <3>3 DEF ActOK, Ops, IsSwitch, Op, Wants, Mine
  <2> QED  BY <2>1, <2>2 DEF ActsOK
<1>15. HadOK'  BY <1>0, <1>1 DEF HadOK
<1>16. Claimed'
  <2>1. ASSUME NEW y \in data'.acts \ contested' PROVE y \in had \/ \E b \in Clicks : AsksOn(b, y)'
    <3>1. CASE y \in data.acts
      <4>1. y \in had \/ \E b \in Clicks : AsksOn(b, y)  BY <1>0, <1>8, <2>1, <3>1 DEF Claimed
      <4>2. ASSUME NEW b \in Clicks, AsksOn(b, y) PROVE AsksOn(b, y)'
        <5>1. acts'[b] = acts[b]  BY <1>1, <1>6, <4>2 DEF AsksOn, UnderWay
        <5> QED  BY <1>1, <4>2, <5>1, StillAsks
      <4> QED  BY <4>1, <4>2
    <3>2. CASE y \notin data.acts
      <4>1. IsSwitch(o) /\ y = Switch(line)  BY <1>4, <1>7, <2>1, <3>2
      <4>2. y \notin bf  BY <1>3, <3>2, <4>1
      <4>3. AsksOn(a, y)'
        BY <1>1, <1>5, <1>6, <4>1, <4>2 DEF AsksOn, UnderWay, IsSwitch, Op, Mine, Wants
      <4> QED  BY <4>3
    <3> QED  BY <3>1, <3>2
  <2> QED  BY <1>1, <2>1 DEF Claimed
<1>17. LiveOut' <=> LiveOut  BY <1>1 DEF LiveOut
<1>18. Current'  BY <1>0, <1>1, <1>7, <1>11, <1>17 DEF Current
<1>19. SlotsHeld'
  <2>1. DOMAIN slots' = DOMAIN slots  BY <1>1
  <2>2. ASSUME NEW s \in DOMAIN slots, slots'[s] # Free PROVE \E b \in Clicks : Holds(b, s)'
    <3>1. CASE Op(o).mark # "no" /\ s = Op(o).slot
      <4>1. acts'[a].stage = "asked" /\ acts'[a].op = o /\ page' = page  BY <1>1, <1>5, <1>6
      <4>2. Holds(a, s)'  BY <3>1, <4>1 DEF Holds, UnderWay, OpOf, Op
      <4> QED  BY <4>2
    <3>2. CASE ~(Op(o).mark # "no" /\ s = Op(o).slot)
      <4>1. slots'[s] = slots[s]  BY <1>1, <3>2
      <4>2. PICK b \in Clicks : Holds(b, s)  BY <1>0, <2>2, <4>1 DEF SlotsHeld
      <4>3. acts'[b] = acts[b]  BY <1>1, <1>6, <4>2 DEF Holds
      <4> QED  BY <1>1, <4>2, <4>3 DEF Holds, UnderWay, OpOf, Op
    <3> QED  BY <3>1, <3>2
  <2> QED  BY <2>1, <2>2 DEF SlotsHeld
<1>20. OnceOut'
  <2>1. ~UnderWay(a) /\ UnderWay(a)' /\ acts'[a].op = o  BY <1>1, <1>5, <1>6 DEF UnderWay
  <2>2. ~Shut(o, line)  BY <1>1 DEF Offered
  <2> QED  BY <1>1, <1>6, <2>1, <2>2, ClickedAlone
<1>21. Reported'
  <2>1. ~LoadRow.loads /\ ~LoadRow.mute => data'.loaded  BY <1>0, <1>7 DEF Reported
  <2>2. ASSUME RenewsError, ~LoadRow.mute, ~data'.loaded
        PROVE  notice'.page # 0 \/ LiveOut' \/ \E b \in Clicks : Renewing(b)'
    <3>1. ~data.loaded /\ LoadRow.loads  BY <1>7, <2>1, <2>2
    <3>2. CASE LiveOut  BY <1>17, <3>2
    <3>3. ASSUME NEW b \in Clicks, Renewing(b) PROVE Renewing(b)'
      <4>1. acts'[b] = acts[b]  BY <1>1, <1>6, <3>3 DEF Renewing
      <4> QED  BY <1>1, <3>3, <4>1 DEF Renewing, OpOf, Op
    <3>4. CASE notice.page # 0 /\ notice'.page # notice.page
      <4>1. Op(o).hush /\ Op(o).error = "page"  BY <1>10, <3>4
      <4>2. o \in View.forms  BY <1>1, <3>1 DEF Offered
      <4>3. Op(o).then = "load"  BY <2>2, <3>1, <4>1, <4>2 DEF RenewsError
      <4>4. acts'[a].stage = "asked" /\ acts'[a].op = o /\ page' = page  BY <1>1, <1>5, <1>6
      <4>5. Renewing(a)'  BY <4>1, <4>3, <4>4 DEF Renewing, OpOf, Op
      <4> QED  BY <4>5
    <3>5. notice.page # 0 \/ LiveOut \/ \E b \in Clicks : Renewing(b)
      BY <1>0, <2>2, <3>1 DEF Reported
    <3> QED  BY <3>2, <3>3, <3>4, <3>5
  <2>3. (~LoadRow'.loads /\ ~LoadRow'.mute => data'.loaded)
        <=> (~LoadRow.loads /\ ~LoadRow.mute => data'.loaded)
    BY <1>11
  <2> QED  BY <1>11, <2>1, <2>2, <2>3 DEF Reported
<1> QED
  BY <1>12, <1>13, <1>14, <1>15, <1>16, <1>18, <1>19, <1>20, <1>21 DEF ScreenIInv

\* The server carries an operation out or not, and the answer comes or not.
LEMMA CarriedKeeps ==
  ASSUME ScreenIInv, NEW a \in Clicks, CarryOut(a) \/ Refuse(a) \/ LoseAnswer(a)
  PROVE  ScreenIInv'
<1>0. /\ ScreenTypeOK /\ LoadsOK /\ ActsOK /\ HadOK /\ Claimed /\ Current /\ SlotsHeld /\ OnceOut
      /\ Reported
  BY DEF ScreenIInv
<1>1. /\ acts \in [Clicks -> ActRec] /\ stored \in SUBSET Displayable /\ had \in SUBSET Displayable
      /\ loads \in [Spots -> LoadRec]
  BY <1>0, TypeIs
<1>2. /\ acts[a].before \in SUBSET Switches /\ acts[a].snap \in SUBSET Displayable
      /\ acts[a].line \in Lines
  BY <1>1 DEF ActRec
<1>3. /\ acts[a].stage \in {"asked", "served"}
      /\ UNCHANGED <<page, open, key, data, notice, slots, loads, contested>>
      /\ faults' \in {faults, faults + 1} /\ (faults' # faults => faults < MaxFaults)
  BY DEF CarryOut, Refuse, LoseAnswer
<1>4. ActOK(a)  BY <1>0, <1>3 DEF ActsOK
<1>5. stored' \in SUBSET Displayable /\ had' \in SUBSET Displayable /\ had \in SUBSET had' /\ stored' \in SUBSET had'
  <2>1. CASE CarryOut(a)
    <3>1. Mine(a) \in Displayable /\ a \in Displayable  BY <1>2, MineIs DEF Displayable
    <3>2. stored' \in SUBSET Displayable  BY <1>1, <2>1, <3>1 DEF CarryOut, Turned
    <3>3. had' = had \union stored'  BY <2>1 DEF CarryOut
    <3> QED  BY <1>1, <3>2, <3>3
  <2>2. CASE Refuse(a) \/ LoseAnswer(a)
    <3>1. stored' = stored /\ had' = had  BY <2>2 DEF Refuse, LoseAnswer
    <3> QED  BY <1>0, <1>1, <3>1 DEF HadOK
  <2> QED  BY <2>1, <2>2
<1>6. PICK st \in {"served", "failing"}, sn \in SUBSET had' :
        /\ acts' = Onward(a, st, acts[a].before, sn)
        /\ st = "served" => IF IsSwitch(acts[a].op) THEN Wants(a) => Mine(a) \in had' ELSE a \in had'
  <2>1. CASE CarryOut(a)
    <3>1. /\ acts' = Onward(a, "served", acts[a].before, stored')
          /\ stored' = IF IsSwitch(acts[a].op) THEN Turned(stored, a, Wants(a)) ELSE stored \union {a}
      BY <2>1 DEF CarryOut
    <3>2. IF IsSwitch(acts[a].op) THEN Wants(a) => Mine(a) \in stored' ELSE a \in stored'
      BY <3>1 DEF Turned
    <3> QED  BY <1>5, <3>1, <3>2
  <2>2. CASE Refuse(a) \/ LoseAnswer(a)
    <3>1. acts[a].snap \in SUBSET had'  BY <1>4, <1>5 DEF ActOK
    <3> QED  BY <2>2, <3>1 DEF Refuse, LoseAnswer
  <2> QED  BY <2>1, <2>2
<1>7. /\ acts' \in [Clicks -> ActRec]
      /\ acts'[a].stage = st /\ acts'[a].op = acts[a].op /\ acts'[a].snap = sn
      /\ acts'[a].before = acts[a].before /\ acts'[a].line = acts[a].line
      /\ \A b \in Clicks \ {a} : acts'[b] = acts[b]
  <2>1. sn \in SUBSET Displayable  BY <1>5
  <2>2. st \in {"none", "asked", "served", "failing", "reloading", "done", "undone"}  OBVIOUS
  <2>3. acts' = Onward(a, st, acts[a].before, sn)  BY <1>6
  <2> QED  BY <1>0, <1>2, <2>1, <2>2, <2>3, OnwardIs
<1>8. LoadRow' = LoadRow /\ (RenewsError' <=> RenewsError)
  BY <1>3 DEF LoadRow, RenewsError, View, Op
<1>9. \A b \in Clicks : /\ OpOf(b)' = OpOf(b) /\ (UnderWay(b)' <=> UnderWay(b))
                        /\ (IsSwitch(acts[b].op)' <=> IsSwitch(acts[b].op))
                        /\ Mine(b)' = Mine(b) /\ (Wants(b)' <=> Wants(b))
                        /\ (acts[b].stage \in {"none", "reloading", "done"} \/ b # a => acts'[b] = acts[b])
  BY <1>3, <1>6, <1>7 DEF OpOf, Op, UnderWay, IsSwitch, Mine, Wants
<1>10. ScreenTypeOK'
  <2>1. faults' \in 0 .. MaxFaults  BY <1>0, <1>3, TypeIs, ScreensAssumption
  <2>2. contested' \in SUBSET Switches  BY <1>0, <1>3, TypeIs
  <2> QED  BY <1>0, <1>3, <1>5, <1>7, <2>1, <2>2, TypeIs, TypeAgain
<1>11. LoadsOK'
  <2>1. \A m \in Spots : loads[m].waiter # 0 => loads[m].waiter \in Clicks
    <3>1. \A m \in Spots : loads[m].waiter \in 0 .. MaxClicks  BY <1>1 DEF LoadRec
    <3> QED  BY <3>1, ScreensAssumption DEF Clicks
  <2> QED  BY <1>0, <1>3, <1>5, <1>8, <1>9, <2>1 DEF LoadsOK
<1>12. ActsOK'
  <2>1. \A b \in Clicks : CopyOK(b) => CopyOK(b)'  BY <1>3, <1>5, <1>7, <1>9 DEF CopyOK
  <2>2. ActOK(a)'
    <3>1. acts[a].op \in Ops /\ (IsSwitch(acts[a].op) => CopyOK(a))  BY <1>3, <1>4 DEF ActOK
    <3>2. Ops' = Ops  BY <1>3 DEF Ops
    <3> QED  BY <1>6, <1>7, <1>9, <2>1, <3>1, <3>2 DEF ActOK
  <2>3. ASSUME NEW b \in Clicks \ {a}, acts'[b].stage # "none" PROVE ActOK(b)'
    <3>1. acts'[b] = acts[b] /\ ActOK(b)  BY <1>0, <1>7, <2>3 DEF ActsOK
    <3>2. Ops' = Ops  BY <1>3 DEF Ops
    <3> QED  BY <1>5, <1>9, <2>1, <3>1, <3>2 DEF ActOK
  <2> QED  BY <2>2, <2>3 DEF ActsOK
<1>13. HadOK'  BY <1>5 DEF HadOK
<1>14. Claimed'
  <2>1. \A b \in Clicks : \A y : AsksOn(b, y) => AsksOn(b, y)'  BY <1>9 DEF AsksOn
  <2> QED  BY <1>0, <1>3, <1>5, <2>1 DEF Claimed
<1>15. LiveOut' <=> LiveOut  BY <1>3 DEF LiveOut
<1>16. Current'  BY <1>0, <1>3, <1>8, <1>15 DEF Current
<1>17. SlotsHeld'
  <2>1. \A b \in Clicks : (acts'[b].stage = "none" <=> acts[b].stage = "none")
                          /\ (acts'[b].stage = "done" <=> acts[b].stage = "done")
    BY <1>3, <1>6, <1>7
  <2> QED  BY <1>0, <1>3, <1>9, <2>1 DEF SlotsHeld, Holds
<1>18. OnceOut'
  <2>1. UnderWay(a)  BY <1>3 DEF UnderWay
  <2> QED  BY <1>3, <1>7, <2>1, OnceKept
<1>19. Reported'
  <2>1. \A b \in Clicks : Renewing(b) => Renewing(b)'
    BY <1>6, <1>7, <1>9 DEF Renewing
  <2> QED  BY <1>0, <1>3, <1>8, <1>15, <2>1 DEF Reported
<1> QED
  BY <1>10, <1>11, <1>12, <1>13, <1>14, <1>16, <1>17, <1>18, <1>19 DEF ScreenIInv

\* What is common to the ways an operation settles: only its own stage changes.
LEMMA SettledIs ==
  ASSUME ScreenIInv, NEW a \in Clicks, NEW st \in {"reloading", "done", "undone"},
         acts[a].stage = "served" \/ (acts[a].stage = "failing" /\ st = "undone"),
         st = "reloading" => ~IsSwitch(acts[a].op),
         acts' = Ended(a, st), UNCHANGED <<page, stored, had, contested>>
  PROVE  /\ acts' \in [Clicks -> ActRec]
         /\ acts'[a].stage = st /\ acts'[a].op = acts[a].op /\ acts'[a].snap = {}
         /\ \A b \in Clicks \ {a} : acts'[b] = acts[b]
         /\ ActsOK' /\ HadOK'
         /\ \A b \in Clicks : acts[b].stage = "reloading" => acts'[b] = acts[b]
         /\ \A b \in Clicks : OpOf(b)' = OpOf(b)
<1>0. ScreenTypeOK /\ ActsOK /\ HadOK  BY DEF ScreenIInv
<1>1. st \in {"none", "asked", "served", "failing", "reloading", "done", "undone"}  OBVIOUS
<1>2. ASSUME NEW none, none = {}, acts' = Onward(a, st, none, none)
      PROVE  /\ acts' \in [Clicks -> ActRec]
             /\ acts'[a].stage = st /\ acts'[a].op = acts[a].op /\ acts'[a].snap = none
             /\ \A b \in Clicks \ {a} : acts'[b] = acts[b]
  <2>1. none \in SUBSET Switches /\ none \in SUBSET Displayable  BY <1>2
  <2>2. acts' = Onward(a, st, none, none)  BY <1>2
  <2> QED  BY ONLY <1>0, <1>1, <2>1, <2>2, a \in Clicks, OnwardIs
<1>3. /\ acts' \in [Clicks -> ActRec]
      /\ acts'[a].stage = st /\ acts'[a].op = acts[a].op /\ acts'[a].snap = {}
      /\ \A b \in Clicks \ {a} : acts'[b] = acts[b]
  BY <1>2 DEF Ended
<1>4. ActsOK'
  <2>1. ActOK(a)'
    <3>1. acts[a].op \in Ops  BY <1>0 DEF ActsOK, ActOK
    <3>2. Ops' = Ops /\ (IsSwitch(acts[a].op)' <=> IsSwitch(acts[a].op))
      BY <1>3 DEF Ops, IsSwitch, Op
    <3> QED  BY <1>3, <3>1, <3>2 DEF ActOK
  <2>2. ASSUME NEW b \in Clicks \ {a}, acts'[b].stage # "none" PROVE ActOK(b)'
    <3>1. acts'[b] = acts[b] /\ ActOK(b)  BY <1>0, <1>3, <2>2 DEF ActsOK
    <3> QED  BY <3>1 DEF ActOK, Ops, IsSwitch, Op, OpOf, Wants, Mine, CopyOK
  <2> QED  BY <2>1, <2>2 DEF ActsOK
<1>5. \A b \in Clicks : acts[b].stage = "reloading" => acts'[b] = acts[b]  BY <1>3
<1>6. \A b \in Clicks : OpOf(b)' = OpOf(b)  BY <1>3 DEF OpOf, Op
<1>7. HadOK'  BY <1>0 DEF HadOK
<1> QED  BY <1>3, <1>4, <1>5, <1>6, <1>7

\* The finally of a handler opens its slot, unless it leaves the page with it.
LEMMA FreedKeeps ==
  ASSUME ScreenIInv, NEW a \in Clicks, NEW failed \in BOOLEAN,
         acts[a].stage = (IF failed THEN "failing" ELSE "served"),
         acts' = Ended(a, IF failed THEN "undone" ELSE "done"),
         UNCHANGED <<page, stored, had, contested>>, slots' = Freed(a, failed)
  PROVE  SlotsHeld' /\ OnceOut' /\ DOMAIN slots' = DOMAIN slots
<1>0. SlotsHeld  BY DEF ScreenIInv
<1> DEFINE st == IF failed THEN "undone" ELSE "done"
<1>1. /\ acts'[a].stage = st /\ acts'[a].op = acts[a].op
      /\ \A b \in Clicks \ {a} : acts'[b] = acts[b]
      /\ \A b \in Clicks : OpOf(b)' = OpOf(b)
  <2>1. st \in {"reloading", "done", "undone"} /\ acts' = Ended(a, st) /\ st # "reloading"  OBVIOUS
  <2>2. acts[a].stage = "served" \/ (acts[a].stage = "failing" /\ st = "undone")  OBVIOUS
  <2> HIDE DEF st
  <2> QED  BY <2>1, <2>2, SettledIs
<1>2. DOMAIN slots' = DOMAIN slots  BY DEF Freed
<1>3. ASSUME NEW s \in DOMAIN slots, slots'[s] # Free PROVE \E b \in Clicks : Holds(b, s)'
  <2>1. slots'[s] = slots[s]
        /\ (s # OpOf(a).slot \/ OpOf(a).mark = "no" \/ (OpOf(a).frees = "failure" /\ ~failed))
    BY <1>3 DEF Freed
  <2>2. PICK b \in Clicks : Holds(b, s)  BY <1>0, <1>3, <2>1 DEF SlotsHeld
  <2>3. CASE b # a
    <3>1. acts'[b] = acts[b] /\ OpOf(b)' = OpOf(b)  BY <1>1, <2>3
    <3> QED  BY <2>2, <3>1 DEF Holds, UnderWay
  <2>4. CASE b = a
    <3>1. OpOf(a).slot = s /\ OpOf(a).mark # "no"  BY <2>2, <2>4 DEF Holds
    <3>2. OpOf(a).frees = "failure" /\ ~failed  BY <2>1, <3>1
    <3>3. acts'[a].stage = "done" /\ OpOf(a)' = OpOf(a)  BY <1>1, <3>2
    <3>4. Holds(a, s)'  BY <3>1, <3>2, <3>3 DEF Holds
    <3> QED  BY <3>4
  <2> QED  BY <2>3, <2>4
<1>4. OnceOut'
  <2>1. UnderWay(a) /\ ~UnderWay(a)'  BY <1>1 DEF UnderWay
  <2>2. slots' = slots \/ slots' = [slots EXCEPT ![OpOf(a).slot] = Free]  BY DEF Freed
  <2> QED  BY <1>1, <2>1, <2>2, OnceKept
<1> QED  BY <1>2, <1>3, <1>4 DEF SlotsHeld

\* What is displayed is claimed as before.
LEMMA SettledClaims ==
  ASSUME ScreenIInv, NEW a \in Clicks, NEW st \in {"reloading", "done", "undone"},
         acts[a].stage = "served" \/ (acts[a].stage = "failing" /\ st = "undone"),
         st = "reloading" => ~IsSwitch(acts[a].op),
         acts' = Ended(a, st), UNCHANGED <<page, stored, had, contested>>,
         \A x \in data'.acts : x \in data.acts \/ x \in had \/ x \in contested,
         IsSwitch(acts[a].op) /\ Wants(a) /\ Mine(a) \in data'.acts => Mine(a) \in had \union contested
  PROVE  Claimed'
<1>1. Claimed  BY DEF ScreenIInv
<1>2. \A b \in Clicks \ {a} : acts'[b] = acts[b]  BY SettledIs
<1>3. ASSUME NEW x \in data'.acts \ contested PROVE x \in had \/ \E b \in Clicks : AsksOn(b, x)'
  <2>1. x \in had \/ \E b \in Clicks : AsksOn(b, x)  BY <1>1, <1>3 DEF Claimed
  <2>2. ASSUME NEW b \in Clicks, AsksOn(b, x) PROVE x \in had \/ AsksOn(b, x)'
    <3>1. CASE b = a  BY <1>3, <2>2, <3>1 DEF AsksOn
    <3>2. CASE b # a
      <4>1. acts'[b] = acts[b]  BY <1>2, <3>2
      <4> QED  BY <2>2, <4>1, StillAsks
    <3> QED  BY <3>1, <3>2
  <2> QED  BY <2>1, <2>2
<1> QED  BY <1>3 DEF Claimed

LEMMA SettledLoads ==
  ASSUME ScreenIInv, UNCHANGED <<page, key, had, loads>>,
         \A b \in Clicks : acts[b].stage = "reloading" => acts'[b] = acts[b]
  PROVE  LoadsOK' /\ (LiveOut' <=> LiveOut)
<1>0. ScreenTypeOK /\ LoadsOK  BY DEF ScreenIInv
<1>1. \A m \in Spots : loads[m].waiter # 0 => loads[m].waiter \in Clicks
  <2>1. loads \in [Spots -> LoadRec]  BY <1>0, TypeIs
  <2>2. \A m \in Spots : loads[m].waiter \in 0 .. MaxClicks  BY <2>1 DEF LoadRec
  <2> QED  BY <2>2, ScreensAssumption DEF Clicks
<1>2. LoadRow' = LoadRow  BY DEF LoadRow
<1>3. LoadsOK'  BY <1>0, <1>1, <1>2 DEF LoadsOK
<1>4. LiveOut' <=> LiveOut  BY DEF LiveOut
<1> QED  BY <1>3, <1>4

\* The two answers after which the page loads again.
LEMMA AnswerAwaitingKeeps == ASSUME ScreenIInv, NEW a \in Clicks, AnswerAwaiting(a) PROVE ScreenIInv'
<1>0. ScreenTypeOK /\ LoadsOK /\ ActsOK /\ SlotsHeld  BY DEF ScreenIInv
<1>1. /\ acts[a].stage = "served" /\ StartLoad(key, a) /\ acts' = Ended(a, "reloading")
      /\ OpOf(a).then = "await"
      /\ UNCHANGED <<page, open, key, slots, stored, had, contested, faults>>
  BY DEF AnswerAwaiting, Settle
<1>2. ~IsSwitch(acts[a].op)
  <2>1. acts[a].op \in Ops  BY <1>0, <1>1 DEF ActsOK, ActOK
  <2> QED  BY <1>0, <1>1, <2>1, PageIs DEF OpOf
<1>3. /\ acts' \in [Clicks -> ActRec]
      /\ acts'[a].stage = "reloading" /\ acts'[a].op = acts[a].op
      /\ \A b \in Clicks \ {a} : acts'[b] = acts[b]
      /\ ActsOK' /\ HadOK'
      /\ \A b \in Clicks : acts[b].stage = "reloading" => acts'[b] = acts[b]
      /\ \A b \in Clicks : OpOf(b)' = OpOf(b)
  <2>1. "reloading" \in {"reloading", "done", "undone"}  OBVIOUS
  <2> QED  BY <1>1, <1>2, <2>1, SettledIs
<1>4. /\ loads' \in [Spots -> LoadRec]
      /\ LoadsOK' /\ LiveOut'
      /\ data' \in {data, Unloaded} /\ (~LoadRow.loads => data' = data)
      /\ notice' \in {notice, [notice EXCEPT !.page = 0]}
  <2>1. a \in 0 .. MaxClicks  BY ScreensAssumption DEF Clicks
  <2>2. a # 0 => acts[a].stage = "served" /\ acts'[a].stage = "reloading"  BY <1>1, <1>3
  <2>3. \A b \in Clicks : acts[b].stage = "reloading" => acts'[b].stage = "reloading"
    BY <1>3
  <2> QED  BY <1>0, <1>1, <2>1, <2>2, <2>3, StartLoadIs
<1>5. ScreenTypeOK'
  <2>1. data' \in DataRec  BY <1>0, <1>4, TypeIs, UnloadedIs DEF DataRec
  <2>2. notice' \in NoticeRec  BY <1>0, <1>4, TypeIs, HushedIs
  <2> QED  BY <1>0, <1>1, <1>3, <1>4, <2>1, <2>2, TypeIs, TypeAgain
<1>6. Claimed'
  <2>1. data'.acts \in {data.acts, {}}  BY <1>4, UnloadedIs
  <2>2. \A x \in data'.acts : x \in data.acts  BY <2>1
  <2>3. "reloading" \in {"reloading", "done", "undone"}  OBVIOUS
  <2> QED  BY <1>1, <1>2, <2>2, <2>3, SettledClaims
<1>7. SlotsHeld'
  <2>1. \A b \in Clicks : (UnderWay(b)' <=> UnderWay(b)) /\ OpOf(b)' = OpOf(b)
                          /\ (acts'[b].stage = "none" <=> acts[b].stage = "none")
                          /\ (acts'[b].stage = "done" <=> acts[b].stage = "done")
    BY <1>1, <1>3 DEF UnderWay
  <2> QED  BY <1>0, <1>1, <2>1 DEF SlotsHeld, Holds
<1>8. OnceOut'
  <2>1. UnderWay(a)  BY <1>1 DEF UnderWay
  <2> QED  BY <1>1, <1>3, <2>1, OnceKept
<1>9. Current' /\ Reported'  BY <1>1, <1>4, AwaitedIsReported
<1> QED  BY <1>3, <1>4, <1>5, <1>6, <1>7, <1>8, <1>9 DEF ScreenIInv

LEMMA AnswerLoadingKeeps == ASSUME ScreenIInv, NEW a \in Clicks, AnswerLoading(a) PROVE ScreenIInv'
<1>0. ScreenTypeOK /\ LoadsOK /\ ActsOK  BY DEF ScreenIInv
<1>1. /\ acts[a].stage = "served" /\ StartLoad(key, 0) /\ acts' = Ended(a, "done")
      /\ slots' = Freed(a, FALSE) /\ open' \in BOOLEAN /\ OpOf(a).then = "load"
      /\ UNCHANGED <<page, key, stored, had, contested, faults>>
  BY DEF AnswerLoading, Settle
<1>2. ~IsSwitch(acts[a].op)
  <2>1. acts[a].op \in Ops  BY <1>0, <1>1 DEF ActsOK, ActOK
  <2> QED  BY <1>0, <1>1, <2>1, PageIs DEF OpOf
<1>3. /\ acts' \in [Clicks -> ActRec] /\ ActsOK' /\ HadOK'
      /\ \A b \in Clicks : acts[b].stage = "reloading" => acts'[b] = acts[b]
  <2>1. "done" \in {"reloading", "done", "undone"}  OBVIOUS
  <2> QED  BY <1>1, <2>1, SettledIs
<1>4. /\ loads' \in [Spots -> LoadRec]
      /\ LoadsOK' /\ LiveOut'
      /\ data' \in {data, Unloaded} /\ (~LoadRow.loads => data' = data)
      /\ notice' \in {notice, [notice EXCEPT !.page = 0]}
  <2>1. 0 \in 0 .. MaxClicks  BY ScreensAssumption
  <2>2. \A b \in Clicks : acts[b].stage = "reloading" => acts'[b].stage = "reloading"
    BY <1>3
  <2> QED  BY <1>0, <1>1, <2>1, <2>2, StartLoadIs
<1>5. SlotsHeld' /\ OnceOut' /\ DOMAIN slots' = DOMAIN slots
  <2>1. FALSE \in BOOLEAN /\ acts[a].stage = (IF FALSE THEN "failing" ELSE "served")
        /\ acts' = Ended(a, IF FALSE THEN "undone" ELSE "done")
    BY <1>1
  <2> QED  BY <1>1, <2>1, FreedKeeps
<1>6. ScreenTypeOK'
  <2>1. data' \in DataRec  BY <1>0, <1>4, TypeIs, UnloadedIs DEF DataRec
  <2>2. notice' \in NoticeRec  BY <1>0, <1>4, TypeIs, HushedIs
  <2> QED  BY <1>0, <1>1, <1>3, <1>4, <1>5, <2>1, <2>2, TypeIs, TypeAgain
<1>7. Claimed'
  <2>1. data'.acts \in {data.acts, {}}  BY <1>4, UnloadedIs
  <2>2. \A x \in data'.acts : x \in data.acts  BY <2>1
  <2>3. "done" \in {"reloading", "done", "undone"}  OBVIOUS
  <2> QED  BY <1>1, <1>2, <2>2, <2>3, SettledClaims
<1>8. Current' /\ Reported'  BY <1>1, <1>4, AwaitedIsReported
<1> QED  BY <1>3, <1>4, <1>5, <1>6, <1>7, <1>8 DEF ScreenIInv

\* What goes back to a copy is what was displayed of the rest, and the copy.
LEMMA PartIs ==
  ASSUME NEW a \in Clicks, NEW copy \in SUBSET Displayable, data.acts \in SUBSET Displayable
  PROVE  PartOf(a, copy) \in SUBSET Displayable /\ PartOf(a, copy) \in SUBSET (data.acts \union copy)
BY DEF PartOf

\* Of a switch of the page, nothing but the copy stays.
LEMMA PartOfSwitch ==
  ASSUME NEW a \in Clicks, NEW copy, IsSwitch(acts[a].op), acts[a].line \in Lines,
         Mine(a) \in PartOf(a, copy)
  PROVE  Mine(a) \in copy
BY MineIs DEF PartOf, Piece

\* The answers after which the page changes what it has, and the failures.
LEMMA InPlaceKeeps ==
  ASSUME ScreenIInv, NEW a \in Clicks, NEW failed \in BOOLEAN,
         acts[a].stage = (IF failed THEN "failing" ELSE "served"),
         acts' = Ended(a, IF failed THEN "undone" ELSE "done"), slots' = Freed(a, failed),
         open' \in BOOLEAN, UNCHANGED <<page, key, loads, stored, had, contested, faults>>,
         data' \in DataRec, data'.loaded = data.loaded, data'.key = data.key,
         \A x \in data'.acts : x \in data.acts \/ x \in had \/ x \in contested,
         IsSwitch(acts[a].op) /\ Wants(a) /\ Mine(a) \in data'.acts => Mine(a) \in had \union contested,
         notice' \in NoticeRec,
         Renewing(a) => notice'.page # 0,
         notice.page # 0 => notice'.page # 0
  PROVE  ScreenIInv'
<1>0. ScreenTypeOK /\ Current /\ Reported  BY DEF ScreenIInv
<1> DEFINE st == IF failed THEN "undone" ELSE "done"
<1>1. /\ st \in {"reloading", "done", "undone"} /\ acts' = Ended(a, st) /\ st # "reloading"
      /\ acts[a].stage = "served" \/ (acts[a].stage = "failing" /\ st = "undone")
  OBVIOUS
<1>2. SlotsHeld' /\ OnceOut' /\ DOMAIN slots' = DOMAIN slots  BY FreedKeeps
<1> HIDE DEF st
<1>3. /\ acts' \in [Clicks -> ActRec] /\ ActsOK' /\ HadOK'
      /\ \A b \in Clicks \ {a} : acts'[b] = acts[b]
      /\ \A b \in Clicks : acts[b].stage = "reloading" => acts'[b] = acts[b]
      /\ \A b \in Clicks : OpOf(b)' = OpOf(b)
  BY <1>1, SettledIs
<1>4. LoadsOK' /\ (LiveOut' <=> LiveOut)  BY <1>3, SettledLoads
<1>5. Claimed'  BY <1>1, SettledClaims
<1>6. LoadRow' = LoadRow /\ (RenewsError' <=> RenewsError)
  BY DEF LoadRow, RenewsError, View, Op
<1>7. Current'  BY <1>0, <1>4, <1>6 DEF Current
<1>8. Reported'
  <2>1. ASSUME NEW b \in Clicks, Renewing(b), b # a PROVE Renewing(b)'
    BY <1>3, <2>1 DEF Renewing
  <2>2. (\E b \in Clicks : Renewing(b)) => notice'.page # 0 \/ \E b \in Clicks : Renewing(b)'
    BY <2>1
  <2> QED  BY <1>0, <1>4, <1>6, <2>2 DEF Reported
<1>9. ScreenTypeOK'
  <2>1. /\ key' \in {1, 2} /\ loads' \in [Spots -> LoadRec] /\ stored' \in SUBSET Displayable
        /\ had' \in SUBSET Displayable /\ contested' \in SUBSET Switches /\ faults' \in 0 .. MaxFaults
    BY <1>0, TypeIs
  <2> QED  BY <1>0, <1>2, <1>3, <2>1, TypeAgain
<1> QED  BY <1>2, <1>3, <1>4, <1>5, <1>7, <1>8, <1>9 DEF ScreenIInv

LEMMA AnswerInPlaceKeeps == ASSUME ScreenIInv, NEW a \in Clicks, AnswerInPlace(a) PROVE ScreenIInv'
<1>0. ScreenTypeOK /\ ActsOK  BY DEF ScreenIInv
<1>1. /\ acts[a].stage = "served" /\ OpOf(a).then \in {"patch", "replace", "note"}
      /\ data' = CASE OpOf(a).then = "patch"   -> [data EXCEPT !.acts = data.acts \union {a}]
                   [] OpOf(a).then = "replace" -> [data EXCEPT !.acts = PartOf(a, acts[a].snap)]
                   [] OpOf(a).then = "note"    -> data
      /\ acts' = Ended(a, "done") /\ slots' = Freed(a, FALSE) /\ open' \in BOOLEAN
      /\ UNCHANGED <<page, key, notice, loads, stored, had, contested, faults>>
  BY DEF AnswerInPlace, Settle
<1>2. /\ data \in DataRec /\ data.acts \in SUBSET Displayable /\ notice \in NoticeRec
      /\ had \in SUBSET Displayable /\ acts[a].line \in Lines
  BY <1>0, TypeIs DEF DataRec, ActRec
<1>3. ActOK(a)  BY <1>0, <1>1 DEF ActsOK
<1>4. /\ acts[a].op \in Ops /\ acts[a].snap \in SUBSET had /\ acts[a].snap \in SUBSET Displayable
      /\ IF IsSwitch(acts[a].op) THEN Wants(a) => Mine(a) \in had ELSE a \in had
  BY <1>1, <1>2, <1>3 DEF ActOK
<1>5. /\ data' \in DataRec /\ data'.loaded = data.loaded /\ data'.key = data.key
      /\ \A x \in data'.acts : x \in data.acts \/ x \in had
  <2>1. CASE OpOf(a).then = "patch"
    <3>1. data' = [data EXCEPT !.acts = data.acts \union {a}]  BY <1>1, <2>1
    <3>2. data.acts \union {a} \in SUBSET Displayable  BY <1>2 DEF Displayable
    <3>3. Displays(data, [data EXCEPT !.acts = data.acts \union {a}], data.acts \union {a})
      BY <1>2, <3>2, DataIs
    <3>4. Displays(data, data', data.acts \union {a})  BY <3>1, <3>3, Zenon
    <3>5. ~IsSwitch(acts[a].op)  BY <1>0, <1>4, <2>1, PageIs DEF OpOf
    <3>6. a \in had  BY <1>4, <3>5
    <3> QED  BY <3>4, <3>6 DEF Displays
  <2>2. CASE OpOf(a).then = "replace"
    <3>1. data' = [data EXCEPT !.acts = PartOf(a, acts[a].snap)]  BY <1>1, <2>2
    <3>2. /\ PartOf(a, acts[a].snap) \in SUBSET Displayable
          /\ PartOf(a, acts[a].snap) \in SUBSET (data.acts \union acts[a].snap)
      BY <1>2, <1>4, PartIs
    <3>3. Displays(data, [data EXCEPT !.acts = PartOf(a, acts[a].snap)], PartOf(a, acts[a].snap))
      BY <1>2, <3>2, DataIs
    <3>4. Displays(data, data', PartOf(a, acts[a].snap))  BY <3>1, <3>3, Zenon
    <3> QED  BY <1>4, <3>2, <3>4 DEF Displays
  <2>3. CASE OpOf(a).then = "note"
    <3>1. data' = data  BY <1>1, <2>3
    <3> QED  BY <1>2, <3>1
  <2> QED  BY <1>1, <2>1, <2>2, <2>3
<1>6. IsSwitch(acts[a].op) /\ Wants(a) /\ Mine(a) \in data'.acts => Mine(a) \in had \union contested
  BY <1>4
<1>7. ~Renewing(a)  BY <1>1 DEF Renewing
<1>8. /\ FALSE \in BOOLEAN /\ acts[a].stage = (IF FALSE THEN "failing" ELSE "served")
      /\ acts' = Ended(a, IF FALSE THEN "undone" ELSE "done")
  BY <1>1
<1> QED  BY <1>1, <1>2, <1>5, <1>6, <1>7, <1>8, InPlaceKeeps

LEMMA FailKeeps == ASSUME ScreenIInv, NEW a \in Clicks, Fail(a) PROVE ScreenIInv'
<1>0. ScreenTypeOK /\ ActsOK  BY DEF ScreenIInv
<1>1. /\ acts[a].stage = "failing"
      /\ notice' = [notice EXCEPT ![OpOf(a).error] = a]
      /\ data' = [data EXCEPT !.acts = Undone(a)]
      /\ acts' = Ended(a, "undone") /\ slots' = Freed(a, TRUE) /\ open' \in BOOLEAN
      /\ UNCHANGED <<page, key, loads, stored, had, contested, faults>>
  BY DEF Fail, Settle
<1>2. /\ data \in DataRec /\ data.acts \in SUBSET Displayable /\ notice \in NoticeRec
      /\ acts[a].before \in SUBSET Switches /\ acts[a].before \in SUBSET Displayable
      /\ acts[a].line \in Lines
  BY <1>0, TypeIs DEF DataRec, ActRec, Displayable
<1>3. acts[a].op \in Ops /\ (IsSwitch(acts[a].op) => CopyOK(a))
  BY <1>0, <1>1 DEF ActsOK, ActOK
<1>4. OpOf(a).error \in {"page", "own"} /\ OpOf(a).paints \in {"no", "item", "list"}
  BY <1>0, <1>3, PageIs DEF OpOf
<1>5. Mine(a) \in Switches /\ Mine(a) \in Displayable  BY <1>2, MineIs DEF Displayable
<1>6. IsSwitch(acts[a].op) <=> OpOf(a).paints # "no"  BY DEF IsSwitch, OpOf
<1>7. /\ Undone(a) \in SUBSET Displayable
      /\ \A x \in Undone(a) : x \in data.acts \/ x \in had \/ x \in contested
      /\ IsSwitch(acts[a].op) /\ Wants(a) /\ Mine(a) \in Undone(a) => Mine(a) \in had \union contested
  <2>1. CASE OpOf(a).paints = "no"
    <3>1. Undone(a) = data.acts  BY <2>1 DEF Undone
    <3> QED  BY <1>2, <1>6, <2>1, <3>1
  <2>2. CASE OpOf(a).paints = "item"
    <3>1. Undone(a) = IF ~Wants(a) THEN data.acts \union {Mine(a)} ELSE data.acts \ {Mine(a)}
      BY <2>2 DEF Undone, Turned
    <3>2. ~Wants(a) => Mine(a) \in had \union contested
      BY <1>3, <1>6, <2>2 DEF CopyOK, Wants
    <3> QED  BY <1>2, <1>5, <3>1, <3>2
  <2>3. CASE OpOf(a).paints = "list"
    <3>1. Undone(a) = PartOf(a, acts[a].before)  BY <2>3 DEF Undone
    <3>2. /\ PartOf(a, acts[a].before) \in SUBSET Displayable
          /\ PartOf(a, acts[a].before) \in SUBSET (data.acts \union acts[a].before)
      BY <1>2, PartIs
    <3>3. acts[a].before \in SUBSET (had \union contested)
      BY <1>3, <1>6, <2>3 DEF CopyOK
    <3>4. Mine(a) \in Undone(a) => Mine(a) \in acts[a].before
      BY <1>2, <1>6, <2>3, <3>1, PartOfSwitch
    <3> QED  BY <3>1, <3>2, <3>3, <3>4
  <2> QED  BY <1>4, <2>1, <2>2, <2>3
<1>8. data' \in DataRec /\ data'.acts = Undone(a) /\ data'.loaded = data.loaded /\ data'.key = data.key
  <2>1. Displays(data, [data EXCEPT !.acts = Undone(a)], Undone(a))  BY <1>2, <1>7, DataIs
  <2>2. Displays(data, data', Undone(a))  BY <1>1, <2>1, Zenon
  <2> QED  BY <2>2 DEF Displays
<1>9. /\ notice' \in NoticeRec /\ (OpOf(a).error = "page" => notice'.page = a)
      /\ (OpOf(a).error = "own" => notice'.page = notice.page)
  <2> DEFINE e == OpOf(a).error
  <2>1. a \in 0 .. LoadFailed  BY ScreensAssumption DEF Clicks, LoadFailed
  <2>2. notice' = [notice EXCEPT ![e] = a] /\ e \in {"page", "own"}  BY <1>1, <1>4
  <2> HIDE DEF e
  <2>3. PutUp(notice, [notice EXCEPT ![e] = a], e, a)  BY <1>2, <2>1, <2>2, NoticeIs
  <2>4. PutUp(notice, notice', e, a)  BY <2>2, <2>3, Zenon
  <2> QED  BY <2>4 DEF PutUp, e
<1>10. a # 0  BY ScreensAssumption DEF Clicks
<1>11. (Renewing(a) => notice'.page # 0) /\ (notice.page # 0 => notice'.page # 0)
  BY <1>4, <1>9, <1>10 DEF Renewing
<1>12. /\ TRUE \in BOOLEAN /\ acts[a].stage = (IF TRUE THEN "failing" ELSE "served")
       /\ acts' = Ended(a, IF TRUE THEN "undone" ELSE "done")
  BY <1>1
<1>13. \A x \in data'.acts : x \in data.acts \/ x \in had \/ x \in contested  BY <1>7, <1>8
<1>14. IsSwitch(acts[a].op) /\ Wants(a) /\ Mine(a) \in data'.acts => Mine(a) \in had \union contested
  BY <1>7, <1>8
<1> QED  BY <1>1, <1>8, <1>9, <1>11, <1>12, <1>13, <1>14, InPlaceKeeps

-----------------------------------------------------------------------------
(* The theorems of Screens.                                                     *)

\* What the first load and a page without one start with.
LEMMA FirstsAre ==
  /\ [NoLoad EXCEPT !.stage = "asked"]
       = [stage |-> "asked", key |-> 1, snap |-> {}, waiter |-> 0, live |-> TRUE]
  /\ [Unloaded EXCEPT !.loaded = TRUE] = [loaded |-> TRUE, key |-> 1, acts |-> {}]
<1> DEFINE yes == TRUE
           no == FALSE
<1>1. NoLoad = [stage |-> "none", key |-> 1, snap |-> {}, waiter |-> 0, live |-> yes]
  BY DEF NoLoad
<1>2. Unloaded = [loaded |-> no, key |-> 1, acts |-> {}]  BY DEF Unloaded
<1>3. [NoLoad EXCEPT !.stage = "asked"]
        = [stage |-> "asked", key |-> 1, snap |-> {}, waiter |-> 0, live |-> yes]
  <2> HIDE DEF yes
  <2> QED  BY <1>1
<1>4. [Unloaded EXCEPT !.loaded = yes] = [loaded |-> yes, key |-> 1, acts |-> {}]
  <2> HIDE DEF yes, no
  <2> QED  BY <1>2
<1> QED  BY <1>3, <1>4

LEMMA ScreenStart == ASSUME ScreenInit PROVE ScreenIInv
<1>1. /\ page \in DOMAIN Pages /\ open = TRUE /\ key = 1
      /\ data = IF LoadRow.loads THEN Unloaded ELSE [Unloaded EXCEPT !.loaded = TRUE]
      /\ notice = [page |-> 0, own |-> 0]
      /\ slots = [s \in {Op(o).slot : o \in Ops} |-> Free]
      /\ acts = [a \in Clicks |-> NoAct]
      /\ stored = {} /\ had = {} /\ contested = {} /\ faults = 0
  BY DEF ScreenInit, Ops
<1> DEFINE x == [NoLoad EXCEPT !.stage = "asked"]
<1>2. loads = [l \in Spots |-> IF LoadRow.loads /\ l = 1 THEN x ELSE NoLoad]
  BY DEF ScreenInit, Spots
<1>3. /\ NoLoad \in LoadRec /\ NoLoad.stage = "none"
      /\ x \in LoadRec /\ x.stage = "asked" /\ x.key = 1 /\ x.snap = {} /\ x.waiter = 0 /\ x.live
  <2>1. x = [stage |-> "asked", key |-> 1, snap |-> {}, waiter |-> 0, live |-> TRUE]  BY FirstsAre
  <2> QED  BY <2>1, ScreensAssumption, NoLoadIs DEF LoadRec
<1> HIDE DEF x
<1>4. loads \in [Spots -> LoadRec]  BY <1>2, <1>3
<1>5. \A l \in Spots : loads[l].stage # "none" => loads[l] = x  BY <1>2, <1>3
<1>6. LoadRow.loads => LiveOut
  <2>1. 1 \in Spots  BY ScreensAssumption DEF Spots
  <2>2. LoadRow.loads => loads[1] = x  BY <1>2, <2>1
  <2> QED  BY <1>3, <2>1, <2>2 DEF LiveOut
<1>7. NoAct \in ActRec /\ NoAct.stage = "none"  BY DEF NoAct, ActRec, Lines
<1>8. \A a \in Clicks : acts[a] = NoAct  BY <1>1
<1>9. data \in DataRec /\ data.acts = {} /\ data.key = 1 /\ (~LoadRow.loads => data.loaded)
  <2>1. [Unloaded EXCEPT !.loaded = TRUE] = [loaded |-> TRUE, key |-> 1, acts |-> {}]
    BY FirstsAre
  <2>2. CASE LoadRow.loads
    <3>1. data = Unloaded  BY <1>1, <2>2
    <3> QED  BY <2>2, <3>1, UnloadedIs DEF DataRec
  <2>3. CASE ~LoadRow.loads
    <3>1. data = [loaded |-> TRUE, key |-> 1, acts |-> {}]  BY <1>1, <2>1, <2>3
    <3> QED  BY <3>1 DEF DataRec
  <2> QED  BY <2>2, <2>3
<1>10. ScreenTypeOK
  <2>1. notice \in NoticeRec  BY <1>1, ScreensAssumption DEF NoticeRec, LoadFailed
  <2>2. acts \in [Clicks -> ActRec]  BY <1>1, <1>7
  <2>3. DOMAIN slots = {Op(o).slot : o \in Ops}  BY <1>1
  <2>4. stored \in SUBSET Displayable /\ had \in SUBSET Displayable /\ contested \in SUBSET Switches
        /\ faults \in 0 .. MaxFaults /\ key \in {1, 2} /\ open \in BOOLEAN
    BY <1>1, ScreensAssumption
  <2> QED
    BY <1>1, <1>4, <1>9, <2>1, <2>2, <2>3, <2>4
    DEF ScreenTypeOK, DataRec, NoticeRec, ActRec, Spots, LoadRec, Ops
<1>11. LoadsOK  BY <1>1, <1>3, <1>5 DEF LoadsOK
<1>12. ActsOK /\ OnceOut  BY <1>7, <1>8 DEF ActsOK, OnceOut, UnderWay
<1>13. HadOK /\ Claimed  BY <1>1, <1>9 DEF HadOK, Claimed
<1>14. Current  BY <1>1, <1>9 DEF Current
<1>15. SlotsHeld  BY <1>1 DEF SlotsHeld
<1>16. Reported  BY <1>6, <1>9 DEF Reported
<1> QED  BY <1>10, <1>11, <1>12, <1>13, <1>14, <1>15, <1>16 DEF ScreenIInv

LEMMA ScreenStep == ASSUME ScreenIInv, ScreenNext PROVE ScreenIInv'
<1>1. CASE Retry \/ Poll  BY <1>1, AskAgainKeeps
<1>2. ASSUME NEW k \in {1, 2}, Choose(k) PROVE ScreenIInv'  BY <1>2, ChooseKeeps
<1>3. ASSUME NEW l \in Spots, LoadStep(l) \/ LoadFails(l) PROVE ScreenIInv'
  BY <1>3, LoadServedKeeps, LoadAnsweredKeeps, LoadFailsKeeps DEF LoadStep
<1>4. ASSUME NEW a \in Clicks, ActStep(a) \/ Refuse(a) \/ LoseAnswer(a) PROVE ScreenIInv'
  BY <1>4, CarriedKeeps, AnswerAwaitingKeeps, AnswerLoadingKeeps, AnswerInPlaceKeeps, FailKeeps DEF ActStep
<1>5. ASSUME NEW a \in Clicks, NEW o \in Ops, NEW line \in Lines, Click(a, o, line) PROVE ScreenIInv'
  BY <1>5, ClickKeeps
<1> QED  BY <1>1, <1>2, <1>3, <1>4, <1>5 DEF ScreenNext, Spots, Ops

\* The invariant holds on every page whose row is coherent, for any number of clicks,
\* loads and faults.
THEOREM ScreenInvariance == ScreenSpec => []ScreenIInv
<1>1. ASSUME ScreenIInv, UNCHANGED screenVars PROVE ScreenIInv'
  <2>0. ScreenTypeOK /\ LoadsOK /\ Current /\ Reported  BY <1>1 DEF ScreenIInv
  <2>1. UNCHANGED <<page, open, key, data, notice, slots, acts, loads, stored, had, contested, faults>>
    BY <1>1 DEF screenVars
  <2>2. ScreenTypeOK'  BY <2>0, <2>1, TypeIs, TypeAgain
  <2>3. ActsOK' /\ HadOK' /\ Claimed' /\ SlotsHeld' /\ OnceOut'  BY <1>1, <2>1, OthersKept
  <2>4. LoadsOK'  BY <2>0, <2>1 DEF LoadsOK, LoadRow
  <2>5. Current'  BY <2>0, <2>1 DEF Current, LoadRow, LiveOut
  <2>6. Reported'
    BY <2>0, <2>1 DEF Reported, RenewsError, LiveOut, Renewing, OpOf, Op, LoadRow, View
  <2> QED  BY <2>2, <2>3, <2>4, <2>5, <2>6 DEF ScreenIInv
<1> QED  BY <1>1, ScreenStart, ScreenStep, PTL DEF ScreenSpec

\* Data, errors, slots, operations and loads keep their types on every page.
THEOREM ScreenTypeCorrect == ScreenSpec => []ScreenTypeOK
<1>1. ScreenIInv => ScreenTypeOK  BY DEF ScreenIInv
<1> QED  BY <1>1, ScreenInvariance, PTL

\* Nothing is displayed as done, and no switch as on, that the server never had and is not
\* being asked for, whatever is refused, late or lost; but for the switches that crossed
\* another request when they moved.
THEOREM OnlyStoredIsClaimed == ScreenSpec => []ClaimsOnlyStored
<1>1. ScreenIInv => ClaimsOnlyStored
  BY DEF ScreenIInv, Claimed, AsksOn, ClaimsOnlyStored, AskedFor
<1> QED  BY <1>1, ScreenInvariance, PTL

\* Behind a control that closes one request is out at a time, through its reload.
THEOREM SubmittedOnce == ScreenSpec => []SubmitsOnce
<1>1. ScreenIInv => SubmitsOnce  BY DEF ScreenIInv, OnceOut, Alone, SubmitsOnce
<1> QED  BY <1>1, ScreenInvariance, PTL

\* A page whose effect cleans up shows the list of the filter chosen last when it is at rest.
THEOREM FilterIsShown == ScreenSpec => []ShowsWhatWasAsked
<1>1. ASSUME ScreenIInv PROVE ShowsWhatWasAsked
  <2>1. Quiet => ~LiveOut  BY DEF Quiet, Loading, LiveOut, Spots
  <2> QED  BY <1>1, <2>1 DEF ScreenIInv, Current, ShowsWhatWasAsked
<1> QED  BY <1>1, ScreenInvariance, PTL

\* A page at rest has its controls open, and reports what it could not load.
THEOREM UsableAtRest == ScreenSpec => []NeverStuck
<1>1. ASSUME ScreenIInv PROVE NeverStuck
  <2>1. SUFFICES ASSUME open, Quiet
        PROVE  /\ \A s \in DOMAIN slots :
                    slots[s] = Free \/ \E a \in Clicks : acts[a].stage = "done" /\ OpOf(a).frees = "failure"
               /\ RenewsError /\ ~data.loaded /\ ~LoadRow.mute => notice.page # 0
    BY DEF NeverStuck
  <2>2. ~LiveOut /\ \A a \in Clicks : ~UnderWay(a)  BY <2>1 DEF Quiet, Loading, LiveOut, Spots
  <2>3. \A s \in DOMAIN slots :
          slots[s] = Free \/ \E a \in Clicks : acts[a].stage = "done" /\ OpOf(a).frees = "failure"
    BY <1>1, <2>2 DEF ScreenIInv, SlotsHeld, Holds
  <2>4. \A a \in Clicks : ~Renewing(a)  BY <2>2 DEF Renewing, UnderWay
  <2>5. RenewsError /\ ~data.loaded /\ ~LoadRow.mute => notice.page # 0
    BY <1>1, <2>2, <2>4 DEF ScreenIInv, Reported
  <2> QED  BY <2>3, <2>5
<1> QED  BY <1>1, ScreenInvariance, PTL

=============================================================================
