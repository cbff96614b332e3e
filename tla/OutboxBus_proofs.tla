-------------------------- MODULE OutboxBus_proofs --------------------------
(* The outbox, proved for every set of sessions, every catalogue of events and *)
(* every bound on faults.  The argument is about who holds a row: a session    *)
(* holds only unstamped rows and shares none, so that the transaction that     *)
(* stamps a row is the first and the last whose effects on it commit.          *)
EXTENDS OutboxBus, TLAPS

Registered(e) == NameOf[e] = "identity.user.registered"

\* What a session's transaction may hold at each point of its code.
SessionOK(s) ==
  /\ pc[s] \in {"drain", "taken", "consumed", "broadcast"} => RoleOf[s] = "realtime"
  /\ pc[s] \in {"loop", "aborted"} => RoleOf[s] \in Workers
  /\ pc[s] \in {"idle", "drain", "taken"} => staged[s] = {}
  /\ pc[s] \notin {"taken", "loop", "aborted"} => todo[s] = {}
  /\ pc[s] \in {"taken", "consumed", "broadcast"} => budget[s] > 0
  /\ pc[s] = "consumed" => \A e \in staged[s] : Registered(e) => welcomed[e] > 0
  /\ pc[s] = "broadcast" => \A e \in staged[s] : e \in dispatched /\ log[e] = << "realtime" >>
  /\ RoleOf[s] \in Workers =>
       /\ phase[s] \in 1 .. Len(Queries[RoleOf[s]])
       /\ \A e \in Held(s) : ~ Registered(e)

\* The log of a row, as the value it has rather than its length.
LogOK(e) == IF e \in dispatched THEN \E r \in Roles : log[e] = << r >> ELSE log[e] = <<>>

IInv ==
  /\ TypeOK
  /\ \A s \in Sessions : SessionOK(s)
  /\ \A e \in Events : LogOK(e)
  /\ LocksExclusive
  /\ LedgerAgrees
  /\ WelcomedWhenStamped
  /\ BroadcastAfterCommit

-----------------------------------------------------------------------------
(* The names a worker asks for.                                               *)

\* No worker's SELECT asks for a registration: only the dispatcher can take one.
LEMMA NoWorkerQueriesRegistrations ==
  ASSUME NEW w \in Workers, NEW i \in 1 .. Len(Queries[w])
  PROVE  "identity.user.registered" \notin Queries[w][i]
BY DEF Workers, Queries

\* Every worker's transaction starts at a SELECT it has.
LEMMA WorkersHaveQueries ==
  ASSUME NEW w \in Workers
  PROVE  Len(Queries[w]) \in Nat /\ 1 \in 1 .. Len(Queries[w])
BY DEF Workers, Queries

\* The first taker of a row is the whole of its log.
LEMMA FirstTaker ==
  ASSUME NEW r \in Roles
  PROVE  Append(<<>>, r) = << r >> /\ << r >> \in Seq(Roles)
OBVIOUS

-----------------------------------------------------------------------------

\* The empty outbox satisfies the invariant.
THEOREM InitInv == Init => IInv
<1> SUFFICES ASSUME Init PROVE IInv
  OBVIOUS
<1> USE BusAssumption DEF BusAssumption, Init
<1>1. TypeOK
  BY DEF TypeOK, PCs
<1>2. ASSUME NEW s \in Sessions PROVE SessionOK(s)
  BY WorkersHaveQueries DEF SessionOK, Held
<1>3. ASSUME NEW e \in Events PROVE LogOK(e)
  BY DEF LogOK
<1>4. LocksExclusive /\ LedgerAgrees /\ WelcomedWhenStamped /\ BroadcastAfterCommit
  BY DEF LocksExclusive, LedgerAgrees, WelcomedWhenStamped, BroadcastAfterCommit, Locked, Held, Undispatched
<1> QED
  BY <1>1, <1>2, <1>3, <1>4 DEF IInv

\* A drain starts: the session holds nothing yet.
LEMMA StartDrainInv ==
  ASSUME IInv, NEW s \in Sessions, StartDrain(s)
  PROVE  IInv'
<1> USE BusAssumption DEF BusAssumption, IInv, StartDrain, rowVars
<1>1. TypeOK'
  BY DEF TypeOK, PCs, Roles, Workers
<1>2. ASSUME NEW t \in Sessions PROVE SessionOK(t)'
  BY WorkersHaveQueries DEF SessionOK, Held, TypeOK, Registered
<1>3. ASSUME NEW e \in Events PROVE LogOK(e)'
  BY DEF LogOK
<1>4. LocksExclusive'
  BY DEF LocksExclusive, Locked, Held, Undispatched, TypeOK, SessionOK
<1>5. LedgerAgrees' /\ WelcomedWhenStamped' /\ BroadcastAfterCommit'
  BY DEF LedgerAgrees, WelcomedWhenStamped, BroadcastAfterCommit
<1> QED
  BY <1>1, <1>2, <1>3, <1>4, <1>5

\* A drain ends: nothing was held.
LEMMA EndDrainInv ==
  ASSUME IInv, NEW s \in Sessions, EndDrain(s)
  PROVE  IInv'
<1> USE BusAssumption DEF BusAssumption, IInv, EndDrain, rowVars
<1>1. TypeOK'
  BY DEF TypeOK, PCs, Roles, Workers
<1>2. ASSUME NEW t \in Sessions PROVE SessionOK(t)'
  BY WorkersHaveQueries DEF SessionOK, Held, TypeOK, Registered
<1>3. ASSUME NEW e \in Events PROVE LogOK(e)'
  BY DEF LogOK
<1>4. LocksExclusive'
  BY DEF LocksExclusive, Locked, Held, Undispatched, TypeOK, SessionOK
<1>5. LedgerAgrees' /\ WelcomedWhenStamped' /\ BroadcastAfterCommit'
  BY DEF LedgerAgrees, WelcomedWhenStamped, BroadcastAfterCommit
<1> QED
  BY <1>1, <1>2, <1>3, <1>4, <1>5

\* An SQL error aborts the transaction; the locks stay until it ends.
LEMMA RowFailsInv ==
  ASSUME IInv, NEW s \in Sessions, RowFails(s)
  PROVE  IInv'
<1> USE BusAssumption DEF BusAssumption, IInv, RowFails, rowVars
<1>1. TypeOK'
  BY DEF TypeOK, PCs, Roles, Workers
<1>2. ASSUME NEW t \in Sessions PROVE SessionOK(t)'
  BY WorkersHaveQueries DEF SessionOK, Held, TypeOK, Registered
<1>3. ASSUME NEW e \in Events PROVE LogOK(e)'
  BY DEF LogOK
<1>4. LocksExclusive'
  BY DEF LocksExclusive, Locked, Held, Undispatched, TypeOK, SessionOK
<1>5. LedgerAgrees' /\ WelcomedWhenStamped' /\ BroadcastAfterCommit'
  BY DEF LedgerAgrees, WelcomedWhenStamped, BroadcastAfterCommit
<1> QED
  BY <1>1, <1>2, <1>3, <1>4, <1>5

\* The dispatcher locks a row that is unstamped and that nobody holds.
LEMMA TakeOldestInv ==
  ASSUME IInv, NEW s \in Sessions, TakeOldest(s)
  PROVE  IInv'
<1> USE BusAssumption DEF BusAssumption, IInv, rowVars
<1>0. PICK e \in Free : todo' = [todo EXCEPT ![s] = {e}]
  BY DEF TakeOldest, IsOldest
<1>e. e \in Undispatched /\ \A t \in Sessions : e \notin Held(t)
  BY <1>0 DEF Free
<1>f. UNCHANGED <<rowVars, phase, staged, budget, faults>>
      /\ pc' = [pc EXCEPT ![s] = "taken"] /\ pc[s] = "drain" /\ budget[s] > 0
  BY DEF TakeOldest
<1>1. TypeOK'
  BY <1>0, <1>e, <1>f DEF TypeOK, PCs, Undispatched
<1>2. ASSUME NEW t \in Sessions PROVE SessionOK(t)'
  <2>1. CASE t = s
    BY <1>0, <1>f, <2>1 DEF SessionOK, TypeOK, Workers
  <2>2. CASE t # s
    <3>1. pc'[t] = pc[t] /\ todo'[t] = todo[t]
      BY <1>0, <1>f, <2>2 DEF TypeOK
    <3> QED
      BY <1>f, <3>1 DEF SessionOK, Held, Registered
  <2> QED
    BY <2>1, <2>2
<1>3. ASSUME NEW f \in Events PROVE LogOK(f)'
  BY <1>f DEF LogOK
<1>4. LocksExclusive'
  <2>1. \A t \in Sessions : Locked(t)' \subseteq (IF t = s THEN {e} ELSE Locked(t))
    BY <1>0, <1>f DEF Locked, Held, TypeOK, SessionOK
  <2>2. Undispatched' = Undispatched /\ \A t \in Sessions : e \notin Locked(t)
    BY <1>e, <1>f DEF Undispatched, Locked
  <2> QED
    BY <1>e, <2>1, <2>2 DEF LocksExclusive
<1>5. LedgerAgrees' /\ WelcomedWhenStamped' /\ BroadcastAfterCommit'
  BY <1>f DEF LedgerAgrees, WelcomedWhenStamped, BroadcastAfterCommit
<1> QED
  BY <1>1, <1>2, <1>3, <1>4, <1>5

\* A worker adds unheld rows to the ones it has staged; none is a registration.
LEMMA SelectRowsInv ==
  ASSUME IInv, NEW s \in Sessions, RoleOf[s] \in Workers, pc[s] \in {"idle", "loop"},
         NEW i \in 1 .. Len(Queries[RoleOf[s]]), SelectRows(s, i)
  PROVE  IInv'
<1> USE BusAssumption DEF BusAssumption, IInv, rowVars
<1> DEFINE found == {e \in Free : NameOf[e] \in Queries[RoleOf[s]][i]}
<1>f. UNCHANGED <<rowVars, staged, budget, faults>>
      /\ pc' = [pc EXCEPT ![s] = "loop"] /\ phase' = [phase EXCEPT ![s] = i]
      /\ todo' = [todo EXCEPT ![s] = found]
  BY DEF SelectRows
<1>e. \A e \in found : e \in Undispatched /\ \A t \in Sessions : e \notin Held(t)
  BY DEF Free
<1>w. i \in Nat
  BY WorkersHaveQueries
<1>r. \A e \in found : ~ Registered(e)
  BY NoWorkerQueriesRegistrations DEF Registered
<1> HIDE DEF found
<1>1. TypeOK'
  <2>1. found \subseteq Events
    BY <1>e DEF Undispatched, TypeOK
  <2> QED
    BY <1>f, <1>w, <2>1 DEF TypeOK, PCs
<1>2. ASSUME NEW t \in Sessions PROVE SessionOK(t)'
  <2>1. CASE t = s
    <3>1. pc'[s] = "loop" /\ todo'[s] = found /\ staged'[s] = staged[s] /\ phase'[s] = i
      BY <1>f DEF TypeOK
    <3>2. \A e \in staged[s] : ~ Registered(e)
      BY DEF SessionOK, Held
    <3> QED
      BY <1>f, <1>r, <2>1, <3>1, <3>2 DEF SessionOK, Held, Registered
  <2>2. CASE t # s
    <3>1. pc'[t] = pc[t] /\ todo'[t] = todo[t] /\ phase'[t] = phase[t]
      BY <1>f, <2>2 DEF TypeOK
    <3> QED
      BY <1>f, <3>1 DEF SessionOK, Held, Registered
  <2> QED
    BY <2>1, <2>2
<1>3. ASSUME NEW f \in Events PROVE LogOK(f)'
  BY <1>f DEF LogOK
<1>4. LocksExclusive'
  <2>1. \A t \in Sessions : Locked(t)' \subseteq (IF t = s THEN found \union Locked(s) ELSE Locked(t))
    BY <1>f DEF Locked, Held, TypeOK
  <2>2. Undispatched' = Undispatched /\ \A e \in found, t \in Sessions : e \notin Locked(t)
    BY <1>e, <1>f DEF Undispatched, Locked
  <2> QED
    BY <1>e, <2>1, <2>2 DEF LocksExclusive
<1>5. LedgerAgrees' /\ WelcomedWhenStamped' /\ BroadcastAfterCommit'
  BY <1>f DEF LedgerAgrees, WelcomedWhenStamped, BroadcastAfterCommit
<1> QED
  BY <1>1, <1>2, <1>3, <1>4, <1>5

\* A poll's first SELECT and its next ones are queries its worker has.
LEMMA PollInv ==
  ASSUME IInv, NEW s \in Sessions, Poll(s) \/ NextQuery(s)
  PROVE  IInv'
<1>1. CASE Poll(s)
  BY <1>1, WorkersHaveQueries, SelectRowsInv DEF Poll
<1>2. CASE NextQuery(s)
  <2>1. RoleOf[s] \in Workers /\ phase[s] \in 1 .. Len(Queries[RoleOf[s]])
    BY <1>2 DEF NextQuery, IInv, SessionOK
  <2>2. phase[s] + 1 \in 1 .. Len(Queries[RoleOf[s]])
    BY <1>2, <2>1, WorkersHaveQueries DEF NextQuery
  <2> QED
    BY <1>2, <2>1, <2>2, SelectRowsInv DEF NextQuery
<1> QED
  BY <1>1, <1>2

\* The welcome commits before the row can be stamped.
LEMMA RunConsumersInv ==
  ASSUME IInv, NEW s \in Sessions, RunConsumers(s)
  PROVE  IInv'
<1> USE BusAssumption DEF BusAssumption, IInv
<1>0. PICK e \in todo[s] :
        /\ welcomed' = IF e \notin processed /\ Registered(e)
                       THEN [welcomed EXCEPT ![e] = @ + 1] ELSE welcomed
        /\ staged' = [staged EXCEPT ![s] = {e}]
  BY DEF RunConsumers, Registered
<1>f. UNCHANGED <<published, dispatched, log, processed, broadcasted, phase, budget, faults>>
      /\ pc' = [pc EXCEPT ![s] = "consumed"] /\ pc[s] = "taken"
      /\ todo' = [todo EXCEPT ![s] = {}]
  BY DEF RunConsumers
<1>e. e \in Events /\ e \in Locked(s) /\ e \notin processed
  BY <1>f DEF LocksExclusive, LedgerAgrees, Locked, Held, Undispatched, TypeOK
<1>w. /\ welcomed' \in [Events -> Nat]
      /\ \A f \in Events : welcomed'[f] >= welcomed[f]
      /\ Registered(e) => welcomed'[e] > 0
  BY <1>0, <1>e DEF TypeOK
<1>1. TypeOK'
  BY <1>0, <1>e, <1>f, <1>w DEF TypeOK, PCs
<1>2. ASSUME NEW t \in Sessions PROVE SessionOK(t)'
  <2>1. CASE t = s
    <3>1. pc'[s] = "consumed" /\ todo'[s] = {} /\ staged'[s] = {e} /\ RoleOf[s] = "realtime"
      BY <1>0, <1>f DEF TypeOK, SessionOK
    <3>2. budget'[s] > 0
      BY <1>f DEF SessionOK
    <3>3. \A f \in staged'[s] : Registered(f) => welcomed'[f] > 0
      BY <1>w, <3>1
    <3>4. RoleOf[s] \notin Workers
      BY <3>1 DEF Workers
    <3> QED
      BY <2>1, <3>1, <3>2, <3>3, <3>4 DEF SessionOK, Registered
  <2>2. CASE t # s
    <3>1. pc'[t] = pc[t] /\ todo'[t] = todo[t] /\ staged'[t] = staged[t]
      BY <1>0, <1>f, <2>2 DEF TypeOK
    <3>2. \A f \in staged[t] : Registered(f) /\ welcomed[f] > 0 => welcomed'[f] > 0
      BY <1>w DEF TypeOK
    <3> QED
      BY <1>f, <3>1, <3>2 DEF SessionOK, Held, Registered
  <2> QED
    BY <2>1, <2>2
<1>3. ASSUME NEW f \in Events PROVE LogOK(f)'
  BY <1>f DEF LogOK
<1>4. LocksExclusive'
  <2>1. \A t \in Sessions : Locked(t)' \subseteq Locked(t)
    BY <1>0, <1>f, <1>e DEF Locked, Held, TypeOK
  <2>2. Undispatched' = Undispatched
    BY <1>f DEF Undispatched
  <2> QED
    BY <2>1, <2>2 DEF LocksExclusive
<1>5. LedgerAgrees' /\ BroadcastAfterCommit'
  BY <1>f DEF LedgerAgrees, BroadcastAfterCommit
<1>6. WelcomedWhenStamped'
  BY <1>f, <1>w DEF WelcomedWhenStamped, TypeOK
<1> QED
  BY <1>1, <1>2, <1>3, <1>4, <1>5, <1>6

\* The dispatcher's row was unstamped, so its log was empty.
LEMMA StampOneInv ==
  ASSUME IInv, NEW s \in Sessions, StampOne(s)
  PROVE  IInv'
<1> USE BusAssumption DEF BusAssumption, IInv
<1>f. /\ UNCHANGED <<published, welcomed, broadcasted, phase, staged, budget, faults>>
      /\ pc' = [pc EXCEPT ![s] = "broadcast"] /\ pc[s] = "consumed"
      /\ todo' = [todo EXCEPT ![s] = {}]
      /\ dispatched' = dispatched \union staged[s] /\ processed' = processed \union staged[s]
      /\ log' = [e \in Events |-> IF e \in staged[s] THEN Append(log[e], "realtime") ELSE log[e]]
  BY DEF StampOne
<1>s. Locked(s) = staged[s] /\ staged[s] \subseteq Undispatched /\ staged[s] \subseteq Events
  BY <1>f DEF Locked, Held, SessionOK, LocksExclusive, TypeOK
<1>l. \A e \in Events : log'[e] = IF e \in staged[s] THEN << "realtime" >> ELSE log[e]
  <2>1. ASSUME NEW e \in staged[s] PROVE log[e] = <<>>
    BY <1>s DEF LogOK, Undispatched
  <2>2. ASSUME NEW e \in Events PROVE log'[e] = IF e \in staged[s] THEN << "realtime" >> ELSE log[e]
    BY <1>f, <2>1, FirstTaker DEF Roles
  <2> QED
    BY <2>2
<1>1. TypeOK'
  <2>1. log' \in [Events -> Seq(Roles)]
    <3>1. ASSUME NEW e \in Events PROVE log'[e] \in Seq(Roles)
      BY <1>l, FirstTaker DEF Roles, TypeOK
    <3> QED
      BY <1>f, <3>1
  <2> QED
    BY <1>f, <1>s, <2>1 DEF TypeOK, PCs, Undispatched
<1>2. ASSUME NEW t \in Sessions PROVE SessionOK(t)'
  <2>1. CASE t = s
    <3>1. pc'[s] = "broadcast" /\ todo'[s] = {} /\ staged'[s] = staged[s] /\ RoleOf[s] = "realtime"
      BY <1>f DEF TypeOK, SessionOK
    <3> QED
      BY <1>f, <1>l, <1>s, <2>1, <3>1 DEF SessionOK, Workers
  <2>2. CASE t # s
    <3>1. pc'[t] = pc[t] /\ todo'[t] = todo[t] /\ staged'[t] = staged[t]
      BY <1>f, <2>2 DEF TypeOK
    <3>2. pc[t] = "broadcast" => \A e \in staged[t] : e \in dispatched' /\ log'[e] = << "realtime" >>
      BY <1>f, <1>l, <1>s DEF SessionOK, TypeOK
    <3> QED
      BY <1>f, <3>1, <3>2 DEF SessionOK, Held, Registered
  <2> QED
    BY <2>1, <2>2
<1>3. ASSUME NEW f \in Events PROVE LogOK(f)'
  BY <1>f, <1>l DEF LogOK, Roles
<1>4. LocksExclusive'
  <2>1. \A t \in Sessions : Locked(t)' \subseteq (IF t = s THEN {} ELSE Locked(t))
    BY <1>f DEF Locked, Held, TypeOK
  <2>2. Undispatched' = Undispatched \ Locked(s)
    BY <1>f, <1>s DEF Undispatched
  <2> QED
    BY <2>1, <2>2 DEF LocksExclusive
<1>5. LedgerAgrees'
  <2>1. \A e \in Events : e \in staged[s] => e \notin dispatched
    BY <1>s DEF Undispatched
  <2> QED
    BY <1>f, <1>l, <1>s, <2>1 DEF LedgerAgrees, TypeOK
<1>6. WelcomedWhenStamped'
  BY <1>f, <1>s DEF WelcomedWhenStamped, SessionOK, Registered
<1>7. BroadcastAfterCommit'
  BY <1>f, <1>l, <1>s DEF BroadcastAfterCommit, Undispatched, TypeOK
<1> QED
  BY <1>1, <1>2, <1>3, <1>4, <1>5, <1>6, <1>7

\* What is broadcast has been committed.
LEMMA BroadcastInv ==
  ASSUME IInv, NEW s \in Sessions, Broadcast(s)
  PROVE  IInv'
<1> USE BusAssumption DEF BusAssumption, IInv
<1>f. /\ UNCHANGED <<published, dispatched, log, processed, welcomed, phase, todo, faults>>
      /\ pc' = [pc EXCEPT ![s] = "drain"] /\ pc[s] = "broadcast"
      /\ broadcasted' = broadcasted \union staged[s]
      /\ staged' = [staged EXCEPT ![s] = {}] /\ budget' = [budget EXCEPT ![s] = @ - 1]
  BY DEF Broadcast
<1>b. budget[s] > 0 /\ \A e \in staged[s] : e \in dispatched /\ log[e] = << "realtime" >>
  BY <1>f DEF SessionOK
<1>1. TypeOK'
  <2>1. budget' \in [Sessions -> 0 .. MaxRowsPerDrain]
    BY <1>b, <1>f DEF TypeOK
  <2>2. broadcasted' \subseteq Events /\ staged' \in [Sessions -> SUBSET Events]
    BY <1>f DEF TypeOK
  <2> QED
    BY <1>f, <2>1, <2>2 DEF TypeOK, PCs
<1>2. ASSUME NEW t \in Sessions PROVE SessionOK(t)'
  <2>1. CASE t = s
    BY <1>f, <2>1 DEF SessionOK, TypeOK, Held, Workers
  <2>2. CASE t # s
    <3>1. pc'[t] = pc[t] /\ staged'[t] = staged[t] /\ budget'[t] = budget[t]
      BY <1>f, <2>2 DEF TypeOK
    <3> QED
      BY <1>f, <3>1 DEF SessionOK, Held, Registered
  <2> QED
    BY <2>1, <2>2
<1>3. ASSUME NEW e \in Events PROVE LogOK(e)'
  BY <1>f DEF LogOK
<1>4. LocksExclusive'
  <2>1. todo[s] = {}
    BY <1>f DEF SessionOK
  <2>2. \A t \in Sessions : Locked(t)' \subseteq Locked(t)
    BY <1>f, <2>1 DEF Locked, Held, TypeOK
  <2>3. Undispatched' = Undispatched
    BY <1>f DEF Undispatched
  <2> QED
    BY <2>2, <2>3 DEF LocksExclusive
<1>5. LedgerAgrees' /\ WelcomedWhenStamped' /\ BroadcastAfterCommit'
  BY <1>b, <1>f DEF LedgerAgrees, WelcomedWhenStamped, BroadcastAfterCommit
<1> QED
  BY <1>1, <1>2, <1>3, <1>4, <1>5

\* A handled row stays with its session.
LEMMA HandleRowInv ==
  ASSUME IInv, NEW s \in Sessions, HandleRow(s)
  PROVE  IInv'
<1> USE BusAssumption DEF BusAssumption, IInv, rowVars
<1>0. PICK e \in todo[s] : /\ todo' = [todo EXCEPT ![s] = @ \ {e}]
                           /\ staged' = [staged EXCEPT ![s] = @ \union {e}]
  BY DEF HandleRow, IsOldest
<1>f. UNCHANGED <<rowVars, pc, phase, budget, faults>> /\ pc[s] = "loop"
  BY DEF HandleRow
<1>h. \A t \in Sessions : Held(t)' = Held(t)
  BY <1>0, <1>f DEF Held, TypeOK
<1>1. TypeOK'
  BY <1>0, <1>f DEF TypeOK
<1>2. ASSUME NEW t \in Sessions PROVE SessionOK(t)'
  <2>1. CASE t = s
    BY <1>f, <1>h, <2>1 DEF SessionOK, Registered
  <2>2. CASE t # s
    <3>1. todo'[t] = todo[t] /\ staged'[t] = staged[t]
      BY <1>0, <2>2 DEF TypeOK
    <3> QED
      BY <1>f, <1>h, <3>1 DEF SessionOK, Registered
  <2> QED
    BY <2>1, <2>2
<1>3. ASSUME NEW f \in Events PROVE LogOK(f)'
  BY <1>f DEF LogOK
<1>4. LocksExclusive'
  BY <1>f, <1>h DEF LocksExclusive, Locked, Undispatched
<1>5. LedgerAgrees' /\ WelcomedWhenStamped' /\ BroadcastAfterCommit'
  BY <1>f DEF LedgerAgrees, WelcomedWhenStamped, BroadcastAfterCommit
<1> QED
  BY <1>1, <1>2, <1>3, <1>4, <1>5

\* A worker's rows were unstamped, so their logs were empty.
LEMMA CommitBatchInv ==
  ASSUME IInv, NEW s \in Sessions, CommitBatch(s)
  PROVE  IInv'
<1> USE BusAssumption DEF BusAssumption, IInv
<1>f. /\ UNCHANGED <<published, processed, welcomed, broadcasted, todo, budget, faults>>
      /\ pc' = [pc EXCEPT ![s] = "idle"] /\ pc[s] = "loop"
      /\ phase' = [phase EXCEPT ![s] = 1] /\ todo[s] = {}
      /\ dispatched' = dispatched \union staged[s] /\ staged' = [staged EXCEPT ![s] = {}]
      /\ log' = [e \in Events |-> IF e \in staged[s] THEN Append(log[e], RoleOf[s]) ELSE log[e]]
  BY DEF CommitBatch
<1>r. RoleOf[s] \in Workers /\ RoleOf[s] \in Roles /\ RoleOf[s] # "realtime"
  BY <1>f DEF SessionOK, Roles, Workers
<1>s. Locked(s) = staged[s] /\ staged[s] \subseteq Undispatched /\ staged[s] \subseteq Events
  BY <1>f DEF Locked, Held, LocksExclusive, TypeOK
<1>l. \A e \in Events : log'[e] = IF e \in staged[s] THEN << RoleOf[s] >> ELSE log[e]
  <2>1. ASSUME NEW e \in staged[s] PROVE log[e] = <<>>
    BY <1>s DEF LogOK, Undispatched
  <2>2. ASSUME NEW e \in Events PROVE log'[e] = IF e \in staged[s] THEN << RoleOf[s] >> ELSE log[e]
    BY <1>f, <1>r, <2>1, FirstTaker
  <2> QED
    BY <2>2
<1>1. TypeOK'
  <2>1. log' \in [Events -> Seq(Roles)]
    <3>1. ASSUME NEW e \in Events PROVE log'[e] \in Seq(Roles)
      BY <1>l, <1>r, FirstTaker DEF TypeOK
    <3> QED
      BY <1>f, <3>1
  <2> QED
    BY <1>f, <1>s, <2>1 DEF TypeOK, PCs, Undispatched
<1>2. ASSUME NEW t \in Sessions PROVE SessionOK(t)'
  <2>1. CASE t = s
    <3>1. pc'[s] = "idle" /\ todo'[s] = {} /\ staged'[s] = {} /\ phase'[s] = 1
      BY <1>f DEF TypeOK
    <3> QED
      BY <1>r, <2>1, <3>1, WorkersHaveQueries DEF SessionOK, Held
  <2>2. CASE t # s
    <3>1. pc'[t] = pc[t] /\ todo'[t] = todo[t] /\ staged'[t] = staged[t] /\ phase'[t] = phase[t]
      BY <1>f, <2>2 DEF TypeOK
    <3>2. pc[t] = "broadcast" => \A e \in staged[t] : e \in dispatched' /\ log'[e] = << "realtime" >>
      BY <1>f, <1>l, <1>s DEF SessionOK, TypeOK, Undispatched
    <3> QED
      BY <1>f, <3>1, <3>2 DEF SessionOK, Held, Registered
  <2> QED
    BY <2>1, <2>2
<1>3. ASSUME NEW f \in Events PROVE LogOK(f)'
  BY <1>f, <1>l, <1>r DEF LogOK
<1>4. LocksExclusive'
  <2>1. \A t \in Sessions : Locked(t)' \subseteq (IF t = s THEN {} ELSE Locked(t))
    BY <1>f DEF Locked, Held, TypeOK
  <2>2. Undispatched' = Undispatched \ Locked(s)
    BY <1>f, <1>s DEF Undispatched
  <2> QED
    BY <2>1, <2>2 DEF LocksExclusive
<1>n. << RoleOf[s] >> # << "realtime" >>
  BY <1>r
<1>5. LedgerAgrees'
  <2>1. \A e \in Events : e \in staged[s] => e \notin dispatched
    BY <1>s DEF Undispatched
  <2> QED
    BY <1>f, <1>l, <1>n, <1>s, <2>1 DEF LedgerAgrees, TypeOK
<1>6. WelcomedWhenStamped'
  <2>1. \A e \in staged[s] : ~ Registered(e)
    BY <1>r DEF SessionOK, Held
  <2> QED
    BY <1>f, <2>1 DEF WelcomedWhenStamped, Registered
<1>7. BroadcastAfterCommit'
  <2>1. \A e \in Events : e \in staged[s] => e \notin dispatched
    BY <1>s DEF Undispatched
  <2> QED
    BY <1>f, <1>l, <2>1 DEF BroadcastAfterCommit, TypeOK
<1> QED
  BY <1>1, <1>2, <1>3, <1>4, <1>5, <1>6, <1>7

\* A rollback only gives rows back.
LEMMA EndAbortedInv ==
  ASSUME IInv, NEW s \in Sessions, EndAborted(s)
  PROVE  IInv'
<1> USE BusAssumption DEF BusAssumption, IInv, EndAborted, Rollback, rowVars
<1>1. TypeOK'
  BY DEF TypeOK, PCs, Roles, Workers
<1>2. ASSUME NEW t \in Sessions PROVE SessionOK(t)'
  BY WorkersHaveQueries DEF SessionOK, Held, TypeOK, Registered
<1>3. ASSUME NEW e \in Events PROVE LogOK(e)'
  BY DEF LogOK
<1>4. LocksExclusive'
  BY DEF LocksExclusive, Locked, Held, Undispatched, TypeOK, SessionOK
<1>5. LedgerAgrees' /\ WelcomedWhenStamped' /\ BroadcastAfterCommit'
  BY DEF LedgerAgrees, WelcomedWhenStamped, BroadcastAfterCommit
<1> QED
  BY <1>1, <1>2, <1>3, <1>4, <1>5

\* A crash is a rollback.
LEMMA AbortInv ==
  ASSUME IInv, NEW s \in Sessions, Abort(s)
  PROVE  IInv'
<1> USE BusAssumption DEF BusAssumption, IInv, Abort, Rollback, rowVars
<1>1. TypeOK'
  BY DEF TypeOK, PCs, Roles, Workers
<1>2. ASSUME NEW t \in Sessions PROVE SessionOK(t)'
  BY WorkersHaveQueries DEF SessionOK, Held, TypeOK, Registered
<1>3. ASSUME NEW e \in Events PROVE LogOK(e)'
  BY DEF LogOK
<1>4. LocksExclusive'
  BY DEF LocksExclusive, Locked, Held, Undispatched, TypeOK, SessionOK
<1>5. LedgerAgrees' /\ WelcomedWhenStamped' /\ BroadcastAfterCommit'
  BY DEF LedgerAgrees, WelcomedWhenStamped, BroadcastAfterCommit
<1> QED
  BY <1>1, <1>2, <1>3, <1>4, <1>5

\* A new row is unstamped and nobody holds it.
LEMMA PublishInv ==
  ASSUME IInv, NEW e \in Events, Publish(e)
  PROVE  IInv'
<1> USE DEF IInv, Publish, sessVars
<1>1. TypeOK'
  BY DEF TypeOK
<1>2. ASSUME NEW t \in Sessions PROVE SessionOK(t)'
  BY DEF SessionOK, Held, Registered
<1>3. ASSUME NEW f \in Events PROVE LogOK(f)'
  BY DEF LogOK
<1>4. LocksExclusive'
  BY DEF LocksExclusive, Locked, Held, Undispatched
<1>5. LedgerAgrees' /\ WelcomedWhenStamped' /\ BroadcastAfterCommit'
  BY DEF LedgerAgrees, WelcomedWhenStamped, BroadcastAfterCommit
<1> QED
  BY <1>1, <1>2, <1>3, <1>4, <1>5

\* Every step, and every stutter, preserves the invariant.
LEMMA NextInv ==
  ASSUME IInv, [Next]_vars
  PROVE  IInv'
<1>1. CASE UNCHANGED vars
  BY <1>1 DEF vars, rowVars, sessVars, IInv, TypeOK, SessionOK, LogOK, LocksExclusive, LedgerAgrees,
              WelcomedWhenStamped, BroadcastAfterCommit, Locked, Held, Undispatched, Registered
<1>2. CASE \E e \in Events : Publish(e)
  BY <1>2, PublishInv
<1>3. ASSUME NEW s \in Sessions, Work(s) PROVE IInv'
  BY <1>3, StartDrainInv, TakeOldestInv, EndDrainInv, RunConsumersInv, StampOneInv, BroadcastInv,
     PollInv, HandleRowInv, CommitBatchInv, EndAbortedInv DEF Work
<1>4. ASSUME NEW s \in Sessions, RowFails(s) \/ Abort(s) PROVE IInv'
  BY <1>4, RowFailsInv, AbortInv
<1> QED
  BY <1>1, <1>2, <1>3, <1>4 DEF Next

\* The invariant holds in every state of the bus, for any events, takers and sessions.
THEOREM Invariance == Spec => []IInv
<1>1. Init => IInv
  BY InitInv
<1>2. IInv /\ [Next]_vars => IInv'
  BY NextInv
<1> QED
  BY <1>1, <1>2, PTL DEF Spec

-----------------------------------------------------------------------------
(* What the invariant gives.                                                  *)

\* Every reachable state of the outbox and its takers has the declared shape.
THEOREM TypeCorrect == Spec => []TypeOK
<1>1. IInv => TypeOK
  BY DEF IInv
<1> QED
  BY <1>1, Invariance, PTL

\* skip locked keeps transactions apart: no row is held twice or held after its stamp.
THEOREM LocksAreExclusive == Spec => []LocksExclusive
<1>1. IInv => LocksExclusive
  BY DEF IInv
<1> QED
  BY <1>1, Invariance, PTL

\* The effects of exactly one taker are committed for a stamped row, of none for
\* any other row.
THEOREM HandledExactlyOnce == Spec => []HandledOnce
<1>1. IInv => HandledOnce
  <2> SUFFICES ASSUME IInv, NEW e \in Events
               PROVE  Len(log[e]) = IF e \in dispatched THEN 1 ELSE 0
    BY DEF HandledOnce
  <2>1. LogOK(e)
    BY DEF IInv
  <2> QED
    BY <2>1 DEF LogOK
<1> QED
  BY <1>1, Invariance, PTL

\* The welcome consumer's ledger, the notification and the broadcast agree with
\* what the dispatcher has stamped.
THEOREM DispatcherBooksAgree ==
  Spec => [](LedgerAgrees /\ WelcomedWhenStamped /\ BroadcastAfterCommit)
<1>1. IInv => LedgerAgrees /\ WelcomedWhenStamped /\ BroadcastAfterCommit
  BY DEF IInv
<1> QED
  BY <1>1, Invariance, PTL

-----------------------------------------------------------------------------
(* Refinement: a committing transaction is one HandOff, a publication is one  *)
(* Announce, and everything else a session does is invisible.                 *)

Delivered == {e \in Events : log[e] # <<>>}

\* The effects that are committed are those of the stamped rows.
LEMMA DeliveredIsDispatched == IInv => Delivered = dispatched
<1> SUFFICES ASSUME IInv PROVE Delivered = dispatched
  OBVIOUS
<1>1. ASSUME NEW e \in Events PROVE log[e] # <<>> <=> e \in dispatched
  <2>1. LogOK(e)
    BY DEF IInv
  <2> QED
    BY <2>1 DEF LogOK
<1> QED
  BY <1>1 DEF Delivered, IInv, TypeOK

\* The same of the state a step leads to.
LEMMA DeliveredIsDispatchedNext == IInv' => Delivered' = dispatched'
<1>1. (IInv => Delivered = dispatched)'
  BY DeliveredIsDispatched, PTL
<1> QED
  BY <1>1

\* A transaction that stamps what it has staged is one hand-off.
LEMMA StampIsHandOff ==
  ASSUME IInv, IInv', NEW s \in Sessions, Locked(s) = staged[s],
         dispatched' = dispatched \union staged[s], published' = published
  PROVE  Delivery!Next \/ UNCHANGED Delivery!vars
<1>1. Delivered = dispatched /\ Delivered' = dispatched'
  BY DeliveredIsDispatched, DeliveredIsDispatchedNext
<1>2. staged[s] \subseteq Undispatched /\ Undispatched' = Undispatched \ staged[s]
  BY DEF IInv, LocksExclusive, Undispatched
<1>3. CASE staged[s] = {}
  BY <1>1, <1>2, <1>3 DEF Delivery!vars, Delivered
<1>4. CASE staged[s] # {}
  BY <1>1, <1>2, <1>4 DEF Delivery!Next, Delivery!HandOff, Delivered
<1> QED
  BY <1>3, <1>4

\* The bus hands off every event to one taker in one indivisible step, whatever
\* its sessions interleave and whichever of them fail.
THEOREM ImplementsDelivery == Spec => OneShotDelivery
<1>1. Init => Delivery!Init
  BY DEF Init, Delivery!Init, Undispatched
<1>2. ASSUME IInv, IInv', [Next]_vars PROVE [Delivery!Next]_(Delivery!vars)
  <2>1. Delivered = dispatched /\ Delivered' = dispatched'
    BY <1>2, DeliveredIsDispatched, DeliveredIsDispatchedNext
  <2>2. CASE \E e \in Events : Publish(e)
    <3>1. PICK e \in Events : Publish(e)
      BY <2>2
    <3>2. e \notin published /\ published' = published \union {e} /\ dispatched' = dispatched
      BY <3>1 DEF Publish
    <3>3. dispatched \subseteq published
      BY <1>2 DEF IInv, TypeOK
    <3>4. Delivery!Announce(e)
      BY <2>1, <3>2, <3>3 DEF Delivery!Announce, Undispatched, Delivered
    <3> QED
      BY <3>4 DEF Delivery!Next
  <2>3. CASE \E s \in Sessions : StampOne(s)
    <3>1. PICK s \in Sessions : StampOne(s)
      BY <2>3
    <3>2. Locked(s) = staged[s]
      BY <1>2, <3>1 DEF StampOne, Locked, Held, IInv, SessionOK
    <3> QED
      BY <1>2, <3>1, <3>2, StampIsHandOff DEF StampOne
  <2>4. CASE \E s \in Sessions : CommitBatch(s)
    <3>1. PICK s \in Sessions : CommitBatch(s)
      BY <2>4
    <3>2. Locked(s) = staged[s]
      BY <3>1 DEF CommitBatch, Locked, Held
    <3> QED
      BY <1>2, <3>1, <3>2, StampIsHandOff DEF CommitBatch
  <2>5. CASE UNCHANGED <<published, dispatched>>
    BY <2>1, <2>5 DEF Delivery!vars, Undispatched, Delivered
  <2>6. \/ \E e \in Events : Publish(e)
        \/ \E s \in Sessions : StampOne(s) \/ CommitBatch(s)
        \/ UNCHANGED <<published, dispatched>>
    BY <1>2 DEF Next, Work, vars, rowVars, StartDrain, TakeOldest, EndDrain, RunConsumers, Broadcast,
                Poll, SelectRows, HandleRow, RowFails, NextQuery, EndAborted, Abort, Rollback
  <2> QED
    BY <2>2, <2>3, <2>4, <2>5, <2>6
<1> QED
  BY <1>1, <1>2, Invariance, PTL DEF Spec, OneShotDelivery, Delivery!Spec
=============================================================================
