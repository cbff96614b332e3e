----------------------------- MODULE OutboxBus -----------------------------
(* The transactional outbox: core.outbox rows, the realtime dispatcher that   *)
(* drains all of them, and the polling workers that each drain the rows of    *)
(* the names they react to.  Every taker shares the one dispatched_at flag.   *)
(*                                                                            *)
(* A session is one database transaction at a time of one taker.  A taker may *)
(* own several: neither setInterval nor NOTIFY waits for the drain before it. *)
(* PostgreSQL runs READ COMMITTED, and "for update skip locked" re-checks the *)
(* WHERE clause of a row it locks, so that one SELECT is one atomic step.     *)
EXTENDS Integers, Sequences

CONSTANTS
  NumEvents,        \* how many events the business code publishes
  NameOf,           \* the catalogue name of each event
  Sessions,         \* the transactions that can be open at a time
  RoleOf,           \* the taker each session belongs to
  MaxRowsPerDrain,  \* MAX_ROWS_PER_DRAIN of the dispatcher
  MaxFaults         \* bound: crashes and database errors in a behaviour

Events == 1 .. NumEvents   \* in the order of their occurred_at

\* The SELECTs of one worker transaction, in order, as the names each one asks for.
Queries ==
  [dispatch  |-> << {"orders.order.ready_for_pickup", "orders.order.cancelled"} >>,
   loyalty   |-> << {"orders.order.paid"}, {"orders.order.cancelled"},
                    {"orders.return.approved"}, {"credit.invoice.settled"} >>,
   invoice   |-> << {"delivery.task.delivered"} >>,
   statement |-> << {"loyalty.reward.granted"} >>]

Workers == {"dispatch", "loyalty", "invoice", "statement"}
Roles   == Workers \union {"realtime"}
Names   == {"identity.user.registered"} \union
           UNION {UNION {Queries[w][i] : i \in 1 .. Len(Queries[w])} : w \in Workers}

ASSUME BusAssumption ==
  /\ NumEvents \in Nat /\ MaxRowsPerDrain \in Nat \ {0} /\ MaxFaults \in Nat
  /\ NameOf \in [Events -> Names]
  /\ RoleOf \in [Sessions -> Roles]

VARIABLES
  published,    \* rows of core.outbox a business transaction has committed
  dispatched,   \* rows whose dispatched_at is set
  log,          \* the takers whose effects for an event are committed, in order
  processed,    \* core.processed_events of consumer pc06.welcome-notification
  welcomed,     \* committed welcome notifications, per event
  broadcasted,  \* events handed to the WebSocket hub
  pc,           \* where each session is
  phase,        \* the SELECT a worker session made last
  todo,         \* rows a session has locked and not handled yet
  staged,       \* rows a session has handled and not committed
  budget,       \* rows the dispatcher may still take in this drain
  faults        \* faults so far

rowVars  == <<published, dispatched, log, processed, welcomed, broadcasted>>
sessVars == <<pc, phase, todo, staged, budget>>
vars     == <<rowVars, sessVars, faults>>

PCs == {"idle", "drain", "taken", "consumed", "broadcast", "loop", "aborted"}

TypeOK ==
  /\ published \subseteq Events /\ dispatched \subseteq published
  /\ processed \subseteq Events /\ broadcasted \subseteq Events
  /\ log \in [Events -> Seq(Roles)] /\ welcomed \in [Events -> Nat]
  /\ pc \in [Sessions -> PCs] /\ phase \in [Sessions -> Nat]
  /\ todo \in [Sessions -> SUBSET Events] /\ staged \in [Sessions -> SUBSET Events]
  /\ budget \in [Sessions -> 0 .. MaxRowsPerDrain] /\ faults \in 0 .. MaxFaults

Init ==
  /\ published = {} /\ dispatched = {} /\ processed = {} /\ broadcasted = {}
  /\ log = [e \in Events |-> <<>>] /\ welcomed = [e \in Events |-> 0]
  /\ pc = [s \in Sessions |-> "idle"] /\ phase = [s \in Sessions |-> 1]
  /\ todo = [s \in Sessions |-> {}] /\ staged = [s \in Sessions |-> {}]
  /\ budget = [s \in Sessions |-> 0] /\ faults = 0

Held(s)        == todo[s] \union staged[s]     \* the row locks of a transaction
Undispatched   == published \ dispatched       \* dispatched_at is null
\* Mutants of Free: a SELECT that ignores locks, and one that resumes after a cursor.
FreeUnlocked   == Undispatched
FreeFromCursor == {e \in Undispatched : (\A s \in Sessions : e \notin Held(s))
                                         /\ \A f \in dispatched : f < e}
Free           == {e \in Undispatched : \A s \in Sessions : e \notin Held(s)}
IsOldest(e, S) == e \in S /\ \A f \in S : e <= f

\* A business transaction commits and its row becomes visible: not in the order
\* of occurred_at, which is the time that transaction began.
Publish(e) ==
  /\ e \notin published
  /\ published' = published \union {e}
  /\ UNCHANGED <<dispatched, log, processed, welcomed, broadcasted, sessVars, faults>>

-----------------------------------------------------------------------------
(* The dispatcher of services/realtime: one row per transaction.              *)

\* setInterval, NOTIFY outbox, and the catch-up at startup all start a drain.
StartDrain(s) ==
  /\ RoleOf[s] = "realtime" /\ pc[s] = "idle"
  /\ pc' = [pc EXCEPT ![s] = "drain"]
  /\ budget' = [budget EXCEPT ![s] = MaxRowsPerDrain]
  /\ UNCHANGED <<rowVars, phase, todo, staged, faults>>

TakeOldest(s) ==
  /\ pc[s] = "drain" /\ budget[s] > 0
  /\ \E e \in Events : IsOldest(e, Free) /\ todo' = [todo EXCEPT ![s] = {e}]
  /\ pc' = [pc EXCEPT ![s] = "taken"]
  /\ UNCHANGED <<rowVars, phase, staged, budget, faults>>

EndDrain(s) ==
  /\ pc[s] = "drain" /\ (budget[s] = 0 \/ Free = {})
  /\ pc' = [pc EXCEPT ![s] = "idle"] /\ budget' = [budget EXCEPT ![s] = 0]
  /\ UNCHANGED <<rowVars, phase, todo, staged, faults>>

\* The consumer's notification commits in a transaction of its own, ahead of
\* the row's; the ledger and the name guard decide whether it writes one.
RunConsumers(s) ==
  /\ pc[s] = "taken"
  /\ \E e \in todo[s] :
       /\ welcomed' = IF e \notin processed /\ NameOf[e] = "identity.user.registered"
                      THEN [welcomed EXCEPT ![e] = @ + 1] ELSE welcomed
       /\ staged' = [staged EXCEPT ![s] = {e}]
  /\ todo' = [todo EXCEPT ![s] = {}]
  /\ pc' = [pc EXCEPT ![s] = "consumed"]
  /\ UNCHANGED <<published, dispatched, log, processed, broadcasted, phase, budget, faults>>

\* processed_events and dispatched_at commit together.
StampOne(s) ==
  /\ pc[s] = "consumed"
  /\ dispatched' = dispatched \union staged[s]
  /\ processed' = processed \union staged[s]
  /\ log' = [e \in Events |-> IF e \in staged[s] THEN Append(log[e], "realtime") ELSE log[e]]
  /\ todo' = [todo EXCEPT ![s] = {}]
  /\ pc' = [pc EXCEPT ![s] = "broadcast"]
  /\ UNCHANGED <<published, welcomed, broadcasted, phase, staged, budget, faults>>

\* After the commit; staged only remembers the envelope here, its lock is gone.
Broadcast(s) ==
  /\ pc[s] = "broadcast"
  /\ broadcasted' = broadcasted \union staged[s]
  /\ staged' = [staged EXCEPT ![s] = {}]
  /\ budget' = [budget EXCEPT ![s] = @ - 1]
  /\ pc' = [pc EXCEPT ![s] = "drain"]
  /\ UNCHANGED <<published, dispatched, log, processed, welcomed, phase, todo, faults>>

-----------------------------------------------------------------------------
(* The polling workers: one transaction for all the rows a poll finds.        *)

\* The i-th SELECT of the poll locks what it finds.
SelectRows(s, i) ==
  /\ todo' = [todo EXCEPT ![s] = {e \in Free : NameOf[e] \in Queries[RoleOf[s]][i]}]
  /\ phase' = [phase EXCEPT ![s] = i]
  /\ pc' = [pc EXCEPT ![s] = "loop"]
  /\ UNCHANGED <<rowVars, staged, budget, faults>>

Poll(s) ==
  /\ RoleOf[s] \in Workers /\ pc[s] = "idle"
  /\ SelectRows(s, 1)

\* The row's SQL function and its stamp succeed inside the open transaction.
HandleRow(s) ==
  /\ pc[s] = "loop"
  /\ \E e \in Events :
       /\ IsOldest(e, todo[s])
       /\ todo' = [todo EXCEPT ![s] = @ \ {e}]
       /\ staged' = [staged EXCEPT ![s] = @ \union {e}]
  /\ UNCHANGED <<rowVars, pc, phase, budget, faults>>

\* An SQL error is caught per row, but there is no savepoint: PostgreSQL refuses
\* everything that follows in this transaction, and its COMMIT rolls back.
RowFails(s) ==
  /\ pc[s] = "loop" /\ todo[s] # {} /\ faults < MaxFaults
  /\ faults' = faults + 1
  /\ pc' = [pc EXCEPT ![s] = "aborted"]
  /\ UNCHANGED <<rowVars, phase, todo, staged, budget>>

NextQuery(s) ==
  /\ pc[s] = "loop" /\ todo[s] = {} /\ phase[s] < Len(Queries[RoleOf[s]])
  /\ SelectRows(s, phase[s] + 1)

CommitBatch(s) ==
  /\ pc[s] = "loop" /\ todo[s] = {} /\ phase[s] = Len(Queries[RoleOf[s]])
  /\ dispatched' = dispatched \union staged[s]
  /\ log' = [e \in Events |-> IF e \in staged[s] THEN Append(log[e], RoleOf[s]) ELSE log[e]]
  /\ staged' = [staged EXCEPT ![s] = {}]
  /\ pc' = [pc EXCEPT ![s] = "idle"] /\ phase' = [phase EXCEPT ![s] = 1]
  /\ UNCHANGED <<published, processed, welcomed, broadcasted, todo, budget, faults>>

-----------------------------------------------------------------------------
(* Failure.                                                                   *)

\* ROLLBACK: the locks go, nothing the transaction staged remains.
Rollback(s) ==
  /\ todo' = [todo EXCEPT ![s] = {}] /\ staged' = [staged EXCEPT ![s] = {}]
  /\ pc' = [pc EXCEPT ![s] = "idle"]
  /\ phase' = [phase EXCEPT ![s] = 1] /\ budget' = [budget EXCEPT ![s] = 0]
  /\ UNCHANGED rowVars

\* Mutant of EndAborted: the stamps survive the rollback of the effects.
EndAbortedStamped(s) ==
  /\ pc[s] = "aborted"
  /\ dispatched' = dispatched \union staged[s]
  /\ todo' = [todo EXCEPT ![s] = {}] /\ staged' = [staged EXCEPT ![s] = {}]
  /\ pc' = [pc EXCEPT ![s] = "idle"] /\ phase' = [phase EXCEPT ![s] = 1]
  /\ UNCHANGED <<published, log, processed, welcomed, broadcasted, budget, faults>>

EndAborted(s) == pc[s] = "aborted" /\ Rollback(s) /\ UNCHANGED faults

\* The process dies, the connection drops, or a consumer throws: the drain ends.
Abort(s) ==
  /\ pc[s] \notin {"idle", "aborted"} /\ faults < MaxFaults
  /\ faults' = faults + 1
  /\ Rollback(s)

Work(s) ==
  \/ StartDrain(s) \/ TakeOldest(s) \/ EndDrain(s) \/ RunConsumers(s) \/ StampOne(s) \/ Broadcast(s)
  \/ Poll(s) \/ HandleRow(s) \/ NextQuery(s) \/ CommitBatch(s) \/ EndAborted(s)

Next ==
  \/ \E e \in Events : Publish(e)
  \/ \E s \in Sessions : Work(s) \/ RowFails(s) \/ Abort(s)

\* Each taker's timer keeps firing and each call it makes returns.  Nothing
\* obliges the business code to publish, or a fault to happen.
Fairness == \A s \in Sessions : WF_vars(Work(s))

Spec     == Init /\ [][Next]_vars
FairSpec == Spec /\ Fairness

-----------------------------------------------------------------------------
(* Properties.                                                                *)

\* The rows a session has locked: the broadcast step runs after the COMMIT.
Locked(s) == IF pc[s] = "broadcast" THEN {} ELSE Held(s)

\* No two transactions hold the same row, and no transaction holds a stamped
\* one: what "dispatched_at is null ... for update skip locked" is for.
LocksExclusive ==
  /\ \A s, t \in Sessions : s # t => Locked(s) \intersect Locked(t) = {}
  /\ \A s \in Sessions : Locked(s) \subseteq Undispatched

\* However the overlapping drains and polls interleave with crashes, a stamped
\* row carries the committed effects of exactly one taker, and a row without a
\* stamp those of none: the stamp commits with the effects.
HandledOnce ==
  \A e \in Events : Len(log[e]) = IF e \in dispatched THEN 1 ELSE 0

\* The ledger of the welcome consumer lists exactly the rows the dispatcher took,
\* so a row a worker took is never seen by a consumer afterwards.
LedgerAgrees ==
  processed = {e \in dispatched : log[e] = << "realtime" >>}

\* A registration the dispatcher stamped has had its welcome notification
\* committed, whatever failed in between: at-least-once, PC-EV-2.
WelcomedWhenStamped ==
  \A e \in dispatched :
    NameOf[e] = "identity.user.registered" => welcomed[e] > 0

\* The WebSocket hub never hears of an event whose transaction may still roll back.
BroadcastAfterCommit == broadcasted \subseteq {e \in dispatched : log[e] = << "realtime" >>}

\* The bus implements the one-shot hand-off of EventDelivery: pending by the
\* flag, delivered by the committed effects.
Delivery == INSTANCE EventDelivery
              WITH pending <- Undispatched, delivered <- {e \in Events : log[e] # <<>>}
OneShotDelivery == Delivery!Spec

\* Every committed event is eventually stamped once faults stop: an older row
\* that becomes visible late, a batch rolled back and a lost session included.
EventuallyDispatched ==
  \A e \in Events : (e \in published) ~> (e \in dispatched)

\* Each taker gets every event it reacts to: "multiple independent consumers ...
\* each need their own dedupe record for the same event_id" (0012_event_bus.sql:17-21).
\* The single dispatched_at flag gives the row to whoever locks it first.
EverySubscriberServed ==
  \A e \in dispatched : \A w \in Workers :
    (\E i \in 1 .. Len(Queries[w]) : NameOf[e] \in Queries[w][i])
      => \E k \in 1 .. Len(log[e]) : log[e][k] = w

\* A failing row leaves only its own dispatched_at null (dispatchWorker.ts:41-45):
\* the rows the same poll handled before it are stamped when the poll ends.
FailingRowIsolated ==
  [][\A s \in Sessions :
       (pc[s] = "aborted" /\ pc'[s] = "idle") => staged[s] \subseteq dispatched']_vars

=============================================================================
