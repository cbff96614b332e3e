----------------------------- MODULE Endpoints -----------------------------
(* The route handlers of services/api.  A handler is a row of the table         *)
(* Endpoints: the statements it runs, in order, and where its transactions      *)
(* begin and end.  Requests to one endpoint about one row are carried out at the  *)
(* same time, or one after the other, statement by statement, as READ COMMITTED  *)
(* lets them; a SECURITY DEFINER function is the statements of its body.         *)
(*                                                                               *)
(* db.ts decides what an exception leaves behind: an ApiError thrown inside the  *)
(* callback commits what was written before it, any other error rolls back.      *)
(* Handlers translate a function's exception outside the callback, so it rolls   *)
(* back and is still answered as a refusal.                                      *)
EXTENDS Integers, Sequences, FiniteSets

CONSTANTS
  Endpoints,  \* name of an endpoint -> its statements
  Leaves,     \* endpoints known to leave something behind when they answer no
  Blind,      \* endpoints known to report a change they did not make
  Loose,      \* endpoints known to do twice what is allowed once
  Unlocked,   \* endpoints known to change a row they read without locking it
  Colliding,  \* endpoints known to fail when they meet themselves
  Requests,   \* the requests, all to one endpoint and about one row
  None,       \* no request
  Opened,     \* of a cart that is committed
  MaxFaults   \* bound: requests whose process dies, and calls out that fail

ASSUME EndpointsAssumption ==
  MaxFaults \in Nat /\ None \notin Requests /\ Opened \notin Requests /\ None # Opened

-----------------------------------------------------------------------------
(* What can be read off the statements of an endpoint.                          *)

Readers    == {"read", "aim", "ask", "need", "free", "matched", "exists", "isopen", "must"}
Locks      == {"take", "keyed"}
Writers    == {"write", "finish", "swap", "add", "enter"}
Guarded    == {"claim", "unique"}
Statements == Readers \union Locks \union Writers \union Guarded \union
  {"begin", "commit", "again", "seekCart", "openCart", "side", "tell", "tellMatch", "note",
   "call", "attempt"}

Among(w, some) == \E i \in DOMAIN w : w[i] \in some

\* Statement i runs in a transaction that has locked the row.
Held(w, i) == \E j \in DOMAIN w : j < i /\ w[j] \in Locks /\ \A k \in j .. i : w[k] # "commit"

\* Every change of the row tests its state as it writes, or is made under the lock.
Careful(w) == \A i \in DOMAIN w : w[i] \in Writers => Held(w, i)

\* Every change of the row is made under the lock, and nothing is decided after it.
Locking(w) ==
  /\ \A i \in DOMAIN w : w[i] \in Writers \union Guarded => Held(w, i)
  /\ \A i, j \in DOMAIN w :
       i < j /\ w[i] = "commit" => w[j] \notin Readers \union Locks \union {"commit"}

Refusing == {"need", "free", "matched"}            \* by an ApiError
Raising  == {"exists", "isopen", "must", "take", "keyed", "unique", "swap", "openCart", "call"}
Matching == {"write", "finish", "claim", "tellMatch"}   \* leave something only when they match
Leaving  == Matching \union {"unique", "swap", "openCart", "add", "enter", "side", "tell", "note",
                             "attempt"}
Finding  == {"read", "aim", "ask", "write", "finish", "claim", "add", "enter"}

\* What a request may answer no after: a statement that it asks whether it matched, or,
\* when the transaction is rolled back, anything written in it.
Clean(w) ==
  \A i, k \in DOMAIN w :
    i < k /\ w[i] \in Leaving /\ w[k] \in Refusing \union Raising =>
      \/ w[k] \in {"matched", "must"} /\ w[i] \in Matching
         /\ \A m \in (i + 1) .. (k - 1) : w[m] \notin Finding
      \/ w[k] \in Raising /\ w[i] # "attempt" /\ \A m \in i .. k : w[m] # "commit"

\* The row is there: it is asked for, and the answer is not jumped over.
Asks(w, j) == \/ w[j] \in {"need", "exists", "take", "keyed"}
              \/ w[j] = "matched" /\ j - 1 \in DOMAIN w /\ w[j - 1] = "ask"
Sought(w, i) ==
  \E j \in DOMAIN w : j < i /\ Asks(w, j) /\ \A m \in 1 .. j : w[m] # "again"

\* A change that is made once its request goes past it: an insert, an update of a row
\* that is there, or one that is asked whether it matched.
Certain(w, i) ==
  \/ w[i] \in {"unique", "swap", "add", "enter"}
  \/ w[i] \in {"write", "finish"} /\ Sought(w, i)
  \/ w[i] = "claim" /\ i + 1 \in DOMAIN w /\ w[i + 1] = "must"

\* What ends a transaction before its last statement, or publishes half of it.
Breaks == {"commit", "keyed", "again"} \union Refusing

\* What writes an event, or an entry of the audit log.
Tellers(trace) == IF trace = "event" THEN {"tell", "tellMatch"} ELSE {"note"}

\* A change is told of before its transaction can end, and nothing is told of without one.
Telling(w) ==
  \A trace \in {"event", "note"} : Among(w, Tellers(trace)) =>
    /\ \A i \in DOMAIN w : w[i] \in Writers \union Guarded =>
         \E k \in DOMAIN w : i < k /\ w[k] \in Tellers(trace) /\ \A m \in i .. k : w[m] \notin Breaks
    /\ \A k \in DOMAIN w : w[k] \in Tellers(trace) \ {"tellMatch"} =>
         \E i \in DOMAIN w : i < k /\ Certain(w, i) /\ \A m \in i .. k : w[m] # "commit"
    /\ \A k \in DOMAIN w : w[k] = "tellMatch" =>
         /\ k - 1 \in DOMAIN w /\ w[k - 1] \in {"write", "finish", "claim"}
         /\ \A m \in 1 .. (k - 2) : w[m] \notin Writers \union Guarded

\* The operation ends the state that allows it; it decides on what it read.
Closing(w)  == Among(w, {"finish", "claim", "unique", "enter"})
Deciding(w) == /\ Among(w, {"read", "need", "free", "exists", "isopen", "take", "keyed"})
               /\ Among(w, {"write", "finish"})

\* The endpoints that are not named in an exception keep to the discipline.
ASSUME DisciplineAssumption ==
  \A e \in DOMAIN Endpoints :
    /\ Endpoints[e] \in Seq(Statements)
    /\ \A i \in DOMAIN Endpoints[e] :
         Endpoints[e][i] \in {"keyed", "again"} =>
           \E j \in i .. Len(Endpoints[e]) : Endpoints[e][j] = "commit"
    /\ e \notin Leaves => Clean(Endpoints[e])
    /\ e \notin Blind => Telling(Endpoints[e])
    /\ e \notin Loose /\ Closing(Endpoints[e]) => Careful(Endpoints[e])
    /\ e \notin Unlocked /\ Deciding(Endpoints[e]) => Locking(Endpoints[e])
    /\ e \notin Colliding => ~Among(Endpoints[e], {"unique", "swap", "openCart"})

VARIABLES
  ep,      \* the endpoint the requests are for
  steps,   \* its statements
  row,     \* the row asked for: it is there for this actor, and in the state the operation needs
  lock,    \* the request whose open transaction has written or locked the row, None for none
  cart,    \* the customer's open cart: there, absent, or inserted by an open transaction
  reqs,    \* the requests
  by,      \* the requests that changed the row, in the order they committed
  kept,    \* what each request has committed besides
  faults

vars == <<ep, steps, row, lock, cart, reqs, by, kept, faults>>

\* What a request can leave behind: a change of the row, another row changed on the
\* way, an event in core.outbox, an entry of audit.audit_log.
Traces == {"row", "side", "event", "note"}

Has(s)   == Among(steps, {s})
At(r)    == IF reqs[r].pc > Len(steps) THEN "end" ELSE steps[reqs[r].pc]
Running(r) == reqs[r].answer = "none"

Fresh == [pc |-> 1, tx |-> FALSE, found |-> TRUE, cart |-> FALSE, seen |-> 0, wrote |-> {}, answer |-> "none"]

TypeOK ==
  /\ ep \in DOMAIN Endpoints /\ steps = Endpoints[ep]
  /\ row \in [there : BOOLEAN, open : BOOLEAN]
  /\ lock \in Requests \union {None} /\ cart \in Requests \union {None, Opened}
  /\ reqs \in [Requests -> [pc : Nat \ {0}, tx : BOOLEAN, found : BOOLEAN, cart : BOOLEAN,
                            seen : Nat, wrote : SUBSET Traces,
                            answer : {"none", "ok", "refused", "failed", "lost"}]]
  /\ by \in Seq(Requests) /\ kept \in [Requests -> SUBSET Traces]
  /\ faults \in 0 .. MaxFaults

Init ==
  /\ ep \in DOMAIN Endpoints
  /\ steps = Endpoints[ep]
  /\ row \in [there : BOOLEAN, open : BOOLEAN]
  /\ lock = None
  /\ cart \in IF Has("openCart") THEN {None, Opened} ELSE {Opened}
  /\ reqs = [r \in Requests |-> Fresh]
  /\ by = <<>> /\ kept = [r \in Requests |-> {}]
  /\ faults = 0

-----------------------------------------------------------------------------
(* How a request goes on, and how it ends.                                      *)

Released(r) == IF lock = r THEN None ELSE lock
Free(r)     == lock \in {None, r}
Closes      == Closing(steps)

\* The transaction of r becomes visible to the others.
Publish(r) ==
  /\ by' = IF "row" \in reqs[r].wrote THEN Append(by, r) ELSE by
  /\ row' = IF "row" \in reqs[r].wrote /\ Closes THEN [row EXCEPT !.open = FALSE] ELSE row
  /\ kept' = [kept EXCEPT ![r] = @ \union reqs[r].wrote]
  /\ lock' = Released(r)
  /\ cart' = IF cart = r THEN Opened ELSE cart

\* Mutant of Discard: the rolled back transaction is never ended, its locks stay.
DiscardHolding(r) == UNCHANGED <<lock, cart, by, row, kept>>

\* The transaction of r is rolled back.
Discard(r) ==
  /\ lock' = Released(r) /\ cart' = IF cart = r THEN None ELSE cart
  /\ UNCHANGED <<by, row, kept>>

Next1(r, changes) == reqs' = [reqs EXCEPT ![r] = changes]
Pass(r, state) == Next1(r, [state EXCEPT !.pc = @ + 1])
Answer(r, answer) == Next1(r, [reqs[r] EXCEPT !.tx = FALSE, !.wrote = {}, !.answer = answer])

\* throw new ApiError: inside the callback the transaction is committed first.
Throw(r) ==
  /\ IF reqs[r].tx THEN Publish(r) ELSE Discard(r)
  /\ Answer(r, "refused")

\* Mutant of Raise: the exception is translated inside the callback of a handler that
\* keeps a savepoint, so what the function wrote before it is committed.
RaiseCommitting(r) == Publish(r) /\ Answer(r, "refused")

\* raise exception: the transaction is aborted, the handler answers with a refusal.
Raise(r) == Discard(r) /\ Answer(r, "refused")

\* Any other error: server.ts answers 500.
Crash(r) == Discard(r) /\ Answer(r, "failed")

-----------------------------------------------------------------------------
(* The statements.                                                              *)

Keep == UNCHANGED <<lock, cart, by, row, kept, faults>>

Begin(r) ==
  /\ At(r) = "begin" /\ Pass(r, [reqs[r] EXCEPT !.tx = TRUE]) /\ Keep
Commit(r) ==
  /\ At(r) = "commit" /\ Publish(r)
  /\ Pass(r, [reqs[r] EXCEPT !.tx = FALSE, !.wrote = {}])
  /\ UNCHANGED faults

\* A select without a lock, in the transaction or in one of its own.
Read(r) ==
  /\ At(r) \in {"read", "aim", "ask"}
  /\ Pass(r, [reqs[r] EXCEPT !.found = row.there, !.seen = Len(by)]) /\ Keep

\* A select and a throw: the row must be there; it must be in the right state; the last
\* statement must have matched.
Needs(r) ==
  /\ At(r) \in {"need", "free", "matched"}
  /\ LET ok == CASE At(r) = "need"    -> row.there
                 [] At(r) = "free"    -> row.open
                 [] At(r) = "matched" -> reqs[r].found
     IN  IF ok THEN Pass(r, [reqs[r] EXCEPT !.seen = Len(by)]) /\ Keep
         ELSE Throw(r) /\ UNCHANGED faults

\* Mutant of Demands: the function does not ask whether its update found the row.
DemandsFound(r) ==
  /\ At(r) \in {"exists", "isopen", "must"}
  /\ IF (At(r) = "exists" => row.there) /\ (At(r) = "isopen" => row.open)
     THEN Pass(r, [reqs[r] EXCEPT !.seen = Len(by)]) /\ Keep
     ELSE Raise(r) /\ UNCHANGED faults

\* The same in a function, or a constraint the statement violates.
Demands(r) ==
  /\ At(r) \in {"exists", "isopen", "must"}
  /\ LET ok == CASE At(r) = "exists" -> row.there
                 [] At(r) = "isopen" -> row.open
                 [] At(r) = "must"   -> reqs[r].found
     IN  IF ok THEN Pass(r, [reqs[r] EXCEPT !.seen = Len(by)]) /\ Keep
         ELSE Raise(r) /\ UNCHANGED faults

\* Mutant of Take: the select ... for update without the lock.
TakeUnlocked(r) ==
  /\ At(r) = "take"
  /\ IF row.there /\ row.open
     THEN Pass(r, [reqs[r] EXCEPT !.seen = Len(by)]) /\ Keep
     ELSE Raise(r) /\ UNCHANGED faults

\* select ... for update, and the checks of what it returned.
Take(r) ==
  /\ At(r) = "take" /\ Free(r)
  /\ IF row.there /\ row.open
     THEN /\ lock' = r /\ Pass(r, [reqs[r] EXCEPT !.seen = Len(by)])
          /\ UNCHANGED <<cart, by, row, kept, faults>>
     ELSE Raise(r) /\ UNCHANGED faults

\* The same with a key the client sends again: an action already taken is answered
\* with what came of it.
Keyed(r) ==
  /\ At(r) = "keyed" /\ Free(r)
  /\ IF ~row.there THEN Raise(r) /\ UNCHANGED faults
     ELSE /\ lock' = r
          /\ LET commit == CHOOSE i \in reqs[r].pc .. Len(steps) : steps[i] = "commit"
             IN  Next1(r, [reqs[r] EXCEPT !.pc = IF row.open THEN @ + 1 ELSE commit,
                                          !.seen = Len(by)])
          /\ UNCHANGED <<cart, by, row, kept, faults>>

\* The same without a lock: two calls under one key both find nothing.
Again(r) ==
  /\ At(r) = "again"
  /\ LET commit == CHOOSE i \in reqs[r].pc .. Len(steps) : steps[i] = "commit"
     IN  Next1(r, [reqs[r] EXCEPT !.pc = IF row.open THEN @ + 1 ELSE commit])
  /\ Keep

Wrote(r, trace) == [reqs[r] EXCEPT !.wrote = @ \union trace]

\* update ... where id; the second form is the one that ends the state it was allowed in.
Write(r) ==
  /\ At(r) \in {"write", "finish"} /\ Free(r)
  /\ lock' = IF row.there THEN r ELSE lock
  /\ Pass(r, [Wrote(r, IF row.there THEN {"row"} ELSE {}) EXCEPT !.found = row.there])
  /\ UNCHANGED <<cart, by, row, kept, faults>>

\* Mutant of Claim: the where clause lost its condition on the state.
ClaimAnyState(r) ==
  /\ At(r) = "claim" /\ Free(r)
  /\ lock' = IF row.there THEN r ELSE lock
  /\ Pass(r, [Wrote(r, IF row.there THEN {"row"} ELSE {}) EXCEPT !.found = row.there])
  /\ UNCHANGED <<cart, by, row, kept, faults>>

\* Mutant of Claim: the insert lost its on conflict do nothing.
ClaimConflicting(r) ==
  /\ At(r) = "claim" /\ Free(r)
  /\ IF row.there /\ ~row.open THEN Crash(r) /\ UNCHANGED faults
     ELSE /\ lock' = IF row.there THEN r ELSE lock
          /\ Pass(r, [Wrote(r, IF row.there THEN {"row"} ELSE {}) EXCEPT !.found = row.there])
          /\ UNCHANGED <<cart, by, row, kept, faults>>

\* update ... where the state still allows it, or insert ... on conflict do nothing:
\* the condition is evaluated again once the row is free.
Claim(r) ==
  /\ At(r) = "claim" /\ Free(r)
  /\ LET match == row.there /\ row.open IN
     /\ lock' = IF match THEN r ELSE lock
     /\ Pass(r, [Wrote(r, IF match THEN {"row"} ELSE {}) EXCEPT !.found = match])
  /\ UNCHANGED <<cart, by, row, kept, faults>>

\* insert without on conflict of a row only one request can have: the second waits for
\* the first, then violates the constraint.  No handler translates that error.
Unique(r) ==
  /\ At(r) = "unique" /\ Free(r)
  /\ IF row.open
     THEN lock' = r /\ Pass(r, Wrote(r, {"row"})) /\ UNCHANGED <<cart, by, row, kept, faults>>
     ELSE Crash(r) /\ UNCHANGED faults

\* The current price or limit is retired and a new one inserted.  The retiring update
\* sees the rows as they were when it began ("aim"): once another request has put its
\* own in between, two rows would be current.
Swap(r) ==
  /\ At(r) = "swap" /\ Free(r)
  /\ IF reqs[r].seen = Len(by)
     THEN lock' = r /\ Pass(r, Wrote(r, {"row"})) /\ UNCHANGED <<cart, by, row, kept, faults>>
     ELSE Crash(r) /\ UNCHANGED faults

\* getOrCreateOpenCart: one_open_cart_per_user is violated when both insert.
SeekCart(r) ==
  /\ At(r) = "seekCart"
  /\ Pass(r, [reqs[r] EXCEPT !.cart = cart \in {r, Opened}]) /\ Keep
OpenCart(r) ==
  /\ At(r) = "openCart"
  /\ CASE reqs[r].cart -> Pass(r, reqs[r]) /\ Keep
       [] ~reqs[r].cart /\ cart = None ->
            cart' = r /\ Pass(r, Wrote(r, {"side"})) /\ UNCHANGED <<lock, by, row, kept, faults>>
       [] ~reqs[r].cart /\ cart = Opened -> Crash(r) /\ UNCHANGED faults
       [] OTHER -> FALSE

\* An insert of a row of the request's own, or of one that ends what it was allowed in;
\* a write to another row; an event, always or when the statement before matched; an
\* entry of the audit log.
Insert(r) ==
  /\ At(r) \in {"add", "enter", "side", "tell", "tellMatch", "note"}
  /\ Pass(r, CASE At(r) \in {"add", "enter"} -> [Wrote(r, {"row"}) EXCEPT !.found = TRUE]
               [] At(r) = "side" -> Wrote(r, {"side"})
               [] At(r) = "tell" -> Wrote(r, {"event"})
               [] At(r) = "tellMatch" -> IF reqs[r].found THEN Wrote(r, {"event"}) ELSE reqs[r]
               [] At(r) = "note" -> Wrote(r, {"note"}))
  /\ Keep

\* A call out of the process: object storage, the router, the push service.
CallOut(r) == At(r) = "call" /\ Pass(r, reqs[r]) /\ Keep
CallFails(r) ==
  /\ At(r) = "call" /\ faults < MaxFaults /\ faults' = faults + 1
  /\ Crash(r)

\* A transaction of its own whose failure is logged and forgotten.
Attempt(r) ==
  /\ At(r) = "attempt"
  /\ kept' = [kept EXCEPT ![r] = @ \union {"side"}] /\ Pass(r, reqs[r])
  /\ UNCHANGED <<lock, cart, by, row, faults>>
AttemptFails(r) ==
  /\ At(r) = "attempt" /\ faults < MaxFaults /\ faults' = faults + 1
  /\ Pass(r, reqs[r]) /\ UNCHANGED <<lock, cart, by, row, kept>>

Finish(r) == At(r) = "end" /\ Answer(r, "ok") /\ Keep

\* The process of the request dies, before its next statement or before it answers.
Die(r) ==
  /\ faults < MaxFaults /\ faults' = faults + 1
  /\ Discard(r) /\ Answer(r, "lost")

Step(r) ==
  Running(r) /\ UNCHANGED <<ep, steps>> /\
  (\/ Begin(r) \/ Commit(r) \/ Read(r) \/ Needs(r) \/ Demands(r) \/ Take(r) \/ Keyed(r) \/ Again(r)
   \/ Write(r) \/ Claim(r) \/ Unique(r) \/ Swap(r) \/ SeekCart(r) \/ OpenCart(r)
   \/ Insert(r) \/ CallOut(r) \/ Attempt(r) \/ Finish(r))
Fault(r) == Running(r) /\ UNCHANGED <<ep, steps>> /\ (CallFails(r) \/ AttemptFails(r) \/ Die(r))

Next == \E r \in Requests : Step(r) \/ Fault(r)

Spec     == Init /\ [][Next]_vars
FairSpec == Spec /\ \A r \in Requests : WF_vars(Step(r))

-----------------------------------------------------------------------------
(* What the handlers promise.  The endpoints that are known not to are named:   *)
(* each is described where its row is.                                          *)

Changed(r) == \E i \in DOMAIN by : by[i] = r

\* A request that is told no, or that fails, has left nothing: not the row, not a row
\* changed on the way, no event, no entry of the audit log.
RefusedLeavesNothing ==
  \A r \in Requests :
    reqs[r].answer \in {"refused", "failed"} /\ ep \notin Leaves => kept[r] = {}

\* The event and the audit entry of an operation are committed exactly with its change.
ToldWhenChanged ==
  ep \notin Blind =>
    \A r \in Requests :
      /\ Has("tell") \/ Has("tellMatch") => ("event" \in kept[r] <=> Changed(r))
      /\ Has("note") => ("note" \in kept[r] <=> Changed(r))

\* Two requests at once, or one sent twice, do once what is allowed once.
OnceOnly == Closes /\ ep \notin Loose => Len(by) <= 1

\* A request that decides on what it read changes the row as it read it: nobody's change
\* came between, so the check still holds and the "before" of its audit entry is true.
ChangesWhatItRead ==
  Deciding(steps) /\ ep \notin Unlocked => \A i \in DOMAIN by : reqs[by[i]].seen = i - 1

\* An operation that meets itself is carried out or refused by name: a 500 is
\* answered only when something outside has failed.
FailsOnlyOnFaults ==
  ep \notin Colliding => \A r \in Requests : reqs[r].answer = "failed" => faults > 0

\* Every request comes to an end: no request waits for the other for ever.
EveryRequestEnds == \A r \in Requests : <>(~Running(r))
=============================================================================
