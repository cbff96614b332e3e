-------------------------- MODULE Endpoints_proofs --------------------------
(* Proofs about module Endpoints, for every table that keeps its discipline    *)
(* and for any number of requests at once.                                     *)
(*                                                                             *)
(* Every step of a request has one of five shapes: it moves on, it takes the    *)
(* lock, it changes the row, it commits, or it gives up.  The invariants are    *)
(* proved shape by shape.                                                       *)
EXTENDS Endpoints, TLAPS, SequenceTheorems

-----------------------------------------------------------------------------
(* Shapes of a step.                                                            *)

Ahead(r)  == reqs[r].pc \in DOMAIN steps
Others(r) == reqs' = [reqs EXCEPT ![r] = reqs'[r]]
Same      == by' = by /\ row' = row
Goes(r)   == /\ reqs'[r].answer = "none"
             /\ \/ reqs'[r].pc = reqs[r].pc + 1
                \/ /\ reqs'[r].pc \in DOMAIN steps /\ steps[reqs'[r].pc] = "commit"
                   /\ reqs'[r].pc > reqs[r].pc

\* The row is neither changed nor published; the lock may be taken on a jump.
MovesOn(r) ==
  /\ Ahead(r) /\ Goes(r) /\ Same
  /\ lock' = lock \/ (Free(r) /\ lock' = r)
  /\ steps[reqs[r].pc] # "commit"
  /\ steps[reqs[r].pc] \in Locks \union Writers \union Guarded =>
       \/ reqs'[r].pc \in DOMAIN steps /\ steps[reqs'[r].pc] = "commit"
       \/ steps[reqs[r].pc] \notin Locks
  /\ reqs'[r].wrote \cap {"row"} = reqs[r].wrote \cap {"row"}
  /\ \/ reqs'[r].seen = reqs[r].seen
     \/ steps[reqs[r].pc] \in Readers \union Locks /\ reqs'[r].seen = Len(by)

\* The lock is taken on a row in the state that allows the operation.
Takes(r) ==
  /\ Ahead(r) /\ Goes(r) /\ Same
  /\ steps[reqs[r].pc] \in Locks /\ Free(r) /\ lock' = r /\ row.open
  /\ reqs'[r].wrote = reqs[r].wrote /\ reqs'[r].seen = Len(by)

\* The row is changed: under the lock, or as long as its state allows it.
Changes(r) ==
  /\ Ahead(r) /\ Goes(r) /\ Same
  /\ \/ steps[reqs[r].pc] \in Guarded /\ row.open /\ Free(r) /\ lock' = r
     \/ steps[reqs[r].pc] \in Writers /\ (lock' = lock \/ (Free(r) /\ lock' = r))
  /\ reqs'[r].seen = reqs[r].seen

\* What the request wrote becomes visible, and its lock is released.
Commits(r) ==
  /\ Ahead(r) /\ lock' = Released(r)
  /\ \/ Goes(r) /\ steps[reqs[r].pc] = "commit"
     \/ reqs'[r].answer = "refused" /\ steps[reqs[r].pc] \in Readers
  /\ by' = IF "row" \in reqs[r].wrote THEN Append(by, r) ELSE by
  /\ row' = IF "row" \in reqs[r].wrote /\ Closes THEN [row EXCEPT !.open = FALSE] ELSE row
  /\ reqs'[r].wrote = {} /\ reqs'[r].seen = reqs[r].seen

\* A constraint the statement can violate, or a fault.
MayFail(r) == \/ faults' = faults + 1
              \/ Ahead(r) /\ steps[reqs[r].pc] \in {"unique", "swap", "openCart"}

\* The request ends with nothing published.
GivesUp(r) ==
  /\ reqs'[r].answer # "none" /\ (reqs'[r].answer = "failed" => MayFail(r))
  /\ Same /\ lock' \in {lock, Released(r)}
  /\ reqs'[r].wrote = {} /\ reqs'[r].seen = reqs[r].seen

Shape(r) ==
  /\ Running(r) /\ Others(r) /\ UNCHANGED <<ep, steps>>
  /\ MovesOn(r) \/ Takes(r) \/ Changes(r) \/ Commits(r) \/ GivesUp(r)

-----------------------------------------------------------------------------
(* Type correctness.                                                            *)

ReqType == [pc : Nat \ {0}, tx : BOOLEAN, found : BOOLEAN, cart : BOOLEAN, seen : Nat,
            wrote : SUBSET Traces, answer : {"none", "ok", "refused", "failed", "lost"}]

\* The statements of an endpoint are a sequence.
LEMMA StepsAreStatements ==
  ASSUME TypeOK PROVE /\ steps \in Seq(Statements) /\ Len(steps) \in Nat
                      /\ DOMAIN steps = 1 .. Len(steps)
                      /\ \A i \in 1 .. Len(steps) : steps[i] \in Statements
  BY DisciplineAssumption, LenProperties DEF TypeOK

\* A request that is not at its end is at one of its statements.
LEMMA AtStatement ==
  ASSUME TypeOK, NEW r \in Requests, At(r) # "end"
  PROVE  Ahead(r) /\ At(r) = steps[reqs[r].pc]
<1>1. reqs[r].pc \in Nat \ {0}  BY DEF TypeOK
<1>2. QED  BY <1>1, StepsAreStatements DEF At, Ahead

\* The commit that an action already taken goes to.
LEMMA JumpsToCommit ==
  ASSUME TypeOK, NEW r \in Requests, At(r) \in {"keyed", "again"}
  PROVE  LET c == CHOOSE i \in reqs[r].pc .. Len(steps) : steps[i] = "commit"
         IN  c \in DOMAIN steps /\ c \in Nat \ {0} /\ steps[c] = "commit" /\ c > reqs[r].pc
<1>1. Ahead(r) /\ At(r) = steps[reqs[r].pc]  BY AtStatement
<1>2. reqs[r].pc \in 1 .. Len(steps)  BY <1>1, StepsAreStatements DEF Ahead
<1>3. \E i \in reqs[r].pc .. Len(steps) : steps[i] = "commit"
  BY <1>1, DisciplineAssumption DEF TypeOK, Ahead
<1>4. DEFINE c == CHOOSE i \in reqs[r].pc .. Len(steps) : steps[i] = "commit"
<1>5. c \in reqs[r].pc .. Len(steps) /\ steps[c] = "commit"  BY <1>3
<1>6. c # reqs[r].pc  BY <1>1, <1>5
<1> HIDE DEF c
<1>7. c \in DOMAIN steps /\ c \in Nat \ {0} /\ steps[c] = "commit" /\ c > reqs[r].pc
  BY <1>2, <1>5, <1>6, StepsAreStatements
<1>8. QED  BY <1>7 DEF c

LEMMA InitType == Init => TypeOK
  BY EndpointsAssumption DEF Init, TypeOK, Fresh, Traces

\* Appending a request to a sequence of requests.
LEMMA ByGrows == ASSUME NEW s \in Seq(Requests), NEW r \in Requests
                 PROVE  /\ Append(s, r) \in Seq(Requests) /\ Len(Append(s, r)) = Len(s) + 1
                        /\ \A i \in 1 .. Len(s) : Append(s, r)[i] = s[i]
                        /\ Append(s, r)[Len(s) + 1] = r
  OBVIOUS

\* The parts of the type that one request's step is checked against.
Typed(r) == /\ reqs' \in [Requests -> ReqType]
            /\ row' \in [there : BOOLEAN, open : BOOLEAN]
            /\ lock' \in Requests \union {None} /\ cart' \in Requests \union {None, Opened}
            /\ by' \in Seq(Requests) /\ kept' \in [Requests -> SUBSET Traces]
            /\ faults' \in 0 .. MaxFaults

LEMMA PublishType == ASSUME TypeOK, NEW r \in Requests, Publish(r)
                     PROVE  /\ row' \in [there : BOOLEAN, open : BOOLEAN]
                            /\ lock' \in Requests \union {None}
                            /\ cart' \in Requests \union {None, Opened}
                            /\ by' \in Seq(Requests) /\ kept' \in [Requests -> SUBSET Traces]
<1>1. reqs[r].wrote \in SUBSET Traces  BY DEF TypeOK
<1>2. kept' \in [Requests -> SUBSET Traces]  BY <1>1 DEF TypeOK, Publish
<1>3. by' \in Seq(Requests)  BY ByGrows DEF TypeOK, Publish
<1>4. row' \in [there : BOOLEAN, open : BOOLEAN]  BY DEF TypeOK, Publish
<1>5. QED  BY <1>2, <1>3, <1>4 DEF TypeOK, Publish, Released

LEMMA DiscardType == ASSUME TypeOK, NEW r \in Requests, Discard(r)
                     PROVE  /\ row' \in [there : BOOLEAN, open : BOOLEAN]
                            /\ lock' \in Requests \union {None}
                            /\ cart' \in Requests \union {None, Opened}
                            /\ by' \in Seq(Requests) /\ kept' \in [Requests -> SUBSET Traces]
  BY DEF TypeOK, Discard, Released

LEMMA AnswerType == ASSUME TypeOK, NEW r \in Requests,
                           NEW a \in {"ok", "refused", "failed", "lost"}, Answer(r, a)
                    PROVE  /\ reqs' \in [Requests -> ReqType] /\ Others(r)
                           /\ reqs'[r].answer = a /\ reqs'[r].wrote = {}
                           /\ reqs'[r].seen = reqs[r].seen
<1>1. reqs \in [Requests -> ReqType] /\ reqs[r] \in ReqType  BY DEF TypeOK, ReqType
<1>2. DEFINE q == [reqs[r] EXCEPT !.tx = FALSE, !.wrote = {}, !.answer = a]
<1>3. q \in ReqType /\ q.answer = a /\ q.wrote = {} /\ q.seen = reqs[r].seen
  BY <1>1 DEF ReqType
<1>4. reqs' = [reqs EXCEPT ![r] = q]  BY DEF Answer, Next1
<1> HIDE DEF q
<1>5. reqs'[r] = q /\ reqs' \in [Requests -> ReqType]  BY <1>1, <1>3, <1>4
<1>6. QED  BY <1>3, <1>4, <1>5 DEF Others

LEMMA PassType == ASSUME TypeOK, NEW r \in Requests, NEW q \in ReqType, Pass(r, q),
                         q.pc = reqs[r].pc, q.answer = "none"
                  PROVE  /\ reqs' \in [Requests -> ReqType] /\ Others(r) /\ Goes(r)
                         /\ reqs'[r].wrote = q.wrote /\ reqs'[r].seen = q.seen
<1>1. DEFINE p == [q EXCEPT !.pc = @ + 1]
<1>2. q.pc \in Nat \ {0}  BY DEF ReqType
<1>3. /\ p \in ReqType /\ p.pc = reqs[r].pc + 1 /\ p.answer = "none"
      /\ p.wrote = q.wrote /\ p.seen = q.seen
  BY <1>2 DEF ReqType
<1>4. reqs \in [Requests -> ReqType]  BY DEF TypeOK, ReqType
<1>5. reqs' = [reqs EXCEPT ![r] = p]  BY DEF Pass, Next1
<1>6. reqs'[r] = p /\ reqs' \in [Requests -> ReqType]  BY <1>3, <1>4, <1>5
<1>7. QED  BY <1>3, <1>5, <1>6 DEF Others, Goes

\* A refusal or a failure is a commit of what was written, or gives up.
LEMMA EndShape ==
  ASSUME TypeOK, NEW r \in Requests, NEW a \in {"refused", "failed", "lost"},
         Discard(r), Answer(r, a), a = "failed" => MayFail(r)
  PROVE  GivesUp(r) /\ Others(r) /\ reqs' \in [Requests -> ReqType]
<1>1. reqs'[r].answer = a /\ reqs'[r].wrote = {} /\ reqs'[r].seen = reqs[r].seen /\ Others(r)
  BY AnswerType
<1>2. QED  BY <1>1, AnswerType DEF GivesUp, Same, Discard

LEMMA ThrowShape ==
  ASSUME TypeOK, NEW r \in Requests, Throw(r), At(r) \in Readers
  PROVE  /\ Commits(r) \/ GivesUp(r)
         /\ Others(r) /\ reqs' \in [Requests -> ReqType]
         /\ row' \in [there : BOOLEAN, open : BOOLEAN] /\ lock' \in Requests \union {None}
         /\ cart' \in Requests \union {None, Opened}
         /\ by' \in Seq(Requests) /\ kept' \in [Requests -> SUBSET Traces]
<1>1. Answer(r, "refused")  BY DEF Throw
<1>2. /\ reqs'[r].answer = "refused" /\ reqs'[r].wrote = {} /\ reqs'[r].seen = reqs[r].seen
      /\ Others(r) /\ reqs' \in [Requests -> ReqType]
  BY <1>1, AnswerType
<1>3. Ahead(r) /\ steps[reqs[r].pc] \in Readers  BY AtStatement DEF Readers
<1>4. CASE reqs[r].tx
  <2>1. Publish(r)  BY <1>4 DEF Throw
  <2>2. Commits(r)  BY <2>1, <1>2, <1>3 DEF Commits, Publish
  <2>3. QED  BY <2>1, <2>2, <1>2, PublishType
<1>5. CASE ~reqs[r].tx
  <2>1. Discard(r)  BY <1>5 DEF Throw
  <2>2. QED  BY <2>1, <1>1, EndShape, DiscardType
<1>6. QED  BY <1>4, <1>5

\* The statements that only move on.
LEMMA PassShape ==
  ASSUME TypeOK, NEW r \in Requests, NEW q \in ReqType, Pass(r, q), Ahead(r),
         q.pc = reqs[r].pc, q.answer = "none",
         UNCHANGED <<lock, by, row>>,
         steps[reqs[r].pc] \notin Locks \union {"commit"},
         q.wrote \cap {"row"} = reqs[r].wrote \cap {"row"},
         q.seen = reqs[r].seen \/ (steps[reqs[r].pc] \in Readers /\ q.seen = Len(by))
  PROVE  MovesOn(r) /\ Others(r) /\ reqs' \in [Requests -> ReqType]
  BY PassType DEF MovesOn, Same

-----------------------------------------------------------------------------
(* Every step of a request keeps the types and has one of the shapes.           *)

Good(r) == /\ Typed(r) /\ Others(r)
           /\ MovesOn(r) \/ Takes(r) \/ Changes(r) \/ Commits(r) \/ GivesUp(r)

\* The record of a request that is still running.
LEMMA RunningRecord == ASSUME TypeOK, NEW r \in Requests, Running(r)
                       PROVE  reqs[r] \in ReqType /\ reqs[r].answer = "none" /\ Len(by) \in Nat
  BY LenProperties DEF TypeOK, ReqType, Running

LEMMA BeginGood == ASSUME TypeOK, NEW r \in Requests, Running(r), Begin(r) PROVE Good(r)
<1>1. Ahead(r) /\ steps[reqs[r].pc] = "begin"  BY AtStatement DEF Begin
<1>2. DEFINE q == [reqs[r] EXCEPT !.tx = TRUE]
<1>3. q \in ReqType /\ q.pc = reqs[r].pc /\ q.answer = "none" /\ q.wrote = reqs[r].wrote
      /\ q.seen = reqs[r].seen
  BY RunningRecord DEF ReqType
<1>4. Pass(r, q) /\ UNCHANGED <<lock, cart, by, row, kept, faults>>  BY DEF Begin, Keep
<1>5. MovesOn(r) /\ Others(r) /\ reqs' \in [Requests -> ReqType]
  BY <1>1, <1>3, <1>4, PassShape DEF Locks
<1>6. QED  BY <1>4, <1>5 DEF Good, Typed, TypeOK

LEMMA CommitGood == ASSUME TypeOK, NEW r \in Requests, Running(r), Commit(r) PROVE Good(r)
<1>1. Ahead(r) /\ steps[reqs[r].pc] = "commit"  BY AtStatement DEF Commit
<1>2. DEFINE q == [reqs[r] EXCEPT !.tx = FALSE, !.wrote = {}]
<1>3. q \in ReqType /\ q.pc = reqs[r].pc /\ q.answer = "none" /\ q.wrote = {}
      /\ q.seen = reqs[r].seen
  BY RunningRecord DEF ReqType
<1>4. Pass(r, q) /\ Publish(r) /\ faults' = faults  BY DEF Commit
<1>5. reqs' \in [Requests -> ReqType] /\ Others(r) /\ Goes(r) /\ reqs'[r].wrote = {}
      /\ reqs'[r].seen = reqs[r].seen
  BY <1>3, <1>4, PassType
<1>6. Commits(r)  BY <1>1, <1>4, <1>5 DEF Commits, Publish
<1>7. QED  BY <1>4, <1>5, <1>6, PublishType DEF Good, Typed, TypeOK

LEMMA ReadGood == ASSUME TypeOK, NEW r \in Requests, Running(r), Read(r) PROVE Good(r)
<1>1. Ahead(r) /\ steps[reqs[r].pc] \in {"read", "aim", "ask"}  BY AtStatement DEF Read
<1>2. DEFINE n == Len(by)
             q == [reqs[r] EXCEPT !.found = row.there, !.seen = n]
<1>3. q \in ReqType /\ q.pc = reqs[r].pc /\ q.answer = "none" /\ q.wrote = reqs[r].wrote
      /\ q.seen = n
  <2>1. n \in Nat /\ row.there \in BOOLEAN  BY RunningRecord DEF TypeOK
  <2> HIDE DEF n
  <2>2. QED  BY <2>1, RunningRecord DEF ReqType
<1>4. Pass(r, q) /\ UNCHANGED <<lock, cart, by, row, kept, faults>>  BY DEF Read, Keep
<1>5. MovesOn(r) /\ Others(r) /\ reqs' \in [Requests -> ReqType]
  BY <1>1, <1>3, <1>4, PassShape DEF Locks, Readers
<1>6. QED  BY <1>4, <1>5 DEF Good, Typed, TypeOK

\* The record that a read leaves behind.
LEMMA SawIt == ASSUME TypeOK, NEW r \in Requests, Running(r)
               PROVE  LET q == [reqs[r] EXCEPT !.seen = Len(by)]
                      IN  /\ q \in ReqType /\ q.pc = reqs[r].pc /\ q.answer = "none"
                          /\ q.wrote = reqs[r].wrote /\ q.seen = Len(by)
<1>1. DEFINE n == Len(by)
<1>2. n \in Nat  BY RunningRecord
<1> HIDE DEF n
<1>3. LET q == [reqs[r] EXCEPT !.seen = n]
      IN  /\ q \in ReqType /\ q.pc = reqs[r].pc /\ q.answer = "none"
          /\ q.wrote = reqs[r].wrote /\ q.seen = n
  BY <1>2, RunningRecord DEF ReqType
<1>4. QED  BY <1>3 DEF n

LEMMA NeedsGood == ASSUME TypeOK, NEW r \in Requests, Running(r), Needs(r) PROVE Good(r)
<1>1. Ahead(r) /\ steps[reqs[r].pc] = At(r) /\ At(r) \in Readers
  BY AtStatement DEF Needs, Readers
<1>2. DEFINE q == [reqs[r] EXCEPT !.seen = Len(by)]
<1>3. \/ Pass(r, q) /\ UNCHANGED <<lock, cart, by, row, kept, faults>>
      \/ Throw(r) /\ faults' = faults
  BY DEF Needs, Keep
<1>4. CASE Pass(r, q) /\ UNCHANGED <<lock, cart, by, row, kept, faults>>
  <2>1. MovesOn(r) /\ Others(r) /\ reqs' \in [Requests -> ReqType]
    BY <1>1, <1>4, SawIt, PassShape DEF Locks, Readers
  <2>2. QED  BY <1>4, <2>1 DEF Good, Typed, TypeOK
<1>5. CASE Throw(r) /\ faults' = faults
  BY <1>1, <1>5, ThrowShape DEF Good, Typed, TypeOK
<1>6. QED  BY <1>3, <1>4, <1>5

LEMMA DemandsGood == ASSUME TypeOK, NEW r \in Requests, Running(r), Demands(r) PROVE Good(r)
<1>1. Ahead(r) /\ steps[reqs[r].pc] = At(r) /\ At(r) \in Readers
  BY AtStatement DEF Demands, Readers
<1>2. DEFINE q == [reqs[r] EXCEPT !.seen = Len(by)]
<1>3. \/ Pass(r, q) /\ UNCHANGED <<lock, cart, by, row, kept, faults>>
      \/ Discard(r) /\ Answer(r, "refused") /\ faults' = faults
  BY DEF Demands, Keep, Raise
<1>4. CASE Pass(r, q) /\ UNCHANGED <<lock, cart, by, row, kept, faults>>
  <2>1. MovesOn(r) /\ Others(r) /\ reqs' \in [Requests -> ReqType]
    BY <1>1, <1>4, SawIt, PassShape DEF Locks, Readers
  <2>2. QED  BY <1>4, <2>1 DEF Good, Typed, TypeOK
<1>5. CASE Discard(r) /\ Answer(r, "refused") /\ faults' = faults
  BY <1>5, EndShape, DiscardType DEF Good, Typed, TypeOK
<1>6. QED  BY <1>3, <1>4, <1>5

LEMMA TakeGood == ASSUME TypeOK, NEW r \in Requests, Running(r), Take(r) PROVE Good(r)
<1>1. Ahead(r) /\ steps[reqs[r].pc] = "take"  BY AtStatement DEF Take
<1>2. DEFINE q == [reqs[r] EXCEPT !.seen = Len(by)]
<1>3. CASE row.there /\ row.open
  <2>1. Pass(r, q) /\ lock' = r /\ Free(r) /\ UNCHANGED <<cart, by, row, kept, faults>>
    BY <1>3 DEF Take
  <2>2. /\ reqs' \in [Requests -> ReqType] /\ Others(r) /\ Goes(r)
        /\ reqs'[r].wrote = reqs[r].wrote /\ reqs'[r].seen = Len(by)
    BY <2>1, SawIt, PassType
  <2>3. Takes(r)  BY <1>1, <1>3, <2>1, <2>2 DEF Takes, Same, Locks
  <2>4. QED  BY <2>1, <2>2, <2>3 DEF Good, Typed, TypeOK
<1>4. CASE ~(row.there /\ row.open)
  <2>1. Discard(r) /\ Answer(r, "refused") /\ faults' = faults  BY <1>4 DEF Take, Raise
  <2>2. QED  BY <2>1, EndShape, DiscardType DEF Good, Typed, TypeOK
<1>5. QED  BY <1>3, <1>4

\* The record of a request that goes on at another statement.
LEMMA JumpedTo == ASSUME TypeOK, NEW r \in Requests, Running(r), NEW p \in Nat \ {0}
                  PROVE  LET q == [reqs[r] EXCEPT !.pc = p]
                         IN  /\ q \in ReqType /\ q.wrote = reqs[r].wrote
                             /\ q.seen = reqs[r].seen /\ q.answer = "none" /\ q.pc = p
  BY RunningRecord DEF ReqType

LEMMA KeyedGood == ASSUME TypeOK, NEW r \in Requests, Running(r), Keyed(r) PROVE Good(r)
<1>1. Ahead(r) /\ steps[reqs[r].pc] = "keyed"  BY AtStatement DEF Keyed
<1>2. DEFINE commit == CHOOSE i \in reqs[r].pc .. Len(steps) : steps[i] = "commit"
<1>3. /\ commit \in DOMAIN steps /\ commit \in Nat \ {0} /\ steps[commit] = "commit"
      /\ commit > reqs[r].pc
  BY JumpsToCommit DEF Keyed
<1> HIDE DEF commit
<1>4. CASE row.there
  <2>1. DEFINE p == IF row.open THEN reqs[r].pc + 1 ELSE commit
               n == Len(by)
               q == [reqs[r] EXCEPT !.pc = p, !.seen = n]
  <2>2. reqs' = [reqs EXCEPT ![r] = q] /\ lock' = r /\ Free(r)
        /\ UNCHANGED <<cart, by, row, kept, faults>>
    BY <1>4 DEF Keyed, Next1, commit
  <2>3. n \in Nat /\ p \in Nat \ {0}
    BY <1>3, LenProperties DEF TypeOK
  <2> HIDE DEF p, n
  <2>4. q \in ReqType /\ q.wrote = reqs[r].wrote /\ q.seen = n /\ q.answer = "none"
        /\ q.pc = p
    <3>1. reqs[r] \in ReqType /\ reqs[r].answer = "none"  BY RunningRecord DEF ReqType
    <3>2. QED  BY <2>3, <3>1 DEF ReqType
  <2> USE DEF p, n
  <2>5. reqs'[r] = q /\ reqs' \in [Requests -> ReqType] /\ Others(r)
    BY <2>2, <2>4 DEF TypeOK, ReqType, Others
  <2>6. Goes(r)  BY <1>3, <2>4, <2>5 DEF Goes
  <2>7. CASE row.open
    BY <1>1, <2>2, <2>4, <2>5, <2>6, <2>7 DEF Takes, Same, Locks, Good, Typed, TypeOK
  <2>8. CASE ~row.open
    <3>1. MovesOn(r)
      BY <1>1, <1>3, <2>2, <2>4, <2>5, <2>6, <2>8 DEF MovesOn, Same, Locks, Readers
    <3>2. QED  BY <2>2, <2>5, <3>1 DEF Good, Typed, TypeOK
  <2>9. QED  BY <2>7, <2>8
<1>5. CASE ~row.there
  <2>1. Discard(r) /\ Answer(r, "refused") /\ faults' = faults  BY <1>5 DEF Keyed, Raise
  <2>2. QED  BY <2>1, EndShape, DiscardType DEF Good, Typed, TypeOK
<1>6. QED  BY <1>4, <1>5

LEMMA AgainGood == ASSUME TypeOK, NEW r \in Requests, Running(r), Again(r) PROVE Good(r)
<1>1. Ahead(r) /\ steps[reqs[r].pc] = "again"  BY AtStatement DEF Again
<1>2. DEFINE commit == CHOOSE i \in reqs[r].pc .. Len(steps) : steps[i] = "commit"
<1>3. /\ commit \in DOMAIN steps /\ commit \in Nat \ {0} /\ steps[commit] = "commit"
      /\ commit > reqs[r].pc
  BY JumpsToCommit DEF Again
<1> HIDE DEF commit
<1>4. DEFINE p == IF row.open THEN reqs[r].pc + 1 ELSE commit
             q == [reqs[r] EXCEPT !.pc = p]
<1>5. reqs' = [reqs EXCEPT ![r] = q] /\ UNCHANGED <<lock, cart, by, row, kept, faults>>
  BY DEF Again, Next1, Keep, commit
<1>6. p \in Nat \ {0}  BY <1>3 DEF TypeOK
<1> HIDE DEF p
<1>7. q \in ReqType /\ q.wrote = reqs[r].wrote /\ q.seen = reqs[r].seen /\ q.answer = "none"
      /\ q.pc = p
  BY <1>6, JumpedTo
<1> USE DEF p
<1>8. reqs'[r] = q /\ reqs' \in [Requests -> ReqType] /\ Others(r)
  BY <1>5, <1>7 DEF TypeOK, ReqType, Others
<1>9. Goes(r)  BY <1>3, <1>7, <1>8 DEF Goes
<1>10. MovesOn(r)
  BY <1>1, <1>5, <1>7, <1>8, <1>9 DEF MovesOn, Same, Locks, Writers, Guarded
<1>11. QED  BY <1>5, <1>8, <1>10 DEF Good, Typed, TypeOK

\* The record that a write leaves behind.
LEMMA WroteIt == ASSUME TypeOK, NEW r \in Requests, Running(r), NEW t \in SUBSET Traces,
                        NEW f \in BOOLEAN
                 PROVE  /\ LET q == [Wrote(r, t) EXCEPT !.found = f]
                            IN  /\ q \in ReqType /\ q.pc = reqs[r].pc /\ q.answer = "none"
                                /\ q.wrote = reqs[r].wrote \union t /\ q.seen = reqs[r].seen
                        /\ LET q == Wrote(r, t)
                            IN  /\ q \in ReqType /\ q.pc = reqs[r].pc /\ q.answer = "none"
                                /\ q.wrote = reqs[r].wrote \union t /\ q.seen = reqs[r].seen
<1>1. reqs[r] \in ReqType /\ reqs[r].answer = "none"  BY RunningRecord DEF ReqType
<1>2. reqs[r].wrote \union t \in SUBSET Traces  BY <1>1 DEF ReqType
<1>3. QED  BY <1>1, <1>2 DEF ReqType, Wrote

\* The statements that mark the row as changed.
LEMMA WroteRow == ASSUME TypeOK, NEW r \in Requests, Running(r)
                  PROVE  LET q == Wrote(r, {"row"})
                         IN  /\ q \in ReqType /\ q.pc = reqs[r].pc /\ q.answer = "none"
                             /\ q.seen = reqs[r].seen
<1>1. {"row"} \in SUBSET Traces  BY DEF Traces
<1>2. QED  BY <1>1, WroteIt

LEMMA WriteGood == ASSUME TypeOK, NEW r \in Requests, Running(r), Write(r) PROVE Good(r)
<1>1. Ahead(r) /\ steps[reqs[r].pc] \in Writers  BY AtStatement DEF Write, Writers
<1>2. DEFINE t == IF row.there THEN {"row"} ELSE {}
             q == [Wrote(r, t) EXCEPT !.found = row.there]
<1>3. t \in SUBSET Traces /\ row.there \in BOOLEAN  BY DEF Traces, TypeOK
<1>4. Pass(r, q) /\ Free(r) /\ lock' = (IF row.there THEN r ELSE lock)
      /\ UNCHANGED <<cart, by, row, kept, faults>>
  BY DEF Write
<1>5. q \in ReqType /\ q.pc = reqs[r].pc /\ q.answer = "none" /\ q.seen = reqs[r].seen
  BY <1>3, WroteIt
<1>6. reqs' \in [Requests -> ReqType] /\ Others(r) /\ Goes(r) /\ reqs'[r].seen = reqs[r].seen
  BY <1>4, <1>5, PassType
<1>7. Changes(r)  BY <1>1, <1>4, <1>6 DEF Changes, Same
<1>8. QED  BY <1>4, <1>6, <1>7 DEF Good, Typed, TypeOK

LEMMA ClaimGood == ASSUME TypeOK, NEW r \in Requests, Running(r), Claim(r) PROVE Good(r)
<1>1. Ahead(r) /\ steps[reqs[r].pc] = "claim"  BY AtStatement DEF Claim
<1>2. DEFINE match == row.there /\ row.open
             t == IF match THEN {"row"} ELSE {}
             q == [Wrote(r, t) EXCEPT !.found = match]
<1>3. t \in SUBSET Traces /\ match \in BOOLEAN  BY DEF Traces, TypeOK
<1>4. Pass(r, q) /\ Free(r) /\ lock' = (IF match THEN r ELSE lock)
      /\ UNCHANGED <<cart, by, row, kept, faults>>
  BY DEF Claim
<1> HIDE DEF t, match
<1>5. q \in ReqType /\ q.pc = reqs[r].pc /\ q.answer = "none" /\ q.seen = reqs[r].seen
      /\ q.wrote = reqs[r].wrote \union t
  BY <1>3, WroteIt
<1> USE DEF t, match
<1>6. reqs' \in [Requests -> ReqType] /\ Others(r) /\ Goes(r) /\ reqs'[r].seen = reqs[r].seen
      /\ reqs'[r].wrote = reqs[r].wrote \union t
  BY <1>4, <1>5, PassType
<1>7. CASE match
  BY <1>1, <1>4, <1>6, <1>7 DEF Changes, Same, Guarded, Good, Typed, TypeOK
<1>8. CASE ~match
  <2>1. MovesOn(r)  BY <1>1, <1>4, <1>6, <1>8 DEF MovesOn, Same, Locks
  <2>2. QED  BY <1>4, <1>6, <2>1 DEF Good, Typed, TypeOK
<1>9. QED  BY <1>7, <1>8

LEMMA UniqueGood == ASSUME TypeOK, NEW r \in Requests, Running(r), Unique(r) PROVE Good(r)
<1>1. Ahead(r) /\ steps[reqs[r].pc] = "unique"  BY AtStatement DEF Unique
<1>2. CASE row.open
  <2>1. Pass(r, Wrote(r, {"row"})) /\ Free(r) /\ lock' = r
        /\ UNCHANGED <<cart, by, row, kept, faults>>
    BY <1>2 DEF Unique
  <2>2. reqs' \in [Requests -> ReqType] /\ Others(r) /\ Goes(r) /\ reqs'[r].seen = reqs[r].seen
    BY <2>1, WroteRow, PassType
  <2>3. Changes(r)  BY <1>1, <1>2, <2>1, <2>2 DEF Changes, Same, Guarded
  <2>4. QED  BY <2>1, <2>2, <2>3 DEF Good, Typed, TypeOK
<1>3. CASE ~row.open
  <2>1. Discard(r) /\ Answer(r, "failed") /\ faults' = faults  BY <1>3 DEF Unique, Crash
  <2>2. MayFail(r)  BY <1>1 DEF MayFail
  <2>3. QED  BY <2>1, <2>2, EndShape, DiscardType DEF Good, Typed, TypeOK
<1>4. QED  BY <1>2, <1>3

LEMMA SwapGood == ASSUME TypeOK, NEW r \in Requests, Running(r), Swap(r) PROVE Good(r)
<1>1. Ahead(r) /\ steps[reqs[r].pc] = "swap"  BY AtStatement DEF Swap
<1>2. CASE reqs[r].seen = Len(by)
  <2>1. Pass(r, Wrote(r, {"row"})) /\ Free(r) /\ lock' = r
        /\ UNCHANGED <<cart, by, row, kept, faults>>
    BY <1>2 DEF Swap
  <2>2. reqs' \in [Requests -> ReqType] /\ Others(r) /\ Goes(r) /\ reqs'[r].seen = reqs[r].seen
    BY <2>1, WroteRow, PassType
  <2>3. Changes(r)  BY <1>1, <2>1, <2>2 DEF Changes, Same, Writers
  <2>4. QED  BY <2>1, <2>2, <2>3 DEF Good, Typed, TypeOK
<1>3. CASE reqs[r].seen # Len(by)
  <2>1. Discard(r) /\ Answer(r, "failed") /\ faults' = faults  BY <1>3 DEF Swap, Crash
  <2>2. MayFail(r)  BY <1>1 DEF MayFail
  <2>3. QED  BY <2>1, <2>2, EndShape, DiscardType DEF Good, Typed, TypeOK
<1>4. QED  BY <1>2, <1>3

\* A record kept as it is, and one that remembers whether there is a cart.
LEMMA KeptIt == ASSUME TypeOK, NEW r \in Requests, Running(r), NEW b \in BOOLEAN
                PROVE  /\ reqs[r] \in ReqType /\ reqs[r].answer = "none"
                       /\ LET q == [reqs[r] EXCEPT !.cart = b]
                          IN  /\ q \in ReqType /\ q.pc = reqs[r].pc /\ q.answer = "none"
                              /\ q.wrote = reqs[r].wrote /\ q.seen = reqs[r].seen
  BY RunningRecord DEF ReqType

LEMMA SeekCartGood == ASSUME TypeOK, NEW r \in Requests, Running(r), SeekCart(r) PROVE Good(r)
<1>1. Ahead(r) /\ steps[reqs[r].pc] = "seekCart"  BY AtStatement DEF SeekCart
<1>2. DEFINE b == cart \in {r, Opened}
             q == [reqs[r] EXCEPT !.cart = b]
<1>3. Pass(r, q) /\ UNCHANGED <<lock, cart, by, row, kept, faults>>  BY DEF SeekCart, Keep
<1>4. b \in BOOLEAN  OBVIOUS
<1> HIDE DEF b
<1>5. q \in ReqType /\ q.pc = reqs[r].pc /\ q.answer = "none" /\ q.wrote = reqs[r].wrote
      /\ q.seen = reqs[r].seen
  BY <1>4, KeptIt
<1>6. MovesOn(r) /\ Others(r) /\ reqs' \in [Requests -> ReqType]
  BY <1>1, <1>3, <1>5, PassShape DEF Locks
<1>7. QED  BY <1>3, <1>6 DEF Good, Typed, TypeOK

\* A write that leaves the row alone.
LEMMA AsideIt == ASSUME TypeOK, NEW r \in Requests, Running(r), NEW t \in SUBSET (Traces \ {"row"})
                 PROVE  LET q == Wrote(r, t)
                        IN  /\ q \in ReqType /\ q.pc = reqs[r].pc /\ q.answer = "none"
                            /\ q.wrote \cap {"row"} = reqs[r].wrote \cap {"row"}
                            /\ q.seen = reqs[r].seen
<1>1. t \in SUBSET Traces /\ "row" \notin t  OBVIOUS
<1>2. DEFINE q == Wrote(r, t)
<1>3. q \in ReqType /\ q.pc = reqs[r].pc /\ q.answer = "none"
      /\ q.wrote = reqs[r].wrote \union t /\ q.seen = reqs[r].seen
  BY <1>1, WroteIt
<1> HIDE DEF q
<1>4. q.wrote \cap {"row"} = reqs[r].wrote \cap {"row"}  BY <1>1, <1>3
<1>5. QED  BY <1>3, <1>4 DEF q

LEMMA OpenCartGood == ASSUME TypeOK, NEW r \in Requests, Running(r), OpenCart(r) PROVE Good(r)
<1>1. Ahead(r) /\ steps[reqs[r].pc] = "openCart"  BY AtStatement DEF OpenCart
<1>2. \/ Pass(r, reqs[r]) /\ UNCHANGED <<lock, cart, by, row, kept, faults>>
      \/ cart' = r /\ Pass(r, Wrote(r, {"side"})) /\ UNCHANGED <<lock, by, row, kept, faults>>
      \/ Crash(r) /\ faults' = faults
  BY DEF OpenCart, Keep
<1>3. CASE Pass(r, reqs[r]) /\ UNCHANGED <<lock, cart, by, row, kept, faults>>
  <2>1. MovesOn(r) /\ Others(r) /\ reqs' \in [Requests -> ReqType]
    BY <1>1, <1>3, KeptIt, PassShape DEF Locks
  <2>2. QED  BY <1>3, <2>1 DEF Good, Typed, TypeOK
<1>4. CASE cart' = r /\ Pass(r, Wrote(r, {"side"})) /\ UNCHANGED <<lock, by, row, kept, faults>>
  <2>1. DEFINE q == Wrote(r, {"side"})
  <2>2. {"side"} \in SUBSET (Traces \ {"row"})  BY DEF Traces
  <2>3. q \in ReqType /\ q.pc = reqs[r].pc /\ q.answer = "none" /\ q.seen = reqs[r].seen
        /\ q.wrote \cap {"row"} = reqs[r].wrote \cap {"row"}
    BY <2>2, AsideIt
  <2>4. MovesOn(r) /\ Others(r) /\ reqs' \in [Requests -> ReqType]
    BY <1>1, <1>4, <2>3, PassShape DEF Locks
  <2>5. QED  BY <1>4, <2>4 DEF Good, Typed, TypeOK
<1>5. CASE Crash(r) /\ faults' = faults
  <2>1. MayFail(r)  BY <1>1 DEF MayFail
  <2>2. QED  BY <1>5, <2>1, EndShape, DiscardType DEF Crash, Good, Typed, TypeOK
<1>6. QED  BY <1>2, <1>3, <1>4, <1>5

LEMMA InsertGood == ASSUME TypeOK, NEW r \in Requests, Running(r), Insert(r) PROVE Good(r)
<1>1. Ahead(r) /\ At(r) = steps[reqs[r].pc] /\ UNCHANGED <<lock, cart, by, row, kept, faults>>
  BY AtStatement DEF Insert, Keep
<1>2. CASE At(r) \in {"add", "enter"}
  <2>1. {"row"} \in SUBSET Traces  BY DEF Traces
  <2>2. DEFINE q == [Wrote(r, {"row"}) EXCEPT !.found = TRUE]
  <2>3. Pass(r, q)  BY <1>2 DEF Insert
  <2>4. q \in ReqType /\ q.pc = reqs[r].pc /\ q.answer = "none" /\ q.seen = reqs[r].seen
    BY <2>1, WroteIt
  <2>5. reqs' \in [Requests -> ReqType] /\ Others(r) /\ Goes(r) /\ reqs'[r].seen = reqs[r].seen
    BY <2>3, <2>4, PassType
  <2>6. Changes(r)  BY <1>1, <1>2, <2>5 DEF Changes, Same, Writers
  <2>7. QED  BY <1>1, <2>5, <2>6 DEF Good, Typed, TypeOK
<1>3. ASSUME NEW t \in SUBSET (Traces \ {"row"}), Pass(r, Wrote(r, t)),
             At(r) \in {"side", "tell", "tellMatch", "note"}
      PROVE  Good(r)
  <2>1. DEFINE q == Wrote(r, t)
  <2>2. q \in ReqType /\ q.pc = reqs[r].pc /\ q.answer = "none" /\ q.seen = reqs[r].seen
        /\ q.wrote \cap {"row"} = reqs[r].wrote \cap {"row"}
    BY AsideIt
  <2>3. MovesOn(r) /\ Others(r) /\ reqs' \in [Requests -> ReqType]
    BY <1>1, <1>3, <2>2, PassShape DEF Locks
  <2>4. QED  BY <1>1, <2>3 DEF Good, Typed, TypeOK
<1>4. CASE At(r) = "tellMatch" /\ ~reqs[r].found
  <2>1. Pass(r, reqs[r])  BY <1>4 DEF Insert
  <2>2. MovesOn(r) /\ Others(r) /\ reqs' \in [Requests -> ReqType]
    BY <1>1, <1>4, <2>1, KeptIt, PassShape DEF Locks
  <2>3. QED  BY <1>1, <2>2 DEF Good, Typed, TypeOK
<1>5. {"side"} \in SUBSET (Traces \ {"row"}) /\ {"event"} \in SUBSET (Traces \ {"row"})
      /\ {"note"} \in SUBSET (Traces \ {"row"})
  BY DEF Traces
<1>6. CASE At(r) = "side"
  <2>1. Pass(r, Wrote(r, {"side"}))  BY <1>6 DEF Insert
  <2>2. QED  BY <1>3, <1>5, <1>6, <2>1
<1>7. CASE At(r) = "tell" \/ (At(r) = "tellMatch" /\ reqs[r].found)
  <2>1. Pass(r, Wrote(r, {"event"}))  BY <1>7 DEF Insert
  <2>2. QED  BY <1>3, <1>5, <1>7, <2>1
<1>8. CASE At(r) = "note"
  <2>1. Pass(r, Wrote(r, {"note"}))  BY <1>8 DEF Insert
  <2>2. QED  BY <1>3, <1>5, <1>8, <2>1
<1>9. QED  BY <1>2, <1>4, <1>6, <1>7, <1>8 DEF Insert

LEMMA CallOutGood == ASSUME TypeOK, NEW r \in Requests, Running(r), CallOut(r) PROVE Good(r)
<1>1. Ahead(r) /\ steps[reqs[r].pc] = "call"  BY AtStatement DEF CallOut
<1>2. Pass(r, reqs[r]) /\ UNCHANGED <<lock, cart, by, row, kept, faults>>  BY DEF CallOut, Keep
<1>3. MovesOn(r) /\ Others(r) /\ reqs' \in [Requests -> ReqType]
  BY <1>1, <1>2, KeptIt, PassShape DEF Locks
<1>4. QED  BY <1>2, <1>3 DEF Good, Typed, TypeOK

LEMMA AttemptGood ==
  ASSUME TypeOK, NEW r \in Requests, Running(r), Attempt(r) \/ AttemptFails(r) PROVE Good(r)
<1>1. Ahead(r) /\ steps[reqs[r].pc] = "attempt"  BY AtStatement DEF Attempt, AttemptFails
<1>2. Pass(r, reqs[r]) /\ UNCHANGED <<lock, cart, by, row>>  BY DEF Attempt, AttemptFails
<1>3. kept' \in [Requests -> SUBSET Traces] /\ faults' \in 0 .. MaxFaults
  <2>1. CASE Attempt(r)
    <3>1. kept' = [kept EXCEPT ![r] = @ \union {"side"}]  BY <2>1 DEF Attempt
    <3>2. {"side"} \in SUBSET Traces  BY DEF Traces
    <3>3. kept \in [Requests -> SUBSET Traces] /\ kept[r] \union {"side"} \in SUBSET Traces
      BY <3>2 DEF TypeOK
    <3>4. QED  BY <2>1, <3>1, <3>3 DEF Attempt, TypeOK
  <2>2. CASE AttemptFails(r)  BY <2>2, EndpointsAssumption DEF AttemptFails, TypeOK
  <2>3. QED  BY <2>1, <2>2
<1>4. MovesOn(r) /\ Others(r) /\ reqs' \in [Requests -> ReqType]
  BY <1>1, <1>2, KeptIt, PassShape DEF Locks
<1>5. QED  BY <1>2, <1>3, <1>4 DEF Good, Typed, TypeOK

LEMMA FinishGood == ASSUME TypeOK, NEW r \in Requests, Running(r), Finish(r) PROVE Good(r)
<1>1. Answer(r, "ok") /\ UNCHANGED <<lock, cart, by, row, kept, faults>>  BY DEF Finish, Keep
<1>2. reqs'[r].answer = "ok" /\ reqs'[r].wrote = {} /\ reqs'[r].seen = reqs[r].seen
      /\ Others(r) /\ reqs' \in [Requests -> ReqType]
  BY <1>1, AnswerType
<1>3. GivesUp(r)  BY <1>1, <1>2 DEF GivesUp, Same
<1>4. QED  BY <1>1, <1>2, <1>3 DEF Good, Typed, TypeOK

LEMMA FaultGood ==
  ASSUME TypeOK, NEW r \in Requests, Running(r), CallFails(r) \/ Die(r) PROVE Good(r)
<1>1. \E a \in {"failed", "lost"} : Discard(r) /\ Answer(r, a)  BY DEF CallFails, Die, Crash
<1>2. faults' \in 0 .. MaxFaults  BY EndpointsAssumption DEF CallFails, Die, TypeOK
<1>3. MayFail(r)  BY DEF MayFail, CallFails, Die
<1>4. QED  BY <1>1, <1>2, <1>3, EndShape, DiscardType DEF Good, Typed

\* What every invariant below is proved from.
LEMMA StepShape ==
  ASSUME TypeOK, NEW r \in Requests, Step(r) \/ Fault(r)
  PROVE  Typed(r) /\ Shape(r)
<1>1. Running(r) /\ UNCHANGED <<ep, steps>>  BY DEF Step, Fault
<1>2. Good(r)
  BY <1>1, BeginGood, CommitGood, ReadGood, NeedsGood, DemandsGood, TakeGood, KeyedGood, AgainGood,
     WriteGood, ClaimGood, UniqueGood, SwapGood, SeekCartGood, OpenCartGood, InsertGood,
     CallOutGood, AttemptGood, FinishGood, FaultGood DEF Step, Fault
<1>3. QED  BY <1>1, <1>2 DEF Good, Shape

\* Every variable keeps its type, whatever the table and however many requests there
\* are: the statements carried out never leave the rows of the model.
THEOREM TypeCorrect == Spec => []TypeOK
<1>1. Init => TypeOK  BY InitType
<1>2. TypeOK /\ [Next]_vars => TypeOK'
  <2>1. ASSUME TypeOK, NEW r \in Requests, Step(r) \/ Fault(r) PROVE TypeOK'
    BY <2>1, StepShape DEF Typed, Shape, TypeOK, ReqType
  <2>2. CASE UNCHANGED vars  BY <2>2 DEF vars, TypeOK
  <2>3. QED  BY <2>1, <2>2 DEF Next
<1>3. QED  BY <1>1, <1>2, PTL DEF Spec

-----------------------------------------------------------------------------
(* The lock.                                                                    *)

Holds(r) == Running(r) /\ Ahead(r) /\ Held(steps, reqs[r].pc)
Stakes(r) == "row" \in reqs[r].wrote \/ Holds(r)

\* Who has changed the row, or is past the select for update, has the lock.
LockInv == Careful(steps) => \A r \in Requests : Stakes(r) => lock = r

LEMMA HeldNext ==
  ASSUME TypeOK, NEW p \in DOMAIN steps, Held(steps, p + 1)
  PROVE  steps[p] # "commit" /\ (steps[p] \in Locks \/ Held(steps, p))
<1>1. DOMAIN steps = 1 .. Len(steps) /\ Len(steps) \in Nat  BY StepsAreStatements
<1>2. PICK j \in DOMAIN steps : j < p + 1 /\ steps[j] \in Locks
                               /\ \A k \in j .. (p + 1) : steps[k] # "commit"
  BY DEF Held
<1>3. steps[p] # "commit"  BY <1>1, <1>2
<1>4. CASE j = p  BY <1>2, <1>3, <1>4
<1>5. CASE j # p
  <2>1. j < p /\ \A k \in j .. p : steps[k] # "commit"  BY <1>1, <1>2, <1>5
  <2>2. QED  BY <1>2, <1>3, <2>1 DEF Held
<1>6. QED  BY <1>4, <1>5

LEMMA NotHeldAtCommit ==
  ASSUME TypeOK, NEW p \in DOMAIN steps, steps[p] = "commit" PROVE ~Held(steps, p)
<1>1. DOMAIN steps = 1 .. Len(steps) /\ Len(steps) \in Nat  BY StepsAreStatements
<1>2. QED  BY <1>1 DEF Held

\* A request that holds the lock after going on held it before, or has just locked.
LEMMA HoldsBefore ==
  ASSUME TypeOK, NEW r \in Requests, Shape(r), Ahead(r), Goes(r), Holds(r)'
  PROVE  /\ steps[reqs[r].pc] # "commit"
         /\ reqs'[r].pc = reqs[r].pc + 1
         /\ steps[reqs[r].pc] \in Locks \/ Holds(r)
<1>1. reqs'[r].pc \in DOMAIN steps /\ Held(steps, reqs'[r].pc) /\ steps' = steps
  BY DEF Holds, Ahead, Shape
<1>2. reqs'[r].pc = reqs[r].pc + 1  BY <1>1, NotHeldAtCommit DEF Goes
<1>3. QED  BY <1>1, <1>2, HeldNext DEF Ahead, Holds, Shape

\* Another request's stake is the same after the step.
LEMMA OthersStakes ==
  ASSUME TypeOK, NEW r \in Requests, Shape(r), NEW s \in Requests \ {r}
  PROVE  reqs'[s] = reqs[s] /\ (Stakes(s)' <=> Stakes(s))
<1>1. reqs'[s] = reqs[s] /\ steps' = steps  BY DEF Shape, Others, TypeOK
<1>2. QED  BY <1>1 DEF Stakes, Holds, Running, Ahead

\* Only the request with a stake can gain one, but for the locking statements and the
\* ones that test the state they end.
LEMMA OwnStake ==
  ASSUME TypeOK, NEW r \in Requests, Shape(r), Careful(steps), Stakes(r)'
  PROVE  \/ MovesOn(r) /\ Stakes(r)
         \/ Takes(r)
         \/ Changes(r) /\ (steps[reqs[r].pc] \in Guarded \/ Holds(r))
<1>1. CASE MovesOn(r)
  <2>1. CASE "row" \in reqs'[r].wrote  BY <1>1, <2>1 DEF MovesOn, Stakes
  <2>2. CASE Holds(r)'
    <3>1. reqs'[r].pc = reqs[r].pc + 1 /\ (steps[reqs[r].pc] \in Locks \/ Holds(r))
      BY <1>1, <2>2, HoldsBefore DEF MovesOn
    <3>2. steps[reqs[r].pc] \notin Locks
      <4>1. reqs'[r].pc \in DOMAIN steps => steps[reqs'[r].pc] # "commit"
        BY <2>2, NotHeldAtCommit DEF Holds, Shape
      <4>2. QED  BY <1>1, <4>1 DEF MovesOn
    <3>3. QED  BY <1>1, <3>1, <3>2 DEF Stakes
  <2>3. QED  BY <2>1, <2>2 DEF Stakes
<1>2. CASE Takes(r)  BY <1>2
<1>3. CASE Changes(r)
  <2>1. steps[reqs[r].pc] \in Writers => Held(steps, reqs[r].pc)
    BY <1>3 DEF Changes, Ahead, Careful
  <2>2. QED  BY <1>3, <2>1 DEF Changes, Holds, Shape
<1>4. CASE Commits(r)
  <2>1. ~Holds(r)'  BY <1>4, HoldsBefore DEF Commits, Holds, Running
  <2>2. QED  BY <1>4, <2>1 DEF Commits, Stakes
<1>5. CASE GivesUp(r)  BY <1>5 DEF GivesUp, Stakes, Holds, Running
<1>6. QED  BY <1>1, <1>2, <1>3, <1>4, <1>5 DEF Shape

LEMMA LockStep ==
  ASSUME TypeOK, LockInv, NEW r \in Requests, Shape(r) PROVE LockInv'
<1>1. SUFFICES ASSUME Careful(steps), NEW s \in Requests, Stakes(s)' PROVE lock' = s
  BY DEF LockInv, Shape
<1>2. CASE s = r
  <2>1. CASE MovesOn(r) /\ Stakes(r)  BY <1>1, <1>2, <2>1 DEF MovesOn, LockInv
  <2>2. CASE Takes(r)  BY <1>2, <2>2 DEF Takes
  <2>3. CASE Changes(r) /\ (steps[reqs[r].pc] \in Guarded \/ Holds(r))
    BY <1>1, <1>2, <2>3 DEF Changes, LockInv, Stakes, Guarded, Writers
  <2>4. QED  BY <1>1, <1>2, <2>1, <2>2, <2>3, OwnStake
<1>3. CASE s # r
  <2>1. lock = s  BY <1>1, <1>3, OthersStakes DEF LockInv
  <2>2. s # None  BY EndpointsAssumption
  <2>3. lock' = lock  BY <1>3, <2>1, <2>2
    DEF Shape, MovesOn, Takes, Changes, Commits, GivesUp, Free, Released
  <2>4. QED  BY <2>1, <2>3
<1>4. QED  BY <1>2, <1>3

-----------------------------------------------------------------------------
(* What is allowed once is done once.                                           *)

OnceInv ==
  Careful(steps) /\ Closes =>
    /\ \A r \in Requests : Stakes(r) => row.open
    /\ by # <<>> => ~row.open
    /\ Len(by) <= 1

LEMMA OnceStep ==
  ASSUME TypeOK, LockInv, OnceInv, NEW r \in Requests, Shape(r) PROVE OnceInv'
<1>1. SUFFICES ASSUME Careful(steps), Closes
               PROVE  /\ \A s \in Requests : Stakes(s)' => row'.open
                      /\ by' # <<>> => ~row'.open
                      /\ Len(by') <= 1
  BY DEF OnceInv, Shape, Closes
<1>2. CASE Commits(r) /\ "row" \in reqs[r].wrote
  <2>1. lock = r /\ row.open /\ by = <<>>  BY <1>1, <1>2 DEF LockInv, OnceInv, Stakes
  <2>2. row'.open = FALSE /\ by' = Append(by, r)
    BY <1>1, <1>2 DEF Commits, TypeOK
  <2>3. Len(by') = 1  BY <2>1, <2>2
  <2>4. ~Stakes(r)'
    <3>1. ~Holds(r)'  BY <1>2, HoldsBefore DEF Commits, Holds, Running
    <3>2. QED  BY <1>2, <3>1 DEF Commits, Stakes
  <2>5. ASSUME NEW s \in Requests \ {r} PROVE ~Stakes(s)'
    BY <1>1, <2>1, OthersStakes DEF LockInv
  <2>6. QED  BY <2>2, <2>3, <2>4, <2>5
<1>3. CASE ~(Commits(r) /\ "row" \in reqs[r].wrote)
  <2>1. by' = by /\ row' = row
    BY <1>3 DEF Shape, MovesOn, Takes, Changes, Commits, GivesUp, Same
  <2>2. ASSUME NEW s \in Requests, Stakes(s)' PROVE row.open
    <3>1. CASE s = r
      BY <1>1, <2>2, <3>1, OwnStake DEF OnceInv, Takes, Changes, Stakes, Guarded, Writers
    <3>2. CASE s # r  BY <1>1, <2>2, <3>2, OthersStakes DEF OnceInv
    <3>3. QED  BY <3>1, <3>2
  <2>3. QED  BY <1>1, <2>1, <2>2 DEF OnceInv
<1>4. QED  BY <1>2, <1>3

-----------------------------------------------------------------------------
(* What is changed is what was read.                                            *)

Past(r) == \E j \in DOMAIN steps : j < reqs[r].pc /\ steps[j] = "commit"

\* A request that changed the row when n others had, and is done with it.
Settled(r, n) == reqs[r].seen = n /\ "row" \notin reqs[r].wrote /\ (Running(r) => Past(r))

SeenInv ==
  Locking(steps) =>
    /\ \A r \in Requests : Stakes(r) => reqs[r].seen = Len(by)
    /\ \A i \in DOMAIN by, r \in Requests : by[i] = r => Settled(r, i - 1)

LEMMA LockingIsCareful == Locking(steps) => Careful(steps)
  BY DEF Locking, Careful

\* Once the transaction that changed the row is committed its request reads, locks,
\* changes and commits nothing more.
LEMMA NothingAfter ==
  ASSUME TypeOK, Locking(steps), NEW r \in Requests, Past(r), Ahead(r)
  PROVE  steps[reqs[r].pc] \notin Readers \union Locks \union {"commit"} \union Writers \union Guarded
<1>1. PICK c \in DOMAIN steps : c < reqs[r].pc /\ steps[c] = "commit"  BY DEF Past
<1>2. reqs[r].pc \in DOMAIN steps  BY DEF Ahead
<1>3. DOMAIN steps = 1 .. Len(steps) /\ Len(steps) \in Nat  BY StepsAreStatements
<1>4. steps[reqs[r].pc] \notin Readers \union Locks \union {"commit"}
  BY <1>1, <1>2 DEF Locking
<1>5. ~Held(steps, reqs[r].pc)
  <2>1. SUFFICES ASSUME NEW j \in DOMAIN steps, j < reqs[r].pc, steps[j] \in Locks,
                        \A k \in j .. reqs[r].pc : steps[k] # "commit"
                 PROVE  FALSE
    BY DEF Held
  <2>2. CASE c < j  BY <1>1, <2>1, <2>2 DEF Locking
  <2>3. CASE ~(c < j)  BY <1>1, <1>2, <1>3, <2>1, <2>3
  <2>4. QED  BY <2>2, <2>3
<1>6. QED  BY <1>2, <1>4, <1>5 DEF Locking

\* A request that goes on stays past what it has passed.
LEMMA PastStays ==
  ASSUME TypeOK, NEW r \in Requests, Shape(r), Goes(r), Past(r) \/ (Ahead(r) /\ steps[reqs[r].pc] = "commit")
  PROVE  Past(r)'
<1>1. reqs[r].pc \in Nat /\ reqs'[r].pc > reqs[r].pc /\ steps' = steps
  <2>1. reqs[r].pc \in Nat  BY DEF TypeOK
  <2>2. QED  BY <2>1 DEF Goes, Shape
<1>2. reqs'[r].pc \in Nat
  <2>1. CASE reqs'[r].pc = reqs[r].pc + 1  BY <1>1, <2>1
  <2>2. CASE reqs'[r].pc \in DOMAIN steps  BY <2>2, StepsAreStatements
  <2>3. QED  BY <2>1, <2>2 DEF Goes
<1>3. CASE Past(r)
  <2>1. PICK j \in DOMAIN steps : j < reqs[r].pc /\ steps[j] = "commit"  BY <1>3 DEF Past
  <2>2. j \in Nat  BY StepsAreStatements
  <2>3. j < reqs'[r].pc  BY <1>1, <1>2, <2>1, <2>2
  <2>4. QED  BY <1>1, <2>1, <2>3 DEF Past
<1>4. CASE Ahead(r) /\ steps[reqs[r].pc] = "commit"
  BY <1>1, <1>4 DEF Past, Ahead
<1>5. QED  BY <1>3, <1>4

LEMMA SettledStep ==
  ASSUME TypeOK, Locking(steps), NEW r \in Requests, Shape(r),
         NEW s \in Requests, NEW n, Settled(s, n)
  PROVE  Settled(s, n)'
<1>1. CASE s # r
  <2>1. reqs'[s] = reqs[s] /\ steps' = steps  BY <1>1, OthersStakes DEF Shape
  <2>2. QED  BY <2>1 DEF Settled, Running, Past
<1>2. CASE s = r
  <2>1. Past(r) /\ reqs[r].seen = n /\ "row" \notin reqs[r].wrote  BY <1>2 DEF Settled, Shape
  <2>2. Ahead(r) => steps[reqs[r].pc] \notin
                      Readers \union Locks \union {"commit"} \union Writers \union Guarded
    BY <2>1, NothingAfter
  <2>3. CASE MovesOn(r)
    <3>1. Past(r)'  BY <2>1, <2>3, PastStays DEF MovesOn
    <3>2. reqs'[r].seen = n /\ "row" \notin reqs'[r].wrote  BY <2>1, <2>2, <2>3 DEF MovesOn
    <3>3. QED  BY <1>2, <3>1, <3>2 DEF Settled
  <2>4. CASE GivesUp(r)  BY <1>2, <2>1, <2>4 DEF GivesUp, Running, Settled
  <2>5. ~Takes(r) /\ ~Changes(r) /\ ~Commits(r)  BY <2>2 DEF Takes, Changes, Commits
  <2>6. QED  BY <2>3, <2>4, <2>5 DEF Shape
<1>3. QED  BY <1>1, <1>2

LEMMA SeenStep ==
  ASSUME TypeOK, LockInv, SeenInv, NEW r \in Requests, Shape(r) PROVE SeenInv'
<1>1. SUFFICES ASSUME Locking(steps)
      PROVE  /\ \A s \in Requests : Stakes(s)' => reqs'[s].seen = Len(by')
             /\ \A i \in DOMAIN by', s \in Requests : by'[i] = s => Settled(s, i - 1)'
  BY DEF SeenInv, Shape
<1>2. Careful(steps)  BY <1>1, LockingIsCareful
<1>3. by \in Seq(Requests) /\ DOMAIN by = 1 .. Len(by) /\ Len(by) \in Nat
  BY LenProperties DEF TypeOK
<1>4. ASSUME NEW i \in DOMAIN by, NEW s \in Requests, by[i] = s PROVE Settled(s, i - 1)'
  <2>1. Settled(s, i - 1)  BY <1>1, <1>4 DEF SeenInv
  <2>2. QED  BY <1>1, <2>1, SettledStep
<1>5. CASE Commits(r) /\ "row" \in reqs[r].wrote
  <2>1. by' = Append(by, r) /\ lock = r /\ reqs'[r].seen = Len(by) /\ reqs'[r].wrote = {}
    BY <1>1, <1>2, <1>5 DEF Commits, LockInv, SeenInv, Stakes
  <2>2. Len(by') = Len(by) + 1 /\ DOMAIN by' = 1 .. (Len(by) + 1)
        /\ (\A i \in 1 .. Len(by) : by'[i] = by[i]) /\ by'[Len(by) + 1] = r
    BY <1>3, <2>1, ByGrows, LenProperties
  <2>3. Running(r)' => Past(r)'
    BY <1>5, PastStays DEF Commits, Running
  <2>4. ~Stakes(r)'
    <3>1. ~Holds(r)'  BY <1>5, HoldsBefore DEF Commits, Holds, Running
    <3>2. QED  BY <2>1, <3>1 DEF Stakes
  <2>5. ASSUME NEW s \in Requests \ {r} PROVE ~Stakes(s)'
    BY <1>2, <2>1, OthersStakes DEF LockInv
  <2>6. ASSUME NEW i \in DOMAIN by', NEW s \in Requests, by'[i] = s PROVE Settled(s, i - 1)'
    <3>1. CASE i = Len(by) + 1
      <4>1. s = r /\ i - 1 = Len(by)  BY <1>3, <2>2, <2>6, <3>1
      <4>2. QED  BY <2>1, <2>3, <4>1 DEF Settled
    <3>2. CASE i # Len(by) + 1
      <4>1. i \in DOMAIN by /\ by[i] = s  BY <1>3, <2>2, <2>6, <3>2
      <4>2. QED  BY <1>4, <4>1
    <3>3. QED  BY <3>1, <3>2
  <2>7. QED  BY <2>4, <2>5, <2>6
<1>6. CASE ~(Commits(r) /\ "row" \in reqs[r].wrote)
  <2>1. by' = by
    BY <1>6 DEF Shape, MovesOn, Takes, Changes, Commits, GivesUp, Same
  <2>2. ASSUME NEW s \in Requests, Stakes(s)' PROVE reqs'[s].seen = Len(by)
    <3>1. CASE s = r
      <4>1. CASE MovesOn(r) /\ Stakes(r)  BY <1>1, <3>1, <4>1 DEF MovesOn, SeenInv
      <4>2. CASE Takes(r)  BY <3>1, <4>2 DEF Takes
      <4>3. CASE Changes(r)
        <5>1. Held(steps, reqs[r].pc)  BY <1>1, <4>3 DEF Changes, Locking, Ahead
        <5>2. Stakes(r)  BY <4>3, <5>1 DEF Changes, Stakes, Holds, Shape
        <5>3. QED  BY <1>1, <3>1, <4>3, <5>2 DEF Changes, SeenInv
      <4>4. QED  BY <1>2, <2>2, <3>1, <4>1, <4>2, <4>3, OwnStake
    <3>2. CASE s # r  BY <1>1, <2>2, <3>2, OthersStakes DEF SeenInv
    <3>3. QED  BY <3>1, <3>2
  <2>3. QED  BY <1>4, <2>1, <2>2
<1>7. QED  BY <1>5, <1>6

-----------------------------------------------------------------------------
(* Theorems.                                                                    *)

Inv == TypeOK /\ LockInv /\ OnceInv /\ SeenInv

LEMMA InitInv == Init => Inv
<1>1. SUFFICES ASSUME Init PROVE LockInv /\ OnceInv /\ SeenInv  BY InitType DEF Inv
<1>2. TypeOK  BY <1>1, InitType
<1>3. DOMAIN steps = 1 .. Len(steps) /\ Len(steps) \in Nat  BY <1>2, StepsAreStatements
<1>4. \A r \in Requests : ~Stakes(r)
  <2>1. SUFFICES ASSUME NEW r \in Requests PROVE "row" \notin reqs[r].wrote /\ ~Held(steps, 1)
    BY <1>1 DEF Stakes, Holds, Init, Fresh
  <2>2. QED  BY <1>1, <1>3 DEF Init, Fresh, Held
<1>5. QED  BY <1>1, <1>4 DEF LockInv, OnceInv, SeenInv, Init

LEMMA NextInv == Inv /\ [Next]_vars => Inv'
<1>1. ASSUME Inv, NEW r \in Requests, Step(r) \/ Fault(r) PROVE Inv'
  <2>1. Typed(r) /\ Shape(r)  BY <1>1, StepShape DEF Inv
  <2>2. TypeOK'  BY <1>1, <2>1 DEF Inv, Typed, Shape, TypeOK, ReqType
  <2>3. QED  BY <1>1, <2>1, <2>2, LockStep, OnceStep, SeenStep DEF Inv
<1>2. ASSUME Inv, UNCHANGED vars PROVE Inv'
  <2>1. TypeOK'  BY <1>2 DEF Inv, vars, TypeOK
  <2>2. LockInv' /\ OnceInv'
    BY <1>2 DEF Inv, vars, LockInv, OnceInv, Stakes, Holds, Running, Ahead, Closes
  <2>3. SeenInv'
    BY <1>2 DEF Inv, vars, SeenInv, Settled, Stakes, Holds, Running, Ahead, Past
  <2>4. QED  BY <2>1, <2>2, <2>3 DEF Inv
<1>3. QED  BY <1>1, <1>2 DEF Next

LEMMA Invariant == Spec => []Inv
  BY InitInv, NextInv, PTL DEF Spec

\* However many requests call one endpoint at once, and however their statements
\* interleave, an operation that ends the state it was allowed in is carried out at most
\* once: for every table whose rows test that state as they write, or under the lock.
THEOREM DoneOnce == Spec => []OnceOnly
<1>1. Inv => OnceOnly
  BY DisciplineAssumption DEF Inv, TypeOK, OnceInv, OnceOnly, Closes
<1>2. QED  BY <1>1, Invariant, PTL

\* However many requests there are, none changes the row on the ground of a read that
\* another one's commit has overtaken, where every change is made under the lock.
THEOREM ReadsStayTrue == Spec => []ChangesWhatItRead
<1>1. Inv => ChangesWhatItRead
  <2>1. SUFFICES ASSUME Inv, Deciding(steps), ep \notin Unlocked, NEW i \in DOMAIN by
                 PROVE  reqs[by[i]].seen = i - 1
    BY DEF ChangesWhatItRead
  <2>2. Locking(steps)  BY <2>1, DisciplineAssumption DEF Inv, TypeOK
  <2>3. by[i] \in Requests  BY <2>1 DEF Inv, TypeOK
  <2>4. QED  BY <2>1, <2>2, <2>3 DEF Inv, SeenInv, Settled
<1>2. QED  BY <1>1, Invariant, PTL

-----------------------------------------------------------------------------
(* A 500 is the answer to a fault.                                              *)

FaultInv ==
  ep \notin Colliding => \A r \in Requests : reqs[r].answer = "failed" => faults > 0

\* An endpoint that no constraint can fail answers 500 in a fault.
LEMMA OwnAnswer ==
  ASSUME TypeOK, NEW r \in Requests, Shape(r), ep \notin Colliding, reqs'[r].answer = "failed"
  PROVE  faults' = faults + 1
<1>1. GivesUp(r)  BY DEF Shape, MovesOn, Takes, Changes, Commits, Goes
<1>2. Ahead(r) => steps[reqs[r].pc] \notin {"unique", "swap", "openCart"}
  BY DisciplineAssumption DEF TypeOK, Among, Ahead
<1>3. QED  BY <1>1, <1>2 DEF GivesUp, MayFail

LEMMA FaultsAddUp ==
  ASSUME NEW r \in Requests, Step(r) \/ Fault(r) PROVE faults' \in {faults, faults + 1}
<1>1. CASE Fault(r)  BY <1>1 DEF Fault, CallFails, AttemptFails, Die
<1>2. CASE Begin(r) \/ Commit(r) \/ Read(r) \/ Needs(r) \/ Demands(r)
  BY <1>2 DEF Begin, Commit, Read, Needs, Demands, Keep
<1>3. CASE Take(r) \/ Keyed(r) \/ Again(r) \/ Write(r) \/ Claim(r) \/ Unique(r) \/ Swap(r)
  BY <1>3 DEF Take, Keyed, Again, Write, Claim, Unique, Swap, Keep
<1>4. CASE SeekCart(r) \/ OpenCart(r) \/ Insert(r) \/ CallOut(r) \/ Attempt(r) \/ Finish(r)
  BY <1>4 DEF SeekCart, OpenCart, Insert, CallOut, Attempt, Finish, Keep
<1>5. QED  BY <1>1, <1>2, <1>3, <1>4 DEF Step

\* However many requests call one endpoint at once, a 500 is answered only when a
\* process has died or a call out has failed, where no row leans on a constraint.
THEOREM FiveHundredIsAFault == Spec => []FailsOnlyOnFaults
<1>1. Init => FaultInv  BY DEF Init, Fresh, FaultInv
<1>2. TypeOK /\ FaultInv /\ [Next]_vars => FaultInv'
  <2>1. ASSUME TypeOK, FaultInv, NEW r \in Requests, Step(r) \/ Fault(r) PROVE FaultInv'
    <3>1. faults \in Nat  BY <2>1, EndpointsAssumption DEF TypeOK
    <3>2. Shape(r) /\ faults' \in {faults, faults + 1}  BY <2>1, StepShape, FaultsAddUp
    <3>3. ep' = ep /\ \A s \in Requests \ {r} : reqs'[s] = reqs[s]
      BY <2>1, <3>2 DEF Shape, Others, TypeOK
    <3>4. SUFFICES ASSUME ep \notin Colliding, NEW s \in Requests, reqs'[s].answer = "failed"
                   PROVE  faults' > 0
      BY <3>3 DEF FaultInv
    <3>5. CASE s = r  BY <2>1, <3>1, <3>2, <3>4, <3>5, OwnAnswer
    <3>6. CASE s # r  BY <2>1, <3>1, <3>2, <3>3, <3>4, <3>6 DEF FaultInv
    <3>7. QED  BY <3>5, <3>6
  <2>2. ASSUME FaultInv, UNCHANGED vars PROVE FaultInv'  BY <2>2 DEF FaultInv, vars
  <2>3. QED  BY <2>1, <2>2 DEF Next
<1>3. FaultInv => FailsOnlyOnFaults  BY DEF FaultInv, FailsOnlyOnFaults
<1>4. QED  BY <1>1, <1>2, <1>3, TypeCorrect, PTL DEF Spec

-----------------------------------------------------------------------------
(* What a request has left when it answers no.                                  *)

Rest(r) == \A s \in Requests \ {r} : reqs'[s] = reqs[s] /\ kept'[s] = kept[s]

\* Goes on; what it writes, it writes because it matched.
Proceeds(r) ==
  /\ Ahead(r) /\ reqs'[r].answer = "none" /\ reqs'[r].pc > reqs[r].pc /\ kept' = kept
  /\ \/ reqs'[r].wrote = reqs[r].wrote
     \/ /\ steps[reqs[r].pc] \in Leaving
        /\ steps[reqs[r].pc] \in Matching => reqs'[r].found
  /\ steps[reqs[r].pc] \notin Finding => reqs'[r].found = reqs[r].found
\* Commits, or completes a transaction of its own on the side.
Keeps(r) ==
  /\ Ahead(r) /\ reqs'[r].answer = "none" /\ reqs'[r].pc > reqs[r].pc
  /\ reqs'[r].found = reqs[r].found
  /\ \/ /\ steps[reqs[r].pc] = "commit"
        /\ reqs'[r].wrote = {} /\ kept'[r] = kept[r] \union reqs[r].wrote
     \/ steps[reqs[r].pc] = "attempt" /\ reqs'[r].wrote = reqs[r].wrote
\* Answers no by an ApiError, which commits, or by an exception, which does not.
SaysNo(r) ==
  /\ Ahead(r) /\ reqs'[r].answer \in {"refused", "failed"}
  /\ steps[reqs[r].pc] \in {"matched", "must"} => ~reqs[r].found
  /\ \/ steps[reqs[r].pc] \in Refusing /\ kept'[r] \in {kept[r], kept[r] \union reqs[r].wrote}
     \/ steps[reqs[r].pc] \in Raising /\ kept'[r] = kept[r]
Stops(r) == reqs'[r].answer \in {"ok", "lost"} /\ kept' = kept

Course(r) == Rest(r) /\ (Proceeds(r) \/ Keeps(r) \/ SaysNo(r) \/ Stops(r))

\* The record of a request after a step, and everybody else's.
LEMMA Becomes ==
  ASSUME TypeOK, NEW r \in Requests, NEW q \in ReqType, reqs' = [reqs EXCEPT ![r] = q]
  PROVE  reqs'[r] = q /\ \A s \in Requests \ {r} : reqs'[s] = reqs[s]
  BY DEF TypeOK

LEMMA PassCourse ==
  ASSUME TypeOK, NEW r \in Requests, Running(r), Ahead(r), NEW q \in ReqType, Pass(r, q),
         q.pc = reqs[r].pc, q.answer = "none", kept' = kept,
         \/ q.wrote = reqs[r].wrote
         \/ steps[reqs[r].pc] \in Leaving /\ (steps[reqs[r].pc] \in Matching => q.found),
         steps[reqs[r].pc] \notin Finding => q.found = reqs[r].found
  PROVE  Course(r)
<1>1. DEFINE p == [q EXCEPT !.pc = @ + 1]
<1>2. q.pc \in Nat \ {0}  BY DEF ReqType
<1>3. /\ p \in ReqType /\ p.pc = reqs[r].pc + 1 /\ p.answer = "none"
      /\ p.wrote = q.wrote /\ p.found = q.found
  BY <1>2 DEF ReqType
<1>4. reqs' = [reqs EXCEPT ![r] = p]  BY DEF Pass, Next1
<1> HIDE DEF p
<1>5. reqs'[r] = p /\ \A s \in Requests \ {r} : reqs'[s] = reqs[s]  BY <1>3, <1>4, Becomes
<1>6. p.pc > reqs[r].pc  BY <1>2, <1>3
<1>7. QED  BY <1>3, <1>5, <1>6 DEF Course, Rest, Proceeds

\* A request that is answered keeps what it had, or has just committed.
LEMMA AnswerCourse ==
  ASSUME TypeOK, NEW r \in Requests, NEW a \in {"ok", "refused", "failed", "lost"}, Answer(r, a)
  PROVE  reqs'[r].answer = a /\ \A s \in Requests \ {r} : reqs'[s] = reqs[s]
  BY DEF TypeOK, Answer, Next1

LEMMA AbortCourse ==
  ASSUME TypeOK, NEW r \in Requests, Ahead(r), NEW a \in {"refused", "failed"},
         Discard(r), Answer(r, a), steps[reqs[r].pc] \in Raising,
         steps[reqs[r].pc] = "must" => ~reqs[r].found
  PROVE  Course(r)
<1>1. kept' = kept  BY DEF Discard
<1>2. steps[reqs[r].pc] # "matched"  BY DEF Raising
<1>3. SaysNo(r)  BY <1>1, <1>2, AnswerCourse DEF SaysNo
<1>4. QED  BY <1>1, <1>3, AnswerCourse DEF Course, Rest

LEMMA ThrowCourse ==
  ASSUME TypeOK, NEW r \in Requests, Ahead(r), Throw(r), steps[reqs[r].pc] \in Refusing,
         steps[reqs[r].pc] = "matched" => ~reqs[r].found
  PROVE  Course(r)
<1>1. Answer(r, "refused") /\ (Publish(r) \/ Discard(r))  BY DEF Throw
<1>2. /\ kept'[r] \in {kept[r], kept[r] \union reqs[r].wrote}
      /\ \A s \in Requests \ {r} : kept'[s] = kept[s]
  BY <1>1 DEF Publish, Discard, TypeOK
<1>3. steps[reqs[r].pc] # "must"  BY DEF Refusing
<1>4. SaysNo(r)  BY <1>1, <1>2, <1>3, AnswerCourse DEF SaysNo
<1>5. QED  BY <1>1, <1>2, <1>4, AnswerCourse DEF Course, Rest

LEMMA QuietCourse ==
  ASSUME TypeOK, NEW r \in Requests, Running(r), Begin(r) \/ Read(r) \/ SeekCart(r) \/ CallOut(r)
  PROVE  Course(r)
<1>1. Ahead(r) /\ At(r) = steps[reqs[r].pc] /\ kept' = kept
  BY AtStatement DEF Begin, Read, SeekCart, CallOut, Keep
<1>2. CASE Begin(r)
  <2>1. DEFINE q == [reqs[r] EXCEPT !.tx = TRUE]
  <2>2. q \in ReqType /\ q.pc = reqs[r].pc /\ q.answer = "none" /\ q.wrote = reqs[r].wrote
        /\ q.found = reqs[r].found
    BY RunningRecord DEF ReqType
  <2>3. Pass(r, q)  BY <1>2 DEF Begin
  <2>4. QED  BY <1>1, <2>2, <2>3, PassCourse
<1>3. CASE Read(r)
  <2>1. DEFINE n == Len(by)
               q == [reqs[r] EXCEPT !.found = row.there, !.seen = n]
  <2>2. n \in Nat /\ row.there \in BOOLEAN  BY RunningRecord DEF TypeOK
  <2> HIDE DEF n
  <2>3. q \in ReqType /\ q.pc = reqs[r].pc /\ q.answer = "none" /\ q.wrote = reqs[r].wrote
    BY <2>2, RunningRecord DEF ReqType
  <2>4. Pass(r, q)  BY <1>3 DEF Read, n
  <2>5. steps[reqs[r].pc] \in Finding  BY <1>1, <1>3 DEF Read, Finding
  <2>6. QED  BY <1>1, <2>3, <2>4, <2>5, PassCourse
<1>4. CASE SeekCart(r)
  <2>1. DEFINE b == cart \in {r, Opened}
               q == [reqs[r] EXCEPT !.cart = b]
  <2>2. Pass(r, q) /\ b \in BOOLEAN  BY <1>4 DEF SeekCart
  <2> HIDE DEF b
  <2>3. q \in ReqType /\ q.pc = reqs[r].pc /\ q.answer = "none" /\ q.wrote = reqs[r].wrote
        /\ q.found = reqs[r].found
    BY <2>2, RunningRecord DEF ReqType
  <2>4. QED  BY <1>1, <2>2, <2>3, PassCourse
<1>5. CASE CallOut(r)
  <2>1. Pass(r, reqs[r])  BY <1>5 DEF CallOut
  <2>2. QED  BY <1>1, <2>1, RunningRecord, PassCourse
<1>6. QED  BY <1>2, <1>3, <1>4, <1>5

LEMMA CommitCourse == ASSUME TypeOK, NEW r \in Requests, Running(r), Commit(r) PROVE Course(r)
<1>1. Ahead(r) /\ steps[reqs[r].pc] = "commit"  BY AtStatement DEF Commit
<1>2. DEFINE c == [reqs[r] EXCEPT !.tx = FALSE, !.wrote = {}]
             q == [c EXCEPT !.pc = @ + 1]
<1>3. reqs[r].pc \in Nat \ {0}  BY DEF TypeOK
<1>4. q \in ReqType /\ q.pc = reqs[r].pc + 1 /\ q.answer = "none" /\ q.wrote = {}
      /\ q.found = reqs[r].found
  <2>1. c \in ReqType /\ c.pc = reqs[r].pc /\ c.answer = "none" /\ c.wrote = {}
        /\ c.found = reqs[r].found
    BY RunningRecord DEF ReqType
  <2> HIDE DEF c
  <2>2. QED  BY <1>3, <2>1 DEF ReqType
<1>5. reqs' = [reqs EXCEPT ![r] = q]  BY DEF Commit, Pass, Next1
<1> HIDE DEF q
<1>6. reqs'[r] = q /\ \A s \in Requests \ {r} : reqs'[s] = reqs[s]  BY <1>4, <1>5, Becomes
<1>7. kept'[r] = kept[r] \union reqs[r].wrote /\ \A s \in Requests \ {r} : kept'[s] = kept[s]
  BY DEF Commit, Publish, TypeOK
<1>8. QED  BY <1>1, <1>3, <1>4, <1>6, <1>7 DEF Course, Rest, Keeps

LEMMA CheckCourse ==
  ASSUME TypeOK, NEW r \in Requests, Running(r), Needs(r) \/ Demands(r) \/ Take(r)
  PROVE  Course(r)
<1>1. Ahead(r) /\ At(r) = steps[reqs[r].pc]  BY AtStatement DEF Needs, Demands, Take
<1>2. DEFINE n == Len(by)
             q == [reqs[r] EXCEPT !.seen = n]
<1>3. \/ Pass(r, q) /\ kept' = kept
      \/ /\ Throw(r) /\ At(r) \in Refusing /\ (At(r) = "matched" => ~reqs[r].found)
      \/ /\ Raise(r) /\ At(r) \in Raising /\ (At(r) = "must" => ~reqs[r].found)
  <2>1. CASE Needs(r)
    <3>1. CASE At(r) = "need"    BY <2>1, <3>1 DEF Needs, Keep, Refusing
    <3>2. CASE At(r) = "free"    BY <2>1, <3>2 DEF Needs, Keep, Refusing
    <3>3. CASE At(r) = "matched" BY <2>1, <3>3 DEF Needs, Keep, Refusing
    <3>4. QED  BY <2>1, <3>1, <3>2, <3>3 DEF Needs
  <2>2. CASE Demands(r)
    <3>1. CASE At(r) = "exists" BY <2>2, <3>1 DEF Demands, Keep, Raising
    <3>2. CASE At(r) = "isopen" BY <2>2, <3>2 DEF Demands, Keep, Raising
    <3>3. CASE At(r) = "must"   BY <2>2, <3>3 DEF Demands, Keep, Raising
    <3>4. QED  BY <2>2, <3>1, <3>2, <3>3 DEF Demands
  <2>3. CASE Take(r)
    <3>1. At(r) = "take"  BY <2>3 DEF Take
    <3>2. CASE row.there /\ row.open  BY <2>3, <3>2 DEF Take
    <3>3. CASE ~(row.there /\ row.open)  BY <2>3, <3>1, <3>3 DEF Take, Raising
    <3>4. QED  BY <3>2, <3>3
  <2>4. QED  BY <2>1, <2>2, <2>3
<1>4. CASE Pass(r, q) /\ kept' = kept
  <2>1. n \in Nat  BY RunningRecord
  <2> HIDE DEF n
  <2>2. q \in ReqType /\ q.pc = reqs[r].pc /\ q.answer = "none" /\ q.wrote = reqs[r].wrote
        /\ q.found = reqs[r].found
    BY <2>1, RunningRecord DEF ReqType
  <2>3. QED  BY <1>1, <1>4, <2>2, PassCourse
<1>5. CASE Throw(r) /\ At(r) \in Refusing /\ (At(r) = "matched" => ~reqs[r].found)
  BY <1>1, <1>5, ThrowCourse
<1>6. CASE Raise(r) /\ At(r) \in Raising /\ (At(r) = "must" => ~reqs[r].found)
  BY <1>1, <1>6, AbortCourse DEF Raise
<1>7. QED  BY <1>3, <1>4, <1>5, <1>6

LEMMA JumpCourse ==
  ASSUME TypeOK, NEW r \in Requests, Running(r), Keyed(r) \/ Again(r) PROVE Course(r)
<1>1. Ahead(r) /\ At(r) = steps[reqs[r].pc] /\ At(r) \in {"keyed", "again"}
  BY AtStatement DEF Keyed, Again
<1>2. DEFINE commit == CHOOSE i \in reqs[r].pc .. Len(steps) : steps[i] = "commit"
             p == IF row.open THEN reqs[r].pc + 1 ELSE commit
             n == Len(by)
<1>3. commit \in Nat \ {0} /\ commit > reqs[r].pc  BY <1>1, JumpsToCommit
<1> HIDE DEF commit
<1>4. reqs[r].pc \in Nat \ {0} /\ n \in Nat  BY RunningRecord DEF TypeOK
<1>5. p \in Nat \ {0} /\ p > reqs[r].pc  BY <1>3, <1>4
<1>6. CASE Raise(r) /\ At(r) = "keyed"
  BY <1>1, <1>6, AbortCourse DEF Raise, Raising
<1>7. CASE ~(Raise(r) /\ At(r) = "keyed")
  <2>1. DEFINE q == IF At(r) = "keyed" THEN [reqs[r] EXCEPT !.pc = p, !.seen = n]
                    ELSE [reqs[r] EXCEPT !.pc = p]
  <2>2. reqs' = [reqs EXCEPT ![r] = q] /\ kept' = kept
    BY <1>1, <1>7 DEF Keyed, Again, Next1, Keep, commit
  <2> HIDE DEF p, n
  <2>3. q \in ReqType /\ q.pc = p /\ q.answer = "none" /\ q.wrote = reqs[r].wrote
        /\ q.found = reqs[r].found
    BY <1>4, <1>5, RunningRecord DEF ReqType
  <2> HIDE DEF q
  <2>4. reqs'[r] = q /\ \A s \in Requests \ {r} : reqs'[s] = reqs[s]  BY <2>2, <2>3, Becomes
  <2>5. QED  BY <1>1, <1>5, <2>2, <2>3, <2>4 DEF Course, Rest, Proceeds
<1>8. QED  BY <1>6, <1>7

LEMMA WriteCourse ==
  ASSUME TypeOK, NEW r \in Requests, Running(r), Write(r) \/ Claim(r) PROVE Course(r)
<1>1. Ahead(r) /\ At(r) = steps[reqs[r].pc] /\ kept' = kept
      /\ At(r) \in {"write", "finish", "claim"}
  BY AtStatement DEF Write, Claim
<1>2. DEFINE m == IF At(r) = "claim" THEN row.there /\ row.open ELSE row.there
             t == IF m THEN {"row"} ELSE {}
             q == [Wrote(r, t) EXCEPT !.found = m]
<1>3. m \in BOOLEAN /\ t \in SUBSET Traces  BY DEF TypeOK, Traces
<1>4. Pass(r, q)  BY <1>1 DEF Write, Claim
<1>5. q \in ReqType /\ q.pc = reqs[r].pc /\ q.answer = "none"
      /\ q.wrote = reqs[r].wrote \union t /\ q.found = m
  <2>1. reqs[r].wrote \union t \in SUBSET Traces  BY <1>3, RunningRecord DEF ReqType
  <2> HIDE DEF m, t
  <2>2. QED  BY <1>3, <2>1, RunningRecord DEF ReqType, Wrote
<1>6. q.wrote = reqs[r].wrote \/ q.found  BY <1>5
<1>7. steps[reqs[r].pc] \in Leaving /\ steps[reqs[r].pc] \in Finding
  BY <1>1 DEF Leaving, Matching, Finding
<1> HIDE DEF q
<1>8. QED  BY <1>1, <1>4, <1>5, <1>6, <1>7, PassCourse

\* A statement that writes whatever it matched.
LEMMA WroteRecord ==
  ASSUME TypeOK, NEW r \in Requests, Running(r), NEW t \in SUBSET Traces
  PROVE  /\ Wrote(r, t) \in ReqType /\ Wrote(r, t).pc = reqs[r].pc
         /\ Wrote(r, t).answer = "none" /\ Wrote(r, t).found = reqs[r].found
<1>1. reqs[r].wrote \union t \in SUBSET Traces  BY RunningRecord DEF ReqType
<1>2. QED  BY <1>1, RunningRecord DEF ReqType, Wrote

LEMMA ConstraintCourse ==
  ASSUME TypeOK, NEW r \in Requests, Running(r), Unique(r) \/ Swap(r) \/ OpenCart(r)
  PROVE  Course(r)
<1>1. Ahead(r) /\ At(r) = steps[reqs[r].pc] /\ At(r) \in {"unique", "swap", "openCart"}
  BY AtStatement DEF Unique, Swap, OpenCart
<1>2. \/ Pass(r, Wrote(r, {"row"})) /\ kept' = kept
      \/ Pass(r, Wrote(r, {"side"})) /\ kept' = kept
      \/ Pass(r, reqs[r]) /\ kept' = kept
      \/ Crash(r)
  <2>1. CASE Unique(r)    BY <2>1 DEF Unique
  <2>2. CASE Swap(r)      BY <2>2 DEF Swap
  <2>3. CASE OpenCart(r)  BY <2>3 DEF OpenCart, Keep
  <2>4. QED  BY <2>1, <2>2, <2>3
<1>3. steps[reqs[r].pc] \in Leaving /\ steps[reqs[r].pc] \notin Matching
      /\ steps[reqs[r].pc] \in Raising /\ steps[reqs[r].pc] # "must"
  BY <1>1 DEF Leaving, Matching, Raising
<1>4. ASSUME NEW t \in SUBSET Traces, Pass(r, Wrote(r, t)), kept' = kept PROVE Course(r)
  BY <1>1, <1>3, <1>4, WroteRecord, PassCourse
<1>5. {"row"} \in SUBSET Traces /\ {"side"} \in SUBSET Traces  BY DEF Traces
<1>6. CASE Pass(r, reqs[r]) /\ kept' = kept  BY <1>1, <1>6, RunningRecord, PassCourse
<1>7. CASE Crash(r)  BY <1>1, <1>3, <1>7, AbortCourse DEF Crash
<1>8. QED  BY <1>2, <1>4, <1>5, <1>6, <1>7

LEMMA InsertCourse ==
  ASSUME TypeOK, NEW r \in Requests, Running(r), Insert(r) PROVE Course(r)
<1>1. Ahead(r) /\ At(r) = steps[reqs[r].pc] /\ kept' = kept  BY AtStatement DEF Insert, Keep
<1>2. {"row"} \in SUBSET Traces /\ {"side"} \in SUBSET Traces /\ {"event"} \in SUBSET Traces
      /\ {"note"} \in SUBSET Traces
  BY DEF Traces
<1>3. CASE At(r) \in {"add", "enter"}
  <2>1. DEFINE w == Wrote(r, {"row"})
               q == [w EXCEPT !.found = TRUE]
  <2>2. q \in ReqType /\ q.pc = reqs[r].pc /\ q.answer = "none" /\ q.found
    <3>1. w \in ReqType /\ w.pc = reqs[r].pc /\ w.answer = "none"  BY <1>2, WroteRecord
    <3> HIDE DEF w
    <3>2. QED  BY <3>1 DEF ReqType
  <2>3. Pass(r, q)  BY <1>3 DEF Insert
  <2>4. steps[reqs[r].pc] \in Leaving \ Matching /\ steps[reqs[r].pc] \in Finding
    BY <1>1, <1>3 DEF Leaving, Matching, Finding
  <2> HIDE DEF q
  <2>5. QED  BY <1>1, <2>2, <2>3, <2>4, PassCourse
<1>4. ASSUME NEW t \in SUBSET Traces, Pass(r, Wrote(r, t)),
             At(r) \in {"side", "tell", "note"} \/ (At(r) = "tellMatch" /\ reqs[r].found)
      PROVE  Course(r)
  <2>1. steps[reqs[r].pc] \in Leaving /\ (steps[reqs[r].pc] \in Matching => reqs[r].found)
    BY <1>1, <1>4 DEF Leaving, Matching
  <2>2. QED  BY <1>1, <1>4, <2>1, WroteRecord, PassCourse
<1>5. CASE At(r) = "tellMatch" /\ ~reqs[r].found
  <2>1. Pass(r, reqs[r])  BY <1>5 DEF Insert
  <2>2. QED  BY <1>1, <2>1, RunningRecord, PassCourse
<1>6. CASE At(r) = "side"
  <2>1. Pass(r, Wrote(r, {"side"}))  BY <1>6 DEF Insert
  <2>2. QED  BY <1>2, <1>4, <1>6, <2>1
<1>7. CASE At(r) = "tell" \/ (At(r) = "tellMatch" /\ reqs[r].found)
  <2>1. Pass(r, Wrote(r, {"event"}))  BY <1>7 DEF Insert
  <2>2. QED  BY <1>2, <1>4, <1>7, <2>1
<1>8. CASE At(r) = "note"
  <2>1. Pass(r, Wrote(r, {"note"}))  BY <1>8 DEF Insert
  <2>2. QED  BY <1>2, <1>4, <1>8, <2>1
<1>9. QED  BY <1>3, <1>5, <1>6, <1>7, <1>8 DEF Insert

LEMMA AttemptCourse ==
  ASSUME TypeOK, NEW r \in Requests, Running(r), Attempt(r) \/ AttemptFails(r) PROVE Course(r)
<1>1. Ahead(r) /\ steps[reqs[r].pc] = "attempt" /\ Pass(r, reqs[r])
  BY AtStatement DEF Attempt, AttemptFails
<1>2. CASE AttemptFails(r)
  <2>1. kept' = kept  BY <1>2 DEF AttemptFails
  <2>2. QED  BY <1>1, <2>1, RunningRecord, PassCourse
<1>3. CASE Attempt(r)
  <2>1. DEFINE q == [reqs[r] EXCEPT !.pc = @ + 1]
  <2>2. reqs[r].pc \in Nat \ {0}  BY DEF TypeOK
  <2>3. q \in ReqType /\ q.pc = reqs[r].pc + 1 /\ q.answer = "none" /\ q.wrote = reqs[r].wrote
        /\ q.found = reqs[r].found
    BY <2>2, RunningRecord DEF ReqType
  <2>4. reqs' = [reqs EXCEPT ![r] = q]  BY <1>1 DEF Pass, Next1
  <2> HIDE DEF q
  <2>5. reqs'[r] = q /\ \A s \in Requests \ {r} : reqs'[s] = reqs[s]  BY <2>3, <2>4, Becomes
  <2>6. \A s \in Requests \ {r} : kept'[s] = kept[s]  BY <1>3 DEF Attempt, TypeOK
  <2>7. QED  BY <1>1, <2>2, <2>3, <2>5, <2>6 DEF Course, Rest, Keeps
<1>4. QED  BY <1>2, <1>3

LEMMA EndCourse ==
  ASSUME TypeOK, NEW r \in Requests, Running(r), Finish(r) \/ Die(r) \/ CallFails(r) PROVE Course(r)
<1>1. CASE Finish(r)
  BY <1>1, AnswerCourse DEF Finish, Keep, Course, Rest, Stops
<1>2. CASE Die(r)
  BY <1>2, AnswerCourse DEF Die, Discard, Course, Rest, Stops
<1>3. CASE CallFails(r)
  <2>1. Ahead(r) /\ steps[reqs[r].pc] = "call"  BY <1>3, AtStatement DEF CallFails
  <2>2. Discard(r) /\ Answer(r, "failed")  BY <1>3 DEF CallFails, Crash
  <2>3. QED  BY <2>1, <2>2, AbortCourse DEF Raising
<1>4. QED  BY <1>1, <1>2, <1>3

LEMMA StepCourse ==
  ASSUME TypeOK, NEW r \in Requests, Step(r) \/ Fault(r)
  PROVE  Running(r) /\ UNCHANGED <<ep, steps>> /\ Course(r)
<1>1. Running(r) /\ UNCHANGED <<ep, steps>>  BY DEF Step, Fault
<1>2. Course(r)
  BY <1>1, QuietCourse, CommitCourse, CheckCourse, JumpCourse, WriteCourse, ConstraintCourse,
     InsertCourse, AttemptCourse, EndCourse DEF Step, Fault
<1>3. QED  BY <1>1, <1>2

\* Statement i has left something behind, if it leaves something only when it matches
\* and nothing was looked up since then because the last statement matched.
Marks(r, i) ==
  /\ i \in DOMAIN steps /\ i < reqs[r].pc /\ steps[i] \in Leaving
  /\ steps[i] \in Matching /\ (\A m \in (i + 1) .. (reqs[r].pc - 1) : steps[m] \notin Finding)
       => reqs[r].found
Sealed(r, i) ==
  Marks(r, i) /\ (steps[i] = "attempt" \/ \E m \in i .. (reqs[r].pc - 1) : steps[m] = "commit")

CleanInv ==
  Clean(steps) =>
    \A r \in Requests :
      /\ Running(r) /\ reqs[r].wrote # {} => \E i \in DOMAIN steps : Marks(r, i)
      /\ Running(r) /\ kept[r] # {} => \E i \in DOMAIN steps : Sealed(r, i)
      /\ reqs[r].answer \in {"refused", "failed"} => kept[r] = {}

\* A mark stays as its request goes on.
LEMMA MarkStays ==
  ASSUME TypeOK, NEW r \in Requests, steps' = steps, Ahead(r), reqs'[r].pc > reqs[r].pc,
         reqs'[r].pc \in Nat, steps[reqs[r].pc] \notin Finding => reqs'[r].found = reqs[r].found,
         NEW i \in DOMAIN steps, Marks(r, i)
  PROVE  Marks(r, i)' /\ (Sealed(r, i) => Sealed(r, i)')
<1>1. reqs[r].pc \in Nat /\ i \in Nat /\ i < reqs[r].pc
  <2>1. reqs[r].pc \in Nat  BY DEF TypeOK
  <2>2. i \in Nat  BY StepsAreStatements
  <2>3. i < reqs[r].pc  BY DEF Marks
  <2>4. QED  BY <2>1, <2>2, <2>3
<1>2. Marks(r, i)'
  <2>1. i < reqs'[r].pc  BY <1>1
  <2>2. steps[i] \in Leaving  BY DEF Marks
  <2>3. ASSUME steps[i] \in Matching,
               \A m \in (i + 1) .. (reqs'[r].pc - 1) : steps[m] \notin Finding
        PROVE  reqs'[r].found
    <3>1. reqs[r].pc \in (i + 1) .. (reqs'[r].pc - 1)  BY <1>1
    <3>2. \A m \in (i + 1) .. (reqs[r].pc - 1) : m \in (i + 1) .. (reqs'[r].pc - 1)  BY <1>1
    <3>3. QED  BY <2>3, <3>1, <3>2 DEF Marks
  <2>4. QED  BY <2>1, <2>2, <2>3 DEF Marks
<1>3. \A m \in i .. (reqs[r].pc - 1) : m \in i .. (reqs'[r].pc - 1)  BY <1>1
<1>4. QED  BY <1>2, <1>3 DEF Sealed

\* A request that answers no has no mark it could have asked about.
LEMMA NoMark ==
  ASSUME TypeOK, Clean(steps), NEW r \in Requests, SaysNo(r), NEW i \in DOMAIN steps, Marks(r, i)
  PROVE  steps[reqs[r].pc] \in Raising /\ ~Sealed(r, i)
<1>1. DEFINE k == reqs[r].pc
<1>2. k \in DOMAIN steps /\ i < k /\ steps[i] \in Leaving /\ steps[k] \in Refusing \union Raising
  BY DEF SaysNo, Ahead, Marks
<1>3. k \in Nat /\ i \in Nat  BY <1>2, StepsAreStatements
<1>4. ~( /\ steps[k] \in {"matched", "must"} /\ steps[i] \in Matching
         /\ \A m \in (i + 1) .. (k - 1) : steps[m] \notin Finding )
  BY DEF SaysNo, Marks
<1>5. steps[k] \in Raising /\ steps[i] # "attempt" /\ \A m \in i .. k : steps[m] # "commit"
  BY <1>2, <1>4 DEF Clean
<1>6. \A m \in i .. (k - 1) : m \in i .. k  BY <1>3
<1>7. QED  BY <1>5, <1>6 DEF Sealed

LEMMA CleanStep ==
  ASSUME TypeOK, TypeOK', CleanInv, NEW r \in Requests, Running(r), UNCHANGED <<ep, steps>>, Course(r)
  PROVE  CleanInv'
<1>1. SUFFICES ASSUME Clean(steps), NEW s \in Requests
      PROVE  /\ Running(s)' /\ reqs'[s].wrote # {} => \E i \in DOMAIN steps : Marks(s, i)'
             /\ Running(s)' /\ kept'[s] # {} => \E i \in DOMAIN steps : Sealed(s, i)'
             /\ reqs'[s].answer \in {"refused", "failed"} => kept'[s] = {}
  BY DEF CleanInv
<1>2. CASE s # r
  <2>1. reqs'[s] = reqs[s] /\ kept'[s] = kept[s]  BY <1>2 DEF Course, Rest
  <2>2. \A i : (Marks(s, i)' <=> Marks(s, i)) /\ (Sealed(s, i)' <=> Sealed(s, i))
    BY <2>1 DEF Marks, Sealed
  <2>3. QED  BY <1>1, <2>1, <2>2 DEF CleanInv, Running
<1>3. CASE s = r
  <2>1. /\ reqs[r].wrote # {} => \E i \in DOMAIN steps : Marks(r, i)
        /\ kept[r] # {} => \E i \in DOMAIN steps : Sealed(r, i)
    BY <1>1 DEF CleanInv
  <2>2. reqs'[r].pc \in Nat /\ reqs[r].pc \in Nat  BY DEF TypeOK
  <2>3. CASE Proceeds(r)
    <3>1. /\ Ahead(r) /\ reqs'[r].pc > reqs[r].pc /\ kept' = kept /\ reqs'[r].answer = "none"
          /\ steps[reqs[r].pc] \notin Finding => reqs'[r].found = reqs[r].found
      BY <2>3 DEF Proceeds
    <3>2. \A i \in DOMAIN steps : Marks(r, i) => Marks(r, i)' /\ (Sealed(r, i) => Sealed(r, i)')
      BY <2>2, <3>1, MarkStays
    <3>3. reqs'[r].wrote # {} => \E i \in DOMAIN steps : Marks(r, i)'
      <4>1. CASE reqs'[r].wrote = reqs[r].wrote  BY <2>1, <3>2, <4>1
      <4>2. CASE reqs'[r].wrote # reqs[r].wrote
        BY <2>2, <2>3, <3>1, <4>2 DEF Proceeds, Marks, Ahead
      <4>3. QED  BY <4>1, <4>2
    <3>4. kept'[r] # {} => \E i \in DOMAIN steps : Sealed(r, i)'
      BY <2>1, <3>1, <3>2 DEF Sealed
    <3>5. QED  BY <1>3, <3>1, <3>3, <3>4
  <2>4. CASE Keeps(r)
    <3>1. /\ Ahead(r) /\ reqs'[r].pc > reqs[r].pc /\ reqs'[r].answer = "none"
          /\ reqs'[r].found = reqs[r].found
      BY <2>4 DEF Keeps
    <3>2. \A i \in DOMAIN steps : Marks(r, i) => Marks(r, i)' /\ (Sealed(r, i) => Sealed(r, i)')
      BY <2>2, <3>1, MarkStays
    <3>3. CASE steps[reqs[r].pc] = "commit" /\ reqs'[r].wrote = {}
               /\ kept'[r] = kept[r] \union reqs[r].wrote
      <4>1. kept[r] # {} => \E i \in DOMAIN steps : Sealed(r, i)'  BY <2>1, <3>2 DEF Sealed
      <4>2. ASSUME NEW i \in DOMAIN steps, Marks(r, i) PROVE Sealed(r, i)'
        <5>1. Marks(r, i)'  BY <3>2, <4>2
        <5>2. i \in Nat /\ i < reqs[r].pc  BY <4>2, StepsAreStatements DEF Marks
        <5>3. reqs[r].pc \in i .. (reqs'[r].pc - 1)  BY <2>2, <3>1, <5>2
        <5>4. QED  BY <3>3, <5>1, <5>3 DEF Sealed
      <4>3. QED  BY <1>3, <2>1, <3>1, <3>3, <4>1, <4>2
    <3>4. CASE steps[reqs[r].pc] = "attempt" /\ reqs'[r].wrote = reqs[r].wrote
      <4>1. PICK k \in DOMAIN steps : k = reqs[r].pc  BY <3>1 DEF Ahead
      <4>2. k < reqs'[r].pc /\ steps[k] = "attempt"  BY <3>1, <3>4, <4>1
      <4>3. Marks(r, k)' /\ Sealed(r, k)'  BY <4>2 DEF Marks, Sealed, Leaving, Matching
      <4>4. QED  BY <1>3, <2>1, <3>1, <3>2, <3>4, <4>3
    <3>5. QED  BY <2>4, <3>3, <3>4 DEF Keeps
  <2>5. CASE SaysNo(r)
    <3>1. CASE steps[reqs[r].pc] \in Raising
      <4>1. kept[r] = {}  BY <1>1, <2>1, <2>5, NoMark DEF Sealed
      <4>2. steps[reqs[r].pc] \notin Refusing  BY <3>1 DEF Raising, Refusing
      <4>3. QED  BY <1>3, <2>5, <4>1, <4>2 DEF SaysNo, Running
    <3>2. CASE steps[reqs[r].pc] \notin Raising
      <4>1. kept[r] = {} /\ reqs[r].wrote = {}  BY <1>1, <2>1, <2>5, <3>2, NoMark DEF Sealed
      <4>2. QED  BY <1>3, <2>5, <4>1 DEF SaysNo, Running
    <3>3. QED  BY <3>1, <3>2
  <2>6. CASE Stops(r)  BY <1>3, <2>6 DEF Stops, Running
  <2>7. QED  BY <2>3, <2>4, <2>5, <2>6 DEF Course
<1>4. QED  BY <1>2, <1>3

\* However many requests call one endpoint at once, and wherever processes die, a request
\* that is told no has left nothing behind: for every table that refuses only before it
\* writes, by what its last statement matched, or by an exception that rolls back.
THEOREM NoLeavesNothing == Spec => []RefusedLeavesNothing
<1>1. Init => CleanInv  BY DEF Init, Fresh, CleanInv, Running
<1>2. TypeOK /\ TypeOK' /\ CleanInv /\ [Next]_vars => CleanInv'
  <2>1. ASSUME TypeOK, TypeOK', CleanInv, NEW r \in Requests, Step(r) \/ Fault(r) PROVE CleanInv'
    BY <2>1, StepCourse, CleanStep
  <2>2. ASSUME CleanInv, UNCHANGED vars PROVE CleanInv'
    <3>1. \A s, i : (Marks(s, i)' <=> Marks(s, i)) /\ (Sealed(s, i)' <=> Sealed(s, i))
      BY <2>2 DEF vars, Marks, Sealed
    <3>2. QED  BY <2>2, <3>1 DEF CleanInv, vars, Running
  <2>3. QED  BY <2>1, <2>2 DEF Next
<1>3. TypeOK /\ CleanInv => RefusedLeavesNothing
  BY DisciplineAssumption DEF TypeOK, CleanInv, RefusedLeavesNothing
<1>4. QED  BY <1>1, <1>2, <1>3, TypeCorrect, PTL DEF Spec

-----------------------------------------------------------------------------
(* What is told of is what was changed.                                         *)

Told == {"event", "note"}

\* What a statement writes: the row, an event, an entry of the audit log.
WritesRow(r) ==
  "row" \in reqs'[r].wrote <=>
    \/ "row" \in reqs[r].wrote
    \/ steps[reqs[r].pc] \in {"unique", "swap", "add", "enter"}
    \/ steps[reqs[r].pc] \in {"write", "finish", "claim"} /\ reqs'[r].found
WritesEvent(r) ==
  "event" \in reqs'[r].wrote <=>
    \/ "event" \in reqs[r].wrote
    \/ steps[reqs[r].pc] = "tell"
    \/ steps[reqs[r].pc] = "tellMatch" /\ reqs[r].found
WritesNote(r) ==
  "note" \in reqs'[r].wrote <=> "note" \in reqs[r].wrote \/ steps[reqs[r].pc] = "note"

\* Goes past a statement that publishes nothing but a transaction of its own.
Advances(r) ==
  /\ Ahead(r) /\ reqs'[r].answer = "none" /\ reqs'[r].pc = reqs[r].pc + 1
  /\ steps[reqs[r].pc] # "commit" /\ by' = by /\ kept'[r] \in {kept[r], kept[r] \union {"side"}}
  /\ WritesRow(r) /\ WritesEvent(r) /\ WritesNote(r)
  /\ steps[reqs[r].pc] \in {"need", "exists", "take", "keyed"} => row.there
  /\ steps[reqs[r].pc] \in {"matched", "must"} => reqs[r].found
  /\ steps[reqs[r].pc] \in {"ask", "write", "finish"} => reqs'[r].found = row.there
\* Finds its key taken, and goes to the commit.
Jumps(r) ==
  /\ Ahead(r) /\ reqs'[r].answer = "none" /\ reqs'[r].pc > reqs[r].pc
  /\ reqs'[r].pc \in DOMAIN steps /\ steps[reqs'[r].pc] = "commit"
  /\ steps[reqs[r].pc] \in {"keyed", "again"} /\ (steps[reqs[r].pc] = "keyed" => row.there)
  /\ reqs'[r].wrote = reqs[r].wrote /\ by' = by /\ kept'[r] = kept[r]
Published(r) ==
  /\ by' = IF "row" \in reqs[r].wrote THEN Append(by, r) ELSE by
  /\ kept'[r] = kept[r] \union reqs[r].wrote
PassesCommit(r) ==
  /\ Ahead(r) /\ reqs'[r].answer = "none" /\ reqs'[r].pc = reqs[r].pc + 1
  /\ steps[reqs[r].pc] = "commit" /\ reqs'[r].wrote = {} /\ Published(r)
Ends(r) ==
  /\ reqs'[r].answer # "none"
  /\ \/ by' = by /\ kept'[r] = kept[r]
     \/ Ahead(r) /\ steps[reqs[r].pc] \in Refusing /\ Published(r)

Tale(r) == /\ Rest(r) /\ row'.there = row.there
           /\ Advances(r) \/ Jumps(r) \/ PassesCommit(r) \/ Ends(r)

\* The record of a request that has gone past a statement.
LEMMA PassRecord ==
  ASSUME TypeOK, NEW r \in Requests, NEW q \in ReqType, Pass(r, q),
         q.pc = reqs[r].pc, q.answer = "none"
  PROVE  /\ reqs'[r].pc = reqs[r].pc + 1 /\ reqs'[r].answer = "none"
         /\ reqs'[r].wrote = q.wrote /\ reqs'[r].found = q.found
         /\ \A s \in Requests \ {r} : reqs'[s] = reqs[s]
<1>1. DEFINE p == [q EXCEPT !.pc = @ + 1]
<1>2. q.pc \in Nat \ {0}  BY DEF ReqType
<1>3. /\ p \in ReqType /\ p.pc = reqs[r].pc + 1 /\ p.answer = "none"
      /\ p.wrote = q.wrote /\ p.found = q.found
  BY <1>2 DEF ReqType
<1>4. reqs' = [reqs EXCEPT ![r] = p]  BY DEF Pass, Next1
<1> HIDE DEF p
<1>5. QED  BY <1>3, <1>4, Becomes

LEMMA PublishTale ==
  ASSUME TypeOK, NEW r \in Requests, Publish(r)
  PROVE  Published(r) /\ row'.there = row.there /\ \A s \in Requests \ {r} : kept'[s] = kept[s]
  BY DEF TypeOK, Publish, Published

\* A statement that only reads, checks or calls.
LEMMA QuietTale ==
  ASSUME TypeOK, NEW r \in Requests, Running(r), Ahead(r), NEW q \in ReqType, Pass(r, q),
         q.pc = reqs[r].pc, q.answer = "none", q.wrote = reqs[r].wrote,
         by' = by, row' = row, kept'[r] \in {kept[r], kept[r] \union {"side"}},
         \A s \in Requests \ {r} : kept'[s] = kept[s],
         steps[reqs[r].pc] \notin {"commit", "unique", "swap", "add", "enter", "write", "finish",
                                   "claim", "tell", "note"},
         steps[reqs[r].pc] = "tellMatch" => ~reqs[r].found,
         steps[reqs[r].pc] \in {"need", "exists", "take", "keyed"} => row.there,
         steps[reqs[r].pc] \in {"matched", "must"} => reqs[r].found,
         steps[reqs[r].pc] = "ask" => q.found = row.there
  PROVE  Tale(r)
<1>1. /\ reqs'[r].pc = reqs[r].pc + 1 /\ reqs'[r].answer = "none"
      /\ reqs'[r].wrote = reqs[r].wrote /\ reqs'[r].found = q.found
      /\ \A s \in Requests \ {r} : reqs'[s] = reqs[s]
  BY PassRecord
<1>2. Advances(r)  BY <1>1 DEF Advances, WritesRow, WritesEvent, WritesNote
<1>3. QED  BY <1>1, <1>2 DEF Tale, Rest


LEMMA PassingTale ==
  ASSUME TypeOK, NEW r \in Requests, Running(r),
         Begin(r) \/ Read(r) \/ SeekCart(r) \/ CallOut(r) \/ Attempt(r) \/ AttemptFails(r)
  PROVE  Tale(r)
<1>1. /\ Ahead(r) /\ At(r) = steps[reqs[r].pc] /\ by' = by /\ row' = row
      /\ At(r) \in {"begin", "read", "aim", "ask", "seekCart", "call", "attempt"}
  BY AtStatement DEF Begin, Read, SeekCart, CallOut, Attempt, AttemptFails, Keep
<1>2. /\ kept'[r] \in {kept[r], kept[r] \union {"side"}}
      /\ \A s \in Requests \ {r} : kept'[s] = kept[s]
  BY DEF Begin, Read, SeekCart, CallOut, Attempt, AttemptFails, Keep, TypeOK
<1>3. \E q \in ReqType : /\ Pass(r, q) /\ q.pc = reqs[r].pc /\ q.answer = "none"
                         /\ q.wrote = reqs[r].wrote /\ (At(r) = "ask" => q.found = row.there)
  <2>1. CASE Begin(r)
    <3>1. DEFINE q == [reqs[r] EXCEPT !.tx = TRUE]
    <3>2. q \in ReqType /\ q.pc = reqs[r].pc /\ q.answer = "none" /\ q.wrote = reqs[r].wrote
      BY RunningRecord DEF ReqType
    <3>3. Pass(r, q) /\ At(r) # "ask"  BY <2>1 DEF Begin
    <3>4. QED  BY <3>2, <3>3
  <2>2. CASE Read(r)
    <3>1. DEFINE n == Len(by)
                 q == [reqs[r] EXCEPT !.found = row.there, !.seen = n]
    <3>2. n \in Nat /\ row.there \in BOOLEAN  BY RunningRecord DEF TypeOK
    <3>3. Pass(r, q)  BY <2>2 DEF Read
    <3> HIDE DEF n
    <3>4. q \in ReqType /\ q.pc = reqs[r].pc /\ q.answer = "none" /\ q.wrote = reqs[r].wrote
          /\ q.found = row.there
      BY <3>2, RunningRecord DEF ReqType
    <3>5. QED  BY <3>3, <3>4
  <2>3. CASE SeekCart(r)
    <3>1. DEFINE b == cart \in {r, Opened}
                 q == [reqs[r] EXCEPT !.cart = b]
    <3>2. Pass(r, q) /\ b \in BOOLEAN /\ At(r) # "ask"  BY <2>3 DEF SeekCart
    <3> HIDE DEF b
    <3>3. q \in ReqType /\ q.pc = reqs[r].pc /\ q.answer = "none" /\ q.wrote = reqs[r].wrote
      BY <3>2, RunningRecord DEF ReqType
    <3>4. QED  BY <3>2, <3>3
  <2>4. CASE CallOut(r) \/ Attempt(r) \/ AttemptFails(r)
    <3>1. Pass(r, reqs[r]) /\ At(r) # "ask"  BY <2>4 DEF CallOut, Attempt, AttemptFails
    <3>2. QED  BY <3>1, RunningRecord
  <2>5. QED  BY <2>1, <2>2, <2>3, <2>4
<1>4. QED  BY <1>1, <1>2, <1>3, QuietTale

LEMMA CommitTale == ASSUME TypeOK, NEW r \in Requests, Running(r), Commit(r) PROVE Tale(r)
<1>1. Ahead(r) /\ steps[reqs[r].pc] = "commit"  BY AtStatement DEF Commit
<1>2. DEFINE q == [reqs[r] EXCEPT !.tx = FALSE, !.wrote = {}]
<1>3. q \in ReqType /\ q.pc = reqs[r].pc /\ q.answer = "none" /\ q.wrote = {}
  BY RunningRecord DEF ReqType
<1>4. Pass(r, q) /\ Publish(r)  BY DEF Commit
<1> HIDE DEF q
<1>5. /\ reqs'[r].pc = reqs[r].pc + 1 /\ reqs'[r].answer = "none" /\ reqs'[r].wrote = {}
      /\ \A s \in Requests \ {r} : reqs'[s] = reqs[s]
  BY <1>3, <1>4, PassRecord
<1>6. QED  BY <1>1, <1>4, <1>5, PublishTale DEF Tale, Rest, PassesCommit

\* A request that ends keeps what it had, or has just published it.
LEMMA AnswerTale ==
  ASSUME TypeOK, NEW r \in Requests, NEW a \in {"ok", "refused", "failed", "lost"}, Answer(r, a),
         \/ by' = by /\ kept' = kept /\ row' = row
         \/ Publish(r) /\ Ahead(r) /\ steps[reqs[r].pc] \in Refusing
  PROVE  Tale(r)
<1>1. reqs'[r].answer # "none" /\ \A s \in Requests \ {r} : reqs'[s] = reqs[s]  BY AnswerCourse
<1>2. CASE by' = by /\ kept' = kept /\ row' = row  BY <1>1, <1>2 DEF Tale, Rest, Ends
<1>3. CASE Publish(r) /\ Ahead(r) /\ steps[reqs[r].pc] \in Refusing
  BY <1>1, <1>3, PublishTale DEF Tale, Rest, Ends
<1>4. QED  BY <1>2, <1>3

LEMMA AbortTale ==
  ASSUME TypeOK, NEW r \in Requests, Raise(r) \/ Crash(r) \/ Finish(r) \/ Die(r) \/ CallFails(r)
  PROVE  Tale(r)
<1>1. by' = by /\ kept' = kept /\ row' = row
  BY DEF Raise, Crash, Finish, Die, CallFails, Discard, Keep
<1>2. \E a \in {"ok", "refused", "failed", "lost"} : Answer(r, a)
  BY DEF Raise, Crash, Finish, Die, CallFails
<1>3. QED  BY <1>1, <1>2, AnswerTale

LEMMA CheckTale ==
  ASSUME TypeOK, NEW r \in Requests, Running(r), Needs(r) \/ Demands(r) \/ Take(r)
  PROVE  Tale(r)
<1>1. /\ Ahead(r) /\ At(r) = steps[reqs[r].pc]
      /\ At(r) \in {"need", "free", "matched", "exists", "isopen", "must", "take"}
  BY AtStatement DEF Needs, Demands, Take
<1>2. DEFINE n == Len(by)
             q == [reqs[r] EXCEPT !.seen = n]
<1>3. \/ /\ Pass(r, q) /\ kept' = kept /\ by' = by /\ row' = row
         /\ At(r) \in {"need", "exists", "take"} => row.there
         /\ At(r) \in {"matched", "must"} => reqs[r].found
      \/ Throw(r) /\ At(r) \in Refusing
      \/ Raise(r)
  <2>1. CASE Needs(r)
    <3>1. CASE At(r) = "need"    BY <2>1, <3>1 DEF Needs, Keep, Refusing
    <3>2. CASE At(r) = "free"    BY <2>1, <3>2 DEF Needs, Keep, Refusing
    <3>3. CASE At(r) = "matched" BY <2>1, <3>3 DEF Needs, Keep, Refusing
    <3>4. QED  BY <2>1, <3>1, <3>2, <3>3 DEF Needs
  <2>2. CASE Demands(r)
    <3>1. CASE At(r) = "exists" BY <2>2, <3>1 DEF Demands, Keep
    <3>2. CASE At(r) = "isopen" BY <2>2, <3>2 DEF Demands, Keep
    <3>3. CASE At(r) = "must"   BY <2>2, <3>3 DEF Demands, Keep
    <3>4. QED  BY <2>2, <3>1, <3>2, <3>3 DEF Demands
  <2>3. CASE Take(r)  BY <2>3 DEF Take
  <2>4. QED  BY <2>1, <2>2, <2>3
<1>4. CASE /\ Pass(r, q) /\ kept' = kept /\ by' = by /\ row' = row
           /\ At(r) \in {"need", "exists", "take"} => row.there
           /\ At(r) \in {"matched", "must"} => reqs[r].found
  <2>1. n \in Nat  BY RunningRecord
  <2> HIDE DEF n
  <2>2. q \in ReqType /\ q.pc = reqs[r].pc /\ q.answer = "none" /\ q.wrote = reqs[r].wrote
    BY <2>1, RunningRecord DEF ReqType
  <2> HIDE DEF q
  <2>3. QED  BY <1>1, <1>4, <2>2, QuietTale
<1>5. CASE Throw(r) /\ At(r) \in Refusing
  <2>1. Answer(r, "refused")  BY <1>5 DEF Throw
  <2>2. CASE Publish(r)  BY <1>1, <1>5, <2>1, <2>2, AnswerTale
  <2>3. CASE Discard(r)  BY <2>1, <2>3, AnswerTale DEF Discard
  <2>4. QED  BY <1>5, <2>2, <2>3 DEF Throw
<1>6. CASE Raise(r)  BY <1>6, AbortTale
<1>7. QED  BY <1>3, <1>4, <1>5, <1>6

LEMMA JumpTale ==
  ASSUME TypeOK, NEW r \in Requests, Running(r), Keyed(r) \/ Again(r) PROVE Tale(r)
<1>1. Ahead(r) /\ At(r) = steps[reqs[r].pc] /\ At(r) \in {"keyed", "again"}
  BY AtStatement DEF Keyed, Again
<1>2. CASE Raise(r)  BY <1>2, AbortTale
<1>3. CASE ~Raise(r)
  <2>1. DEFINE commit == CHOOSE i \in reqs[r].pc .. Len(steps) : steps[i] = "commit"
               p == IF row.open THEN reqs[r].pc + 1 ELSE commit
               n == Len(by)
               q == IF At(r) = "keyed" THEN [reqs[r] EXCEPT !.pc = p, !.seen = n]
                    ELSE [reqs[r] EXCEPT !.pc = p]
  <2>2. reqs' = [reqs EXCEPT ![r] = q] /\ kept' = kept /\ by' = by /\ row' = row
        /\ (At(r) = "keyed" => row.there)
    BY <1>1, <1>3 DEF Keyed, Again, Next1, Keep
  <2>3. commit \in DOMAIN steps /\ commit \in Nat \ {0} /\ steps[commit] = "commit"
        /\ commit > reqs[r].pc
    BY <1>1, JumpsToCommit
  <2> HIDE DEF commit
  <2>4. reqs[r].pc \in Nat \ {0} /\ n \in Nat  BY RunningRecord DEF TypeOK
  <2>5. p \in Nat \ {0} /\ (p = reqs[r].pc + 1 \/ p = commit)  BY <2>3, <2>4
  <2> HIDE DEF p, n
  <2>6. q \in ReqType /\ q.pc = p /\ q.answer = "none" /\ q.wrote = reqs[r].wrote
    BY <2>4, <2>5, RunningRecord DEF ReqType
  <2> HIDE DEF q
  <2>7. reqs'[r] = q /\ \A s \in Requests \ {r} : reqs'[s] = reqs[s]  BY <2>2, <2>6, Becomes
  <2>8. CASE p = commit
    <3>1. Jumps(r)  BY <1>1, <2>2, <2>3, <2>6, <2>7, <2>8 DEF Jumps
    <3>2. QED  BY <2>2, <2>7, <3>1 DEF Tale, Rest
  <2>9. CASE p = reqs[r].pc + 1
    <3>1. Advances(r)
      BY <1>1, <2>2, <2>6, <2>7, <2>9 DEF Advances, WritesRow, WritesEvent, WritesNote
    <3>2. QED  BY <2>2, <2>7, <3>1 DEF Tale, Rest
  <2>10. QED  BY <2>5, <2>8, <2>9
<1>4. QED  BY <1>2, <1>3

\* A statement that writes.
LEMMA WritingTale ==
  ASSUME TypeOK, NEW r \in Requests, Ahead(r), NEW q \in ReqType, Pass(r, q),
         q.pc = reqs[r].pc, q.answer = "none", by' = by, row' = row, kept' = kept,
         NEW t \in SUBSET Traces, q.wrote = reqs[r].wrote \union t,
         steps[reqs[r].pc] \in Leaving \ {"attempt"},
         "row" \in t <=> \/ steps[reqs[r].pc] \in {"unique", "swap", "add", "enter"}
                         \/ steps[reqs[r].pc] \in {"write", "finish", "claim"} /\ q.found,
         "event" \in t <=> \/ steps[reqs[r].pc] = "tell"
                           \/ steps[reqs[r].pc] = "tellMatch" /\ reqs[r].found,
         "note" \in t <=> steps[reqs[r].pc] = "note",
         steps[reqs[r].pc] \in {"write", "finish"} => q.found = row.there
  PROVE  Tale(r)
<1>1. /\ reqs'[r].pc = reqs[r].pc + 1 /\ reqs'[r].answer = "none"
      /\ reqs'[r].wrote = reqs[r].wrote \union t /\ reqs'[r].found = q.found
      /\ \A s \in Requests \ {r} : reqs'[s] = reqs[s]
  BY PassRecord
<1>2. WritesRow(r) /\ WritesEvent(r) /\ WritesNote(r)
  BY <1>1 DEF WritesRow, WritesEvent, WritesNote
<1>3. steps[reqs[r].pc] \notin {"commit", "need", "exists", "take", "keyed", "matched", "must", "ask"}
  BY DEF Leaving, Matching
<1>4. Advances(r)  BY <1>1, <1>2, <1>3 DEF Advances
<1>5. QED  BY <1>1, <1>4 DEF Tale, Rest

LEMMA WriteTale ==
  ASSUME TypeOK, NEW r \in Requests, Running(r), Write(r) \/ Claim(r) PROVE Tale(r)
<1>1. Ahead(r) /\ At(r) = steps[reqs[r].pc] /\ by' = by /\ row' = row /\ kept' = kept
      /\ At(r) \in {"write", "finish", "claim"}
  BY AtStatement DEF Write, Claim
<1>2. DEFINE m == IF At(r) = "claim" THEN row.there /\ row.open ELSE row.there
             t == IF m THEN {"row"} ELSE {}
             q == [Wrote(r, t) EXCEPT !.found = m]
<1>3. m \in BOOLEAN /\ t \in SUBSET Traces  BY DEF TypeOK, Traces
<1>4. Pass(r, q)  BY <1>1 DEF Write, Claim
<1>5. q \in ReqType /\ q.pc = reqs[r].pc /\ q.answer = "none"
      /\ q.wrote = reqs[r].wrote \union t /\ q.found = m
  <2>1. reqs[r].wrote \union t \in SUBSET Traces  BY <1>3, RunningRecord DEF ReqType
  <2> HIDE DEF m, t
  <2>2. QED  BY <1>3, <2>1, RunningRecord DEF ReqType, Wrote
<1>6. "row" \in t <=> q.found  BY <1>5
<1>7. "event" \notin t /\ "note" \notin t  OBVIOUS
<1>8. steps[reqs[r].pc] \in {"write", "finish"} => q.found = row.there  BY <1>1, <1>5
<1>9. steps[reqs[r].pc] \in Leaving \ {"attempt"}  BY <1>1 DEF Leaving, Matching
<1> HIDE DEF q, t, m
<1>10. QED  BY <1>1, <1>3, <1>4, <1>5, <1>6, <1>7, <1>8, <1>9, WritingTale

LEMMA ConstraintTale ==
  ASSUME TypeOK, NEW r \in Requests, Running(r), Unique(r) \/ Swap(r) \/ OpenCart(r)
  PROVE  Tale(r)
<1>1. Ahead(r) /\ At(r) = steps[reqs[r].pc] /\ At(r) \in {"unique", "swap", "openCart"}
  BY AtStatement DEF Unique, Swap, OpenCart
<1>2. \/ /\ Pass(r, Wrote(r, {"row"})) /\ by' = by /\ row' = row /\ kept' = kept
         /\ At(r) \in {"unique", "swap"}
      \/ /\ Pass(r, Wrote(r, {"side"})) /\ by' = by /\ row' = row /\ kept' = kept
         /\ At(r) = "openCart"
      \/ /\ Pass(r, reqs[r]) /\ by' = by /\ row' = row /\ kept' = kept /\ At(r) = "openCart"
      \/ Crash(r)
  <2>1. CASE Unique(r)    BY <2>1 DEF Unique
  <2>2. CASE Swap(r)      BY <2>2 DEF Swap
  <2>3. CASE OpenCart(r)  BY <2>3 DEF OpenCart, Keep
  <2>4. QED  BY <2>1, <2>2, <2>3
<1>3. {"row"} \in SUBSET Traces /\ {"side"} \in SUBSET Traces  BY DEF Traces
<1>4. ASSUME NEW t \in SUBSET Traces
      PROVE  /\ Wrote(r, t) \in ReqType /\ Wrote(r, t).pc = reqs[r].pc
             /\ Wrote(r, t).answer = "none" /\ Wrote(r, t).wrote = reqs[r].wrote \union t
  BY WroteRecord, RunningRecord DEF ReqType, Wrote
<1>5. CASE /\ Pass(r, Wrote(r, {"row"})) /\ by' = by /\ row' = row /\ kept' = kept
           /\ At(r) \in {"unique", "swap"}
  <2>1. steps[reqs[r].pc] \in Leaving \ {"attempt"}  BY <1>1, <1>5 DEF Leaving
  <2>2. QED  BY <1>1, <1>3, <1>4, <1>5, <2>1, WritingTale
<1>6. CASE /\ Pass(r, Wrote(r, {"side"})) /\ by' = by /\ row' = row /\ kept' = kept
           /\ At(r) = "openCart"
  <2>1. steps[reqs[r].pc] \in Leaving \ {"attempt"}  BY <1>1, <1>6 DEF Leaving
  <2>2. QED  BY <1>1, <1>3, <1>4, <1>6, <2>1, WritingTale
<1>7. CASE /\ Pass(r, reqs[r]) /\ by' = by /\ row' = row /\ kept' = kept /\ At(r) = "openCart"
  BY <1>1, <1>7, RunningRecord, QuietTale
<1>8. CASE Crash(r)  BY <1>8, AbortTale
<1>9. QED  BY <1>2, <1>5, <1>6, <1>7, <1>8

LEMMA InsertTale ==
  ASSUME TypeOK, NEW r \in Requests, Running(r), Insert(r) PROVE Tale(r)
<1>1. /\ Ahead(r) /\ At(r) = steps[reqs[r].pc] /\ by' = by /\ row' = row /\ kept' = kept
      /\ At(r) \in {"add", "enter", "side", "tell", "tellMatch", "note"}
  BY AtStatement DEF Insert, Keep
<1>2. steps[reqs[r].pc] \in Leaving \ {"attempt"}  BY <1>1 DEF Leaving, Matching
<1>3. ASSUME NEW t \in SUBSET Traces
      PROVE  /\ Wrote(r, t) \in ReqType /\ Wrote(r, t).pc = reqs[r].pc
             /\ Wrote(r, t).answer = "none" /\ Wrote(r, t).wrote = reqs[r].wrote \union t
  BY WroteRecord, RunningRecord DEF ReqType, Wrote
<1>4. ASSUME NEW t \in SUBSET Traces, Pass(r, Wrote(r, t)), At(r) \notin {"add", "enter"},
             "row" \notin t,
             "event" \in t <=> At(r) = "tell" \/ (At(r) = "tellMatch" /\ reqs[r].found),
             "note" \in t <=> At(r) = "note"
      PROVE  Tale(r)
  BY <1>1, <1>2, <1>3, <1>4, WritingTale
<1>5. {"row"} \in SUBSET Traces /\ {"side"} \in SUBSET Traces /\ {"event"} \in SUBSET Traces
      /\ {"note"} \in SUBSET Traces
  BY DEF Traces
<1>6. CASE At(r) \in {"add", "enter"}
  <2>1. DEFINE w == Wrote(r, {"row"})
               q == [w EXCEPT !.found = TRUE]
  <2>2. Pass(r, q)  BY <1>6 DEF Insert
  <2>3. w \in ReqType /\ w.pc = reqs[r].pc /\ w.answer = "none"
        /\ w.wrote = reqs[r].wrote \union {"row"}
    BY <1>3, <1>5
  <2> HIDE DEF w
  <2>4. q \in ReqType /\ q.pc = reqs[r].pc /\ q.answer = "none"
        /\ q.wrote = reqs[r].wrote \union {"row"}
    BY <2>3 DEF ReqType
  <2> HIDE DEF q
  <2>5. QED  BY <1>1, <1>2, <1>5, <1>6, <2>2, <2>4, WritingTale
<1>7. CASE At(r) = "side"
  <2>1. Pass(r, Wrote(r, {"side"}))  BY <1>7 DEF Insert
  <2>2. QED  BY <1>1, <1>4, <1>5, <1>7, <2>1
<1>8. CASE At(r) = "tell" \/ (At(r) = "tellMatch" /\ reqs[r].found)
  <2>1. Pass(r, Wrote(r, {"event"}))  BY <1>8 DEF Insert
  <2>2. QED  BY <1>1, <1>4, <1>5, <1>8, <2>1
<1>9. CASE At(r) = "tellMatch" /\ ~reqs[r].found
  <2>1. Pass(r, reqs[r])  BY <1>9 DEF Insert
  <2>2. QED  BY <1>1, <1>9, <2>1, RunningRecord, QuietTale
<1>10. CASE At(r) = "note"
  <2>1. Pass(r, Wrote(r, {"note"}))  BY <1>10 DEF Insert
  <2>2. QED  BY <1>1, <1>4, <1>5, <1>10, <2>1
<1>11. QED  BY <1>1, <1>6, <1>7, <1>8, <1>9, <1>10

LEMMA StepTale ==
  ASSUME TypeOK, NEW r \in Requests, Step(r) \/ Fault(r)
  PROVE  Running(r) /\ UNCHANGED <<ep, steps>> /\ Tale(r)
<1>1. Running(r) /\ UNCHANGED <<ep, steps>>  BY DEF Step, Fault
<1>2. Tale(r)
  BY <1>1, PassingTale, CommitTale, CheckTale, JumpTale, WriteTale, ConstraintTale, InsertTale,
     AbortTale DEF Step, Fault
<1>3. QED  BY <1>1, <1>2

\* No transaction has ended since its request was at statement i.
Since(r, i) == /\ i < reqs[r].pc
               /\ \A m \in i .. reqs[r].pc : m \in DOMAIN steps => steps[m] # "commit"

\* A row that was asked for is there.
There(r) ==
  \A j \in DOMAIN steps :
    j < reqs[r].pc /\ Asks(steps, j) /\ (\A m \in 1 .. j : steps[m] # "again") => row.there
\* What is written of the row was written by a statement the request has gone past.
Cause(r) ==
  "row" \in reqs[r].wrote =>
    \E i \in DOMAIN steps : i < reqs[r].pc /\ steps[i] \in Writers \union Guarded
\* A change that is certain is made.
Made(r) ==
  \A i \in DOMAIN steps :
    Certain(steps, i) /\ Since(r, i) /\ (steps[i] = "claim" => i + 1 < reqs[r].pc) =>
      "row" \in reqs[r].wrote
\* Whether the last statement matched says whether it changed the row.
Matched(r) ==
  \A i \in DOMAIN steps :
    i + 1 = reqs[r].pc /\ Since(r, i) =>
      /\ steps[i] = "ask" => reqs[r].found = row.there
      /\ steps[i] \in {"write", "finish", "claim"} =>
           /\ reqs[r].found => "row" \in reqs[r].wrote
           /\ "row" \in reqs[r].wrote /\ (\A m \in 1 .. (i - 1) : steps[m] \notin Writers \union Guarded)
                => reqs[r].found
\* A transaction that tells of a change has made it, and one that has made it has told of
\* it or is about to.
Paired(r) ==
  \A t \in Told : Among(steps, Tellers(t)) =>
    /\ t \in reqs[r].wrote => "row" \in reqs[r].wrote
    /\ "row" \in reqs[r].wrote /\ t \notin reqs[r].wrote =>
         \E k \in DOMAIN steps : /\ k >= reqs[r].pc /\ steps[k] \in Tellers(t)
                                 /\ \A m \in reqs[r].pc .. k : steps[m] \notin Breaks

Order(r)  == There(r) /\ Cause(r) /\ Made(r) /\ Matched(r) /\ Paired(r)
Agrees(r) == \A t \in Told : Among(steps, Tellers(t)) => (t \in kept[r] <=> Changed(r))

TellInv ==
  Telling(steps) => \A r \in Requests : Agrees(r) /\ (Running(r) => Order(r))

\* The positions of a request and of its statements are numbers.
LEMMA Positions ==
  ASSUME TypeOK, NEW r \in Requests
  PROVE  /\ reqs[r].pc \in Nat /\ DOMAIN steps = 1 .. Len(steps) /\ Len(steps) \in Nat
         /\ \A i \in DOMAIN steps : i \in Nat
<1>1. reqs[r].pc \in Nat  BY DEF TypeOK
<1>2. DOMAIN steps = 1 .. Len(steps) /\ Len(steps) \in Nat  BY StepsAreStatements
<1>3. QED  BY <1>1, <1>2

LEMMA AdvanceThere ==
  ASSUME TypeOK, NEW r \in Requests, steps' = steps, row'.there = row.there, Advances(r), Order(r)
  PROVE  There(r)'
<1>1. DEFINE p == reqs[r].pc
<1>2. p \in DOMAIN steps /\ p \in Nat /\ reqs'[r].pc = p + 1 /\ \A i \in DOMAIN steps : i \in Nat
  BY Positions DEF Advances, Ahead
<1>3. SUFFICES ASSUME NEW j \in DOMAIN steps, j < p + 1, Asks(steps, j),
                      \A m \in 1 .. j : steps[m] # "again"
               PROVE  row.there
  BY <1>2 DEF There
<1>4. CASE j < p  BY <1>3, <1>4 DEF Order, There
<1>5. CASE j = p /\ steps[p] # "matched"  BY <1>3, <1>5 DEF Asks, Advances
<1>6. CASE j = p /\ steps[p] = "matched"
  <2>1. PICK i \in DOMAIN steps : i = p - 1 /\ steps[i] = "ask"  BY <1>3, <1>6 DEF Asks
  <2>2. i \in Nat /\ i + 1 = p /\ i < p  BY <1>2, <2>1
  <2>3. \A m \in i .. p : m = i \/ m = p  BY <1>2, <2>2
  <2>4. Since(r, i)  BY <1>6, <2>1, <2>2, <2>3 DEF Since
  <2>5. reqs[r].found = row.there  BY <2>1, <2>2, <2>4 DEF Order, Matched
  <2>6. QED  BY <1>6, <2>5 DEF Advances
<1>7. QED  BY <1>2, <1>3, <1>4, <1>5, <1>6

\* What was so since a statement the request had gone past is so before the step.
LEMMA SinceBefore ==
  ASSUME TypeOK, NEW r \in Requests, steps' = steps, reqs'[r].pc \in Nat,
         reqs'[r].pc > reqs[r].pc, NEW i \in DOMAIN steps, i < reqs[r].pc, Since(r, i)'
  PROVE  Since(r, i) /\ (reqs[r].pc \in DOMAIN steps => steps[reqs[r].pc] # "commit")
<1>1. reqs[r].pc \in Nat /\ i \in Nat  BY Positions
<1>2. \A m \in i .. reqs[r].pc : m \in i .. reqs'[r].pc  BY <1>1
<1>3. reqs[r].pc \in i .. reqs[r].pc  BY <1>1
<1>4. QED  BY <1>2, <1>3 DEF Since

\* A statement that has changed the row for certain when its request goes past it.
LEMMA CertainWrites ==
  ASSUME TypeOK, NEW r \in Requests, Advances(r), There(r), Certain(steps, reqs[r].pc),
         steps[reqs[r].pc] # "claim"
  PROVE  "row" \in reqs'[r].wrote
<1>1. CASE steps[reqs[r].pc] \in {"unique", "swap", "add", "enter"}
  BY <1>1 DEF Advances, WritesRow
<1>2. CASE steps[reqs[r].pc] \in {"write", "finish"} /\ Sought(steps, reqs[r].pc)
  <2>1. row.there  BY <1>2 DEF Sought, There
  <2>2. QED  BY <1>2, <2>1 DEF Advances, WritesRow
<1>3. QED  BY <1>1, <1>2 DEF Certain

LEMMA AdvanceMade ==
  ASSUME TypeOK, NEW r \in Requests, steps' = steps, Advances(r), Order(r)
  PROVE  Made(r)'
<1>1. DEFINE p == reqs[r].pc
<1>2. p \in DOMAIN steps /\ p \in Nat /\ reqs'[r].pc = p + 1 /\ \A i \in DOMAIN steps : i \in Nat
  BY Positions DEF Advances, Ahead
<1>3. SUFFICES ASSUME NEW i \in DOMAIN steps, Certain(steps, i), Since(r, i)',
                      steps[i] = "claim" => i + 1 < p + 1
               PROVE  "row" \in reqs'[r].wrote
  BY <1>2 DEF Made
<1>4. i \in Nat /\ i < p + 1  BY <1>2, <1>3 DEF Since
<1>5. CASE i = p  BY <1>3, <1>4, <1>5, CertainWrites DEF Order
<1>6. CASE i < p
  <2>1. Since(r, i)  BY <1>2, <1>3, <1>6, SinceBefore
  <2>2. "row" \in reqs[r].wrote => "row" \in reqs'[r].wrote  BY DEF Advances, WritesRow
  <2>3. CASE steps[i] = "claim" /\ i + 1 = p
    <3>1. steps[p] = "must"  BY <1>3, <2>3 DEF Certain
    <3>2. reqs[r].found  BY <3>1 DEF Advances
    <3>3. "row" \in reqs[r].wrote  BY <2>1, <2>3, <3>2 DEF Order, Matched
    <3>4. QED  BY <2>2, <3>3
  <2>4. CASE ~(steps[i] = "claim" /\ i + 1 = p)
    <3>1. steps[i] = "claim" => i + 1 < p  BY <1>2, <1>4, <1>6, <2>4
    <3>2. QED  BY <1>3, <2>1, <2>2, <3>1 DEF Order, Made
  <2>5. QED  BY <2>3, <2>4
<1>7. QED  BY <1>2, <1>4, <1>5, <1>6

LEMMA AdvanceCause ==
  ASSUME TypeOK, NEW r \in Requests, steps' = steps, Advances(r), Order(r)
  PROVE  Cause(r)'
<1>1. DEFINE p == reqs[r].pc
<1>2. p \in DOMAIN steps /\ p \in Nat /\ reqs'[r].pc = p + 1 /\ \A i \in DOMAIN steps : i \in Nat
  BY Positions DEF Advances, Ahead
<1>3. CASE "row" \in reqs[r].wrote
  <2>1. PICK i \in DOMAIN steps : i < p /\ steps[i] \in Writers \union Guarded
    BY <1>3 DEF Order, Cause
  <2>2. i < p + 1  BY <1>2, <2>1
  <2>3. QED  BY <1>2, <2>1, <2>2 DEF Cause
<1>4. CASE "row" \in reqs'[r].wrote /\ "row" \notin reqs[r].wrote
  <2>1. steps[p] \in Writers \union Guarded
    BY <1>4 DEF Advances, WritesRow, Writers, Guarded
  <2>2. p < p + 1  BY <1>2
  <2>3. QED  BY <1>2, <2>1, <2>2 DEF Cause
<1>5. QED  BY <1>3, <1>4 DEF Cause

LEMMA AdvanceMatched ==
  ASSUME TypeOK, NEW r \in Requests, steps' = steps, row'.there = row.there, Advances(r), Order(r)
  PROVE  Matched(r)'
<1>1. DEFINE p == reqs[r].pc
<1>2. p \in DOMAIN steps /\ p \in Nat /\ reqs'[r].pc = p + 1 /\ \A i \in DOMAIN steps : i \in Nat
  BY Positions DEF Advances, Ahead
<1>3. SUFFICES ASSUME NEW i \in DOMAIN steps, i + 1 = p + 1
      PROVE  /\ steps[i] = "ask" => reqs'[r].found = row.there
             /\ steps[i] \in {"write", "finish", "claim"} =>
                  /\ reqs'[r].found => "row" \in reqs'[r].wrote
                  /\ "row" \in reqs'[r].wrote
                     /\ (\A m \in 1 .. (i - 1) : steps[m] \notin Writers \union Guarded)
                       => reqs'[r].found
  BY <1>2 DEF Matched
<1>4. i = p  BY <1>2, <1>3
<1>5. steps[p] = "ask" => reqs'[r].found = row.there  BY DEF Advances
<1>6. ASSUME steps[p] \in {"write", "finish", "claim"}, "row" \in reqs'[r].wrote,
             \A m \in 1 .. (p - 1) : steps[m] \notin Writers \union Guarded
      PROVE  reqs'[r].found
  <2>1. "row" \notin reqs[r].wrote
    <3>1. SUFFICES ASSUME NEW j \in DOMAIN steps, j < p, steps[j] \in Writers \union Guarded
                   PROVE  FALSE
      BY DEF Order, Cause
    <3>2. j \in 1 .. (p - 1)  BY <1>2, <3>1, Positions
    <3>3. QED  BY <1>6, <3>1, <3>2
  <2>2. QED  BY <1>6, <2>1 DEF Advances, WritesRow
<1>7. steps[p] \in {"write", "finish", "claim"} /\ reqs'[r].found => "row" \in reqs'[r].wrote
  BY DEF Advances, WritesRow
<1>8. QED  BY <1>4, <1>5, <1>6, <1>7

\* What tells of a change has its change before it.
LEMMA TellingIsTrue ==
  ASSUME TypeOK, Telling(steps), NEW r \in Requests, Advances(r), Order(r), NEW t \in Told,
         Among(steps, Tellers(t)), t \in reqs'[r].wrote
  PROVE  "row" \in reqs'[r].wrote
<1>1. DEFINE p == reqs[r].pc
<1>2. p \in DOMAIN steps /\ p \in Nat /\ \A i \in DOMAIN steps : i \in Nat
  BY Positions DEF Advances, Ahead
<1>3. "row" \in reqs[r].wrote => "row" \in reqs'[r].wrote  BY DEF Advances, WritesRow
<1>4. CASE t \in reqs[r].wrote  BY <1>3, <1>4 DEF Order, Paired
<1>5. CASE t \notin reqs[r].wrote
  <2>1. \/ steps[p] \in Tellers(t) \ {"tellMatch"}
        \/ steps[p] = "tellMatch" /\ t = "event" /\ reqs[r].found
    BY <1>5 DEF Advances, WritesEvent, WritesNote, Told, Tellers
  <2>2. CASE steps[p] \in Tellers(t) \ {"tellMatch"}
    <3>1. PICK i \in DOMAIN steps : /\ i < p /\ Certain(steps, i)
                                    /\ \A m \in i .. p : steps[m] # "commit"
      BY <1>2, <2>2 DEF Telling, Told
    <3>2. Since(r, i)  BY <3>1 DEF Since
    <3>3. steps[i] = "claim" => i + 1 < p
      <4>1. ASSUME steps[i] = "claim" PROVE i + 1 # p
        BY <2>2, <3>1, <4>1 DEF Certain, Tellers
      <4>2. QED  BY <1>2, <3>1, <4>1
    <3>4. QED  BY <1>3, <3>1, <3>2, <3>3 DEF Order, Made
  <2>3. CASE steps[p] = "tellMatch" /\ t = "event" /\ reqs[r].found
    <3>1. PICK i \in DOMAIN steps : i = p - 1 /\ steps[i] \in {"write", "finish", "claim"}
      BY <1>2, <2>3 DEF Telling
    <3>2. i + 1 = p /\ i < p /\ \A m \in i .. p : m = i \/ m = p  BY <1>2, <3>1
    <3>3. Since(r, i)  BY <2>3, <3>1, <3>2 DEF Since
    <3>4. QED  BY <1>3, <2>3, <3>1, <3>2, <3>3 DEF Order, Matched
  <2>4. QED  BY <2>1, <2>2, <2>3
<1>6. QED  BY <1>4, <1>5

\* A change that has not been told of is about to be.
LEMMA TellingIsComplete ==
  ASSUME TypeOK, Telling(steps), NEW r \in Requests, Advances(r), Order(r), NEW t \in Told,
         Among(steps, Tellers(t)), "row" \in reqs'[r].wrote, t \notin reqs'[r].wrote
  PROVE  \E k \in DOMAIN steps : /\ k >= reqs'[r].pc /\ steps[k] \in Tellers(t)
                                 /\ \A m \in reqs'[r].pc .. k : steps[m] \notin Breaks
<1>1. DEFINE p == reqs[r].pc
<1>2. p \in DOMAIN steps /\ p \in Nat /\ reqs'[r].pc = p + 1 /\ \A i \in DOMAIN steps : i \in Nat
  BY Positions DEF Advances, Ahead
<1>3. t \notin reqs[r].wrote
  BY DEF Advances, WritesEvent, WritesNote, Told
<1>4. ASSUME NEW k \in DOMAIN steps, k > p, steps[k] \in Tellers(t),
             \A m \in p .. k : steps[m] \notin Breaks
      PROVE  k >= p + 1 /\ \A m \in (p + 1) .. k : steps[m] \notin Breaks
  BY <1>2, <1>4
<1>5. CASE "row" \in reqs[r].wrote
  <2>1. PICK k \in DOMAIN steps : /\ k >= p /\ steps[k] \in Tellers(t)
                                  /\ \A m \in p .. k : steps[m] \notin Breaks
    BY <1>3, <1>5 DEF Order, Paired
  <2>2. k # p
    <3>1. ASSUME k = p PROVE steps[p] = "tellMatch" /\ t = "event" /\ ~reqs[r].found
      BY <2>1, <3>1 DEF Advances, WritesEvent, WritesNote, Told, Tellers
    <3>2. ASSUME steps[p] = "tellMatch" PROVE reqs[r].found
      <4>1. Among(steps, Tellers("event"))  BY <1>2, <3>2 DEF Among, Tellers
      <4>2. PICK i \in DOMAIN steps :
              /\ i = p - 1 /\ steps[i] \in {"write", "finish", "claim"}
              /\ \A m \in 1 .. (p - 2) : steps[m] \notin Writers \union Guarded
        BY <1>2, <3>2, <4>1 DEF Telling
      <4>3. /\ i + 1 = p /\ i < p /\ i - 1 = p - 2
            /\ \A m \in i .. p : m = i \/ m = p
        BY <1>2, <4>2
      <4>4. Since(r, i)  BY <3>2, <4>2, <4>3 DEF Since
      <4>5. QED  BY <1>5, <4>2, <4>3, <4>4 DEF Order, Matched
    <3>3. QED  BY <3>1, <3>2
  <2>3. k > p  BY <1>2, <2>1, <2>2
  <2>4. QED  BY <1>2, <1>4, <2>1, <2>3
<1>6. CASE "row" \notin reqs[r].wrote
  <2>1. steps[p] \in Writers \union Guarded
    BY <1>6 DEF Advances, WritesRow, Writers, Guarded
  <2>2. \A i \in DOMAIN steps : steps[i] \in Writers \union Guarded =>
          \E k \in DOMAIN steps :
            i < k /\ steps[k] \in Tellers(t) /\ \A m \in i .. k : steps[m] \notin Breaks
    BY DEF Telling, Told
  <2>3. PICK k \in DOMAIN steps : /\ p < k /\ steps[k] \in Tellers(t)
                                  /\ \A m \in p .. k : steps[m] \notin Breaks
    BY <1>2, <2>1, <2>2
  <2>4. k > p  BY <1>2, <2>3
  <2>5. QED  BY <1>2, <1>4, <2>3, <2>4
<1>7. QED  BY <1>5, <1>6

LEMMA AdvanceOrder ==
  ASSUME TypeOK, Telling(steps), NEW r \in Requests, steps' = steps, row'.there = row.there,
         Advances(r), Order(r)
  PROVE  Order(r)'
<1>1. Paired(r)'
  <2>1. SUFFICES ASSUME NEW t \in Told, Among(steps, Tellers(t))
        PROVE  /\ t \in reqs'[r].wrote => "row" \in reqs'[r].wrote
               /\ "row" \in reqs'[r].wrote /\ t \notin reqs'[r].wrote =>
                    \E k \in DOMAIN steps : /\ k >= reqs'[r].pc /\ steps[k] \in Tellers(t)
                                            /\ \A m \in reqs'[r].pc .. k : steps[m] \notin Breaks
    BY DEF Paired
  <2>2. QED  BY <2>1, TellingIsTrue, TellingIsComplete
<1>2. QED  BY <1>1, AdvanceThere, AdvanceMade, AdvanceCause, AdvanceMatched DEF Order

LEMMA JumpOrder ==
  ASSUME TypeOK, Telling(steps), NEW r \in Requests, steps' = steps, row'.there = row.there,
         Jumps(r), Order(r)
  PROVE  Order(r)'
<1>1. DEFINE p == reqs[r].pc
             c == reqs'[r].pc
<1>2. /\ p \in DOMAIN steps /\ p \in Nat /\ c \in DOMAIN steps /\ c \in Nat /\ p < c
      /\ steps[c] = "commit" /\ \A i \in DOMAIN steps : i \in Nat
  BY Positions DEF Jumps, Ahead
<1>3. There(r)'
  <2>1. SUFFICES ASSUME NEW j \in DOMAIN steps, j < c, Asks(steps, j),
                        \A m \in 1 .. j : steps[m] # "again"
                 PROVE  row.there
    BY DEF There
  <2>2. CASE j < p  BY <2>1, <2>2 DEF Order, There
  <2>3. CASE ~(j < p)
    <3>1. p \in 1 .. j  BY <1>2, <2>3, Positions
    <3>2. QED  BY <2>1, <3>1 DEF Jumps
  <2>4. QED  BY <2>2, <2>3
<1>4. Cause(r)'
  <2>1. \A i \in DOMAIN steps : i < p => i < c  BY <1>2
  <2>2. QED  BY <2>1 DEF Order, Cause, Jumps
<1>5. ASSUME NEW i \in DOMAIN steps PROVE ~Since(r, i)'
  <2>1. i < c => c \in i .. c  BY <1>2
  <2>2. QED  BY <1>2, <2>1 DEF Since
<1>6. Made(r)' /\ Matched(r)'  BY <1>5 DEF Made, Matched
<1>7. Paired(r)'
  <2>1. SUFFICES ASSUME NEW t \in Told, Among(steps, Tellers(t))
                 PROVE  /\ t \in reqs'[r].wrote => "row" \in reqs'[r].wrote
                        /\ ~("row" \in reqs'[r].wrote /\ t \notin reqs'[r].wrote)
    BY DEF Paired
  <2>2. \A k \in DOMAIN steps : k >= p => p \in p .. k  BY <1>2
  <2>3. steps[p] \in {"keyed", "again"}  BY DEF Jumps
  <2>4. steps[p] \in Breaks  BY <2>3 DEF Breaks
  <2>5. QED  BY <2>1, <2>2, <2>4 DEF Order, Paired, Jumps
<1>8. QED  BY <1>3, <1>4, <1>6, <1>7 DEF Order

LEMMA CommitOrder ==
  ASSUME TypeOK, NEW r \in Requests, steps' = steps, row'.there = row.there,
         PassesCommit(r), Order(r)
  PROVE  Order(r)'
<1>1. DEFINE p == reqs[r].pc
<1>2. /\ p \in DOMAIN steps /\ p \in Nat /\ reqs'[r].pc = p + 1 /\ steps[p] = "commit"
      /\ \A i \in DOMAIN steps : i \in Nat
  BY Positions DEF PassesCommit, Ahead
<1>3. There(r)'
  <2>1. SUFFICES ASSUME NEW j \in DOMAIN steps, j < p + 1, Asks(steps, j),
                        \A m \in 1 .. j : steps[m] # "again"
                 PROVE  row.there
    BY <1>2 DEF There
  <2>2. j # p  BY <1>2, <2>1 DEF Asks
  <2>3. j < p  BY <1>2, <2>1, <2>2
  <2>4. QED  BY <2>1, <2>3 DEF Order, There
<1>4. ASSUME NEW i \in DOMAIN steps PROVE ~Since(r, i)'
  <2>1. i < p + 1 => p \in i .. (p + 1)  BY <1>2
  <2>2. QED  BY <1>2, <2>1 DEF Since
<1>5. Made(r)' /\ Matched(r)'  BY <1>4 DEF Made, Matched
<1>6. Cause(r)' /\ Paired(r)'  BY DEF PassesCommit, Cause, Paired
<1>7. QED  BY <1>3, <1>5, <1>6 DEF Order

\* What a request publishes at a stop is a change and what tells of it, or neither.
LEMMA PublishAgrees ==
  ASSUME TypeOK, NEW r \in Requests, Ahead(r), steps[reqs[r].pc] \in Breaks, Order(r), Agrees(r),
         steps' = steps, Published(r)
  PROVE  Agrees(r)'
<1>1. SUFFICES ASSUME NEW t \in Told, Among(steps, Tellers(t))
               PROVE  t \in kept'[r] <=> Changed(r)'
  BY DEF Agrees
<1>2. t \in kept[r] <=> Changed(r)  BY <1>1 DEF Agrees
<1>3. t \in reqs[r].wrote <=> "row" \in reqs[r].wrote
  <2>1. \A k \in DOMAIN steps : k >= reqs[r].pc => reqs[r].pc \in reqs[r].pc .. k  BY Positions
  <2>2. QED  BY <1>1, <2>1 DEF Order, Paired
<1>4. by \in Seq(Requests) /\ DOMAIN by = 1 .. Len(by) /\ Len(by) \in Nat
  BY LenProperties DEF TypeOK
<1>5. CASE "row" \in reqs[r].wrote
  <2>1. by' = Append(by, r)  BY <1>5 DEF Published
  <2>2. Len(by) + 1 \in DOMAIN by' /\ by'[Len(by) + 1] = r
    BY <1>4, <2>1, ByGrows, LenProperties
  <2>3. QED  BY <1>3, <1>5, <2>2 DEF Published, Changed
<1>6. CASE "row" \notin reqs[r].wrote  BY <1>2, <1>3, <1>6 DEF Published, Changed
<1>7. QED  BY <1>5, <1>6

\* Who has not stepped has changed, and kept, what it had.
LEMMA OthersAgree ==
  ASSUME TypeOK, NEW r \in Requests, NEW s \in Requests \ {r}, steps' = steps, Tale(r)
  PROVE  /\ Agrees(s) => Agrees(s)'
         /\ Running(s)' /\ Order(s) => Running(s) /\ Order(s)'
<1>1. reqs'[s] = reqs[s] /\ kept'[s] = kept[s] /\ row'.there = row.there  BY DEF Tale, Rest
<1>2. Changed(s)' <=> Changed(s)
  <2>1. CASE by' = by  BY <2>1 DEF Changed
  <2>2. CASE by' = Append(by, r)
    <3>1. by \in Seq(Requests) /\ DOMAIN by = 1 .. Len(by) /\ Len(by) \in Nat
      BY LenProperties DEF TypeOK
    <3>2. /\ DOMAIN by' = 1 .. (Len(by) + 1) /\ (\A i \in 1 .. Len(by) : by'[i] = by[i])
          /\ by'[Len(by) + 1] = r
      BY <2>2, <3>1, ByGrows, LenProperties
    <3>3. QED  BY <3>1, <3>2 DEF Changed
  <2>3. QED
    BY <2>1, <2>2 DEF Tale, Advances, Jumps, PassesCommit, Ends, Published
<1>3. \A i : Since(s, i)' <=> Since(s, i)  BY <1>1 DEF Since
<1>4. Order(s) => Order(s)'
  <2>1. There(s) => There(s)'      BY <1>1 DEF There
  <2>2. Cause(s) => Cause(s)'      BY <1>1 DEF Cause
  <2>3. Made(s) => Made(s)'        BY <1>1, <1>3 DEF Made
  <2>4. Matched(s) => Matched(s)'  BY <1>1, <1>3 DEF Matched
  <2>5. Paired(s) => Paired(s)'    BY <1>1 DEF Paired
  <2>6. QED  BY <2>1, <2>2, <2>3, <2>4, <2>5 DEF Order
<1>5. QED  BY <1>1, <1>2, <1>4 DEF Agrees, Running

LEMMA TellStep ==
  ASSUME TypeOK, TellInv, NEW r \in Requests, Running(r), UNCHANGED <<ep, steps>>, Tale(r)
  PROVE  TellInv'
<1>1. SUFFICES ASSUME Telling(steps)
               PROVE  \A s \in Requests : Agrees(s)' /\ (Running(s)' => Order(s)')
  BY DEF TellInv
<1>2. ASSUME NEW s \in Requests \ {r} PROVE Agrees(s)' /\ (Running(s)' => Order(s)')
  BY <1>1, OthersAgree DEF TellInv, Running, Tale, Rest
<1>3. Agrees(r) /\ Order(r) /\ row'.there = row.there  BY <1>1 DEF TellInv, Tale
<1>4. CASE Advances(r)
  <2>1. Order(r)'  BY <1>1, <1>3, <1>4, AdvanceOrder
  <2>2. Agrees(r)'
    <3>1. \A t \in Told : t \in kept'[r] <=> t \in kept[r]  BY <1>4 DEF Advances, Told
    <3>2. Changed(r)' <=> Changed(r)  BY <1>4 DEF Advances, Changed
    <3>3. QED  BY <1>3, <3>1, <3>2 DEF Agrees
  <2>3. QED  BY <1>2, <2>1, <2>2
<1>5. CASE Jumps(r)
  <2>1. Order(r)'  BY <1>1, <1>3, <1>5, JumpOrder
  <2>2. Agrees(r)'  BY <1>3, <1>5 DEF Jumps, Agrees, Changed
  <2>3. QED  BY <1>2, <2>1, <2>2
<1>6. CASE PassesCommit(r)
  <2>1. Order(r)'  BY <1>3, <1>6, CommitOrder
  <2>2. Ahead(r) /\ steps[reqs[r].pc] = "commit" /\ Published(r)  BY <1>6 DEF PassesCommit
  <2>3. steps[reqs[r].pc] \in Breaks  BY <2>2 DEF Breaks
  <2>4. Agrees(r)'  BY <1>3, <2>2, <2>3, PublishAgrees
  <2>5. QED  BY <1>2, <2>1, <2>4
<1>7. CASE Ends(r)
  <2>1. ~Running(r)'  BY <1>7 DEF Ends, Running
  <2>2. Agrees(r)'
    <3>1. CASE by' = by /\ kept'[r] = kept[r]
      <4>1. Changed(r)' <=> Changed(r)  BY <3>1 DEF Changed
      <4>2. QED  BY <1>3, <3>1, <4>1 DEF Agrees
    <3>2. CASE Ahead(r) /\ steps[reqs[r].pc] \in Refusing /\ Published(r)
      <4>1. steps[reqs[r].pc] \in Breaks  BY <3>2 DEF Breaks
      <4>2. QED  BY <1>3, <3>2, <4>1, PublishAgrees
    <3>3. QED  BY <1>7, <3>1, <3>2 DEF Ends
  <2>3. QED  BY <1>2, <2>1, <2>2
<1>8. QED  BY <1>4, <1>5, <1>6, <1>7 DEF Tale

\* However many requests call one endpoint at once, and wherever one of them fails or
\* dies, the event and the audit entry of an operation are committed exactly when its
\* change is: for every table whose rows tell of a change in the transaction that makes it.
THEOREM ChangesAreTold == Spec => []ToldWhenChanged
<1>1. Init => TellInv
  <2>1. SUFFICES ASSUME Init, NEW r \in Requests PROVE Agrees(r) /\ Order(r)  BY DEF TellInv
  <2>2. TypeOK  BY <2>1, InitType
  <2>3. reqs[r].pc = 1 /\ reqs[r].wrote = {} /\ kept[r] = {} /\ by = <<>>
    BY <2>1 DEF Init, Fresh
  <2>4. \A i \in DOMAIN steps : ~(i < 1) /\ i + 1 # 1  BY <2>2, Positions
  <2>5. Order(r)  BY <2>3, <2>4 DEF Order, There, Cause, Made, Matched, Paired, Since
  <2>6. Agrees(r)  BY <2>3 DEF Agrees, Changed
  <2>7. QED  BY <2>5, <2>6
<1>2. TypeOK /\ TellInv /\ [Next]_vars => TellInv'
  <2>1. ASSUME TypeOK, TellInv, NEW r \in Requests, Step(r) \/ Fault(r) PROVE TellInv'
    BY <2>1, StepTale, TellStep
  <2>2. ASSUME TellInv, UNCHANGED vars PROVE TellInv'
    <3>1. /\ ep' = ep /\ steps' = steps /\ row' = row /\ reqs' = reqs /\ by' = by
          /\ kept' = kept
      BY <2>2 DEF vars
    <3>2. \A r : /\ Changed(r)' <=> Changed(r)
                 /\ Running(r)' <=> Running(r)
                 /\ \A i : Since(r, i)' <=> Since(r, i)
      BY <3>1 DEF Changed, Running, Since
    <3>3. ASSUME NEW r PROVE Order(r) => Order(r)'
      <4>1. There(r) => There(r)'      BY <3>1 DEF There
      <4>2. Cause(r) => Cause(r)'      BY <3>1 DEF Cause
      <4>3. Made(r) => Made(r)'        BY <3>1, <3>2 DEF Made
      <4>4. Matched(r) => Matched(r)'  BY <3>1, <3>2 DEF Matched
      <4>5. Paired(r) => Paired(r)'    BY <3>1 DEF Paired
      <4>6. QED  BY <4>1, <4>2, <4>3, <4>4, <4>5 DEF Order
    <3>4. ASSUME NEW r PROVE Agrees(r) => Agrees(r)'  BY <3>1, <3>2 DEF Agrees
    <3>5. QED  BY <2>2, <3>1, <3>2, <3>3, <3>4 DEF TellInv
  <2>3. QED  BY <2>1, <2>2 DEF Next
<1>3. TypeOK /\ TellInv => ToldWhenChanged
  <2>1. SUFFICES ASSUME TypeOK, TellInv, ep \notin Blind, NEW r \in Requests
                 PROVE  /\ Has("tell") \/ Has("tellMatch") => ("event" \in kept[r] <=> Changed(r))
                        /\ Has("note") => ("note" \in kept[r] <=> Changed(r))
    BY DEF ToldWhenChanged
  <2>2. Agrees(r)  BY <2>1, DisciplineAssumption DEF TypeOK, TellInv
  <2>3. /\ Has("tell") \/ Has("tellMatch") => Among(steps, Tellers("event"))
        /\ Has("note") => Among(steps, Tellers("note"))
    BY DEF Has, Among, Tellers
  <2>4. QED  BY <2>2, <2>3 DEF Agrees, Told
<1>4. QED  BY <1>1, <1>2, <1>3, TypeCorrect, PTL DEF Spec
=============================================================================
