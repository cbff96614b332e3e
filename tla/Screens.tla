------------------------------- MODULE Screens -------------------------------
(* How a screen of the four web applications behaves while its requests are   *)
(* out.  Every page is written the same way: useState for the data, an error   *)
(* and one or more busy slots; a load() that asks for the data, from an effect,*)
(* a retry button or a timer; handlers that mark their slot, await the API,    *)
(* then reload, patch or leave, catch into the error and free the slot.  What  *)
(* differs from page to page is a row of the table Pages (StoreScreens,        *)
(* SupplierScreens, AdminScreens and DriverScreens, one row per page).         *)
(*                                                                             *)
(* A run of the code between two awaits is one step; React applies a click and *)
(* the state it sets before the next click.  The data is the set of this       *)
(* page's operations it reflects and of its switches that are on; several      *)
(* calls in a row (the lines of a reorder) count as one.                       *)
EXTENDS Integers, FiniteSets

CONSTANTS
  Pages,      \* name of a page -> its row: [load, ops, view]
  MaxClicks,  \* bound: operations started
  MaxLoads,   \* bound: loads under way at a time
  MaxFaults   \* bound: loads that fail and answers that are lost

ASSUME ScreensAssumption == MaxClicks \in Nat /\ MaxLoads \in Nat \ {0} /\ MaxFaults \in Nat

\* What every page keeps to.  A page without a load() has nothing to blank or to drop.
\* An effect with a cleanup has no loading ref, and a page whose list could stay behind
\* under another filter, when the load of that filter fails, empties it first or then.
\* The switches of a page have one handler; it does not load again.
PageIsCoherent(load, ops) ==
  /\ ~load.loads => load.blanks = "no" /\ ~load.drops
  /\ load.drops => ~load.single /\ (load.mute \/ load.blanks \in {"load", "choice"})
  /\ \A o \in DOMAIN ops :
       /\ ops[o].error \in {"page", "own"} /\ ops[o].paints \in {"no", "item", "list"}
       /\ ops[o].paints # "no" => /\ ops[o].then \in {"replace", "note"}
                                /\ \A q \in DOMAIN ops \ {o} : ops[q].paints = "no"
ASSUME PagesAssumption == \A p \in DOMAIN Pages : PageIsCoherent(Pages[p].load, Pages[p].ops)

VARIABLES
  page,    \* the page that is open
  open,    \* it has not navigated away
  key,     \* the filter the visitor has chosen
  data,    \* what is displayed: loaded or not, for which filter, operations and switches
  notice,  \* the errors displayed: the page's and the form's own, 0 for none
  slots,   \* the busy slots
  acts,    \* the operations, in the order they were clicked
  loads,   \* the loads under way
  stored,  \* what the server has: operations carried out and switches that are on
  had,     \* history: all that the server ever had
  contested,  \* history: switches that moved again while a request of theirs was out
  faults   \* loads failed and answers lost so far

screenVars ==
  <<page, open, key, data, notice, slots, acts, loads, stored, had, contested, faults>>

Clicks  == 1 .. MaxClicks
Lines == {1, 2}                 \* two lines of a list stand for all of them
LoadFailed == MaxClicks + 1     \* the error of a load
Free  == <<"free", 0>>
Switch(line) == -line           \* the switch of a line, where it is on
Switches == {Switch(line) : line \in Lines}
Displayable == Clicks \union Switches

LoadRow == Pages[page].load
View == Pages[page].view
Op(o) == Pages[page].ops[o]
OpOf(a) == Op(acts[a].op)

Unloaded == [loaded |-> FALSE, key |-> 1, acts |-> {}]
NoAct    == [stage |-> "none", op |-> "none", line |-> 1, before |-> {}, snap |-> {}]
NoLoad   == [stage |-> "none", key |-> 1, snap |-> {}, waiter |-> 0, live |-> TRUE]

UnderWay(a) == acts[a].stage \in {"asked", "served", "failing", "reloading"}
Loading     == {l \in 1 .. MaxLoads : loads[l].stage # "none"}
Quiet       == Loading = {} /\ \A a \in Clicks : ~UnderWay(a)

ScreenTypeOK ==
  /\ page \in DOMAIN Pages /\ open \in BOOLEAN /\ key \in {1, 2}
  /\ data \in [loaded : BOOLEAN, key : {1, 2}, acts : SUBSET Displayable]
  /\ notice \in [page : 0 .. LoadFailed, own : 0 .. LoadFailed]
  /\ DOMAIN slots = {Op(o).slot : o \in DOMAIN Pages[page].ops}
  /\ acts \in [Clicks ->
       [stage : {"none", "asked", "served", "failing", "reloading", "done", "undone"},
        op : DOMAIN Pages[page].ops \union {"none"}, line : Lines,
        before : SUBSET Switches, snap : SUBSET Displayable]]
  /\ loads \in [1 .. MaxLoads ->
       [stage : {"none", "asked", "served"}, key : {1, 2}, snap : SUBSET Displayable,
        waiter : 0 .. MaxClicks, live : BOOLEAN]]
  /\ stored \in SUBSET Displayable /\ had \in SUBSET Displayable /\ contested \in SUBSET Switches
  /\ faults \in 0 .. MaxFaults

\* What a handler writes into its slot: true, the line's id, or its own name.
Mark(o, line) ==
  CASE Op(o).mark = "on"   -> <<"on", 0>>
    [] Op(o).mark = "line" -> <<"line", line>>
    [] Op(o).mark = "own"  -> <<o, line>>

-----------------------------------------------------------------------------
(* Loads.                                                                     *)

\* The load that is started takes the lowest free place; w waits for it.  A page
\* with a loading ref starts none while one is out.
Ask(ls, k, w) ==
  IF LoadRow.single /\ \E l \in DOMAIN ls : ls[l].stage # "none" THEN ls
  ELSE LET free == {l \in DOMAIN ls : ls[l].stage = "none"}
           next == CHOOSE l \in free : \A m \in free : l <= m
       IN  [ls EXCEPT ![next] = [stage |-> "asked", key |-> k, snap |-> {}, waiter |-> w, live |-> TRUE]]
CanAsk == Loading # 1 .. MaxLoads

Blanked(d, when) == IF LoadRow.blanks \in when THEN Unloaded ELSE d
Hushed(n)  == IF LoadRow.hush = "asked" THEN [n EXCEPT !.page = 0] ELSE n

StartLoad(k, w) ==
  /\ CanAsk
  /\ loads' = Ask(loads, k, w)
  /\ data' = Blanked(data, {"load"})
  /\ notice' = Hushed(notice)

\* The effect of the first render.
ScreenInit ==
  /\ page \in DOMAIN Pages /\ open = TRUE /\ key = 1
  /\ data = IF LoadRow.loads THEN Unloaded ELSE [Unloaded EXCEPT !.loaded = TRUE]
  /\ notice = [page |-> 0, own |-> 0]
  /\ slots = [s \in {Op(o).slot : o \in DOMAIN Pages[page].ops} |-> Free]
  /\ acts = [a \in Clicks |-> NoAct]
  /\ loads = [l \in 1 .. MaxLoads |->
               IF LoadRow.loads /\ l = 1 THEN [NoLoad EXCEPT !.stage = "asked"] ELSE NoLoad]
  /\ stored = {} /\ had = {} /\ contested = {} /\ faults = 0

Retry ==
  /\ LoadRow.loads
  /\ \/ View.retry = "always"
     \/ View.retry = "error" /\ notice.page # 0
     \/ View.retry = "first" /\ notice.page # 0 /\ ~data.loaded
  /\ StartLoad(key, 0)
  /\ UNCHANGED <<page, open, key, slots, acts, stored, had, contested, faults>>

Poll ==
  /\ LoadRow.polls /\ StartLoad(key, 0)
  /\ UNCHANGED <<page, open, key, slots, acts, stored, had, contested, faults>>

\* Mutant of Choose: the effect has no cleanup.
ChooseWithoutCleanup(k) ==
  /\ LoadRow.keyed /\ k # key /\ key' = k
  /\ StartLoad(k, 0)
  /\ UNCHANGED <<page, open, slots, acts, stored, had, contested, faults>>

\* Another filter: the effect runs again, its cleanup first.  An aborted request
\* rejects at once, into the catch that empties the list.
Choose(k) ==
  /\ LoadRow.keyed /\ k # key /\ key' = k /\ CanAsk
  /\ LET dropped == [l \in DOMAIN loads |->
                      IF LoadRow.drops THEN [loads[l] EXCEPT !.live = FALSE] ELSE loads[l]]
     IN  loads' = Ask(dropped, k, 0)
  /\ data' = IF LoadRow.drops /\ Loading # {} THEN Unloaded ELSE Blanked(data, {"load", "choice"})
  /\ notice' = Hushed(notice)
  /\ UNCHANGED <<page, open, slots, acts, stored, had, contested, faults>>

LoadServed(l) ==
  /\ loads[l].stage = "asked"
  /\ loads' = [loads EXCEPT ![l] = [stage |-> "served", key |-> loads[l].key, snap |-> stored,
                                   waiter |-> loads[l].waiter, live |-> loads[l].live]]
  /\ UNCHANGED <<page, open, key, data, notice, slots, acts, stored, had, contested, faults>>

\* An operation goes on with other copies; one that is over keeps none.
Onward(a, stage, before, snap) ==
  [acts EXCEPT ![a] = [stage |-> stage, op |-> acts[a].op, line |-> acts[a].line,
                       before |-> before, snap |-> snap]]
Ended(a, stage) == Onward(a, stage, {}, {})

\* The handler that awaited the load goes on to its finally.
Resume(l) ==
  LET a == loads[l].waiter IN
  IF a = 0 THEN UNCHANGED <<acts, slots>>
  ELSE acts' = Ended(a, "done") /\ slots' = [slots EXCEPT ![OpOf(a).slot] = Free]

LoadAnswered(l) ==
  /\ loads[l].stage = "served"
  /\ loads' = [loads EXCEPT ![l] = NoLoad]
  /\ IF loads[l].live
     THEN /\ data' = [loaded |-> TRUE, key |-> loads[l].key, acts |-> loads[l].snap]
          /\ notice' = IF LoadRow.hush = "answered" THEN [notice EXCEPT !.page = 0] ELSE notice
     ELSE UNCHANGED <<data, notice>>
  /\ Resume(l)
  /\ UNCHANGED <<page, open, key, stored, had, contested, faults>>

LoadFails(l) ==
  /\ loads[l].stage = "asked" /\ faults < MaxFaults /\ faults' = faults + 1
  /\ loads' = [loads EXCEPT ![l] = NoLoad]
  /\ CASE ~loads[l].live -> UNCHANGED <<data, notice>>
       [] loads[l].live /\ LoadRow.mute -> data' = Unloaded /\ notice' = notice
       [] loads[l].live /\ ~LoadRow.mute -> notice' = [notice EXCEPT !.page = LoadFailed] /\ data' = data
  /\ Resume(l)
  /\ UNCHANGED <<page, open, key, stored, had, contested>>

-----------------------------------------------------------------------------
(* Operations.                                                                *)

\* Mutant of Shut: a form can be sent again from the keyboard while its button is busy.
ShutToTheMouse(o, line) == o \notin View.bare \union View.forms /\ slots[Op(o).slot] = Mark(o, line)

\* Button: disabled={disabled || busy}.
Shut(o, line) == o \notin View.bare /\ slots[Op(o).slot] = Mark(o, line)

\* The control of an operation is rendered with the data, unless it is in a form of
\* its own, and lists hide their rows behind an error.
Offered(o, line) ==
  /\ line \in IF o \in View.rows THEN Lines ELSE {1}
  /\ (o \in View.forms \/ (data.loaded /\ ~(View.hides /\ notice.page # 0)))
  /\ ~Shut(o, line)

\* The operation o moves a switch of the page at the click.
IsSwitch(o) == Op(o).paints # "no"
\* The switches whose requests are out when the one of line moves: its own, or all
\* those of a list that its handler copies.
Crossed(o, line) ==
  {Switch(acts[b].line) :
     b \in {c \in Clicks : /\ UnderWay(c) /\ acts[c].op = o
                          /\ (Op(o).paints = "list" \/ acts[c].line = line)}}
Flipped(line) ==
  IF Switch(line) \in data.acts THEN data.acts \ {Switch(line)} ELSE data.acts \union {Switch(line)}

\* A switch closes over the list as it was.
Click(a, o, line) ==
  /\ acts[a].stage = "none" /\ \A b \in 1 .. (a - 1) : acts[b].stage # "none"
  /\ Offered(o, line)
  /\ acts' = [acts EXCEPT ![a] = [stage |-> "asked", op |-> o, line |-> line,
                before |-> IF IsSwitch(o) THEN data.acts \cap Switches ELSE {}, snap |-> {}]]
  /\ slots' = IF Op(o).mark = "no" THEN slots ELSE [slots EXCEPT ![Op(o).slot] = Mark(o, line)]
  /\ IF IsSwitch(o)
     THEN data' = [data EXCEPT !.acts = Flipped(line)] /\ contested' = contested \union Crossed(o, line)
     ELSE UNCHANGED <<data, contested>>
  /\ notice' = IF Op(o).hush THEN [notice EXCEPT ![Op(o).error] = 0] ELSE notice
  /\ UNCHANGED <<page, open, key, loads, stored, had, faults>>

\* The value a switch asks for, whatever is stored or displayed by then: not its old one.
Mine(a)  == Switch(acts[a].line)
Wants(a) == Mine(a) \notin acts[a].before
Turned(set, a, on) == IF on THEN set \union {Mine(a)} ELSE set \ {Mine(a)}

CarryOut(a) ==
  /\ acts[a].stage = "asked"
  /\ stored' = IF IsSwitch(acts[a].op) THEN Turned(stored, a, Wants(a)) ELSE stored \union {a}
  /\ had' = had \union stored'
  /\ acts' = Onward(a, "served", acts[a].before, stored')
  /\ UNCHANGED <<page, open, key, data, notice, slots, loads, contested, faults>>

\* The server says no, or the request never reaches it.
Refuse(a) ==
  /\ acts[a].stage = "asked"
  /\ acts' = Onward(a, "failing", acts[a].before, acts[a].snap)
  /\ UNCHANGED <<page, open, key, data, notice, slots, loads, stored, had, contested, faults>>
LoseAnswer(a) ==
  /\ acts[a].stage = "served" /\ faults < MaxFaults /\ faults' = faults + 1
  /\ acts' = Onward(a, "failing", acts[a].before, acts[a].snap)
  /\ UNCHANGED <<page, open, key, data, notice, slots, loads, stored, had, contested>>

\* Mutant of Freed: the slot is freed on the way out only when the call succeeded.
FreedOnSuccess(a, failed) ==
  IF OpOf(a).mark = "no" \/ failed THEN slots ELSE [slots EXCEPT ![OpOf(a).slot] = Free]

\* setBusy(false) or setBusy(null) in the finally, whatever the slot holds by now; a
\* handler that leaves the page on success frees it in its catch.
Freed(a, failed) ==
  IF OpOf(a).mark = "no" \/ (OpOf(a).frees = "failure" /\ ~failed) THEN slots
  ELSE [slots EXCEPT ![OpOf(a).slot] = Free]

Settle(a, stage) == acts' = Ended(a, stage)

\* await refresh(): the slot stays marked until the load is answered.
AnswerAwaiting(a) ==
  /\ acts[a].stage = "served" /\ OpOf(a).then = "await"
  /\ StartLoad(key, a) /\ Settle(a, "reloading")
  /\ UNCHANGED <<page, open, key, slots, stored, had, contested, faults>>

\* load() and on: nobody waits for the answer.
AnswerLoading(a) ==
  /\ acts[a].stage = "served" /\ OpOf(a).then = "load"
  /\ StartLoad(key, 0) /\ Settle(a, "done") /\ slots' = Freed(a, FALSE)
  /\ open' = (OpOf(a).leaves = "no")
  /\ UNCHANGED <<page, key, stored, had, contested, faults>>

\* What the operation of a changes of the page's state: its switches, or what its own
\* kind has done.
Piece(a) == IF IsSwitch(acts[a].op) THEN Switches ELSE {b \in Clicks : acts[b].op = acts[a].op}
PartOf(a, copy) == (data.acts \ Piece(a)) \union (copy \cap Piece(a))

\* The page changes its own copy, takes the answer for its data, or just says so.
AnswerInPlace(a) ==
  /\ acts[a].stage = "served" /\ OpOf(a).then \in {"patch", "replace", "note"}
  /\ data' = CASE OpOf(a).then = "patch"   -> [data EXCEPT !.acts = @ \union {a}]
               [] OpOf(a).then = "replace" -> [data EXCEPT !.acts = PartOf(a, acts[a].snap)]
               [] OpOf(a).then = "note"    -> data
  /\ Settle(a, "done") /\ slots' = Freed(a, FALSE)
  /\ open' = (OpOf(a).leaves = "no")
  /\ UNCHANGED <<page, key, notice, loads, stored, had, contested, faults>>

\* Mutant of Undone: every switch goes back to the copy its handler closed over.
UndoneToCopy(a) == IF OpOf(a).paints = "no" THEN data.acts ELSE PartOf(a, acts[a].before)

\* A switch that moved at the click moves back: to the opposite of what it asked for,
\* or with the whole list to the copy its handler closed over.
Undone(a) ==
  CASE OpOf(a).paints = "no"   -> data.acts
    [] OpOf(a).paints = "item" -> Turned(data.acts, a, ~Wants(a))
    [] OpOf(a).paints = "list" -> PartOf(a, acts[a].before)

Fail(a) ==
  /\ acts[a].stage = "failing"
  /\ notice' = [notice EXCEPT ![OpOf(a).error] = a]
  /\ data' = [data EXCEPT !.acts = Undone(a)]
  /\ Settle(a, "undone") /\ slots' = Freed(a, TRUE)
  /\ open' = (OpOf(a).leaves # "always")
  /\ UNCHANGED <<page, key, loads, stored, had, contested, faults>>

LoadStep(l) == LoadServed(l) \/ LoadAnswered(l)
ActStep(a)  == CarryOut(a) \/ AnswerAwaiting(a) \/ AnswerLoading(a) \/ AnswerInPlace(a) \/ Fail(a)

ScreenNext ==
  /\ open
  /\ \/ Retry \/ Poll
     \/ \E k \in {1, 2} : Choose(k)
     \/ \E l \in 1 .. MaxLoads : LoadStep(l) \/ LoadFails(l)
     \/ \E a \in Clicks : ActStep(a) \/ Refuse(a) \/ LoseAnswer(a)
     \/ \E a \in Clicks, o \in DOMAIN Pages[page].ops, line \in Lines : Click(a, o, line)

ScreenSpec == ScreenInit /\ [][ScreenNext]_screenVars

-----------------------------------------------------------------------------
(* Which pages a property is about: what can be read off their rows.          *)

\* An operation that takes the page's error away loads again or shows one of its own.
RenewsError ==
  \A o \in View.forms : LoadRow.loads /\ Op(o).hush /\ Op(o).error = "page" => Op(o).then = "load"
\* A slot that closes every control using it for as long as it is marked.
Exclusive(s) == \A o \in DOMAIN Pages[page].ops :
                   Op(o).slot = s => Op(o).mark = "on" /\ o \notin View.bare

\* A request is out that asks for the switch x to be on.
AskedFor(x) == \E a \in Clicks : UnderWay(a) /\ IsSwitch(acts[a].op) /\ x = Mine(a) /\ Wants(a)

\* Nothing is displayed as done, and no switch as on, that the server never had and is
\* not being asked for, except a switch that moved again while its request, or on a
\* page that copies its list another switch's request, was out.
ClaimsOnlyStored ==
  open => \A x \in data.acts \ contested : x \in had \/ AskedFor(x)

\* What is behind a control that closes is out once at a time: no second submit, and no
\* other operation of the same slot, gets in before the first one and its reload end.
SubmitsOnce ==
  \A a, b \in Clicks :
    a # b /\ UnderWay(a) /\ UnderWay(b) /\ OpOf(a).slot = OpOf(b).slot => ~Exclusive(OpOf(a).slot)

\* When nothing is out the data is that of the filter chosen last, where the effect
\* has a cleanup.
ShowsWhatWasAsked == open /\ LoadRow.drops /\ Quiet /\ data.loaded => data.key = key

\* A page at rest is usable: its controls are open, and what could not be loaded is
\* reported, with the button that asks for it again, rather than shown as loading.
NeverStuck ==
  open /\ Quiet =>
    /\ \A s \in DOMAIN slots :
         slots[s] = Free \/ \E a \in Clicks : acts[a].stage = "done" /\ OpOf(a).frees = "failure"
    /\ RenewsError /\ ~data.loaded /\ ~LoadRow.mute => notice.page # 0

\* app/account/preferences/page.tsx:133-134: a switch that fails is put back "rather
\* than leaving the screen claiming a preference the server never stored".  The code
\* refutes it: two switches that move together both fail, and the second one puts the
\* first one's value back; on the wishlist, one switch moved to and fro ends up on.
NeverClaimsUnstored ==
  open => \A x \in data.acts : x \in had \/ AskedFor(x)

\* apps/driver/app/task/[id]/page.tsx:95: accept, decline, regenerate-OTP and
\* return-to-hub "fail loudly with no signal, exactly as they always have".
CallsFailLoudly ==
  [][ \A a \in Clicks : acts[a].stage = "failing" /\ acts'[a].stage = "undone"
        => open' /\ notice'[OpOf(a).error] = a ]_screenVars
=============================================================================
