------------------------------ MODULE Context ------------------------------
(***************************************************************************)
(* What an actor's Context owns beside its mailbox (context.rs): the       *)
(* tasks that started() registers - interval, interval_with, delayed_send  *)
(* - and the children.  Tasks are spawned by themselves: each sleeps,      *)
(* upgrades its weak sender and sends to the actor's own mailbox, until    *)
(* that fails or the Context that is dropped with the loop aborts it.  The *)
(* event loop is reduced to what the Context sees of it (see Actor), the   *)
(* children to what their parent has a part in.                            *)
(***************************************************************************)
EXTENDS Integers, Sequences, FiniteSets

CONSTANTS Bounded, Buffer,  \* of the mailbox
          Plans,            \* what started() does, and how often it may run
          MaxStarts,        \* bound: how often it may run at most
          MaxQueue          \* bound: what interval, stop and restart may queue

TaskKinds == {"interval", "interval_with", "delayed"}
PossiblePlans == [tasks : SUBSET TaskKinds, child : BOOLEAN, starts : 1 .. MaxStarts]

ASSUME BoundedAssumption == Bounded \in BOOLEAN /\ Buffer \in Nat
ASSUME BoundsAssumption == MaxStarts \in Nat \ {0} /\ MaxQueue \in Nat
ASSUME PlansAssumption == Plans \subseteq PossiblePlans

Starts == 1 .. MaxStarts

\* A restart keeps the Context, and started() registers everything once more.
Tasks == TaskKinds \X Starts

\* What comes into the mailbox from elsewhere.
Stop == <<"stop", 0>>
Restart == <<"restart", 0>>
Contents == Tasks \cup {Stop, Restart}
What(m) == m[1]

VARIABLES plan,     \* fixed when the actor is built
          pc,       \* where the event loop is
          exit,     \* none, ok, or failed: an error, a timeout or a panic
          starts,   \* how often started() was called
          queue, parked, rx,  \* the mailbox of Mpsc
          refs,     \* somebody outside has a strong reference
          at,       \* where each task is
          listed,   \* the tasks whose AbortHandle the Context has
          aborted,  \* those that were told to abort
          ctx,      \* the Context: held by the loop's future, or dropped
          child,    \* the child that each start may make
          others    \* the children that somebody else refers to as well

loopVars == <<pc, exit, starts>>
mailboxVars == <<queue, parked, rx>>
taskVars == <<at, listed, aborted>>
childVars == <<child, others>>
vars == <<plan, loopVars, mailboxVars, refs, taskVars, ctx, childVars>>

INSTANCE Mpsc WITH Messages <- Contents

PcStates == {"starting", "idle", "handling", "refreshing", "stopping", "left"}

ContextInit ==
    /\ plan \in Plans
    /\ pc = "starting" /\ exit = "none" /\ starts = 1
    /\ MpscInit
    /\ refs = TRUE
    /\ at = [t \in Tasks |-> "none"] /\ listed = {} /\ aborted = {}
    /\ ctx = "held"
    /\ child = [n \in Starts |-> "none"] /\ others = {}

Live == {t \in Tasks : at[t] \in {"sleeping", "sending"}}

\* Broken variant: a task that sleeps holds a Sender, not a WeakSender.
HeldBySleepers == refs \/ Live # {}

\* A task that waits for room has upgraded its weak sender (weak_sender.rs:36).
Held == refs \/ \E t \in Tasks : at[t] = "sending"

-----------------------------------------------------------------------------
(* started(), and the rest of the event loop *)

\* interval, interval_with and delayed_send: spawn_task.
Register(k) ==
    /\ pc = "starting"
    /\ k \in plan.tasks /\ at[<<k, starts>>] = "none"
    /\ at' = [at EXCEPT ![<<k, starts>>] = "sleeping"]
    /\ listed' = listed \cup {<<k, starts>>}
    /\ UNCHANGED <<plan, loopVars, mailboxVars, refs, aborted, ctx, childVars>>

\* create_child keeps the only reference to the child, add_child may not.
AddChild(shared) ==
    /\ pc = "starting"
    /\ plan.child /\ child[starts] = "none"
    /\ child' = [child EXCEPT ![starts] = "running"]
    /\ others' = IF shared THEN others \cup {starts} ELSE others
    /\ UNCHANGED <<plan, loopVars, mailboxVars, refs, taskVars, ctx>>

StartedOk ==
    /\ pc = "starting"
    /\ \A k \in plan.tasks : at[<<k, starts>>] # "none"
    /\ plan.child => child[starts] # "none"
    /\ pc' = "idle"
    /\ UNCHANGED <<plan, exit, starts, mailboxVars, refs, taskVars, ctx, childVars>>

\* Broken variant: nobody waiting is told that there is room again.
TakeWithoutUnparking(m, next) ==
    /\ pc = "idle"
    /\ PopWithoutUnparking /\ m = queue[1]
    /\ pc' = next
    /\ UNCHANGED <<plan, exit, starts, refs, taskVars, ctx, childVars>>

Take(m, next) ==
    /\ pc = "idle"
    /\ Pop /\ m = queue[1]
    /\ pc' = next
    /\ UNCHANGED <<plan, exit, starts, refs, taskVars, ctx, childVars>>

TakeNext ==
    \/ Take(Stop, "stopping") \/ Take(Restart, "refreshing")
    \/ \E t \in Tasks : Take(t, "handling")

MailboxEnds ==
    /\ pc = "idle"
    /\ ~ Held
    /\ End
    /\ pc' = "stopping"
    /\ UNCHANGED <<plan, exit, starts, refs, taskVars, ctx, childVars>>

Finish ==
    /\ pc = "handling"
    /\ pc' = "idle"
    /\ UNCHANGED <<plan, exit, starts, mailboxVars, refs, taskVars, ctx, childVars>>

\* Broken variant: the tasks of the old actor are forgotten by its successor.
RefreshForgettingTasks ==
    /\ pc = "refreshing" /\ starts < MaxStarts
    /\ pc' = "starting" /\ starts' = starts + 1
    /\ listed' = {}
    /\ UNCHANGED <<plan, exit, mailboxVars, refs, at, aborted, ctx, childVars>>

\* stopped(), and started() again with the same Context.
Refresh ==
    /\ pc = "refreshing" /\ starts < MaxStarts
    /\ pc' = "starting" /\ starts' = starts + 1
    /\ UNCHANGED <<plan, exit, mailboxVars, refs, taskVars, ctx, childVars>>

Stopped ==
    /\ pc = "stopping"
    /\ pc' = "left" /\ exit' = "ok"
    /\ UNCHANGED <<plan, starts, mailboxVars, refs, taskVars, ctx, childVars>>

\* started() returns an error, a handler times out or something panics.
Fail ==
    /\ pc \in {"starting", "handling", "refreshing", "stopping"}
    /\ pc' = "left" /\ exit' = "failed"
    /\ UNCHANGED <<plan, starts, mailboxVars, refs, taskVars, ctx, childVars>>

\* Broken variants: tasks are aborted, or children let go, in an orderly stop only.
DropContextAbortingIfOk ==
    /\ pc = "left" /\ ctx = "held"
    /\ ctx' = "dropped"
    /\ listed' = {}
    /\ aborted' = IF exit = "ok" THEN aborted \cup listed ELSE aborted
    /\ UNCHANGED <<plan, loopVars, mailboxVars, refs, at, childVars>>

DropContextIfOk ==
    /\ pc = "left" /\ ctx = "held" /\ exit = "ok"
    /\ ctx' = "dropped"
    /\ listed' = {} /\ aborted' = aborted \cup listed
    /\ UNCHANGED <<plan, loopVars, mailboxVars, refs, at, childVars>>

\* The Context and the receiver are captured by the loop's future one by one.
DropContext ==
    /\ pc = "left" /\ ctx = "held"
    /\ ctx' = "dropped"
    /\ listed' = {} /\ aborted' = aborted \cup listed
    /\ UNCHANGED <<plan, loopVars, mailboxVars, refs, at, childVars>>

DropMailbox ==
    /\ pc = "left"
    /\ DropRx
    /\ UNCHANGED <<plan, loopVars, refs, taskVars, ctx, childVars>>

LoopStep ==
    \/ \E k \in TaskKinds : Register(k)
    \/ \E shared \in BOOLEAN : AddChild(shared)
    \/ StartedOk \/ TakeNext \/ MailboxEnds \/ Finish \/ Refresh \/ Stopped
    \/ DropContext \/ DropMailbox

-----------------------------------------------------------------------------
(* The tasks.  A poll that overlaps with an abort has the effect of one      *)
(* before it; a task's weak sender is upgraded for one poll unless it has to *)
(* wait.                                                                     *)

\* Broken variant: try_send is polled once and not awaited.
SendWithoutWaiting(t, then) ==
    Push(t) /\ at' = [at EXCEPT ![t] = then]

\* try_send: pushed at once, then waiting if that was above the buffer.
SendAndWait(t, then) ==
    /\ Push(t)
    /\ at' = [at EXCEPT ![t] = IF MustPark(Len(queue) + 1) THEN "sending" ELSE then]

\* The duration has passed.
Wake(t) ==
    /\ at[t] = "sleeping" /\ t \notin aborted
    /\ \/ /\ ~ Held \/ rx # "open"
          /\ at' = [at EXCEPT ![t] = "done"]
          /\ UNCHANGED mailboxVars
       \/ /\ Held /\ What(t) = "interval"
          /\ Len(queue) < MaxQueue
          /\ Push(t)
          /\ UNCHANGED at
       \/ Held /\ What(t) = "interval_with" /\ SendAndWait(t, "sleeping")
       \/ Held /\ What(t) = "delayed" /\ SendAndWait(t, "done")
    /\ UNCHANGED <<plan, loopVars, refs, listed, aborted, ctx, childVars>>

SendReturns(t) ==
    /\ at[t] = "sending" /\ t \notin aborted
    /\ ~ In(t, parked)
    /\ at' = [at EXCEPT ![t] = IF What(t) = "delayed" THEN "done" ELSE "sleeping"]
    /\ UNCHANGED <<plan, loopVars, mailboxVars, refs, listed, aborted, ctx, childVars>>

\* Abortable is polled, and drops what the task held.
Abort(t) ==
    /\ t \in aborted /\ t \in Live
    /\ at' = [at EXCEPT ![t] = "done"]
    /\ UNCHANGED <<plan, loopVars, mailboxVars, refs, listed, aborted, ctx, childVars>>

-----------------------------------------------------------------------------
(* The outside, and the children *)

PendingRestarts == Cardinality({i \in 1 .. Len(queue) : queue[i] = Restart})

\* stop and restart, of an Addr or of the Context within a hook or a handler.
Ask(m) ==
    /\ refs \/ (Held /\ pc \in {"starting", "handling", "refreshing"})
    /\ Len(queue) < MaxQueue
    /\ m = Restart => starts + PendingRestarts
                        + (IF pc = "refreshing" THEN 1 ELSE 0) < plan.starts
    /\ Push(m)
    /\ UNCHANGED <<plan, loopVars, refs, taskVars, ctx, childVars>>

ReleaseRefs ==
    /\ refs
    /\ refs' = FALSE
    /\ UNCHANGED <<plan, loopVars, mailboxVars, taskVars, ctx, childVars>>

ReleaseChild(n) ==
    /\ n \in others
    /\ others' = others \ {n}
    /\ UNCHANGED <<plan, loopVars, mailboxVars, refs, taskVars, ctx, child>>

ChildEnds(n) ==
    /\ child[n] = "running"
    /\ child' = [child EXCEPT ![n] = "ended"]
    /\ UNCHANGED <<plan, loopVars, mailboxVars, refs, taskVars, ctx, others>>

\* Nobody refers to it any more.
ChildStarves(n) == ctx = "dropped" /\ n \notin others /\ ChildEnds(n)

ContextNext ==
    \/ LoopStep \/ Fail
    \/ \E t \in Tasks : Wake(t) \/ SendReturns(t) \/ Abort(t)
    \/ Ask(Stop) \/ Ask(Restart)
    \/ ReleaseRefs
    \/ \E n \in Starts : ReleaseChild(n) \/ ChildEnds(n)

ContextSpec == ContextInit /\ [][ContextNext]_vars

\* Hooks and handlers return, tasks that are woken are polled, and a child that
\* nobody refers to ends (Actor: LastReferenceEnds).  No timer has to go off.
ContextFairness ==
    /\ WF_vars(LoopStep)
    /\ \A t \in Tasks : WF_vars(SendReturns(t)) /\ WF_vars(Abort(t))
    /\ \A n \in Starts : WF_vars(ChildStarves(n))

FairContextSpec == ContextSpec /\ ContextFairness

-----------------------------------------------------------------------------
(* Correctness *)

ContextTypeOK ==
    /\ plan \in Plans /\ pc \in PcStates /\ exit \in {"none", "ok", "failed"}
    /\ starts \in Starts
    /\ queue \in Seq(Contents)
    /\ parked \in Seq(Contents)
    /\ rx \in {"open", "ended", "dropped"} /\ refs \in BOOLEAN
    /\ rx # "open" => queue = <<>>
    /\ Len(parked) = IF MustPark(Len(queue)) THEN Len(queue) - Buffer ELSE 0
    /\ at \in [Tasks -> {"none", "sleeping", "sending", "done"}]
    /\ listed \subseteq Tasks /\ aborted \subseteq Tasks
    /\ ctx \in {"held", "dropped"}
    /\ child \in [Starts -> {"none", "running", "ended"}] /\ others \subseteq Starts

\* A task that lives can be reached: the Context has its handle, or has told it
\* to abort - through restarts, a started() that fails half-way and panics
\* (context.rs:65-71, 190-195).
NoTaskForgotten ==
    /\ Live \subseteq listed \cup aborted
    /\ ctx = "dropped" => listed = {}

\* However slow the actor and whatever its other tasks and its addresses queue,
\* an interval_with has at most one tick more in the mailbox than the mailbox
\* has room for (context.rs:224-240, and the test at 400-428).
IntervalWithWaits ==
    Bounded => \A t \in Tasks :
        What(t) = "interval_with" =>
            Cardinality({i \in 1 .. Len(queue) : queue[i] = t}) <= Buffer + 1

Ended == pc = "left" /\ ctx = "dropped" /\ rx = "dropped"

\* No task outlives its actor, however the actor ended (context.rs:65-71).
TasksEnd == pc = "left" ~> Ended /\ Live = {}

\* A child that only the Context refers to ends with its parent, the ones of
\* earlier starts included (context.rs:87-104).
ChildrenEnd ==
    \A n \in Starts : (pc = "left" /\ n \notin others) ~> child[n] # "running"

Waiters == {t \in Live : What(t) = "interval_with"}

\* An actor with one interval_with ends when its last Addr is dropped, intervals
\* and delayed messages notwithstanding (addr.rs:63-66).
LastReferenceEnds ==
    ~ refs ~> Ended \/ Cardinality(Waiters) > 1

\* "The Actor will be stopped when the last Addrs are dropped" (addr.rs:65).
LastAddrEndsActor == ~ refs ~> Ended

=============================================================================
