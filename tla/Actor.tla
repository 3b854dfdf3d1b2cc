-------------------------------- MODULE Actor --------------------------------
(***************************************************************************)
(* An actor and the references that talk to it: the event loops of         *)
(* Environment::create_loop, with its restart strategies, and of           *)
(* create_loop_on_stream (environment.rs, restart_strategy.rs) over the    *)
(* mailbox of Channel, and the operations of Addr, Sender, Caller, their   *)
(* weak forms and Context (addr.rs, addr/ and context.rs).  A message of   *)
(* Channel is here a request: a task that runs a handler, or a request to  *)
(* stop or to restart.                                                     *)
(***************************************************************************)
EXTENDS Channel, Builder

CONSTANTS Configs,     \* the builder's choices that are explored
          Operations,  \* the operations that clients use, among Ops
          MayCrash,    \* handlers and hooks may panic
          SelfCalls,   \* a handler may await a request to its own actor:
                       \* of the actors that time out, or do not, or of both
          MaxItems,    \* items that the stream of a stream actor yields
          NoRequest

ASSUME ConfigAssumption == Configs \subseteq Buildable
ASSUME ItemsAssumption == MaxItems \in Nat

\* send: Addr::send, Sender::send, WeakSender::try_send; force: force_send
\* and try_force_send; call: Addr::call and ping; ccall: Caller::call and
\* WeakCaller::try_call; stop and restart: of an Addr or of the Context.
CallOps == {"call", "ccall"}
TaskOps == {"send", "force"} \cup CallOps
Awaited == {"send"} \cup CallOps
Ops == TaskOps \cup {"stop", "restart"}

ASSUME OperationsAssumption == Operations \subseteq Ops
ASSUME FlagAssumption == MayCrash \in BOOLEAN /\ SelfCalls \subseteq BOOLEAN
ASSUME NoRequestAssumption == NoRequest \notin Messages

VARIABLES config,      \* fixed when the actor is built
          pc,          \* where the event loop is
          cur,         \* the request the loop is working on
          op,          \* what each request is
          call,        \* for requests with a response: its oneshot channel
          blockedOn,   \* the request the running handler itself awaits
          done,        \* history: requests whose handler ran to completion
          state,       \* those whose effects are in the actor's value
          hooks,       \* history: how often started() succeeded, how often
                       \* stopped() and finished() ran, and how many items
                       \* of the stream were handled
          source,      \* the stream: "open", or "over" once it yields no more
          running,     \* the oneshot behind Addr's future: StopNotifier
          exit         \* how the loop's future ended

loopVars == <<pc, cur, blockedOn, done, state, hooks, running, exit>>
actorVars == <<chanVars, config, source, loopVars, op, call>>

\* A Caller holds or upgrades tx_fn only, and a Context upgrades force_tx_fn
\* only, to stop or to restart; everything else needs both.
Needs(k) == CASE k = "ccall" -> {"tx"}
              [] k \in {"stop", "restart"} -> {"force"}
              [] k \in {"send", "force", "call"} -> Handles

\* waiting: the responder is queued or with the handler; answered, dropped:
\* what happened to it; ok, canceled: what the caller got; given_up: the
\* caller dropped its future.
CallStates == {"none", "waiting", "answered", "dropped", "ok", "canceled",
               "given_up"}
Unresolved == {"waiting", "answered", "dropped"}

PcStates == {"starting", "idle", "handling", "refreshing", "restarting",
             "streaming", "finishing", "stopping", "unwinding"}

\* The loop has been left: the hooks, the notifier and the drop remain.
Leaving == {"finishing", "stopping", "unwinding"}

ActorInit ==
    /\ ChannelInit
    /\ config \in Configs
    /\ pc = "starting" /\ cur = NoRequest /\ blockedOn = NoRequest
    /\ op = [r \in Messages |-> "none"]
    /\ call = [r \in Messages |-> "none"]
    /\ done = {} /\ state = {}
    /\ hooks = [started |-> 0, stopped |-> 0, finished |-> 0, items |-> 0]
    /\ source = "open"
    /\ running = "pending" /\ exit = "none"

HookCounts == [started : Nat, stopped : Nat, finished : Nat, items : Nat]

Ended == pc = "unwinding" /\ rx = "dropped" /\ running # "pending"

-----------------------------------------------------------------------------
(* The event loop *)

\* The loop's future returns without notifying; its fields are still to drop.
Leave(how) ==
    /\ pc' = "unwinding"
    /\ exit' = how
    /\ cur' = NoRequest
    /\ blockedOn' = NoRequest

\* What becomes of a response when its responder, or its receiver, is dropped.
Dropped(r) == IF call[r] = "waiting" THEN "dropped" ELSE call[r]
Forgotten(r) == IF call[r] \in Unresolved THEN "given_up" ELSE call[r]

AbandonBlocked ==
    IF blockedOn \in Messages /\ fut[blockedOn] = "flushing"
    THEN Abandon(blockedOn)
    ELSE UNCHANGED chanVars

\* Broken variant: the response is still waited for after the handler is gone.
DropHandlerSilently ==
    /\ call' = [r \in Messages |-> IF r = blockedOn THEN Forgotten(r) ELSE call[r]]
    /\ AbandonBlocked

\* The handler's future is dropped where it is: its responder goes with it,
\* and so does the operation on itself that it was awaiting.
DropHandler ==
    /\ call' = [r \in Messages |->
                  IF r = cur THEN Dropped(r)
                  ELSE IF r = blockedOn THEN Forgotten(r) ELSE call[r]]
    /\ AbandonBlocked

\* actor.started(ctx).await? at the start of the loop and in refresh.
StartedOk ==
    /\ pc \in {"starting", "restarting"}
    /\ pc' = "idle"
    /\ cur' = NoRequest
    /\ hooks' = [hooks EXCEPT !.started = @ + 1]
    /\ UNCHANGED <<chanVars, config, source, op, call, blockedOn, done, state,
                   running, exit>>

StartedErr ==
    /\ pc \in {"starting", "restarting"}
    /\ Leave("error")
    /\ UNCHANGED <<chanVars, config, source, op, call, done, state, hooks, running>>

Next1(r) == pc = "idle" /\ Receive /\ r = queue[1]

TakeTask(r) ==
    /\ Next1(r) /\ op[r] \in TaskOps
    /\ pc' = "handling" /\ cur' = r
    /\ UNCHANGED <<config, source, op, call, blockedOn, done, state, hooks,
                   running, exit>>

\* Broken variants: the loop goes on after a stop; it notifies on the request.
TakeStopAndGoOn(r) ==
    /\ Next1(r) /\ op[r] = "stop"
    /\ UNCHANGED <<config, source, op, call, loopVars>>

\* Out of the loop: a stream actor runs finished() before stopped().
LeaveLoop == pc' = IF config.onStream THEN "finishing" ELSE "stopping"

TakeStopAndNotify(r) ==
    /\ Next1(r) /\ op[r] = "stop"
    /\ LeaveLoop
    /\ running' = "sent"
    /\ UNCHANGED <<config, source, op, call, cur, blockedOn, done, state, hooks, exit>>

TakeStop(r) ==
    /\ Next1(r) /\ op[r] = "stop"
    /\ LeaveLoop
    /\ UNCHANGED <<config, source, op, call, cur, blockedOn, done, state, hooks,
                   running, exit>>

\* R::refresh of a NonRestartable actor does nothing.
TakeRestart(r) ==
    /\ ~ config.onStream
    /\ Next1(r) /\ op[r] = "restart"
    /\ IF config.strategy = "NonRestartable"
       THEN UNCHANGED <<pc, cur>>
       ELSE pc' = "refreshing" /\ cur' = r
    /\ UNCHANGED <<config, source, op, call, blockedOn, done, state, hooks,
                   running, exit>>

\* panic!("restart message in streamhandling actor")
RestartPanics(r) ==
    /\ config.onStream
    /\ Next1(r) /\ op[r] = "restart"
    /\ Leave("panicked")
    /\ UNCHANGED <<config, source, op, call, done, state, hooks, running>>

\* The mailbox has ended: a stream that is not over is not looked at again.
StreamOver ==
    /\ pc = "idle"
    /\ EndOfStream
    /\ LeaveLoop
    /\ UNCHANGED <<config, source, op, call, cur, blockedOn, done, state, hooks,
                   running, exit>>

\* select! polls the mailbox and the stream in a random order: an item may be
\* taken with requests waiting, and the other way round.
TakeItem ==
    /\ pc = "idle" /\ config.onStream
    /\ source = "open" /\ hooks.items < MaxItems
    /\ pc' = "streaming"
    /\ UNCHANGED <<chanVars, config, source, op, call, cur, blockedOn, done, state,
                   hooks, running, exit>>

FinishItem ==
    /\ pc = "streaming"
    /\ blockedOn = NoRequest
    /\ pc' = "idle"
    /\ hooks' = [hooks EXCEPT !.items = @ + 1]
    /\ UNCHANGED <<chanVars, config, source, op, call, cur, blockedOn, done, state,
                   running, exit>>

\* Broken variant: the branch of a stream that is over is skipped.
SourceOverIgnored ==
    /\ pc = "idle" /\ config.onStream
    /\ source = "over"
    /\ UNCHANGED actorVars

\* The stream is done, so the actor is, whatever its mailbox still holds.
SourceOver ==
    /\ pc = "idle" /\ config.onStream
    /\ source = "over"
    /\ LeaveLoop
    /\ UNCHANGED <<chanVars, config, source, op, call, cur, blockedOn, done, state,
                   hooks, running, exit>>

Finished ==
    /\ pc = "finishing"
    /\ pc' = "stopping"
    /\ hooks' = [hooks EXCEPT !.finished = @ + 1]
    /\ UNCHANGED <<chanVars, config, source, op, call, cur, blockedOn, done, state,
                   running, exit>>

Finish ==
    /\ pc = "handling"
    /\ blockedOn = NoRequest
    /\ pc' = "idle"
    /\ cur' = NoRequest
    /\ done' = done \cup {cur}
    /\ state' = state \cup {cur}
    /\ call' = [call EXCEPT ![cur] = IF @ = "waiting" THEN "answered" ELSE @]
    /\ UNCHANGED <<chanVars, config, source, op, blockedOn, hooks, running, exit>>

\* Broken variant: the handler runs on in the background after its timeout.
TimeOutDetaches ==
    /\ pc = "handling"
    /\ TimesOut(config)
    /\ DropHandler
    /\ pc' = "idle" /\ cur' = NoRequest /\ blockedOn' = NoRequest
    /\ done' = done \cup {cur} /\ state' = state \cup {cur}
    /\ UNCHANGED <<config, source, op, hooks, running, exit>>

TimeOut ==
    /\ pc = "handling"
    /\ TimesOut(config)
    /\ DropHandler
    /\ IF config.failOnTimeout
       THEN Leave("error")
       ELSE /\ pc' = "idle" /\ cur' = NoRequest /\ blockedOn' = NoRequest
            /\ exit' = exit
    /\ UNCHANGED <<config, source, op, done, state, hooks, running>>

\* Broken variants: refresh forgets stopped(); it always recreates the actor.
RefreshWithoutHook ==
    /\ pc = "refreshing"
    /\ pc' = "restarting"
    /\ state' = IF config.strategy = "RecreateFromDefault" THEN {} ELSE state
    /\ UNCHANGED <<chanVars, config, source, op, call, cur, blockedOn, done, hooks,
                   running, exit>>

RefreshAlwaysRecreates ==
    /\ pc = "refreshing"
    /\ pc' = "restarting"
    /\ hooks' = [hooks EXCEPT !.stopped = @ + 1]
    /\ state' = {}
    /\ UNCHANGED <<chanVars, config, source, op, call, cur, blockedOn, done, running, exit>>

\* The first half of refresh: stopped(), and A::default() if recreating.
RefreshStopped ==
    /\ pc = "refreshing"
    /\ pc' = "restarting"
    /\ hooks' = [hooks EXCEPT !.stopped = @ + 1]
    /\ state' = IF config.strategy = "RecreateFromDefault" THEN {} ELSE state
    /\ UNCHANGED <<chanVars, config, source, op, call, cur, blockedOn, done, running, exit>>

\* stopped(), notify() and Ok(actor): nothing is awaited in between.
Stopped ==
    /\ pc = "stopping"
    /\ hooks' = [hooks EXCEPT !.stopped = @ + 1]
    /\ running' = "sent"
    /\ Leave("ok")
    /\ UNCHANGED <<chanVars, config, source, op, call, done, state>>

\* A panic in a handler or in a hook.
Crash ==
    /\ MayCrash
    /\ pc \in PcStates \ {"idle", "unwinding"}
    /\ DropHandler
    /\ Leave("panicked")
    /\ UNCHANGED <<config, source, op, done, state, hooks, running>>

\* What is left of the future is dropped: the receiver with the messages and
\* the responders in it, and the notifier.
DropMailbox ==
    /\ pc = "unwinding"
    /\ DropReceiver
    /\ call' = [r \in Messages |-> IF In(r, queue) THEN Dropped(r) ELSE call[r]]
    /\ UNCHANGED <<config, source, op, loopVars>>

DropNotifier ==
    /\ pc = "unwinding"
    /\ running = "pending"
    /\ running' = "canceled"
    /\ UNCHANGED <<chanVars, config, source, op, call, pc, cur, blockedOn, done, state,
                   hooks, exit>>

LoopStep ==
    \/ StartedOk
    \/ \E r \in Messages :
        TakeTask(r) \/ TakeStop(r) \/ TakeRestart(r) \/ RestartPanics(r)
    \/ StreamOver
    \/ SourceOver
    \/ Finish
    \/ FinishItem
    \/ Finished
    \/ TimeOut
    \/ RefreshStopped
    \/ Stopped
    \/ DropMailbox
    \/ DropNotifier

\* What the stream does by itself: nobody obliges it to yield or to end.
SourceEnds ==
    /\ config.onStream
    /\ source = "open"
    /\ source' = "over"
    /\ UNCHANGED <<chanVars, config, op, call, loopVars>>

StreamStep == TakeItem \/ SourceEnds

-----------------------------------------------------------------------------
(* The references *)

Enqueue(r, k) ==
    \/ Needs(k) \subseteq handles /\ k \in {"send", "ccall"} /\ Send(r)
    \/ Needs(k) \subseteq handles /\ k \notin {"send", "ccall"} /\ ForceSend(r)
    \/ ~ Needs(k) \subseteq handles /\ Refuse(r)

Pushed(r) == fut'[r] \in {"flushing", "forced"}

Issue(r, k) ==
    /\ op[r] = "none"
    /\ op' = [op EXCEPT ![r] = k]
    /\ Enqueue(r, k)
    /\ call' = [call EXCEPT ![r] = IF k \in CallOps /\ Pushed(r) THEN "waiting"
                                   ELSE @]

ClientIssue(r, k) ==
    /\ Issue(r, k)
    /\ UNCHANGED <<config, source, loopVars>>

\* A handler awaits a request to the actor that is running it.
HandlerIssue(r, k) ==
    /\ TimesOut(config) \in SelfCalls
    /\ pc \in {"handling", "streaming"} /\ blockedOn = NoRequest
    /\ Issue(r, k)
    /\ Pushed(r)
    /\ blockedOn' = r
    /\ UNCHANGED <<config, source, pc, cur, done, state, hooks, running, exit>>

Unblock(r) == blockedOn' = IF blockedOn = r THEN NoRequest ELSE blockedOn

\* The send of a request has gone through; a Caller goes on to the response.
SendReturns(r) ==
    /\ FlushDone(r)
    /\ IF op[r] = "ccall" THEN UNCHANGED blockedOn ELSE Unblock(r)
    /\ UNCHANGED <<config, source, op, call, pc, cur, done, state, hooks,
                   running, exit>>

\* Broken variant: a caller that loses patience is told Canceled.
CallReturnsEarly(r) ==
    /\ fut[r] # "flushing"
    /\ call[r] \in Unresolved
    /\ call' = [call EXCEPT ![r] = IF @ = "answered" THEN "ok" ELSE "canceled"]
    /\ Unblock(r)
    /\ UNCHANGED <<chanVars, config, source, op, pc, cur, done, state, hooks,
                   running, exit>>

CallReturns(r) ==
    /\ fut[r] # "flushing"
    /\ call[r] \in {"answered", "dropped"}
    /\ call' = [call EXCEPT ![r] = IF @ = "answered" THEN "ok" ELSE "canceled"]
    /\ Unblock(r)
    /\ UNCHANGED <<chanVars, config, source, op, pc, cur, done, state, hooks,
                   running, exit>>

\* A client drops the future of a send or of a call.
GiveUp(r) ==
    /\ r # blockedOn
    /\ \/ Abandon(r)
       \/ fut[r] # "flushing" /\ call[r] \in Unresolved /\ UNCHANGED chanVars
    /\ call' = [call EXCEPT ![r] = Forgotten(r)]
    /\ UNCHANGED <<config, source, op, loopVars>>

\* A call borrows the reference it is made on for as long as it is awaited.
Borrowed(h) == \E r \in Messages : call[r] \in Unresolved /\ h \in Needs(op[r])

ReleaseHandle(h) ==
    /\ ~ Borrowed(h)
    /\ DropHandle(h)
    /\ UNCHANGED <<config, source, op, call, loopVars>>

ClientStep ==
    \/ \E r \in Messages :
        \/ \E k \in Operations : ClientIssue(r, k)
        \/ \E k \in Operations \cap Awaited : HandlerIssue(r, k)
        \/ SendReturns(r)
        \/ CallReturns(r)
        \/ GiveUp(r)
    \/ \E h \in Handles : ReleaseHandle(h)

ActorNext == LoopStep \/ StreamStep \/ StartedErr \/ Crash \/ ClientStep

ActorSpec == ActorInit /\ [][ActorNext]_actorVars

\* The executor polls what was woken: the loop takes its next step, unless a
\* handler is blocked without a timeout; a send or a call that can return
\* does.  Hooks and handlers that do not await themselves terminate.  Neither
\* branch of select! needs fairness of its own: the requests and the items
\* are finitely many, so a branch that is ready ends up alone.
ActorFairness ==
    /\ WF_actorVars(LoopStep)
    /\ \A r \in Messages : WF_actorVars(SendReturns(r)) /\ WF_actorVars(CallReturns(r))

FairActorSpec == ActorSpec /\ ActorFairness

-----------------------------------------------------------------------------
(* Correctness *)

ActorTypeOK ==
    /\ ChannelTypeOK
    /\ config \in Configs
    /\ pc \in PcStates
    /\ cur \in Messages \cup {NoRequest}
    /\ blockedOn \in Messages \cup {NoRequest}
    /\ op \in [Messages -> Ops \cup {"none"}]
    /\ call \in [Messages -> CallStates]
    /\ done \subseteq Messages
    /\ state \subseteq Messages
    /\ hooks \in HookCounts
    /\ source \in {"open", "over"}
    /\ running \in {"pending", "sent", "canceled"}
    /\ exit \in {"none", "ok", "error", "panicked"}

\* Whoever awaits a response is owed one: the responder is in the mailbox or
\* with the handler that runs, never lost on the way - through timeouts,
\* panics, restarts, a stop with requests behind it, and the time between
\* notify() and the drop of the receiver (addr.rs:105-132, environment.rs).
NoOrphanedCall ==
    \A r \in Messages :
        call[r] = "waiting" => In(r, queue) \/ (pc = "handling" /\ cur = r)

\* An answer means that the handler ran to completion, and Canceled that it
\* did not and will not: a caller may retry after Canceled (addr.rs:105-119,
\* caller.rs:39-53).
RepliesAreTrue ==
    \A r \in Messages :
        /\ call[r] \in {"answered", "ok"} => r \in done
        /\ call[r] \in {"dropped", "canceled"} =>
               /\ r \notin done
               /\ ~ In(r, queue)
               /\ cur # r

Serving == {"idle", "handling", "streaming", "refreshing"}

\* started() and stopped() alternate over every restart, finished() comes once,
\* between the last item and the last stopped(), whatever ended the loop, and
\* what the actor's addresses are told is what happened: Ok only when the last
\* stopped() has run (environment.rs:101-134, 151-182, restart_strategy.rs:18-37).
HooksPaired ==
    /\ pc \in {"starting", "restarting"} => hooks.started = hooks.stopped
    /\ pc \in Serving \cup {"finishing", "stopping"} => hooks.started = hooks.stopped + 1
    /\ pc \notin {"stopping", "unwinding"} => hooks.finished = 0
    /\ pc = "stopping" \/ running = "sent" =>
           hooks.finished = IF config.onStream THEN 1 ELSE 0
    /\ running = "sent" => hooks.started = hooks.stopped /\ hooks.started > 0
    /\ running = "sent" <=> exit = "ok"

\* A stop is a barrier in the mailbox: nothing behind it is ever taken, and
\* what was accepted before it has been handled, but for handlers that timed
\* out, by the time the actor reports that it stopped (environment.rs:104-133).
StopIsABarrier ==
    \A j \in 1 .. taken :
        op[accepted[j]] = "stop" =>
            /\ j = taken
            /\ ~ TimesOut(config) =>
                 \A i \in 1 .. j - 1 : op[accepted[i]] \in TaskOps => accepted[i] \in done

\* The position of the last request whose refresh got past stopped().
Refreshed(j) ==
    /\ op[accepted[j]] = "restart"
    /\ ~ (pc = "refreshing" /\ cur = accepted[j])

\* A restart forgets what happened before it only when the actor is recreated
\* from its default, and then all of it; nothing handled since is lost
\* (restart_strategy.rs:10-37).  A panic takes the actor's value with it.
StateSurvivesRestart ==
    exit # "panicked" =>
        state = {r \in done :
                   config.strategy = "RecreateFromDefault" =>
                       \E i \in 1 .. taken :
                           /\ accepted[i] = r
                           /\ \A j \in i .. taken : ~ Refreshed(j)}

\* Once its addresses resolve Ok the actor does nothing more.
QuietAfterNotify ==
    [][running = "sent" => UNCHANGED <<done, state, hooks, exit>>]_actorVars

Service == INSTANCE Server WITH
    log <- accepted,
    at <- IF pc = "handling" THEN taken - 1 ELSE taken,
    applied <- done,
    serving <- pc \notin Leaving,
    accepting <- (rx # "dropped"),
    ok <- {r \in Messages : call[r] = "ok"},
    canceled <- {r \in Messages : call[r] = "canceled"}

\* The actor is a server that processes its requests one at a time, in order,
\* and answers truthfully.
ImplementsServer == Service!ServerSpec

\* Every call returns, to the caller or because it was given up.
CallsReturn == \A r \in Messages : call[r] \in Unresolved ~> call[r] \notin Unresolved

\* A stop that was accepted ends the actor.
StopEnds == \A r \in Messages : (op[r] = "stop" /\ In(r, queue)) ~> Ended

\* The actor ends when the last reference to it is dropped (addr.rs:65).
LastReferenceEnds == handles = {} ~> Ended

\* A stream that ends takes its actor with it, however many requests are still
\* queued and however select! picks (environment.rs:152-171).
SourceEndsActor == source = "over" ~> Ended

\* AlreadyStopped says that the actor had stopped when the operation was
\* attempted; an actor nobody refers to any more counts as stopping.
AlreadyStoppedIsTrue ==
    [][\A r \in Messages :
         fut[r] # "refused" /\ fut'[r] = "refused" =>
             handles = {} \/ pc \in Leaving]_actorVars

=============================================================================
