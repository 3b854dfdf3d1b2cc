# A verification of hannibal's actors in TLA+

hannibal is an actor library for asynchronous Rust: an actor is a value owned by
an event loop, reached through counted references that put tasks into a mailbox.
This directory holds TLA+ models of the library, the TLC runs that check them on
small instances, and theorems about them that the TLAPS proof system has checked
for every instance. Paths such as `channel.rs:81` are relative to `src/src/` of
the repository.

Contents: [inventory](#inventory), [modules](#modules), [runs](#runs),
[fairness](#fairness), [proofs](#proofs), [disagreements](#disagreements-found),
[not modelled](#not-modelled).

## Inventory

| Component | State it keeps | Operations | How it meets the others |
|---|---|---|---|
| Mailbox (`channel.rs`, `environment/payload.rs`) | an mpsc channel of futures (bounded or not), two `Arc` closures `tx_fn` and `force_tx_fn`, each owning a `Sender`; weak forms | `send` (a future: push, then wait for readiness), `force send` (push, never wait), `upgrade`, `next` on the receiver | references push payloads, the loop takes them; dropping the loop's future drops the receiver and every payload in it |
| Event loop (`environment.rs`) | the actor's value, its `Context`, the receiver, the `StopNotifier`, the configuration | `create_loop`, `create_loop_on_stream`, tasks under an optional timeout, `Stop`, `Restart` | runs tasks on the actor, calls the hooks, notifies the addresses, returns the actor to the join handle |
| Restart strategies (`actor/restart_strategy.rs`) | none | `refresh`: nothing, `stopped`+`started`, or the same on `A::default()` | called by the loop |
| References (`addr.rs`, `addr/*.rs`) | clones of the closures, a shared future of the running oneshot | `send`, `force_send`, `call`, `ping`, `stop`, `restart`, `await`, `running`, `stopped`, upgrade and downgrade | a `Caller` holds `tx_fn` only, all others both closures; a call carries a oneshot into the mailbox |
| Owning address and spawners (`addr.rs:212`, `actor/spawner/*.rs`) | the join handle behind an async mutex | `join`, `stop_and_join`, `consume` | awaits the loop's future on the executor |
| Context (`context.rs`) | weak closures, abort handles of timer tasks, children | `stop`, `restart`, `interval`, `interval_with`, `delayed_send`, `add_child`, `publish`, `subscribe` | owned by the loop, used by handlers; its drop aborts the timers |
| Registry (`actor/service.rs`) | a global map from type to `Addr` under an async `RwLock` | `register`, `replace`, `unregister`, `from_registry`, `try_from_registry`, `already_running` | decides by peeking at an `Addr`'s shared running future |
| Broker (`broker.rs`) | weak senders by context id | `Publish`, `Subscribe`, `Unsubscribe` | a service; awaits each subscriber's mailbox in turn |
| Builder (`actor/builder.rs`, `actor/build.rs`) | capacity, strategy, timeout, reaction to a timeout | type-state setters, `spawn`, `register` | chooses the configuration of a loop |
| Derive macros, `actor/spawn_strategy.rs`, examples | none | | generated impls; a file no `mod` names; documentation |

Behaviours that are hard to get right, and what correctness means there:

* **Backpressure is per sender, not per mailbox.** Every send clones the
  `Sender`, a clone may always push once, and only then waits. What is promised
  is therefore about *position*: a waiting sender goes on exactly when its
  message is within the buffer, although parked entries of abandoned and forced
  sends are mixed with those of senders that still wait.
* **A request has many ways to die.** Its handler can time out or panic, its
  future can be dropped while it waits, the actor can stop, fail to restart, or
  leave between `notify()` and the drop of its receiver while other threads still
  push. Every caller must learn the truth: *Ok* only if its handler completed,
  *Canceled* only if it never will.
* **Hooks under restarts.** `started` and `stopped` alternate whatever strategy,
  error or panic; an address resolves *Ok* only after `stopped`.
* **A stop is a position in the mailbox**: all before it is served, none behind.
* **Self calls block the loop** that would answer them; only a timeout helps.
* **Termination by reference counting**: the loop ends when the last strong
  reference and the last pending send future are gone.
* **Peeked state is stale**: `Addr::stopped` knows of an end only once somebody
  has awaited it, and the registry decides by it. Worse, an `Addr` that was
  itself polled to its end (`(&mut addr).await`) has nothing left to peek at, nor
  have its clones. What may still be relied on: nobody takes a running service
  for an ended one; of the services put into the map without `replace` only one
  lives; a service leaves the map for cause only; and a lookup returns the one in
  the map, whatever calls race.
* **An upgrade takes two `Arc`s, a drop gives them back one by one**, in the
  same order and in other threads. A closure that is gone must stay gone, and an
  upgrade may fail only when no address is left.
* **One join handle, many join futures**: the actor's value goes to the future
  that took the handle, or is lost with it, and `consume` holds the actor it
  waits for.
* **A stream actor listens to two sources** in random order, ends with either,
  ignores its timeout and panics on a restart.
* **Tasks outlive the poll that made them**: an interval's ticks race with stop,
  restart, failure and the abort; a tick that waits for room is a strong
  reference; a restart registers everything once more.
* **The broker serves its subscribers one after the other** while they are slow,
  end or lose their references, and refers to them strongly in the meantime.

`PROJECT.json` lists each of these hazards at the line where it bites, with the
properties that would catch it.

## Modules

    Fifo  <-- refines --  Channel  -- EXTENDS -->  Mpsc (external)
                             ^                       ^
                             |                       |  INSTANCE
    Server <-- refines --  Actor -- EXTENDS --> Builder   Context

    Directory <-- refines --  Registry

    References      Broker

What one module reduces another establishes: `References` justifies the set of
closures that `Channel` and `Actor` keep in the place of counts; `Actor` shows
that a stop, or the loss of the last reference, ends a loop, which `References`,
`Registry`, `Broker` and `Context` take as the behaviour of the actors they
refer to; `Registry` hands out the address of the service that `Broker` is.

* **`Mpsc`** models what `channel.rs` relies on in the futures crate and is the
  one external part: a queue, the list of parked senders (each named by the
  message it pushed) and the receiver. A push on an open channel is never
  refused, a push that makes the queue longer than the buffer parks its sender,
  a pop unparks the oldest entry. `Buffer` is the argument of
  `Channel::bounded`.
* **`Channel`** is `channel.rs`. `fut[m]` is the operation that sends `m`, from
  the first poll (`Send`, which pushes and from then on flushes) to its
  resolution (`FlushDone`) or the drop of the future (`Abandon`); `ForceSend` is
  `force_tx_fn`, which ignores readiness and leaves its parked entry behind;
  `Refuse` is a weak reference that no longer upgrades. `handles` is the set of
  closures some strong reference keeps alive. Counting references would add
  nothing: nothing in the code depends on the number, only on whether it is zero,
  and what is zero stays so (`NeverRegained` in `References`).
  `accepted` and `taken` are history.
* **`Fifo`** says what a mailbox promises without naming parked tasks: order, at
  most once, no loss while open, and backpressure by position.
* **`Builder`** is `actor/builder.rs` as operators on the configuration under
  construction, and `Buildable` the set of all configurations that the builder
  and the `Spawnable` traits can produce. The assumption of `Actor` is that its
  configurations are among these; so a stream actor is `NonRestartable` unless
  it was made by `spawn_on_stream`.
* **`Actor`** is the event loop with the references, for both loops: with
  `config.onStream` it is `create_loop_on_stream`, which has no timeout, runs
  `finished()` and panics on a restart. A message of `Channel` is now a request;
  `op` says which. `pc` names the await points of the loops:

  | `pc` | code |
  |---|---|
  | `starting`, `restarting` | inside `started()`, at the start and in `refresh` |
  | `idle` | `payload_stream.next().await` |
  | `handling` | inside `timeout_fut(f(..))`, with `cur` the task |
  | `streaming` | inside `StreamHandler::handle`, with an item |
  | `finishing` | inside `finished()` |
  | `refreshing` | `refresh`, before `stopped()` has returned |
  | `stopping` | inside the final `stopped()` |
  | `unwinding` | the future has returned or panicked; its fields are being dropped, which other threads can observe between two drops |

  `source` is the stream handed to the loop: it may yield up to `MaxItems` items
  and may end at any time. `call[r]` is the oneshot of a call as its two ends see it, `running` the
  oneshot behind every address's future, `blockedOn` the request to itself that
  the running handler awaits. `done` and `state` are the requests whose handler
  completed and those whose effect is in the actor's value; the difference is
  what a recreation forgets. A handler's effect is abstracted to "it ran to
  completion", payloads and responses to the identity of the request. The client
  side has one action per operation of `Addr`, `Sender`, `Caller`, their weak
  forms and `Context`; operations that take the same path through the code share
  a value of `op` (the comment above `CallOps` lists them).
* **`Server`** is what an actor promises the code that talks to it: one request
  at a time, in order, at most once, and truthful replies. Mailbox, hooks,
  timeouts and restarts are hidden.
* **`Registry`** is `actor/service.rs` for one type of service (types do not
  interfere: each has its own key, and they share only the lock). `slot` is the
  map's entry, `holders` the tasks that hold a guard of the `RwLock`. An
  operation goes through `phase`: `waiting` for the lock, where its future may be
  dropped (`GiveUp`); `locked`; then what it has decided (`insert`, `remove`,
  `clone`, `refuse` ..., one `Decide..` action per branch of the code); and one
  `Return..` action that updates the map, drops the guard and hands out addresses.
  Reading and applying are separate steps although no await lies between them,
  because services end and peeks change in other threads meanwhile. `arg` is the
  address the operation owns. An address is a record: the instance it is `of`, and
  whether it is `spent`, that is, was itself polled to its end, or cloned from one
  that was (`addr.rs:202-209`; a finished `Shared` keeps nothing to peek at).
  `Addr::running` and `stopped` (`Shows`) look at `spent` and at `seen`, the
  instances whose shared future some awaiting clone has polled to its end, and
  not at `life`: that is the difference between `futures::Shared::peek` and the
  oneshot. When an await returns (`AwaitReturns`) the polled `Addr` is gone if it
  was consumed, and may be kept, spent, if it was borrowed; it can then be
  registered like any other. The event loop of a service is reduced to its end: `Quit` (stopped,
  failed or panicked) at any time, or `Lose` when no strong reference is left;
  `Actor` has the details. Clients clone addresses and pass them around, so
  `held` is one set for all; a `Sender` counts as an address here. The address
  being awaited is itself a strong reference. `official` is history.
* **`Directory`** is what the registry promises the tasks that use it: an entry,
  the instances whose end was noticed, and per client the operation it has called
  with the address it gave and the answer it awaits. Lock and steps are hidden:
  every operation has its effect at one instant between its call and its return,
  and decides by the entry of that instant and what it shows. `Registry` maps to it with the map's
  entry as the entry, what an operation has decided as its answer (`Verdicts`), and
  what it was given or found as its address (`Gift`). An update happens when the
  write guard is dropped, any other answer when it is decided. An instance counts as
  known (`Public`) unless it is one that a `from_registry` has spawned and not
  inserted yet, which nobody can have heard of.
* **`References`** follows references one by one. A place in `Refs` holds a
  reference of some `kind` and the `arcs` it owns. `Derive` makes one reference
  from another as clones, downgrades and conversions do; `UpgradeTx` and
  `UpgradeForce` are the two halves of `weak_tx.upgrade().zip(weak_force_tx
  .upgrade())`, `UpgradeCaller` the upgrade of the one `Arc` of a `Caller`;
  `Release` and `DropArc` give the `Arc`s back in the order of the fields, and so
  does an upgrade that fails. `Join` makes the future that `OwningAddr::join`
  returns and that does nothing until its first `Poll`, which takes the handle
  out of the mutex; `StopAndJoin` and `Consume` give up the owner, at once or
  when the future returns. The actor is its `outcome`.
* **`Context`** is what `started()` registers. `plan` says what that is (it is
  chosen in Init: a set of kinds of task, a child or none, and how often the actor
  is started) and `at` where each task is: asleep, or in the send of a tick. The
  names of tasks are pairs of a kind and the start that registered it, since a
  restart keeps the `Context` and registers once more. `Wake` is one round of a
  task's loop: upgrade, push, and for `try_send` wait for room, during which the
  task holds a strong sender (`Held`). `DropContext` and `DropMailbox` are the two
  drops by which the loop's future ends, in either order. The loop is `Actor`'s
  without what tasks cannot see. A hook or handler may also register tasks later;
  that differs from `started()` only in when, and is not explored.
* **`Broker`** is one topic. `inbox` is the mailbox of the service, `subscribers`
  the map. A publication is handled in the steps of the code: `TakePublish`,
  `Upgrade` of one weak sender after the other, `SendTo` and `SendReturns` for
  each sender obtained, `FinishPublish` with the `retain` and the drop of the
  senders. A subscriber has a mailbox that accepts a message and then makes the
  sender wait until the backlog is within `Room`; it reads when it likes, and may
  end, or lose its references, between any two steps. `published`, `taken`,
  `wanted` and `audience` are history. The service itself is neither stopped nor
  replaced here: a successor would start with an empty map, and what happens in
  the registry then is in `Registry`.
* **`MCChannel`, `MCActor`, `MCReferences`, `MCContext`, `MCBroker`,
  `MCRegistry`** add symmetry sets, configurations and plans for TLC.
* **`ChannelProofs`, `ActorProofs`, `ServerProofs`, `OrderProofs`,
  `RegistryProofs`, `ReferencesProofs`, `ContextProofs`, `BrokerProofs`** hold
  the theorems.

Operators whose comment says "Broken variant" are plausible mistakes in the
definition that follows them (a wake-up dropped, a reply lost with a timed-out
handler, a hook forgotten). No specification uses them; `PROJECT.json` pairs each
with the property that it breaks, which shows that the property depends on the
code.

## Runs

| Run | Question | Instance |
|---|---|---|
| `channel` | does the mailbox implement `Fifo`; do sends return | 4 messages, capacity 1 |
| `channel_capacity` | does the capacity bound the mailbox, as `build.rs` has it | 4 messages, capacity 2: **violated** |
| `actor_safety` | all safety properties, `QuietAfterNotify`, and `Server` | 3 requests of all six kinds, capacity 1, each strategy and each reaction to a timeout, a stream actor with an item, panics, self calls |
| `actor_live` | do calls return; do stops, lost references and the end of the stream end the actor | 3 requests (`send`, `call`, `stop`); an actor with a timeout whose handlers await their own actor, and a stream actor built in the other way |
| `actor_refs` | is `AlreadyStopped` true | 3 requests: **violated** |
| `registry` | does the registry implement `Directory`; whatever calls race, is one service alive, are lookups current, does a service leave the map for cause only | 3 clients, all operations, 2 instances that end at any time |
| `registry_already_running` | does `already_running` answer what its name and doc say | 2 clients, 2 instances: **violated** |
| `registry_stale` | does `try_from_registry` return the service only if it runs | 2 clients, 2 instances: **violated** |
| `references` | are references sound while upgrades and drops interleave; who gets the actor's value | 3 references, 2 join futures |
| `context` | are tasks and children reached and ended; does `interval_with` wait; does the actor end with its last address | capacity 1, five plans, up to 2 starts |
| `context_immortal` | does an actor end with its last address, as `addr.rs:65` has it, with an `interval_with` and a restart | one plan, 2 starts: **violated** |
| `broker` | does each publication reach its audience once and in order; does it complete; is a subscription weak | 2 subscribers with room for 1, 3 publications, 1 request waiting |

*Bounds.* Every message or request is used once, so the number of messages
bounds queue length, parked senders and history. Capacity 1 with four messages
has up to three parked entries, enough for an abandoned one and a forced one in
front of a sender that waits, which is where a wake-up could go astray; the
general statement (`ParkedBeyondBuffer`) is proved for every capacity. Three
requests give the actor a predecessor, a stop or a restart, and a successor,
each of any kind, or one handler with a self call and a rival; the restarts of
one execution are bounded by the requests, and one item (`MaxItems`) can come
before, between and after them (3.6 million states). Three clients give every pair of operations of the
registry in every order, with a third that waits for the lock, reads beside them or
comes between; two instances are the registered service and the one that replaces
it, spawned by a client or by a racing `from_registry` (1.6 million states; an
instance is spawned once, and a `from_registry` that finds all instances used up
stays where it is, which only cuts the execution short). That more clients and
more generations change nothing is what the theorems say.
Three places hold a reference, its upgrade and a rival that drops or upgrades at
the same time; more of them are covered by the theorems, which hold for any
number (968 thousand states). In `context.cfg` each plan has the tasks that can
get in each other's way: the kinds in pairs, and each with a restart or a child.
`MaxStarts` bounds the restarts, of which one shows what more would repeat;
`MaxQueue` bounds what an `interval`, which checks nothing, and the outside put
into the mailbox, and stays above `Buffer` + 1, where waiting begins. Ticks that
wait are bounded by the code. `Room` and `MaxInbox` of the broker are 1, so that
the second message of a subscriber that does not read makes the broker wait, while
a request waits behind it; three publications let one be handled while one waits
and one was served.

Liveness runs use fewer kinds of request, because only the kinds whose progress
differs matter there, and no symmetry, which TLC may only use for safety; their
actor with a timeout covers the one without, whose handlers cannot be interrupted
but also do not await their own actor. `CHECK_DEADLOCK FALSE` is set throughout
because a system in which all requests have been used, all replies delivered and
the actor has ended or waits for work has nothing left to do.

*What the properties say.* `ParkedBeyondBuffer`, `NothingLost` and
`ImplementsFifo` relate the list of parked senders, the queue and the
history. `NoOrphanedCall` and `RepliesAreTrue` follow a call through every way
its request can die. `HooksPaired` and `QuietAfterNotify` relate hooks, result
and what addresses are told. `StopIsABarrier` is about the order of the mailbox
and `StateSurvivesRestart` says exactly which completed requests a restart
forgets. `ImplementsServer` is the promise to clients as a whole. `OneServiceAlive` and
`LookupIsCurrent` are about races of operations, `LeavesForCause` says for which reasons, and into
whose hands, a service can disappear from the map, `LostIsGone` follows an
address through every place that may hold it, and `ImplementsDirectory` says that
no task can tell the overlapping operations from some order of them. `NeverRegained` and
`UpgradeFailsForCause` are about an upgrade that meets drops and other upgrades
half-way, `ValueGoesToTaker` about futures that compete for one handle.
`NoTaskForgotten` follows the abort handles through restarts and failures, and
`IntervalWithWaits` limits the ticks of a task that sends through ever new
clones. `SameOrderForAll` and `AudienceServed` relate each subscriber's mail to
what was asked of the broker and when. `SendsReturn`, `CallsReturn`, `StopEnds`,
`LastReferenceEnds` (of `Actor` and of `Context`), `SourceEndsActor`,
`UnreferencedEnds`, `ConsumptionEnds`, `TasksEnd`, `ChildrenEnd`,
`PublicationsComplete` and `SubscriptionsAreWeak` are the liveness properties.
`UnreferencedEnds` excepts upgrades under way for a reason: two upgrades that fail
in turns can hand the last `Arc` to one another, so nothing bounds how long they
keep a mailbox open; and `LastReferenceEnds` of `Context` excepts two waiting
ticks (see the disagreements).

## Fairness

Weak fairness is asserted only where something of the system is obliged to act:

* the receiver is taken from as long as the loop waits for it (`Receive` in
  `Channel`, the whole of `LoopStep` in `Actor` and `Context`, `BrokerStep` and
  `SubscriberStep` in `Broker`): the executor polls the loop's future once it is
  woken, hooks terminate and so do handlers, except where a handler awaits its
  own actor, when it is *not* assumed to finish;
* with a timeout the timer fires (`TimeOut` is part of `LoopStep`);
* a send or a call that can return does (`FlushDone`, `SendReturns`,
  `CallReturns`): its task was woken, and its client is still there to poll it
  unless it gives up, which is an action of its own;
* a thread in the middle of an upgrade or of a drop goes on, a join future that
  somebody awaits is polled (`References`), a task that is woken or aborted is
  polled, and a child without references ends (`Context`);
* in `References` and for children the loop ends once it must (`EndWhenDue`,
  `ChildStarves`), which is what `StopEnds` and `LastReferenceEnds` of `Actor` show.

No timer of an interval has to go off, and no stream has to yield or end.
No fairness is assumed of clients: nobody need send, give up, release a
reference, stop an actor or end a child. No fairness is assumed of panics and failing hooks
(`Crash`, `StartedErr`): they may happen at any time or never. Weak fairness is
enough because none of these steps can be disabled again and again by others: a
woken sender stays woken, a reply stays available, and a handler can start only
finitely many requests to its own actor. Neither branch of `select!` gets fairness
of its own: requests and items are finitely many, so a branch that is ready ends
up alone.

## Proofs

All theorems hold for every set of messages, every capacity, every set of
configurations, plans and operations, and any number of clients, instances,
references, join futures, subscribers, publications, restarts and items; the
assumptions are those named in the modules that declare the constants
(`BufferAssumption`, `ConfigAssumption`, `NoneAssumption`, `PlansAssumption` ...),
which TLC evaluates in every run.

* **`ChannelProofs`**: `ChannelTypeCorrect`, `ParkedAreBeyondBuffer`,
  `MailboxIsFifo`, `AcceptedAtMostOnce`, `ChannelImplementsFifo`. `ParkedBeyondBuffer` is not about
  messages alone: that a flushing sender is acknowledged within the buffer needs
  that its message is somewhere in the accepted history, and that a message which
  is neither queued nor parked was taken. The inductive invariant `ChannelInv`
  is therefore the conjunction of type, position of the parked senders, the
  split of the history into taken and queued, acceptance at most once, and that
  a receiver that is not open has nothing queued and nobody parked. Two more
  theorems say what is left of the capacity (see the disagreements):
  `ReturnedSendsFitBuffer`, what waits in the mailbox although its sender was told
  to go on lies within the buffer, so a task that awaits its sends is held back by
  what it has sent; and `WaitersHaveCause`, who waits does so behind a full buffer
  of an open mailbox, one message beyond it for each.
* **`ActorProofs`**: every action of the loop or of a client is a step of
  `Channel` or leaves the mailbox alone (`ActorUsesChannel`), so `ChannelInv`
  carries over. `NoCallIsOrphaned` and `RepliesAreTruthful` come from one
  inductive invariant, which adds that a fresh request has no call and no
  effect, that the request in the handler has been taken out of the queue and has
  not completed, and that only tasks are calls. `HooksArePaired` needs that
  until the loop leaves the result is undecided and the notifier pending.
  `QuietOnceNotified` is an action property that follows from it.
  `LivesOnlyOnce`: an actor that is not restartable, or runs on a stream, is started,
  finished and stopped at most once, because the loop never enters a refresh.
  `SelfCallsNeverReturn` and `SelfCallsDeadlock` are about handlers that await a
  request to their own actor. The invariant (`SelfWait`) is that such a request is
  still in the queue, unanswered, since only the loop takes from it and the loop is
  in the handler; so every step leaves the handler where it is, except a timeout or
  a panic, which drop it uncompleted. Without these the state is final: the actor
  never takes another request, not even a stop. The second theorem assumes that
  panics are ruled out (`~MayCrash`), since a panic of the awaiting handler
  would free the loop by ending it; with panics the first theorem is what holds.
  `DeathIsFinal`: once the future is dropped no caller waits and no sender is
  parked (both follow from `ReplyInv`, the mailbox being empty), and no step changes
  anything of the actor, or puts anything into its mailbox.
* **`ServerProofs`**: `ActorImplementsServer`, the refinement. It needs that the
  request in the handler is the last one taken (so that finishing it is
  processing `log[at + 1]`), and that whoever is owed a reply was accepted. Each
  action maps to one step of `Server` or to a stutter: taking a task is a
  stutter, since `at` counts it when its handler ends; a stop taken is the
  processing of that request and the end of service; the drop of the receiver
  closes the doors.

* **`OrderProofs`**: `StopsAreBarriers` and `RestartsForgetExactly`. A stop is a
  barrier because of three facts that are inductive together (`OrderInv`): a stop
  that was taken is the last request taken and the loop is on its way out; every
  task taken before the last one has completed, unless there is a timeout; and
  the request in hand is the last one taken and is what `pc` says. For restarts
  the set of completed requests that no refresh has passed (`Survivors`) is
  followed through every action: taking changes nothing in it, completing adds
  the request, and getting past `stopped()` empties it if the actor is recreated.

* **`RegistryProofs`**: `OneServiceLives`, `LostStayLost`, `ServicesLeaveForCause`
  and `LookupsAreCurrent`, for any number of clients and instances. The argument
  is that of a critical section with stale data: who is past waiting holds the
  lock, and a writer holds it alone (`Exclusion`); so what an operation has read
  of the map is still so when it returns (`StillTrue`); a peek is late but never
  wrong (`PeekIsSound`), so whatever `register` and `from_registry` displace has
  ended; and an instance that was not spawned is known to nobody
  (`AbsentIsUnknown`), which makes the one that `from_registry` spawns new.
  `EndsAreNotInvented` says that `true` of `already_running`, the insertion by
  `register` and the spawn by `from_registry` never follow from a service that
  runs. Nothing in this needs a peek to show an end that was awaited, which is as
  well, for through a spent address it does not. `RegistryIsDirectory` is the
  refinement.
  It needs one fact more (`NewIsUnknown`): an instance that a `from_registry` has in
  the making is in no other operation, not in the map, and no client has it; so it
  can become public at the instant of the insertion, and until then nothing that
  happens to it but its end shows in `Directory`. The steps of services, calls,
  decisions and returns are mapped one by one: taking the lock and deciding to
  insert or remove are stutters, and since a writer is alone the entry by which it
  decided is the entry of the instant at which it acts.

* **`ReferencesProofs`**: `ClosuresStayGone`, `UpgradesFailRightly` and
  `ValueGivenOnce`. Every step writes at most one place, and writes only `Arc`s
  that somebody held (`PlaceStep`), so what is not held stays so; that an upgrade
  fails for cause needs one fact more (`UpgradesInv`): an upgrade that did not
  get `tx` was right and still is, which follows from the first theorem's step.
  For the value, whoever waits is the one that took the handle (`TakerInv`).
  `ConsumersAreServed`: there is one owner at most, `consume` has it while it waits,
  and what it waits for was asked to stop or has ended.

* **`ContextProofs`**: `TasksAreReachable` and `IntervalsWait`. The first is
  inductive with "a dropped context means the loop was left" (`LifeInv`), since
  nothing is registered after that. For the second the list of parked senders
  must be known (`ParkedInv`): it names the messages beyond the buffer in their
  order, an interval_with that is not in a send is not in it, and none is in it
  twice. So at most one of its ticks is beyond the buffer, and at most `Buffer`
  are within, which is an argument about cardinalities. Three theorems say what
  is true of `addr.rs:65` (see the disagreements): `TimersHoldNobody`, with an
  unbounded mailbox timers hold no actor, whatever was registered;
  `AbandonedIsFinal`, with any mailbox an actor that nothing holds is never held
  again, and its mailbox only drains; and `DroppedContextSilences`, from the drop of
  the `Context` on no task of it sends anything. The first follows because there no
  task is ever found in the middle of a send; the others from `WhoPushes`: whatever
  gets into the mailbox comes from outside through a strong reference, or from a
  task that was not aborted and whose upgrade succeeded.

* **`BrokerProofs`**: `BrokerKeepsOrder` and `BrokerServesAll`. Publications are
  in order in the broker's mailbox and behind those that were taken
  (`InboxInOrder`), all mail is among the taken and older than what is still to be
  sent (`MailInv`), and the map holds who asked last and forgets only the
  unreferenced (`MapInv`), so that whoever is entitled to the publication in hand
  is still to be upgraded, held or served (`HandlerInv`). `SubscribersAreNotFlooded`:
  however slow a subscriber, its mailbox exceeds the room by the one message that
  the broker waits on. `SubscriptionsOnlyBorrow`: no sender is held between
  publications, and nobody is referred to again whom nobody referred to.

Only model-checked: all liveness, since fairness and ENABLED are out of the provers'
reach; so `SelfCallsDeadlock` says that a stuck actor stays so, while that the others
get on is what `CallsReturn` and `StopEnds` check.

## Disagreements found

* `CapacityRespected` (`channel_capacity`): `build.rs:22` describes `bounded(6)`
  as a mailbox capacity of 6, and `channel.rs:90` blames only forced sends for
  exceeding it. Not counting those, awaited sends exceed it too, because each
  goes through a fresh clone (`channel.rs:81`) whose first message is never
  refused.
* `AlreadyStoppedIsTrue` (`actor_refs`): `Context::stop`, and every weak
  reference that needs both closures, reports `AlreadyStopped` when only
  `Caller`s are left, although the actor runs and serves them
  (`context.rs:77-81`); `error.rs:22` says the actor "has already been stopped".
* `AlreadyRunningIsTrue` (`registry_already_running`): `already_running` returns
  `Addr::stopped` (`service.rs:102`), the opposite of "Check if the service is
  already running" (`service.rs:95`). `EndsAreNotInvented` is what holds: *true* is only
  ever said of a service that has ended.
* `TryFromRegistryFindsRunning` (`registry_stale`): `try_from_registry` filters
  by a peek (`service.rs:118`, `addr.rs:98`), so it returns a service that has
  ended as long as nobody has awaited it; `service.rs:111` says "if it is
  running". `register` refuses for the same reason. That the end was awaited does
  not always help: if the registered `Addr` is one that was polled to its end by
  reference, or a clone of it, it never shows the end. `register` then refuses, and
  `from_registry` and `try_from_registry` hand it out, until somebody calls
  `replace` or `unregister`; and to await what they hand out panics, as polling any
  finished `Shared` does. `LeavesForCause` and `EndsAreNotInvented` are what holds.

* `LastAddrEndsActor` (`context_immortal`): `addr.rs:65` says that the actor "will
  be stopped when the last `Addr`s are dropped". A tick of `interval_with` that
  waits for room holds an upgraded sender (`weak_sender.rs:36`), and a restart
  registers the interval once more without ending the first. Two such tasks can
  take turns: each finds the mailbox open because the other is waiting. With one
  such task, and any number of the other kinds, the actor does end
  (`LastReferenceEnds`).

Not refuted by a run, but worth knowing: `OwningAddr::join` called twice yields
`None` at once while the actor still runs (`addr.rs:228` says "Waits for the actor
to stop and returns it"; `ValueGoesToTaker` says what holds); a child that somebody
else refers to outlives its parent (`context.rs:89` says "will be stopped";
`ChildrenEnd` excepts it); and `AsyncStdSpawner` differs from `TokioSpawner` in what
a panic of the actor does to a join future.

## Not modelled

* The futures crate, `Arc`, the executors and the clock: external; a timeout may
  fire at any moment of a handler, which includes every real schedule, and so may
  the timer of a task.
* The fairness of `async_lock::RwLock`: nothing is claimed about when a waiting
  operation gets the lock. Nor is the panic of a client that awaits a spent
  `Addr`: `Await` takes fresh ones.
* What a handler computes, message payloads and logging; hence `handler.rs`,
  `lib.rs` and `error.rs` only as far as their values appear in `fut` and `call`.
* The registration of tasks and children by handlers, after `started()`.
* The stop, panic or replacement of a broker while it serves.
* Spawners that a user writes (`Spawner` is a public trait), and the builds without
  tokio and async-std, whose `Service` lacks most operations.
* The derive macros, which generate empty implementations; `actor/spawn_strategy.rs`,
  which no `mod` declaration names and which refers to types that no longer exist;
  examples and tests, which were read as documentation.
