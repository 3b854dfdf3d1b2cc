------------------------------- MODULE Registry -------------------------------
(***************************************************************************)
(* The service registry, actor/service.rs, for one type of service: a slot *)
(* for an Addr in a global map behind an asynchronous RwLock.  Whether the *)
(* registered service runs is decided by a peek at the shared future of    *)
(* its oneshot (addr.rs:97-103).  A peek shows what some awaiting clone of *)
(* the future has seen, not whether the oneshot was sent; and an Addr that *)
(* was itself polled to the end (addr.rs:202-209), and every clone of it,  *)
(* has no future left to peek at.  The event loop of a service is reduced  *)
(* to how it ends (environment.rs:96-138).                                 *)
(***************************************************************************)
CONSTANTS Clients,   \* tasks that use the registry
          Actors,    \* instances of the service, each spawned at most once
          NoActor

ASSUME NoActorAssumption == NoActor \notin Actors

VARIABLES slot,      \* the address in the map, or NoAddr
          holders,   \* clients that hold a guard of the RwLock
          op,        \* per client: the operation it is in
          phase,     \* per client: how far that operation is
          arg,       \* per client: the address the operation has in hand
          held,      \* addresses that clients have, which they clone and
                     \* pass around
          awaited,   \* instances of which some client awaits an address
          life,      \* per instance of the service
          seen,      \* instances whose shared future a clone saw resolve
          official   \* history: put into the slot and not taken out of it by
                     \* replace or unregister

vars == <<slot, holders, op, phase, arg, held, awaited, life, seen, official>>

Writes == {"register", "replace", "unregister", "from_registry"}
Reads == {"already_running", "try_from_registry"}
TakesAddress == {"register", "replace"}

\* waiting: for the lock; locked: it has the lock, nothing read yet; then what
\* the operation has decided to do.
Phases == {"idle", "waiting", "locked", "insert", "remove", "refuse", "clone",
           "true", "false", "none"}

\* ended: stopped, failed or panicked; lost: ended because nobody referred to it.
Lives == {"absent", "running", "ended", "lost"}
Alive(a) == life[a] = "running"

\* An Addr of an instance.  It is spent once it has been polled to the end: its
\* shared future has given its output away.  A clone is as spent as its original.
Addresses == [of : Actors, spent : BOOLEAN]
Address(a) == [of |-> a, spent |-> FALSE]
Spent(a) == [of |-> a, spent |-> TRUE]
NoAddr == Address(NoActor)

RegistryInit ==
    /\ slot = NoAddr /\ holders = {}
    /\ op = [c \in Clients |-> "none"]
    /\ phase = [c \in Clients |-> "idle"]
    /\ arg = [c \in Clients |-> NoAddr]
    /\ held = {} /\ awaited = {}
    /\ life = [a \in Actors |-> "absent"]
    /\ seen = {} /\ official = {}

-----------------------------------------------------------------------------
(* The services *)

\* Broken variant: an address handed to an operation that waits for the lock
\* is only a weak one.
ReferencedWeakly(a) ==
    slot.of = a \/ a \in awaited \/ \E x \in held : x.of = a

\* The strong references: in the map, with a client, in the Addr that is being
\* awaited, or in an operation.
Referenced(a) ==
    \/ slot.of = a \/ a \in awaited
    \/ \E x \in held : x.of = a
    \/ \E c \in Clients : arg[c].of = a

\* build(..).spawn()
Spawn(a) ==
    /\ life[a] = "absent"
    /\ life' = [life EXCEPT ![a] = "running"]
    /\ held' = held \cup {Address(a)}
    /\ UNCHANGED <<slot, holders, op, phase, arg, awaited, seen, official>>

\* The event loop ends at any time: someone stops the service, a hook fails,
\* or a handler panics.
Quit(a) ==
    /\ life[a] = "running"
    /\ life' = [life EXCEPT ![a] = "ended"]
    /\ UNCHANGED <<slot, holders, op, phase, arg, held, awaited, seen, official>>

\* The event loop sees the end of its stream.
Lose(a) ==
    /\ life[a] = "running" /\ ~ Referenced(a)
    /\ life' = [life EXCEPT ![a] = "lost"]
    /\ UNCHANGED <<slot, holders, op, phase, arg, held, awaited, seen, official>>

DropAddress(x) ==
    /\ x \in held
    /\ held' = held \ {x}
    /\ UNCHANGED <<slot, holders, op, phase, arg, awaited, life, seen, official>>

\* addr.await, or a poll of &mut addr, on an address or a clone of it; the
\* original may be dropped.  Polling a spent one panics in the client.
Await(a) ==
    /\ Address(a) \in held /\ a \notin awaited
    /\ awaited' = awaited \cup {a}
    /\ UNCHANGED <<slot, holders, op, phase, arg, held, life, seen, official>>

\* Whoever polls the shared future after the end makes it visible to a peek
\* through any other clone.  The polled Addr itself is gone if it was consumed,
\* and is left spent if it was borrowed.
AwaitReturns(a) ==
    /\ a \in awaited /\ ~ Alive(a)
    /\ seen' = seen \cup {a}
    /\ awaited' = awaited \ {a}
    /\ held' \in {held, held \cup {Spent(a)}}
    /\ UNCHANGED <<slot, holders, op, phase, arg, life, official>>

AwaitDropped(a) ==
    /\ a \in awaited
    /\ awaited' = awaited \ {a}
    /\ UNCHANGED <<slot, holders, op, phase, arg, held, life, seen, official>>

-----------------------------------------------------------------------------
(* The operations: call, lock, read and decide, apply and unlock *)

Begin(c, o, p) ==
    /\ phase[c] = "idle"
    /\ op' = [op EXCEPT ![c] = o]
    /\ phase' = [phase EXCEPT ![c] = p]

\* register and replace consume a clone of an address; the original may be
\* dropped.
CallWith(c, o, x) ==
    /\ Begin(c, o, "waiting")
    /\ x \in held
    /\ arg' = [arg EXCEPT ![c] = x]
    /\ UNCHANGED <<slot, holders, held, awaited, life, seen, official>>

Call(c, o) ==
    /\ Begin(c, o, "waiting")
    /\ UNCHANGED <<slot, holders, arg, held, awaited, life, seen, official>>

\* Broken variant: every operation takes a read guard.
FreeForReaders(c) == TRUE

\* Broken variant: from_registry takes a read guard, being a lookup.
FreeForLookups(c) ==
    \/ holders = {}
    \/ /\ op[c] \in Reads \cup {"from_registry"}
       /\ \A d \in holders : op[d] \in Reads \cup {"from_registry"}

\* The guard that client c needs can be had.
Free(c) ==
    \/ holders = {}
    \/ op[c] \in Reads /\ \A d \in holders : op[d] \in Reads

Lock(c) ==
    /\ phase[c] = "waiting" /\ Free(c)
    /\ phase' = [phase EXCEPT ![c] = "locked"]
    /\ holders' = holders \cup {c}
    /\ UNCHANGED <<slot, op, arg, held, awaited, life, seen, official>>

\* try_read never waits; when it fails None is returned and nothing changes.
TryCall(c) ==
    /\ Begin(c, "try_from_registry", "locked")
    /\ \A d \in holders : op[d] \in Reads
    /\ holders' = holders \cup {c}
    /\ UNCHANGED <<slot, arg, held, awaited, life, seen, official>>

\* A future that waits for the lock is dropped, with the address in it.
GiveUp(c) ==
    /\ phase[c] = "waiting"
    /\ phase' = [phase EXCEPT ![c] = "idle"]
    /\ op' = [op EXCEPT ![c] = "none"]
    /\ arg' = [arg EXCEPT ![c] = NoAddr]
    /\ UNCHANGED <<slot, holders, held, awaited, life, seen, official>>

\* A peek through an address shows the end of the instance.
Shows(x) == ~ x.spent /\ x.of \in seen

\* Addr::running and Addr::stopped of the registered address.
SlotRunning == slot # NoAddr /\ ~ Shows(slot)
SlotStopped == slot # NoAddr /\ Shows(slot)

Decides(c, p) ==
    /\ phase[c] = "locked"
    /\ phase' = [phase EXCEPT ![c] = p]
    /\ UNCHANGED <<slot, holders, op, held, awaited, seen, official>>

\* Broken variant: register asks whether the service is running.
RegisterIfRunning(c) ==
    /\ op[c] = "register"
    /\ Decides(c, IF slot = NoAddr \/ SlotRunning THEN "insert" ELSE "refuse")
    /\ UNCHANGED <<arg, life>>

DecideRegister(c) ==
    /\ op[c] = "register"
    /\ Decides(c, IF slot = NoAddr \/ SlotStopped THEN "insert" ELSE "refuse")
    /\ UNCHANGED <<arg, life>>

DecideReplace(c) ==
    /\ op[c] = "replace"
    /\ Decides(c, "insert")
    /\ UNCHANGED <<arg, life>>

DecideUnregister(c) ==
    /\ op[c] = "unregister"
    /\ Decides(c, "remove")
    /\ UNCHANGED <<arg, life>>

\* The running service is cloned out of the map.
Find(c) ==
    /\ op[c] \in {"from_registry", "try_from_registry"} /\ SlotRunning
    /\ Decides(c, "clone")
    /\ arg' = [arg EXCEPT ![c] = slot]
    /\ UNCHANGED life

\* from_registry spawns A::default() and its address is inserted next.  Bound:
\* when all instances have been spawned the call stays where it is.
SpawnService(c, a) ==
    /\ op[c] = "from_registry" /\ ~ SlotRunning
    /\ life[a] = "absent"
    /\ Decides(c, "insert")
    /\ arg' = [arg EXCEPT ![c] = Address(a)]
    /\ life' = [life EXCEPT ![a] = "running"]

FindNothing(c) ==
    /\ op[c] = "try_from_registry" /\ ~ SlotRunning
    /\ Decides(c, "none")
    /\ UNCHANGED <<arg, life>>

\* already_running returns Addr::stopped.
DecideAlreadyRunning(c) ==
    /\ op[c] = "already_running"
    /\ Decides(c, IF slot = NoAddr THEN "none"
                  ELSE IF SlotStopped THEN "true" ELSE "false")
    /\ UNCHANGED <<arg, life>>

Decide(c) ==
    \/ DecideRegister(c)
    \/ DecideReplace(c)
    \/ DecideUnregister(c)
    \/ Find(c)
    \/ \E a \in Actors : SpawnService(c, a)
    \/ FindNothing(c)
    \/ DecideAlreadyRunning(c)

\* Broken variant: None is taken for an address.
Unwrapped(given) == given

\* The addresses among optional ones.
Some(given) == given \ {NoAddr}

\* The guard is dropped and the call returns with some of the given addresses.
Answer(c, given) ==
    /\ held' = held \cup Some(given)
    /\ holders' = holders \ {c}
    /\ phase' = [phase EXCEPT ![c] = "idle"]
    /\ op' = [op EXCEPT ![c] = "none"]
    /\ arg' = [arg EXCEPT ![c] = NoAddr]
    /\ UNCHANGED <<awaited, life, seen>>

\* What register and replace displace goes to the caller.
ReturnRegistered(c) ==
    /\ phase[c] = "insert" /\ op[c] = "register"
    /\ slot' = arg[c]
    /\ official' = official \cup {arg[c].of}
    /\ Answer(c, {arg[c], slot})

ReturnReplaced(c) ==
    /\ phase[c] = "insert" /\ op[c] = "replace"
    /\ slot' = arg[c]
    /\ official' = (official \ {slot.of}) \cup {arg[c].of}
    /\ Answer(c, {slot})

ReturnSpawned(c) ==
    /\ phase[c] = "insert" /\ op[c] = "from_registry"
    /\ slot' = arg[c]
    /\ official' = official \cup {arg[c].of}
    /\ Answer(c, {arg[c]})

ReturnRemoved(c) ==
    /\ phase[c] = "remove"
    /\ slot' = NoAddr
    /\ official' = official \ {slot.of}
    /\ Answer(c, {slot})

ReturnFound(c) ==
    /\ phase[c] = "clone"
    /\ UNCHANGED <<slot, official>>
    /\ Answer(c, {arg[c]})

\* ServiceStillRunning, which drops the address, and answers without one.
ReturnNothing(c) ==
    /\ phase[c] \in {"refuse", "true", "false", "none"}
    /\ UNCHANGED <<slot, official>>
    /\ Answer(c, {})

Return(c) ==
    \/ ReturnRegistered(c)
    \/ ReturnReplaced(c)
    \/ ReturnSpawned(c)
    \/ ReturnRemoved(c)
    \/ ReturnFound(c)
    \/ ReturnNothing(c)

ServiceStep ==
    \E a \in Actors :
        \/ Spawn(a) \/ Quit(a) \/ Lose(a)
        \/ Await(a) \/ AwaitReturns(a) \/ AwaitDropped(a)

OperationStep ==
    \E c \in Clients :
        \/ \E o \in TakesAddress, x \in held : CallWith(c, o, x)
        \/ \E o \in {"unregister", "from_registry", "already_running"} : Call(c, o)
        \/ TryCall(c)
        \/ GiveUp(c)
        \/ Lock(c)
        \/ Decide(c)
        \/ Return(c)

RegistryNext ==
    \/ ServiceStep
    \/ \E x \in held : DropAddress(x)
    \/ OperationStep

RegistrySpec == RegistryInit /\ [][RegistryNext]_vars

-----------------------------------------------------------------------------
(* Correctness *)

RegistryTypeOK ==
    /\ slot \in Addresses \cup {NoAddr}
    /\ holders \subseteq Clients
    /\ op \in [Clients -> Writes \cup Reads \cup {"none"}]
    /\ phase \in [Clients -> Phases]
    /\ arg \in [Clients -> Addresses \cup {NoAddr}]
    /\ held \subseteq Addresses
    /\ awaited \subseteq Actors
    /\ life \in [Actors -> Lives]
    /\ seen \subseteq Actors
    /\ official \subseteq Actors

\* However calls race, no service that was registered is pushed aside while it
\* lives: of all instances ever registered, and not taken out by replace or
\* unregister, the one in the map is the only one alive (service.rs:32-56,
\* 160-180).
OneServiceAlive ==
    \A a \in official : Alive(a) => slot.of = a

\* Whoever looks the service up gets the one that is registered when the call
\* returns (service.rs:107-120, 160-180).
LookupIsCurrent ==
    [][\A c \in Clients :
         /\ op[c] \in {"from_registry", "try_from_registry"}
         /\ phase[c] \in {"insert", "clone"} /\ phase'[c] = "idle"
         => slot' = arg[c]]_vars

\* An address keeps its service running wherever it is: in the map, in an
\* operation that waits for the lock, or in an Addr being awaited; a service
\* that ended for want of references never turns up again (addr.rs:64-66).
LostIsGone == \A a \in Actors : life[a] = "lost" => ~ Referenced(a)

\* As long as its end does not show through the very Addr that is registered, a
\* service leaves the map only by replace or unregister, and into the hands of
\* their caller: a register or from_registry that raced with another, or found
\* an Addr that was polled to its end, neither displaces nor drops it
\* (service.rs:32-82, 160-180).
LeavesForCause ==
    [][slot # NoAddr /\ slot' # slot =>
         \/ ~ slot.spent /\ slot.of \in seen
         \/ /\ slot \in held'
            /\ \E c \in Clients :
                  op[c] \in {"replace", "unregister"} /\ op'[c] = "none"]_vars

\* The instances that from_registry has spawned and not put into the map yet.
InTheMaking ==
    {arg[c].of : c \in {d \in Clients : phase[d] = "insert" /\ op[d] = "from_registry"}}

\* The instances that somebody else may know of, and those that have ended.
Public == {a \in Actors : life[a] # "absent"} \ InTheMaking
Ended == {a \in Actors : life[a] \in {"ended", "lost"}}

\* The address that an operation was given, or returns; and what it answers.
Given(o, p, a) == IF o \in TakesAddress \/ p = "clone" THEN a ELSE NoAddr
Gift == [c \in Clients |-> Given(op[c], phase[c], arg[c])]

Verdict(p) ==
    CASE p = "refuse" -> "refused" [] p = "clone" -> "found" [] p = "none" -> "nothing"
      [] p \in {"true", "false"} -> p
      [] OTHER -> "none"
Verdicts == [c \in Clients |-> Verdict(phase[c])]

Promise == INSTANCE Directory WITH
    entry <- slot, public <- Public, ended <- Ended, noticed <- seen,
    doing <- op, gift <- Gift, verdict <- Verdicts

\* The registry is a directory: however operations overlap, each of them takes
\* effect at one instant, an update when it returns and any other answer when it
\* is decided, and none is left half done by a future that is dropped
\* (service.rs:32-120, 160-180).
ImplementsDirectory == Promise!DirectorySpec

\* What the documentation of already_running says.
AlreadyRunningIsTrue ==
    [][\A c \in Clients :
         op[c] = "already_running" /\ phase[c] = "locked" =>
             /\ phase'[c] = "true" => Alive(slot.of)
             /\ phase'[c] = "false" => ~ Alive(slot.of)]_vars

\* What the documentation of try_from_registry says.
TryFromRegistryFindsRunning ==
    [][\A c \in Clients :
         op[c] = "try_from_registry" /\ phase[c] = "locked" /\ phase'[c] = "clone" =>
             Alive(slot.of)]_vars

=============================================================================
