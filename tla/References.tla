----------------------------- MODULE References -----------------------------
(***************************************************************************)
(* The references to one actor, one by one: who holds which of the two     *)
(* Arcs that keep its mailbox open (addr.rs, addr/), how weak references   *)
(* are upgraded, in two steps that race with the two steps of a drop, and  *)
(* how the futures of OwningAddr get at the actor's value through the one  *)
(* JoinHandle that the spawner put behind a mutex (spawner.rs, spawner/).  *)
(* The actor is reduced to how its loop ends (its own module is Actor).    *)
(***************************************************************************)
EXTENDS Naturals

CONSTANTS Refs,   \* places for references; one is taken by each
          Joins,  \* join futures
          None

ASSUME NoneAssumption == None \notin Joins

\* The closures in Arcs: ChanTx and ForceChanTx.
Handles == {"tx", "force"}

Pairs == {"addr", "owning", "sender"}  \* hold both
Strong == Pairs \cup {"caller"}
Weak == {"weak_addr", "weak_sender", "weak_caller"}
Kinds == Strong \cup Weak

Arcs(k) == IF k \in Pairs THEN Handles ELSE IF k = "caller" THEN {"tx"} ELSE {}

\* What can be made from a reference without asking whether the actor lives:
\* clone, downgrade, sender, caller and the From implementations.
FromAddr == Kinds \ {"owning"}
FromSender == {"sender", "weak_sender"}
FromCaller == {"caller", "weak_caller"}
Derivable(k) ==
    CASE k \in {"addr", "owning"} -> FromAddr
      [] k = "sender" -> FromSender
      [] k = "caller" -> FromCaller
      [] k \in Weak -> {k}

Upgraded(k) == IF k = "weak_addr" THEN "addr" ELSE "sender"

VARIABLES kind,     \* what is in each place, "none" if it is free
          phase,    \* ready; upgrading: its tx was asked for, its force was
                    \* not; dropping; consumed: by consume()
          arcs,     \* the Arcs it holds
          asked,    \* a stop is in the mailbox
          outcome,  \* of the actor's task: running, ok (with the actor), failed
          handle,   \* kept: the JoinHandle is behind its mutex
          join,     \* the futures of join()
          taker,    \* history: the future that took the handle
          consumer  \* the future that consume() awaits

refVars == <<kind, phase, arcs>>
joinVars == <<handle, join, taker, consumer>>
vars == <<refVars, asked, outcome, joinVars>>

JoinStates == {"none", "made", "waiting", "value", "nothing", "dropped"}

\* spawn_owning: the OwningAddr is the first reference.
ReferencesInit ==
    /\ \E h \in Refs :
         /\ kind = [g \in Refs |-> IF g = h THEN "owning" ELSE "none"]
         /\ arcs = [g \in Refs |-> IF g = h THEN Handles ELSE {}]
    /\ phase = [g \in Refs |-> "ready"]
    /\ asked = FALSE /\ outcome = "running"
    /\ handle = "kept" /\ join = [j \in Joins |-> "none"]
    /\ taker = None /\ consumer = None

\* The Arc's strong count is not zero.
Alive(x) == \E h \in Refs : x \in arcs[h]

Has(h, kinds) == kind[h] \in kinds /\ phase[h] = "ready"

Put(g, k, ph, held) ==
    /\ kind' = [kind EXCEPT ![g] = k]
    /\ phase' = [phase EXCEPT ![g] = ph]
    /\ arcs' = [arcs EXCEPT ![g] = held]

\* The Arcs of a reference that is done with are dropped one by one.
Discard(g, k, held) ==
    IF held = {} THEN Put(g, "none", "ready", {}) ELSE Put(g, k, "dropping", held)

-----------------------------------------------------------------------------
(* References *)

Derive(g, h, k) ==
    /\ Has(g, {"none"}) /\ Has(h, Kinds)
    /\ k \in Derivable(kind[h])
    /\ Put(g, k, "ready", Arcs(k))
    /\ UNCHANGED <<asked, outcome, joinVars>>

\* The actor's Context has weak Arcs to make weak references from.
ContextDerives(g, k) ==
    /\ Has(g, {"none"})
    /\ outcome = "running"
    /\ k \in {"weak_sender", "weak_caller"}
    /\ Put(g, k, "ready", {})
    /\ UNCHANGED <<asked, outcome, joinVars>>

\* zip evaluates both upgrades, tx first, even if that one gave nothing.
UpgradeTx(g, h) ==
    /\ Has(g, {"none"}) /\ Has(h, {"weak_addr", "weak_sender"})
    /\ Put(g, Upgraded(kind[h]), "upgrading", {"tx"} \cap {x \in Handles : Alive(x)})
    /\ UNCHANGED <<asked, outcome, joinVars>>

\* A Caller needs one Arc only; an upgrade that fails leaves nothing behind.
UpgradeCaller(g, h) ==
    /\ Has(g, {"none"}) /\ Has(h, {"weak_caller"})
    /\ Alive("tx")
    /\ Put(g, "caller", "ready", {"tx"})
    /\ UNCHANGED <<asked, outcome, joinVars>>

\* Broken variants: whoever got tx is taken to have force; one of the two Arcs
\* is enough; an upgrade looks at the running future, too.
UpgradeForceUnasked(g) ==
    /\ phase[g] = "upgrading"
    /\ IF "tx" \in arcs[g]
       THEN Put(g, kind[g], "ready", Handles)
       ELSE Discard(g, kind[g], arcs[g])
    /\ UNCHANGED <<asked, outcome, joinVars>>

UpgradeForceOrElse(g) ==
    /\ phase[g] = "upgrading"
    /\ Put(g, kind[g], "ready", arcs[g] \cup ({"force"} \cap {x \in Handles : Alive(x)}))
    /\ UNCHANGED <<asked, outcome, joinVars>>

UpgradeForceIfRunning(g) ==
    /\ phase[g] = "upgrading"
    /\ LET held == arcs[g] \cup ({"force"} \cap {x \in Handles : Alive(x)})
       IN  IF held = Handles /\ outcome = "running"
           THEN Put(g, kind[g], "ready", held)
           ELSE Discard(g, kind[g], held)
    /\ UNCHANGED <<asked, outcome, joinVars>>

UpgradeForce(g) ==
    /\ phase[g] = "upgrading"
    /\ LET held == arcs[g] \cup ({"force"} \cap {x \in Handles : Alive(x)})
       IN  IF held = Handles
           THEN Put(g, kind[g], "ready", held)
           ELSE Discard(g, kind[g], held)
    /\ UNCHANGED <<asked, outcome, joinVars>>

Release(h) ==
    /\ Has(h, Kinds)
    /\ Discard(h, kind[h], arcs[h])
    /\ UNCHANGED <<asked, outcome, joinVars>>

\* Broken variant: force stays behind.
DropArcLeaks(h) ==
    /\ phase[h] = "dropping"
    /\ Put(h, "none", "ready", arcs[h] \ {"tx"})
    /\ UNCHANGED <<asked, outcome, joinVars>>

\* Fields are dropped in the order of their declaration: tx comes first.
DropArc(h) ==
    /\ phase[h] = "dropping"
    /\ Discard(h, kind[h], IF "tx" \in arcs[h] THEN arcs[h] \ {"tx"} ELSE {})
    /\ UNCHANGED <<asked, outcome, joinVars>>

\* Addr::stop; the mailbox of an actor that has ended refuses it.
Stop(h) ==
    /\ Has(h, {"addr", "owning"})
    /\ outcome = "running"
    /\ asked' = TRUE
    /\ UNCHANGED <<refVars, outcome, joinVars>>

\* Context::stop holds force for a moment.
ContextStop(g) ==
    /\ Has(g, {"none"})
    /\ outcome = "running"
    /\ Alive("force")
    /\ asked' = TRUE
    /\ Put(g, "sender", "dropping", {"force"})
    /\ UNCHANGED <<outcome, joinVars>>

-----------------------------------------------------------------------------
(* The owner and its futures *)

\* OwningAddr::join only makes the future.
Join(h, j) ==
    /\ Has(h, {"owning"})
    /\ join[j] = "none"
    /\ join' = [join EXCEPT ![j] = "made"]
    /\ UNCHANGED <<refVars, asked, outcome, handle, taker, consumer>>

IntoAddr(h) ==
    /\ Has(h, {"owning"})
    /\ Put(h, "addr", "ready", arcs[h])
    /\ UNCHANGED <<asked, outcome, joinVars>>

\* stop()? and join(); the owner is gone either way.
StopAndJoin(h, j) ==
    /\ Has(h, {"owning"})
    /\ join[j] = "none"
    /\ IF outcome = "running"
       THEN asked' = TRUE /\ join' = [join EXCEPT ![j] = "made"]
       ELSE UNCHANGED <<asked, join>>
    /\ Discard(h, kind[h], arcs[h])
    /\ UNCHANGED <<outcome, handle, taker, consumer>>

\* Broken variant: consume() awaits the actor without stopping it.
ConsumeWithoutStop(h, j) ==
    /\ Has(h, {"owning"})
    /\ join[j] = "none"
    /\ join' = [join EXCEPT ![j] = "made"]
    /\ consumer' = j
    /\ Put(h, "owning", "consumed", arcs[h])
    /\ UNCHANGED <<asked, outcome, handle, taker>>

\* consume() keeps the owner until the future it awaits is ready.
Consume(h, j) ==
    /\ Has(h, {"owning"})
    /\ join[j] = "none"
    /\ IF outcome = "running"
       THEN /\ asked' = TRUE
            /\ join' = [join EXCEPT ![j] = "made"]
            /\ consumer' = j
            /\ Put(h, "owning", "consumed", arcs[h])
       ELSE /\ Discard(h, kind[h], arcs[h])
            /\ UNCHANGED <<asked, join, consumer>>
    /\ UNCHANGED <<outcome, handle, taker>>

\* consume() returns, or is dropped: so is the owner.
ConsumeReturns(h) ==
    /\ phase[h] = "consumed"
    /\ join[consumer] \in {"value", "nothing", "dropped"}
    /\ consumer' = None
    /\ Discard(h, kind[h], arcs[h])
    /\ UNCHANGED <<asked, outcome, handle, join, taker>>

\* Broken variant: the handle is looked at and left where it is.
PollWithoutTaking(j) ==
    /\ join[j] = "made"
    /\ join' = [join EXCEPT ![j] = "waiting"]
    /\ taker' = j
    /\ UNCHANGED <<refVars, asked, outcome, handle, consumer>>

\* The first poll locks the mutex, takes the handle and unlocks it.
Poll(j) ==
    /\ join[j] = "made"
    /\ IF handle = "kept"
       THEN /\ join' = [join EXCEPT ![j] = "waiting"]
            /\ handle' = "taken" /\ taker' = j
       ELSE /\ join' = [join EXCEPT ![j] = "nothing"]
            /\ UNCHANGED <<handle, taker>>
    /\ UNCHANGED <<refVars, asked, outcome, consumer>>

\* Errors and panics of the task are mapped to None.
JoinReturns(j) ==
    /\ join[j] = "waiting"
    /\ outcome # "running"
    /\ join' = [join EXCEPT ![j] = IF outcome = "ok" THEN "value" ELSE "nothing"]
    /\ UNCHANGED <<refVars, asked, outcome, handle, taker, consumer>>

\* Dropping a future that waits detaches the task: its value is lost.
DropJoin(j) ==
    /\ join[j] \in {"made", "waiting"}
    /\ join' = [join EXCEPT ![j] = "dropped"]
    /\ UNCHANGED <<refVars, asked, outcome, handle, taker, consumer>>

-----------------------------------------------------------------------------
(* The actor *)

End ==
    /\ outcome = "running"
    /\ outcome' \in {"ok", "failed"}
    /\ UNCHANGED <<refVars, asked, joinVars>>

\* The loop must come to an end: a stop is queued, or the stream is over.
EndWhenDue == End /\ (asked \/ \A x \in Handles : ~ Alive(x))

ReferencesNext ==
    \/ \E g \in Refs :
        \/ \E h \in Refs, k \in Kinds : Derive(g, h, k)
        \/ \E k \in Weak : ContextDerives(g, k)
        \/ \E h \in Refs : UpgradeTx(g, h) \/ UpgradeCaller(g, h)
        \/ UpgradeForce(g) \/ Release(g) \/ DropArc(g)
        \/ Stop(g) \/ ContextStop(g)
        \/ IntoAddr(g) \/ ConsumeReturns(g)
        \/ \E j \in Joins : Join(g, j) \/ StopAndJoin(g, j) \/ Consume(g, j)
    \/ \E j \in Joins : Poll(j) \/ JoinReturns(j) \/ DropJoin(j)
    \/ End

ReferencesSpec == ReferencesInit /\ [][ReferencesNext]_vars

\* Threads go on in the middle of an upgrade or a drop, futures that are
\* awaited are polled, and the loop ends when it must (Actor: StopEnds,
\* LastReferenceEnds).
ReferencesFairness ==
    /\ \A h \in Refs : WF_vars(UpgradeForce(h)) /\ WF_vars(DropArc(h))
                       /\ WF_vars(ConsumeReturns(h))
    /\ \A j \in Joins : WF_vars(Poll(j)) /\ WF_vars(JoinReturns(j))
    /\ WF_vars(EndWhenDue)

FairReferencesSpec == ReferencesSpec /\ ReferencesFairness

-----------------------------------------------------------------------------
(* Correctness *)

ReferencesTypeOK ==
    /\ kind \in [Refs -> Kinds \cup {"none"}]
    /\ phase \in [Refs -> {"ready", "upgrading", "dropping", "consumed"}]
    /\ arcs \in [Refs -> SUBSET Handles]
    /\ \A h \in Refs : phase[h] \in {"ready", "consumed"} => arcs[h] = Arcs(kind[h])
    /\ \A h \in Refs : phase[h] = "upgrading" => arcs[h] \subseteq {"tx"}
    /\ \A h \in Refs : phase[h] # "ready" => kind[h] \in Kinds
    /\ asked \in BOOLEAN /\ outcome \in {"running", "ok", "failed"}
    /\ handle \in {"kept", "taken"} /\ join \in [Joins -> JoinStates]
    /\ taker \in Joins \cup {None} /\ consumer \in Joins \cup {None}

\* A closure that nobody holds any more is never held again, however upgrades
\* race with drops: so Actor and Channel may keep a set of closures that only
\* shrinks in the place of counts (weak_addr.rs:34-45, sender.rs:61-66).
NeverRegained ==
    [][\A x \in Handles : ~ Alive(x) => ~ Alive(x)']_vars

\* An upgrade to an Addr or a Sender gives None only when no Addr and no Sender
\* is left, nor will be: never because it met a drop or another upgrade half-way
\* (weak_addr.rs:10-11, weak_sender.rs:16-17).
UpgradeFailsForCause ==
    [][\A g \in Refs :
         phase[g] = "upgrading" /\ phase'[g] # "upgrading" /\ ~ Has(g, Strong)'
         => \A h \in Refs : ~ Has(h, Pairs)']_vars

\* The actor's value is given out once, to the future that took the handle, and
\* only if the loop ended well; whoever took the handle gets nothing only if it
\* did not (addr.rs:228-247, tokio_spawner.rs:15-29).
ValueGoesToTaker ==
    \A j \in Joins :
        /\ join[j] = "value" => j = taker /\ outcome = "ok"
        /\ join[j] = "nothing" => j # taker \/ outcome = "failed"

\* Once nobody holds a strong reference or is upgrading a weak one, the actor
\* ends, whatever drops are under way (addr.rs:63-66). Upgrades must be over:
\* two that fail in turns can hand the last closure to one another for ever.
Unreferenced ==
    \A h \in Refs : ~ Has(h, Strong) /\ phase[h] \notin {"upgrading", "consumed"}
UnreferencedEnds == Unreferenced ~> (outcome # "running" \/ ~ Unreferenced)

\* consume() returns although it holds on to the actor that it waits for
\* (addr.rs:242-247).
ConsumptionEnds == consumer # None ~> consumer = None

=============================================================================
