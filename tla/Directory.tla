------------------------------ MODULE Directory ------------------------------
(***************************************************************************)
(* What the service registry promises the tasks that use it, with the lock *)
(* and the steps of the operations hidden: each operation has its effect   *)
(* at one instant between its call and its return, and decides by the      *)
(* entry of that very instant.  Whether the entry still runs is decided by *)
(* what the address that is listed shows of it, which may be late, and is  *)
(* nothing for a spent address, but is never wrong.                        *)
(***************************************************************************)
CONSTANTS Clients, Actors, NoActor

VARIABLES entry,    \* the address that is listed, or NoAddr
          public,   \* instances whose address was ever given to anybody
          ended,    \* instances that have ended
          noticed,  \* those whose end somebody has seen
          held,     \* addresses that clients have
          doing,    \* per client: the operation it has called
          gift,     \* per client: the address it gave, or will be given
          verdict   \* per client: the answer that awaits its return

directoryVars == <<entry, public, ended, noticed, held, doing, gift, verdict>>

\* An address that was used up in noticing the end of its instance is spent.
Address(a) == [of |-> a, spent |-> FALSE]
Spent(a) == [of |-> a, spent |-> TRUE]
NoAddr == Address(NoActor)

ShowsEnd == ~ entry.spent /\ entry.of \in noticed
NoService == entry = NoAddr \/ ShowsEnd

DirectoryInit ==
    /\ entry = NoAddr
    /\ public = {} /\ ended = {} /\ noticed = {} /\ held = {}
    /\ doing = [c \in Clients |-> "none"]
    /\ gift = [c \in Clients |-> NoAddr]
    /\ verdict = [c \in Clients |-> "none"]

-----------------------------------------------------------------------------
(* The instances of the service *)

Spawn(a) ==
    /\ held' = held \cup {Address(a)}
    /\ a \notin public \cup ended
    /\ public' = public \cup {a}
    /\ UNCHANGED <<entry, ended, noticed, doing, gift, verdict>>

End(a) ==
    /\ a \notin ended
    /\ ended' = ended \cup {a}
    /\ UNCHANGED <<entry, public, noticed, held, doing, gift, verdict>>

Notice(a) ==
    /\ a \in ended /\ a \in public
    /\ noticed' = noticed \cup {a}
    /\ held' \in {held, held \cup {Spent(a)}}
    /\ UNCHANGED <<entry, public, ended, doing, gift, verdict>>

Drop(x) ==
    /\ held' = held \ {x}
    /\ UNCHANGED <<entry, public, ended, noticed, doing, gift, verdict>>

-----------------------------------------------------------------------------
(* The operations *)

Call(c, o, given) ==
    /\ doing[c] = "none"
    /\ given \in held \cup {NoAddr}
    /\ doing' = [doing EXCEPT ![c] = o]
    /\ gift' = [gift EXCEPT ![c] = given]
    /\ UNCHANGED <<entry, public, ended, noticed, held, verdict>>

Reset(c) ==
    /\ doing' = [doing EXCEPT ![c] = "none"]
    /\ gift' = [gift EXCEPT ![c] = NoAddr]
    /\ verdict' = [verdict EXCEPT ![c] = "none"]

\* An operation that is given up has had no effect.
GiveUp(c) ==
    /\ doing[c] # "none" /\ verdict[c] = "none"
    /\ Reset(c)
    /\ UNCHANGED <<entry, public, ended, noticed, held>>

\* The effect and the return of an operation that lists or removes a service.
Update(c, o, new, answer) ==
    /\ doing[c] = o /\ verdict[c] = "none"
    /\ entry' = new
    /\ held' = held \cup (answer \ {NoAddr})
    /\ Reset(c)
    /\ UNCHANGED <<ended, noticed>>

Register(c) ==
    /\ NoService
    /\ Update(c, "register", gift[c], {gift[c], entry})
    /\ UNCHANGED public

Replace(c) == Update(c, "replace", gift[c], {entry}) /\ UNCHANGED public

Unregister(c) == Update(c, "unregister", NoAddr, {entry}) /\ UNCHANGED public

\* from_registry makes an instance that nobody has known before.
Create(c, a) ==
    /\ NoService
    /\ Update(c, "from_registry", Address(a), {Address(a)})
    /\ a \notin public
    /\ public' = public \cup {a}

\* The effect of an operation that leaves the entry as it is.
Answer(c, ops, v) ==
    /\ doing[c] \in ops /\ verdict[c] = "none"
    /\ verdict' = [verdict EXCEPT ![c] = v]
    /\ UNCHANGED <<entry, public, ended, noticed, held, doing>>

Refuse(c) == ~ NoService /\ Answer(c, {"register"}, "refused") /\ UNCHANGED gift

Find(c) ==
    /\ ~ NoService
    /\ Answer(c, {"from_registry", "try_from_registry"}, "found")
    /\ gift' = [gift EXCEPT ![c] = entry]

FindNothing(c) ==
    NoService /\ Answer(c, {"try_from_registry"}, "nothing") /\ UNCHANGED gift

\* already_running tells whether the listed service is known to have ended.
Look(c) ==
    /\ Answer(c, {"already_running"}, IF entry = NoAddr THEN "nothing"
                                      ELSE IF ShowsEnd THEN "true" ELSE "false")
    /\ UNCHANGED gift

Return(c) ==
    /\ verdict[c] # "none"
    /\ held' = held \cup (IF verdict[c] = "found" THEN {gift[c]} ELSE {})
    /\ Reset(c)
    /\ UNCHANGED <<entry, public, ended, noticed>>

DirectoryNext ==
    \/ \E a \in Actors : Spawn(a) \/ End(a) \/ Notice(a)
    \/ \E x \in held : Drop(x)
    \/ \E c \in Clients :
        \/ \E o \in {"register", "replace"}, x \in held : Call(c, o, x)
        \/ \E o \in {"unregister", "from_registry", "try_from_registry",
                     "already_running"} : Call(c, o, NoAddr)
        \/ GiveUp(c)
        \/ Register(c) \/ Replace(c) \/ Unregister(c)
        \/ \E a \in Actors : Create(c, a)
        \/ Refuse(c) \/ Find(c) \/ FindNothing(c) \/ Look(c)
        \/ Return(c)

DirectorySpec == DirectoryInit /\ [][DirectoryNext]_directoryVars

=============================================================================
