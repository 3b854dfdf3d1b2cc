-------------------------- MODULE ReferencesProofs --------------------------
(***************************************************************************)
(* For any number of references and join futures: a closure that is gone   *)
(* stays gone, an upgrade fails only for that reason, and the actor's      *)
(* value goes to the one future that took the handle; what consume() waits *)
(* for is under way.                                                       *)
(***************************************************************************)
EXTENDS References, TLAPS

\* An upgrade that found no tx was right, and still is.
UpgradesInv ==
    \A g \in Refs :
        /\ phase[g] = "upgrading" => kind[g] \in {"addr", "sender"}
        /\ phase[g] = "upgrading" /\ "tx" \notin arcs[g] => ~ Alive("tx")

\* The future that took the handle is the only one that ever waits.
TakerInv ==
    /\ handle = "kept" => taker = None
    /\ \A j \in Joins :
         /\ join[j] = "waiting" => j = taker
         /\ join[j] \in {"none", "made"} => j # taker

ReferencesInv == ReferencesTypeOK /\ UpgradesInv /\ TakerInv /\ ValueGoesToTaker

LEMMA ReferencesInvInit == ReferencesInit => ReferencesInv
  <1> SUFFICES ASSUME ReferencesInit PROVE ReferencesInv
    OBVIOUS
  <1>1. PICK h \in Refs :
          /\ kind = [g \in Refs |-> IF g = h THEN "owning" ELSE "none"]
          /\ arcs = [g \in Refs |-> IF g = h THEN Handles ELSE {}]
    BY DEF ReferencesInit
  <1>2. ReferencesTypeOK
    BY <1>1 DEF ReferencesInit, ReferencesTypeOK, Kinds, Strong, Pairs, Arcs, JoinStates
  <1>3. UpgradesInv /\ TakerInv /\ ValueGoesToTaker
    BY NoneAssumption DEF ReferencesInit, UpgradesInv, TakerInv, ValueGoesToTaker
  <1> QED
    BY <1>2, <1>3 DEF ReferencesInv

-----------------------------------------------------------------------------
(* What a step does to the places: at most one is written, with Arcs that    *)
(* somebody held.                                                            *)

\* Place g gets a well-formed reference with Arcs that were alive.
Written(g, k, ph, held) ==
    /\ Put(g, k, ph, held)
    /\ k \in Kinds \cup {"none"} /\ ph \in {"ready", "upgrading", "dropping", "consumed"}
    /\ held \subseteq {x \in Handles : Alive(x)}
    /\ ph # "ready" => k \in Kinds
    /\ ph \in {"ready", "consumed"} => held = Arcs(k)
    /\ ph = "upgrading" => k \in {"addr", "sender"} /\ held = {"tx"} \cap {x \in Handles : Alive(x)}

LEMMA HeldIsAlive ==
    ASSUME ReferencesTypeOK, NEW h \in Refs
    PROVE  arcs[h] \subseteq {x \in Handles : Alive(x)}
  BY DEF ReferencesTypeOK, Alive

LEMMA DiscardIsWritten ==
    ASSUME NEW g \in Refs, NEW k \in Kinds,
           NEW held \in SUBSET {x \in Handles : Alive(x)}, Discard(g, k, held)
    PROVE  \E l, ph : Written(g, l, ph, held)
  <1>1. CASE held = {}
    BY <1>1 DEF Discard, Written, Arcs, Pairs
  <1>2. CASE held # {}
    BY <1>2 DEF Discard, Written
  <1> QED
    BY <1>1, <1>2

LEMMA PlaceStep ==
    ASSUME ReferencesInv, [ReferencesNext]_vars
    PROVE  \/ UNCHANGED refVars
           \/ \E g \in Refs : \E k, ph, held : Written(g, k, ph, held)
  <1> DEFINE Writes(g) == \E k, ph, held : Written(g, k, ph, held)
  <1> USE DEF ReferencesInv
  <1>1. ASSUME NEW g \in Refs, NEW h \in Refs, NEW k \in Kinds, Derive(g, h, k)
        PROVE  Writes(g)
    <2>1. Put(g, k, "ready", Arcs(k)) /\ arcs[h] = Arcs(kind[h])
      BY <1>1 DEF Derive, Has, ReferencesTypeOK
    <2>2. Arcs(k) \subseteq Arcs(kind[h])
      BY <1>1 DEF Derive, Has, Derivable, FromAddr, FromSender, FromCaller, Kinds,
              Strong, Weak, Pairs, Arcs, Handles
    <2>3. Written(g, k, "ready", Arcs(k))
      BY <2>1, <2>2, HeldIsAlive DEF Written
    <2> QED
      BY <2>3
  <1>2. ASSUME NEW g \in Refs, NEW k \in Weak, ContextDerives(g, k)
        PROVE  Writes(g)
    <2>1. Written(g, k, "ready", {})
      BY <1>2 DEF ContextDerives, Written, Kinds, Weak, Strong, Pairs, Arcs
    <2> QED
      BY <2>1
  <1>3. ASSUME NEW g \in Refs, NEW h \in Refs, UpgradeTx(g, h)
        PROVE  Writes(g)
    <2>1. Written(g, Upgraded(kind[h]), "upgrading", {"tx"} \cap {x \in Handles : Alive(x)})
      BY <1>3 DEF UpgradeTx, Written, Upgraded, Kinds, Strong, Pairs
    <2> QED
      BY <2>1
  <1>3a. ASSUME NEW g \in Refs, NEW h \in Refs, UpgradeCaller(g, h)
         PROVE  Writes(g)
    <2>1. Written(g, "caller", "ready", {"tx"})
      BY <1>3a DEF UpgradeCaller, Written, Kinds, Strong, Pairs, Arcs, Handles
    <2> QED
      BY <2>1
  <1>4. ASSUME NEW g \in Refs, UpgradeForce(g)
        PROVE  Writes(g)
    <2> DEFINE held == arcs[g] \cup ({"force"} \cap {x \in Handles : Alive(x)})
    <2>1. kind[g] \in {"addr", "sender"} /\ held \in SUBSET {x \in Handles : Alive(x)}
      BY <1>4, HeldIsAlive DEF UpgradeForce, UpgradesInv
    <2>2. CASE held = Handles
      <3>1. Written(g, kind[g], "ready", held)
        BY <1>4, <2>1, <2>2 DEF UpgradeForce, Written, Kinds, Strong, Pairs, Arcs
      <3> QED
        BY <3>1
    <2>3. CASE held # Handles
      <3>1. Discard(g, kind[g], held)
        BY <1>4, <2>3 DEF UpgradeForce
      <3> QED
        BY <2>1, <3>1, DiscardIsWritten DEF Kinds, Strong, Pairs
    <2> QED
      BY <2>2, <2>3
  <1>5. ASSUME NEW g \in Refs, kind[g] \in Kinds, NEW held \in SUBSET arcs[g],
               Discard(g, kind[g], held)
        PROVE  Writes(g)
    BY <1>5, HeldIsAlive, DiscardIsWritten
  <1>6. ASSUME NEW g \in Refs, phase[g] # "ready" PROVE kind[g] \in Kinds
    BY <1>6 DEF ReferencesTypeOK
  <1>7. ASSUME NEW g \in Refs, Release(g) PROVE Writes(g)
    BY <1>5, <1>7 DEF Release, Has
  <1>8. ASSUME NEW g \in Refs, DropArc(g) PROVE Writes(g)
    <2> DEFINE held == IF "tx" \in arcs[g] THEN arcs[g] \ {"tx"} ELSE {}
    <2>1. held \in SUBSET arcs[g] /\ Discard(g, kind[g], held) /\ kind[g] \in Kinds
      BY <1>6, <1>8 DEF DropArc
    <2> HIDE DEF held
    <2> QED
      BY <1>5, <2>1
  <1>9. ASSUME NEW g \in Refs, ContextStop(g) PROVE Writes(g)
    <2>1. Written(g, "sender", "dropping", {"force"})
      BY <1>9 DEF ContextStop, Written, Kinds, Strong, Pairs, Handles
    <2> QED
      BY <2>1
  <1>10. ASSUME NEW g \in Refs, IntoAddr(g) PROVE Writes(g)
    <2>1. Written(g, "addr", "ready", arcs[g])
      BY <1>10, HeldIsAlive
         DEF IntoAddr, Has, Written, ReferencesTypeOK, Kinds, Strong, Pairs, Arcs
    <2> QED
      BY <2>1
  <1>11. ASSUME NEW g \in Refs, NEW j \in Joins, StopAndJoin(g, j) PROVE Writes(g)
    BY <1>5, <1>11 DEF StopAndJoin, Has, Kinds, Strong, Pairs
  <1>12. ASSUME NEW g \in Refs, NEW j \in Joins, Consume(g, j) PROVE Writes(g)
    <2>1. CASE Put(g, "owning", "consumed", arcs[g])
      <3>1. Written(g, "owning", "consumed", arcs[g])
        BY <1>12, <2>1, HeldIsAlive
           DEF Consume, Has, Written, ReferencesTypeOK, Kinds, Strong, Pairs, Arcs
      <3> QED
        BY <3>1
    <2>2. CASE Discard(g, kind[g], arcs[g])
      BY <1>5, <1>12, <2>2 DEF Consume, Has, Kinds, Strong, Pairs
    <2> QED
      BY <1>12, <2>1, <2>2 DEF Consume
  <1>13. ASSUME NEW g \in Refs, ConsumeReturns(g) PROVE Writes(g)
    BY <1>5, <1>6, <1>13 DEF ConsumeReturns
  <1>14. ASSUME NEW j \in Joins, Poll(j) \/ JoinReturns(j) \/ DropJoin(j)
         PROVE  UNCHANGED refVars
    BY <1>14 DEF Poll, JoinReturns, DropJoin
  <1>15. ASSUME NEW g \in Refs, Stop(g) \/ \E j \in Joins : Join(g, j)
         PROVE  UNCHANGED refVars
    BY <1>15 DEF Stop, Join
  <1>16. ASSUME End \/ UNCHANGED vars PROVE UNCHANGED refVars
    BY <1>16 DEF End, vars
  <1> HIDE DEF Writes
  <1>17. UNCHANGED refVars \/ \E g \in Refs : Writes(g)
    BY <1>1, <1>2, <1>3, <1>3a, <1>4, <1>7, <1>8, <1>9, <1>10, <1>11, <1>12, <1>13, <1>14,
       <1>15, <1>16 DEF ReferencesNext
  <1> QED
    BY <1>17 DEF Writes

LEMMA AliveShrinks ==
    ASSUME ReferencesInv, [ReferencesNext]_vars, NEW x \in Handles, Alive(x)'
    PROVE  Alive(x)
  <1>1. CASE UNCHANGED refVars
    BY <1>1 DEF Alive, refVars
  <1>2. ASSUME NEW g \in Refs, NEW k, NEW ph, NEW held, Written(g, k, ph, held)
        PROVE  Alive(x)
    BY <1>2 DEF Alive, Written, Put, ReferencesInv, ReferencesTypeOK
  <1> QED
    BY <1>1, <1>2, PlaceStep

-----------------------------------------------------------------------------
(* The inductive invariant *)

\* What ReferencesTypeOK and UpgradesInv say of the places.
PlacesInv ==
    /\ kind \in [Refs -> Kinds \cup {"none"}]
    /\ phase \in [Refs -> {"ready", "upgrading", "dropping", "consumed"}]
    /\ arcs \in [Refs -> SUBSET Handles]
    /\ \A h \in Refs :
         /\ phase[h] \in {"ready", "consumed"} => arcs[h] = Arcs(kind[h])
         /\ phase[h] = "upgrading" => arcs[h] \subseteq {"tx"}
         /\ phase[h] # "ready" => kind[h] \in Kinds
         /\ phase[h] = "upgrading" => kind[h] \in {"addr", "sender"}
         /\ phase[h] = "upgrading" /\ "tx" \notin arcs[h] => ~ Alive("tx")

LEMMA PlacesNext ==
    ASSUME ReferencesInv, [ReferencesNext]_vars
    PROVE  PlacesInv'
  <1>1. PlacesInv
    BY DEF ReferencesInv, ReferencesTypeOK, UpgradesInv, PlacesInv
  <1>2. CASE UNCHANGED refVars
    BY <1>1, <1>2 DEF PlacesInv, refVars, Alive
  <1>3. ASSUME NEW g \in Refs, NEW k, NEW ph, NEW held, Written(g, k, ph, held)
        PROVE  PlacesInv'
    <2>1. /\ kind' = [kind EXCEPT ![g] = k]
          /\ phase' = [phase EXCEPT ![g] = ph]
          /\ arcs' = [arcs EXCEPT ![g] = held]
      BY <1>3 DEF Written, Put
    <2>2. /\ k \in Kinds \cup {"none"}
          /\ ph \in {"ready", "upgrading", "dropping", "consumed"}
          /\ held \subseteq Handles
          /\ ph \in {"ready", "consumed"} => held = Arcs(k)
          /\ ph = "upgrading" => k \in {"addr", "sender"} /\ held \subseteq {"tx"}
          /\ ph = "upgrading" /\ "tx" \notin held => ~ Alive("tx")
          /\ ph # "ready" => k \in Kinds
      BY <1>3 DEF Written, Handles
    <2>3. ~ Alive("tx") => ~ Alive("tx")'
      BY AliveShrinks DEF Handles
    <2>4. /\ kind' \in [Refs -> Kinds \cup {"none"}]
          /\ phase' \in [Refs -> {"ready", "upgrading", "dropping", "consumed"}]
          /\ arcs' \in [Refs -> SUBSET Handles]
      BY <1>1, <2>1, <2>2 DEF PlacesInv
    <2>5. ASSUME NEW h \in Refs
          PROVE  /\ phase'[h] \in {"ready", "consumed"} => arcs'[h] = Arcs(kind'[h])
                 /\ phase'[h] = "upgrading" => arcs'[h] \subseteq {"tx"}
                 /\ phase'[h] # "ready" => kind'[h] \in Kinds
                 /\ phase'[h] = "upgrading" => kind'[h] \in {"addr", "sender"}
                 /\ phase'[h] = "upgrading" /\ "tx" \notin arcs'[h] => ~ Alive("tx")'
      <3>1. CASE h = g
        BY <1>1, <2>1, <2>2, <2>3, <3>1 DEF PlacesInv
      <3>2. CASE h # g
        BY <1>1, <2>1, <2>3, <3>2 DEF PlacesInv
      <3> QED
        BY <3>1, <3>2
    <2> QED
      BY <2>4, <2>5 DEF PlacesInv
  <1> QED
    BY <1>2, <1>3, PlaceStep

\* What ReferencesTypeOK, TakerInv and ValueGoesToTaker say of the rest.
JoinsInv ==
    /\ asked \in BOOLEAN /\ outcome \in {"running", "ok", "failed"}
    /\ handle \in {"kept", "taken"} /\ join \in [Joins -> JoinStates]
    /\ taker \in Joins \cup {None} /\ consumer \in Joins \cup {None}
    /\ TakerInv /\ ValueGoesToTaker

LEMMA JoinsNext ==
    ASSUME ReferencesInv, [ReferencesNext]_vars
    PROVE  JoinsInv'
  <1>1. JoinsInv
    BY DEF ReferencesInv, ReferencesTypeOK, JoinsInv
  <1> USE NoneAssumption DEF JoinsInv, TakerInv, ValueGoesToTaker, JoinStates
  <1>2. ASSUME UNCHANGED <<outcome, joinVars>>, asked' \in BOOLEAN PROVE JoinsInv'
    BY <1>1, <1>2 DEF joinVars
  <1>3. ASSUME NEW j \in Joins, join[j] = "none", join' = [join EXCEPT ![j] = "made"],
               UNCHANGED <<outcome, handle, taker>>, asked' \in BOOLEAN,
               consumer' \in Joins \cup {None}
        PROVE  JoinsInv'
    BY <1>1, <1>3
  <1>4. ASSUME NEW g \in Refs,
               \/ \E h \in Refs, k \in Kinds : Derive(g, h, k)
               \/ \E k \in Weak : ContextDerives(g, k)
               \/ \E h \in Refs : UpgradeTx(g, h) \/ UpgradeCaller(g, h)
               \/ UpgradeForce(g) \/ Release(g) \/ DropArc(g)
               \/ Stop(g) \/ ContextStop(g) \/ IntoAddr(g)
        PROVE  UNCHANGED <<outcome, joinVars>> /\ asked' \in BOOLEAN
    BY <1>1, <1>4 DEF Derive, ContextDerives, UpgradeTx, UpgradeCaller, UpgradeForce, Release,
                      DropArc, Stop, ContextStop, IntoAddr
  <1>5. ASSUME NEW g \in Refs, ConsumeReturns(g) PROVE JoinsInv'
    BY <1>1, <1>5 DEF ConsumeReturns
  <1>6. ASSUME NEW g \in Refs, NEW j \in Joins, Join(g, j) PROVE JoinsInv'
    BY <1>1, <1>3, <1>6 DEF Join
  <1>7. ASSUME NEW g \in Refs, NEW j \in Joins, StopAndJoin(g, j) PROVE JoinsInv'
    <2>1. CASE outcome = "running"
      BY <1>1, <1>3, <1>7, <2>1 DEF StopAndJoin
    <2>2. CASE outcome # "running"
      BY <1>1, <1>2, <1>7, <2>2 DEF StopAndJoin, joinVars
    <2> QED
      BY <2>1, <2>2
  <1>8. ASSUME NEW g \in Refs, NEW j \in Joins, Consume(g, j) PROVE JoinsInv'
    <2>1. CASE outcome = "running"
      BY <1>1, <1>3, <1>8, <2>1 DEF Consume
    <2>2. CASE outcome # "running"
      BY <1>1, <1>2, <1>8, <2>2 DEF Consume, joinVars
    <2> QED
      BY <2>1, <2>2
  <1>9. ASSUME NEW j \in Joins, Poll(j) PROVE JoinsInv'
    <2>1. CASE handle = "kept"
      BY <1>1, <1>9, <2>1 DEF Poll
    <2>2. CASE handle # "kept"
      BY <1>1, <1>9, <2>2 DEF Poll
    <2> QED
      BY <2>1, <2>2
  <1>10. ASSUME NEW j \in Joins, JoinReturns(j) PROVE JoinsInv'
    BY <1>1, <1>10 DEF JoinReturns
  <1>11. ASSUME NEW j \in Joins, DropJoin(j) PROVE JoinsInv'
    BY <1>1, <1>11 DEF DropJoin
  <1>12. CASE End
    BY <1>1, <1>12 DEF End, joinVars
  <1>13. CASE UNCHANGED vars
    BY <1>1, <1>2, <1>13 DEF vars
  <1> HIDE DEF JoinsInv
  <1>14. ASSUME ReferencesNext PROVE JoinsInv'
    <2>1. ASSUME NEW g \in Refs,
                 \/ \E h \in Refs, k \in Kinds : Derive(g, h, k)
                 \/ \E k \in Weak : ContextDerives(g, k)
                 \/ \E h \in Refs : UpgradeTx(g, h) \/ UpgradeCaller(g, h)
                 \/ UpgradeForce(g) \/ Release(g) \/ DropArc(g)
                 \/ Stop(g) \/ ContextStop(g) \/ IntoAddr(g)
          PROVE  JoinsInv'
      BY <1>2, <1>4, <2>1
    <2> QED
      BY <1>5, <1>6, <1>7, <1>8, <1>9, <1>10, <1>11, <1>12, <1>14, <2>1 DEF ReferencesNext
  <1> QED
    BY <1>13, <1>14

LEMMA ReferencesInvNext ==
    ASSUME ReferencesInv, [ReferencesNext]_vars
    PROVE  ReferencesInv'
  BY PlacesNext, JoinsNext
     DEF PlacesInv, JoinsInv, ReferencesInv, ReferencesTypeOK, UpgradesInv

THEOREM ReferencesInvariant == ReferencesSpec => []ReferencesInv
  BY ReferencesInvInit, ReferencesInvNext, PTL DEF ReferencesSpec

-----------------------------------------------------------------------------
(* What follows *)

\* Every place holds the closures its reference needs, whatever was derived,
\* upgraded or dropped half-way.
THEOREM ReferencesTypeCorrect == ReferencesSpec => []ReferencesTypeOK
  BY ReferencesInvariant, PTL DEF ReferencesInv

\* The actor's value goes to the future that took the handle, and to no other.
THEOREM ValueGivenOnce == ReferencesSpec => []ValueGoesToTaker
  BY ReferencesInvariant, PTL DEF ReferencesInv

\* A closure that is gone is gone for good, however upgrades and drops race.
THEOREM ClosuresStayGone == ReferencesSpec => NeverRegained
  <1>1. ReferencesInv /\ [ReferencesNext]_vars
        => [\A x \in Handles : ~ Alive(x) => ~ Alive(x)']_vars
    BY AliveShrinks
  <1> QED
    BY <1>1, ReferencesInvariant, PTL DEF ReferencesSpec, NeverRegained

LEMMA UpgradeEndsByUpgrade ==
    ASSUME ReferencesInv, [ReferencesNext]_vars, NEW g \in Refs,
           phase[g] = "upgrading", phase'[g] # "upgrading"
    PROVE  UpgradeForce(g)
  <1> USE DEF ReferencesInv, ReferencesTypeOK
  <1>1. ASSUME NEW f \in Refs, phase[f] # "upgrading", NEW k, NEW ph, NEW held,
               Put(f, k, ph, held) \/ Discard(f, k, held)
        PROVE  FALSE
    BY <1>1 DEF Put, Discard
  <1>2. ASSUME UNCHANGED refVars PROVE FALSE
    BY <1>2 DEF refVars
  <1>3. ASSUME NEW f \in Refs, NEW h \in Refs, NEW k \in Kinds, Derive(f, h, k)
        PROVE  FALSE
    BY <1>1, <1>3 DEF Derive, Has
  <1>4. ASSUME NEW f \in Refs, NEW k \in Weak, ContextDerives(f, k) PROVE FALSE
    BY <1>1, <1>4 DEF ContextDerives, Has
  <1>5. ASSUME NEW f \in Refs, NEW h \in Refs, UpgradeTx(f, h) \/ UpgradeCaller(f, h)
        PROVE  FALSE
    BY <1>1, <1>5 DEF UpgradeTx, UpgradeCaller, Has
  <1>6. ASSUME NEW f \in Refs, UpgradeForce(f) PROVE f = g
    BY <1>6 DEF UpgradeForce, Put, Discard
  <1>7. ASSUME NEW f \in Refs, Release(f) \/ DropArc(f) \/ ConsumeReturns(f) PROVE FALSE
    <2>1. phase[f] # "upgrading"
      BY <1>7 DEF Release, DropArc, ConsumeReturns, Has
    <2>2. \E k, held : Discard(f, k, held)
      BY <1>7 DEF Release, DropArc, ConsumeReturns
    <2> QED
      BY <1>1, <2>1, <2>2
  <1>8. ASSUME NEW f \in Refs, ContextStop(f) \/ IntoAddr(f) PROVE FALSE
    BY <1>1, <1>8 DEF ContextStop, IntoAddr, Has
  <1>9. ASSUME NEW f \in Refs, NEW j \in Joins, StopAndJoin(f, j) \/ Consume(f, j)
        PROVE  FALSE
    BY <1>1, <1>9 DEF StopAndJoin, Consume, Has
  <1>10. ASSUME \/ \E f \in Refs : Stop(f) \/ \E j \in Joins : Join(f, j)
                \/ \E j \in Joins : Poll(j) \/ JoinReturns(j) \/ DropJoin(j)
                \/ End \/ UNCHANGED vars
         PROVE  FALSE
    BY <1>2, <1>10 DEF Stop, Join, Poll, JoinReturns, DropJoin, End, vars
  <1> QED
    BY <1>3, <1>4, <1>5, <1>6, <1>7, <1>8, <1>9, <1>10 DEF ReferencesNext

LEMMA FailureHasCause ==
    ASSUME ReferencesInv, [ReferencesNext]_vars, NEW g \in Refs,
           phase[g] = "upgrading", phase'[g] # "upgrading", ~ Has(g, Strong)',
           NEW h \in Refs
    PROVE  ~ Has(h, Pairs)'
  <1> SUFFICES ASSUME Has(h, Pairs)' PROVE FALSE
    OBVIOUS
  <1>1. UpgradeForce(g)
    BY UpgradeEndsByUpgrade
  <1>2. Alive("tx")' /\ Alive("force")'
    <2>1. arcs'[h] = Handles
      BY PlacesNext DEF PlacesInv, Has, Arcs
    <2> QED
      BY <2>1 DEF Alive, Handles
  <1>3. Alive("tx") /\ Alive("force")
    BY <1>2, AliveShrinks DEF Handles
  <1>4. "tx" \in arcs[g] /\ kind[g] \in {"addr", "sender"}
    BY <1>3 DEF ReferencesInv, UpgradesInv
  <1>5. Put(g, kind[g], "ready", Handles)
    <2>1. arcs[g] \cup ({"force"} \cap {x \in Handles : Alive(x)}) = Handles
      BY <1>3, <1>4 DEF Handles, ReferencesInv, ReferencesTypeOK
    <2> QED
      BY <1>1, <2>1 DEF UpgradeForce
  <1>6. kind'[g] = kind[g] /\ phase'[g] = "ready"
    BY <1>5 DEF Put, ReferencesInv, ReferencesTypeOK
  <1> QED
    BY <1>4, <1>6 DEF Has, Strong, Pairs

\* An upgrade fails only when no Addr and no Sender is left to upgrade from.
THEOREM UpgradesFailRightly == ReferencesSpec => UpgradeFailsForCause
  <1>1. ReferencesInv /\ [ReferencesNext]_vars
        => [\A g \in Refs :
              phase[g] = "upgrading" /\ phase'[g] # "upgrading" /\ ~ Has(g, Strong)'
              => \A h \in Refs : ~ Has(h, Pairs)']_vars
    BY FailureHasCause
  <1> QED
    BY <1>1, ReferencesInvariant, PTL DEF ReferencesSpec, UpgradeFailsForCause

-----------------------------------------------------------------------------
(* The owner *)

\* There is one owner at most, and consume() has it as long as it waits.
OneOwner ==
    /\ \A g, h \in Refs : kind[g] = "owning" /\ kind[h] = "owning" => g = h
    /\ \A h \in Refs : phase[h] = "consumed" => kind[h] = "owning"
    /\ consumer # None <=> \E h \in Refs : phase[h] = "consumed"

\* What consume() waits for is on its way: the stop is in the mailbox, or the
\* actor has ended, and the future that it awaits has been made.
ConsumerIsServed ==
    consumer # None => /\ asked \/ outcome # "running"
                       /\ join[consumer] # "none"

OwnerInv == OneOwner /\ ConsumerIsServed

LEMMA NothingIsTakenBack ==
    ASSUME ReferencesInv, [ReferencesNext]_vars
    PROVE  /\ asked \/ outcome # "running" => asked' \/ outcome' # "running"
           /\ \A j \in Joins : join[j] # "none" => join'[j] # "none"
  BY DEF ReferencesNext, Derive, ContextDerives, UpgradeTx, UpgradeCaller, UpgradeForce,
         Release, DropArc, Stop, ContextStop, IntoAddr, ConsumeReturns, Join, StopAndJoin,
         Consume, Poll, JoinReturns, DropJoin, End, vars, joinVars, ReferencesInv,
         ReferencesTypeOK

\* A place is written without being consumed, and an owner is not made anew.
Rewritten(g, k, ph) ==
    /\ kind' = [kind EXCEPT ![g] = k] /\ phase' = [phase EXCEPT ![g] = ph]
    /\ phase[g] # "consumed" /\ ph # "consumed"
    /\ k = "owning" => kind[g] = "owning"

LEMMA RewrittenKeepsOwner ==
    ASSUME ReferencesInv, OneOwner, NEW g \in Refs, NEW k, NEW ph, Rewritten(g, k, ph),
           consumer' = consumer
    PROVE  OneOwner'
  BY DEF ReferencesInv, ReferencesTypeOK, OneOwner, Rewritten

LEMMA DiscardIsRewritten ==
    ASSUME NEW g \in Refs, phase[g] # "consumed", NEW held, Discard(g, kind[g], held)
    PROVE  \E k, ph : Rewritten(g, k, ph)
  <1>1. CASE held = {}
    <2>1. Rewritten(g, "none", "ready")
      BY <1>1 DEF Discard, Put, Rewritten
    <2> QED
      BY <2>1
  <1>2. CASE held # {}
    <2>1. Rewritten(g, kind[g], "dropping")
      BY <1>2 DEF Discard, Put, Rewritten
    <2> QED
      BY <2>1
  <1> QED
    BY <1>1, <1>2

LEMMA OwnerStep ==
    ASSUME ReferencesInv, OwnerInv, [ReferencesNext]_vars
    PROVE  OwnerInv'
  <1> USE NoneAssumption DEF OwnerInv
  <1> DEFINE Rewrites(g) == consumer' = consumer /\ \E k, ph : Rewritten(g, k, ph)
  <1>1. ASSUME NEW g \in Refs, Rewrites(g)
        PROVE  OwnerInv'
    BY <1>1, RewrittenKeepsOwner, NothingIsTakenBack
       DEF ConsumerIsServed, ReferencesInv, ReferencesTypeOK
  <1>2. ASSUME consumer' = consumer, UNCHANGED refVars
        PROVE  OwnerInv'
    BY <1>2, NothingIsTakenBack
       DEF refVars, OneOwner, ConsumerIsServed, ReferencesInv, ReferencesTypeOK
  <1>3. ASSUME NEW g \in Refs, NEW h \in Refs, NEW k \in Kinds, Derive(g, h, k)
        PROVE  Rewrites(g)
    <2>1. k # "owning"
      BY <1>3 DEF Derive, Has, Derivable, FromAddr, FromSender, FromCaller, Kinds, Strong,
                  Weak, Pairs
    <2>2. Rewritten(g, k, "ready")
      BY <1>3, <2>1 DEF Derive, Has, Put, Rewritten
    <2> QED
      BY <1>3, <2>2 DEF Derive, joinVars
  <1>4. ASSUME NEW g \in Refs, NEW k \in Weak, ContextDerives(g, k)
        PROVE  Rewrites(g)
    <2>1. Rewritten(g, k, "ready")
      BY <1>4 DEF ContextDerives, Has, Put, Rewritten, Weak
    <2> QED
      BY <1>4, <2>1 DEF ContextDerives, joinVars
  <1>5. ASSUME NEW g \in Refs, NEW h \in Refs, UpgradeTx(g, h)
        PROVE  Rewrites(g)
    <2>1. Rewritten(g, Upgraded(kind[h]), "upgrading")
      BY <1>5 DEF UpgradeTx, Upgraded, Has, Put, Rewritten
    <2> QED
      BY <1>5, <2>1 DEF UpgradeTx, joinVars
  <1>6. ASSUME NEW g \in Refs, NEW h \in Refs, UpgradeCaller(g, h)
        PROVE  Rewrites(g)
    <2>1. Rewritten(g, "caller", "ready")
      BY <1>6 DEF UpgradeCaller, Has, Put, Rewritten
    <2> QED
      BY <1>6, <2>1 DEF UpgradeCaller, joinVars
  <1>7. ASSUME NEW g \in Refs, UpgradeForce(g)
        PROVE  Rewrites(g)
    <2> DEFINE held == arcs[g] \cup ({"force"} \cap {x \in Handles : Alive(x)})
    <2>1. CASE Put(g, kind[g], "ready", held)
      <3>1. Rewritten(g, kind[g], "ready")
        BY <1>7, <2>1 DEF UpgradeForce, Put, Rewritten
      <3> QED
        BY <1>7, <3>1 DEF UpgradeForce, joinVars
    <2>2. CASE Discard(g, kind[g], held)
      BY <1>7, <2>2, DiscardIsRewritten DEF UpgradeForce, joinVars
    <2> QED
      BY <1>7, <2>1, <2>2 DEF UpgradeForce
  <1>8. ASSUME NEW g \in Refs, Release(g) \/ DropArc(g)
        PROVE  Rewrites(g)
    <2>1. phase[g] # "consumed" /\ consumer' = consumer
      BY <1>8 DEF Release, DropArc, Has, joinVars
    <2>2. \E held : Discard(g, kind[g], held)
      BY <1>8 DEF Release, DropArc
    <2> QED
      BY <2>1, <2>2, DiscardIsRewritten
  <1>9. ASSUME NEW g \in Refs, ContextStop(g)
        PROVE  Rewrites(g)
    <2>1. Rewritten(g, "sender", "dropping")
      BY <1>9 DEF ContextStop, Has, Put, Rewritten
    <2> QED
      BY <1>9, <2>1 DEF ContextStop, joinVars
  <1>10. ASSUME NEW g \in Refs, IntoAddr(g)
         PROVE  Rewrites(g)
    <2>1. Rewritten(g, "addr", "ready")
      BY <1>10 DEF IntoAddr, Has, Put, Rewritten
    <2> QED
      BY <1>10, <2>1 DEF IntoAddr, joinVars
  <1>11. ASSUME NEW g \in Refs, NEW j \in Joins, StopAndJoin(g, j)
         PROVE  Rewrites(g)
    BY <1>11, DiscardIsRewritten DEF StopAndJoin, Has
  <1>12. ASSUME NEW g \in Refs, NEW j \in Joins, Consume(g, j)
         PROVE  OwnerInv'
    <2>1. CASE outcome = "running"
      <3>1. /\ kind[g] = "owning" /\ phase[g] = "ready" /\ join[j] = "none"
            /\ asked' = TRUE /\ join' = [join EXCEPT ![j] = "made"] /\ consumer' = j
            /\ kind' = [kind EXCEPT ![g] = "owning"]
            /\ phase' = [phase EXCEPT ![g] = "consumed"]
        BY <1>12, <2>1 DEF Consume, Has, Put
      <3>2. OneOwner'
        BY <3>1 DEF OneOwner, ReferencesInv, ReferencesTypeOK
      <3> QED
        BY <3>1, <3>2 DEF ConsumerIsServed, ReferencesInv, ReferencesTypeOK
    <2>2. CASE outcome # "running"
      <3>1. Rewrites(g)
        BY <1>12, <2>2, DiscardIsRewritten DEF Consume, Has
      <3> QED
        BY <1>1, <3>1
    <2> QED
      BY <2>1, <2>2
  <1>13. ASSUME NEW g \in Refs, ConsumeReturns(g)
         PROVE  OwnerInv'
    <2>1. /\ phase[g] = "consumed" /\ kind[g] = "owning" /\ consumer' = None
          /\ \A h \in Refs : phase[h] = "consumed" => h = g
      BY <1>13 DEF ConsumeReturns, OneOwner
    <2>2. PICK k \in {"none", kind[g]}, ph \in {"ready", "dropping"} :
            kind' = [kind EXCEPT ![g] = k] /\ phase' = [phase EXCEPT ![g] = ph]
      BY <1>13 DEF ConsumeReturns, Discard, Put
    <2> QED
      BY <2>1, <2>2 DEF OneOwner, ConsumerIsServed, ReferencesInv, ReferencesTypeOK
  <1>14. ASSUME NEW g \in Refs, Stop(g) \/ \E j \in Joins : Join(g, j)
         PROVE  OwnerInv'
    BY <1>2, <1>14 DEF Stop, Join, joinVars
  <1>15. ASSUME \/ \E j \in Joins : Poll(j) \/ JoinReturns(j) \/ DropJoin(j)
                \/ End \/ UNCHANGED vars
         PROVE  OwnerInv'
    BY <1>2, <1>15 DEF Poll, JoinReturns, DropJoin, End, vars, joinVars
  <1> HIDE DEF OwnerInv, Rewrites
  <1> QED
    BY <1>1, <1>3, <1>4, <1>5, <1>6, <1>7, <1>8, <1>9, <1>10, <1>11, <1>12, <1>13, <1>14,
       <1>15 DEF ReferencesNext

\* consume() has the only owner, and never waits for an actor that was not told
\* to stop, whoever else joins or stops it (addr.rs:213-247).
THEOREM ConsumersAreServed == ReferencesSpec => [](OneOwner /\ ConsumerIsServed)
  <1>1. ReferencesInit => OwnerInv
    BY DEF ReferencesInit, OwnerInv, OneOwner, ConsumerIsServed
  <1>2. ReferencesInv /\ OwnerInv /\ [ReferencesNext]_vars => OwnerInv'
    BY OwnerStep
  <1>3. OwnerInv => OneOwner /\ ConsumerIsServed
    BY DEF OwnerInv
  <1> QED
    BY <1>1, <1>2, <1>3, ReferencesInvariant, PTL DEF ReferencesSpec

=============================================================================
