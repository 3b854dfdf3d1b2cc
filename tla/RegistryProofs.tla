---------------------------- MODULE RegistryProofs ----------------------------
(***************************************************************************)
(* Theorems about Registry, for every set of clients and of instances: its *)
(* invariants, and that it implements Directory.                           *)
(***************************************************************************)
EXTENDS Registry, TLAPS

\* What the lock is good for: who is past waiting has it, and a writer has it
\* alone.
Exclusion ==
    /\ \A c \in Clients : c \in holders <=> phase[c] \notin {"idle", "waiting"}
    /\ \A c, d \in holders : op[c] \in Writes => c = d

\* What an operation has decided is one of its own outcomes.
Outcomes ==
    \A c \in Clients :
        /\ phase[c] = "idle" <=> op[c] = "none"
        /\ phase[c] = "insert" =>
               op[c] \in {"register", "replace", "from_registry"} /\ arg[c] \in Addresses
        /\ phase[c] = "remove" => op[c] = "unregister"
        /\ phase[c] = "clone" =>
               op[c] \in {"from_registry", "try_from_registry"} /\ arg[c] \in Addresses
        /\ phase[c] = "refuse" => op[c] = "register"
        /\ phase[c] = "false" => op[c] = "already_running"
        /\ op[c] \in TakesAddress => arg[c] \in Addresses

\* What it has read of the map is still so: until it returns nobody else writes.
StillTrue ==
    \A c \in Clients :
        /\ phase[c] = "insert" /\ op[c] # "replace" => slot = NoAddr \/ Shows(slot)
        /\ phase[c] = "clone" => slot = arg[c]

\* A peek is late but never wrong.
PeekIsSound == \A a \in seen : life[a] \in {"ended", "lost"}

\* Nobody has an address of an instance that was not spawned.
AbsentIsUnknown ==
    \A a \in Actors : life[a] = "absent" => ~ Referenced(a) /\ a \notin official

RegistryInv ==
    /\ RegistryTypeOK
    /\ Exclusion
    /\ Outcomes
    /\ StillTrue
    /\ PeekIsSound
    /\ AbsentIsUnknown
    /\ OneServiceAlive
    /\ LostIsGone

\* An address is that of one instance, and NoAddr is that of none.
LEMMA AddressFacts ==
    /\ NoAddr \notin Addresses /\ NoAddr.of = NoActor
    /\ \A a \in Actors :
          /\ Address(a) \in Addresses /\ Address(a).of = a /\ ~ Address(a).spent
          /\ Spent(a) \in Addresses /\ Spent(a).of = a
    /\ \A x \in Addresses : x.of \in Actors /\ x # NoAddr
  BY NoActorAssumption DEF Addresses, Address, Spent, NoAddr

USE DEF Writes, Reads, TakesAddress, Phases, Lives, Alive, Shows

-----------------------------------------------------------------------------
LEMMA InitInv == RegistryInit => RegistryInv
  BY AddressFacts, NoActorAssumption
  DEF RegistryInit, RegistryInv, RegistryTypeOK, Exclusion, Outcomes, StillTrue,
      PeekIsSound, AbsentIsUnknown, OneServiceAlive, LostIsGone, Referenced

LEMMA NextInv == RegistryInv /\ [RegistryNext]_vars => RegistryInv'
<1> SUFFICES ASSUME RegistryInv, [RegistryNext]_vars PROVE RegistryInv'
  OBVIOUS
<1> USE AddressFacts, NoActorAssumption DEF RegistryInv
<1>1. ASSUME NEW a \in Actors, Spawn(a)
      PROVE  RegistryInv'
  <2>1. RegistryTypeOK'
    BY <1>1 DEF Spawn, RegistryTypeOK
  <2>2. PeekIsSound'
    BY <1>1 DEF Spawn, PeekIsSound
  <2>3. AbsentIsUnknown'
    BY <1>1 DEF Spawn, AbsentIsUnknown, RegistryTypeOK, Referenced
  <2>4. OneServiceAlive'
    BY <1>1 DEF Spawn, OneServiceAlive, AbsentIsUnknown
  <2>5. LostIsGone'
    BY <1>1 DEF Spawn, LostIsGone, Referenced
  <2>6. Exclusion' /\ Outcomes' /\ StillTrue'
    BY <1>1 DEF Spawn, Exclusion, Outcomes, StillTrue
  <2> QED
    BY <2>1, <2>2, <2>3, <2>4, <2>5, <2>6
<1>2. ASSUME NEW a \in Actors, Quit(a)
      PROVE  RegistryInv'
  <2>1. RegistryTypeOK'
    BY <1>2 DEF Quit, RegistryTypeOK
  <2>2. PeekIsSound'
    BY <1>2 DEF Quit, PeekIsSound
  <2>3. AbsentIsUnknown'
    BY <1>2 DEF Quit, AbsentIsUnknown, Referenced
  <2>4. OneServiceAlive'
    BY <1>2 DEF Quit, OneServiceAlive
  <2>5. LostIsGone'
    BY <1>2 DEF Quit, LostIsGone, Referenced
  <2>6. Exclusion' /\ Outcomes' /\ StillTrue'
    BY <1>2 DEF Quit, Exclusion, Outcomes, StillTrue
  <2> QED
    BY <2>1, <2>2, <2>3, <2>4, <2>5, <2>6
<1>3. ASSUME NEW a \in Actors, Lose(a)
      PROVE  RegistryInv'
  <2>1. RegistryTypeOK'
    BY <1>3 DEF Lose, RegistryTypeOK
  <2>2. PeekIsSound'
    BY <1>3 DEF Lose, PeekIsSound
  <2>3. AbsentIsUnknown'
    BY <1>3 DEF Lose, AbsentIsUnknown, Referenced
  <2>4. OneServiceAlive'
    BY <1>3 DEF Lose, OneServiceAlive
  <2>5. LostIsGone'
    BY <1>3 DEF Lose, LostIsGone, Referenced
  <2>6. Exclusion' /\ Outcomes' /\ StillTrue'
    BY <1>3 DEF Lose, Exclusion, Outcomes, StillTrue
  <2> QED
    BY <2>1, <2>2, <2>3, <2>4, <2>5, <2>6
<1>4. ASSUME NEW x \in held, DropAddress(x)
      PROVE  RegistryInv'
  <2>1. RegistryTypeOK'
    BY <1>4 DEF DropAddress, RegistryTypeOK
  <2>2. AbsentIsUnknown'
    BY <1>4 DEF DropAddress, AbsentIsUnknown, Referenced
  <2>3. LostIsGone'
    BY <1>4 DEF DropAddress, LostIsGone, Referenced
  <2>4. Exclusion' /\ Outcomes' /\ StillTrue' /\ PeekIsSound' /\
      OneServiceAlive'
    BY <1>4 DEF DropAddress, Exclusion, Outcomes, StillTrue, PeekIsSound,
        OneServiceAlive
  <2> QED
    BY <2>1, <2>2, <2>3, <2>4
<1>5. ASSUME NEW a \in Actors, Await(a)
      PROVE  RegistryInv'
  <2>1. RegistryTypeOK'
    BY <1>5 DEF Await, RegistryTypeOK
  <2>2. AbsentIsUnknown'
    BY <1>5 DEF Await, AbsentIsUnknown, Referenced
  <2>3. LostIsGone'
    BY <1>5 DEF Await, LostIsGone, Referenced
  <2>4. Exclusion' /\ Outcomes' /\ StillTrue' /\ PeekIsSound' /\
      OneServiceAlive'
    BY <1>5 DEF Await, Exclusion, Outcomes, StillTrue, PeekIsSound,
        OneServiceAlive
  <2> QED
    BY <2>1, <2>2, <2>3, <2>4
<1>6. ASSUME NEW a \in Actors, AwaitReturns(a)
      PROVE  RegistryInv'
  <2>1. RegistryTypeOK'
    BY <1>6 DEF AwaitReturns, RegistryTypeOK
  <2>2. StillTrue'
    BY <1>6 DEF AwaitReturns, StillTrue
  <2>3. PeekIsSound'
    BY <1>6 DEF AwaitReturns, PeekIsSound, RegistryTypeOK, AbsentIsUnknown,
        Referenced
  <2>4. AbsentIsUnknown'
    BY <1>6 DEF AwaitReturns, AbsentIsUnknown, Referenced
  <2>5. LostIsGone'
    BY <1>6 DEF AwaitReturns, LostIsGone, Referenced
  <2>6. Exclusion' /\ Outcomes' /\ OneServiceAlive'
    BY <1>6 DEF AwaitReturns, Exclusion, Outcomes, OneServiceAlive
  <2> QED
    BY <2>1, <2>2, <2>3, <2>4, <2>5, <2>6
<1>7. ASSUME NEW a \in Actors, AwaitDropped(a)
      PROVE  RegistryInv'
  <2>1. RegistryTypeOK'
    BY <1>7 DEF AwaitDropped, RegistryTypeOK
  <2>2. AbsentIsUnknown'
    BY <1>7 DEF AwaitDropped, AbsentIsUnknown, Referenced
  <2>3. LostIsGone'
    BY <1>7 DEF AwaitDropped, LostIsGone, Referenced
  <2>4. Exclusion' /\ Outcomes' /\ StillTrue' /\ PeekIsSound' /\
      OneServiceAlive'
    BY <1>7 DEF AwaitDropped, Exclusion, Outcomes, StillTrue, PeekIsSound,
        OneServiceAlive
  <2> QED
    BY <2>1, <2>2, <2>3, <2>4
<1>8. ASSUME NEW c \in Clients, NEW o \in TakesAddress, NEW x \in held,
             CallWith(c, o, x)
      PROVE  RegistryInv'
  <2>1. RegistryTypeOK'
    BY <1>8 DEF CallWith, Begin, RegistryTypeOK
  <2>2. Exclusion'
    BY <1>8 DEF CallWith, Begin, Exclusion
  <2>3. Outcomes'
    BY <1>8 DEF CallWith, Begin, Outcomes, RegistryTypeOK
  <2>4. StillTrue'
    BY <1>8 DEF CallWith, Begin, StillTrue
  <2>5. PeekIsSound'
    BY <1>8 DEF CallWith, Begin, PeekIsSound
  <2>6. AbsentIsUnknown'
    BY <1>8 DEF CallWith, AbsentIsUnknown, Referenced
  <2>7. LostIsGone'
    BY <1>8 DEF CallWith, LostIsGone, Referenced
  <2>8. OneServiceAlive'
    BY <1>8 DEF CallWith, Begin, OneServiceAlive
  <2> QED
    BY <2>1, <2>2, <2>3, <2>4, <2>5, <2>6, <2>7, <2>8
<1>9. ASSUME NEW c \in Clients,
             NEW o \in {"unregister", "from_registry", "already_running"},
             Call(c, o)
      PROVE  RegistryInv'
  <2>1. RegistryTypeOK'
    BY <1>9 DEF Call, Begin, RegistryTypeOK
  <2>2. Exclusion'
    BY <1>9 DEF Call, Begin, Exclusion
  <2>3. Outcomes'
    BY <1>9 DEF Call, Begin, Outcomes, RegistryTypeOK
  <2>4. StillTrue'
    BY <1>9 DEF Call, Begin, StillTrue
  <2>5. PeekIsSound'
    BY <1>9 DEF Call, Begin, PeekIsSound
  <2>6. AbsentIsUnknown' /\ OneServiceAlive' /\ LostIsGone'
    BY <1>9 DEF Call, Begin, AbsentIsUnknown, OneServiceAlive, LostIsGone,
        Referenced
  <2> QED
    BY <2>1, <2>2, <2>3, <2>4, <2>5, <2>6
<1>10. ASSUME NEW c \in Clients, TryCall(c)
      PROVE  RegistryInv'
  <2>1. RegistryTypeOK'
    BY <1>10 DEF TryCall, Begin, RegistryTypeOK
  <2>2. Exclusion'
    BY <1>10 DEF TryCall, Begin, Exclusion, RegistryTypeOK
  <2>3. Outcomes'
    BY <1>10 DEF TryCall, Begin, Outcomes, RegistryTypeOK
  <2>4. StillTrue'
    BY <1>10 DEF TryCall, Begin, StillTrue
  <2>5. PeekIsSound'
    BY <1>10 DEF TryCall, Begin, PeekIsSound
  <2>6. AbsentIsUnknown' /\ OneServiceAlive' /\ LostIsGone'
    BY <1>10 DEF TryCall, Begin, AbsentIsUnknown, OneServiceAlive,
        LostIsGone, Referenced
  <2> QED
    BY <2>1, <2>2, <2>3, <2>4, <2>5, <2>6
<1>11. ASSUME NEW c \in Clients, GiveUp(c)
      PROVE  RegistryInv'
  <2>1. RegistryTypeOK'
    BY <1>11 DEF GiveUp, RegistryTypeOK
  <2>2. Exclusion'
    BY <1>11 DEF GiveUp, Exclusion
  <2>3. Outcomes'
    BY <1>11 DEF GiveUp, Outcomes, RegistryTypeOK
  <2>4. StillTrue'
    BY <1>11 DEF GiveUp, StillTrue
  <2>5. PeekIsSound'
    BY <1>11 DEF GiveUp, PeekIsSound
  <2>6. AbsentIsUnknown'
    BY <1>11 DEF GiveUp, AbsentIsUnknown, Referenced
  <2>7. LostIsGone'
    BY <1>11 DEF GiveUp, LostIsGone, Referenced
  <2>8. OneServiceAlive'
    BY <1>11 DEF GiveUp, OneServiceAlive
  <2> QED
    BY <2>1, <2>2, <2>3, <2>4, <2>5, <2>6, <2>7, <2>8
<1>12. ASSUME NEW c \in Clients, Lock(c)
      PROVE  RegistryInv'
  <2>1. RegistryTypeOK'
    BY <1>12 DEF Lock, RegistryTypeOK
  <2>2. Exclusion'
    BY <1>12 DEF Lock, Free, Exclusion, RegistryTypeOK
  <2>3. Outcomes'
    BY <1>12 DEF Lock, Outcomes
  <2>4. StillTrue'
    BY <1>12 DEF Lock, StillTrue
  <2>5. PeekIsSound' /\ AbsentIsUnknown' /\ OneServiceAlive' /\ LostIsGone'
    BY <1>12 DEF Lock, Free, PeekIsSound, AbsentIsUnknown, OneServiceAlive,
        LostIsGone, Referenced
  <2> QED
    BY <2>1, <2>2, <2>3, <2>4, <2>5
<1>13. ASSUME NEW c \in Clients, DecideRegister(c)
      PROVE  RegistryInv'
  <2>1. RegistryTypeOK'
    BY <1>13 DEF DecideRegister, Decides, RegistryTypeOK
  <2>2. Exclusion'
    BY <1>13 DEF DecideRegister, Decides, Exclusion
  <2>3. Outcomes'
    BY <1>13 DEF DecideRegister, Decides, Outcomes
  <2>4. StillTrue'
    BY <1>13 DEF DecideRegister, Decides, SlotStopped, StillTrue
  <2>5. PeekIsSound' /\ AbsentIsUnknown' /\ OneServiceAlive' /\ LostIsGone'
    BY <1>13 DEF DecideRegister, Decides, SlotStopped, PeekIsSound,
        AbsentIsUnknown, OneServiceAlive, LostIsGone, Referenced
  <2> QED
    BY <2>1, <2>2, <2>3, <2>4, <2>5
<1>14. ASSUME NEW c \in Clients, DecideReplace(c)
      PROVE  RegistryInv'
  <2>1. RegistryTypeOK'
    BY <1>14 DEF DecideReplace, Decides, RegistryTypeOK
  <2>2. Exclusion'
    BY <1>14 DEF DecideReplace, Decides, Exclusion
  <2>3. Outcomes'
    BY <1>14 DEF DecideReplace, Decides, Outcomes
  <2>4. StillTrue'
    BY <1>14 DEF DecideReplace, Decides, StillTrue
  <2>5. PeekIsSound' /\ AbsentIsUnknown' /\ OneServiceAlive' /\ LostIsGone'
    BY <1>14 DEF DecideReplace, Decides, PeekIsSound, AbsentIsUnknown,
        OneServiceAlive, LostIsGone, Referenced
  <2> QED
    BY <2>1, <2>2, <2>3, <2>4, <2>5
<1>15. ASSUME NEW c \in Clients, DecideUnregister(c)
      PROVE  RegistryInv'
  <2>1. RegistryTypeOK'
    BY <1>15 DEF DecideUnregister, Decides, RegistryTypeOK
  <2>2. Exclusion'
    BY <1>15 DEF DecideUnregister, Decides, Exclusion
  <2>3. Outcomes'
    BY <1>15 DEF DecideUnregister, Decides, Outcomes
  <2>4. StillTrue'
    BY <1>15 DEF DecideUnregister, Decides, StillTrue
  <2>5. PeekIsSound' /\ AbsentIsUnknown' /\ OneServiceAlive' /\ LostIsGone'
    BY <1>15 DEF DecideUnregister, Decides, PeekIsSound, AbsentIsUnknown,
        OneServiceAlive, LostIsGone, Referenced
  <2> QED
    BY <2>1, <2>2, <2>3, <2>4, <2>5
<1>16. ASSUME NEW c \in Clients, Find(c)
      PROVE  RegistryInv'
  <2>1. RegistryTypeOK'
    BY <1>16 DEF Find, Decides, RegistryTypeOK
  <2>2. Exclusion'
    BY <1>16 DEF Find, Decides, Exclusion
  <2>3. Outcomes'
    BY <1>16 DEF Find, Decides, SlotRunning, Outcomes, RegistryTypeOK
  <2>4. StillTrue'
    BY <1>16 DEF Find, Decides, StillTrue, RegistryTypeOK
  <2>5. AbsentIsUnknown'
    BY <1>16 DEF Find, Decides, AbsentIsUnknown, Referenced
  <2>6. LostIsGone'
    BY <1>16 DEF Find, Decides, LostIsGone, Referenced
  <2>7. PeekIsSound' /\ OneServiceAlive'
    BY <1>16 DEF Find, Decides, SlotRunning, PeekIsSound, OneServiceAlive
  <2> QED
    BY <2>1, <2>2, <2>3, <2>4, <2>5, <2>6, <2>7
<1>17. ASSUME NEW c \in Clients, NEW a \in Actors, SpawnService(c, a)
      PROVE  RegistryInv'
  <2>1. RegistryTypeOK'
    BY <1>17 DEF SpawnService, Decides, RegistryTypeOK
  <2>2. Exclusion'
    BY <1>17 DEF SpawnService, Decides, Exclusion
  <2>3. Outcomes'
    BY <1>17 DEF SpawnService, Decides, Outcomes, RegistryTypeOK
  <2>4. StillTrue'
    BY <1>17 DEF SpawnService, Decides, SlotRunning, StillTrue
  <2>5. PeekIsSound'
    BY <1>17 DEF SpawnService, Decides, PeekIsSound
  <2>6. AbsentIsUnknown'
    BY <1>17 DEF SpawnService, Decides, AbsentIsUnknown, RegistryTypeOK,
        Referenced
  <2>7. OneServiceAlive'
    BY <1>17 DEF SpawnService, Decides, OneServiceAlive, AbsentIsUnknown
  <2>8. LostIsGone'
    BY <1>17 DEF SpawnService, Decides, LostIsGone, Referenced
  <2> QED
    BY <2>1, <2>2, <2>3, <2>4, <2>5, <2>6, <2>7, <2>8
<1>18. ASSUME NEW c \in Clients, FindNothing(c)
      PROVE  RegistryInv'
  <2>1. RegistryTypeOK'
    BY <1>18 DEF FindNothing, Decides, RegistryTypeOK
  <2>2. Exclusion'
    BY <1>18 DEF FindNothing, Decides, Exclusion
  <2>3. Outcomes'
    BY <1>18 DEF FindNothing, Decides, Outcomes
  <2>4. StillTrue'
    BY <1>18 DEF FindNothing, Decides, StillTrue
  <2>5. PeekIsSound' /\ AbsentIsUnknown' /\ OneServiceAlive' /\ LostIsGone'
    BY <1>18 DEF FindNothing, Decides, SlotRunning, PeekIsSound,
        AbsentIsUnknown, OneServiceAlive, LostIsGone, Referenced
  <2> QED
    BY <2>1, <2>2, <2>3, <2>4, <2>5
<1>19. ASSUME NEW c \in Clients, DecideAlreadyRunning(c)
      PROVE  RegistryInv'
  <2>1. RegistryTypeOK'
    BY <1>19 DEF DecideAlreadyRunning, Decides, RegistryTypeOK
  <2>2. Exclusion'
    BY <1>19 DEF DecideAlreadyRunning, Decides, Exclusion
  <2>3. Outcomes'
    BY <1>19 DEF DecideAlreadyRunning, Decides, Outcomes
  <2>4. StillTrue'
    BY <1>19 DEF DecideAlreadyRunning, Decides, StillTrue
  <2>5. PeekIsSound' /\ AbsentIsUnknown' /\ OneServiceAlive' /\ LostIsGone'
    BY <1>19 DEF DecideAlreadyRunning, Decides, SlotStopped, PeekIsSound,
        AbsentIsUnknown, OneServiceAlive, LostIsGone, Referenced
  <2> QED
    BY <2>1, <2>2, <2>3, <2>4, <2>5
<1>20. ASSUME NEW c \in Clients, ReturnRegistered(c)
      PROVE  RegistryInv'
  <2>1. RegistryTypeOK'
    BY <1>20 DEF ReturnRegistered, Answer, Some, RegistryTypeOK, Outcomes
  <2>2. Exclusion'
    BY <1>20 DEF ReturnRegistered, Answer, Exclusion, RegistryTypeOK
  <2>3. Outcomes'
    BY <1>20 DEF ReturnRegistered, Answer, Outcomes, RegistryTypeOK
  <2>4. StillTrue'
    BY <1>20 DEF ReturnRegistered, Answer, StillTrue, RegistryTypeOK,
        Exclusion
  <2>5. PeekIsSound'
    BY <1>20 DEF ReturnRegistered, Answer, PeekIsSound
  <2>6. AbsentIsUnknown'
    BY <1>20 DEF ReturnRegistered, Answer, Some, AbsentIsUnknown, Referenced
  <2>7. OneServiceAlive'
    BY <1>20 DEF ReturnRegistered, Answer, OneServiceAlive, RegistryTypeOK,
        StillTrue, PeekIsSound
  <2>8. LostIsGone'
    BY <1>20 DEF ReturnRegistered, Answer, Some, LostIsGone, Referenced
  <2> QED
    BY <2>1, <2>2, <2>3, <2>4, <2>5, <2>6, <2>7, <2>8
<1>21. ASSUME NEW c \in Clients, ReturnReplaced(c)
      PROVE  RegistryInv'
  <2>1. RegistryTypeOK'
    BY <1>21 DEF ReturnReplaced, Answer, Some, RegistryTypeOK, Outcomes
  <2>2. Exclusion'
    BY <1>21 DEF ReturnReplaced, Answer, Exclusion, RegistryTypeOK
  <2>3. Outcomes'
    BY <1>21 DEF ReturnReplaced, Answer, Outcomes, RegistryTypeOK
  <2>4. StillTrue'
    BY <1>21 DEF ReturnReplaced, Answer, StillTrue, RegistryTypeOK, Exclusion
  <2>5. PeekIsSound'
    BY <1>21 DEF ReturnReplaced, Answer, PeekIsSound
  <2>6. AbsentIsUnknown'
    BY <1>21 DEF ReturnReplaced, Answer, Some, AbsentIsUnknown, Referenced
  <2>7. OneServiceAlive'
    BY <1>21 DEF ReturnReplaced, Answer, OneServiceAlive
  <2>8. LostIsGone'
    BY <1>21 DEF ReturnReplaced, Answer, Some, LostIsGone, Referenced
  <2> QED
    BY <2>1, <2>2, <2>3, <2>4, <2>5, <2>6, <2>7, <2>8
<1>22. ASSUME NEW c \in Clients, ReturnSpawned(c)
      PROVE  RegistryInv'
  <2>1. RegistryTypeOK'
    BY <1>22 DEF ReturnSpawned, Answer, Some, RegistryTypeOK, Outcomes
  <2>2. Exclusion'
    BY <1>22 DEF ReturnSpawned, Answer, Exclusion, RegistryTypeOK
  <2>3. Outcomes'
    BY <1>22 DEF ReturnSpawned, Answer, Outcomes, RegistryTypeOK
  <2>4. StillTrue'
    BY <1>22 DEF ReturnSpawned, Answer, StillTrue, RegistryTypeOK, Exclusion
  <2>5. PeekIsSound'
    BY <1>22 DEF ReturnSpawned, Answer, PeekIsSound
  <2>6. AbsentIsUnknown'
    BY <1>22 DEF ReturnSpawned, Answer, Some, AbsentIsUnknown, Referenced
  <2>7. OneServiceAlive'
    BY <1>22 DEF ReturnSpawned, Answer, OneServiceAlive, RegistryTypeOK,
        StillTrue, PeekIsSound
  <2>8. LostIsGone'
    BY <1>22 DEF ReturnSpawned, Answer, Some, LostIsGone, Referenced
  <2> QED
    BY <2>1, <2>2, <2>3, <2>4, <2>5, <2>6, <2>7, <2>8
<1>23. ASSUME NEW c \in Clients, ReturnRemoved(c)
      PROVE  RegistryInv'
  <2>1. RegistryTypeOK'
    BY <1>23 DEF ReturnRemoved, Answer, Some, RegistryTypeOK
  <2>2. Exclusion'
    BY <1>23 DEF ReturnRemoved, Answer, Exclusion, RegistryTypeOK
  <2>3. Outcomes'
    BY <1>23 DEF ReturnRemoved, Answer, Outcomes, RegistryTypeOK
  <2>4. StillTrue'
    BY <1>23 DEF ReturnRemoved, Answer, StillTrue, Exclusion, Outcomes
  <2>5. PeekIsSound'
    BY <1>23 DEF ReturnRemoved, Answer, PeekIsSound
  <2>6. AbsentIsUnknown'
    BY <1>23 DEF ReturnRemoved, Answer, Some, AbsentIsUnknown, Referenced
  <2>7. OneServiceAlive'
    BY <1>23 DEF ReturnRemoved, Answer, OneServiceAlive
  <2>8. LostIsGone'
    BY <1>23 DEF ReturnRemoved, Answer, Some, LostIsGone, Referenced
  <2> QED
    BY <2>1, <2>2, <2>3, <2>4, <2>5, <2>6, <2>7, <2>8
<1>24. ASSUME NEW c \in Clients, ReturnFound(c)
      PROVE  RegistryInv'
  <2>1. RegistryTypeOK'
    BY <1>24 DEF ReturnFound, Answer, Some, RegistryTypeOK
  <2>2. Exclusion'
    BY <1>24 DEF ReturnFound, Answer, Exclusion, RegistryTypeOK
  <2>3. Outcomes'
    BY <1>24 DEF ReturnFound, Answer, Outcomes, RegistryTypeOK
  <2>4. StillTrue'
    BY <1>24 DEF ReturnFound, Answer, StillTrue, RegistryTypeOK
  <2>5. PeekIsSound'
    BY <1>24 DEF ReturnFound, Answer, PeekIsSound
  <2>6. AbsentIsUnknown'
    BY <1>24 DEF ReturnFound, Answer, Some, AbsentIsUnknown, Referenced
  <2>7. LostIsGone'
    BY <1>24 DEF ReturnFound, Answer, Some, LostIsGone, Referenced
  <2>8. OneServiceAlive'
    BY <1>24 DEF ReturnFound, Answer, Some, OneServiceAlive
  <2> QED
    BY <2>1, <2>2, <2>3, <2>4, <2>5, <2>6, <2>7, <2>8
<1>25. ASSUME NEW c \in Clients, ReturnNothing(c)
      PROVE  RegistryInv'
  <2>1. RegistryTypeOK'
    BY <1>25 DEF ReturnNothing, Answer, Some, RegistryTypeOK
  <2>2. Exclusion'
    BY <1>25 DEF ReturnNothing, Answer, Exclusion, RegistryTypeOK
  <2>3. Outcomes'
    BY <1>25 DEF ReturnNothing, Answer, Outcomes, RegistryTypeOK
  <2>4. StillTrue'
    BY <1>25 DEF ReturnNothing, Answer, StillTrue
  <2>5. PeekIsSound'
    BY <1>25 DEF ReturnNothing, Answer, PeekIsSound
  <2>6. AbsentIsUnknown'
    BY <1>25 DEF ReturnNothing, Answer, Some, AbsentIsUnknown, Referenced
  <2>7. LostIsGone'
    BY <1>25 DEF ReturnNothing, Answer, Some, LostIsGone, Referenced
  <2>8. OneServiceAlive'
    BY <1>25 DEF ReturnNothing, Answer, Some, OneServiceAlive
  <2> QED
    BY <2>1, <2>2, <2>3, <2>4, <2>5, <2>6, <2>7, <2>8
<1>26. CASE UNCHANGED vars
  BY <1>26 DEF vars, RegistryTypeOK, Exclusion, Outcomes, StillTrue, PeekIsSound,
      AbsentIsUnknown, OneServiceAlive, LostIsGone, Referenced
<1> QED
  BY <1>1, <1>2, <1>3, <1>4, <1>5, <1>6, <1>7, <1>8, <1>9, <1>10, <1>11,
      <1>12, <1>13, <1>14, <1>15, <1>16, <1>17, <1>18, <1>19, <1>20, <1>21,
      <1>22, <1>23, <1>24, <1>25, <1>26
  DEF RegistryNext, ServiceStep, OperationStep, Decide, Return

\* All of the invariant, always.
LEMMA RegistryAlways == RegistrySpec => []RegistryInv
  BY InitInv, NextInv, PTL DEF RegistrySpec

-----------------------------------------------------------------------------
\* The type invariant.
THEOREM RegistryTypeCorrect == RegistrySpec => []RegistryTypeOK
<1>1. RegistryInv => RegistryTypeOK
  BY DEF RegistryInv
<1> QED
  BY <1>1, RegistryAlways, PTL

\* No registered service is pushed aside while it lives, whatever calls race
\* (service.rs:32-56, 160-180).
THEOREM OneServiceLives == RegistrySpec => []OneServiceAlive
<1>1. RegistryInv => OneServiceAlive
  BY DEF RegistryInv
<1> QED
  BY <1>1, RegistryAlways, PTL

\* A service that ended for want of references never turns up again
\* (addr.rs:64-66).
THEOREM LostStayLost == RegistrySpec => []LostIsGone
<1>1. RegistryInv => LostIsGone
  BY DEF RegistryInv
<1> QED
  BY <1>1, RegistryAlways, PTL

\* A lookup returns what is in the map when it returns
\* (service.rs:112-120, 160-180).
THEOREM LookupsAreCurrent == RegistrySpec => LookupIsCurrent
<1> DEFINE Current(c) ==
       /\ op[c] \in {"from_registry", "try_from_registry"}
       /\ phase[c] \in {"insert", "clone"} /\ phase'[c] = "idle"
       => slot' = arg[c]
<1>1. RegistryInv /\ [RegistryNext]_vars => \A c \in Clients : Current(c)
  <2> SUFFICES ASSUME RegistryInv, [RegistryNext]_vars, NEW c \in Clients,
                      op[c] \in {"from_registry", "try_from_registry"},
                      phase[c] \in {"insert", "clone"}, phase'[c] = "idle"
               PROVE  slot' = arg[c]
    OBVIOUS
  <2> USE DEF RegistryInv
  <2>1. ASSUME NEW d \in Clients, Return(d) PROVE slot' = arg[c]
    <3>1. d = c
      BY <2>1 DEF Return, ReturnRegistered, ReturnReplaced, ReturnSpawned,
          ReturnRemoved, ReturnFound, ReturnNothing, Answer, RegistryTypeOK
    <3>2. CASE ReturnSpawned(c)
      BY <3>2 DEF ReturnSpawned
    <3>3. CASE ReturnFound(c)
      BY <3>3 DEF ReturnFound, StillTrue
    <3> QED
      BY <2>1, <3>1, <3>2, <3>3 DEF Return, ReturnRegistered, ReturnReplaced,
          ReturnRemoved, ReturnNothing, Outcomes
  <2>2. ASSUME NEW d \in Clients, NEW o, NEW p, Begin(d, o, p),
               p # "idle"
        PROVE  FALSE
    BY <2>2 DEF Begin, RegistryTypeOK
  <2>3. ASSUME NEW d \in Clients, NEW p, Decides(d, p), p # "idle"
        PROVE  FALSE
    BY <2>3 DEF Decides, RegistryTypeOK
  <2>4. ASSUME NEW d \in Clients, Lock(d) \/ GiveUp(d) PROVE FALSE
    BY <2>4 DEF Lock, GiveUp, RegistryTypeOK
  <2>5. ASSUME NEW d \in Clients, Decide(d) PROVE FALSE
    BY <2>5, <2>3 DEF Decide, DecideRegister, DecideReplace, DecideUnregister,
        Find, SpawnService, FindNothing, DecideAlreadyRunning
  <2>6. CASE OperationStep
    BY <2>6, <2>1, <2>2, <2>4, <2>5 DEF OperationStep, CallWith, Call, TryCall
  <2>7. CASE ServiceStep \/ \E x \in held : DropAddress(x)
    BY <2>7 DEF ServiceStep, Spawn, Quit, Lose, DropAddress, Await,
        AwaitReturns, AwaitDropped
  <2>8. CASE UNCHANGED vars
    BY <2>8 DEF vars
  <2> QED
    BY <2>6, <2>7, <2>8 DEF RegistryNext
<1> QED
  BY <1>1, RegistryAlways, PTL DEF LookupIsCurrent, RegistrySpec

\* A service whose end does not show through the registered Addr leaves the map
\* only by replace or unregister, into their caller's hands
\* (service.rs:32-82, 160-180).
THEOREM ServicesLeaveForCause == RegistrySpec => LeavesForCause
<1> DEFINE Cause ==
       \/ ~ slot.spent /\ slot.of \in seen
       \/ /\ slot \in held'
          /\ \E c \in Clients :
                op[c] \in {"replace", "unregister"} /\ op'[c] = "none"
<1>1. RegistryInv /\ [RegistryNext]_vars => (slot # NoAddr /\ slot' # slot => Cause)
  <2> SUFFICES ASSUME RegistryInv, [RegistryNext]_vars, slot # NoAddr, slot' # slot
               PROVE  Cause
    OBVIOUS
  <2> USE DEF RegistryInv
  <2>1. ASSUME NEW c \in Clients, Return(c)
        PROVE  Cause
    <3>1. CASE ReturnRegistered(c) \/ ReturnSpawned(c)
      BY <3>1 DEF ReturnRegistered, ReturnSpawned, StillTrue
    <3>2. CASE ReturnReplaced(c) \/ ReturnRemoved(c)
      <4>1. slot \in held'
        BY <3>2 DEF ReturnReplaced, ReturnRemoved, Answer, Some
      <4>2. op[c] \in {"replace", "unregister"} /\ op'[c] = "none"
        BY <3>2 DEF ReturnReplaced, ReturnRemoved, Answer, Outcomes, RegistryTypeOK
      <4> QED
        BY <4>1, <4>2
    <3>3. CASE ReturnFound(c) \/ ReturnNothing(c)
      BY <3>3 DEF ReturnFound, ReturnNothing
    <3> QED
      BY <2>1, <3>1, <3>2, <3>3 DEF Return
  <2>2. ASSUME NEW c \in Clients, Decide(c)
        PROVE  Cause
    BY <2>2 DEF Decide, DecideRegister, DecideReplace, DecideUnregister, Find,
        SpawnService, FindNothing, DecideAlreadyRunning, Decides
  <2>3. CASE OperationStep
    BY <2>1, <2>2, <2>3 DEF OperationStep, CallWith, Call, TryCall, GiveUp, Lock
  <2>4. CASE ServiceStep \/ \E x \in held : DropAddress(x)
    BY <2>4 DEF ServiceStep, Spawn, Quit, Lose, DropAddress, Await, AwaitReturns,
        AwaitDropped
  <2> QED
    BY <2>3, <2>4 DEF RegistryNext, vars
<1> QED
  BY <1>1, RegistryAlways, PTL DEF RegistrySpec, LeavesForCause

\* A service is said or taken to have ended only if it has: already_running
\* answers true, register displaces and from_registry spawns for no service that
\* runs.  The converse is what fails: a peek may be late.
NoEarlyEnd ==
    [][\A c \in Clients :
         /\ phase[c] = "locked" /\ op[c] # "replace" /\ phase'[c] \in {"insert", "true"}
         /\ slot # NoAddr
         => slot' = slot /\ ~ Alive(slot.of)]_vars

\* Whatever Addr::stopped and Addr::running are asked for, nobody takes a
\* running service for one that has ended (service.rs:39, 102, 170,
\* addr.rs:97-103).
THEOREM EndsAreNotInvented == RegistrySpec => NoEarlyEnd
<1> DEFINE Early(c) ==
       /\ phase[c] = "locked" /\ op[c] # "replace" /\ phase'[c] \in {"insert", "true"}
       /\ slot # NoAddr
<1>1. RegistryInv /\ [RegistryNext]_vars
        => \A c \in Clients : Early(c) => slot' = slot /\ ~ Alive(slot.of)
  <2> SUFFICES ASSUME RegistryInv, [RegistryNext]_vars, NEW c \in Clients, Early(c)
               PROVE  slot' = slot /\ ~ Alive(slot.of)
    OBVIOUS
  <2> USE DEF RegistryInv
  <2>1. Decide(c)
    <3>1. phase \in [Clients -> Phases]
      BY DEF RegistryTypeOK
    <3>2. CASE ServiceStep \/ \E x \in held : DropAddress(x)
      BY <3>2 DEF ServiceStep, Spawn, Quit, Lose, DropAddress, Await, AwaitReturns,
          AwaitDropped
    <3>3. CASE OperationStep
      BY <3>1, <3>3 DEF OperationStep, CallWith, Call, Begin, TryCall, GiveUp, Lock,
          Decide, DecideRegister, DecideReplace, DecideUnregister, Find, SpawnService,
          FindNothing, DecideAlreadyRunning, Decides, Return, ReturnRegistered,
          ReturnReplaced, ReturnSpawned, ReturnRemoved, ReturnFound, ReturnNothing, Answer
    <3> QED
      BY <3>2, <3>3 DEF RegistryNext, vars
  <2>2. slot' = slot /\ Shows(slot)
    <3>1. phase \in [Clients -> Phases]
      BY DEF RegistryTypeOK
    <3> QED
      BY <2>1, <3>1 DEF Decide, DecideRegister, DecideReplace, DecideUnregister, Find,
          SpawnService, FindNothing, DecideAlreadyRunning, Decides, SlotRunning, SlotStopped
  <2> QED
    BY <2>2 DEF PeekIsSound
<1> QED
  BY <1>1, RegistryAlways, PTL DEF RegistrySpec, NoEarlyEnd

-----------------------------------------------------------------------------
(* The refinement of Directory *)

\* Until from_registry returns nobody else knows the instance that it spawned.
NewIsUnknown ==
    \A c \in Clients :
        op[c] = "from_registry" /\ phase[c] = "insert" =>
            /\ arg[c] = Address(arg[c].of) /\ arg[c].of \notin awaited \cup seen
            /\ \A x \in held : x.of # arg[c].of
            /\ slot.of # arg[c].of /\ life[arg[c].of] # "absent"
            /\ \A d \in Clients : arg[d].of = arg[c].of => d = c

DirectoryInv == RegistryInv /\ NewIsUnknown

LEMMA NewIsUnknownStep ==
    ASSUME DirectoryInv, [RegistryNext]_vars
    PROVE  NewIsUnknown'
<1> USE NoActorAssumption, AddressFacts DEF DirectoryInv, RegistryInv, NewIsUnknown
<1>0. \A c \in Clients :
         op[c] = "from_registry" /\ phase[c] = "insert" => arg[c].of \in Actors
  BY DEF Outcomes
<1>1. ASSUME NEW a \in Actors,
             \/ Spawn(a) \/ Quit(a) \/ Lose(a)
             \/ Await(a) \/ AwaitReturns(a) \/ AwaitDropped(a)
      PROVE  NewIsUnknown'
  <2>1. CASE Spawn(a)
    BY <2>1, <1>0 DEF Spawn, RegistryTypeOK
  <2>2. CASE Quit(a) \/ Lose(a)
    BY <2>2, <1>0 DEF Quit, Lose, RegistryTypeOK
  <2>3. CASE Await(a) \/ AwaitDropped(a)
    BY <2>3 DEF Await, AwaitDropped
  <2>4. CASE AwaitReturns(a)
    <3>1. \A c \in Clients :
             op[c] = "from_registry" /\ phase[c] = "insert" => arg[c].of # a
      BY <2>4 DEF AwaitReturns
    <3> QED
      BY <2>4, <3>1 DEF AwaitReturns
  <2> QED
    BY <1>1, <2>1, <2>2, <2>3, <2>4
<1>2. ASSUME NEW c \in Clients, NEW o \in TakesAddress, NEW x \in held,
             CallWith(c, o, x)
      PROVE  NewIsUnknown'
  BY <1>2 DEF CallWith, Begin, RegistryTypeOK
<1>3. ASSUME NEW c \in Clients,
             NEW o \in {"unregister", "from_registry", "already_running"},
             Call(c, o) \/ TryCall(c)
      PROVE  NewIsUnknown'
  BY <1>3 DEF Call, TryCall, Begin, RegistryTypeOK
<1>4. ASSUME NEW c \in Clients, GiveUp(c) \/ Lock(c)
      PROVE  NewIsUnknown'
  BY <1>4 DEF GiveUp, Lock, RegistryTypeOK, Outcomes
<1>5. ASSUME NEW c \in Clients, Decide(c)
      PROVE  NewIsUnknown'
  <2>1. CASE DecideRegister(c) \/ DecideReplace(c) \/ DecideUnregister(c)
               \/ FindNothing(c) \/ DecideAlreadyRunning(c)
    BY <2>1 DEF DecideRegister, DecideReplace, DecideUnregister, FindNothing,
        DecideAlreadyRunning, Decides, RegistryTypeOK
  <2>2. CASE Find(c)
    BY <2>2 DEF Find, Decides, RegistryTypeOK
  <2>3. ASSUME NEW a \in Actors, SpawnService(c, a)
        PROVE  NewIsUnknown'
    <3>1. /\ a \notin awaited \cup seen /\ \A x \in held : x.of # a
         /\ slot.of # a /\ \A d \in Clients : arg[d].of # a
      BY <2>3 DEF SpawnService, AbsentIsUnknown, Referenced, PeekIsSound
    <3> QED
      BY <2>3, <3>1 DEF SpawnService, Decides, RegistryTypeOK
  <2> QED
    BY <1>5, <2>1, <2>2, <2>3 DEF Decide
<1>6. ASSUME NEW c \in Clients, Return(c)
      PROVE  NewIsUnknown'
  <2>1. /\ phase[c] \notin {"idle", "waiting"} /\ phase'[c] = "idle"
        /\ \A d \in Clients \ {c} : op'[d] = op[d] /\ phase'[d] = phase[d] /\ arg'[d] = arg[d]
        /\ UNCHANGED <<awaited, life, seen>>
    BY <1>6 DEF Return, ReturnRegistered, ReturnReplaced, ReturnSpawned, ReturnRemoved,
        ReturnFound, ReturnNothing, Answer, RegistryTypeOK
  <2>2. ASSUME NEW d \in Clients, op'[d] = "from_registry", phase'[d] = "insert"
        PROVE  FALSE
    <3>1. d # c /\ op[d] = "from_registry" /\ phase[d] = "insert"
      BY <2>1, <2>2
    <3> QED
      BY <2>1, <3>1 DEF Exclusion
  <2> QED
    BY <2>2
<1>7. ASSUME NEW x \in held, DropAddress(x)
      PROVE  NewIsUnknown'
  BY <1>7 DEF DropAddress
<1>8. CASE UNCHANGED vars
  BY <1>8 DEF vars
<1> QED
  BY <1>1, <1>2, <1>3, <1>4, <1>5, <1>6, <1>7, <1>8
  DEF RegistryNext, ServiceStep, OperationStep

LEMMA DirectoryAlways == RegistrySpec => []DirectoryInv
<1>1. RegistryInit => DirectoryInv
  BY InitInv DEF DirectoryInv, RegistryInit, NewIsUnknown
<1>2. DirectoryInv /\ [RegistryNext]_vars => DirectoryInv'
  BY NextInv, NewIsUnknownStep DEF DirectoryInv
<1> QED
  BY <1>1, <1>2, PTL DEF RegistrySpec

\* A step of client c alone.
OthersRest(c) ==
    \A d \in Clients \ {c} : op'[d] = op[d] /\ phase'[d] = phase[d] /\ arg'[d] = arg[d]

\* How such a step shows in the directory.
LEMMA ClientStep ==
    ASSUME RegistryTypeOK, RegistryTypeOK', NEW c \in Clients, OthersRest(c)
    PROVE  /\ Gift' = [Gift EXCEPT ![c] = Given(op'[c], phase'[c], arg'[c])]
           /\ Gift[c] = Given(op[c], phase[c], arg[c])
           /\ Given(op'[c], phase'[c], arg'[c]) = Given(op[c], phase[c], arg[c])
                => Gift' = Gift
           /\ Verdicts' = [Verdicts EXCEPT ![c] = Verdict(phase'[c])]
           /\ Verdicts[c] = Verdict(phase[c])
           /\ Verdict(phase'[c]) = Verdict(phase[c]) => Verdicts' = Verdicts
           /\ /\ op[c] # "from_registry" \/ phase[c] # "insert"
              /\ op'[c] # "from_registry" \/ phase'[c] # "insert"
              => InTheMaking' = InTheMaking
<1> USE DEF RegistryTypeOK, OthersRest
<1>1. \A d \in Clients : d # c => Gift'[d] = Gift[d] /\ Verdicts'[d] = Verdicts[d]
  BY DEF Gift, Verdicts
<1>2. /\ Gift'[c] = Given(op'[c], phase'[c], arg'[c])
      /\ Gift[c] = Given(op[c], phase[c], arg[c])
      /\ Verdicts'[c] = Verdict(phase'[c]) /\ Verdicts[c] = Verdict(phase[c])
  BY DEF Gift, Verdicts
<1>3. /\ Gift = [d \in Clients |-> Gift[d]] /\ Gift' = [d \in Clients |-> Gift'[d]]
      /\ Verdicts = [d \in Clients |-> Verdicts[d]]
      /\ Verdicts' = [d \in Clients |-> Verdicts'[d]]
  BY DEF Gift, Verdicts
<1>4. Gift' = [Gift EXCEPT ![c] = Given(op'[c], phase'[c], arg'[c])]
  BY <1>1, <1>2, <1>3
<1>5. Verdicts' = [Verdicts EXCEPT ![c] = Verdict(phase'[c])]
  BY <1>1, <1>2, <1>3
<1>6. Given(op'[c], phase'[c], arg'[c]) = Given(op[c], phase[c], arg[c]) => Gift' = Gift
  BY <1>1, <1>2, <1>3
<1>7. Verdict(phase'[c]) = Verdict(phase[c]) => Verdicts' = Verdicts
  BY <1>1, <1>2, <1>3
<1>8. ASSUME op[c] # "from_registry" \/ phase[c] # "insert",
             op'[c] # "from_registry" \/ phase'[c] # "insert"
      PROVE  InTheMaking' = InTheMaking
  <2>1. \A d \in Clients :
           /\ op'[d] = "from_registry" /\ phase'[d] = "insert"
                <=> op[d] = "from_registry" /\ phase[d] = "insert"
           /\ op[d] = "from_registry" /\ phase[d] = "insert" => arg'[d] = arg[d]
    BY <1>8
  <2> QED
    BY <2>1 DEF InTheMaking
<1> QED
  BY <1>2, <1>4, <1>5, <1>6, <1>7, <1>8

LEMMA KnownVerdicts ==
    /\ \A p \in {"idle", "waiting", "locked", "insert", "remove"} : Verdict(p) = "none"
    /\ Verdict("refuse") = "refused" /\ Verdict("clone") = "found"
    /\ Verdict("none") = "nothing"
    /\ Verdict("true") = "true" /\ Verdict("false") = "false"
  BY DEF Verdict

\* The directory speaks of the same addresses.
LEMMA SameAddresses ==
    /\ Promise!NoAddr = NoAddr
    /\ \A a : Promise!Address(a) = Address(a) /\ Promise!Spent(a) = Spent(a)
    /\ Promise!ShowsEnd <=> Shows(slot)
    /\ Promise!NoService <=> slot = NoAddr \/ Shows(slot)
  BY DEF Promise!NoAddr, NoAddr, Promise!Address, Address, Promise!Spent, Spent,
      Promise!ShowsEnd, Promise!NoService

LEMMA DirectoryServiceStep ==
    ASSUME DirectoryInv, ServiceStep
    PROVE  [Promise!DirectoryNext]_(Promise!directoryVars)
<1> USE DEF DirectoryInv, RegistryInv
<1>1. PICK a \in Actors :
        \/ Spawn(a) \/ Quit(a) \/ Lose(a)
        \/ Await(a) \/ AwaitReturns(a) \/ AwaitDropped(a)
  BY DEF ServiceStep
<1>2. UNCHANGED <<slot, Gift, Verdicts, InTheMaking, op>>
  BY <1>1 DEF Spawn, Quit, Lose, Await, AwaitReturns, AwaitDropped,
      Gift, Verdicts, InTheMaking
<1>3. CASE Spawn(a)
  <2>1. a \notin InTheMaking
    BY <1>3 DEF Spawn, InTheMaking, NewIsUnknown
  <2>2. a \notin Public \cup Ended /\ Public' = Public \cup {a} /\ Ended' = Ended
    BY <1>2, <1>3, <2>1 DEF Spawn, Public, Ended, RegistryTypeOK
  <2>3. Promise!Spawn(a)
    BY <1>2, <1>3, <2>2, SameAddresses DEF Spawn, Promise!Spawn
  <2> QED
    BY <2>3 DEF Promise!DirectoryNext
<1>4. CASE Quit(a) \/ Lose(a)
  <2>1. a \notin Ended /\ Public' = Public /\ Ended' = Ended \cup {a}
    BY <1>2, <1>4 DEF Quit, Lose, Public, Ended, RegistryTypeOK
  <2>2. Promise!End(a)
    BY <1>2, <1>4, <2>1 DEF Quit, Lose, Promise!End
  <2> QED
    BY <2>2 DEF Promise!DirectoryNext
<1>5. ASSUME life' = life PROVE Public' = Public /\ Ended' = Ended
  BY <1>2, <1>5 DEF Public, Ended
<1>6. CASE AwaitReturns(a)
  <2>1. a \in Public \cap Ended
    BY <1>6 DEF AwaitReturns, Public, Ended, InTheMaking, NewIsUnknown, AbsentIsUnknown,
        Referenced, RegistryTypeOK
  <2>2. Promise!Notice(a)
    BY <1>2, <1>5, <1>6, <2>1, SameAddresses DEF AwaitReturns, Promise!Notice
  <2> QED
    BY <2>2 DEF Promise!DirectoryNext
<1>7. CASE Await(a) \/ AwaitDropped(a)
  BY <1>2, <1>5, <1>7 DEF Await, AwaitDropped, Promise!directoryVars
<1> QED
  BY <1>1, <1>3, <1>4, <1>6, <1>7

LEMMA DirectoryDropStep ==
    ASSUME NEW x \in held, DropAddress(x)
    PROVE  Promise!DirectoryNext
<1>1. UNCHANGED <<slot, Gift, Verdicts, Public, Ended, op>>
  BY DEF DropAddress, Gift, Verdicts, InTheMaking, Public, Ended
<1>2. Promise!Drop(x)
  BY <1>1 DEF DropAddress, Promise!Drop
<1> QED
  BY <1>2 DEF Promise!DirectoryNext

\* The calls, and what is done without the lock.
LEMMA DirectoryCallStep ==
    ASSUME DirectoryInv, RegistryTypeOK', NEW c \in Clients,
           \/ \E o \in TakesAddress, x \in held : CallWith(c, o, x)
           \/ \E o \in {"unregister", "from_registry", "already_running"} : Call(c, o)
           \/ TryCall(c)
           \/ GiveUp(c)
           \/ Lock(c)
    PROVE  [Promise!DirectoryNext]_(Promise!directoryVars)
<1> USE DEF DirectoryInv, RegistryInv
<1>1. /\ OthersRest(c) /\ UNCHANGED life
      /\ phase[c] \in {"idle", "waiting"} /\ phase'[c] \in {"idle", "waiting", "locked"}
  BY DEF CallWith, Call, TryCall, Begin, GiveUp, Lock, RegistryTypeOK, OthersRest
<1>2. Verdicts' = Verdicts /\ Verdicts[c] = "none" /\ InTheMaking' = InTheMaking
  BY <1>1, ClientStep, KnownVerdicts
<1>3. Public' = Public /\ Ended' = Ended
  BY <1>1, <1>2 DEF Public, Ended
<1>4. ASSUME NEW o \in TakesAddress, NEW x \in held, CallWith(c, o, x)
      PROVE  Promise!Call(c, o, x)
  <2>1. op[c] = "none" /\ op'[c] = o /\ arg'[c] = x
    BY <1>4 DEF CallWith, Begin, Outcomes, RegistryTypeOK
  <2>2. Gift' = [Gift EXCEPT ![c] = x]
    BY <1>1, <2>1, ClientStep DEF Given
  <2> QED
    BY <1>2, <1>3, <1>4, <2>1, <2>2 DEF CallWith, Begin, Promise!Call
<1>5. ASSUME NEW o \in {"unregister", "from_registry", "already_running", "try_from_registry"},
             Call(c, o) \/ (o = "try_from_registry" /\ TryCall(c))
      PROVE  Promise!Call(c, o, NoAddr)
  <2>1. op[c] = "none" /\ op'[c] = o /\ op' = [op EXCEPT ![c] = o]
    BY <1>5 DEF Call, TryCall, Begin, Outcomes, RegistryTypeOK
  <2>2. Gift' = [Gift EXCEPT ![c] = NoAddr]
    BY <1>1, <2>1, ClientStep DEF Given
  <2> QED
    BY <1>2, <1>3, <1>5, <2>1, <2>2, SameAddresses DEF Call, TryCall, Promise!Call
<1>6. CASE GiveUp(c)
  <2>1. op[c] # "none" /\ op'[c] = "none" /\ arg'[c] = NoAddr
    BY <1>6 DEF GiveUp, Outcomes, RegistryTypeOK
  <2>2. Gift' = [Gift EXCEPT ![c] = NoAddr] /\ Verdicts' = [Verdicts EXCEPT ![c] = "none"]
    BY <1>1, <2>1, <1>2, ClientStep, KnownVerdicts DEF Given
  <2>3. Promise!GiveUp(c)
    BY <1>2, <1>3, <1>6, <2>1, <2>2, SameAddresses DEF GiveUp, Promise!GiveUp, Promise!Reset
  <2> QED
    BY <2>3 DEF Promise!DirectoryNext
<1>7. CASE Lock(c)
  <2>1. op'[c] = op[c] /\ arg'[c] = arg[c]
    BY <1>7 DEF Lock
  <2>2. Gift' = Gift
    BY <1>1, <2>1, ClientStep DEF Given
  <2> QED
    BY <1>2, <1>3, <1>7, <2>2 DEF Lock, Promise!directoryVars
<1> QED
  BY <1>4, <1>5, <1>6, <1>7, SameAddresses DEF Promise!DirectoryNext

\* What is decided under the lock.
LEMMA DirectoryDecideStep ==
    ASSUME DirectoryInv, RegistryTypeOK', NEW c \in Clients, Decide(c)
    PROVE  [Promise!DirectoryNext]_(Promise!directoryVars)
<1> USE DEF DirectoryInv, RegistryInv
<1>1. /\ OthersRest(c) /\ phase[c] = "locked" /\ op'[c] = op[c]
      /\ UNCHANGED <<slot, held, seen, op>>
  BY DEF Decide, DecideRegister, DecideReplace, DecideUnregister, Find, SpawnService,
      FindNothing, DecideAlreadyRunning, Decides, RegistryTypeOK, OthersRest
<1>2. Verdicts[c] = "none"
  BY <1>1, ClientStep, KnownVerdicts
<1>3. ASSUME arg' = arg, phase'[c] # "clone"
      PROVE  Gift' = Gift
  BY <1>1, <1>3, ClientStep DEF Given
<1>4. ASSUME life' = life, op[c] # "from_registry" \/ phase'[c] # "insert"
      PROVE  Public' = Public /\ Ended' = Ended
  BY <1>1, <1>4, ClientStep DEF Public, Ended
<1>5. CASE DecideRegister(c)
  <2>1. CASE slot = NoAddr \/ SlotStopped
    <3>1. phase'[c] = "insert"
      BY <1>5, <2>1 DEF DecideRegister, Decides, RegistryTypeOK
    <3>2. Verdicts' = Verdicts
      BY <1>1, <3>1, ClientStep, KnownVerdicts
    <3> QED
      BY <1>1, <1>3, <1>4, <1>5, <3>1, <3>2 DEF DecideRegister, Promise!directoryVars
  <2>2. CASE ~ (slot = NoAddr \/ SlotStopped)
    <3>1. phase'[c] = "refuse"
      BY <1>5, <2>2 DEF DecideRegister, Decides, RegistryTypeOK
    <3>2. Verdicts' = [Verdicts EXCEPT ![c] = "refused"]
      BY <1>1, <3>1, ClientStep, KnownVerdicts
    <3>3. Promise!Refuse(c)
      BY <1>1, <1>2, <1>3, <1>4, <1>5, <2>2, <3>1, <3>2, SameAddresses
         DEF DecideRegister, SlotStopped, Promise!Refuse, Promise!Answer
    <3> QED
      BY <3>3 DEF Promise!DirectoryNext
  <2> QED
    BY <2>1, <2>2
<1>6. CASE DecideReplace(c) \/ DecideUnregister(c)
  <2>1. phase'[c] \in {"insert", "remove"} /\ op[c] # "from_registry"
    BY <1>6 DEF DecideReplace, DecideUnregister, Decides, RegistryTypeOK
  <2>2. Verdicts' = Verdicts
    BY <1>1, <2>1, ClientStep, KnownVerdicts
  <2> QED
    BY <1>1, <1>3, <1>4, <1>6, <2>1, <2>2
       DEF DecideReplace, DecideUnregister, Promise!directoryVars
<1>7. CASE Find(c)
  <2>1. phase'[c] = "clone" /\ arg'[c] = slot
    BY <1>7 DEF Find, Decides, RegistryTypeOK
  <2>2. Gift' = [Gift EXCEPT ![c] = slot] /\ Verdicts' = [Verdicts EXCEPT ![c] = "found"]
    BY <1>1, <2>1, ClientStep, KnownVerdicts DEF Given
  <2>3. Promise!Find(c)
    BY <1>1, <1>2, <1>4, <1>7, <2>1, <2>2, SameAddresses
       DEF Find, SlotRunning, Promise!Find, Promise!Answer
  <2> QED
    BY <2>3 DEF Promise!DirectoryNext
<1>8. ASSUME NEW a \in Actors, SpawnService(c, a)
      PROVE  UNCHANGED Promise!directoryVars
  <2>1. op[c] = "from_registry" /\ phase'[c] = "insert" /\ arg'[c] = Address(a)
    BY <1>8 DEF SpawnService, Decides, RegistryTypeOK
  <2>2. Gift' = Gift /\ Verdicts' = Verdicts
    BY <1>1, <2>1, ClientStep, KnownVerdicts DEF Given
  <2>3. InTheMaking = {} /\ InTheMaking' = {a}
    BY <1>1, <2>1, AddressFacts DEF OthersRest, InTheMaking, Exclusion
  <2>4. Public' = Public /\ Ended' = Ended
    BY <1>8, <2>3 DEF SpawnService, Public, Ended, RegistryTypeOK
  <2> QED
    BY <1>1, <2>2, <2>4 DEF Promise!directoryVars
<1>9. CASE FindNothing(c)
  <2>1. phase'[c] = "none"
    BY <1>9 DEF FindNothing, Decides, RegistryTypeOK
  <2>2. Verdicts' = [Verdicts EXCEPT ![c] = "nothing"]
    BY <1>1, <2>1, ClientStep, KnownVerdicts
  <2>3. Promise!FindNothing(c)
    BY <1>1, <1>2, <1>3, <1>4, <1>9, <2>1, <2>2, SameAddresses
       DEF FindNothing, SlotRunning, Promise!FindNothing, Promise!Answer
  <2> QED
    BY <2>3 DEF Promise!DirectoryNext
<1>10. CASE DecideAlreadyRunning(c)
  <2>1. phase'[c] = IF slot = NoAddr THEN "none"
                    ELSE IF Shows(slot) THEN "true" ELSE "false"
    BY <1>10 DEF DecideAlreadyRunning, Decides, SlotStopped, RegistryTypeOK
  <2>2. Verdicts' = [Verdicts EXCEPT ![c] = Verdict(phase'[c])]
    BY <1>1, ClientStep
  <2>3. Verdict(phase'[c]) = IF slot = NoAddr THEN "nothing"
                             ELSE IF Shows(slot) THEN "true" ELSE "false"
    BY <2>1, KnownVerdicts
  <2>4. phase'[c] \notin {"clone", "insert"}
    BY <2>1
  <2>5. Promise!Look(c)
    BY <1>1, <1>2, <1>3, <1>4, <1>10, <2>2, <2>3, <2>4, SameAddresses
       DEF DecideAlreadyRunning, Promise!Look, Promise!Answer
  <2> QED
    BY <2>5 DEF Promise!DirectoryNext
<1> QED
  BY <1>5, <1>6, <1>7, <1>8, <1>9, <1>10 DEF Decide

\* What is done when an operation returns.
LEMMA DirectoryReturnStep ==
    ASSUME DirectoryInv, RegistryTypeOK', NEW c \in Clients, Return(c)
    PROVE  Promise!DirectoryNext
<1> USE DEF DirectoryInv, RegistryInv
<1>1. /\ OthersRest(c) /\ phase[c] \notin {"idle", "waiting", "locked"}
      /\ phase'[c] = "idle" /\ op'[c] = "none" /\ arg'[c] = NoAddr
      /\ UNCHANGED <<seen, life>> /\ op' = [op EXCEPT ![c] = "none"]
      /\ op[c] # "none"
  BY DEF Return, ReturnRegistered, ReturnReplaced, ReturnSpawned, ReturnRemoved,
      ReturnFound, ReturnNothing, Answer, RegistryTypeOK, OthersRest, Outcomes
<1>2. Promise!Reset(c)
  BY <1>1, ClientStep, KnownVerdicts, SameAddresses DEF Promise!Reset, Given
<1>3. Verdicts[c] = Verdict(phase[c]) /\ Gift[c] = Given(op[c], phase[c], arg[c])
  BY <1>1, ClientStep
<1>4. Ended' = Ended
  BY <1>1 DEF Ended
<1>5. ASSUME op[c] # "from_registry" \/ phase[c] # "insert"
      PROVE  Public' = Public
  BY <1>1, <1>5, ClientStep DEF Public
<1>6. CASE ReturnRegistered(c)
  <2>1. Verdicts[c] = "none" /\ Gift[c] = arg[c] /\ Promise!NoService
    BY <1>3, <1>6, KnownVerdicts, SameAddresses DEF ReturnRegistered, Given, StillTrue
  <2>2. Promise!Register(c)
    BY <1>1, <1>2, <1>4, <1>5, <1>6, <2>1, SameAddresses
       DEF ReturnRegistered, Answer, Some, Promise!Register, Promise!Update
  <2> QED
    BY <2>2 DEF Promise!DirectoryNext
<1>7. CASE ReturnReplaced(c)
  <2>1. Verdicts[c] = "none" /\ Gift[c] = arg[c]
    BY <1>3, <1>7, KnownVerdicts DEF ReturnReplaced, Given
  <2>2. Promise!Replace(c)
    BY <1>1, <1>2, <1>4, <1>5, <1>7, <2>1, SameAddresses
       DEF ReturnReplaced, Answer, Some, Promise!Replace, Promise!Update
  <2> QED
    BY <2>2 DEF Promise!DirectoryNext
<1>8. CASE ReturnSpawned(c)
  <2>1. Verdicts[c] = "none" /\ Promise!NoService
        /\ arg[c].of \in Actors /\ arg[c] = Address(arg[c].of)
    BY <1>3, <1>8, KnownVerdicts, SameAddresses, AddressFacts
       DEF ReturnSpawned, StillTrue, Outcomes, NewIsUnknown
  <2>2. InTheMaking = {arg[c].of} /\ InTheMaking' = {}
    BY <1>1, <1>8 DEF ReturnSpawned, OthersRest, InTheMaking, Exclusion
  <2>3. arg[c].of \notin Public /\ Public' = Public \cup {arg[c].of}
    BY <1>1, <1>8, <2>1, <2>2 DEF ReturnSpawned, Public, NewIsUnknown
  <2>4. Promise!Create(c, arg[c].of)
    BY <1>1, <1>2, <1>4, <1>8, <2>1, <2>3, SameAddresses
       DEF ReturnSpawned, Answer, Some, Promise!Create, Promise!Update
  <2> QED
    BY <2>1, <2>4 DEF Promise!DirectoryNext
<1>9. CASE ReturnRemoved(c)
  <2>1. Verdicts[c] = "none" /\ op[c] = "unregister"
    BY <1>3, <1>9, KnownVerdicts DEF ReturnRemoved, Outcomes
  <2>2. Promise!Unregister(c)
    BY <1>1, <1>2, <1>4, <1>5, <1>9, <2>1, SameAddresses
       DEF ReturnRemoved, Answer, Some, Promise!Unregister, Promise!Update
  <2> QED
    BY <2>2 DEF Promise!DirectoryNext
<1>10. CASE ReturnFound(c)
  <2>1. Verdicts[c] = "found" /\ Gift[c] = arg[c] /\ arg[c] # NoAddr
    BY <1>3, <1>10, KnownVerdicts, AddressFacts DEF ReturnFound, Given, Outcomes
  <2>2. Promise!Return(c)
    BY <1>1, <1>2, <1>4, <1>5, <1>10, <2>1, SameAddresses
       DEF ReturnFound, Answer, Some, Promise!Return
  <2> QED
    BY <2>2 DEF Promise!DirectoryNext
<1>11. CASE ReturnNothing(c)
  <2>1. Verdicts[c] \notin {"none", "found"} /\ phase[c] # "insert"
    BY <1>3, <1>11, KnownVerdicts DEF ReturnNothing
  <2>2. Promise!Return(c)
    BY <1>1, <1>2, <1>4, <1>5, <1>11, <2>1, SameAddresses
       DEF ReturnNothing, Answer, Some, Promise!Return
  <2> QED
    BY <2>2 DEF Promise!DirectoryNext
<1> QED
  BY <1>6, <1>7, <1>8, <1>9, <1>10, <1>11 DEF Return

\* However operations overlap, a client cannot tell the registry from one in
\* which each operation happens at one instant (service.rs:32-120, 160-180).
THEOREM RegistryIsDirectory == RegistrySpec => ImplementsDirectory
<1>1. RegistryInit => Promise!DirectoryInit
  BY KnownVerdicts, SameAddresses DEF RegistryInit, Promise!DirectoryInit, Public, Ended, InTheMaking,
      Gift, Given, Verdicts
<1>2. DirectoryInv /\ DirectoryInv' /\ [RegistryNext]_vars
        => [Promise!DirectoryNext]_(Promise!directoryVars)
  <2> SUFFICES ASSUME DirectoryInv, DirectoryInv', [RegistryNext]_vars
               PROVE  [Promise!DirectoryNext]_(Promise!directoryVars)
    OBVIOUS
  <2>1. RegistryTypeOK'
    BY DEF DirectoryInv, RegistryInv
  <2>2. CASE ServiceStep
    BY <2>2, DirectoryServiceStep
  <2>3. CASE OperationStep
    BY <2>1, <2>3, DirectoryCallStep, DirectoryDecideStep, DirectoryReturnStep
       DEF OperationStep
  <2>4. CASE \E x \in held : DropAddress(x)
    BY <2>4, DirectoryDropStep
  <2>5. CASE UNCHANGED vars
    BY <2>5 DEF vars, Promise!directoryVars, Public, Ended, InTheMaking, Gift, Verdicts
  <2> QED
    BY <2>2, <2>3, <2>4, <2>5 DEF RegistryNext
<1> QED
  BY <1>1, <1>2, DirectoryAlways, PTL
     DEF RegistrySpec, ImplementsDirectory, Promise!DirectorySpec

=============================================================================
