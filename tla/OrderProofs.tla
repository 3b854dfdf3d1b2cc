------------------------------ MODULE OrderProofs ------------------------------
(***************************************************************************)
(* What the event loop has made of the requests it has taken: a stop is the *)
(* last of them, every task before the last was handled unless a timeout   *)
(* may have cut it off, and a restart forgets exactly what it should.      *)
(***************************************************************************)
EXTENDS ServerProofs

\* The request being worked on is the last one taken, and is what pc says.
Attended ==
    /\ taken <= Len(accepted)
    /\ pc = "handling" => op[cur] \in TaskOps
    /\ pc = "refreshing" =>
         0 < taken /\ accepted[taken] = cur /\ op[cur] = "restart"

StopIsLast ==
    \A j \in 1 .. taken :
        op[accepted[j]] = "stop" => j = taken /\ pc \in Leaving

TasksHandled ==
    ~ TimesOut(config) =>
        \A i \in 1 .. taken :
            op[accepted[i]] \in TaskOps =>
                accepted[i] \in done \/ (i = taken /\ pc \in {"handling", "unwinding"})

OrderInv == ServerInv /\ Attended /\ StopIsLast /\ TasksHandled

\* The requests that StateSurvivesRestart expects in the actor's value.
Survivors ==
    {r \in done :
       config.strategy = "RecreateFromDefault" =>
           \E i \in 1 .. taken :
               accepted[i] = r /\ \A j \in i .. taken : ~ Refreshed(j)}

-----------------------------------------------------------------------------
(* What a step does to the requests taken so far: nothing *)

LEMMA TakenStay ==
    ASSUME OrderInv, [ActorNext]_actorVars
    PROVE  /\ taken \in Nat /\ Len(accepted) \in Nat
           /\ Len(accepted) <= Len(accepted')
           /\ config' = config
           /\ \A i \in 1 .. taken :
                /\ i \in 1 .. Len(accepted) /\ accepted[i] \in Messages
                /\ accepted'[i] = accepted[i]
                /\ op[accepted[i]] # "none"
                /\ op'[accepted[i]] = op[accepted[i]]
  <1> USE DEF OrderInv, ServerInv
  <1>1. [ChannelNext]_chanVars /\ ChannelInv
    BY ActorStepIsChannelStep DEF ReplyInv
  <1>2. /\ taken \in Nat /\ accepted \in Seq(Messages) /\ Len(accepted) \in Nat
        /\ taken <= Len(accepted)
    BY <1>1, LenProperties DEF ChannelInv, ChannelTypeOK, Attended
  <1>3. ASSUME NEW i \in 1 .. taken
        PROVE  /\ i \in 1 .. Len(accepted) /\ accepted[i] \in Messages
               /\ accepted'[i] = accepted[i]
               /\ op[accepted[i]] # "none"
    <2>1. i \in 1 .. Len(accepted)
      BY <1>2
    <2>2. accepted[i] \in Messages /\ In(accepted[i], accepted)
      BY <1>2, <2>1 DEF In
    <2>3. fut[accepted[i]] # "new"
      BY <1>1, <2>2 DEF ChannelInv, AcceptedOnce
    <2> QED
      BY <1>1, <2>1, <2>2, <2>3, AcceptedGrows DEF ReplyInv, Fresh
  <1>4. config' = config /\ \A r \in Messages : op[r] # "none" => op'[r] = op[r]
    <2>1. CASE LoopStep
      BY <2>1 DEF LoopStep, StartedOk, TakeTask, TakeStop, TakeRestart, StreamOver,
                  RestartPanics, SourceOver, Finish, FinishItem, Finished, TimeOut,
                  RefreshStopped, Stopped, DropMailbox, DropNotifier
    <2>2. CASE StartedErr \/ Crash \/ StreamStep
      BY <2>2 DEF StartedErr, Crash, StreamStep, TakeItem, SourceEnds
    <2>3. CASE ClientStep
      BY <2>3 DEF ClientStep, ClientIssue, HandlerIssue, Issue, SendReturns,
                  CallReturns, GiveUp, ReleaseHandle, ReplyInv, ActorTypeOK
    <2>4. CASE UNCHANGED actorVars
      BY <2>4 DEF actorVars
    <2> QED
      BY <2>1, <2>2, <2>3, <2>4 DEF ActorNext
  <1> QED
    BY <1>1, <1>2, <1>3, <1>4, AcceptedGrows

\* The steps that take nothing and complete nothing, and after which the loop
\* is where it was, or between two requests, or on its way out.
LEMMA QuietOrder ==
    ASSUME OrderInv, [ActorNext]_actorVars, UNCHANGED <<taken, done>>,
           pc \in Leaving => pc' \in Leaving,
           pc = "unwinding" => pc' = "unwinding",
           pc = "handling" =>
               \/ pc' = "unwinding"
               \/ pc' = "handling" /\ cur' = cur
               \/ TimesOut(config) /\ pc' = "idle",
           pc # "handling" => pc' # "handling",
           pc' = "refreshing" => pc = "refreshing" /\ cur' = cur
    PROVE  Attended' /\ StopIsLast' /\ TasksHandled'
  <1> USE DEF OrderInv
  <1>1. Attended'
    <2>1. taken' <= Len(accepted')
      BY TakenStay DEF Attended
    <2>2. ASSUME pc' = "handling"
          PROVE  op'[cur'] \in TaskOps
      <3>1. pc = "handling" /\ cur' = cur /\ taken \in 1 .. taken /\ accepted[taken] = cur
        BY <2>2, TakenStay DEF ServerInv, CurIsLast
      <3> QED
        BY <3>1, TakenStay DEF Attended
    <2>3. ASSUME pc' = "refreshing"
          PROVE  0 < taken' /\ accepted'[taken'] = cur' /\ op'[cur'] = "restart"
      <3>1. /\ pc = "refreshing" /\ cur' = cur /\ taken \in 1 .. taken
            /\ accepted[taken] = cur /\ op[cur] = "restart"
        BY <2>3, TakenStay DEF Attended
      <3> QED
        BY <3>1, TakenStay
    <2> QED
      BY <2>1, <2>2, <2>3 DEF Attended
  <1>2. StopIsLast'
    BY TakenStay DEF StopIsLast
  <1>3. TasksHandled'
    BY TakenStay DEF TasksHandled
  <1> QED
    BY <1>1, <1>2, <1>3

LEMMA OrderInit == ActorInit => OrderInv
  <1> SUFFICES ASSUME ActorInit PROVE OrderInv
    OBVIOUS
  <1>1. taken = 0 /\ Len(accepted) = 0 /\ pc = "starting"
    BY DEF ActorInit, ChannelInit
  <1> QED
    BY <1>1, ServerInvInit DEF OrderInv, Attended, StopIsLast, TasksHandled

\* Taking a request: everything before it has been seen to.
LEMMA TakeOrder ==
    ASSUME OrderInv, [ActorNext]_actorVars, NEW r \in Messages,
           TakeTask(r) \/ TakeStop(r) \/ TakeRestart(r) \/ RestartPanics(r)
    PROVE  /\ Attended' /\ StopIsLast' /\ TasksHandled'
           /\ taken' = taken + 1 /\ accepted' = accepted /\ accepted[taken + 1] = r
  <1> USE DEF OrderInv, ServerInv
  <1>1. /\ Receive /\ r = queue[1] /\ pc = "idle"
        /\ UNCHANGED <<config, op, done>>
        /\ \/ op[r] \in TaskOps /\ pc' = "handling" /\ cur' = r
           \/ op[r] = "stop" /\ pc' \in {"finishing", "stopping"}
           \/ op[r] = "restart" /\ pc' \in {"idle", "unwinding"}
           \/ op[r] = "restart" /\ pc' = "refreshing" /\ cur' = r
    BY DEF TakeTask, TakeStop, TakeRestart, RestartPanics, LeaveLoop, Leave, Next1
  <1>2. /\ taken \in Nat /\ taken' = taken + 1 /\ taken < Len(accepted)
        /\ accepted' = accepted /\ accepted[taken + 1] = r
    BY <1>1, TakenIsNext DEF ReplyInv
  <1>3. Attended'
    BY <1>1, <1>2, TakenStay DEF Attended, TaskOps, CallOps
  <1>4. StopIsLast'
    <2> SUFFICES ASSUME NEW j \in 1 .. taken + 1, op[accepted[j]] = "stop"
                 PROVE  j = taken + 1 /\ pc' \in Leaving
      BY <1>1, <1>2 DEF StopIsLast
    <2>1. j \notin 1 .. taken
      BY <1>1 DEF StopIsLast, Leaving
    <2>2. j = taken + 1
      BY <1>2, <2>1
    <2> QED
      BY <1>1, <1>2, <2>2 DEF TaskOps, CallOps, Leaving
  <1>5. TasksHandled'
    <2> SUFFICES ASSUME ~ TimesOut(config),
                        NEW i \in 1 .. taken + 1, op[accepted[i]] \in TaskOps
                 PROVE  accepted[i] \in done \/ (i = taken + 1 /\ pc' = "handling")
      BY <1>1, <1>2 DEF TasksHandled
    <2>1. CASE i \in 1 .. taken
      BY <1>1, <2>1 DEF TasksHandled
    <2>2. CASE i = taken + 1
      BY <1>1, <1>2, <2>2 DEF TaskOps, CallOps
    <2> QED
      BY <1>2, <2>1, <2>2
  <1> QED
    BY <1>2, <1>3, <1>4, <1>5

LEMMA FinishOrder ==
    ASSUME OrderInv, [ActorNext]_actorVars, Finish
    PROVE  /\ Attended' /\ StopIsLast' /\ TasksHandled'
           /\ taken \in 1 .. taken /\ accepted[taken] = cur /\ op[cur] \in TaskOps
  <1> USE DEF OrderInv, ServerInv
  <1>1. /\ pc = "handling" /\ pc' = "idle" /\ done' = done \cup {cur}
        /\ UNCHANGED <<taken, accepted, config, op>>
    BY DEF Finish, chanVars
  <1>2. taken \in 1 .. taken /\ accepted[taken] = cur /\ op[cur] \in TaskOps
    BY <1>1, TakenStay DEF CurIsLast, Attended
  <1>3. Attended' /\ StopIsLast'
    BY <1>1, TakenStay DEF Attended, StopIsLast, Leaving
  <1>4. TasksHandled'
    BY <1>1, <1>2 DEF TasksHandled
  <1> QED
    BY <1>2, <1>3, <1>4

LEMMA OrderStep == OrderInv /\ [ActorNext]_actorVars => OrderInv'
  <1> SUFFICES ASSUME OrderInv, [ActorNext]_actorVars PROVE OrderInv'
    OBVIOUS
  <1>1. ServerInv'
    BY ServerInvStep DEF OrderInv
  <1> SUFFICES Attended' /\ StopIsLast' /\ TasksHandled'
    BY <1>1 DEF OrderInv
  <1>2. ASSUME NEW r \in Messages, TakeTask(r) \/ TakeStop(r) \/ TakeRestart(r) \/ RestartPanics(r)
        PROVE  Attended' /\ StopIsLast' /\ TasksHandled'
    BY <1>2, TakeOrder
  <1>3. CASE Finish
    BY <1>3, FinishOrder
  <1>4. CASE StartedOk \/ StartedErr \/ RefreshStopped \/ Stopped \/ DropNotifier
    BY <1>4, QuietOrder
       DEF StartedOk, StartedErr, RefreshStopped, Stopped, DropNotifier, Leave,
           Leaving, chanVars
  <1>9. CASE StreamOver \/ SourceOver \/ FinishItem \/ Finished \/ StreamStep
    BY <1>9, QuietOrder
       DEF StreamOver, SourceOver, FinishItem, Finished, StreamStep, TakeItem,
           SourceEnds, EndOfStream, LeaveLoop, Leaving, chanVars, loopVars
  <1>5. CASE TimeOut \/ Crash
    BY <1>5, QuietOrder
       DEF TimeOut, Crash, DropHandler, AbandonBlocked, Abandon, Leave, Leaving, chanVars,
           PcStates
  <1>6. CASE DropMailbox
    BY <1>6, QuietOrder DEF DropMailbox, DropReceiver, loopVars
  <1>7. CASE ClientStep
    <2>1. UNCHANGED <<pc, cur, done>>
      BY <1>7 DEF ClientStep, ClientIssue, HandlerIssue, SendReturns, CallReturns,
                  GiveUp, ReleaseHandle, loopVars
    <2>2. taken' = taken
      BY <1>7 DEF ClientStep, ClientIssue, HandlerIssue, Issue, Enqueue, Send, ForceSend,
                  Refuse, SendReturns, FlushDone, CallReturns, GiveUp, Abandon,
                  ReleaseHandle, DropHandle, chanVars
    <2> QED
      BY <2>1, <2>2, QuietOrder
  <1>8. CASE UNCHANGED actorVars
    BY <1>8, QuietOrder DEF actorVars, chanVars, loopVars
  <1> QED
    BY <1>2, <1>3, <1>4, <1>5, <1>6, <1>7, <1>8, <1>9 DEF ActorNext, LoopStep

LEMMA OrderInvariant == ActorSpec => []OrderInv
  BY OrderInit, OrderStep, PTL DEF ActorSpec

\* Nothing behind a stop is taken, and what was accepted before it has been
\* handled by the time the stop is reached, unless a timeout is configured
\* (environment.rs:104-133).
THEOREM StopsAreBarriers == ActorSpec => []StopIsABarrier
  <1>1. ASSUME OrderInv
        PROVE  StopIsABarrier
    <2>1. taken \in Nat
      BY <1>1 DEF OrderInv, ServerInv, ReplyInv, ChannelInv, ChannelTypeOK
    <2>2. ASSUME NEW j \in 1 .. taken, op[accepted[j]] = "stop"
          PROVE  j = taken
      BY <1>1, <2>2 DEF OrderInv, StopIsLast
    <2>3. ASSUME NEW j \in 1 .. taken, op[accepted[j]] = "stop", ~ TimesOut(config),
                 NEW i \in 1 .. j - 1, op[accepted[i]] \in TaskOps
          PROVE  accepted[i] \in done
      <3>1. i \in 1 .. taken /\ i # taken
        BY <2>1
      <3> QED
        BY <1>1, <2>3, <3>1 DEF OrderInv, TasksHandled
    <2> QED
      BY <2>2, <2>3 DEF StopIsABarrier
  <1> QED
    BY <1>1, OrderInvariant, PTL

-----------------------------------------------------------------------------
(* What a restart forgets *)

\* Which requests survive depends on what was taken and completed, and on
\* whether the last restart got past stopped().
LEMMA SurvivorsStay ==
    ASSUME OrderInv, [ActorNext]_actorVars, UNCHANGED <<taken, done>>,
           pc = "refreshing" <=> pc' = "refreshing",
           pc = "refreshing" => cur' = cur
    PROVE  Survivors' = Survivors
  <1>1. \A j \in 1 .. taken : Refreshed(j)' <=> Refreshed(j)
    BY TakenStay DEF Refreshed
  <1>2. ASSUME NEW r
        PROVE  (\E i \in 1 .. taken :
                  accepted'[i] = r /\ \A j \in i .. taken : ~ Refreshed(j)')
               <=> \E i \in 1 .. taken :
                     accepted[i] = r /\ \A j \in i .. taken : ~ Refreshed(j)
    <2>1. \A i \in 1 .. taken : \A j \in i .. taken : j \in 1 .. taken
      BY TakenStay
    <2> QED
      BY <1>1, <2>1, TakenStay
  <1> QED
    BY <1>2, TakenStay DEF Survivors

\* A request that has just been taken was not completed, and a restart that
\* has just been taken has not been past stopped().
LEMMA TakeSurvivors ==
    ASSUME OrderInv, [ActorNext]_actorVars, NEW r \in Messages,
           TakeTask(r) \/ TakeStop(r) \/ TakeRestart(r)
    PROVE  Survivors' = Survivors
  <1> USE DEF OrderInv, ServerInv
  <1>1. /\ taken \in Nat /\ taken' = taken + 1
        /\ accepted' = accepted /\ accepted[taken + 1] = r /\ taken < Len(accepted)
    BY TakenStay, TakeOrder DEF Attended
  <1>2. /\ pc = "idle"
        /\ UNCHANGED <<config, op, done>>
        /\ op[r] = "restart" =>
             config.strategy = "NonRestartable" \/ pc' = "refreshing"
        /\ pc' = "refreshing" => cur' = r
    BY DEF TakeTask, TakeStop, TakeRestart, Next1, LeaveLoop, TaskOps, CallOps
  <1>3. CASE config.strategy # "RecreateFromDefault"
    BY <1>2, <1>3 DEF Survivors
  <1>4. CASE config.strategy = "RecreateFromDefault"
    <2>1. \A j : j = taken + 1 => ~ Refreshed(j)'
      BY <1>1, <1>2, <1>4 DEF Refreshed
    <2>2. ASSUME NEW j \in 1 .. taken
          PROVE  Refreshed(j)' <=> Refreshed(j)
      <3>1. accepted[j] # r
        <4>1. j \in 1 .. Len(accepted) /\ taken + 1 \in 1 .. Len(accepted) /\ j # taken + 1
          BY <1>1
        <4> QED
          BY <1>1, <4>1 DEF ReplyInv, ChannelInv, AcceptedOnce
      <3> QED
        BY <1>1, <1>2, <3>1 DEF Refreshed
    <2>3. r \notin done
      <3>1. Receive /\ r = queue[1]
        BY DEF TakeTask, TakeStop, TakeRestart, Next1
      <3> QED
        BY <3>1, TakenIsNotQueued DEF ReplyInv, TakenOut
    <2>4. ASSUME NEW x \in done
          PROVE  (\E i \in 1 .. taken + 1 :
                    accepted[i] = x /\ \A j \in i .. taken + 1 : ~ Refreshed(j)')
                 <=> \E i \in 1 .. taken :
                       accepted[i] = x /\ \A j \in i .. taken : ~ Refreshed(j)
      <3>1. \A i \in 1 .. taken + 1 : accepted[i] = x => i \in 1 .. taken
        BY <1>1, <2>3
      <3>2. ASSUME NEW i \in 1 .. taken
            PROVE  (\A j \in i .. taken + 1 : ~ Refreshed(j)')
                   <=> \A j \in i .. taken : ~ Refreshed(j)
        <4>1. i .. taken + 1 = (i .. taken) \cup {taken + 1}
          BY <1>1
        <4>2. \A j \in i .. taken : j \in 1 .. taken
          BY <1>1
        <4> QED
          BY <2>1, <2>2, <4>1, <4>2
      <3>3. 1 .. taken \subseteq 1 .. taken + 1
        BY <1>1
      <3> QED
        BY <3>1, <3>2, <3>3
    <2> QED
      BY <1>1, <1>2, <2>4 DEF Survivors
  <1> QED
    BY <1>3, <1>4

\* A request that has just been completed survives, as the last one taken.
LEMMA FinishSurvivors ==
    ASSUME OrderInv, [ActorNext]_actorVars, Finish
    PROVE  Survivors' = Survivors \cup {cur}
  <1>1. /\ pc = "handling" /\ pc' = "idle" /\ done' = done \cup {cur}
        /\ UNCHANGED <<taken, accepted, config, op>>
    BY DEF Finish, chanVars
  <1>2. taken \in 1 .. taken /\ accepted[taken] = cur /\ op[cur] \in TaskOps
    BY FinishOrder
  <1>3. \A j : Refreshed(j)' <=> Refreshed(j)
    BY <1>1 DEF Refreshed
  <1>4. \A j \in taken .. taken : ~ Refreshed(j)
    BY <1>2 DEF Refreshed, TaskOps, CallOps
  <1>5. \E i \in 1 .. taken : accepted[i] = cur /\ \A j \in i .. taken : ~ Refreshed(j)
    BY <1>2, <1>4
  <1> QED
    BY <1>1, <1>3, <1>5 DEF Survivors

\* Once a restart is past stopped(), a recreated actor remembers nothing.
LEMMA RefreshSurvivors ==
    ASSUME OrderInv, [ActorNext]_actorVars, RefreshStopped
    PROVE  Survivors' = IF config.strategy = "RecreateFromDefault" THEN {} ELSE done
  <1>1. /\ pc = "refreshing" /\ pc' = "restarting"
        /\ UNCHANGED <<taken, accepted, config, op, done>>
    BY DEF RefreshStopped, chanVars
  <1>2. taken \in 1 .. taken /\ accepted[taken] = cur /\ op[cur] = "restart"
    BY <1>1, TakenStay DEF OrderInv, Attended
  <1>3. Refreshed(taken)'
    BY <1>1, <1>2 DEF Refreshed
  <1>4. \A i \in 1 .. taken : taken \in i .. taken
    BY <1>2
  <1> QED
    BY <1>1, <1>3, <1>4 DEF Survivors

LEMMA RemembersStep ==
    ASSUME OrderInv, Undecided, exit # "panicked" => state = Survivors,
           [ActorNext]_actorVars
    PROVE  exit' # "panicked" => state' = Survivors'
  <1>1. ASSUME NEW r \in Messages, TakeTask(r) \/ TakeStop(r) \/ TakeRestart(r) \/ RestartPanics(r)
        PROVE  exit' # "panicked" => state' = Survivors'
    BY <1>1, TakeSurvivors DEF TakeTask, TakeStop, TakeRestart, RestartPanics, Leave
  <1>2. CASE Finish
    BY <1>2, FinishSurvivors DEF Finish
  <1>3. CASE RefreshStopped
    <2>1. config.strategy # "RecreateFromDefault" => Survivors = done
      BY DEF Survivors
    <2> QED
      BY <1>3, <2>1, RefreshSurvivors DEF RefreshStopped
  <1>4. CASE Crash
    BY <1>4 DEF Crash, Leave
  <1>5. CASE StartedOk \/ StartedErr \/ Stopped \/ DropNotifier
    <2>1. /\ UNCHANGED <<taken, done, state>> /\ pc # "refreshing" /\ pc' # "refreshing"
          /\ pc # "unwinding" \/ exit' = exit
      BY <1>5 DEF StartedOk, StartedErr, Stopped, DropNotifier, Leave, chanVars
    <2> QED
      BY <2>1, SurvivorsStay DEF Undecided
  <1>10. CASE StreamOver \/ SourceOver \/ FinishItem \/ Finished \/ StreamStep
    <2>1. /\ UNCHANGED <<taken, done, state, exit>> /\ cur' = cur
          /\ pc = "refreshing" <=> pc' = "refreshing"
      BY <1>10 DEF StreamOver, SourceOver, FinishItem, Finished, StreamStep, TakeItem,
                   SourceEnds, EndOfStream, LeaveLoop, chanVars, loopVars
    <2> QED
      BY <2>1, SurvivorsStay
  <1>6. CASE TimeOut
    <2>1. /\ UNCHANGED <<taken, done, state>> /\ pc = "handling"
          /\ pc' \in {"idle", "unwinding"}
      BY <1>6 DEF TimeOut, DropHandler, AbandonBlocked, Abandon, Leave, chanVars
    <2> QED
      BY <2>1, SurvivorsStay DEF Undecided
  <1>7. CASE DropMailbox
    BY <1>7, SurvivorsStay DEF DropMailbox, DropReceiver, loopVars
  <1>8. CASE ClientStep
    <2>1. UNCHANGED <<pc, cur, done, state, exit>>
      BY <1>8 DEF ClientStep, ClientIssue, HandlerIssue, SendReturns, CallReturns,
                  GiveUp, ReleaseHandle, loopVars
    <2>2. taken' = taken
      BY <1>8 DEF ClientStep, ClientIssue, HandlerIssue, Issue, Enqueue, Send, ForceSend,
                  Refuse, SendReturns, FlushDone, CallReturns, GiveUp, Abandon,
                  ReleaseHandle, DropHandle, chanVars
    <2> QED
      BY <2>1, <2>2, SurvivorsStay
  <1>9. CASE UNCHANGED actorVars
    BY <1>9, SurvivorsStay DEF actorVars, chanVars, loopVars
  <1> QED
    BY <1>1, <1>2, <1>3, <1>4, <1>5, <1>6, <1>7, <1>8, <1>9, <1>10
       DEF ActorNext, LoopStep

\* A restart forgets what was completed before it if and only if the actor is
\* recreated from its default (restart_strategy.rs:10-37).
THEOREM RestartsForgetExactly == ActorSpec => []StateSurvivesRestart
  <1>1. StateSurvivesRestart <=> (exit # "panicked" => state = Survivors)
    BY DEF StateSurvivesRestart, Survivors
  <1>2. ActorInit => StateSurvivesRestart
    BY DEF ActorInit, StateSurvivesRestart
  <1>3. StateSurvivesRestart' <=> (exit' # "panicked" => state' = Survivors')
    BY DEF StateSurvivesRestart, Survivors
  <1>4. OrderInv /\ HookPairs /\ StateSurvivesRestart /\ [ActorNext]_actorVars
        => StateSurvivesRestart'
    BY <1>1, <1>3, RemembersStep DEF HookPairs
  <1> QED
    BY <1>2, <1>4, OrderInvariant, HookPairsInvariant, PTL DEF ActorSpec

=============================================================================
