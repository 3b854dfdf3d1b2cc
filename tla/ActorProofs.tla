----------------------------- MODULE ActorProofs -----------------------------
(***************************************************************************)
(* Proofs about Actor for every set of requests, every capacity and every  *)
(* configuration.  The actor only ever acts on its mailbox through the     *)
(* operations of Channel, so ChannelInv carries over; on top of it         *)
(* ReplyInv follows each response from the request to the caller.  The     *)
(* rest is about the hooks, handlers that await their own actor, and the   *)
(* end.                                                                    *)
(***************************************************************************)
EXTENDS Actor, ChannelProofs

-----------------------------------------------------------------------------
(* The mailbox seen from the actor *)

LEMMA ActorStepIsChannelStep == [ActorNext]_actorVars => [ChannelNext]_chanVars
  <1> SUFFICES ASSUME ActorNext PROVE [ChannelNext]_chanVars
    BY DEF actorVars
  <1>1. CASE LoopStep
    <2>1. ASSUME NEW r \in Messages,
                 TakeTask(r) \/ TakeStop(r) \/ TakeRestart(r) \/ RestartPanics(r)
          PROVE  ChannelNext
      BY <2>1 DEF TakeTask, TakeStop, TakeRestart, RestartPanics, Next1, ChannelNext
    <2>2. CASE StreamOver \/ DropMailbox
      BY <2>2 DEF StreamOver, DropMailbox, ChannelNext
    <2>3. CASE TimeOut
      BY <2>3 DEF TimeOut, DropHandler, AbandonBlocked, ChannelNext
    <2>4. CASE StartedOk \/ Finish \/ RefreshStopped \/ Stopped \/ DropNotifier
                 \/ SourceOver \/ FinishItem \/ Finished
      BY <2>4 DEF StartedOk, Finish, RefreshStopped, Stopped, DropNotifier,
                  SourceOver, FinishItem, Finished
    <2> QED
      BY <1>1, <2>1, <2>2, <2>3, <2>4 DEF LoopStep
  <1>2. CASE StartedErr \/ Crash \/ StreamStep
    BY <1>2 DEF StartedErr, Crash, DropHandler, AbandonBlocked, ChannelNext,
                StreamStep, TakeItem, SourceEnds
  <1>3. CASE ClientStep
    <2>1. ASSUME NEW r \in Messages, NEW k, Enqueue(r, k)
          PROVE  ChannelNext
      BY <2>1 DEF Enqueue, ChannelNext
    <2>2. ASSUME NEW r \in Messages, NEW k, ClientIssue(r, k) \/ HandlerIssue(r, k)
          PROVE  ChannelNext
      BY <2>2, <2>1 DEF ClientIssue, HandlerIssue, Issue
    <2>3. ASSUME NEW r \in Messages, SendReturns(r) \/ CallReturns(r) \/ GiveUp(r)
          PROVE  [ChannelNext]_chanVars
      BY <2>3 DEF SendReturns, CallReturns, GiveUp, ChannelNext
    <2>4. ASSUME NEW h \in Handles, ReleaseHandle(h)
          PROVE  ChannelNext
      BY <2>4 DEF ReleaseHandle, ChannelNext
    <2> QED
      BY <1>3, <2>2, <2>3, <2>4 DEF ClientStep
  <1> QED
    BY <1>1, <1>2, <1>3 DEF ActorNext

\* An actor uses its mailbox only as Channel allows, so whatever is proved of
\* Channel holds inside the actor (environment.rs:96-138 over channel.rs).
THEOREM ActorUsesChannel == ActorSpec => ChannelSpec
  <1>1. ActorInit => ChannelInit
    BY DEF ActorInit
  <1> QED
    BY <1>1, ActorStepIsChannelStep, PTL DEF ActorSpec, ChannelSpec

LEMMA PushedIsQueued ==
    ASSUME ChannelInv, NEW m \in Messages, Push(m)
    PROVE  \A x : In(x, queue') <=> In(x, queue) \/ x = m
  <1>1. /\ Len(queue) \in Nat /\ Len(queue') = Len(queue) + 1
        /\ \A i \in 1 .. Len(queue) : queue'[i] = queue[i]
        /\ queue'[Len(queue) + 1] = m
    BY AppendElements, LenProperties DEF Push, ChannelInv, ChannelTypeOK
  <1> QED
    BY <1>1 DEF In

\* The message that is taken was queued once.
LEMMA TakenIsNotQueued ==
    ASSUME ChannelInv, Receive
    PROVE  /\ queue[1] \in Messages
           /\ In(queue[1], queue)
           /\ \A x : In(x, queue') <=> In(x, queue) /\ x # queue[1]
  <1>1. /\ queue' \in Seq(Messages) /\ Len(queue) \in Nat \ {0}
        /\ Len(queue') = Len(queue) - 1
        /\ \A i \in 1 .. Len(queue) - 1 : queue'[i] = queue[i + 1]
    BY TailElements DEF Receive, Pop, ChannelInv, ChannelTypeOK
  <1>2. queue[1] \in Messages /\ In(queue[1], queue)
    BY <1>1 DEF In, ChannelInv, ChannelTypeOK
  <1>3. ASSUME NEW i \in 2 .. Len(queue)
        PROVE  queue[i] # queue[1]
    <2>1. /\ taken \in Nat /\ Len(accepted) = taken + Len(queue)
          /\ queue[i] = accepted[taken + i] /\ queue[1] = accepted[taken + 1]
      BY <1>1 DEF Receive, Pop, ChannelInv, ChannelTypeOK, NothingLost
    <2>2. taken + i \in 1 .. Len(accepted) /\ taken + 1 \in 1 .. Len(accepted)
      BY <2>1, <1>1
    <2>3. taken + i # taken + 1
      BY <2>1
    <2> QED
      BY <2>1, <2>2, <2>3 DEF ChannelInv, AcceptedOnce
  <1>4. ASSUME NEW x, In(x, queue')
        PROVE  In(x, queue) /\ x # queue[1]
    <2>1. PICK i \in 1 .. Len(queue') : queue'[i] = x
      BY <1>4 DEF In
    <2>2. i \in 1 .. Len(queue) - 1
      BY <2>1, <1>1
    <2>3. i + 1 \in 2 .. Len(queue) /\ queue[i + 1] = x
      BY <2>1, <2>2, <1>1
    <2> QED
      BY <2>3, <1>1, <1>3 DEF In
  <1>5. ASSUME NEW x, In(x, queue), x # queue[1]
        PROVE  In(x, queue')
    <2>1. PICK i \in 1 .. Len(queue) : queue[i] = x
      BY <1>5 DEF In
    <2>2. i # 1
      BY <2>1, <1>5
    <2>3. i - 1 \in 1 .. Len(queue) - 1 /\ (i - 1) + 1 = i
      BY <2>2, <1>1
    <2>4. queue'[i - 1] = x
      BY <2>1, <2>3, <1>1
    <2>5. i - 1 \in 1 .. Len(queue')
      BY <2>3, <1>1
    <2> QED
      BY <2>4, <2>5 DEF In
  <1> QED
    BY <1>2, <1>4, <1>5

-----------------------------------------------------------------------------
(* Responses *)

\* A request that was not issued has left no trace.
Fresh ==
    \A r \in Messages :
        /\ op[r] = "none" <=> fut[r] = "new"
        /\ op[r] = "none" => call[r] = "none"
        /\ In(r, queue) => op[r] # "none"

\* What has been handled, and what is being worked on, was taken out of the
\* mailbox; what is being worked on has not been handled.
TakenOut ==
    /\ \A r \in done : op[r] # "none" /\ ~ In(r, queue) /\ r # cur
    /\ cur \in Messages => op[cur] # "none" /\ ~ In(cur, queue)
    /\ pc = "handling" => cur \in Messages

CallsAreTasks == \A r \in Messages : call[r] # "none" => op[r] \in TaskOps

ReplyInv ==
    /\ ChannelInv
    /\ ActorTypeOK
    /\ CallsAreTasks
    /\ Fresh
    /\ TakenOut
    /\ NoOrphanedCall
    /\ RepliesAreTrue

LEMMA ReplyInit == ActorInit => ReplyInv
  <1> SUFFICES ASSUME ActorInit PROVE ReplyInv
    OBVIOUS
  <1>1. ChannelInv
    BY InitInv DEF ActorInit
  <1>2. ActorTypeOK
    BY <1>1 DEF ActorInit, ActorTypeOK, ChannelInv, Ops, TaskOps, CallOps,
                CallStates, PcStates, HookCounts
  <1>3. ~ \E x : In(x, queue)
    BY DEF ActorInit, ChannelInit, MpscInit, In
  <1>4. /\ Fresh /\ TakenOut /\ NoOrphanedCall /\ RepliesAreTrue
        /\ CallsAreTasks
    BY <1>3, NoRequestAssumption
       DEF ActorInit, ChannelInit, Fresh, TakenOut, CallsAreTasks, NoOrphanedCall, RepliesAreTrue
  <1> QED
    BY <1>1, <1>2, <1>4 DEF ReplyInv

\* Steps that leave the requests and the responses alone: hooks, the end of
\* the stream, the notifier, a send that goes through, a dropped reference.
LEMMA QuietInv ==
    ASSUME ReplyInv, ChannelInv', ActorTypeOK',
           UNCHANGED <<queue, op, call, done>>,
           \A r \in Messages : fut'[r] = "new" <=> fut[r] = "new",
           cur' \in {cur, NoRequest},
           pc = "handling" <=> pc' = "handling",
           pc = "handling" => cur' = cur
    PROVE  ReplyInv'
  <1> USE DEF ReplyInv
  <1>1. \A x : In(x, queue') <=> In(x, queue)
    BY DEF In
  <1>2. \A r \in Messages : r = cur' => r = cur
    BY NoRequestAssumption
  <1>3. Fresh' /\ CallsAreTasks'
    BY <1>1 DEF Fresh, CallsAreTasks
  <1>4. TakenOut'
    BY <1>1, <1>2 DEF TakenOut, ActorTypeOK
  <1>5. NoOrphanedCall'
    BY <1>1 DEF NoOrphanedCall
  <1>6. RepliesAreTrue'
    BY <1>1, <1>2 DEF RepliesAreTrue
  <1> QED
    BY <1>3, <1>4, <1>5, <1>6

LEMMA HookInv ==
    ASSUME ReplyInv, ChannelInv',
           \/ StartedOk \/ StartedErr \/ StreamOver \/ RefreshStopped
           \/ Stopped \/ DropNotifier
           \/ SourceOver \/ TakeItem \/ FinishItem \/ Finished
    PROVE  ReplyInv'
  <1> USE DEF ReplyInv
  <1>1. /\ UNCHANGED <<queue, fut, op, call, done>>
        /\ cur' \in {cur, NoRequest}
        /\ pc # "handling" /\ pc' # "handling"
    <2>1. CASE StartedOk \/ StartedErr
      BY <2>1 DEF StartedOk, StartedErr, Leave, chanVars
    <2>2. CASE StreamOver
      BY <2>2 DEF StreamOver, EndOfStream, End, LeaveLoop
    <2>3. CASE RefreshStopped \/ Stopped
      BY <2>3 DEF RefreshStopped, Stopped, Leave, chanVars
    <2>4. CASE DropNotifier
      BY <2>4 DEF DropNotifier, chanVars
    <2>5. CASE SourceOver \/ TakeItem \/ FinishItem \/ Finished
      BY <2>5 DEF SourceOver, TakeItem, FinishItem, Finished, LeaveLoop, chanVars
    <2> QED
      BY <2>1, <2>2, <2>3, <2>4, <2>5
  <1>2. hooks' \in HookCounts
    BY DEF StartedOk, StartedErr, StreamOver, RefreshStopped, Stopped, DropNotifier,
           SourceOver, TakeItem, FinishItem, Finished,
           ActorTypeOK, HookCounts
  <1>3. ActorTypeOK'
    BY <1>1, <1>2
       DEF StartedOk, StartedErr, StreamOver, RefreshStopped, Stopped, DropNotifier,
           SourceOver, TakeItem, FinishItem, Finished,
           Leave, LeaveLoop, ActorTypeOK, ChannelInv, PcStates
  <1> QED
    BY <1>1, <1>3, QuietInv

LEMMA ReleaseInv ==
    ASSUME ReplyInv, ChannelInv',
           \/ \E r \in Messages : SendReturns(r)
           \/ \E h \in Handles : ReleaseHandle(h)
           \/ SourceEnds
    PROVE  ReplyInv'
  <1>1. ASSUME NEW r \in Messages, SendReturns(r)
        PROVE  ReplyInv'
    <2>1. /\ UNCHANGED <<queue, op, call, done, cur, pc>>
          /\ \A x \in Messages : fut'[x] = "new" <=> fut[x] = "new"
      BY <1>1 DEF SendReturns, FlushDone, SetFut, ReplyInv, ActorTypeOK, ChannelTypeOK
    <2>2. ActorTypeOK'
      BY <1>1, <2>1
         DEF SendReturns, Unblock, ReplyInv, ActorTypeOK, ChannelInv
    <2> QED
      BY <2>1, <2>2, QuietInv
  <1>2. ASSUME NEW h \in Handles, ReleaseHandle(h)
        PROVE  ReplyInv'
    <2>1. UNCHANGED <<queue, fut, op, call, done, cur, pc, blockedOn, config, source, state,
                      hooks, running, exit>>
      BY <1>2 DEF ReleaseHandle, DropHandle, loopVars
    <2>2. ActorTypeOK'
      BY <2>1 DEF ReplyInv, ActorTypeOK, ChannelInv
    <2> QED
      BY <2>1, <2>2, QuietInv
  <1>3. CASE SourceEnds
    <2>1. UNCHANGED <<queue, fut, op, call, done, cur, pc, blockedOn, config, state, hooks,
                      running, exit>>
      BY <1>3 DEF SourceEnds, chanVars, loopVars
    <2>2. ActorTypeOK'
      BY <1>3, <2>1 DEF SourceEnds, ReplyInv, ActorTypeOK, ChannelInv
    <2> QED
      BY <2>1, <2>2, QuietInv
  <1> QED
    BY <1>1, <1>2, <1>3

\* The loop takes the oldest request: it leaves the mailbox and, if it is a
\* task, its responder is now with the handler.
LEMMA TakeInv ==
    ASSUME ReplyInv, ChannelInv', NEW r \in Messages,
           TakeTask(r) \/ TakeStop(r) \/ TakeRestart(r) \/ RestartPanics(r)
    PROVE  ReplyInv'
  <1> USE DEF ReplyInv
  <1>1. /\ pc = "idle" /\ Receive /\ r = queue[1]
        /\ UNCHANGED <<fut, config, source, op, call, done, state, hooks, running>>
        /\ blockedOn' \in {blockedOn, NoRequest} /\ exit' \in {exit, "panicked"}
    BY DEF TakeTask, TakeStop, TakeRestart, RestartPanics, Leave, Next1, Receive
  <1>2. /\ In(r, queue)
        /\ \A x : In(x, queue') <=> In(x, queue) /\ x # r
    BY <1>1, TakenIsNotQueued
  <1>3. \/ op[r] \in TaskOps /\ pc' = "handling" /\ cur' = r
        \/ op[r] \in {"stop", "restart"} /\ pc' # "handling"
           /\ cur' \in {cur, r, NoRequest}
    BY <1>1 DEF TakeTask, TakeStop, TakeRestart, RestartPanics, Leave, LeaveLoop
  <1>4. ActorTypeOK'
    BY <1>1, <1>3
       DEF TakeTask, TakeStop, TakeRestart, RestartPanics, Leave, LeaveLoop, ActorTypeOK,
           ChannelInv, PcStates
  <1>5. call[r] = "waiting" => op[r] \in TaskOps
    BY DEF CallsAreTasks
  <1>6. op[r] # "none" /\ r \notin done
    BY <1>2 DEF Fresh, TakenOut
  <1>7. Fresh' /\ TakenOut'
    BY <1>1, <1>2, <1>3, <1>6, NoRequestAssumption DEF Fresh, TakenOut, ActorTypeOK
  <1>8. NoOrphanedCall'
    BY <1>1, <1>2, <1>3, <1>5 DEF NoOrphanedCall, TaskOps, CallOps
  <1>9. RepliesAreTrue'
    BY <1>1, <1>2, <1>3, NoRequestAssumption DEF RepliesAreTrue
  <1> QED
    BY <1>1, <1>4, <1>7, <1>8, <1>9 DEF CallsAreTasks

LEMMA FinishInv ==
    ASSUME ReplyInv, ChannelInv', Finish
    PROVE  ReplyInv'
  <1> USE DEF ReplyInv
  <1>1. /\ pc = "handling" /\ pc' = "idle" /\ cur \in Messages /\ cur' = NoRequest
        /\ done' = done \cup {cur} /\ state' = state \cup {cur}
        /\ UNCHANGED <<queue, fut, config, source, op, blockedOn, hooks, running, exit>>
    BY DEF Finish, TakenOut, chanVars
  <1>2. /\ \A x \in Messages \ {cur} : call'[x] = call[x]
        /\ call'[cur] = IF call[cur] = "waiting" THEN "answered" ELSE call[cur]
        /\ call' \in [Messages -> CallStates]
    BY <1>1 DEF Finish, ActorTypeOK, CallStates
  <1>3. ActorTypeOK'
    BY <1>1, <1>2 DEF ActorTypeOK, ChannelInv, PcStates
  <1>4. cur' \notin Messages /\ op[cur] # "none" /\ ~ In(cur, queue)
    BY <1>1, NoRequestAssumption DEF TakenOut
  <1>5. Fresh' /\ TakenOut'
    BY <1>1, <1>2, <1>4 DEF Fresh, TakenOut, In, ActorTypeOK
  <1>6. NoOrphanedCall'
    BY <1>1, <1>2, <1>4 DEF NoOrphanedCall, In
  <1>7. RepliesAreTrue'
    BY <1>1, <1>2, <1>4 DEF RepliesAreTrue, In
  <1> QED
    BY <1>1, <1>2, <1>3, <1>5, <1>6, <1>7 DEF CallsAreTasks

\* A handler that is dropped, by its timeout or by a panic, takes its
\* responder with it, and nothing else becomes of the mailbox.
LEMMA DropHandlerInv ==
    ASSUME ReplyInv, ChannelInv', TimeOut \/ Crash
    PROVE  ReplyInv'
  <1> USE DEF ReplyInv
  <1>1. /\ DropHandler
        /\ cur' = NoRequest /\ blockedOn' = NoRequest /\ pc' \in {"idle", "unwinding"}
        /\ UNCHANGED <<config, source, op, done, state, hooks, running>>
        /\ exit' \in {exit, "error", "panicked"}
    BY DEF TimeOut, Crash, Leave
  <1>2. /\ queue' = queue
        /\ \A x \in Messages : fut'[x] = "new" <=> fut[x] = "new"
    BY <1>1 DEF DropHandler, AbandonBlocked, Abandon, SetFut, chanVars, ActorTypeOK,
                ChannelTypeOK
  <1>3. /\ call' \in [Messages -> CallStates]
        /\ \A x \in Messages :
             \/ call'[x] = call[x] /\ (x = cur => call[x] # "waiting")
             \/ x = cur /\ call[x] = "waiting" /\ call'[x] = "dropped"
             \/ call[x] # "none" /\ call'[x] = "given_up"
    BY <1>1 DEF DropHandler, Dropped, Forgotten, ActorTypeOK, CallStates, Unresolved
  <1>4. ActorTypeOK'
    BY <1>1, <1>3 DEF ActorTypeOK, ChannelInv, PcStates
  <1>5. cur' \notin Messages
    BY <1>1, NoRequestAssumption
  <1>6. Fresh' /\ TakenOut'
    BY <1>1, <1>2, <1>3, <1>5 DEF Fresh, TakenOut, In, ActorTypeOK
  <1>7. NoOrphanedCall'
    BY <1>1, <1>2, <1>3 DEF NoOrphanedCall, In
  <1>8. RepliesAreTrue'
    BY <1>1, <1>2, <1>3, <1>5 DEF RepliesAreTrue, TakenOut, In
  <1>9. CallsAreTasks'
    BY <1>1, <1>3 DEF CallsAreTasks
  <1> QED
    BY <1>4, <1>6, <1>7, <1>8, <1>9

LEMMA DropMailboxInv ==
    ASSUME ReplyInv, ChannelInv', DropMailbox
    PROVE  ReplyInv'
  <1> USE DEF ReplyInv
  <1>1. /\ pc = "unwinding"
        /\ UNCHANGED <<fut, config, source, op, pc, cur, blockedOn, done, state, hooks, running,
                       exit>>
        /\ queue' = <<>>
    BY DEF DropMailbox, DropReceiver, DropRx, loopVars
  <1>2. ~ \E x : In(x, queue')
    BY <1>1 DEF In
  <1>3. /\ call' \in [Messages -> CallStates]
        /\ \A x \in Messages : call'[x] = IF In(x, queue) THEN Dropped(x) ELSE call[x]
    BY DEF DropMailbox, Dropped, ActorTypeOK, CallStates
  <1>4. ActorTypeOK'
    BY <1>1, <1>3 DEF ActorTypeOK, ChannelInv
  <1>5. Fresh' /\ TakenOut' /\ CallsAreTasks'
    BY <1>1, <1>2, <1>3 DEF Fresh, TakenOut, CallsAreTasks, Dropped
  <1>6. NoOrphanedCall'
    BY <1>1, <1>2, <1>3 DEF NoOrphanedCall, Dropped
  <1>7. RepliesAreTrue'
    BY <1>1, <1>2, <1>3 DEF RepliesAreTrue, TakenOut, Dropped
  <1> QED
    BY <1>4, <1>5, <1>6, <1>7

\* A request is issued: a weak reference may be dead and the mailbox closed;
\* otherwise the request, with its responder, goes behind all others.
LEMMA IssueInv ==
    ASSUME ReplyInv, ChannelInv', NEW r \in Messages, NEW k \in Ops,
           ClientIssue(r, k) \/ HandlerIssue(r, k)
    PROVE  ReplyInv'
  <1> USE DEF ReplyInv
  <1>1. /\ Issue(r, k)
        /\ op[r] = "none" /\ op' = [op EXCEPT ![r] = k]
        /\ UNCHANGED <<config, source, pc, cur, done, state, hooks, running, exit>>
        /\ blockedOn' \in {blockedOn, r}
    BY DEF ClientIssue, HandlerIssue, Issue, loopVars
  <1> DEFINE Enqueued ==
        /\ \A x \in Messages \ {r} : fut'[x] = fut[x]
        /\ fut[r] = "new" /\ fut'[r] # "new"
        /\ Pushed(r) => \A x : In(x, queue') <=> In(x, queue) \/ x = r
        /\ ~ Pushed(r) => queue' = queue
  <1>2. Enqueued
    <2>1. CASE Refuse(r)
      BY <2>1 DEF Refuse, SetFut, Pushed, ActorTypeOK, ChannelTypeOK
    <2>2. ASSUME NEW s \in {"flushing", "forced"}, fut[r] = "new", PushOrFail(r, s)
          PROVE  Enqueued
      <3>1. CASE Push(r) /\ SetFut(r, s)
        <4>1. fut' = [fut EXCEPT ![r] = s] /\ fut \in [Messages -> FutStates]
          BY <3>1 DEF SetFut, ActorTypeOK, ChannelTypeOK
        <4> QED
          BY <4>1, <3>1, <2>2, PushedIsQueued DEF Pushed
      <3>2. CASE SetFut(r, "failed") /\ queue' = queue
        BY <3>2, <2>2 DEF SetFut, Pushed, ActorTypeOK, ChannelTypeOK
      <3> QED
        BY <2>2, <3>1, <3>2 DEF PushOrFail
    <2> QED
      BY <1>1, <2>1, <2>2 DEF Issue, Enqueue, Send, ForceSend
  <1>3. /\ call[r] = "none"
        /\ call' \in [Messages -> CallStates]
        /\ \A x \in Messages \ {r} : call'[x] = call[x]
        /\ call'[r] \in {"none", "waiting"}
        /\ call'[r] = "waiting" => k \in CallOps /\ Pushed(r)
    BY <1>1 DEF Issue, Fresh, ActorTypeOK, CallStates
  <1>4. /\ op' \in [Messages -> Ops \cup {"none"}]
        /\ op'[r] = k /\ k # "none"
        /\ \A x \in Messages \ {r} : op'[x] = op[x]
    BY <1>1 DEF ActorTypeOK, Ops, TaskOps, CallOps
  <1>5. ActorTypeOK'
    BY <1>1, <1>3, <1>4 DEF ActorTypeOK, ChannelInv
  <1>6. \A x \in Messages \ {r} : In(x, queue') <=> In(x, queue)
    BY <1>2 DEF In
  <1>7. r \notin done /\ r # cur
    BY <1>1 DEF TakenOut
  <1>8. Fresh' /\ CallsAreTasks'
    BY <1>2, <1>3, <1>4, <1>6 DEF Fresh, CallsAreTasks, TaskOps
  <1>9. TakenOut'
    BY <1>1, <1>4, <1>6, <1>7 DEF TakenOut, ActorTypeOK
  <1>10. NoOrphanedCall'
    BY <1>1, <1>2, <1>3, <1>6 DEF NoOrphanedCall
  <1>11. RepliesAreTrue'
    BY <1>1, <1>3, <1>6, <1>7 DEF RepliesAreTrue
  <1> QED
    BY <1>5, <1>8, <1>9, <1>10, <1>11

\* A caller gets its answer, or loses interest.
LEMMA CallerInv ==
    ASSUME ReplyInv, ChannelInv', NEW r \in Messages, CallReturns(r) \/ GiveUp(r)
    PROVE  ReplyInv'
  <1> USE DEF ReplyInv
  <1>1. /\ UNCHANGED <<queue, config, source, op, pc, cur, done, state, hooks, running, exit>>
        /\ \A x \in Messages : fut'[x] = "new" <=> fut[x] = "new"
        /\ blockedOn' \in {blockedOn, NoRequest}
    BY DEF CallReturns, GiveUp, Abandon, SetFut, Unblock, loopVars, chanVars,
           ActorTypeOK, ChannelTypeOK
  <1>2. /\ call' \in [Messages -> CallStates]
        /\ \A x \in Messages \ {r} : call'[x] = call[x]
        /\ \/ call'[r] = call[r]
           \/ call[r] # "none" /\ call'[r] = "given_up"
           \/ call[r] = "answered" /\ call'[r] = "ok"
           \/ call[r] = "dropped" /\ call'[r] = "canceled"
    BY DEF CallReturns, GiveUp, Forgotten, ActorTypeOK, CallStates, Unresolved
  <1>3. ActorTypeOK'
    BY <1>1, <1>2 DEF ActorTypeOK, ChannelInv
  <1>4. \A x : In(x, queue') <=> In(x, queue)
    BY <1>1 DEF In
  <1>5. Fresh' /\ TakenOut' /\ CallsAreTasks'
    BY <1>1, <1>2, <1>4 DEF Fresh, TakenOut, CallsAreTasks, ActorTypeOK
  <1>6. NoOrphanedCall'
    BY <1>1, <1>2, <1>4 DEF NoOrphanedCall
  <1>7. RepliesAreTrue'
    BY <1>1, <1>2, <1>4 DEF RepliesAreTrue
  <1> QED
    BY <1>3, <1>5, <1>6, <1>7

LEMMA ReplyStep == ReplyInv /\ [ActorNext]_actorVars => ReplyInv'
  <1> SUFFICES ASSUME ReplyInv, [ActorNext]_actorVars PROVE ReplyInv'
    OBVIOUS
  <1>1. ChannelInv'
    BY ActorStepIsChannelStep, StepInv DEF ReplyInv
  <1>2. CASE LoopStep
    BY <1>1, <1>2, HookInv, TakeInv, FinishInv, DropHandlerInv, DropMailboxInv
       DEF LoopStep
  <1>3. CASE StartedErr \/ Crash \/ StreamStep
    BY <1>1, <1>3, HookInv, DropHandlerInv, ReleaseInv DEF StreamStep
  <1>4. CASE ClientStep
    <2>1. ASSUME NEW r \in Messages, NEW k \in Ops, ClientIssue(r, k) \/ HandlerIssue(r, k)
          PROVE  ReplyInv'
      BY <1>1, <2>1, IssueInv
    <2>2. Operations \subseteq Ops /\ Operations \cap Awaited \subseteq Ops
      BY OperationsAssumption
    <2> QED
      BY <1>1, <1>4, <2>1, <2>2, CallerInv, ReleaseInv DEF ClientStep
  <1>5. CASE UNCHANGED actorVars
    <2>1. UNCHANGED <<queue, fut, config, source, op, call, pc, cur, blockedOn, done, state,
                      hooks, running, exit>>
      BY <1>5 DEF actorVars, chanVars, loopVars
    <2>2. ActorTypeOK'
      BY <1>1, <2>1 DEF ReplyInv, ActorTypeOK, ChannelInv
    <2> QED
      BY <1>1, <2>1, <2>2, QuietInv
  <1> QED
    BY <1>2, <1>3, <1>4, <1>5 DEF ActorNext

-----------------------------------------------------------------------------
(* The theorems *)

\* The inductive invariant of the event loop and the references.
THEOREM ReplyInvariant == ActorSpec => []ReplyInv
  BY ReplyInit, ReplyStep, PTL DEF ActorSpec

THEOREM ActorTypeCorrect == ActorSpec => []ActorTypeOK
  <1>1. ReplyInv => ActorTypeOK
    BY DEF ReplyInv
  <1> QED
    BY <1>1, ReplyInvariant, PTL

\* No caller of Addr::call, ping or Caller::call waits for a responder that is
\* gone: it is queued or with the running handler.
THEOREM NoCallIsOrphaned == ActorSpec => []NoOrphanedCall
  <1>1. ReplyInv => NoOrphanedCall
    BY DEF ReplyInv
  <1> QED
    BY <1>1, ReplyInvariant, PTL

\* An answer means that the handler completed, Canceled that it never will.
THEOREM RepliesAreTruthful == ActorSpec => []RepliesAreTrue
  <1>1. ReplyInv => RepliesAreTrue
    BY DEF ReplyInv
  <1> QED
    BY <1>1, ReplyInvariant, PTL

-----------------------------------------------------------------------------
(* Hooks *)

\* Until the loop's future returns, nobody is told anything; only the loop on
\* a stream handles items and runs finished().
Undecided ==
    /\ pc # "unwinding" => running = "pending" /\ exit = "none"
    /\ pc \in {"streaming", "finishing"} => config.onStream

HookPairs == ActorTypeOK /\ Undecided /\ HooksPaired

LEMMA HookPairsInit == ActorInit => Undecided /\ HooksPaired
  BY DEF ActorInit, Undecided, HooksPaired, Serving

LEMMA HookPairsStep ==
    ASSUME HookPairs, ActorTypeOK', [ActorNext]_actorVars
    PROVE  HookPairs'
  <1> USE DEF HookPairs, Undecided, HooksPaired, Serving
  <1>0. /\ hooks.started \in Nat /\ hooks.stopped \in Nat
        /\ hooks.finished \in Nat /\ hooks.items \in Nat
    BY DEF ActorTypeOK, HookCounts
  <1>1. CASE StartedOk
    <2>1. /\ hooks'.started = hooks.started + 1 /\ hooks'.stopped = hooks.stopped
         /\ hooks'.finished = hooks.finished
      BY <1>1 DEF StartedOk, ActorTypeOK, HookCounts
    <2> QED
      BY <1>0, <1>1, <2>1 DEF StartedOk
  <1>2. CASE RefreshStopped
    <2>1. /\ hooks'.stopped = hooks.stopped + 1 /\ hooks'.started = hooks.started
         /\ hooks'.finished = hooks.finished
      BY <1>2 DEF RefreshStopped, ActorTypeOK, HookCounts
    <2> QED
      BY <1>0, <1>2, <2>1 DEF RefreshStopped
  <1>3. CASE Stopped
    <2>1. /\ hooks'.stopped = hooks.stopped + 1 /\ hooks'.started = hooks.started
         /\ hooks'.finished = hooks.finished
      BY <1>3 DEF Stopped, ActorTypeOK, HookCounts
    <2> QED
      BY <1>0, <1>3, <2>1 DEF Stopped, Leave
  <1>4. CASE StartedErr \/ Crash \/ TimeOut
    BY <1>4 DEF StartedErr, Crash, TimeOut, Leave, PcStates
  <1>5. CASE StreamOver \/ Finish \/ DropMailbox \/ DropNotifier
    BY <1>5 DEF StreamOver, LeaveLoop, Finish, DropMailbox, DropNotifier, loopVars
  <1>8. CASE Finished \/ FinishItem
    <2>1. /\ hooks'.started = hooks.started /\ hooks'.stopped = hooks.stopped
          /\ Finished => hooks'.finished = hooks.finished + 1
          /\ FinishItem => hooks'.finished = hooks.finished
      BY <1>8 DEF Finished, FinishItem, ActorTypeOK, HookCounts
    <2>2. Finished => config.onStream
      BY <1>8 DEF Finished
    <2> QED
      BY <1>0, <1>8, <2>1, <2>2 DEF Finished, FinishItem
  <1>9. CASE SourceOver \/ StreamStep
    BY <1>9 DEF SourceOver, StreamStep, TakeItem, SourceEnds, LeaveLoop, loopVars
  <1>6. ASSUME NEW r \in Messages,
               TakeTask(r) \/ TakeStop(r) \/ TakeRestart(r) \/ RestartPanics(r)
        PROVE  HookPairs'
    BY <1>6 DEF TakeTask, TakeStop, TakeRestart, RestartPanics, Leave, LeaveLoop, Next1
  <1>7. CASE ClientStep \/ UNCHANGED actorVars
    <2>1. UNCHANGED <<config, pc, hooks, running, exit>>
      BY <1>7 DEF ClientStep, ClientIssue, HandlerIssue, SendReturns, CallReturns,
                  GiveUp, ReleaseHandle, actorVars, loopVars
    <2> QED
      BY <2>1
  <1> QED
    BY <1>1, <1>2, <1>3, <1>4, <1>5, <1>6, <1>7, <1>8, <1>9 DEF ActorNext, LoopStep

LEMMA HookPairsInvariant == ActorSpec => []HookPairs
  <1>1. ActorInit /\ ActorTypeOK => HookPairs
    BY HookPairsInit DEF HookPairs
  <1>2. HookPairs /\ ActorTypeOK' /\ [ActorNext]_actorVars => HookPairs'
    BY HookPairsStep
  <1> QED
    BY <1>1, <1>2, ActorTypeCorrect, PTL DEF ActorSpec

\* started() and stopped() alternate, and an address resolves Ok if and only
\* if the loop ended after its last stopped().
THEOREM HooksArePaired == ActorSpec => []HooksPaired
  <1>1. HookPairs => HooksPaired
    BY DEF HookPairs
  <1> QED
    BY <1>1, HookPairsInvariant, PTL

\* Once its addresses resolve Ok, the actor's value and hooks are final.
THEOREM QuietOnceNotified == ActorSpec => QuietAfterNotify
  <1>1. ASSUME HookPairs, [ActorNext]_actorVars, running = "sent"
        PROVE  UNCHANGED <<done, state, hooks, exit>>
    <2>1. pc = "unwinding"
      BY <1>1 DEF HookPairs, Undecided
    <2>2. CASE LoopStep
      BY <2>1, <2>2
         DEF LoopStep, StartedOk, TakeTask, TakeStop, TakeRestart, RestartPanics, Next1,
             StreamOver,
             Finish, TimeOut, RefreshStopped, Stopped, DropMailbox, DropNotifier,
             SourceOver, FinishItem, Finished, loopVars
    <2>3. CASE ClientStep \/ UNCHANGED actorVars
      BY <2>3 DEF ClientStep, ClientIssue, HandlerIssue, SendReturns, CallReturns,
                  GiveUp, ReleaseHandle, actorVars, loopVars
    <2>4. CASE StartedErr \/ Crash \/ StreamStep
      BY <2>1, <2>4 DEF StartedErr, Crash, StreamStep, TakeItem, SourceEnds, loopVars
    <2> QED
      BY <1>1, <2>2, <2>3, <2>4 DEF ActorNext
  <1> QED
    BY <1>1, HookPairsInvariant, PTL DEF ActorSpec, QuietAfterNotify

-----------------------------------------------------------------------------
(* One life *)

\* Only an actor that restarts is ever started twice.
LivesOnce ==
    config.strategy = "NonRestartable" \/ config.onStream =>
        hooks.started <= 1 /\ hooks.stopped <= 1 /\ hooks.finished <= 1

RestartsOnlyIfAllowed ==
    /\ pc \in {"refreshing", "restarting"} =>
           config.strategy # "NonRestartable" /\ ~ config.onStream
    /\ pc = "starting" => hooks.started = 0
    /\ LivesOnce

LEMMA OneLifeStep ==
    ASSUME HookPairs, RestartsOnlyIfAllowed, [ActorNext]_actorVars
    PROVE  RestartsOnlyIfAllowed'
  <1> USE DEF HookPairs, RestartsOnlyIfAllowed, LivesOnce
  <1>0. /\ hooks.started \in Nat /\ hooks.stopped \in Nat /\ hooks.finished \in Nat
        /\ hooks \in HookCounts
    BY DEF ActorTypeOK, HookCounts
  <1>1. CASE StartedOk
    <2>1. hooks' = [hooks EXCEPT !.started = @ + 1]
      BY <1>1 DEF StartedOk
    <2>2. /\ hooks'.started = hooks.started + 1 /\ hooks'.stopped = hooks.stopped
          /\ hooks'.finished = hooks.finished
      BY <1>0, <2>1 DEF HookCounts
    <2> QED
      BY <1>0, <1>1, <2>2 DEF StartedOk
  <1>2. CASE RefreshStopped
    BY <1>2 DEF RefreshStopped
  <1>3. CASE Stopped
    <2>1. /\ hooks'.stopped = hooks.stopped + 1 /\ hooks'.started = hooks.started
          /\ hooks'.finished = hooks.finished
      BY <1>0, <1>3 DEF Stopped, HookCounts
    <2>2. hooks.started = hooks.stopped + 1
      BY <1>3 DEF Stopped, HooksPaired
    <2> QED
      BY <1>0, <1>3, <2>1, <2>2 DEF Stopped, Leave
  <1>4. CASE Finished
    <2>1. /\ hooks'.finished = hooks.finished + 1 /\ hooks'.started = hooks.started
          /\ hooks'.stopped = hooks.stopped
      BY <1>0, <1>4 DEF Finished, HookCounts
    <2>2. hooks.finished = 0
      BY <1>4 DEF Finished, HooksPaired
    <2> QED
      BY <1>0, <1>4, <2>1, <2>2 DEF Finished
  <1>5. CASE FinishItem
    <2>1. /\ hooks'.started = hooks.started /\ hooks'.stopped = hooks.stopped
          /\ hooks'.finished = hooks.finished
      BY <1>0, <1>5 DEF FinishItem, HookCounts
    <2> QED
      BY <1>0, <1>5, <2>1 DEF FinishItem
  <1>6. CASE StartedErr \/ Crash \/ TimeOut \/ StreamOver \/ SourceOver \/ Finish
             \/ DropMailbox \/ DropNotifier \/ StreamStep
    BY <1>6 DEF StartedErr, Crash, TimeOut, StreamOver, SourceOver, Finish, DropMailbox,
                DropNotifier, StreamStep, TakeItem, SourceEnds, Leave, LeaveLoop, loopVars
  <1>7. ASSUME NEW r \in Messages,
               TakeTask(r) \/ TakeStop(r) \/ TakeRestart(r) \/ RestartPanics(r)
        PROVE  RestartsOnlyIfAllowed'
    BY <1>7 DEF TakeTask, TakeStop, TakeRestart, RestartPanics, Leave, LeaveLoop, Next1
  <1>8. CASE ClientStep \/ UNCHANGED actorVars
    <2>1. UNCHANGED <<config, pc, hooks>>
      BY <1>8 DEF ClientStep, ClientIssue, HandlerIssue, SendReturns, CallReturns,
                  GiveUp, ReleaseHandle, actorVars, loopVars
    <2> QED
      BY <2>1
  <1> QED
    BY <1>1, <1>2, <1>3, <1>4, <1>5, <1>6, <1>7, <1>8 DEF ActorNext, LoopStep

\* An actor that is not restartable, and every actor on a stream, is started,
\* finished and stopped at most once, whatever restarts are asked of it
\* (environment.rs:106-108, 158-160, restart_strategy.rs:11-17).
THEOREM LivesOnlyOnce == ActorSpec => []LivesOnce
  <1>1. ActorInit => RestartsOnlyIfAllowed
    BY DEF ActorInit, RestartsOnlyIfAllowed, LivesOnce
  <1>2. HookPairs /\ RestartsOnlyIfAllowed /\ [ActorNext]_actorVars => RestartsOnlyIfAllowed'
    BY OneLifeStep
  <1>3. RestartsOnlyIfAllowed => LivesOnce
    BY DEF RestartsOnlyIfAllowed
  <1> QED
    BY <1>1, <1>2, <1>3, HookPairsInvariant, PTL DEF ActorSpec

-----------------------------------------------------------------------------
(* Handlers that await their own actor *)

\* What a handler awaits is still in the mailbox of the actor that runs it,
\* and nothing has become of it.
SelfWait ==
    /\ blockedOn # NoRequest => pc \in {"handling", "streaming"}
    /\ blockedOn \in Messages =>
         /\ In(blockedOn, queue)
         /\ op[blockedOn] \in Awaited
         /\ op[blockedOn] \in CallOps => call[blockedOn] = "waiting"
         /\ op[blockedOn] = "send" => fut[blockedOn] = "flushing"
         /\ op[blockedOn] = "call" => fut[blockedOn] = "forced"

\* The handler awaits a response, or room, that only its own loop can give.
StuckOnItself ==
    /\ blockedOn \in Messages
    /\ op[blockedOn] \in CallOps \/ In(blockedOn, parked)

\* Nothing that a stuck handler does, or that is done to its actor, frees it:
\* it is dropped by a timeout or by a panic, without having completed.
SelfCallsHang ==
    [][StuckOnItself =>
         \/ /\ StuckOnItself'
            /\ UNCHANGED <<pc, cur, blockedOn, done, state, hooks, taken>>
         \/ (TimeOut \/ Crash) /\ UNCHANGED <<done, taken>>]_actorVars

SelfWaitInv == ReplyInv /\ SelfWait

LEMMA ConfigStays == [ActorNext]_actorVars => config' = config
  BY DEF ActorNext, LoopStep, StartedOk, StartedErr, TakeTask, TakeStop, TakeRestart,
         RestartPanics, StreamOver, SourceOver, Finish, FinishItem, Finished, TimeOut,
         RefreshStopped, Stopped, DropMailbox, DropNotifier, Crash, StreamStep, TakeItem,
         SourceEnds, ClientStep, ClientIssue, HandlerIssue, SendReturns, CallReturns, GiveUp,
         ReleaseHandle, actorVars

\* The loop does nothing while a handler waits, except to drop it.
LEMMA LoopLetsGo ==
    ASSUME SelfWaitInv, LoopStep \/ StartedErr \/ Crash \/ StreamStep
    PROVE  /\ SelfWait'
           /\ blockedOn \in Messages =>
                \/ UNCHANGED <<chanVars, config, op, call, loopVars>>
                \/ TimeOut
                \/ Crash
  <1> USE NoRequestAssumption DEF SelfWaitInv
  <1>1. CASE TimeOut \/ Crash
    <2>1. blockedOn' = NoRequest
      BY <1>1 DEF TimeOut, Crash, Leave
    <2> QED
      BY <1>1, <2>1 DEF SelfWait
  <1>2. CASE SourceEnds
    <2>1. UNCHANGED <<chanVars, config, op, call, loopVars>>
      BY <1>2 DEF SourceEnds
    <2> QED
      BY <2>1 DEF SelfWait, In, chanVars, loopVars
  <1>3. CASE /\ LoopStep \/ StartedErr \/ TakeItem
             /\ ~ TimeOut
    <2>1. blockedOn \notin Messages /\ blockedOn = NoRequest
      BY <1>3
         DEF SelfWait, ReplyInv, ActorTypeOK, LoopStep, StartedOk, StartedErr, TakeTask,
             TakeStop, TakeRestart, RestartPanics, Next1, StreamOver, SourceOver, Finish,
             FinishItem, Finished, RefreshStopped, Stopped, DropMailbox, DropNotifier, TakeItem
    <2>2. blockedOn' = NoRequest
      BY <1>3, <2>1
         DEF LoopStep, StartedOk, StartedErr, TakeTask, TakeStop, TakeRestart,
             RestartPanics, Leave, StreamOver, SourceOver, Finish, FinishItem, Finished,
             RefreshStopped, Stopped, DropMailbox, DropNotifier, TakeItem, loopVars
    <2> QED
      BY <2>1, <2>2 DEF SelfWait
  <1> QED
    BY <1>1, <1>2, <1>3 DEF LoopStep, StreamStep

LEMMA AppendedKeeps ==
    ASSUME NEW S, NEW s \in Seq(S), NEW m \in S
    PROVE  \A x : In(x, s) => In(x, Append(s, m))
  <1>1. /\ Len(s) \in Nat /\ Len(Append(s, m)) = Len(s) + 1
        /\ \A i \in 1 .. Len(s) : Append(s, m)[i] = s[i]
    BY AppendElements, LenProperties
  <1> QED
    BY <1>1 DEF In

LEMMA IssueKeeps ==
    ASSUME ReplyInv, NEW r \in Messages, NEW k \in Ops, Issue(r, k)
    PROVE  /\ \A x : In(x, queue) => In(x, queue')
           /\ \A x : In(x, parked) => In(x, parked')
           /\ \A x \in Messages \ {r} : fut'[x] = fut[x] /\ op'[x] = op[x] /\ call'[x] = call[x]
           /\ op[r] = "none" /\ op'[r] = k
           /\ taken' = taken
           /\ Pushed(r) => /\ In(r, queue')
                           /\ k \in CallOps => call'[r] = "waiting"
                           /\ k = "send" => fut'[r] = "flushing"
                           /\ k = "call" => fut'[r] = "forced"
  <1> USE DEF ReplyInv, ActorTypeOK, ChannelTypeOK
  <1>1. /\ op[r] = "none" /\ op'[r] = k /\ call[r] = "none"
        /\ \A x \in Messages \ {r} : op'[x] = op[x] /\ call'[x] = call[x]
        /\ Pushed(r) /\ k \in CallOps => call'[r] = "waiting"
    BY DEF Issue, Fresh
  <1> DEFINE Kept(s) ==
        /\ \A x : In(x, queue) => In(x, queue')
        /\ \A x : In(x, parked) => In(x, parked')
        /\ \A x \in Messages \ {r} : fut'[x] = fut[x]
        /\ taken' = taken
        /\ Pushed(r) => In(r, queue') /\ fut'[r] = s
  <1>2. ASSUME NEW s \in {"flushing", "forced"}, PushOrFail(r, s), taken' = taken
        PROVE  Kept(s)
    <2>1. CASE Push(r) /\ SetFut(r, s)
      <3>1. \A x : In(x, queue') <=> In(x, queue) \/ x = r
        BY <2>1, PushedIsQueued
      <3>2. \A x : In(x, parked) => In(x, parked')
        BY <2>1, AppendedKeeps DEF Push
      <3>3. fut' = [fut EXCEPT ![r] = s]
        BY <2>1 DEF SetFut
      <3> QED
        BY <1>2, <3>1, <3>2, <3>3
    <2>2. CASE SetFut(r, "failed") /\ UNCHANGED <<queue, parked>>
      BY <1>2, <2>2 DEF SetFut, Pushed, In
    <2> QED
      BY <1>2, <2>1, <2>2 DEF PushOrFail
  <1>3. CASE Refuse(r)
    BY <1>1, <1>3 DEF Refuse, SetFut, Pushed, In
  <1>4. CASE k \in {"send", "ccall"} /\ Send(r)
    <2>1. PushOrFail(r, "flushing") /\ taken' = taken
      BY <1>4 DEF Send
    <2>2. Kept("flushing")
      BY <1>2, <2>1
    <2> QED
      BY <1>1, <1>4, <2>2
  <1>5. CASE k \notin {"send", "ccall"} /\ ForceSend(r)
    <2>1. PushOrFail(r, "forced") /\ taken' = taken
      BY <1>5 DEF ForceSend
    <2>2. Kept("forced")
      BY <1>2, <2>1
    <2> QED
      BY <1>1, <1>5, <2>2
  <1> QED
    BY <1>3, <1>4, <1>5 DEF Issue, Enqueue

\* No step of a client frees a stuck handler.
LEMMA ClientsDoNotHelp ==
    ASSUME SelfWaitInv, ClientStep
    PROVE  /\ SelfWait'
           /\ StuckOnItself =>
                /\ StuckOnItself'
                /\ UNCHANGED <<pc, cur, blockedOn, done, state, hooks, taken>>
  <1> USE NoRequestAssumption DEF SelfWaitInv
  <1> DEFINE Helpless ==
        /\ SelfWait'
        /\ StuckOnItself =>
             /\ StuckOnItself'
             /\ UNCHANGED <<pc, cur, blockedOn, done, state, hooks, taken>>
  <1>1. UNCHANGED <<pc, cur, done, state, hooks>>
    BY DEF ClientStep, ClientIssue, HandlerIssue, SendReturns, CallReturns, GiveUp,
           ReleaseHandle, loopVars
  <1>2. blockedOn \in Messages => op[blockedOn] # "none"
    BY DEF SelfWait, Awaited, CallOps
  <1>3. ASSUME NEW r \in Messages, NEW k \in Ops, ClientIssue(r, k)
        PROVE  Helpless
    <2>1. Issue(r, k) /\ blockedOn' = blockedOn
      BY <1>3 DEF ClientIssue, loopVars
    <2> QED
      BY <1>1, <1>2, <2>1, IssueKeeps DEF SelfWait, StuckOnItself
  <1>4. ASSUME NEW r \in Messages, NEW k \in Ops \cap Awaited, HandlerIssue(r, k)
        PROVE  Helpless
    <2>1. /\ Issue(r, k) /\ Pushed(r) /\ blockedOn' = r
          /\ pc \in {"handling", "streaming"} /\ blockedOn = NoRequest
      BY <1>4 DEF HandlerIssue
    <2> QED
      BY <1>1, <2>1, IssueKeeps DEF SelfWait, StuckOnItself
  <1>5. ASSUME NEW r \in Messages, SendReturns(r)
        PROVE  Helpless
    <2>1. /\ fut[r] = "flushing" /\ ~ In(r, parked)
          /\ UNCHANGED <<queue, parked, taken, op, call>>
          /\ \A x \in Messages \ {r} : fut'[x] = fut[x]
      BY <1>5 DEF SendReturns, FlushDone, SetFut, ReplyInv, ActorTypeOK, ChannelTypeOK
    <2>2. CASE blockedOn = r /\ op[r] # "ccall"
      <3>1. blockedOn' = NoRequest
        BY <1>5, <2>2 DEF SendReturns, Unblock
      <3>2. ~ StuckOnItself
        BY <2>1, <2>2 DEF StuckOnItself, SelfWait, CallOps
      <3> QED
        BY <3>1, <3>2 DEF SelfWait
    <2>3. CASE blockedOn # r \/ op[r] = "ccall"
      <3>1. blockedOn' = blockedOn
        BY <1>5, <2>3 DEF SendReturns, Unblock
      <3> QED
        BY <1>1, <2>1, <2>3, <3>1 DEF SelfWait, StuckOnItself, In
    <2> QED
      BY <2>2, <2>3
  <1>6. ASSUME NEW r \in Messages, CallReturns(r)
        PROVE  Helpless
    <2>1. /\ fut[r] # "flushing" /\ call[r] # "waiting"
          /\ UNCHANGED <<queue, parked, taken, op, fut>>
          /\ \A x \in Messages \ {r} : call'[x] = call[x]
      BY <1>6 DEF CallReturns, chanVars, ReplyInv, ActorTypeOK
    <2>2. blockedOn # r
      BY <2>1 DEF SelfWait, Awaited
    <2>3. blockedOn' = blockedOn
      BY <1>6, <2>2 DEF CallReturns, Unblock
    <2> QED
      BY <1>1, <2>1, <2>2, <2>3 DEF SelfWait, StuckOnItself, In
  <1>7. ASSUME NEW r \in Messages, GiveUp(r)
        PROVE  Helpless
    <2>1. /\ r # blockedOn /\ blockedOn' = blockedOn
          /\ UNCHANGED <<queue, parked, taken, op>>
          /\ \A x \in Messages \ {r} : call'[x] = call[x] /\ fut'[x] = fut[x]
      BY <1>7 DEF GiveUp, Abandon, SetFut, chanVars, loopVars, ReplyInv, ActorTypeOK,
                  ChannelTypeOK
    <2> QED
      BY <1>1, <2>1 DEF SelfWait, StuckOnItself, In
  <1>8. ASSUME NEW h \in Handles, ReleaseHandle(h)
        PROVE  Helpless
    <2>1. UNCHANGED <<queue, parked, taken, op, fut, call, blockedOn>>
      BY <1>8 DEF ReleaseHandle, DropHandle, loopVars
    <2> QED
      BY <1>1, <2>1 DEF SelfWait, StuckOnItself, In
  <1>9. Operations \subseteq Ops /\ Operations \cap Awaited \subseteq Ops \cap Awaited
    BY OperationsAssumption
  <1> QED
    BY <1>3, <1>4, <1>5, <1>6, <1>7, <1>8, <1>9 DEF ClientStep

LEMMA SelfWaitStep ==
    ASSUME SelfWaitInv, [ActorNext]_actorVars
    PROVE  /\ SelfWait'
           /\ StuckOnItself =>
                \/ /\ StuckOnItself'
                   /\ UNCHANGED <<pc, cur, blockedOn, done, state, hooks, taken>>
                \/ (TimeOut \/ Crash) /\ UNCHANGED <<done, taken>>
  <1>1. CASE LoopStep \/ StartedErr \/ Crash \/ StreamStep
    <2>1. TimeOut => UNCHANGED <<done, taken>>
      BY DEF TimeOut, DropHandler, AbandonBlocked, Abandon, chanVars
    <2>2. Crash => UNCHANGED <<done, taken>>
      BY DEF Crash, Leave, DropHandler, AbandonBlocked, Abandon, chanVars
    <2>3. UNCHANGED <<chanVars, config, op, call, loopVars>> =>
            /\ UNCHANGED <<pc, cur, blockedOn, done, state, hooks, taken>>
            /\ StuckOnItself => StuckOnItself'
      BY DEF chanVars, loopVars, StuckOnItself, In
    <2>4. StuckOnItself => blockedOn \in Messages
      BY DEF StuckOnItself
    <2> QED
      BY <1>1, <2>1, <2>2, <2>3, <2>4, LoopLetsGo
  <1>2. CASE ClientStep
    BY <1>2, ClientsDoNotHelp
  <1>3. CASE UNCHANGED actorVars
    BY <1>3 DEF actorVars, chanVars, loopVars, SelfWaitInv, SelfWait, StuckOnItself, In
  <1> QED
    BY <1>1, <1>2, <1>3 DEF ActorNext

LEMMA SelfWaitInvariant == ActorSpec => []SelfWaitInv
  <1>1. ActorInit => SelfWait
    BY NoRequestAssumption DEF ActorInit, SelfWait
  <1>2. SelfWaitInv /\ [ActorNext]_actorVars => SelfWait'
    BY SelfWaitStep
  <1>3. SelfWaitInv <=> ReplyInv /\ SelfWait
    BY DEF SelfWaitInv
  <1> QED
    BY <1>1, <1>2, <1>3, ReplyInvariant, PTL DEF ActorSpec

\* A handler that calls its own actor, or sends to it when its mailbox is
\* full, is never answered: the loop that would answer runs the handler.  A
\* timeout is the only thing but a panic that ends the wait, and it drops the
\* handler (environment.rs:78-93, 104-129; addr.rs:105-119).
THEOREM SelfCallsNeverReturn == ActorSpec => SelfCallsHang
  <1>1. ASSUME SelfWaitInv, [ActorNext]_actorVars, StuckOnItself
        PROVE  \/ /\ StuckOnItself'
                  /\ UNCHANGED <<pc, cur, blockedOn, done, state, hooks, taken>>
               \/ (TimeOut \/ Crash) /\ UNCHANGED <<done, taken>>
    BY <1>1, SelfWaitStep
  <1> QED
    BY <1>1, SelfWaitInvariant, PTL DEF ActorSpec, SelfCallsHang

\* The handler is stuck and its loop has no timeout to look at.
Deadlocked == StuckOnItself /\ ~ (pc = "handling" /\ TimesOut(config))

\* Without a timeout that is for ever: the actor takes nothing more, not even
\* a stop, and never ends.
THEOREM SelfCallsDeadlock ==
    ASSUME ~ MayCrash
    PROVE  ActorSpec => [](Deadlocked => []Deadlocked /\ ~ Ended)
  <1>1. SelfWaitInv /\ Deadlocked /\ [ActorNext]_actorVars => Deadlocked'
    BY SelfWaitStep, ConfigStays DEF Deadlocked, TimeOut, Crash
  <1>2. SelfWaitInv /\ Deadlocked => ~ Ended
    BY NoRequestAssumption DEF SelfWaitInv, SelfWait, Deadlocked, StuckOnItself, Ended
  <1> QED
    BY <1>1, <1>2, SelfWaitInvariant, PTL DEF ActorSpec

-----------------------------------------------------------------------------
(* The end *)

\* Every operation on an actor that has ended can return.
NobodyWaitsForTheDead ==
    Ended => \A r \in Messages : call[r] # "waiting" /\ ~ In(r, parked)

\* An actor that has ended accepts nothing and does nothing any more.
EndIsFinal ==
    [][Ended => Ended' /\ UNCHANGED <<accepted, taken, done, state, hooks, exit, running>>]_actorVars

LEMMA DeadStayDead ==
    ASSUME ReplyInv, Ended, [ActorNext]_actorVars
    PROVE  Ended' /\ UNCHANGED <<accepted, taken, done, state, hooks, exit, running>>
  <1> USE DEF Ended
  <1>1. CASE LoopStep \/ StartedErr \/ Crash \/ StreamStep
    <2>1. CASE DropMailbox
      BY <2>1 DEF DropMailbox, DropReceiver, DropRx
    <2>2. CASE SourceEnds
      BY <2>2 DEF SourceEnds, chanVars, loopVars
    <2>3. CASE ~ DropMailbox /\ ~ SourceEnds
      BY <1>1, <2>3
         DEF LoopStep, StartedOk, StartedErr, TakeTask, TakeStop, TakeRestart,
             RestartPanics, Next1, StreamOver, SourceOver, Finish, FinishItem, Finished,
             TimeOut, RefreshStopped, Stopped, DropNotifier, Crash, StreamStep, TakeItem
    <2> QED
      BY <2>1, <2>2, <2>3
  <1>2. CASE ClientStep
    <2>1. UNCHANGED <<pc, done, state, hooks, exit, running>>
      BY <1>2 DEF ClientStep, ClientIssue, HandlerIssue, SendReturns, CallReturns, GiveUp,
                  ReleaseHandle, loopVars
    <2>2. UNCHANGED <<rx, accepted, taken>>
      <3>1. ASSUME NEW r \in Messages, NEW k, Issue(r, k)
            PROVE  UNCHANGED <<rx, accepted, taken>>
        BY <3>1 DEF Issue, Enqueue, Send, ForceSend, Refuse, PushOrFail, Push
      <3> QED
        BY <1>2, <3>1
           DEF ClientStep, ClientIssue, HandlerIssue, SendReturns, CallReturns, GiveUp,
               ReleaseHandle, FlushDone, Abandon, DropHandle, chanVars
    <2> QED
      BY <2>1, <2>2
  <1>3. CASE UNCHANGED actorVars
    BY <1>3 DEF actorVars, chanVars, loopVars
  <1> QED
    BY <1>1, <1>2, <1>3 DEF ActorNext

\* Once the loop's future is dropped nobody waits for the actor who could not
\* go on, and nothing is left that could bring it back
\* (environment.rs:131-136, addr.rs:93-132).
THEOREM DeathIsFinal == ActorSpec => []NobodyWaitsForTheDead /\ EndIsFinal
  <1>1. ReplyInv => NobodyWaitsForTheDead
    <2> SUFFICES ASSUME ReplyInv, Ended
                 PROVE  \A r \in Messages : call[r] # "waiting" /\ ~ In(r, parked)
      BY DEF NobodyWaitsForTheDead
    <2>1. queue = <<>> /\ parked = <<>>
      BY DEF ReplyInv, ChannelInv, ClosedIsEmpty, Ended
    <2>2. ~ \E x : In(x, queue) \/ In(x, parked)
      BY <2>1 DEF In
    <2> QED
      BY <2>2 DEF ReplyInv, NoOrphanedCall, Ended
  <1>2. ReplyInv /\ [ActorNext]_actorVars
        => [Ended => Ended' /\ UNCHANGED <<accepted, taken, done, state, hooks, exit, running>>]_actorVars
    BY DeadStayDead
  <1> QED
    BY <1>1, <1>2, ReplyInvariant, PTL DEF ActorSpec, EndIsFinal

=============================================================================
