----------------------------- MODULE ServerProofs -----------------------------
(***************************************************************************)
(* The actor implements Server: every step of the event loop and of the    *)
(* references is a step of the abstract server or none at all.  What has   *)
(* to be known besides ReplyInv is that the request being handled is the   *)
(* one taken last, and that only accepted requests have callers.           *)
(***************************************************************************)
EXTENDS ActorProofs

CurIsLast ==
    pc = "handling" =>
        /\ 0 < taken /\ taken <= Len(accepted)
        /\ accepted[taken] = cur

CallsAccepted == \A r \in Messages : call[r] # "none" => In(r, accepted)

ServerInv == ReplyInv /\ CurIsLast /\ CallsAccepted

\* Operations on the mailbox other than taking a request only add to accepted.
LEMMA AcceptedGrows ==
    ASSUME ChannelInv, [ChannelNext]_chanVars
    PROVE  /\ Len(accepted) \in Nat /\ Len(accepted') \in Nat
           /\ Len(accepted) <= Len(accepted')
           /\ \A i \in 1 .. Len(accepted) : accepted'[i] = accepted[i]
           /\ \A r : In(r, accepted) => In(r, accepted')
  <1>1. \/ accepted' = accepted
        \/ \E m \in Messages : accepted' = Append(accepted, m)
    BY DEF ChannelNext, chanVars, Receive, EndOfStream, DropReceiver, DropHandle, Send,
           ForceSend, PushOrFail, Refuse, FlushDone, Abandon
  <1>2. accepted \in Seq(Messages) /\ Len(accepted) \in Nat
    BY LenProperties DEF ChannelInv, ChannelTypeOK
  <1>3. CASE accepted' = accepted
    BY <1>2, <1>3 DEF In
  <1>4. ASSUME NEW m \in Messages, accepted' = Append(accepted, m)
        PROVE  /\ Len(accepted') = Len(accepted) + 1
               /\ \A i \in 1 .. Len(accepted) : accepted'[i] = accepted[i]
    BY <1>2, <1>4, AppendElements
  <1>5. CASE \E m \in Messages : accepted' = Append(accepted, m)
    BY <1>2, <1>4, <1>5 DEF In
  <1> QED
    BY <1>1, <1>3, <1>5

LEMMA ServerInvInit == ActorInit => ServerInv
  BY ReplyInit DEF ServerInv, ActorInit, ChannelInit, CurIsLast, CallsAccepted

\* Taking the oldest request, in terms of everything accepted.
LEMMA TakenIsNext ==
    ASSUME ChannelInv, Receive
    PROVE  /\ taken \in Nat /\ taken' = taken + 1 /\ taken < Len(accepted)
           /\ accepted' = accepted /\ accepted[taken + 1] = queue[1]
  <1>1. Len(queue) \in Nat \ {0}
    BY TailElements DEF Receive, Pop, ChannelInv, ChannelTypeOK
  <1>2. Len(accepted) = taken + Len(queue) /\ queue[1] = accepted[taken + 1]
    BY <1>1 DEF Receive, Pop, ChannelInv, NothingLost
  <1> QED
    BY <1>1, <1>2 DEF Receive, ChannelInv, ChannelTypeOK

LEMMA ServerInvStep == ServerInv /\ [ActorNext]_actorVars => ServerInv'
  <1> SUFFICES ASSUME ServerInv, [ActorNext]_actorVars PROVE ServerInv'
    OBVIOUS
  <1> USE DEF ServerInv
  <1>1. ReplyInv' /\ [ChannelNext]_chanVars /\ ChannelInv
    BY ReplyStep, ActorStepIsChannelStep DEF ReplyInv
  <1> SUFFICES CurIsLast' /\ CallsAccepted'
    BY <1>1
  <1>2. ASSUME NEW r \in Messages,
               TakeTask(r) \/ TakeStop(r) \/ TakeRestart(r) \/ RestartPanics(r)
        PROVE  CurIsLast' /\ CallsAccepted'
    <2>1. /\ Receive /\ r = queue[1] /\ call' = call
          /\ pc' = "handling" => cur' = r
      BY <1>2 DEF TakeTask, TakeStop, TakeRestart, RestartPanics, Leave, LeaveLoop, Next1
    <2> QED
      BY <1>1, <2>1, TakenIsNext, LenProperties, AcceptedGrows
         DEF CurIsLast, CallsAccepted, In
  <1>3. ASSUME NEW r \in Messages, NEW k, Issue(r, k), UNCHANGED <<pc, cur>>
        PROVE  CurIsLast' /\ CallsAccepted'
    <2>1. taken' = taken
      BY <1>3 DEF Issue, Enqueue, Send, ForceSend, Refuse
    <2>2. CurIsLast'
      BY <1>1, <1>3, <2>1, AcceptedGrows DEF CurIsLast, ReplyInv, ChannelInv, ChannelTypeOK
    <2>3. Pushed(r) => In(r, accepted')
      BY <1>1, ReplyStep DEF Pushed, ReplyInv, ChannelInv, AcceptedOnce
    <2>4. ASSUME NEW x \in Messages, call'[x] # "none"
          PROVE  In(x, accepted')
      BY <1>1, <1>3, <2>3, <2>4, AcceptedGrows
         DEF Issue, CallsAccepted, ReplyInv, ActorTypeOK, Fresh
    <2> QED
      BY <2>2, <2>4 DEF CallsAccepted
  <1>4. ASSUME UNCHANGED taken,
               pc' = "handling" => pc = "handling" /\ cur' = cur,
               \A r \in Messages : call'[r] # "none" => call[r] # "none"
        PROVE  CurIsLast' /\ CallsAccepted'
    BY <1>1, <1>4, AcceptedGrows
       DEF CurIsLast, CallsAccepted, ReplyInv, ChannelInv, ChannelTypeOK
  <1>5. CASE StartedOk \/ StartedErr \/ StreamOver \/ RefreshStopped \/ Stopped
               \/ DropNotifier
    BY <1>4, <1>5 DEF StartedOk, StartedErr, StreamOver, EndOfStream, RefreshStopped,
                      Stopped, DropNotifier, Leave, LeaveLoop, chanVars
  <1>13. CASE SourceOver \/ FinishItem \/ Finished \/ StreamStep
    BY <1>4, <1>13 DEF SourceOver, FinishItem, Finished, StreamStep, TakeItem, SourceEnds,
                       LeaveLoop, chanVars, loopVars
  <1>6. CASE Finish
    BY <1>4, <1>6 DEF Finish, chanVars, ReplyInv, ActorTypeOK
  <1>7. CASE TimeOut \/ Crash
    <2>1. taken' = taken /\ pc' # "handling"
      BY <1>7 DEF TimeOut, Crash, Leave, DropHandler, AbandonBlocked, Abandon, chanVars
    <2>2. \A r \in Messages : call'[r] # "none" => call[r] # "none"
      BY <1>7 DEF TimeOut, Crash, DropHandler, Dropped, Forgotten, Unresolved
    <2> QED
      BY <1>4, <2>1, <2>2
  <1>8. CASE DropMailbox
    BY <1>4, <1>8 DEF DropMailbox, DropReceiver, Dropped, loopVars
  <1>9. ASSUME NEW r \in Messages, SendReturns(r) \/ CallReturns(r) \/ GiveUp(r)
        PROVE  CurIsLast' /\ CallsAccepted'
    <2>1. UNCHANGED <<taken, pc, cur>>
      BY <1>9 DEF SendReturns, FlushDone, CallReturns, GiveUp, Abandon, chanVars, loopVars
    <2>2. \A x \in Messages : call'[x] # "none" => call[x] # "none"
      BY <1>9 DEF SendReturns, CallReturns, GiveUp, Forgotten, Unresolved, ReplyInv,
                  ActorTypeOK
    <2> QED
      BY <1>4, <2>1, <2>2
  <1>10. ASSUME NEW h \in Handles, ReleaseHandle(h)
         PROVE  CurIsLast' /\ CallsAccepted'
    BY <1>4, <1>10 DEF ReleaseHandle, DropHandle, loopVars
  <1>11. CASE ClientStep
    <2>1. ASSUME NEW r \in Messages, NEW k, ClientIssue(r, k) \/ HandlerIssue(r, k)
          PROVE  CurIsLast' /\ CallsAccepted'
      BY <1>3, <2>1 DEF ClientIssue, HandlerIssue, loopVars
    <2> QED
      BY <1>11, <1>9, <1>10, <2>1 DEF ClientStep
  <1>12. CASE UNCHANGED actorVars
    BY <1>4, <1>12 DEF actorVars, chanVars, loopVars
  <1> QED
    BY <1>1, <1>2, <1>5, <1>6, <1>7, <1>8, <1>11, <1>12, <1>13
       DEF ActorNext, LoopStep

LEMMA ServerInvariant == ActorSpec => []ServerInv
  BY ServerInvInit, ServerInvStep, PTL DEF ActorSpec

-----------------------------------------------------------------------------
(* The refinement *)

\* Nothing that Server sees changes unless the loop takes, finishes or gives
\* up a request, a request is accepted, or a caller is told something.
LEMMA UnseenSteps ==
    ASSUME UNCHANGED <<accepted, taken, rx, done>>,
           pc = "handling" <=> pc' = "handling",
           pc \in Leaving <=> pc' \in Leaving,
           \A r \in Messages : /\ call'[r] = "ok" <=> call[r] = "ok"
                               /\ call'[r] = "canceled" <=> call[r] = "canceled"
    PROVE  UNCHANGED Service!serverVars
  BY DEF Service!serverVars

\* The actor, with its mailbox, hooks, timeouts, restarts and panics, is a
\* server: one request at a time, in order, at most once, truthful replies.
THEOREM ActorImplementsServer == ActorSpec => ImplementsServer
  <1>1. ActorInit => Service!ServerInit
    BY DEF ActorInit, ChannelInit, MpscInit, Leaving, Service!ServerInit
  <1>2. ASSUME ServerInv, [ActorNext]_actorVars
        PROVE  [Service!ServerNext]_(Service!serverVars)
    <2> USE <1>2 DEF ServerInv
    <2>0. ChannelInv /\ ActorTypeOK
      BY DEF ReplyInv
    <2>1. ASSUME NEW r \in Messages, TakeTask(r)
          PROVE  UNCHANGED Service!serverVars
      <3>1. Receive /\ UNCHANGED <<done, call, rx, accepted>> /\ pc = "idle" /\ pc' = "handling"
        BY <2>1 DEF TakeTask, Next1, Receive, Pop
      <3>2. taken' - 1 = taken
        BY <3>1, <2>0, TakenIsNext
      <3> QED
        BY <3>1, <3>2 DEF Service!serverVars, Leaving
    <2>2. ASSUME NEW r \in Messages, TakeStop(r) \/ TakeRestart(r) \/ RestartPanics(r)
          PROVE  Service!Serve
      <3>1. /\ Receive /\ UNCHANGED <<done, call, rx, accepted>>
            /\ pc = "idle" /\ pc' \in {"idle", "refreshing"} \cup Leaving
        BY <2>2 DEF TakeStop, TakeRestart, RestartPanics, Leave, LeaveLoop, Leaving, Next1,
                    Receive, Pop
      <3>2. taken \in Nat /\ taken' = taken + 1 /\ taken < Len(accepted)
        BY <3>1, <2>0, TakenIsNext
      <3> QED
        BY <3>1, <3>2 DEF Service!Serve, Service!Process, Leaving
    <2>3. CASE Finish
      <3>1. /\ pc = "handling" /\ pc' = "idle" /\ done' = done \cup {cur}
            /\ UNCHANGED <<taken, accepted, rx>>
            /\ \A r \in Messages : /\ call'[r] = "ok" <=> call[r] = "ok"
                                   /\ call'[r] = "canceled" <=> call[r] = "canceled"
        BY <2>3, <2>0 DEF Finish, chanVars, ActorTypeOK
      <3>2. /\ taken \in Nat /\ taken - 1 < Len(accepted) /\ (taken - 1) + 1 = taken
            /\ accepted[taken] = cur
        BY <3>1, <2>0, LenProperties DEF CurIsLast, ChannelInv, ChannelTypeOK
      <3> QED
        BY <3>1, <3>2 DEF Service!Serve, Service!Process, Service!ServerNext, Leaving
    <2>4. CASE TimeOut \/ Crash
      <3>1. /\ UNCHANGED <<taken, accepted, rx, done>>
            /\ \A r \in Messages : /\ call'[r] = "ok" <=> call[r] = "ok"
                                   /\ call'[r] = "canceled" <=> call[r] = "canceled"
        BY <2>4 DEF TimeOut, Crash, DropHandler, Dropped, Forgotten, Unresolved,
                    AbandonBlocked, Abandon, chanVars
      <3>2. pc' \in {"idle", "unwinding"} /\ pc \notin {"idle", "unwinding"}
        BY <2>4 DEF TimeOut, Crash, Leave
      <3>3. CASE pc = "handling"
        <4>1. taken \in Nat /\ taken - 1 < Len(accepted) /\ (taken - 1) + 1 = taken
          BY <3>3, <2>0, LenProperties DEF CurIsLast, ChannelInv, ChannelTypeOK
        <4> QED
          BY <3>1, <3>2, <3>3, <4>1
             DEF Service!Serve, Service!Process, Service!ServerNext, Leaving
      <3>4. CASE pc \in {"finishing", "stopping"}
        <4>1. pc' = "unwinding"
          BY <3>4, <2>4 DEF TimeOut, Crash, Leave
        <4> QED
          BY <3>1, <3>4, <4>1, UnseenSteps DEF Leaving
      <3>5. CASE pc \notin {"handling", "finishing", "stopping"}
        <4>1. pc' = "unwinding"
          BY <3>5, <2>4 DEF TimeOut, Crash, Leave
        <4> QED
          BY <3>1, <3>2, <3>5, <4>1 DEF Service!Retire, Service!ServerNext, Leaving
      <3> QED
        BY <3>3, <3>4, <3>5
    <2>5. CASE StartedErr \/ StreamOver \/ SourceOver
      <3>1. /\ UNCHANGED <<taken, accepted, done, call>>
            /\ (rx # "dropped") <=> (rx' # "dropped")
            /\ pc \in {"starting", "restarting", "idle"} /\ pc' \in Leaving
        BY <2>5 DEF StartedErr, StreamOver, SourceOver, EndOfStream, End, Leave, LeaveLoop,
                    Leaving, chanVars
      <3> QED
        BY <3>1 DEF Service!Retire, Service!ServerNext, Leaving
    <2>6. CASE StartedOk \/ RefreshStopped \/ Stopped \/ DropNotifier
      BY <2>6, UnseenSteps
         DEF StartedOk, RefreshStopped, Stopped, DropNotifier, Leave, Leaving, chanVars
    <2>15. CASE FinishItem \/ Finished \/ StreamStep
      BY <2>15, UnseenSteps
         DEF FinishItem, Finished, StreamStep, TakeItem, SourceEnds, Leaving, chanVars, loopVars
    <2>7. CASE DropMailbox
      <3>1. /\ UNCHANGED <<taken, accepted, done, pc>> /\ pc = "unwinding"
            /\ rx # "dropped" /\ rx' = "dropped"
            /\ \A r \in Messages : /\ call'[r] = "ok" <=> call[r] = "ok"
                                   /\ call'[r] = "canceled" <=> call[r] = "canceled"
        BY <2>7 DEF DropMailbox, DropReceiver, DropRx, Dropped, loopVars
      <3> QED
        BY <3>1 DEF Service!CloseDoors, Service!ServerNext, Leaving
    <2>8. ASSUME NEW r \in Messages, NEW k, ClientIssue(r, k) \/ HandlerIssue(r, k)
          PROVE  Service!Submit(r) \/ UNCHANGED Service!serverVars
      <3>1. /\ Issue(r, k) /\ UNCHANGED <<pc, done>>
        BY <2>8 DEF ClientIssue, HandlerIssue, loopVars
      <3>2. \A x \in Messages : /\ call'[x] = "ok" <=> call[x] = "ok"
                                /\ call'[x] = "canceled" <=> call[x] = "canceled"
        BY <3>1 DEF Issue, ReplyInv, Fresh, ActorTypeOK
      <3>3. CASE UNCHANGED <<accepted, taken, rx>>
        BY <3>1, <3>2, <3>3, UnseenSteps
      <3>4. CASE /\ accepted' = Append(accepted, r) /\ rx = "open" /\ UNCHANGED <<taken, rx>>
                 /\ fut[r] = "new"
        BY <3>1, <3>2, <3>4, <2>0 DEF Service!Submit, ChannelInv, AcceptedOnce, In
      <3> QED
        BY <3>1, <3>3, <3>4
           DEF Issue, Enqueue, Send, ForceSend, PushOrFail, Push, Refuse
    <2>9. ASSUME NEW r \in Messages, CallReturns(r)
          PROVE  Service!ReplyOk(r) \/ Service!ReplyCanceled(r)
      <3>1. UNCHANGED <<pc, taken, accepted, done, rx>>
        BY <2>9 DEF CallReturns, chanVars
      <3>2. CASE call[r] = "answered"
        <4>1. r \in done
          BY <3>2 DEF ReplyInv, RepliesAreTrue
        <4>2. /\ \A x \in Messages : call'[x] = "ok" <=> call[x] = "ok" \/ x = r
              /\ \A x \in Messages : call'[x] = "canceled" <=> call[x] = "canceled"
          BY <2>9, <3>2, <2>0 DEF CallReturns, ActorTypeOK
        <4> QED
          BY <3>1, <3>2, <4>1, <4>2 DEF Service!ReplyOk
      <3>3. CASE call[r] = "dropped"
        <4>1. r \notin done /\ ~ In(r, queue) /\ cur # r
          BY <3>3 DEF ReplyInv, RepliesAreTrue
        <4>2. /\ \A x \in Messages : call'[x] = "canceled" <=> call[x] = "canceled" \/ x = r
              /\ \A x \in Messages : call'[x] = "ok" <=> call[x] = "ok"
          BY <2>9, <3>3, <2>0 DEF CallReturns, ActorTypeOK
        <4>3. Service!Processed(r) \/ rx = "dropped"
          <5> SUFFICES ASSUME rx # "dropped" PROVE Service!Processed(r)
            OBVIOUS
          <5>1. PICK i \in 1 .. Len(accepted) : accepted[i] = r
            BY <3>3 DEF CallsAccepted, In
          <5>2. /\ Len(accepted) = taken + Len(queue) /\ taken \in Nat /\ Len(queue) \in Nat
                /\ \A j \in 1 .. Len(queue) : queue[j] = accepted[taken + j]
            BY <2>0, LenProperties DEF ChannelInv, ChannelTypeOK, NothingLost
          <5>3. i <= taken
            <6> SUFFICES ASSUME i > taken PROVE FALSE
              BY <5>1, <5>2
            <6>1. i - taken \in 1 .. Len(queue) /\ taken + (i - taken) = i
              BY <5>1, <5>2
            <6>2. queue[i - taken] = r
              BY <5>1, <5>2, <6>1
            <6> QED
              BY <4>1, <6>1, <6>2 DEF In
          <5>4. pc = "handling" => i # taken
            BY <4>1, <5>1 DEF CurIsLast
          <5>5. i \in 1 .. (IF pc = "handling" THEN taken - 1 ELSE taken)
            BY <5>1, <5>2, <5>3, <5>4
          <5> QED
            BY <5>1, <5>5 DEF Service!Processed
        <4> QED
          BY <3>1, <3>3, <4>1, <4>2, <4>3 DEF Service!ReplyCanceled
      <3> QED
        BY <2>9, <3>2, <3>3 DEF CallReturns
    <2>10. ASSUME NEW r \in Messages, SendReturns(r) \/ GiveUp(r)
           PROVE  UNCHANGED Service!serverVars
      <3>1. UNCHANGED <<accepted, taken, rx, done, pc>>
        BY <2>10 DEF SendReturns, FlushDone, GiveUp, Abandon, chanVars, loopVars
      <3>2. \A x \in Messages : /\ call'[x] = "ok" <=> call[x] = "ok"
                                /\ call'[x] = "canceled" <=> call[x] = "canceled"
        BY <2>10, <2>0 DEF SendReturns, GiveUp, Forgotten, Unresolved, ActorTypeOK
      <3> QED
        BY <3>1, <3>2, UnseenSteps
    <2>11. ASSUME NEW h \in Handles, ReleaseHandle(h)
           PROVE  UNCHANGED Service!serverVars
      BY <2>11, UnseenSteps DEF ReleaseHandle, DropHandle, loopVars
    <2>12. CASE UNCHANGED actorVars
      BY <2>12, UnseenSteps DEF actorVars, chanVars, loopVars
    <2>13. CASE LoopStep
      <3>1. ASSUME NEW r \in Messages,
                   TakeTask(r) \/ TakeStop(r) \/ TakeRestart(r) \/ RestartPanics(r)
            PROVE  [Service!ServerNext]_(Service!serverVars)
        BY <2>1, <2>2, <3>1 DEF Service!ServerNext
      <3> QED
        BY <2>13, <3>1, <2>3, <2>4, <2>5, <2>6, <2>7, <2>15 DEF LoopStep
    <2>14. CASE ClientStep
      <3>1. ASSUME NEW r \in Messages, NEW k, ClientIssue(r, k) \/ HandlerIssue(r, k)
            PROVE  [Service!ServerNext]_(Service!serverVars)
        BY <2>8, <3>1 DEF Service!ServerNext
      <3>2. ASSUME NEW r \in Messages, SendReturns(r) \/ CallReturns(r) \/ GiveUp(r)
            PROVE  [Service!ServerNext]_(Service!serverVars)
        BY <2>9, <2>10, <3>2 DEF Service!ServerNext
      <3> QED
        BY <2>11, <2>14, <3>1, <3>2 DEF ClientStep
    <2> QED
      BY <2>4, <2>5, <2>12, <2>13, <2>14, <2>15 DEF ActorNext
  <1> QED
    BY <1>1, <1>2, ServerInvariant, PTL
       DEF ActorSpec, ImplementsServer, Service!ServerSpec

=============================================================================
