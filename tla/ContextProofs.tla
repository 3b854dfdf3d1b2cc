--------------------------- MODULE ContextProofs ---------------------------
(***************************************************************************)
(* For any mailbox, any plan and any number of starts: no task is ever out *)
(* of its Context's reach, and an interval_with is held back by the room   *)
(* in the mailbox.  The second needs to know who is parked: the senders of *)
(* the messages above the buffer, in the order of the messages.  Then what *)
(* tasks can do to the life of their actor.                                *)
(***************************************************************************)
EXTENDS Context, FiniteSetTheorems, TLAPS

ParkedInv ==
    /\ \A i \in 1 .. Len(parked) : parked[i] = queue[Buffer + i]
    /\ \A t \in Tasks : What(t) = "interval_with" =>
         /\ at[t] \in {"none", "sleeping"} => ~ In(t, parked)
         /\ \A i, j \in 1 .. Len(parked) : parked[i] = t /\ parked[j] = t => i = j

\* The parts of ContextTypeOK that an action changes together.
MailboxOK ==
    /\ queue \in Seq(Contents) /\ parked \in Seq(Contents)
    /\ rx \in {"open", "ended", "dropped"}
    /\ rx # "open" => queue = <<>>
    /\ Len(parked) = IF MustPark(Len(queue)) THEN Len(queue) - Buffer ELSE 0

LifeInv == ctx = "dropped" => pc = "left"

ContextInv == ContextTypeOK /\ NoTaskForgotten /\ LifeInv /\ ParkedInv

LEMMA ContextInvInit == ContextInit => ContextInv
  <1> SUFFICES ASSUME ContextInit PROVE ContextInv
    OBVIOUS
  <1> USE BoundedAssumption, BoundsAssumption DEF ContextInit, MpscInit
  <1>1. ContextTypeOK
    BY DEF ContextTypeOK, PcStates, Starts, MustPark, Contents
  <1>2. NoTaskForgotten /\ LifeInv /\ ParkedInv
    BY DEF NoTaskForgotten, Live, LifeInv, ParkedInv, In
  <1> QED
    BY <1>1, <1>2 DEF ContextInv

-----------------------------------------------------------------------------
(* The mailbox *)

LEMMA AppendFacts ==
    ASSUME NEW S, NEW s \in Seq(S), NEW e \in S
    PROVE  /\ Append(s, e) \in Seq(S)
           /\ Len(Append(s, e)) = Len(s) + 1
           /\ \A i \in 1 .. Len(s) : Append(s, e)[i] = s[i]
           /\ Append(s, e)[Len(s) + 1] = e
  OBVIOUS

LEMMA TailFacts ==
    ASSUME NEW S, NEW s \in Seq(S), s # <<>>
    PROVE  /\ Tail(s) \in Seq(S)
           /\ Len(Tail(s)) = Len(s) - 1
           /\ \A i \in 1 .. Len(Tail(s)) : i + 1 \in 1 .. Len(s) /\ Tail(s)[i] = s[i + 1]
  OBVIOUS

LEMMA PushKeepsMailbox ==
    ASSUME MailboxOK, NEW m \in Contents, Push(m)
    PROVE  /\ MailboxOK'
           /\ parked' = IF MustPark(Len(queue) + 1) THEN Append(parked, m) ELSE parked
           /\ queue' = Append(queue, m)
  BY BoundedAssumption DEF MailboxOK, Push, MustPark

LEMMA PopKeepsMailbox ==
    ASSUME MailboxOK, Pop
    PROVE  /\ MailboxOK'
           /\ queue' = Tail(queue)
           /\ parked' = IF parked = <<>> THEN <<>> ELSE Tail(parked)
  BY BoundedAssumption DEF MailboxOK, Pop, MustPark

\* A push parks its sender last, behind those of the messages before it.
LEMMA PushKeepsOrder ==
    ASSUME MailboxOK, NEW m \in Contents, Push(m),
           \A i \in 1 .. Len(parked) : parked[i] = queue[Buffer + i],
           NEW i \in 1 .. Len(parked')
    PROVE  parked'[i] = queue'[Buffer + i]
  <1> USE BoundedAssumption, PushKeepsMailbox DEF MailboxOK, MustPark
  <1>1. CASE MustPark(Len(queue) + 1)
    <2>1. parked' = Append(parked, m) /\ queue' = Append(queue, m)
      BY <1>1
    <2>2. Len(queue) = Buffer + Len(parked)
      BY <1>1
    <2>3. CASE i = Len(parked) + 1
      BY <2>1, <2>2, <2>3
    <2>4. CASE i \in 1 .. Len(parked)
      BY <2>1, <2>2, <2>4
    <2> HIDE DEF MailboxOK, MustPark
    <2>5. Len(parked') = Len(parked) + 1 /\ Len(parked) \in Nat
      <3>1. parked \in Seq(Contents)
        BY DEF MailboxOK
      <3> QED
        BY <2>1, <3>1, AppendFacts
    <2>6. i = Len(parked) + 1 \/ i \in 1 .. Len(parked)
      BY <2>5
    <2> QED
      BY <2>3, <2>4, <2>6
  <1>2. CASE ~ MustPark(Len(queue) + 1)
    <2>1. parked' = parked
      BY <1>2
    <2>2. Len(parked) = 0
      BY <1>2
    <2> HIDE DEF MailboxOK, MustPark
    <2>3. i \in 1 .. Len(parked')
      OBVIOUS
    <2>4. Len(parked') = 0
      BY <2>1, <2>2
    <2>5. i \in 1 .. 0
      BY <2>3, <2>4
    <2> QED
      BY <2>5
  <1> QED
    BY <1>1, <1>2

LEMMA PopKeepsOrder ==
    ASSUME MailboxOK, Pop,
           \A i \in 1 .. Len(parked) : parked[i] = queue[Buffer + i],
           NEW i \in 1 .. Len(parked')
    PROVE  parked'[i] = queue'[Buffer + i]
  <1>1. parked # <<>> /\ parked' = Tail(parked) /\ queue' = Tail(queue)
    BY PopKeepsMailbox DEF MailboxOK
  <1>2. parked'[i] = parked[i + 1] /\ i + 1 \in 1 .. Len(parked)
    BY <1>1 DEF MailboxOK
  <1>3. Len(queue) = Buffer + Len(parked)
    BY <1>1, BoundedAssumption DEF MailboxOK, MustPark
  <1>4. Buffer + i \in Nat \ {0} /\ Buffer + i < Len(queue)
    BY <1>2, <1>3, BoundedAssumption DEF MailboxOK
  <1>5. queue'[Buffer + i] = queue[Buffer + (i + 1)]
    BY <1>1, <1>4, BoundedAssumption DEF MailboxOK
  <1> QED
    BY <1>2, <1>5

-----------------------------------------------------------------------------
(* Who is parked *)

LEMMA ParkedIfUntouched ==
    ASSUME ParkedInv, UNCHANGED <<queue, parked>>,
           \A t \in Tasks :
               at'[t] \in {"none", "sleeping"} =>
                   at[t] \in {"none", "sleeping"} \/ ~ In(t, parked)
    PROVE  ParkedInv'
  BY DEF ParkedInv, In

LEMMA ParkedIfPopped ==
    ASSUME MailboxOK, ParkedInv, Pop, UNCHANGED at
    PROVE  ParkedInv'
  <1>1. \A i \in 1 .. Len(parked') : parked'[i] = queue'[Buffer + i]
    BY PopKeepsOrder DEF ParkedInv
  <1>2. CASE parked = <<>>
    <2>1. parked' = <<>>
      BY <1>2, PopKeepsMailbox
    <2> QED
      BY <1>1, <2>1 DEF ParkedInv, In
  <1>3. CASE parked # <<>>
    <2>1. \A i \in 1 .. Len(parked') : i + 1 \in 1 .. Len(parked) /\ parked'[i] = parked[i + 1]
      BY <1>3, PopKeepsMailbox, TailFacts DEF MailboxOK
    <2>2. \A t \in Tasks : In(t, parked') => In(t, parked)
      BY <2>1 DEF In
    <2>3. ASSUME NEW t \in Tasks, What(t) = "interval_with",
                 NEW i \in 1 .. Len(parked'), NEW j \in 1 .. Len(parked'),
                 parked'[i] = t, parked'[j] = t
          PROVE  i = j
      <3>1. i + 1 = j + 1
        BY <2>1, <2>3 DEF ParkedInv
      <3> QED
        BY <3>1 DEF MailboxOK
    <2>4. \A t \in Tasks : What(t) = "interval_with" =>
            (at'[t] \in {"none", "sleeping"} => ~ In(t, parked)')
      BY <2>2 DEF ParkedInv, In
    <2> QED
      BY <1>1, <2>3, <2>4 DEF ParkedInv
  <1> QED
    BY <1>2, <1>3

\* What is pushed is not an interval_with, or one that sleeps and will wait.
LEMMA ParkedIfPushed ==
    ASSUME MailboxOK, ParkedInv, NEW m \in Contents, Push(m),
           \A t \in Tasks \ {m} : at'[t] = at[t],
           m \in Tasks /\ What(m) = "interval_with" =>
               /\ at[m] = "sleeping"
               /\ at'[m] = IF MustPark(Len(queue) + 1) THEN "sending" ELSE "sleeping"
    PROVE  ParkedInv'
  <1>1. \A i \in 1 .. Len(parked') : parked'[i] = queue'[Buffer + i]
    BY PushKeepsOrder DEF ParkedInv
  <1>2. CASE MustPark(Len(queue) + 1)
    <2>1. /\ parked' = Append(parked, m) /\ parked \in Seq(Contents)
          /\ Len(parked') = Len(parked) + 1
          /\ \A i \in 1 .. Len(parked) : parked'[i] = parked[i]
          /\ parked'[Len(parked) + 1] = m
      <3>1. parked' = Append(parked, m) /\ parked \in Seq(Contents)
        BY <1>2, PushKeepsMailbox DEF MailboxOK
      <3> QED
        BY <3>1, AppendFacts
    <2>2. ASSUME NEW t \in Tasks, What(t) = "interval_with"
          PROVE  /\ at'[t] \in {"none", "sleeping"} => ~ In(t, parked)'
                 /\ \A i, j \in 1 .. Len(parked') : parked'[i] = t /\ parked'[j] = t => i = j
      <3>1. CASE t = m
        <4>1. \A i \in 1 .. Len(parked) : parked[i] # t
          BY <2>2, <3>1 DEF ParkedInv, In
        <4>2. \A i \in 1 .. Len(parked') : i \in 1 .. Len(parked) \/ i = Len(parked) + 1
          BY <2>1
        <4>3. \A i \in 1 .. Len(parked') : parked'[i] = t => i = Len(parked) + 1
          BY <2>1, <4>1, <4>2
        <4> QED
          BY <1>2, <2>2, <3>1, <4>3
      <3>2. CASE t # m
        <4>1. \A i \in 1 .. Len(parked') : parked'[i] = t => i \in 1 .. Len(parked) /\ parked[i] = t
          BY <2>1, <3>2
        <4> QED
          BY <2>2, <3>2, <4>1 DEF ParkedInv, In
      <3> QED
        BY <3>1, <3>2
    <2> QED
      BY <1>1, <2>2 DEF ParkedInv
  <1>3. CASE ~ MustPark(Len(queue) + 1)
    <2>1. parked' = parked
      BY <1>3, PushKeepsMailbox
    <2>2. \A t \in Tasks : What(t) = "interval_with" /\ at'[t] \in {"none", "sleeping"}
                           => at[t] \in {"none", "sleeping"}
      OBVIOUS
    <2> QED
      BY <1>1, <2>1, <2>2 DEF ParkedInv, In
  <1> QED
    BY <1>2, <1>3

-----------------------------------------------------------------------------
(* The steps *)

LEMMA ContextInvNext ==
    ASSUME ContextInv, [ContextNext]_vars
    PROVE  ContextInv'
  <1> USE DEF ContextInv, LifeInv
  <1>0. MailboxOK
    BY DEF ContextTypeOK, MailboxOK
  <1>1. ASSUME UNCHANGED <<plan, refs, taskVars, ctx, childVars, starts>>,
               pc' \in PcStates, exit' \in {"none", "ok", "failed"}, MailboxOK', ParkedInv',
               pc = "left" => pc' = "left"
        PROVE  ContextInv'
    BY <1>1 DEF ContextTypeOK, NoTaskForgotten, Live, MailboxOK, taskVars, childVars
  <1>2. ASSUME UNCHANGED <<plan, taskVars, ctx, childVars, mailboxVars>>,
               starts' \in Starts, refs' \in BOOLEAN,
               pc' \in PcStates, exit' \in {"none", "ok", "failed"},
               pc = "left" => pc' = "left"
        PROVE  ContextInv'
    <2>1. ParkedInv'
      BY <1>2, ParkedIfUntouched DEF mailboxVars, taskVars
    <2> QED
      BY <1>2, <2>1 DEF ContextTypeOK, NoTaskForgotten, Live, mailboxVars, taskVars, childVars
  <1>3. ASSUME NEW k \in TaskKinds, Register(k) PROVE ContextInv'
    <2>1. <<k, starts>> \in Tasks
      BY DEF ContextTypeOK, Tasks
    <2>2. ParkedInv'
      <3>1. at' = [at EXCEPT ![<<k, starts>>] = "sleeping"] /\ at[<<k, starts>>] = "none"
        BY <1>3 DEF Register
      <3>2. \A t \in Tasks : at'[t] = at[t] \/ at[t] = "none"
        BY <2>1, <3>1 DEF ContextTypeOK
      <3> QED
        BY <1>3, <3>2, ParkedIfUntouched DEF Register, mailboxVars
    <2>3. NoTaskForgotten'
      BY <1>3, <2>1 DEF Register, NoTaskForgotten, Live, ContextTypeOK
    <2> QED
      BY <1>3, <2>1, <2>2, <2>3 DEF Register, ContextTypeOK, loopVars, mailboxVars, childVars
  <1>4. ASSUME NEW shared \in BOOLEAN, AddChild(shared) PROVE ContextInv'
    <2>1. ParkedInv'
      BY <1>4, ParkedIfUntouched DEF AddChild, mailboxVars, taskVars
    <2> QED
      BY <1>4, <2>1 DEF AddChild, ContextTypeOK, NoTaskForgotten, Live, loopVars, mailboxVars, taskVars
  <1>5. CASE StartedOk \/ Finish \/ Stopped \/ Fail
    BY <1>2, <1>5 DEF StartedOk, Finish, Stopped, Fail, ContextTypeOK, PcStates
  <1>6. ASSUME NEW m \in Contents, NEW next \in PcStates, Take(m, next) PROVE ContextInv'
    <2>1. MailboxOK'
      BY <1>0, <1>6, PopKeepsMailbox DEF Take
    <2>2. ParkedInv'
      BY <1>0, <1>6, ParkedIfPopped DEF Take, taskVars
    <2> QED
      BY <1>1, <1>6, <2>1, <2>2 DEF Take, ContextTypeOK
  <1>7. CASE TakeNext
    BY <1>6, <1>7 DEF TakeNext, Contents, PcStates
  <1>8. CASE MailboxEnds
    <2>1. MailboxOK'
      BY <1>0, <1>8 DEF MailboxEnds, End, MailboxOK
    <2>2. ParkedInv'
      BY <1>8, ParkedIfUntouched DEF MailboxEnds, End, taskVars
    <2> QED
      BY <1>1, <1>8, <2>1, <2>2 DEF MailboxEnds, ContextTypeOK, PcStates
  <1>9. CASE Refresh
    BY <1>2, <1>9, BoundsAssumption DEF Refresh, ContextTypeOK, PcStates, Starts
  <1>10. CASE DropContext
    <2>1. ParkedInv'
      BY <1>10, ParkedIfUntouched DEF DropContext, mailboxVars
    <2> QED
      BY <1>10, <2>1 DEF DropContext, ContextTypeOK, NoTaskForgotten, Live, loopVars,
                         mailboxVars, childVars
  <1>11. CASE DropMailbox
    <2>1. MailboxOK'
      BY <1>0, <1>11, BoundedAssumption DEF DropMailbox, DropRx, MailboxOK, MustPark
    <2>2. ParkedInv'
      BY <1>11 DEF DropMailbox, DropRx, ParkedInv, In
    <2> QED
      BY <1>1, <1>11, <2>1, <2>2 DEF DropMailbox, ContextTypeOK, loopVars
  <1>12. ASSUME NEW t \in Tasks, Push(t), NEW then \in {"sleeping", "sending", "done"},
                at' = [at EXCEPT ![t] = then], at[t] = "sleeping", t \notin aborted,
                What(t) = "interval_with" =>
                    then = IF MustPark(Len(queue) + 1) THEN "sending" ELSE "sleeping",
                UNCHANGED <<plan, loopVars, refs, listed, aborted, ctx, childVars>>
         PROVE  ContextInv'
    <2>1. MailboxOK' /\ ParkedInv'
      BY <1>0, <1>12, PushKeepsMailbox, ParkedIfPushed DEF Contents, ContextTypeOK
    <2>2. NoTaskForgotten'
      BY <1>12 DEF NoTaskForgotten, Live, ContextTypeOK
    <2> QED
      BY <1>12, <2>1, <2>2 DEF ContextTypeOK, MailboxOK, loopVars, childVars
  <1>13. ASSUME NEW t \in Tasks, NEW then \in {"sleeping", "done"}, t \in Live,
                at' = [at EXCEPT ![t] = then],
                then = "sleeping" => ~ In(t, parked),
                UNCHANGED <<plan, loopVars, mailboxVars, refs, listed, aborted, ctx, childVars>>
         PROVE  ContextInv'
    <2>1. ParkedInv'
      BY <1>13, ParkedIfUntouched DEF mailboxVars, ContextTypeOK
    <2> QED
      BY <1>13, <2>1 DEF ContextTypeOK, NoTaskForgotten, Live, loopVars, mailboxVars, childVars
  <1>14. ASSUME NEW t \in Tasks, Wake(t) PROVE ContextInv'
    <2>1. CASE at' = [at EXCEPT ![t] = "done"] /\ UNCHANGED mailboxVars
      BY <1>13, <1>14, <2>1 DEF Wake, Live
    <2>2. CASE What(t) = "interval" /\ Push(t) /\ UNCHANGED at
      <3>1. at' = [at EXCEPT ![t] = "sleeping"]
        BY <1>14, <2>2 DEF Wake, ContextTypeOK
      <3> QED
        BY <1>12, <1>14, <2>2, <3>1 DEF Wake
    <2>3. CASE What(t) = "interval_with" /\ SendAndWait(t, "sleeping")
      BY <1>12, <1>14, <2>3 DEF Wake, SendAndWait
    <2>4. CASE What(t) = "delayed" /\ SendAndWait(t, "done")
      BY <1>12, <1>14, <2>4 DEF Wake, SendAndWait
    <2> QED
      BY <1>14, <2>1, <2>2, <2>3, <2>4 DEF Wake
  <1>15. ASSUME NEW t \in Tasks, SendReturns(t) \/ Abort(t) PROVE ContextInv'
    <2>1. CASE SendReturns(t)
      BY <1>13, <2>1 DEF SendReturns, Live
    <2>2. CASE Abort(t)
      BY <1>13, <2>2 DEF Abort, Live
    <2> QED
      BY <1>15, <2>1, <2>2
  <1>16. ASSUME NEW m \in {Stop, Restart}, Ask(m) PROVE ContextInv'
    <2>1. Push(m) /\ m \in Contents /\ UNCHANGED at
      BY <1>16 DEF Ask, Contents, taskVars
    <2>2. m \in Tasks => What(m) # "interval_with"
      BY <1>16 DEF What, Stop, Restart
    <2>3. MailboxOK' /\ ParkedInv'
      BY <1>0, <2>1, <2>2, PushKeepsMailbox, ParkedIfPushed
    <2> QED
      BY <1>1, <1>16, <2>3 DEF Ask, ContextTypeOK, loopVars
  <1>17. CASE ReleaseRefs
    BY <1>2, <1>17 DEF ReleaseRefs, ContextTypeOK, loopVars
  <1>18. ASSUME NEW n \in Starts, ReleaseChild(n) \/ ChildEnds(n) PROVE ContextInv'
    <2>1. ParkedInv'
      BY <1>18, ParkedIfUntouched DEF ReleaseChild, ChildEnds, mailboxVars, taskVars
    <2> QED
      BY <1>18, <2>1 DEF ReleaseChild, ChildEnds, ContextTypeOK, NoTaskForgotten, Live,
                         loopVars, mailboxVars, taskVars
  <1>19. CASE UNCHANGED vars
    BY <1>2, <1>19 DEF vars, loopVars, ContextTypeOK
  <1>20. CASE LoopStep
    BY <1>3, <1>4, <1>5, <1>7, <1>8, <1>9, <1>10, <1>11, <1>20 DEF LoopStep
  <1> QED
    BY <1>5, <1>14, <1>15, <1>16, <1>17, <1>18, <1>19, <1>20 DEF ContextNext

THEOREM ContextInvariant == ContextSpec => []ContextInv
  BY ContextInvInit, ContextInvNext, PTL DEF ContextSpec

-----------------------------------------------------------------------------
(* What follows *)

\* The state is well-formed, and as many senders are parked as messages are in
\* the mailbox above its buffer.
THEOREM ContextTypeCorrect == ContextSpec => []ContextTypeOK
  BY ContextInvariant, PTL DEF ContextInv

\* The Context can always abort every task that lives, or has done so.
THEOREM TasksAreReachable == ContextSpec => []NoTaskForgotten
  BY ContextInvariant, PTL DEF ContextInv

\* The ticks of one interval_with beyond the buffer are at most one, since its
\* sender is parked for that one.
LEMMA ParkedMeansFew ==
    ASSUME ContextInv, Bounded, NEW t \in Tasks, What(t) = "interval_with"
    PROVE  Cardinality({i \in 1 .. Len(queue) : queue[i] = t}) <= Buffer + 1
  <1> DEFINE At == {i \in 1 .. Len(queue) : queue[i] = t}
             Beyond == {i \in At : i > Buffer}
  <1>1. \A i \in Beyond : i - Buffer \in 1 .. Len(parked) /\ parked[i - Buffer] = t
    BY BoundedAssumption DEF ContextInv, ContextTypeOK, ParkedInv, MustPark
  <1>2. \A i, j \in Beyond : i = j
    <2> TAKE i, j \in Beyond
    <2>1. i - Buffer = j - Buffer
      BY <1>1 DEF ContextInv, ParkedInv
    <2> QED
      BY <2>1, BoundedAssumption
  <1>3. PICK k \in Nat : Beyond \subseteq {k}
    <2>1. CASE Beyond = {}
      BY <2>1
    <2>2. CASE Beyond # {}
      <3>1. PICK k \in Beyond : TRUE
        BY <2>2
      <3> QED
        BY <1>2, <3>1
    <2> QED
      BY <2>1, <2>2
  <1>4. At \subseteq (1 .. Buffer) \cup {k}
    BY <1>3, BoundedAssumption
  <1>5. IsFiniteSet(1 .. Buffer) /\ Cardinality(1 .. Buffer) = Buffer
    BY FS_Interval, BoundedAssumption
  <1>6. /\ IsFiniteSet((1 .. Buffer) \cup {k})
        /\ Cardinality((1 .. Buffer) \cup {k}) <= Buffer + 1
    <2>1. /\ IsFiniteSet((1 .. Buffer) \cup {k})
          /\ Cardinality((1 .. Buffer) \cup {k}) =
               IF k \in 1 .. Buffer THEN Cardinality(1 .. Buffer) ELSE Cardinality(1 .. Buffer) + 1
      BY <1>5, FS_AddElement
    <2> QED
      BY <1>5, <2>1, BoundedAssumption
  <1>7. IsFiniteSet(At) /\ Cardinality(At) <= Cardinality((1 .. Buffer) \cup {k})
    BY <1>4, <1>6, FS_Subset
  <1>8. Cardinality(At) \in Nat /\ Cardinality((1 .. Buffer) \cup {k}) \in Nat
    BY <1>6, <1>7, FS_CardinalityType
  <1> QED
    BY <1>6, <1>7, <1>8, BoundedAssumption

\* A slow actor is not flooded by an interval_with.
THEOREM IntervalsWait == ContextSpec => []IntervalWithWaits
  <1>1. ContextInv => IntervalWithWaits
    BY ParkedMeansFew DEF IntervalWithWaits
  <1> QED
    BY <1>1, ContextInvariant, PTL

-----------------------------------------------------------------------------
(* Tasks and the life of their actor *)

\* A mailbox without a bound never makes a task wait, and a task that does not
\* wait refers to nobody.
OnlyWaitingHolds == ~ Bounded => (Held => refs)

\* An actor that nothing holds is never held again, and its mailbox only drains.
NeverHeldAgain == [][~ Held => ~ Held' /\ Len(queue') <= Len(queue)]_vars

\* Once the Context is dropped its tasks only go, and none of them sends.
TasksFallSilent ==
    [][ctx = "dropped" =>
         /\ Live' \subseteq Live
         /\ \A t \in Tasks : In(t, queue)' => In(t, queue)]_vars

\* How a task, or an outsider, gets something into the mailbox.
LEMMA WhoPushes ==
    ASSUME ContextInv, [ContextNext]_vars
    PROVE  \/ \E t \in Tasks : Wake(t) /\ Held /\ t \notin aborted /\ at[t] = "sleeping"
           \/ \E m \in {Stop, Restart} : Ask(m) /\ Held
           \/ /\ queue' = queue \/ queue' = <<>> \/ (queue # <<>> /\ queue' = Tail(queue))
              /\ refs' => refs
              /\ \A t \in Tasks : at'[t] = "sending" => at[t] = "sending"
  <1> USE DEF ContextInv, ContextTypeOK
  <1> DEFINE Quiet ==
        /\ queue' = queue \/ queue' = <<>> \/ (queue # <<>> /\ queue' = Tail(queue))
        /\ refs' => refs
        /\ \A t \in Tasks : at'[t] = "sending" => at[t] = "sending"
  <1>1. ASSUME NEW t \in Tasks, Wake(t)
        PROVE  Quiet \/ (Held /\ t \notin aborted /\ at[t] = "sleeping")
    <2>1. CASE at' = [at EXCEPT ![t] = "done"] /\ UNCHANGED mailboxVars
      BY <1>1, <2>1 DEF Wake, mailboxVars
    <2>2. CASE Held
      BY <1>1, <2>2 DEF Wake
    <2> QED
      BY <1>1, <2>1, <2>2 DEF Wake
  <1>2. ASSUME NEW m \in {Stop, Restart}, Ask(m)
        PROVE  Held
    BY <1>2 DEF Ask, Held
  <1>3. ASSUME NEW t \in Tasks, SendReturns(t) \/ Abort(t)
        PROVE  Quiet
    BY <1>3 DEF SendReturns, Abort, mailboxVars
  <1>4. CASE LoopStep
    <2>1. ASSUME NEW k \in TaskKinds, Register(k)
          PROVE  Quiet
      <3>1. starts \in Starts
        OBVIOUS
      <3>2. <<k, starts>> \in Tasks
        BY <3>1 DEF Tasks
      <3> QED
        BY <2>1, <3>2 DEF Register, mailboxVars
    <2>2. ASSUME NEW m \in Contents, NEW next, Take(m, next)
          PROVE  Quiet
      BY <2>2 DEF Take, Pop, taskVars
    <2>3. CASE TakeNext
      BY <2>2, <2>3 DEF TakeNext, Contents
    <2>4. CASE MailboxEnds \/ DropMailbox
      BY <2>4 DEF MailboxEnds, End, DropMailbox, DropRx, taskVars
    <2>5. CASE \/ StartedOk \/ Finish \/ Refresh \/ Stopped \/ DropContext
               \/ \E shared \in BOOLEAN : AddChild(shared)
      BY <2>5 DEF StartedOk, Finish, Refresh, Stopped, DropContext, AddChild, mailboxVars,
                  taskVars
    <2> QED
      BY <1>4, <2>1, <2>3, <2>4, <2>5 DEF LoopStep
  <1>5. CASE Fail \/ ReleaseRefs \/ \E n \in Starts : ReleaseChild(n) \/ ChildEnds(n)
    BY <1>5 DEF Fail, ReleaseRefs, ReleaseChild, ChildEnds, mailboxVars, taskVars
  <1>6. CASE UNCHANGED vars
    BY <1>6 DEF vars, mailboxVars, taskVars
  <1> QED
    BY <1>1, <1>2, <1>3, <1>4, <1>5, <1>6 DEF ContextNext

LEMMA UnboundedNeverWaits ==
    ASSUME ContextInv, [ContextNext]_vars, ~ Bounded, \A t \in Tasks : at[t] # "sending"
    PROVE  \A t \in Tasks : at'[t] # "sending"
  <1> USE DEF ContextInv, ContextTypeOK
  <1>1. ASSUME NEW t \in Tasks, Wake(t)
        PROVE  \A u \in Tasks : at'[u] # "sending"
    BY <1>1 DEF Wake, SendAndWait, MustPark, Push
  <1>2. ASSUME NEW m \in {Stop, Restart}, Ask(m)
        PROVE  \A u \in Tasks : at'[u] # "sending"
    BY <1>2 DEF Ask, taskVars
  <1> QED
    BY <1>1, <1>2, WhoPushes

\* Timers do not keep an actor alive whose mailbox has no bound: when its last
\* Addr goes, nothing holds it, whatever it has registered
\* (context.rs:165-183, 198-240; addr.rs:65).
THEOREM TimersHoldNobody == ContextSpec => []OnlyWaitingHolds
  <1> DEFINE NobodyWaits == ~ Bounded => \A t \in Tasks : at[t] # "sending"
  <1>1. ContextInit => NobodyWaits
    BY DEF ContextInit
  <1>2. ContextInv /\ NobodyWaits /\ [ContextNext]_vars => NobodyWaits'
    BY UnboundedNeverWaits
  <1>3. NobodyWaits => OnlyWaitingHolds
    BY DEF OnlyWaitingHolds, Held
  <1> QED
    BY <1>1, <1>2, <1>3, ContextInvariant, PTL DEF ContextSpec

\* A task cannot bring its actor back: once nothing holds the actor, its timers
\* find nobody to send to, and it ends when it has read its mailbox
\* (weak_sender.rs:36, context.rs:198-240).
THEOREM AbandonedIsFinal == ContextSpec => NeverHeldAgain
  <1>1. ASSUME ContextInv, [ContextNext]_vars
        PROVE  ~ Held => ~ Held' /\ Len(queue') <= Len(queue)
    <2> SUFFICES ASSUME ~ Held
                 PROVE  ~ Held' /\ Len(queue') <= Len(queue)
      OBVIOUS
    <2>1. /\ queue' = queue \/ queue' = <<>> \/ (queue # <<>> /\ queue' = Tail(queue))
          /\ refs' => refs
          /\ \A t \in Tasks : at'[t] = "sending" => at[t] = "sending"
      BY <1>1, WhoPushes
    <2>2. ~ Held'
      BY <2>1 DEF Held
    <2>3. Len(queue) \in Nat /\ (queue # <<>> => Len(Tail(queue)) = Len(queue) - 1)
      BY <1>1 DEF ContextInv, ContextTypeOK
    <2> QED
      BY <2>1, <2>2, <2>3
  <1> QED
    BY <1>1, ContextInvariant, PTL DEF ContextSpec, NeverHeldAgain

LEMMA LiveShrinks ==
    ASSUME ContextInv, [ContextNext]_vars, ctx = "dropped"
    PROVE  Live' \subseteq Live
  <1> USE DEF ContextInv, ContextTypeOK, Live
  <1>1. ASSUME NEW t \in Tasks, Wake(t) \/ SendReturns(t) \/ Abort(t)
        PROVE  Live' \subseteq Live
    BY <1>1 DEF Wake, SendReturns, Abort, SendAndWait
  <1>2. CASE LoopStep
    <2>1. ~ \E k \in TaskKinds : Register(k)
      BY DEF Register, LifeInv
    <2>2. at' = at
      BY <1>2, <2>1
         DEF LoopStep, AddChild, StartedOk, TakeNext, Take, MailboxEnds, Finish, Refresh,
             Stopped, DropContext, DropMailbox, taskVars
    <2> QED
      BY <2>2
  <1>3. CASE \/ Fail \/ ReleaseRefs \/ Ask(Stop) \/ Ask(Restart)
             \/ \E n \in Starts : ReleaseChild(n) \/ ChildEnds(n)
             \/ UNCHANGED vars
    BY <1>3 DEF Fail, ReleaseRefs, Ask, ReleaseChild, ChildEnds, vars, taskVars
  <1> QED
    BY <1>1, <1>2, <1>3 DEF ContextNext

\* After the Context is dropped no task sends any more, woken or not, and none
\* is added, although the aborted ones still have to be polled
\* (context.rs:65-71, 185-196).
THEOREM DroppedContextSilences == ContextSpec => TasksFallSilent
  <1>1. ASSUME ContextInv, [ContextNext]_vars
        PROVE  ctx = "dropped" => /\ Live' \subseteq Live
                                  /\ \A t \in Tasks : In(t, queue)' => In(t, queue)
    <2> SUFFICES ASSUME ctx = "dropped", NEW t \in Tasks, In(t, queue)'
                 PROVE  In(t, queue)
      BY <1>1, LiveShrinks
    <2>1. queue \in Seq(Contents) /\ Len(queue) \in Nat
      BY <1>1 DEF ContextInv, ContextTypeOK
    <2>2. \A u \in Tasks : at[u] = "sleeping" => u \in aborted
      BY <1>1 DEF ContextInv, NoTaskForgotten, Live
    <2>3. ASSUME NEW m \in {Stop, Restart}, Ask(m)
          PROVE  In(t, queue)
      <3>1. queue' = Append(queue, m) /\ m \in Contents /\ m # t
        BY <2>3 DEF Ask, Push, Contents, Tasks, TaskKinds, Stop, Restart
      <3> QED
        BY <2>1, <3>1, AppendFacts DEF In
    <2>4. CASE queue # <<>> /\ queue' = Tail(queue)
      BY <2>1, <2>4, TailFacts DEF In
    <2>5. CASE queue' = queue \/ queue' = <<>>
      BY <2>5 DEF In
    <2> QED
      BY <1>1, <2>2, <2>3, <2>4, <2>5, WhoPushes
  <1> QED
    BY <1>1, ContextInvariant, PTL DEF ContextSpec, TasksFallSilent

=============================================================================
