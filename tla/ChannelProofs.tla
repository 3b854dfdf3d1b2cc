---------------------------- MODULE ChannelProofs ----------------------------
(***************************************************************************)
(* Proofs about Channel for every set of messages and every capacity.  The *)
(* inductive invariant adds to the checked invariants that a receiver that *)
(* is no longer open has nothing queued and nobody parked.                 *)
(***************************************************************************)
EXTENDS Channel, SequenceTheorems, TLAPS

ClosedIsEmpty == rx # "open" => queue = <<>> /\ parked = <<>>

ChannelInv ==
    /\ ChannelTypeOK
    /\ ParkedBeyondBuffer
    /\ NothingLost
    /\ AcceptedOnce
    /\ ClosedIsEmpty

-----------------------------------------------------------------------------
(* What the two queue operations do, element by element *)

\* Push (channel.rs:83, 92) leaves every older message in its place.
LEMMA AppendElements ==
    ASSUME NEW S, NEW s \in Seq(S), NEW x \in S
    PROVE  /\ Append(s, x) \in Seq(S)
           /\ Len(Append(s, x)) = Len(s) + 1
           /\ \A i \in 1 .. Len(s) : Append(s, x)[i] = s[i]
           /\ Append(s, x)[Len(s) + 1] = x
  BY AppendProperties

\* Pop (channel.rs:96) moves every other message up by one.
LEMMA TailElements ==
    ASSUME NEW S, NEW s \in Seq(S), s # <<>>
    PROVE  /\ Tail(s) \in Seq(S)
           /\ Len(s) \in Nat \ {0}
           /\ Len(Tail(s)) = Len(s) - 1
           /\ \A i \in 1 .. Len(s) - 1 : Tail(s)[i] = s[i + 1]
  BY HeadTailProperties, EmptySeq

-----------------------------------------------------------------------------
(* Each operation preserves the invariant *)

LEMMA InitInv == ChannelInit => ChannelInv
  <1> SUFFICES ASSUME ChannelInit PROVE ChannelInv
    OBVIOUS
  <1> USE BufferAssumption DEF ChannelInit, MpscInit
  <1>1. ChannelTypeOK
    BY DEF ChannelTypeOK, FutStates
  <1>2. ParkedBeyondBuffer /\ NothingLost /\ ClosedIsEmpty
    BY DEF ParkedBeyondBuffer, MustPark, NothingLost, ClosedIsEmpty
  <1>3. AcceptedOnce
    BY DEF AcceptedOnce, In
  <1> QED
    BY <1>1, <1>2, <1>3 DEF ChannelInv

\* Send and ForceSend: the message goes behind all others, and its sender is
\* parked if and only if that place is beyond the buffer.
LEMMA PushInv ==
    ASSUME ChannelInv, NEW m \in Messages, NEW s \in {"flushing", "forced"},
           fut[m] = "new", PushOrFail(m, s), UNCHANGED <<handles, taken>>
    PROVE  ChannelInv'
  <1> USE DEF ChannelInv
  <1>1. CASE Push(m) /\ SetFut(m, s) /\ accepted' = Append(accepted, m)
    <2> USE <1>1
    <2>0. /\ rx = "open" /\ rx' = "open"
          /\ queue' = Append(queue, m)
          /\ fut' = [fut EXCEPT ![m] = s]
      BY DEF Push, SetFut
    <2>1. /\ queue' \in Seq(Messages) /\ Len(queue') = Len(queue) + 1
          /\ \A i \in 1 .. Len(queue) : queue'[i] = queue[i]
          /\ queue'[Len(queue) + 1] = m
          /\ Len(queue) \in Nat
      BY <2>0, AppendElements, LenProperties DEF ChannelTypeOK
    <2>2. /\ accepted' \in Seq(Messages) /\ Len(accepted') = Len(accepted) + 1
          /\ \A i \in 1 .. Len(accepted) : accepted'[i] = accepted[i]
          /\ accepted'[Len(accepted) + 1] = m
          /\ Len(accepted) \in Nat
      BY AppendElements, LenProperties DEF ChannelTypeOK
    <2>3. parked \in Seq(Messages) /\ Len(parked) \in Nat
      BY LenProperties DEF ChannelTypeOK
    <2>4. /\ parked' \in Seq(Messages)
          /\ ParkedBeyondBuffer'
      <3>1. CASE MustPark(Len(queue) + 1)
        <4>1. /\ parked' \in Seq(Messages) /\ Len(parked') = Len(parked) + 1
              /\ \A i \in 1 .. Len(parked) : parked'[i] = parked[i]
              /\ parked'[Len(parked) + 1] = m
          BY <3>1, <2>3, AppendElements DEF Push
        <4>2. Len(parked) = Len(queue) - Buffer
          BY <3>1, <2>1, BufferAssumption DEF ParkedBeyondBuffer, MustPark
        <4>3. Len(parked') = Len(queue') - Buffer /\ MustPark(Len(queue'))
          BY <3>1, <4>1, <4>2, <2>1, BufferAssumption DEF MustPark
        <4>4. ASSUME NEW i \in 1 .. Len(parked')
              PROVE  parked'[i] = queue'[Buffer + i]
          <5>1. CASE i = Len(parked) + 1
            <6>1. Buffer + i = Len(queue) + 1
              BY <5>1, <4>2, <2>1, <2>3, BufferAssumption
            <6> QED
              BY <5>1, <6>1, <4>1, <2>1
          <5>2. CASE i \in 1 .. Len(parked)
            <6>1. Buffer + i \in 1 .. Len(queue)
              BY <5>2, <4>2, <2>1, <2>3, BufferAssumption
            <6> QED
              BY <5>2, <6>1, <4>1, <2>1 DEF ParkedBeyondBuffer
          <5> QED
            BY <5>1, <5>2, <4>1, <2>3
        <4> QED
          BY <4>1, <4>3, <4>4 DEF ParkedBeyondBuffer
      <3>2. CASE ~ MustPark(Len(queue) + 1)
        <4>1. parked' = parked
          BY <3>2 DEF Push
        <4>2. ~ MustPark(Len(queue)) /\ Len(parked) = 0
          BY <3>2, <2>1, BufferAssumption DEF ParkedBeyondBuffer, MustPark
        <4> QED
          BY <3>2, <4>1, <4>2, <2>1, <2>3 DEF ParkedBeyondBuffer
      <3> QED
        BY <3>1, <3>2
    <2>5. ChannelTypeOK'
      BY <2>0, <2>1, <2>2, <2>4 DEF ChannelTypeOK, FutStates
    <2>6. NothingLost'
      <3>1. taken \in Nat /\ taken' = taken /\ Len(accepted) = taken + Len(queue)
        BY <2>0 DEF NothingLost, ChannelTypeOK
      <3>2. Len(accepted') = taken' + Len(queue')
        BY <3>1, <2>1, <2>2
      <3>3. ASSUME NEW i \in 1 .. Len(queue')
            PROVE  queue'[i] = accepted'[taken' + i]
        <4>1. CASE i = Len(queue) + 1
          <5>1. taken' + i = Len(accepted) + 1
            BY <4>1, <3>1, <2>1
          <5> QED
            BY <4>1, <5>1, <2>1, <2>2
        <4>2. CASE i \in 1 .. Len(queue)
          <5>1. taken' + i = taken + i /\ taken + i \in 1 .. Len(accepted)
            BY <4>2, <3>1, <2>1
          <5> QED
            BY <4>2, <5>1, <2>0, <2>1, <2>2 DEF NothingLost
        <4>3. i = Len(queue) + 1 \/ i \in 1 .. Len(queue)
          BY <2>1
        <4> QED
          BY <4>1, <4>2, <4>3
      <3> QED
        BY <3>2, <3>3 DEF NothingLost
    <2>7. AcceptedOnce'
      <3>1. ~ In(m, accepted)
        BY DEF AcceptedOnce
      <3>2. \A x \in Messages : In(x, accepted') <=> In(x, accepted) \/ x = m
        BY <2>2 DEF In
      <3>3. \A x \in Messages :
              In(x, accepted') <=> fut'[x] \notin {"new", "failed", "refused"}
        BY <2>0, <3>2 DEF AcceptedOnce, ChannelTypeOK
      <3>4. \A i, j \in 1 .. Len(accepted') : accepted'[i] = accepted'[j] => i = j
        BY <2>2, <3>1 DEF AcceptedOnce, In
      <3> QED
        BY <3>3, <3>4 DEF AcceptedOnce, In
    <2> QED
      BY <2>0, <2>4, <2>5, <2>6, <2>7 DEF ClosedIsEmpty
  <1>2. CASE /\ SetFut(m, "failed")
             /\ UNCHANGED <<queue, parked, rx, accepted>>
    BY <1>2 DEF SetFut, ChannelTypeOK, FutStates, ParkedBeyondBuffer, MustPark,
                NothingLost, AcceptedOnce, In, ClosedIsEmpty
  <1> QED
    BY <1>1, <1>2 DEF PushOrFail

\* Steps that only change what a sender has been told.
LEMMA FutInv ==
    ASSUME ChannelInv, NEW m \in Messages,
           NEW s \in FutStates,
           fut' = [fut EXCEPT ![m] = s],
           \/ fut[m] = "new" /\ s = "refused"
           \/ fut[m] = "flushing" /\ s \in {"sent", "abandoned"},
           UNCHANGED <<queue, parked, rx, handles, accepted, taken>>
    PROVE  ChannelInv'
  BY DEF ChannelInv, ChannelTypeOK, FutStates, ParkedBeyondBuffer, MustPark,
         NothingLost, AcceptedOnce, In, ClosedIsEmpty

LEMMA ReceiveInv ==
    ASSUME ChannelInv, Receive
    PROVE  ChannelInv'
  <1> USE DEF ChannelInv
  <1>0. /\ rx = "open" /\ rx' = "open" /\ taken' = taken + 1 /\ taken \in Nat
        /\ UNCHANGED <<fut, handles, accepted>>
        /\ accepted' = accepted /\ Len(accepted) = taken + Len(queue)
    BY DEF Receive, Pop, ChannelTypeOK, NothingLost
  <1>1. /\ queue' \in Seq(Messages) /\ Len(queue) \in Nat \ {0}
        /\ Len(queue') = Len(queue) - 1
        /\ \A i \in 1 .. Len(queue) - 1 : queue'[i] = queue[i + 1]
    BY TailElements DEF Receive, Pop, ChannelTypeOK
  <1>2. parked \in Seq(Messages) /\ Len(parked) \in Nat
    BY LenProperties DEF ChannelTypeOK
  <1>3. parked' \in Seq(Messages) /\ ParkedBeyondBuffer'
    <2>1. CASE parked = <<>>
      <3>1. parked' = <<>> /\ Len(parked) = 0 /\ Len(parked') = 0
        BY <2>1 DEF Receive, Pop
      <3>2. ~ MustPark(Len(queue)) /\ ~ MustPark(Len(queue'))
        BY <3>1, <1>1, BufferAssumption DEF ParkedBeyondBuffer, MustPark
      <3> QED
        BY <3>1, <3>2, <1>2, <2>1 DEF ParkedBeyondBuffer
    <2>2. CASE parked # <<>>
      <3>1. /\ parked' \in Seq(Messages) /\ Len(parked) \in Nat \ {0}
            /\ Len(parked') = Len(parked) - 1
            /\ \A i \in 1 .. Len(parked) - 1 : parked'[i] = parked[i + 1]
        BY <2>2, <1>2, TailElements DEF Receive, Pop
      <3>2. MustPark(Len(queue)) /\ Len(parked) = Len(queue) - Buffer
        BY <3>1 DEF ParkedBeyondBuffer
      <3>3. Len(parked') = IF MustPark(Len(queue')) THEN Len(queue') - Buffer ELSE 0
        BY <3>1, <3>2, <1>1, BufferAssumption DEF MustPark
      <3>4. ASSUME NEW i \in 1 .. Len(parked')
            PROVE  parked'[i] = queue'[Buffer + i]
        <4>1. parked'[i] = queue[Buffer + (i + 1)]
          BY <3>1 DEF ParkedBeyondBuffer
        <4> QED
          BY <4>1, <3>1, <3>2, <1>1, BufferAssumption
      <3> QED
        BY <3>1, <3>3, <3>4 DEF ParkedBeyondBuffer
    <2> QED
      BY <2>1, <2>2
  <1>4. ChannelTypeOK'
    BY <1>0, <1>1, <1>3 DEF ChannelTypeOK
  <1>5. NothingLost'
    <2>1. Len(accepted') = taken' + Len(queue')
      BY <1>0, <1>1
    <2>2. ASSUME NEW i \in 1 .. Len(queue')
          PROVE  queue'[i] = accepted'[taken' + i]
      <3>0. i \in 1 .. Len(queue) - 1
        BY <1>1
      <3>1. i + 1 \in 1 .. Len(queue) /\ taken' + i = taken + (i + 1)
        BY <1>0, <1>1, <3>0
      <3>2. queue'[i] = queue[i + 1]
        BY <1>1, <3>0
      <3>3. queue[i + 1] = accepted[taken + (i + 1)]
        BY <1>0, <3>1 DEF NothingLost
      <3> QED
        BY <1>0, <3>1, <3>2, <3>3
    <2> QED
      BY <2>1, <2>2 DEF NothingLost
  <1>6. AcceptedOnce' /\ ClosedIsEmpty'
    BY <1>0 DEF AcceptedOnce, In, ClosedIsEmpty
  <1> QED
    BY <1>3, <1>4, <1>5, <1>6

\* End of stream, lost references and the end of the receiver.
LEMMA CloseInv ==
    ASSUME ChannelInv,
           \/ EndOfStream
           \/ DropReceiver
           \/ \E h \in Handles : DropHandle(h)
    PROVE  ChannelInv'
  <1> USE DEF ChannelInv
  <1>1. CASE EndOfStream
    <2>1. queue = <<>> /\ Len(queue) = 0
      BY <1>1 DEF EndOfStream, End
    <2>2. parked = <<>>
      BY <2>1, EmptySeq, BufferAssumption DEF ParkedBeyondBuffer, MustPark, ChannelTypeOK
    <2> QED
      BY <1>1, <2>1, <2>2
         DEF EndOfStream, End, ChannelTypeOK, ParkedBeyondBuffer, MustPark,
             NothingLost, AcceptedOnce, In, ClosedIsEmpty
  <1>2. CASE DropReceiver
    BY <1>2, BufferAssumption
       DEF DropReceiver, DropRx, ChannelTypeOK, ParkedBeyondBuffer, MustPark,
           NothingLost, AcceptedOnce, In, ClosedIsEmpty
  <1>3. CASE \E h \in Handles : DropHandle(h)
    BY <1>3 DEF DropHandle, Handles, ChannelTypeOK, ParkedBeyondBuffer, MustPark,
                NothingLost, AcceptedOnce, In, ClosedIsEmpty
  <1> QED
    BY <1>1, <1>2, <1>3

LEMMA StepInv == ChannelInv /\ [ChannelNext]_chanVars => ChannelInv'
  <1> SUFFICES ASSUME ChannelInv, [ChannelNext]_chanVars PROVE ChannelInv'
    OBVIOUS
  <1>1. CASE Receive
    BY <1>1, ReceiveInv
  <1>2. CASE EndOfStream \/ DropReceiver \/ \E h \in Handles : DropHandle(h)
    BY <1>2, CloseInv
  <1>3. ASSUME NEW m \in Messages, Send(m) \/ ForceSend(m)
        PROVE  ChannelInv'
    BY <1>3, PushInv DEF Send, ForceSend
  <1>4. ASSUME NEW m \in Messages, Refuse(m) \/ FlushDone(m) \/ Abandon(m)
        PROVE  ChannelInv'
    BY <1>4, FutInv DEF Refuse, FlushDone, Abandon, SetFut, FutStates
  <1>5. CASE UNCHANGED chanVars
    BY <1>5 DEF chanVars, ChannelInv, ChannelTypeOK, ParkedBeyondBuffer,
                MustPark, NothingLost, AcceptedOnce, In, ClosedIsEmpty
  <1> QED
    BY <1>1, <1>2, <1>3, <1>4, <1>5 DEF ChannelNext

-----------------------------------------------------------------------------
(* The theorems *)

\* The mailbox never leaves its states: every operation of channel.rs, in any
\* interleaving, keeps the invariant.
THEOREM ChannelInvariant == ChannelSpec => []ChannelInv
  BY InitInv, StepInv, PTL DEF ChannelSpec

THEOREM ChannelTypeCorrect == ChannelSpec => []ChannelTypeOK
  <1>1. ChannelInv => ChannelTypeOK
    BY DEF ChannelInv
  <1> QED
    BY <1>1, ChannelInvariant, PTL

\* For every capacity the parked senders are those beyond the buffer.
THEOREM ParkedAreBeyondBuffer == ChannelSpec => []ParkedBeyondBuffer
  <1>1. ChannelInv => ParkedBeyondBuffer
    BY DEF ChannelInv
  <1> QED
    BY <1>1, ChannelInvariant, PTL

\* No message is lost, duplicated or overtaken before the receiver is dropped.
THEOREM MailboxIsFifo == ChannelSpec => [](NothingLost /\ AcceptedOnce)
  <1>1. ChannelInv => NothingLost /\ AcceptedOnce
    BY DEF ChannelInv
  <1> QED
    BY <1>1, ChannelInvariant, PTL

\* A message is accepted at most once, exactly when its sender was not turned
\* away, whether its future was awaited or dropped.
THEOREM AcceptedAtMostOnce == ChannelSpec => []AcceptedOnce
  <1>1. ChannelInv => AcceptedOnce
    BY DEF ChannelInv
  <1> QED
    BY <1>1, ChannelInvariant, PTL

\* The mailbox implements Fifo: the list of parked tasks gives exactly the
\* backpressure that Fifo states by position.
THEOREM ChannelImplementsFifo == ChannelSpec => ImplementsFifo
  <1>1. ChannelInit => Mailbox!FifoInit
    BY DEF ChannelInit, MpscInit, Mailbox!FifoInit
  <1>2. ASSUME ChannelInv, [ChannelNext]_chanVars
        PROVE  [Mailbox!FifoNext]_(Mailbox!fifoVars)
    <2> USE <1>2 DEF ChannelInv
    <2>1. ASSUME NEW m \in Messages, NEW s \in {"flushing", "forced"},
                 fut[m] = "new", PushOrFail(m, s), UNCHANGED taken
          PROVE  Mailbox!Accept(m) \/ UNCHANGED Mailbox!fifoVars
      <3>1. {x \in Messages : fut'[x] = "sent"} = {x \in Messages : fut[x] = "sent"}
        BY <2>1 DEF PushOrFail, SetFut, ChannelTypeOK
      <3>2. CASE Push(m) /\ accepted' = Append(accepted, m)
        BY <3>1, <3>2, <2>1 DEF Push, Mailbox!Accept, AcceptedOnce, In
      <3>3. CASE UNCHANGED <<queue, parked, rx, accepted>>
        BY <3>1, <3>3, <2>1 DEF Mailbox!fifoVars
      <3> QED
        BY <2>1, <3>2, <3>3 DEF PushOrFail
    <2>2. ASSUME NEW m \in Messages, FlushDone(m)
          PROVE  Mailbox!Ack(m)
      <3>1. PICK i \in 1 .. Len(accepted) : accepted[i] = m
        BY <2>2 DEF FlushDone, AcceptedOnce, In
      <3>2. ASSUME rx = "open", Bounded
            PROVE  i <= taken + Buffer
        <4> SUFFICES ASSUME i > taken + Buffer PROVE FALSE
          BY <3>1, BufferAssumption DEF ChannelTypeOK
        <4>1. Len(queue) \in Nat /\ Len(accepted) = taken + Len(queue) /\ taken \in Nat
          BY <3>2, LenProperties DEF NothingLost, ChannelTypeOK
        <4>2. Len(parked) = Len(queue) - Buffer /\ Buffer \in Nat
          BY <3>1, <3>2, <4>1, BufferAssumption DEF ParkedBeyondBuffer, MustPark
        <4> DEFINE k == i - taken - Buffer
        <4>3. k \in 1 .. Len(parked) /\ Buffer + k = i - taken /\ i - taken \in 1 .. Len(queue)
          BY <3>1, <4>1, <4>2
        <4>4. parked[k] = queue[i - taken]
          BY <4>3 DEF ParkedBeyondBuffer
        <4>5. queue[i - taken] = accepted[taken + (i - taken)]
          BY <3>2, <4>3 DEF NothingLost
        <4>6. taken + (i - taken) = i
          BY <4>1
        <4>7. In(m, parked)
          BY <3>1, <4>3, <4>4, <4>5, <4>6 DEF In
        <4> QED
          BY <2>2, <4>7 DEF FlushDone
      <3>3. {x \in Messages : fut'[x] = "sent"}
              = {x \in Messages : fut[x] = "sent"} \cup {m}
        BY <2>2 DEF FlushDone, SetFut, ChannelTypeOK
      <3> QED
        BY <2>2, <3>1, <3>2, <3>3
           DEF FlushDone, Mailbox!Ack, Mailbox!WithinCapacity
    <2>3. ASSUME NEW m \in Messages, Refuse(m) \/ Abandon(m)
          PROVE  UNCHANGED Mailbox!fifoVars
      <3>1. {x \in Messages : fut'[x] = "sent"} = {x \in Messages : fut[x] = "sent"}
        BY <2>3 DEF Refuse, Abandon, SetFut, ChannelTypeOK
      <3> QED
        BY <2>3, <3>1 DEF Refuse, Abandon, Mailbox!fifoVars
    <2>4. CASE Receive
      <3>1. Len(queue) \in Nat \ {0} /\ Len(accepted) = taken + Len(queue)
        BY <2>4, TailElements DEF Receive, Pop, ChannelTypeOK, NothingLost
      <3> QED
        BY <2>4, <3>1 DEF Receive, Pop, Mailbox!Deliver, Mailbox!FifoNext,
                         ChannelTypeOK
    <2>5. CASE EndOfStream \/ DropReceiver
      BY <2>5 DEF EndOfStream, End, DropReceiver, DropRx, Mailbox!Close,
                  Mailbox!FifoNext, Mailbox!fifoVars
    <2>6. CASE \E h \in Handles : DropHandle(h)
      BY <2>6 DEF DropHandle, Mailbox!fifoVars
    <2>7. CASE UNCHANGED chanVars
      BY <2>7 DEF chanVars, Mailbox!fifoVars
    <2>8. ASSUME NEW m \in Messages, Send(m) \/ ForceSend(m)
          PROVE  Mailbox!Accept(m) \/ UNCHANGED Mailbox!fifoVars
      BY <2>8, <2>1 DEF Send, ForceSend
    <2> QED
      BY <1>2, <2>2, <2>3, <2>4, <2>5, <2>6, <2>7, <2>8
         DEF ChannelNext, Mailbox!FifoNext
  <1> QED
    BY <1>1, <1>2, ChannelInvariant, PTL
       DEF ChannelSpec, ImplementsFifo, Mailbox!FifoSpec

-----------------------------------------------------------------------------
(* What the capacity does bound *)

\* What waits in the mailbox although its sender was told to go on lies within
\* the buffer: whatever is beyond it was forced, abandoned, or is still awaited.
GoneOnWithinBuffer ==
    Bounded => \A i \in 1 .. Len(queue) : fut[queue[i]] = "sent" => i <= Buffer

\* Nobody waits for room in a mailbox that has room, or that is closed; one more
\* message has to be taken for every place beyond the buffer.
WaitersAreAhead ==
    parked # <<>> => rx = "open" /\ Bounded /\ Len(queue) = Buffer + Len(parked)

LEMMA GoneOnStep ==
    ASSUME ChannelInv, GoneOnWithinBuffer, [ChannelNext]_chanVars
    PROVE  GoneOnWithinBuffer'
<1> USE BufferAssumption DEF ChannelInv, ChannelTypeOK
<1>1. ASSUME NEW m \in Messages, NEW s \in {"flushing", "forced"},
             fut[m] = "new", PushOrFail(m, s)
      PROVE  GoneOnWithinBuffer'
  <2>1. ASSUME NEW r \in Messages, fut'[r] = "sent"
        PROVE  fut[r] = "sent" /\ r # m
    BY <1>1, <2>1 DEF PushOrFail, SetFut
  <2>2. CASE Push(m)
    <3>1. /\ Len(queue) \in Nat /\ Len(queue') = Len(queue) + 1
          /\ \A i \in 1 .. Len(queue) : queue'[i] = queue[i]
          /\ queue'[Len(queue) + 1] = m
      BY <2>2, AppendElements DEF Push
    <3> QED
      BY <2>1, <3>1 DEF GoneOnWithinBuffer
  <2>3. CASE queue' = queue
    BY <2>1, <2>3 DEF GoneOnWithinBuffer
  <2> QED
    BY <1>1, <2>2, <2>3 DEF PushOrFail
<1>2. ASSUME NEW m \in Messages, FlushDone(m)
      PROVE  GoneOnWithinBuffer'
  <2> SUFFICES ASSUME Bounded, NEW i \in 1 .. Len(queue), fut'[queue[i]] = "sent", i > Buffer
               PROVE  FALSE
    BY <1>2, LenProperties DEF FlushDone, GoneOnWithinBuffer
  <2>1. queue[i] = m
    BY <1>2 DEF FlushDone, SetFut, GoneOnWithinBuffer
  <2>2. Len(queue) \in Nat /\ Len(parked) = Len(queue) - Buffer
    BY LenProperties DEF ParkedBeyondBuffer, MustPark
  <2>3. i - Buffer \in 1 .. Len(parked) /\ Buffer + (i - Buffer) = i
    BY <2>2
  <2>4. parked[i - Buffer] = m
    BY <2>1, <2>3 DEF ParkedBeyondBuffer
  <2> QED
    BY <1>2, <2>3, <2>4 DEF FlushDone, In
<1>3. ASSUME NEW m \in Messages, Refuse(m) \/ Abandon(m)
      PROVE  GoneOnWithinBuffer'
  BY <1>3 DEF Refuse, Abandon, SetFut, GoneOnWithinBuffer
<1>4. CASE Receive
  <2>1. /\ Len(queue) \in Nat \ {0} /\ Len(queue') = Len(queue) - 1
        /\ \A i \in 1 .. Len(queue) - 1 : queue'[i] = queue[i + 1]
    BY <1>4, TailElements DEF Receive, Pop
  <2> SUFFICES ASSUME Bounded, NEW i \in 1 .. Len(queue'), fut'[queue'[i]] = "sent"
               PROVE  i <= Buffer
    BY DEF GoneOnWithinBuffer
  <2>2. i \in 1 .. Len(queue) - 1 /\ i + 1 \in 1 .. Len(queue) /\ i \in Nat
    BY <2>1
  <2>3. fut[queue[i + 1]] = "sent"
    BY <1>4, <2>1, <2>2 DEF Receive
  <2>4. i + 1 <= Buffer
    BY <2>2, <2>3 DEF GoneOnWithinBuffer
  <2> QED
    BY <2>2, <2>4
<1>5. CASE EndOfStream \/ \E h \in Handles : DropHandle(h)
  BY <1>5 DEF EndOfStream, End, DropHandle, GoneOnWithinBuffer
<1>6. CASE DropReceiver
  BY <1>6 DEF DropReceiver, DropRx, GoneOnWithinBuffer
<1>7. CASE UNCHANGED chanVars
  BY <1>7 DEF chanVars, GoneOnWithinBuffer
<1>8. ASSUME NEW m \in Messages, Send(m) \/ ForceSend(m)
      PROVE  GoneOnWithinBuffer'
  BY <1>1, <1>8 DEF Send, ForceSend
<1> QED
  BY <1>2, <1>3, <1>4, <1>5, <1>6, <1>7, <1>8 DEF ChannelNext

\* For every capacity: messages whose send has returned while they are still in
\* the mailbox fit the buffer, so one task that awaits its sends is held back
\* by what it has sent, although the mailbox as a whole is not bounded
\* (channel.rs:77-86; CapacityRespected says what does not hold).
THEOREM ReturnedSendsFitBuffer == ChannelSpec => []GoneOnWithinBuffer
<1>1. ChannelInit => GoneOnWithinBuffer
  BY DEF ChannelInit, MpscInit, GoneOnWithinBuffer
<1>2. ChannelInv /\ GoneOnWithinBuffer /\ [ChannelNext]_chanVars => GoneOnWithinBuffer'
  BY GoneOnStep
<1> QED
  BY <1>1, <1>2, ChannelInvariant, PTL DEF ChannelSpec

\* A sender that waits is behind a full buffer of an open mailbox: there is a
\* message to take, and its turn comes after as many as are ahead of it
\* (channel.rs:81-99).
THEOREM WaitersHaveCause == ChannelSpec => []WaitersAreAhead
<1>1. ChannelInv => WaitersAreAhead
  <2> SUFFICES ASSUME ChannelInv, parked # <<>>
               PROVE  rx = "open" /\ Bounded /\ Len(queue) = Buffer + Len(parked)
    BY DEF WaitersAreAhead
  <2>1. Len(queue) \in Nat /\ Len(parked) \in Nat \ {0}
    BY EmptySeq, LenProperties DEF ChannelInv, ChannelTypeOK
  <2>2. MustPark(Len(queue)) /\ Len(parked) = Len(queue) - Buffer
    BY <2>1 DEF ChannelInv, ParkedBeyondBuffer
  <2>3. queue # <<>>
    BY <2>1, <2>2, BufferAssumption, EmptySeq DEF MustPark
  <2> QED
    BY <2>1, <2>2, <2>3, BufferAssumption DEF ChannelInv, ClosedIsEmpty, MustPark
<1> QED
  BY <1>1, ChannelInvariant, PTL

=============================================================================
