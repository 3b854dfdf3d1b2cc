------------------------------- MODULE Channel -------------------------------
(***************************************************************************)
(* An actor's mailbox, channel.rs: two reference-counted closures over one *)
(* mpsc channel.  tx_fn returns a future that pushes a clone's message and *)
(* then waits for the clone to be ready again; force_tx_fn pushes and      *)
(* returns.  Weak references to the closures are upgraded for each use.    *)
(***************************************************************************)
EXTENDS Mpsc

VARIABLES fut,        \* per message: how far the operation that sends it is
          handles,    \* which closures some strong reference keeps alive
          accepted,   \* history: every message pushed, in order
          taken       \* history: how many of them the receiver has taken

chanVars == <<queue, parked, rx, fut, handles, accepted, taken>>

Handles == {"tx", "force"}

\* new: not polled; flushing: pushed, waiting; sent: resolved Ok; forced:
\* start_send returned Ok; failed: SendError; refused: a weak upgrade failed;
\* abandoned: the future was dropped while it was flushing.
FutStates == {"new", "flushing", "sent", "forced", "failed", "refused",
              "abandoned"}

ChannelInit ==
    /\ MpscInit
    /\ fut = [m \in Messages |-> "new"]
    /\ handles = Handles
    /\ accepted = <<>>
    /\ taken = 0

SetFut(m, s) == fut' = [fut EXCEPT ![m] = s]

\* Broken variant: a full mailbox turns the sender away.
PushUnlessFull(m, s) ==
    /\ IF rx = "open" /\ ~ MustPark(Len(queue) + 1)
       THEN Push(m) /\ SetFut(m, s) /\ accepted' = Append(accepted, m)
       ELSE /\ SetFut(m, IF rx = "open" THEN "full" ELSE "failed")
            /\ UNCHANGED <<queue, parked, rx, accepted>>

\* The outcome of the first poll, or of start_send: pushed, or disconnected.
PushOrFail(m, s) ==
    \/ /\ Push(m)
       /\ SetFut(m, s)
       /\ accepted' = Append(accepted, m)
    \/ /\ rx # "open"
       /\ SetFut(m, "failed")
       /\ UNCHANGED <<queue, parked, rx, accepted>>

Send(m) ==
    /\ fut[m] = "new"
    /\ "tx" \in handles
    /\ PushOrFail(m, "flushing")
    /\ UNCHANGED <<handles, taken>>

\* No readiness check: the bound is ignored, and the parked clone is dropped
\* with its entry left in the list of parked senders.
ForceSend(m) ==
    /\ fut[m] = "new"
    /\ "force" \in handles
    /\ PushOrFail(m, "forced")
    /\ UNCHANGED <<handles, taken>>

\* weak_tx or weak_force_tx no longer upgrades.
Refuse(m) ==
    /\ fut[m] = "new"
    /\ handles # Handles
    /\ SetFut(m, "refused")
    /\ UNCHANGED <<queue, parked, rx, handles, accepted, taken>>

\* Broken variant: a sender is resumed as soon as it is polled again.
FlushWithoutReadiness(m) ==
    /\ fut[m] = "flushing"
    /\ SetFut(m, "sent")
    /\ UNCHANGED <<queue, parked, rx, handles, accepted, taken>>

\* The clone has been unparked, or the channel has closed: poll_flush then
\* also reports Ok, although the message was dropped with the receiver.
FlushDone(m) ==
    /\ fut[m] = "flushing"
    /\ ~ In(m, parked)
    /\ SetFut(m, "sent")
    /\ UNCHANGED <<queue, parked, rx, handles, accepted, taken>>

\* Broken variant: the last message is withdrawn with the future that sent it.
AbandonWithdraws(m) ==
    /\ fut[m] = "flushing"
    /\ SetFut(m, "abandoned")
    /\ queue' = SelectSeq(queue, LAMBDA x : x # m)
    /\ UNCHANGED <<parked, rx, handles, accepted, taken>>

\* Dropping the future does not take the message back, nor its parked entry.
Abandon(m) ==
    /\ fut[m] = "flushing"
    /\ SetFut(m, "abandoned")
    /\ UNCHANGED <<queue, parked, rx, handles, accepted, taken>>

Receive ==
    /\ Pop
    /\ taken' = taken + 1
    /\ UNCHANGED <<fut, handles, accepted>>

\* Broken variant: a future that was dropped still counts as a sender.
SendersLeak == handles # {} \/ \E m \in Messages : fut[m] \in {"flushing", "abandoned"}

\* A future that is still flushing owns a clone of the Sender.
SendersLeft == handles # {} \/ \E m \in Messages : fut[m] = "flushing"

EndOfStream ==
    /\ ~ SendersLeft
    /\ End
    /\ UNCHANGED <<fut, handles, accepted, taken>>

\* The last strong reference to a closure goes.  Each can be the first to go:
\* a Caller holds tx_fn alone, and the last Addr drops payload_tx first.
DropHandle(h) ==
    /\ h \in handles
    /\ handles' = handles \ {h}
    /\ UNCHANGED <<queue, parked, rx, fut, accepted, taken>>

DropReceiver ==
    /\ DropRx
    /\ UNCHANGED <<fut, handles, accepted, taken>>

ChannelNext ==
    \/ Receive
    \/ EndOfStream
    \/ DropReceiver
    \/ \E h \in Handles : DropHandle(h)
    \/ \E m \in Messages :
        Send(m) \/ ForceSend(m) \/ Refuse(m) \/ FlushDone(m) \/ Abandon(m)

ChannelSpec == ChannelInit /\ [][ChannelNext]_chanVars

\* The executor polls a future that was woken, and the receiver is polled by
\* a loop that always comes back to it.  Nobody is obliged to send, to drop a
\* reference or to abandon a future.
ChannelFairness ==
    /\ WF_chanVars(Receive)
    /\ \A m \in Messages : WF_chanVars(FlushDone(m))

FairChannelSpec == ChannelSpec /\ ChannelFairness

-----------------------------------------------------------------------------
(* Correctness *)

ChannelTypeOK ==
    /\ queue \in Seq(Messages)
    /\ parked \in Seq(Messages)
    /\ rx \in {"open", "ended", "dropped"}
    /\ fut \in [Messages -> FutStates]
    /\ handles \subseteq Handles
    /\ accepted \in Seq(Messages)
    /\ taken \in Nat

\* The senders that wait are exactly those whose messages lie beyond the
\* buffer, in the order of the queue: no sender is woken early, no wake-up
\* meant for one sender goes to another, and none stays parked after its
\* message came within the buffer (channel.rs:77-97 over poll_flush).
ParkedBeyondBuffer ==
    /\ Len(parked) = IF MustPark(Len(queue)) THEN Len(queue) - Buffer ELSE 0
    /\ \A i \in 1 .. Len(parked) : parked[i] = queue[Buffer + i]

\* Until the receiver is dropped, what was accepted is what was taken followed
\* by what is queued: neither lost, nor duplicated, nor reordered; and a stream
\* that has ended has delivered everything (channel.rs:96-99).
NothingLost ==
    rx # "dropped" =>
        /\ Len(accepted) = taken + Len(queue)
        /\ \A i \in 1 .. Len(queue) : queue[i] = accepted[taken + i]

\* A message is accepted at most once, exactly when its sender was not turned
\* away, whether or not its future was waited for (channel.rs:77-94).
AcceptedOnce ==
    /\ \A m \in Messages :
        In(m, accepted) <=> fut[m] \notin {"new", "failed", "refused"}
    /\ \A i, j \in 1 .. Len(accepted) : accepted[i] = accepted[j] => i = j

Mailbox == INSTANCE Fifo WITH
    sent <- accepted,
    delivered <- taken,
    acked <- {m \in Messages : fut[m] = "sent"},
    open <- (rx = "open"),
    Capacity <- Buffer

\* The parked list implements the backpressure by position that Fifo states.
ImplementsFifo == Mailbox!FifoSpec

\* A sender that waits is eventually told something: it is unparked when the
\* receiver makes room, or the channel closes (or its owner gives it up).
SendsReturn == \A m \in Messages : fut[m] = "flushing" ~> fut[m] # "flushing"

\* What the documentation of build() says of a bounded mailbox, for the sends
\* that check for readiness: forced ones are not counted.
CapacityRespected ==
    Bounded => Len(SelectSeq(queue, LAMBDA m : fut[m] # "forced")) <= Buffer

=============================================================================
