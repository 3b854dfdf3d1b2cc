-------------------------------- MODULE Mpsc --------------------------------
(***************************************************************************)
(* The bounded and the unbounded multi-producer, single-consumer channel   *)
(* of the futures crate, as channel.rs uses it: every send goes through a  *)
(* fresh clone of a Sender, and a clone owns one guaranteed slot.  The     *)
(* library is outside the repository; what matters of it here is that a    *)
(* push is never refused while the receiver is open, that a push above the *)
(* buffer parks the sender that made it, and that every message taken out  *)
(* unparks the sender that has been parked the longest.                    *)
(***************************************************************************)
EXTENDS Integers, Sequences

CONSTANTS Messages,   \* payloads, each handed to the channel at most once
          Bounded,    \* TRUE for Channel::bounded, FALSE for unbounded
          Buffer      \* the capacity given to Channel::bounded

ASSUME BufferAssumption == Bounded \in BOOLEAN /\ Buffer \in Nat

VARIABLES queue,      \* messages pushed and not yet taken, oldest first
          parked,     \* parked senders, each named by the message it pushed
          rx          \* the receiver: "open", "ended" or "dropped"

mpscVars == <<queue, parked, rx>>

MpscInit == queue = <<>> /\ parked = <<>> /\ rx = "open"

In(m, s) == \E i \in 1 .. Len(s) : s[i] = m

\* Every clone starts unparked, so it pushes first and is parked afterwards
\* when the queue, with its own message in it, is longer than the buffer.
MustPark(n) == Bounded /\ n > Buffer

Push(m) ==
    /\ rx = "open"
    /\ queue' = Append(queue, m)
    /\ parked' = IF MustPark(Len(queue) + 1) THEN Append(parked, m) ELSE parked
    /\ rx' = rx

\* Broken variant: a message leaves the queue and no parked sender is woken.
PopWithoutUnparking ==
    /\ rx = "open"
    /\ queue # <<>>
    /\ queue' = Tail(queue)
    /\ UNCHANGED <<parked, rx>>

Pop ==
    /\ rx = "open"
    /\ queue # <<>>
    /\ queue' = Tail(queue)
    /\ parked' = IF parked = <<>> THEN <<>> ELSE Tail(parked)
    /\ rx' = rx

\* The receiver sees the end of the stream once no sender is left.
End ==
    /\ rx = "open"
    /\ queue = <<>>
    /\ rx' = "ended"
    /\ UNCHANGED <<queue, parked>>

\* Dropping the receiver closes the channel, wakes every parked sender and
\* drops the messages that are still queued.
DropRx ==
    /\ rx # "dropped"
    /\ rx' = "dropped"
    /\ queue' = <<>>
    /\ parked' = <<>>

=============================================================================
