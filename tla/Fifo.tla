-------------------------------- MODULE Fifo --------------------------------
(***************************************************************************)
(* What a mailbox promises.  Messages are delivered in the order in which  *)
(* they were accepted, each at most once, and none is lost while the       *)
(* mailbox is open.  A sender that waits for the mailbox is told to go on  *)
(* only when at most Capacity messages, its own included, are ahead of the *)
(* receiver, or when the mailbox has closed: that is all the backpressure  *)
(* there is, and it is stated by position, not by a list of parked tasks.  *)
(***************************************************************************)
EXTENDS Integers, Sequences

CONSTANTS Messages, Bounded, Capacity

VARIABLES sent,        \* every message accepted, in order
          delivered,   \* how many of them the receiver has taken
          acked,       \* messages whose waiting sender was told to go on
          open

fifoVars == <<sent, delivered, acked, open>>

WithinCapacity(i) == Bounded => i <= delivered + Capacity

FifoInit ==
    /\ sent = <<>>
    /\ delivered = 0
    /\ acked = {}
    /\ open = TRUE

Accept(m) ==
    /\ open
    /\ \A i \in 1 .. Len(sent) : sent[i] # m
    /\ sent' = Append(sent, m)
    /\ UNCHANGED <<delivered, acked, open>>

Deliver ==
    /\ open
    /\ delivered < Len(sent)
    /\ delivered' = delivered + 1
    /\ UNCHANGED <<sent, acked, open>>

Ack(m) ==
    /\ m \notin acked
    /\ \E i \in 1 .. Len(sent) : sent[i] = m /\ (open => WithinCapacity(i))
    /\ acked' = acked \cup {m}
    /\ UNCHANGED <<sent, delivered, open>>

Close ==
    /\ open
    /\ open' = FALSE
    /\ UNCHANGED <<sent, delivered, acked>>

FifoNext ==
    \/ Deliver
    \/ Close
    \/ \E m \in Messages : Accept(m) \/ Ack(m)

FifoSpec == FifoInit /\ [][FifoNext]_fifoVars

=============================================================================
