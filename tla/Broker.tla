------------------------------- MODULE Broker -------------------------------
(***************************************************************************)
(* The broker of one topic (broker.rs): a service whose handlers keep a    *)
(* map of weak senders and pass each publication on to the mailboxes of    *)
(* the subscribers, one awaited send after the other.  The subscribers are *)
(* actors reduced to what the broker sees of them: a mailbox with room for *)
(* a few messages, and a life that ends by itself or when nothing refers   *)
(* to them any more.  The broker's own mailbox is unbounded, as from       *)
(* Environment::unbounded(), and the broker itself is never stopped.       *)
(***************************************************************************)
EXTENDS Naturals, Sequences

CONSTANTS Actors,        \* that may subscribe
          MaxPublished,  \* bound: how many publications there are
          Room,          \* messages a subscriber's mailbox takes without waiting
          MaxInbox,      \* bound: requests that wait for the broker at a time
          None

ASSUME BoundsAssumption == Room \in Nat /\ MaxInbox \in Nat /\ MaxPublished \in Nat
ASSUME NoneAssumption == None \notin Actors

\* Publications are told apart by the order in which they were sent.
Publications == 1 .. MaxPublished

VARIABLES inbox,       \* the requests that wait in the broker's mailbox
          subscribers, \* the keys of the map, by ContextID
          current,     \* the publication being handled; 0: none
          unasked,     \* subscribers whose weak sender is still to be upgraded
          held,        \* those whose upgraded senders the handler holds
          todo,        \* those it has not begun to send to
          sending,     \* the one whose mailbox it waits for
          alive,       \* the actors whose loop runs
          referenced,  \* those that somebody but the broker refers to
          mail,        \* history: what was put into each actor's mailbox
          read,        \* how many of these the actor has taken out
          published,   \* history: the last publication sent to the broker
          taken,       \* history: the last one it has taken
          wanted,      \* history: the actors whose last request was Subscribe
          audience     \* history: wanted when a publication was taken

handlerVars == <<current, unasked, held, todo, sending>>
actorVars == <<alive, referenced, mail, read>>
historyVars == <<published, taken, wanted, audience>>
vars == <<inbox, subscribers, handlerVars, actorVars, historyVars>>

Publish(p) == [kind |-> "publish", what |-> p]
Subscribe(a) == [kind |-> "subscribe", what |-> a]
Unsubscribe(a) == [kind |-> "unsubscribe", what |-> a]

Requests == {Publish(p) : p \in Publications} \cup
            {Subscribe(a) : a \in Actors} \cup {Unsubscribe(a) : a \in Actors}

BrokerInit ==
    /\ inbox = <<>> /\ subscribers = {}
    /\ current = 0 /\ unasked = {} /\ held = {} /\ todo = {} /\ sending = None
    /\ alive = Actors /\ referenced = Actors
    /\ mail = [a \in Actors |-> <<>>] /\ read = [a \in Actors |-> 0]
    /\ published = 0 /\ taken = 0
    /\ wanted = {} /\ audience = [p \in Publications |-> {}]

-----------------------------------------------------------------------------
(* Requests to the broker, by anyone: Addr<Broker>::publish, subscribe and *)
(* unsubscribe, and what Broker and Context forward to them.  Sending to   *)
(* an unbounded mailbox does not wait, inside a handler or outside.        *)

SendRequest(q) ==
    /\ Len(inbox) < MaxInbox
    /\ inbox' = Append(inbox, q)
    /\ UNCHANGED <<subscribers, handlerVars, actorVars, taken, wanted, audience>>

Request(q) ==
    \/ q.kind # "publish" /\ published' = published /\ SendRequest(q)
    \/ q = Publish(published + 1) /\ published' = published + 1 /\ SendRequest(q)

-----------------------------------------------------------------------------
(* The broker's handlers *)

TakeNext(q) == current = 0 /\ inbox # <<>> /\ q = Head(inbox) /\ inbox' = Tail(inbox)

TakeSubscribe(a) ==
    /\ TakeNext(Subscribe(a))
    /\ subscribers' = subscribers \cup {a}
    /\ wanted' = wanted \cup {a}
    /\ UNCHANGED <<handlerVars, actorVars, published, taken, audience>>

TakeUnsubscribe(a) ==
    /\ TakeNext(Unsubscribe(a))
    /\ subscribers' = subscribers \ {a}
    /\ wanted' = wanted \ {a}
    /\ UNCHANGED <<handlerVars, actorVars, published, taken, audience>>

TakePublish(p) ==
    /\ TakeNext(Publish(p))
    /\ current' = p
    /\ unasked' = subscribers
    /\ taken' = p
    /\ audience' = [audience EXCEPT ![p] = wanted]
    /\ UNCHANGED <<subscribers, held, todo, sending, actorVars, published, wanted>>

Strong(a) == a \in referenced \cup held

\* WeakSender::upgrade, of one subscriber after the other.
Upgrade(a) ==
    /\ a \in unasked
    /\ unasked' = unasked \ {a}
    /\ IF Strong(a)
       THEN held' = held \cup {a} /\ todo' = todo \cup {a}
       ELSE UNCHANGED <<held, todo>>
    /\ UNCHANGED <<inbox, subscribers, current, sending, actorVars, historyVars>>

Backlog(a) == Len(mail[a]) - read[a]

\* Broken variant: a subscriber is served again when its send has returned.
SendToAgain(a) ==
    /\ unasked = {} /\ sending = None
    /\ a \in todo
    /\ IF a \in alive
       THEN sending' = a /\ mail' = [mail EXCEPT ![a] = Append(@, current)] /\ todo' = todo
       ELSE todo' = todo \ {a} /\ UNCHANGED <<sending, mail>>
    /\ UNCHANGED <<inbox, subscribers, current, unasked, held, alive, referenced,
                   read, historyVars>>

\* The subscribers come in the map's arbitrary order.  The error of a send to
\* an actor that has ended is ignored.
SendTo(a) ==
    /\ unasked = {} /\ sending = None
    /\ a \in todo
    /\ todo' = todo \ {a}
    /\ IF a \in alive
       THEN sending' = a /\ mail' = [mail EXCEPT ![a] = Append(@, current)]
       ELSE UNCHANGED <<sending, mail>>
    /\ UNCHANGED <<inbox, subscribers, current, unasked, held, alive, referenced,
                   read, historyVars>>

\* Broken variant: the wait is not interrupted when the mailbox is dropped.
SendReturnsIfRead ==
    /\ sending # None
    /\ sending \in alive /\ Backlog(sending) <= Room
    /\ sending' = None
    /\ UNCHANGED <<inbox, subscribers, current, unasked, held, todo, actorVars,
                   historyVars>>

SendReturns ==
    /\ sending # None
    /\ sending \in alive => Backlog(sending) <= Room
    /\ sending' = None
    /\ UNCHANGED <<inbox, subscribers, current, unasked, held, todo, actorVars,
                   historyVars>>

Published == current # 0 /\ unasked = {} /\ todo = {} /\ sending = None

\* Broken variants: only subscribers with room are retained; the senders are
\* kept for the next publication.
FinishDroppingSlow ==
    /\ Published
    /\ subscribers' = {a \in subscribers : Strong(a) /\ Backlog(a) < Room}
    /\ current' = 0 /\ held' = {}
    /\ UNCHANGED <<inbox, unasked, todo, sending, actorVars, historyVars>>

FinishKeepingSenders ==
    /\ Published
    /\ subscribers' = {a \in subscribers : Strong(a)}
    /\ current' = 0
    /\ UNCHANGED <<inbox, unasked, held, todo, sending, actorVars, historyVars>>

\* retain() runs while the upgraded senders are still held: a subscriber that
\* lost its references since the upgrade leaves the map with the next round.
FinishPublish ==
    /\ Published
    /\ subscribers' = {a \in subscribers : Strong(a)}
    /\ current' = 0
    /\ held' = {}
    /\ UNCHANGED <<inbox, unasked, todo, sending, actorVars, historyVars>>

BrokerStep ==
    \/ \E a \in Actors : TakeSubscribe(a) \/ TakeUnsubscribe(a) \/ Upgrade(a) \/ SendTo(a)
    \/ \E p \in Publications : TakePublish(p)
    \/ SendReturns
    \/ FinishPublish

-----------------------------------------------------------------------------
(* The subscribers *)

\* The handler runs until the actor's next step.
TakeMail(a) ==
    /\ a \in alive
    /\ Backlog(a) > 0
    /\ read' = [read EXCEPT ![a] = @ + 1]
    /\ UNCHANGED <<inbox, subscribers, handlerVars, alive, referenced, mail, historyVars>>

\* The stream of an actor that nobody refers to ends once it is read.
Starve(a) ==
    /\ a \in alive
    /\ ~ Strong(a) /\ Backlog(a) = 0
    /\ alive' = alive \ {a}
    /\ UNCHANGED <<inbox, subscribers, handlerVars, referenced, mail, read,
                   historyVars>>

\* A stop, a panic or a timeout, with whatever mail is left.
Quit(a) ==
    /\ a \in alive
    /\ alive' = alive \ {a}
    /\ UNCHANGED <<inbox, subscribers, handlerVars, referenced, mail, read, historyVars>>

Release(a) ==
    /\ a \in referenced
    /\ referenced' = referenced \ {a}
    /\ UNCHANGED <<inbox, subscribers, handlerVars, alive, mail, read, historyVars>>

SubscriberStep(a) == TakeMail(a) \/ Starve(a)

BrokerNext ==
    \/ \E q \in Requests : Request(q)
    \/ BrokerStep
    \/ \E a \in Actors : SubscriberStep(a) \/ Quit(a) \/ Release(a)

BrokerSpec == BrokerInit /\ [][BrokerNext]_vars

\* The executor runs every loop that can go on, and handlers terminate: one
\* that publishes does not wait for the broker, whose mailbox is unbounded.
BrokerFairness ==
    /\ WF_vars(BrokerStep)
    /\ \A a \in Actors : WF_vars(SubscriberStep(a))

FairBrokerSpec == BrokerSpec /\ BrokerFairness

-----------------------------------------------------------------------------
(* Correctness *)

BrokerTypeOK ==
    /\ inbox \in Seq(Requests)
    /\ subscribers \subseteq Actors
    /\ current \in 0 .. MaxPublished
    /\ unasked \subseteq subscribers /\ held \subseteq subscribers
    /\ todo \subseteq held
    /\ sending \in held \cup {None}
    /\ alive \subseteq Actors
    /\ referenced \subseteq Actors
    /\ mail \in [Actors -> Seq(Publications)]
    /\ read \in [Actors -> Nat]
    /\ \A a \in Actors : read[a] <= Len(mail[a])
    /\ published \in 0 .. MaxPublished /\ taken \in 0 .. published
    /\ wanted \subseteq Actors
    /\ audience \in [Publications -> SUBSET Actors]

Received(a, p) == \E i \in 1 .. Len(mail[a]) : mail[a][i] = p

\* The publication is on its way to a.
Pending(a, p) == p = current /\ a \in unasked \cup todo

\* Every actor sees the publications in the order in which they were sent, and
\* none twice, however slow some are (broker.rs:92-101).
SameOrderForAll ==
    \A a \in Actors : \A i, j \in 1 .. Len(mail[a]) :
        i < j => mail[a][i] < mail[a][j]

\* A publication reaches every actor that was subscribed when its handling
\* began, unless the actor has ended or has lost its last reference.
NobodyIsMissed ==
    \A p \in Publications : \A a \in audience[p] :
        a \in alive \cap referenced => Received(a, p) \/ Pending(a, p)

\* Who is not in the audience gets nothing, subscribed later or unsubscribed
\* before.
NobodyIsBothered ==
    \A a \in Actors : \A i \in 1 .. Len(mail[a]) : a \in audience[mail[a][i]]

\* A publication reaches exactly those who are entitled to it, however long
\* others kept it waiting and whoever dies meanwhile (broker.rs:91-110, 125-137).
AudienceServed == NobodyIsMissed /\ NobodyIsBothered

\* Slow and dying subscribers do not keep a publication from being completed.
PublicationsComplete ==
    \A p \in Publications : published >= p ~> (taken >= p /\ current # p)

\* A subscription does not keep an actor alive: whoever loses its references
\* ends, although each publication refers to it for a while.
SubscriptionsAreWeak == \A a \in Actors : a \notin referenced ~> a \notin alive

=============================================================================
