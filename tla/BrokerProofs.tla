---------------------------- MODULE BrokerProofs ----------------------------
(***************************************************************************)
(* What the broker promises, for any number of subscribers, publications   *)
(* and any room in the mailboxes: everybody is served, in order, nobody is *)
(* flooded, and nobody is referred to for longer than it takes.            *)
(***************************************************************************)
EXTENDS Broker, SequenceTheorems, TLAPS

IsPublish(q) == q.kind = "publish"

\* The publications that wait were sent after those that were taken.
InboxInOrder ==
    /\ \A i \in 1 .. Len(inbox) :
         IsPublish(inbox[i]) => taken < inbox[i].what /\ inbox[i].what <= published
    /\ \A i, j \in 1 .. Len(inbox) :
         IsPublish(inbox[i]) /\ IsPublish(inbox[j]) /\ i < j =>
             inbox[i].what < inbox[j].what

\* What the handler of a publication knows is about that publication.
HandlerInv ==
    /\ current = 0 => unasked = {} /\ todo = {} /\ held = {} /\ sending = None
    /\ current # 0 => current = taken /\ audience[current] = wanted
    /\ current # 0 => subscribers \cap referenced \subseteq unasked \cup held
    /\ unasked \cap todo = {}

\* The map holds who asked for it last, and forgets only the unreferenced.
MapInv == subscribers \subseteq wanted /\ wanted \cap referenced \subseteq subscribers

MailInv ==
    /\ \A a \in Actors : \A i \in 1 .. Len(mail[a]) :
         /\ mail[a][i] \in 1 .. taken
         /\ a \in unasked \cup todo => mail[a][i] < taken
    /\ \A p \in Publications : p > taken => audience[p] = {}

BrokerInv ==
    /\ BrokerTypeOK /\ InboxInOrder /\ HandlerInv /\ MapInv /\ MailInv
    /\ SameOrderForAll /\ NobodyIsMissed /\ NobodyIsBothered

LEMMA BrokerInvInit == BrokerInit => BrokerInv
  BY BoundsAssumption
     DEF BrokerInit, BrokerInv, BrokerTypeOK, InboxInOrder, HandlerInv, MapInv, MailInv,
         SameOrderForAll, NobodyIsMissed, NobodyIsBothered, Publications

-----------------------------------------------------------------------------
(* The inbox *)

LEMMA RequestKinds ==
    /\ \A q \in Requests : \/ IsPublish(q) /\ q.what \in Publications
                           \/ ~ IsPublish(q) /\ q.what \in Actors
    /\ \A p : Publish(p).what = p /\ IsPublish(Publish(p))
    /\ \A a : ~ IsPublish(Subscribe(a)) /\ ~ IsPublish(Unsubscribe(a))
  BY DEF Requests, Publish, Subscribe, Unsubscribe, IsPublish

\* A request that is taken leaves an inbox in order.
LEMMA TakeKeepsOrder ==
    ASSUME BrokerInv, NEW q, TakeNext(q),
           taken' = IF IsPublish(q) THEN q.what ELSE taken, published' = published
    PROVE  /\ InboxInOrder' /\ inbox' \in Seq(Requests) /\ q \in Requests
           /\ IsPublish(q) => q.what \in taken + 1 .. published
  <1>1. /\ inbox \in Seq(Requests) /\ inbox # <<>> /\ q = Head(inbox)
        /\ inbox' = Tail(inbox)
    BY DEF TakeNext, BrokerInv, BrokerTypeOK
  <1>2. /\ Len(inbox) \in Nat \ {0} /\ Len(inbox') = Len(inbox) - 1 /\ q = inbox[1]
        /\ \A i \in 1 .. Len(inbox') : inbox'[i] = inbox[i + 1] /\ i + 1 \in 1 .. Len(inbox)
    BY <1>1
  <1>3. q \in Requests /\ inbox' \in Seq(Requests)
    BY <1>1
  <1>4. IsPublish(q) => q.what \in taken + 1 .. published
    BY <1>2, <1>3, RequestKinds
       DEF BrokerInv, BrokerTypeOK, InboxInOrder, Publications
  <1>5. ASSUME NEW i \in 1 .. Len(inbox'), IsPublish(inbox'[i])
        PROVE  taken' < inbox'[i].what /\ inbox'[i].what <= published'
    <2>1. i + 1 \in 1 .. Len(inbox) /\ 1 \in 1 .. Len(inbox) /\ 1 < i + 1
      BY <1>2
    <2> QED
      BY <1>2, <1>5, <2>1 DEF BrokerInv, InboxInOrder
  <1>6. ASSUME NEW i \in 1 .. Len(inbox'), NEW j \in 1 .. Len(inbox'), i < j,
               IsPublish(inbox'[i]), IsPublish(inbox'[j])
        PROVE  inbox'[i].what < inbox'[j].what
    <2>1. /\ i + 1 \in 1 .. Len(inbox) /\ j + 1 \in 1 .. Len(inbox) /\ i + 1 < j + 1
      BY <1>2, <1>6
    <2> QED
      BY <1>2, <1>6, <2>1 DEF BrokerInv, InboxInOrder
  <1> QED
    BY <1>3, <1>4, <1>5, <1>6 DEF InboxInOrder

LEMMA RequestStep ==
    ASSUME BrokerInv, NEW q \in Requests, Request(q)
    PROVE  BrokerInv'
  <1>1. /\ inbox' = Append(inbox, q)
        /\ UNCHANGED <<subscribers, handlerVars, actorVars, taken, wanted, audience>>
        /\ \/ ~ IsPublish(q) /\ published' = published
           \/ IsPublish(q) /\ q.what = published + 1 /\ published' = published + 1
              /\ published + 1 \in Publications
    BY RequestKinds DEF Request, SendRequest, IsPublish
  <1>2. /\ inbox \in Seq(Requests) /\ taken \in 0 .. published
        /\ published \in 0 .. MaxPublished /\ MaxPublished \in Nat
    BY BoundsAssumption DEF BrokerInv, BrokerTypeOK
  <1>3. /\ Len(inbox) \in Nat /\ Len(inbox') = Len(inbox) + 1 /\ inbox' \in Seq(Requests)
        /\ \A i \in 1 .. Len(inbox) : inbox'[i] = inbox[i]
        /\ inbox'[Len(inbox) + 1] = q
    BY <1>1, <1>2
  <1>4. published' \in 0 .. MaxPublished /\ taken' \in 0 .. published'
    BY <1>1, <1>2 DEF Publications
  <1>5. InboxInOrder'
    <2>1. ASSUME NEW i \in 1 .. Len(inbox'), IsPublish(inbox'[i])
          PROVE  taken' < inbox'[i].what /\ inbox'[i].what <= published'
      <3>1. CASE i \in 1 .. Len(inbox)
        <4>1. taken < inbox[i].what /\ inbox[i].what <= published /\ inbox[i].what \in Nat
          BY <1>3, <2>1, <3>1, RequestKinds, <1>2
             DEF BrokerInv, InboxInOrder, Publications
        <4> QED
          BY <1>1, <1>2, <1>3, <3>1, <4>1
      <3>2. CASE i = Len(inbox) + 1
        BY <1>1, <1>2, <1>3, <2>1, <3>2
      <3> QED
        BY <1>3, <3>1, <3>2
    <2>2. ASSUME NEW i \in 1 .. Len(inbox'), NEW j \in 1 .. Len(inbox'), i < j,
                 IsPublish(inbox'[i]), IsPublish(inbox'[j])
          PROVE  inbox'[i].what < inbox'[j].what
      <3>1. i \in 1 .. Len(inbox)
        BY <1>3, <2>2
      <3>2. CASE j \in 1 .. Len(inbox)
        BY <1>3, <2>2, <3>1, <3>2 DEF BrokerInv, InboxInOrder
      <3>3. CASE j = Len(inbox) + 1
        <4>1. inbox[i].what <= published /\ inbox[i].what \in Nat
          BY <1>2, <1>3, <2>2, <3>1, RequestKinds DEF BrokerInv, InboxInOrder, Publications
        <4> QED
          BY <1>1, <1>2, <1>3, <2>2, <3>1, <3>3, <4>1
      <3> QED
        BY <1>3, <3>2, <3>3
    <2> QED
      BY <2>1, <2>2 DEF InboxInOrder
  <1>6. BrokerTypeOK'
    BY <1>1, <1>3, <1>4 DEF BrokerInv, BrokerTypeOK, handlerVars, actorVars
  <1>7. HandlerInv' /\ MapInv' /\ MailInv'
    BY <1>1 DEF BrokerInv, HandlerInv, MapInv, MailInv, handlerVars, actorVars
  <1>8. SameOrderForAll' /\ NobodyIsMissed' /\ NobodyIsBothered'
    BY <1>1 DEF BrokerInv, SameOrderForAll, NobodyIsMissed, NobodyIsBothered, Received,
                Pending, handlerVars, actorVars
  <1> QED
    BY <1>5, <1>6, <1>7, <1>8 DEF BrokerInv

-----------------------------------------------------------------------------
(* The handlers *)

LEMMA TakeSubscriptionStep ==
    ASSUME BrokerInv, NEW a \in Actors, TakeSubscribe(a) \/ TakeUnsubscribe(a)
    PROVE  BrokerInv'
  <1>1. InboxInOrder' /\ inbox' \in Seq(Requests)
    <2>1. /\ taken' = taken /\ published' = published
          /\ TakeNext(Subscribe(a)) \/ TakeNext(Unsubscribe(a))
      BY DEF TakeSubscribe, TakeUnsubscribe
    <2> QED
      BY <2>1, TakeKeepsOrder, RequestKinds
  <1>2. current = 0 /\ unasked = {} /\ todo = {} /\ held = {} /\ sending = None
    BY DEF TakeSubscribe, TakeUnsubscribe, TakeNext, BrokerInv, HandlerInv
  <1>3. /\ UNCHANGED <<handlerVars, actorVars, published, taken, audience>>
        /\ \/ subscribers' = subscribers \cup {a} /\ wanted' = wanted \cup {a}
           \/ subscribers' = subscribers \ {a} /\ wanted' = wanted \ {a}
    BY DEF TakeSubscribe, TakeUnsubscribe
  <1>4. BrokerTypeOK'
    BY <1>1, <1>2, <1>3 DEF BrokerInv, BrokerTypeOK, handlerVars, actorVars
  <1>5. HandlerInv' /\ MapInv' /\ MailInv'
    BY <1>2, <1>3 DEF BrokerInv, HandlerInv, MapInv, MailInv, handlerVars, actorVars
  <1>6. SameOrderForAll' /\ NobodyIsMissed' /\ NobodyIsBothered'
    BY <1>2, <1>3 DEF BrokerInv, SameOrderForAll, NobodyIsMissed, NobodyIsBothered,
                      Received, Pending, handlerVars, actorVars
  <1> QED
    BY <1>1, <1>4, <1>5, <1>6 DEF BrokerInv

LEMMA TakePublishStep ==
    ASSUME BrokerInv, NEW p \in Publications, TakePublish(p)
    PROVE  BrokerInv'
  <1>1. /\ InboxInOrder' /\ inbox' \in Seq(Requests) /\ p \in taken + 1 .. published
    <2>1. taken' = p /\ published' = published /\ TakeNext(Publish(p))
      BY DEF TakePublish
    <2> QED
      BY <2>1, TakeKeepsOrder, RequestKinds
  <1>2. current = 0 /\ unasked = {} /\ todo = {} /\ held = {} /\ sending = None
    BY DEF TakePublish, TakeNext, BrokerInv, HandlerInv
  <1>3. /\ current' = p /\ taken' = p /\ unasked' = subscribers
        /\ audience' = [audience EXCEPT ![p] = wanted]
        /\ UNCHANGED <<subscribers, held, todo, sending, actorVars, published, wanted>>
    BY DEF TakePublish
  <1>4. /\ taken \in Nat /\ p \in Nat /\ taken < p
        /\ MaxPublished \in Nat /\ published \in 0 .. MaxPublished
        /\ audience \in [Publications -> SUBSET Actors]
        /\ mail \in [Actors -> Seq(Publications)] /\ wanted \subseteq Actors
    BY <1>1, BoundsAssumption DEF BrokerInv, BrokerTypeOK, Publications
  <1>5. BrokerTypeOK'
    BY <1>1, <1>2, <1>3, <1>4 DEF BrokerInv, BrokerTypeOK, actorVars
  <1>6. HandlerInv' /\ MapInv'
    BY <1>2, <1>3, <1>4 DEF BrokerInv, HandlerInv, MapInv, actorVars
  <1>7. MailInv'
    BY <1>2, <1>3, <1>4 DEF BrokerInv, MailInv, actorVars, Publications
  <1>8. SameOrderForAll'
    BY <1>3 DEF BrokerInv, SameOrderForAll, actorVars
  <1>9. NobodyIsMissed'
    <2> SUFFICES ASSUME NEW x \in Publications, NEW a \in audience'[x],
                        a \in alive \cap referenced
                 PROVE  Received(a, x)' \/ Pending(a, x)'
      BY <1>3 DEF NobodyIsMissed, actorVars
    <2>1. CASE x = p
      <3>1. a \in wanted
        BY <1>3, <1>4, <2>1
      <3>2. a \in unasked'
        BY <1>3, <3>1 DEF BrokerInv, MapInv
      <3> QED
        BY <1>3, <2>1, <3>2 DEF Pending
    <2>2. CASE x # p
      <3>1. a \in audience[x]
        BY <1>3, <1>4, <2>2
      <3>2. ~ Pending(a, x)
        BY <1>2 DEF Pending
      <3>3. Received(a, x)
        BY <3>1, <3>2 DEF BrokerInv, NobodyIsMissed
      <3> QED
        BY <1>3, <3>3 DEF Received, actorVars
    <2> QED
      BY <2>1, <2>2
  <1>10. NobodyIsBothered'
    <2> SUFFICES ASSUME NEW a \in Actors, NEW i \in 1 .. Len(mail[a])
                 PROVE  a \in audience'[mail[a][i]]
      BY <1>3 DEF NobodyIsBothered, actorVars
    <2>1. mail[a][i] \in Publications /\ mail[a][i] # p
      BY <1>4 DEF BrokerInv, MailInv
    <2> QED
      BY <1>3, <1>4, <2>1 DEF BrokerInv, NobodyIsBothered
  <1> QED
    BY <1>1, <1>5, <1>6, <1>7, <1>8, <1>9, <1>10 DEF BrokerInv

LEMMA UpgradeStep ==
    ASSUME BrokerInv, NEW a \in Actors, Upgrade(a)
    PROVE  BrokerInv'
  <1>1. /\ a \in unasked /\ unasked' = unasked \ {a}
        /\ \/ Strong(a) /\ held' = held \cup {a} /\ todo' = todo \cup {a}
           \/ ~ Strong(a) /\ UNCHANGED <<held, todo>>
        /\ UNCHANGED <<inbox, subscribers, current, sending, actorVars, historyVars>>
    BY DEF Upgrade
  <1>2. BrokerTypeOK' /\ InboxInOrder' /\ MapInv'
    BY <1>1 DEF BrokerInv, BrokerTypeOK, InboxInOrder, MapInv, actorVars, historyVars
  <1>3. HandlerInv'
    BY <1>1 DEF BrokerInv, HandlerInv, Strong, actorVars, historyVars
  <1>4. MailInv' /\ SameOrderForAll' /\ NobodyIsBothered'
    BY <1>1 DEF BrokerInv, MailInv, SameOrderForAll, NobodyIsBothered, actorVars, historyVars
  <1>5. NobodyIsMissed'
    BY <1>1 DEF BrokerInv, NobodyIsMissed, Received, Pending, Strong, actorVars, historyVars
  <1> QED
    BY <1>2, <1>3, <1>4, <1>5 DEF BrokerInv

LEMMA SendToStep ==
    ASSUME BrokerInv, NEW a \in Actors, SendTo(a)
    PROVE  BrokerInv'
  <1>1. /\ unasked = {} /\ sending = None /\ a \in todo /\ todo' = todo \ {a}
        /\ UNCHANGED <<inbox, subscribers, current, unasked, held, alive, referenced,
                       read, historyVars>>
    BY DEF SendTo
  <1>2. /\ current = taken /\ current \in Publications /\ audience[current] = wanted
        /\ a \in wanted /\ a \in held
    BY <1>1 DEF BrokerInv, BrokerTypeOK, HandlerInv, MapInv, Publications
  <1>3. CASE a \notin alive
    <2>1. UNCHANGED <<sending, mail>>
      BY <1>3 DEF SendTo
    <2> QED
      BY <1>1, <1>3, <2>1
         DEF BrokerInv, BrokerTypeOK, InboxInOrder, HandlerInv, MapInv, MailInv,
             SameOrderForAll, NobodyIsMissed, NobodyIsBothered, Received, Pending,
             historyVars
  <1>4. CASE a \in alive
    <2>1. sending' = a /\ mail' = [mail EXCEPT ![a] = Append(@, current)]
      BY <1>4 DEF SendTo
    <2>2. /\ mail \in [Actors -> Seq(Publications)]
          /\ mail' \in [Actors -> Seq(Publications)]
          /\ \A b \in Actors : b # a => mail'[b] = mail[b]
          /\ Len(mail[a]) \in Nat /\ Len(mail'[a]) = Len(mail[a]) + 1
          /\ \A i \in 1 .. Len(mail[a]) : mail'[a][i] = mail[a][i]
          /\ mail'[a][Len(mail[a]) + 1] = current
      BY <1>2, <2>1 DEF BrokerInv, BrokerTypeOK
    <2>3. \A i \in 1 .. Len(mail'[a]) : i \in 1 .. Len(mail[a]) \/ i = Len(mail[a]) + 1
      BY <2>2
    <2>4. \A i \in 1 .. Len(mail[a]) : mail[a][i] \in Publications /\ mail[a][i] < current
      BY <1>1, <1>2, <2>2 DEF BrokerInv, MailInv
    <2>5. BrokerTypeOK'
      <3>1. ASSUME NEW b \in Actors
            PROVE  read[b] \in Nat /\ read[b] <= Len(mail'[b])
        <4>1. read[b] \in Nat /\ read[b] <= Len(mail[b])
          BY DEF BrokerInv, BrokerTypeOK
        <4> QED
          BY <2>2, <4>1
      <3> QED
        BY <1>1, <1>2, <2>1, <2>2, <3>1 DEF BrokerInv, BrokerTypeOK, historyVars
    <2>6. InboxInOrder' /\ HandlerInv' /\ MapInv'
      BY <1>1, <1>2, <2>1 DEF BrokerInv, BrokerTypeOK, InboxInOrder, HandlerInv, MapInv,
                              Publications, historyVars
    <2>7. MailInv'
      <3>1. ASSUME NEW b \in Actors, NEW i \in 1 .. Len(mail'[b])
            PROVE  /\ mail'[b][i] \in 1 .. taken
                   /\ b \in unasked' \cup todo' => mail'[b][i] < taken
        <4>1. CASE b = a
          BY <1>1, <1>2, <2>2, <2>3, <2>4, <4>1 DEF Publications
        <4>2. CASE b # a
          BY <1>1, <2>2, <4>2 DEF BrokerInv, MailInv
        <4> QED
          BY <4>1, <4>2
      <3> QED
        BY <1>1, <3>1 DEF BrokerInv, MailInv, historyVars
    <2>8. SameOrderForAll'
      <3> SUFFICES ASSUME NEW b \in Actors, NEW i \in 1 .. Len(mail'[b]),
                          NEW j \in 1 .. Len(mail'[b]), i < j
                   PROVE  mail'[b][i] < mail'[b][j]
        BY DEF SameOrderForAll
      <3>1. CASE b = a
        <4>1. i \in 1 .. Len(mail[a])
          BY <2>2, <3>1
        <4>2. CASE j \in 1 .. Len(mail[a])
          BY <2>2, <3>1, <4>1, <4>2 DEF BrokerInv, SameOrderForAll
        <4>3. CASE j = Len(mail[a]) + 1
          BY <2>2, <2>4, <3>1, <4>1, <4>3
        <4> QED
          BY <2>3, <3>1, <4>2, <4>3
      <3>2. CASE b # a
        BY <2>2, <3>2 DEF BrokerInv, SameOrderForAll
      <3> QED
        BY <3>1, <3>2
    <2>9. NobodyIsMissed'
      <3> SUFFICES ASSUME NEW p \in Publications, NEW b \in audience[p],
                          b \in alive \cap referenced
                   PROVE  Received(b, p)' \/ Pending(b, p)'
        BY <1>1 DEF NobodyIsMissed, historyVars
      <3>1. ASSUME Received(b, p)
            PROVE  Received(b, p)'
        <4>1. PICK i \in 1 .. Len(mail[b]) : mail[b][i] = p
          BY <3>1 DEF Received
        <4>2. i \in 1 .. Len(mail'[b]) /\ mail'[b][i] = p
          <5>1. CASE b = a
            BY <2>2, <4>1, <5>1
          <5>2. CASE b # a
            BY <1>2, <2>1, <4>1, <5>2 DEF BrokerInv, BrokerTypeOK
          <5> QED
            BY <5>1, <5>2
        <4> QED
          BY <4>2 DEF Received
      <3>2. CASE b = a /\ p = current
        BY <2>2, <3>2 DEF Received
      <3>3. CASE ~ (b = a /\ p = current)
        BY <1>1, <3>1, <3>3 DEF BrokerInv, NobodyIsMissed, Pending
      <3> QED
        BY <3>2, <3>3
    <2>10. NobodyIsBothered'
      BY <1>1, <1>2, <2>2, <2>3 DEF BrokerInv, NobodyIsBothered, historyVars
    <2> QED
      BY <2>5, <2>6, <2>7, <2>8, <2>9, <2>10 DEF BrokerInv
  <1> QED
    BY <1>3, <1>4

LEMMA CompletionStep ==
    ASSUME BrokerInv, SendReturns \/ FinishPublish
    PROVE  BrokerInv'
  <1>1. CASE SendReturns
    BY <1>1 DEF SendReturns, BrokerInv, BrokerTypeOK, InboxInOrder, HandlerInv, MapInv,
                MailInv, SameOrderForAll, NobodyIsMissed, NobodyIsBothered, Received,
                Pending, actorVars, historyVars
  <1>2. CASE FinishPublish
    <2>1. /\ current # 0 /\ unasked = {} /\ todo = {} /\ sending = None
          /\ subscribers' = {a \in subscribers : Strong(a)} /\ current' = 0 /\ held' = {}
          /\ UNCHANGED <<inbox, unasked, todo, sending, actorVars, historyVars>>
      BY <1>2 DEF FinishPublish, Published
    <2>2. BrokerTypeOK' /\ InboxInOrder' /\ HandlerInv'
      BY <2>1, BoundsAssumption
         DEF BrokerInv, BrokerTypeOK, InboxInOrder, HandlerInv, actorVars, historyVars
    <2>3. MapInv' /\ MailInv'
      BY <2>1 DEF BrokerInv, MapInv, MailInv, Strong, actorVars, historyVars
    <2>4. SameOrderForAll' /\ NobodyIsMissed' /\ NobodyIsBothered'
      BY <2>1 DEF BrokerInv, SameOrderForAll, NobodyIsMissed, NobodyIsBothered, Received,
                  Pending, actorVars, historyVars
    <2> QED
      BY <2>2, <2>3, <2>4 DEF BrokerInv
  <1> QED
    BY <1>1, <1>2

LEMMA SubscriberLives ==
    ASSUME BrokerInv, NEW a \in Actors, SubscriberStep(a) \/ Quit(a) \/ Release(a)
    PROVE  BrokerInv'
  <1>1. /\ UNCHANGED <<inbox, subscribers, handlerVars, mail, historyVars>>
        /\ alive' \subseteq alive /\ referenced' \subseteq referenced
    BY DEF SubscriberStep, TakeMail, Starve, Quit, Release
  <1>2. read' \in [Actors -> Nat] /\ \A b \in Actors : read'[b] <= Len(mail[b])
    <2>1. CASE TakeMail(a)
      <3>1. /\ read[a] \in Nat /\ Len(mail[a]) \in Nat /\ Len(mail[a]) - read[a] > 0
            /\ read' = [read EXCEPT ![a] = read[a] + 1]
        BY <2>1 DEF TakeMail, Backlog, BrokerInv, BrokerTypeOK
      <3> QED
        BY <3>1 DEF BrokerInv, BrokerTypeOK
    <2>2. CASE ~ TakeMail(a)
      BY <2>2 DEF SubscriberStep, Starve, Quit, Release, BrokerInv, BrokerTypeOK
    <2> QED
      BY <2>1, <2>2
  <1>3. BrokerTypeOK'
    BY <1>1, <1>2 DEF BrokerInv, BrokerTypeOK, handlerVars, historyVars
  <1>4. InboxInOrder' /\ HandlerInv' /\ MapInv' /\ MailInv'
    BY <1>1 DEF BrokerInv, InboxInOrder, HandlerInv, MapInv, MailInv, handlerVars, historyVars
  <1>5. SameOrderForAll' /\ NobodyIsMissed' /\ NobodyIsBothered'
    BY <1>1 DEF BrokerInv, SameOrderForAll, NobodyIsMissed, NobodyIsBothered, Received,
                Pending, handlerVars, historyVars
  <1> QED
    BY <1>3, <1>4, <1>5 DEF BrokerInv

LEMMA BrokerInvStep == BrokerInv /\ [BrokerNext]_vars => BrokerInv'
  <1> SUFFICES ASSUME BrokerInv, [BrokerNext]_vars PROVE BrokerInv'
    OBVIOUS
  <1>1. CASE UNCHANGED vars
    BY <1>1 DEF vars, BrokerInv, BrokerTypeOK, InboxInOrder, HandlerInv, MapInv, MailInv,
                SameOrderForAll, NobodyIsMissed, NobodyIsBothered, Received, Pending,
                handlerVars, actorVars, historyVars
  <1>2. CASE BrokerStep
    BY <1>2, TakeSubscriptionStep, TakePublishStep, UpgradeStep, SendToStep, CompletionStep
       DEF BrokerStep
  <1> QED
    BY <1>1, <1>2, RequestStep, SubscriberLives DEF BrokerNext

LEMMA BrokerInvariant == BrokerSpec => []BrokerInv
  BY BrokerInvInit, BrokerInvStep, PTL DEF BrokerSpec

\* The broker's state stays well-formed: while it handles a publication it holds
\* and serves none but subscribers (broker.rs:90-137).
THEOREM BrokerTypeCorrect == BrokerSpec => []BrokerTypeOK
  BY BrokerInvariant, PTL DEF BrokerInv

\* Publications reach every actor in the order in which they were sent, none
\* twice, whatever the room in the mailboxes (broker.rs:92-101).
THEOREM BrokerKeepsOrder == BrokerSpec => []SameOrderForAll
  BY BrokerInvariant, PTL DEF BrokerInv

\* Whoever was subscribed when a publication was taken gets it, unless it ends
\* or loses its last reference; nobody else does (broker.rs:90-137).
THEOREM BrokerServesAll == BrokerSpec => []AudienceServed
  BY BrokerInvariant, PTL DEF BrokerInv, AudienceServed

-----------------------------------------------------------------------------
(* What a publication costs the subscribers *)

\* The mail that waits for an actor that runs: the broker is at most one
\* message ahead of the room in its mailbox, and then waits for it.
WithinRoom ==
    \A a \in alive : Backlog(a) <= Room + (IF sending = a THEN 1 ELSE 0)

\* A strong sender is made of a strong sender: an actor that nothing refers to
\* is never referred to again.
NeverReferredAgain == [][\A a \in Actors : ~ Strong(a) => ~ Strong(a)']_vars

LEMMA WithinRoomStep ==
    ASSUME BrokerInv, WithinRoom, [BrokerNext]_vars
    PROVE  WithinRoom'
  <1> USE BoundsAssumption DEF WithinRoom, Backlog
  <1>0. /\ alive \subseteq Actors
        /\ \A a \in Actors : /\ mail[a] \in Seq(Publications) /\ Len(mail[a]) \in Nat
                             /\ read[a] \in Nat
        /\ DOMAIN mail = Actors /\ DOMAIN read = Actors /\ None \notin Actors
        /\ current \in 0 .. MaxPublished
    BY NoneAssumption DEF BrokerInv, BrokerTypeOK
  <1>1. ASSUME NEW a \in Actors, SendTo(a)
        PROVE  WithinRoom'
    <2>1. sending = None /\ UNCHANGED <<alive, read>>
      BY <1>1 DEF SendTo
    <2>2. CASE a \notin alive
      BY <1>1, <2>1, <2>2 DEF SendTo
    <2>3. CASE a \in alive
      <3>1. sending' = a /\ mail' = [mail EXCEPT ![a] = Append(mail[a], current)]
        BY <1>1, <2>3 DEF SendTo
      <3>2. \A b \in Actors : Len(mail'[b]) = IF b = a THEN Len(mail[b]) + 1 ELSE Len(mail[b])
        BY <1>0, <3>1
      <3> QED
        BY <1>0, <2>1, <3>1, <3>2
    <2> QED
      BY <2>2, <2>3
  <1>2. CASE SendReturns
    BY <1>0, <1>2 DEF SendReturns, actorVars
  <1>3. ASSUME NEW a \in Actors, TakeMail(a)
        PROVE  WithinRoom'
    <2>1. \A b \in Actors : read'[b] >= read[b] /\ read'[b] \in Nat
      BY <1>0, <1>3 DEF TakeMail
    <2> QED
      BY <1>0, <1>3, <2>1 DEF TakeMail, handlerVars
  <1>4. CASE /\ alive' \subseteq alive
             /\ UNCHANGED <<mail, read, sending>>
    BY <1>4
  <1>5. CASE UNCHANGED vars \/ (\E q \in Requests : Request(q)) \/ FinishPublish
    BY <1>4, <1>5 DEF vars, actorVars, handlerVars, Request, SendRequest, FinishPublish
  <1>6. ASSUME NEW a \in Actors,
               \/ TakeSubscribe(a) \/ TakeUnsubscribe(a) \/ Upgrade(a)
               \/ Starve(a) \/ Quit(a) \/ Release(a)
        PROVE  WithinRoom'
    BY <1>4, <1>6 DEF TakeSubscribe, TakeUnsubscribe, Upgrade, Starve, Quit, Release,
                      actorVars, handlerVars
  <1>7. ASSUME NEW p \in Publications, TakePublish(p)
        PROVE  WithinRoom'
    BY <1>4, <1>7 DEF TakePublish, actorVars
  <1> QED
    BY <1>1, <1>2, <1>3, <1>5, <1>6, <1>7 DEF BrokerNext, BrokerStep, SubscriberStep

\* A publication never floods a subscriber: whatever is published and however
\* slow the actor, its mailbox exceeds the room by the one message that the
\* broker is waiting on (broker.rs:92-101 over channel.rs:77-86).
THEOREM SubscribersAreNotFlooded == BrokerSpec => []WithinRoom
  <1>1. BrokerInit => WithinRoom
    <2> SUFFICES ASSUME BrokerInit, NEW a \in alive
                 PROVE  Backlog(a) <= Room + (IF sending = a THEN 1 ELSE 0)
      BY DEF WithinRoom
    <2>1. mail[a] = <<>> /\ read[a] = 0
      BY DEF BrokerInit
    <2>2. Backlog(a) = 0
      BY <2>1 DEF Backlog
    <2> QED
      BY <2>2, BoundsAssumption
  <1>2. BrokerInv /\ WithinRoom /\ [BrokerNext]_vars => WithinRoom'
    BY WithinRoomStep
  <1> QED
    BY <1>1, <1>2, BrokerInvariant, PTL DEF BrokerSpec

\* A subscription refers to nobody between publications, and a publication
\* only to who was referred to anyway: so it can prolong an actor's life but
\* not renew it (broker.rs:84-110, 132-137).
THEOREM SubscriptionsOnlyBorrow ==
    BrokerSpec => [](current = 0 => held = {}) /\ NeverReferredAgain
  <1>1. BrokerInv => (current = 0 => held = {})
    BY DEF BrokerInv, HandlerInv
  <1>2. ASSUME BrokerInv, [BrokerNext]_vars
        PROVE  \A a \in Actors : ~ Strong(a) => ~ Strong(a)'
    <2> SUFFICES ASSUME NEW a \in Actors, ~ Strong(a)
                 PROVE  ~ Strong(a)'
      OBVIOUS
    <2>1. ASSUME NEW b \in Actors, Upgrade(b)
          PROVE  ~ Strong(a)'
      BY <1>2, <2>1 DEF Upgrade, Strong, actorVars
    <2>2. referenced' \subseteq referenced
      BY <1>2 DEF BrokerNext, BrokerStep, Request, SendRequest, TakeSubscribe, TakeUnsubscribe,
                  Upgrade, SendTo, TakePublish, SendReturns, FinishPublish, SubscriberStep,
                  TakeMail, Starve, Quit, Release, vars, actorVars
    <2>3. CASE held' \subseteq held
      BY <1>2, <2>2, <2>3 DEF Strong
    <2>4. (\E b \in Actors : Upgrade(b)) \/ held' \subseteq held
      BY <1>2 DEF BrokerNext, BrokerStep, Request, SendRequest, TakeSubscribe, TakeUnsubscribe,
                  SendTo, TakePublish, SendReturns, FinishPublish, SubscriberStep,
                  TakeMail, Starve, Quit, Release, vars, handlerVars
    <2> QED
      BY <2>1, <2>3, <2>4
  <1> QED
    BY <1>1, <1>2, BrokerInvariant, PTL DEF BrokerSpec, NeverReferredAgain

=============================================================================
