-------------------------------- MODULE Push --------------------------------
(***************************************************************************)
(* The consumers and topics of one push process (packages/router/push_d,   *)
(* and its copy pull_d), as a value:                                       *)
(*   s.consumers  PushMgr::m_mapConsumers: name |-> link id                *)
(*   s.topics     Store::m_mapTopics: topic |-> list of Consumer           *)
(* Routers register with their own name as name and topic, so that both    *)
(* are clients.  m_setTopics is the domain of topics.                      *)
(***************************************************************************)
EXTENDS LinkMaps, Naturals, Sequences, SequencesExt

NoTopics == [consumers |-> Empty, topics |-> Empty]

\* Store::createTopic, if the topic is new.
CreateTopic(s, topic) ==
    IF topic \in DOMAIN s.topics THEN s ELSE [s EXCEPT !.topics = With(@, {topic}, <<>>)]

\* Store::subscribe: a link is in a list once.
Subscribe(s, name, fd, topic) ==
    IF \E i \in DOMAIN s.topics[topic] : s.topics[topic][i].fd = fd THEN s
    ELSE [s EXCEPT !.topics = With(@, {topic}, Append(@[topic], [name |-> name, fd |-> fd]))]

\* PushMgr::registerConsumer.  The name on another link: refused, without an
\* answer, and the topic is there.
Refused(s, fd, name) == name \in DOMAIN s.consumers /\ s.consumers[name] # fd

Register(s, fd, name, topic) ==
    LET t == CreateTopic(s, topic)
    IN  IF Refused(s, fd, name) THEN t
        ELSE Subscribe([t EXCEPT !.consumers = With(@, {name}, fd)], name, fd, topic)

\* Store::unsubscribe: the name goes from the first topic that lists it.
Unsubscribe(s, name) ==
    LET listing == {t \in DOMAIN s.topics : \E i \in DOMAIN s.topics[t] : s.topics[t][i].name = name}
        first == {t \in listing : \A u \in listing : t <= u}
        Its(e) == e.name = name
    IN  [s EXCEPT !.topics =
            [t \in DOMAIN @ |-> IF t \in first THEN RemoveFirstMatch(@[t], Its) ELSE @[t]]]

\* Mutant: the lists keep the consumer.
DeleteConsumer_Listed(s, fd) ==
    [s EXCEPT !.consumers = Without(@, {n \in DOMAIN @ : @[n] = fd})]

\* PushMgr::deleteConsumer: the first consumer of the link.
DeleteConsumer(s, fd) ==
    LET of == {n \in DOMAIN s.consumers : s.consumers[n] = fd}
        first == {n \in of : \A m \in of : n <= m}
    IN  IF of = {} THEN s
        ELSE [Unsubscribe(s, CHOOSE n \in first : TRUE) EXCEPT !.consumers = Without(@, first)]

\* Store::push: the links that a message for the topic is written to.
Receivers(s, topic) ==
    IF topic \in DOMAIN s.topics THEN [i \in DOMAIN s.topics[topic] |-> s.topics[topic][i].fd]
    ELSE <<>>
=============================================================================
