------------------------------ MODULE IpfsNode ------------------------------
(***************************************************************************)
(* client/storage/ipfs.ts: the one IPFS node that all calls share, and the *)
(* sockets to the pub/sub server, one per topic.                           *)
(***************************************************************************)
EXTENDS Naturals, Sequences, FiniteSets

CONSTANTS
    NodeCallers,      \* the calls of getIPFSNodeInstance: the start-up and the requests
    Topics,
    EmptyTopic,       \* the topic '' of connect('')
    MaxMessages,      \* bound: messages published
    MaxSubscriptions, \* bound: subscriptions per topic
    MaxDrops          \* bound: lost connections

ASSUME IpfsAssumption ==
    /\ EmptyTopic \notin Topics
    /\ MaxMessages \in Nat /\ MaxSubscriptions \in Nat /\ MaxDrops \in Nat

VARIABLES
    ipfsNode,         \* a client has been created: _node is set
    creatingNode,
    waitingForNode,   \* _callbacksWaitingForNodeCreation, never emptied
    nodeCalls,
    sockets,          \* the Map of sockets as the sequence of its topics
    connected,        \* the topics whose socket is connected
    topicCallbacks,   \* the number of callbacks of a topic
    buffered,         \* messages a socket keeps until it connects, with their topic
    published,        \* number of calls of pubsubPublish
    handedOver,       \* messages a connected socket has sent
    drops

ipfsVars == <<ipfsNode, creatingNode, waitingForNode, nodeCalls, sockets, connected,
              topicCallbacks, buffered, published, handedOver, drops>>
creationVars == <<ipfsNode, creatingNode, waitingForNode, nodeCalls>>
pubsubVars == <<sockets, connected, topicCallbacks, buffered, published, handedOver, drops>>

SocketTopics == {sockets[i] : i \in DOMAIN sockets}

IpfsInit ==
    /\ ipfsNode = FALSE /\ creatingNode = FALSE
    /\ waitingForNode = {}
    /\ nodeCalls = [c \in NodeCallers |-> "idle"]
    /\ sockets = <<>> /\ connected = {}
    /\ topicCallbacks = [t \in Topics |-> 0]
    /\ buffered = {} /\ published = 0 /\ handedOver = {} /\ drops = 0

-----------------------------------------------------------------------------
(* The node. *)

\* getIPFSNodeInstance up to its first await.  Creating the client of ipfs-http-client or
\* removing the lock of the repository may throw: before the await, so that nobody waits yet.
GetNode(c) ==
    /\ nodeCalls[c] = "idle"
    /\ CASE ipfsNode ->
              /\ nodeCalls' = [nodeCalls EXCEPT ![c] = "answered"]
              /\ UNCHANGED <<creatingNode, waitingForNode>>
         [] ~ipfsNode /\ creatingNode ->
              /\ nodeCalls' = [nodeCalls EXCEPT ![c] = "waiting"]
              /\ waitingForNode' = waitingForNode \cup {c}
              /\ UNCHANGED creatingNode
         [] OTHER ->
              /\ nodeCalls' = [nodeCalls EXCEPT ![c] = "creating"]
              /\ creatingNode' = TRUE
              /\ UNCHANGED waitingForNode
    /\ UNCHANGED <<ipfsNode, pubsubVars>>

\* Mutant: the flag stays set.
CreationThrowsOnly(c) ==
    /\ nodeCalls[c] = "idle" /\ ~ipfsNode /\ ~creatingNode
    /\ nodeCalls' = [nodeCalls EXCEPT ![c] = "threw"]
    /\ creatingNode' = TRUE
    /\ UNCHANGED <<ipfsNode, waitingForNode, pubsubVars>>

CreationThrows(c) ==
    /\ nodeCalls[c] = "idle" /\ ~ipfsNode /\ ~creatingNode
    /\ nodeCalls' = [nodeCalls EXCEPT ![c] = "threw"]
    /\ creatingNode' = FALSE
    /\ UNCHANGED <<ipfsNode, waitingForNode, pubsubVars>>

\* The await is over: those who wait are called back soon.
Created(c) ==
    /\ nodeCalls[c] = "creating"
    /\ ipfsNode' = TRUE
    /\ creatingNode' = FALSE
    /\ nodeCalls' = [d \in NodeCallers |->
           IF d = c THEN "answered" ELSE IF d \in waitingForNode THEN "soon" ELSE nodeCalls[d]]
    /\ UNCHANGED <<waitingForNode, pubsubVars>>

CallBack(c) ==
    /\ nodeCalls[c] = "soon"
    /\ nodeCalls' = [nodeCalls EXCEPT ![c] = "answered"]
    /\ UNCHANGED <<ipfsNode, creatingNode, waitingForNode, pubsubVars>>

-----------------------------------------------------------------------------
(* Pub/sub. *)

\* connect.
WithSocket(t) == IF t \in SocketTopics THEN sockets ELSE Append(sockets, t)

Subscribe(t) ==
    /\ topicCallbacks[t] < MaxSubscriptions
    /\ sockets' = WithSocket(t)
    /\ topicCallbacks' = [topicCallbacks EXCEPT ![t] = @ + 1]
    /\ UNCHANGED <<creationVars, connected, buffered, published, handedOver, drops>>

\* Mutant: the socket is made but not noted.
PublishUnnoted(t) ==
    /\ published < MaxMessages
    /\ published' = published + 1
    /\ IF sockets = <<>>
       THEN UNCHANGED <<sockets, buffered, handedOver>>
       ELSE /\ IF Head(sockets) \in connected
               THEN handedOver' = handedOver \cup {published'} /\ UNCHANGED buffered
               ELSE buffered' = buffered \cup {<<Head(sockets), published'>>} /\ UNCHANGED handedOver
            /\ UNCHANGED sockets
    /\ UNCHANGED <<creationVars, connected, topicCallbacks, drops>>

\* pubsubPublish: the first socket sends, whatever its topic.  Without any, connect('') notes
\* one but returns nothing, and the send throws: the message is gone, as nobody waits for the
\* promise.  A socket that is not connected keeps what it is to send.
Publish(t) ==
    /\ published < MaxMessages
    /\ published' = published + 1
    /\ IF sockets = <<>>
       THEN sockets' = WithSocket(EmptyTopic) /\ UNCHANGED <<buffered, handedOver>>
       ELSE /\ IF Head(sockets) \in connected
               THEN handedOver' = handedOver \cup {published'} /\ UNCHANGED buffered
               ELSE buffered' = buffered \cup {<<Head(sockets), published'>>} /\ UNCHANGED handedOver
            /\ UNCHANGED sockets
    /\ UNCHANGED <<creationVars, connected, topicCallbacks, drops>>

\* The socket connects, at first or 5 seconds after a disconnect, and sends what it kept.
Connect(t) ==
    /\ t \in SocketTopics \ connected
    /\ connected' = connected \cup {t}
    /\ handedOver' = handedOver \cup {m \in 1..MaxMessages : <<t, m>> \in buffered}
    /\ buffered' = {b \in buffered : b[1] # t}
    /\ UNCHANGED <<creationVars, sockets, topicCallbacks, published, drops>>

Disconnect(t) ==
    /\ t \in connected /\ drops < MaxDrops
    /\ connected' = connected \ {t}
    /\ drops' = drops + 1
    /\ UNCHANGED <<creationVars, sockets, topicCallbacks, buffered, published, handedOver>>

-----------------------------------------------------------------------------
IpfsNext ==
    \/ \E c \in NodeCallers : GetNode(c) \/ CreationThrows(c) \/ Created(c) \/ CallBack(c)
    \/ \E t \in Topics : Subscribe(t) \/ Publish(t)
    \/ \E t \in Topics \cup {EmptyTopic} : Connect(t) \/ Disconnect(t)

IpfsFairness ==
    /\ \A c \in NodeCallers : WF_ipfsVars(Created(c)) /\ WF_ipfsVars(CallBack(c))
    /\ \A t \in Topics \cup {EmptyTopic} : WF_ipfsVars(Connect(t))

IpfsSpec == IpfsInit /\ [][IpfsNext]_ipfsVars /\ IpfsFairness

-----------------------------------------------------------------------------
(* Properties. *)

\* Everybody who asks for the node while another call creates it is answered, whatever
\* attempts failed before.
NodeCallsSettle ==
    \A c \in NodeCallers :
        (nodeCalls[c] \in {"creating", "waiting", "soon"}) ~> (nodeCalls[c] = "answered")

\* Of the messages published at most the very first is lost, and only if there was no socket;
\* every other one is sent by a connected socket, however often connections break before that.
OnlyFirstPublishIsLost ==
    \A m \in 2..MaxMessages : (published >= m) ~> (m \in handedOver)
=============================================================================
