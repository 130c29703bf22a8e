-------------------------------- MODULE Dht --------------------------------
(***************************************************************************)
(* Peer discovery in Tor mode: the DHT task of src/src/dht.rs, which owns  *)
(* the libp2p swarm, and the event loop of src/src/main.rs, joined by two  *)
(* bounded channels, one for commands and one for events.  A task that     *)
(* waits for room in a channel does nothing else meanwhile.                *)
(***************************************************************************)
EXTENDS Integers, Sequences

CONSTANTS
  Peers,         \* other nodes, whose records the DHT may hold
  ChannelCap,    \* capacity of both channels (256 in the code)
  MaxAddresses,  \* bound: listen addresses the host gives
  MaxReports     \* bound: progress reports of one query

\* A peer is told apart from the other subjects of an event.
ASSUME DhtAssumption ==
  /\ ChannelCap \in Nat \ {0}
  /\ MaxAddresses \in Nat
  /\ MaxReports \in Nat \ {0}
  /\ Peers \cap {"ready", "bootstrapped", "announced", "unresolved"} = {}

VARIABLES
  listening,  \* listen addresses reported so far
  connected,  \* some peer has connected, so the routing table is not empty
  queries,    \* [Commands -> reports still to come of its running queries]
  dht,        \* the event the DHT task is sending, if any
  loop,       \* the command the event loop is sending, if any
  commands,   \* the command channel
  events,     \* the event channel
  registry    \* PeerRegistry

vars == <<listening, connected, queries, dht, loop, commands, events, registry>>

Commands == {"bootstrap", "announce", "lookup"}

Events == {"ready", "bootstrapped", "announced", "unresolved"} \cup Peers

TypeOK ==
  /\ listening \in 0..MaxAddresses
  /\ connected \in BOOLEAN
  /\ queries \in [Commands -> Nat]
  /\ dht \in {{}} \cup {{e} : e \in Events}
  /\ loop \in {{}} \cup {{c} : c \in Commands}
  /\ commands \in Seq(Commands) /\ Len(commands) <= ChannelCap
  /\ events \in Seq(Events) /\ Len(events) <= ChannelCap
  /\ registry \subseteq Peers

Init ==
  /\ listening = 0
  /\ connected = FALSE
  /\ queries = [c \in Commands |-> 0]
  /\ dht = {}
  /\ loop = {}
  /\ commands = <<>>
  /\ events = <<>>
  /\ registry = {}

-----------------------------------------------------------------------------
(* The DHT task: run selects a swarm event or a command.                    *)

\* NewListenAddr.
NewListenAddr ==
  /\ dht = {}
  /\ listening < MaxAddresses
  /\ listening' = listening + 1
  /\ dht' = {"ready"}
  /\ UNCHANGED <<connected, queries, loop, commands, events, registry>>

\* External: a peer connects.  The task only logs it.
PeerConnects ==
  /\ ~connected
  /\ connected' = TRUE
  /\ UNCHANGED <<listening, queries, dht, loop, commands, events, registry>>

\* handle_cmd starts a query; bootstrap fails when no peer is known.
HandleCmd ==
  /\ dht = {}
  /\ commands # <<>>
  /\ commands' = Tail(commands)
  /\ \E reports \in 1..MaxReports :
        queries' = [queries EXCEPT ![Head(commands)] =
          IF Head(commands) = "bootstrap" /\ ~connected THEN @ ELSE @ + reports]
  /\ UNCHANGED <<listening, connected, dht, loop, events, registry>>

\* The events handle_kad sends for a report; an error is only logged.
EventsOf(command) ==
  CASE command = "bootstrap" -> {{}, {"bootstrapped"}}
    [] command = "announce"  -> {{}, {"announced"}}
    [] command = "lookup"    -> {{}, {"unresolved"}} \cup {{p} : p \in Peers}

\* OutboundQueryProgressed.
QueryProgressed(command) ==
  /\ dht = {}
  /\ queries[command] > 0
  /\ queries' = [queries EXCEPT ![command] = @ - 1]
  /\ dht' \in EventsOf(command)
  /\ UNCHANGED <<listening, connected, loop, commands, events, registry>>

SendEvent ==
  /\ dht # {}
  /\ Len(events) < ChannelCap
  /\ \E e \in dht : events' = Append(events, e)
  /\ dht' = {}
  /\ UNCHANGED <<listening, connected, queries, loop, commands, registry>>

-----------------------------------------------------------------------------
(* The event loop of main.rs.                                               *)

\* Faulty: a finished bootstrap step asks for the next one.
OnEventBootstraps ==
  /\ loop = {}
  /\ events # <<>>
  /\ events' = Tail(events)
  /\ loop' = IF Head(events) \in {"ready", "bootstrapped"} THEN {"bootstrap"} ELSE {}
  /\ registry' = registry \cup ({Head(events)} \cap Peers)
  /\ UNCHANGED <<listening, connected, queries, dht, commands>>

\* Faulty: the subject of every event is registered as a peer.
OnEventRegistersAll ==
  /\ loop = {}
  /\ events # <<>>
  /\ events' = Tail(events)
  /\ loop' = IF Head(events) = "ready" THEN {"bootstrap"} ELSE {}
  /\ registry' = registry \cup {Head(events)}
  /\ UNCHANGED <<listening, connected, queries, dht, commands>>

\* Ready asks for a bootstrap, a record found is stored, the rest is logged.
OnEvent ==
  /\ loop = {}
  /\ events # <<>>
  /\ events' = Tail(events)
  /\ loop' = IF Head(events) = "ready" THEN {"bootstrap"} ELSE {}
  /\ registry' = registry \cup ({Head(events)} \cap Peers)
  /\ UNCHANGED <<listening, connected, queries, dht, commands>>

SendCommand ==
  /\ loop # {}
  /\ Len(commands) < ChannelCap
  /\ \E c \in loop : commands' = Append(commands, c)
  /\ loop' = {}
  /\ UNCHANGED <<listening, connected, queries, dht, events, registry>>

DhtStep ==
  \/ NewListenAddr
  \/ HandleCmd
  \/ \E command \in Commands : QueryProgressed(command)
  \/ SendEvent

LoopStep == OnEvent \/ SendCommand

Next == DhtStep \/ LoopStep \/ PeerConnects

Spec == Init /\ [][Next]_vars

\* Both tasks run; whether a peer ever connects is not up to the node.
FairSpec == Spec /\ WF_vars(DhtStep) /\ WF_vars(LoopStep)

-----------------------------------------------------------------------------
\* The two tasks never end up waiting on each other's channel: as long as the
\* host has no more listen addresses than a channel has room, an event or a
\* command that is being sent is sent (main.rs, dht.rs).
NobodyWaitsForEver ==
  MaxAddresses <= ChannelCap => (dht # {} ~> dht = {}) /\ (loop # {} ~> loop = {})

\* README.md says: "nodes discover each other via Kademlia DHT".  So once its
\* bootstrap has got anywhere, a node announces itself or looks others up; the
\* event loop asks for bootstraps only (main.rs).
NodesLookForEachOther ==
  (\E i \in DOMAIN events : events[i] = "bootstrapped")
    ~> \E i \in DOMAIN commands : commands[i] \in {"announce", "lookup"}
=============================================================================
