----------------------------- MODULE DhtProofs -----------------------------
(***************************************************************************)
(* No peer is ever discovered, for any peers, channels and listen          *)
(* addresses: the commands that would find one are never sent.             *)
(***************************************************************************)
EXTENDS Dht, TLAPS

Asked    == {"bootstrap"}
Answered == {"ready", "bootstrapped"}

\* All that passes between the two tasks.
BootstrapsOnly ==
  /\ queries["announce"] = 0 /\ queries["lookup"] = 0
  /\ loop \subseteq Asked /\ commands \in Seq(Asked)
  /\ dht \subseteq Answered /\ events \in Seq(Answered)
  /\ registry = {}

\* Inductive.
IInv == TypeOK /\ BootstrapsOnly

\* No record is ever asked for or published, and so none is ever found.
NobodyIsDiscovered ==
  /\ \A i \in DOMAIN commands : commands[i] \notin {"announce", "lookup"}
  /\ registry = {}

\* What the assumption says of the bounds.
LEMMA Bounds == ChannelCap \in Nat /\ ChannelCap > 0 /\ MaxAddresses \in Nat /\ MaxReports \in Nat
BY DhtAssumption

LEMMA InitIInv == Init => IInv
<1>1. Init => TypeOK
  <2>1. SUFFICES ASSUME Init PROVE TypeOK
        OBVIOUS
  <2>2. dht \in {{}} \cup {{e} : e \in Events} /\ loop \in {{}} \cup {{c} : c \in Commands}
        BY <2>1 DEF Init
  <2>3. queries \in [Commands -> Nat]
        BY <2>1 DEF Init
  <2>4. listening \in 0..MaxAddresses /\ registry \subseteq Peers
        BY <2>1, Bounds DEF Init
  <2>5. /\ commands \in Seq(Commands) /\ Len(commands) <= ChannelCap
        /\ events \in Seq(Events) /\ Len(events) <= ChannelCap
        BY <2>1, Bounds DEF Init
  <2>6. connected \in BOOLEAN
        BY <2>1 DEF Init
  <2>7. QED
        BY <2>2, <2>3, <2>4, <2>5, <2>6 DEF TypeOK
<1>2. Init => BootstrapsOnly
      BY DEF Init, BootstrapsOnly, Commands
<1>3. QED
      BY <1>1, <1>2 DEF IInv

LEMMA DhtStepIInv ==
  ASSUME IInv, DhtStep PROVE IInv'
<1> USE DEF IInv, TypeOK, BootstrapsOnly, Commands, Events, Asked, Answered
<1>1. CASE NewListenAddr
      BY <1>1, Bounds DEF NewListenAddr
<1>2. CASE HandleCmd
  <2>1. Head(commands) = "bootstrap"
        BY <1>2 DEF HandleCmd
  <2>2. PICK reports \in 1..MaxReports :
          queries' = [queries EXCEPT !["bootstrap"] = IF ~connected THEN @ ELSE @ + reports]
        BY <1>2, <2>1 DEF HandleCmd
  <2>3. queries["bootstrap"] \in Nat /\ reports \in Nat
        BY Bounds
  <2>4. /\ queries' \in [Commands -> Nat]
        /\ queries'["announce"] = 0 /\ queries'["lookup"] = 0
        BY <2>2, <2>3
  <2>5. commands' = Tail(commands) /\ commands # <<>>
        BY <1>2 DEF HandleCmd
  <2>6. commands' \in Seq(Asked) /\ commands' \in Seq(Commands) /\ Len(commands') <= ChannelCap
        BY <2>5, Bounds
  <2>7. QED
        BY <1>2, <2>4, <2>6 DEF HandleCmd
<1>3. ASSUME NEW command \in Commands, QueryProgressed(command) PROVE IInv'
  <2>1. command = "bootstrap"
        BY <1>3 DEF QueryProgressed
  <2>2. dht' \in {{}, {"bootstrapped"}}
        BY <1>3, <2>1 DEF QueryProgressed, EventsOf
  <2>3. /\ queries' \in [Commands -> Nat]
        /\ queries'["announce"] = 0 /\ queries'["lookup"] = 0
        BY <1>3, <2>1 DEF QueryProgressed
  <2>4. QED
        BY <1>3, <2>2, <2>3 DEF QueryProgressed
<1>4. CASE SendEvent
  <2>1. PICK e \in dht : events' = Append(events, e)
        BY <1>4 DEF SendEvent
  <2>2. /\ events' \in Seq(Answered) /\ events' \in Seq(Events)
        /\ Len(events') = Len(events) + 1
        BY <2>1
  <2>3. Len(events') <= ChannelCap
        BY <1>4, <2>2, Bounds DEF SendEvent
  <2>4. QED
        BY <1>4, <2>2, <2>3 DEF SendEvent
<1>5. QED
      BY <1>1, <1>2, <1>3, <1>4 DEF DhtStep

LEMMA LoopStepIInv ==
  ASSUME IInv, LoopStep PROVE IInv'
<1> USE DEF IInv, TypeOK, BootstrapsOnly, Commands, Events, Asked, Answered
<1>1. CASE OnEvent
  <2>1. /\ events # <<>> /\ events' = Tail(events)
        /\ Head(events) \in Answered
        BY <1>1 DEF OnEvent
  <2>2. registry' = {}
        BY <1>1, <2>1, DhtAssumption DEF OnEvent
  <2>3. loop' \in {{}, {"bootstrap"}}
        BY <1>1 DEF OnEvent
  <2>4. events' \in Seq(Answered) /\ events' \in Seq(Events) /\ Len(events') <= ChannelCap
        BY <2>1, Bounds
  <2>5. QED
        BY <1>1, <2>2, <2>3, <2>4 DEF OnEvent
<1>2. CASE SendCommand
  <2>1. PICK c \in loop : commands' = Append(commands, c)
        BY <1>2 DEF SendCommand
  <2>2. /\ commands' \in Seq(Asked) /\ commands' \in Seq(Commands)
        /\ Len(commands') = Len(commands) + 1
        BY <2>1
  <2>3. Len(commands') <= ChannelCap
        BY <1>2, <2>2, Bounds DEF SendCommand
  <2>4. QED
        BY <1>2, <2>2, <2>3 DEF SendCommand
<1>3. QED
      BY <1>1, <1>2 DEF LoopStep

LEMMA Invariant == Spec => []IInv
<1>1. IInv /\ [Next]_vars => IInv'
  <2>1. SUFFICES ASSUME IInv, [Next]_vars PROVE IInv'
        OBVIOUS
  <2>2. CASE PeerConnects
        BY <2>1, <2>2 DEF PeerConnects, IInv, TypeOK, BootstrapsOnly
  <2>3. CASE UNCHANGED vars
        BY <2>1, <2>3 DEF vars, IInv, TypeOK, BootstrapsOnly
  <2>4. QED
        BY <2>1, <2>2, <2>3, DhtStepIInv, LoopStepIInv DEF Next
<1>2. QED
      BY <1>1, InitIInv, PTL DEF Spec

\* The types of both tasks hold and neither channel overflows.
THEOREM TypeCorrect == Spec => []TypeOK
<1>1. IInv => TypeOK
      BY DEF IInv
<1>2. QED
      BY <1>1, Invariant, PTL

\* The event loop of main.rs never sends the command that would publish or find
\* a node, so the registry stays empty whoever connects and whatever the DHT
\* holds: what the run DhtDiscovers shows of one instance is so in all.
THEOREM DiscoversNobody == Spec => []NobodyIsDiscovered
<1>1. IInv => NobodyIsDiscovered
      BY DEF IInv, BootstrapsOnly, NobodyIsDiscovered, Asked
<1>2. QED
      BY <1>1, Invariant, PTL
=============================================================================
