---------------------------- MODULE RouterProofs ----------------------------
(* Theorems about Router for any routers, LANs, hosts, packets and commands; all but the last
   two with any number of ways between the LANs. *)
EXTENDS Router, CommonLemmas

-----------------------------------------------------------------------------
(* Frames captured from LAN n: an update comes from the router it says it comes from,
   and a packet outside of its sender's LAN was let through. *)
IsUpdate(f, n) == \E s \in Routers :
    /\ <<s, n>> \in Attached /\ f.mac = <<s, n>>
    /\ f.packet.from = <<s, n>> /\ f.packet.to = Broadcast(n)
IsCopy(f, n) == /\ f.packet \in Packets /\ f.networks = {} /\ NetworkOf(f.mac) = n
                /\ sent[f.packet] # "no"
                /\ n = NetworkOf(f.packet.from) \/ f.packet \in passable
Good(f, n) == IsUpdate(f, n) \/ IsCopy(f, n)
OnlyGood(frames, n) == \E S : frames \in Seq(S) /\ \A f \in S : Good(f, n)
FramesGood == /\ DOMAIN pcap = Routers
              /\ \A r \in Routers : DOMAIN pcap[r] = LANs
              /\ \A r \in Routers, n \in LANs : OnlyGood(pcap[r][n], n)

LEMMA SeqOfSet ==
    ASSUME NEW X, IsFiniteSet(X)
    PROVE  SetToSeq(X) \in Seq(X)
<1>1. PICK f \in [1 .. Cardinality(X) -> X] : IsInjective(f)
  <2>1. ExistsBijection(1 .. Cardinality(X), X)
    BY FS_CardinalityType
  <2> QED
    BY <2>1 DEF ExistsBijection, Bijection, Injection, IsInjective
<1>2. SetToSeq(X) \in [1 .. Cardinality(X) -> X]
  BY <1>1 DEF SetToSeq
<1>3. Cardinality(X) \in Nat
  BY FS_CardinalityType
<1> QED
  BY <1>2, <1>3, SeqDef

(* An interface is on a LAN, and no host has its name. *)
LEMMA Interfaces ==
    ASSUME NEW r \in Routers, NEW n \in Range(Order[r])
    PROVE  n \in LANs /\ <<r, n>> \in Attached
<1>1. n \in LANs
  <2>1. Order[r] \in Seq(LANs)
    BY OrderAssumption
  <2>2. PICK i \in DOMAIN Order[r] : n = Order[r][i]
    BY DEF Range
  <2> QED
    BY <2>1, <2>2, LenProperties, ElementOfSeq
<1>2. <<r, n>> \in Attached
  BY DEF Attached
<1> QED
  BY <1>1, <1>2

LEMMA NetworkOfInterface ==
    ASSUME NEW r \in Routers, NEW n, <<r, n>> \in Attached
    PROVE  NetworkOf(<<r, n>>) = n
  BY HomeAssumption DEF NetworkOf

LEMMA NetworkOfBroadcast ==
    ASSUME NEW n \in LANs
    PROVE  NetworkOf(Broadcast(n)) = n
  BY BroadcastAssumption DEF NetworkOf, Broadcast

(* The first frame, and the others. *)
LEMMA FirstFrame ==
    ASSUME FramesGood, NEW r \in Routers, NEW n \in Range(Order[r]), next_frame(r, n)
    PROVE  Good(Head(pcap[r][n]), n)
<1>1. PICK S : pcap[r][n] \in Seq(S) /\ \A f \in S : Good(f, n)
  BY Interfaces DEF FramesGood, OnlyGood
<1>2. pcap[r][n] # << >>
  BY DEF next_frame
<1>3. Head(pcap[r][n]) \in S
  BY <1>1, <1>2, HeadTailProperties
<1> QED
  BY <1>1, <1>3

LEMMA OtherFrames ==
    ASSUME FramesGood, NEW r \in Routers, NEW n \in Range(Order[r]), next_frame(r, n)
    PROVE  /\ DOMAIN Rest(r, n) = Routers
           /\ \A q \in Routers : DOMAIN Rest(r, n)[q] = LANs
           /\ \A q \in Routers, m \in LANs : OnlyGood(Rest(r, n)[q][m], m)
<1>1. n \in LANs
  BY Interfaces
<1>2. OnlyGood(Tail(pcap[r][n]), n)
  <2>1. PICK S : pcap[r][n] \in Seq(S) /\ \A f \in S : Good(f, n)
    BY <1>1 DEF FramesGood, OnlyGood
  <2>2. pcap[r][n] # << >>
    BY DEF next_frame
  <2>3. Tail(pcap[r][n]) \in Seq(S)
    BY <2>1, <2>2, HeadTailProperties
  <2> QED
    BY <2>1, <2>3 DEF OnlyGood
<1>3. /\ DOMAIN Rest(r, n) = Routers
      /\ \A q \in Routers : DOMAIN Rest(r, n)[q] = LANs
      /\ \A q \in Routers, m \in LANs :
            Rest(r, n)[q][m] = IF q = r /\ m = n THEN Tail(pcap[r][n]) ELSE pcap[q][m]
  BY <1>1 DEF Rest, FramesGood
<1> QED
  BY <1>2, <1>3 DEF FramesGood

(* What was captured stays good as more is sent and let through. *)
LEMMA GoodStays ==
    ASSUME NEW f, NEW n, Good(f, n), passable \subseteq passable',
           \A p \in Packets : sent[p] # "no" => sent'[p] # "no"
    PROVE  Good(f, n)'
  BY DEF Good, IsUpdate, IsCopy

(* Good frames are captured on LANs that had good frames. *)
LEMMA CapturedGood ==
    ASSUME NEW buffers, NEW frames, IsFiniteSet(frames),
           \A r \in Routers, n \in LANs : OnlyGood(buffers[r][n], n),
           \A f \in frames, n \in LANs : NetworkOf(f.mac) = n => Good(f, n)',
           passable \subseteq passable',
           \A p \in Packets : sent[p] # "no" => sent'[p] # "no",
           pcap' = Captured(buffers, frames)
    PROVE  FramesGood'
<1>1. DOMAIN pcap' = Routers /\ \A r \in Routers : DOMAIN pcap'[r] = LANs
  BY DEF Captured
<1>2. ASSUME NEW r \in Routers, NEW n \in LANs
      PROVE  OnlyGood(pcap[r][n], n)'
  <2> DEFINE X == {f \in frames : /\ up[r] /\ <<r, n>> \in Attached \ {f.mac}
                                  /\ NetworkOf(f.mac) = n}
  <2>1. pcap'[r][n] = buffers[r][n] \o SetToSeq(X)
    BY DEF Captured
  <2>2. IsFiniteSet(X)
    BY FS_Subset
  <2>3. \A f \in X : Good(f, n)'
    OBVIOUS
  <2>4. PICK S : buffers[r][n] \in Seq(S) /\ \A f \in S : Good(f, n)
    BY DEF OnlyGood
  <2>5. \A f \in S : Good(f, n)'
    BY <2>4, GoodStays
  <2>6. SetToSeq(X) \in Seq(X)
    BY <2>2, SeqOfSet
  <2> HIDE DEF X
  <2>7. buffers[r][n] \in Seq(S \cup X) /\ SetToSeq(X) \in Seq(S \cup X)
    BY <2>4, <2>6, SeqMonotonic
  <2>8. pcap'[r][n] \in Seq(S \cup X)
    BY <2>1, <2>7, ConcatProperties
  <2> QED
    BY <2>3, <2>5, <2>8 DEF OnlyGood
<1> QED
  BY <1>1, <1>2 DEF FramesGood

(* Frames that are left where they were, or fewer of them. *)
LEMMA FramesStay ==
    ASSUME NEW buffers, pcap' = buffers, DOMAIN buffers = Routers,
           \A r \in Routers : DOMAIN buffers[r] = LANs,
           \A r \in Routers, n \in LANs : OnlyGood(buffers[r][n], n),
           passable \subseteq passable',
           \A p \in Packets : sent[p] # "no" => sent'[p] # "no"
    PROVE  FramesGood'
<1>1. ASSUME NEW r \in Routers, NEW n \in LANs
      PROVE  OnlyGood(pcap[r][n], n)'
  <2>1. PICK S : buffers[r][n] \in Seq(S) /\ \A f \in S : Good(f, n)
    BY DEF OnlyGood
  <2>2. \A f \in S : Good(f, n)'
    BY <2>1, GoodStays
  <2> QED
    BY <2>1, <2>2 DEF OnlyGood
<1> QED
  BY <1>1 DEF FramesGood

-----------------------------------------------------------------------------
(* What each step does to the frames. *)

(* A packet that some router next to its sender lets pass is on the observer's list, and so
   is one that has arrived in another LAN. *)
Noted == \A p \in Packets : sent[p] # "no" /\ Passable(p, filters) => p \in passable
LetInv == /\ DOMAIN sent = Packets
          /\ FramesGood /\ Noted /\ LetThrough

LEMMA SendLets ==
    ASSUME LetInv, NEW p \in Packets, Send(p)
    PROVE  LetInv'
<1> DEFINE f == Frame(p, {}, p.from)
<1>1. /\ sent[p] = "no" /\ DOMAIN sent' = Packets /\ sent'[p] # "no"
      /\ \A q \in Packets \ {p} : sent'[q] = sent[q]
  BY DEF Send, LetInv
<1>2. /\ pcap' = Captured(pcap, {f}) /\ arrived' = Received(f, {p.to})
      /\ filters' = filters /\ passable \subseteq passable'
      /\ Passable(p, filters) => p \in passable'
  BY DEF Send, tables
<1>3. FramesGood'
  <2>1. IsFiniteSet({f})
    BY FS_Singleton
  <2>2. f.packet = p /\ f.networks = {} /\ f.mac = p.from
    BY DEF Frame
  <2> HIDE DEF f
  <2>3. \A g \in {f}, n \in LANs : NetworkOf(g.mac) = n => Good(g, n)'
    <3>1. ASSUME NEW n \in LANs, NetworkOf(f.mac) = n
          PROVE  IsCopy(f, n)'
      BY <1>1, <2>2, <3>1 DEF IsCopy, NetworkOf
    <3> QED
      BY <3>1 DEF Good
  <2>4. \A q \in Packets : sent[q] # "no" => sent'[q] # "no"
    BY <1>1
  <2> QED
    BY <1>2, <2>1, <2>3, <2>4, CapturedGood DEF LetInv, FramesGood
<1>4. Noted'
  BY <1>1, <1>2 DEF LetInv, Noted, Passable, NetworkOf, Attached
<1>5. LetThrough'
  <2>1. \A q \in Packets : arrived'[q] = arrived[q] \/ ~Crosses(q)
    BY <1>2 DEF Received, Crosses, Frame
  <2> QED
    BY <1>2, <2>1 DEF LetInv, LetThrough, Crosses, NetworkOf
<1> QED
  BY <1>1, <1>3, <1>4, <1>5 DEF LetInv

LEMMA CommandLets ==
    ASSUME LetInv, NEW r \in Routers, check_for_message(r)
    PROVE  LetInv'
<1>1. /\ pcap' = pcap /\ sent' = sent /\ arrived' = arrived
      /\ passable' = passable \cup {p \in Packets : sent[p] # "no" /\ Passable(p, filters')}
  BY DEF check_for_message, traffic
<1>2. FramesGood'
  BY <1>1, FramesStay DEF LetInv, FramesGood
<1>3. Noted'
  BY <1>1 DEF Noted, Passable, NetworkOf, Attached
<1>4. LetThrough'
  BY <1>1 DEF LetInv, LetThrough, Crosses, NetworkOf
<1> QED
  BY <1>1, <1>2, <1>3, <1>4 DEF LetInv

(* When neither rules nor what was let through change. *)
LEMMA OnlyFrames ==
    ASSUME LetInv, FramesGood', LetThrough',
           sent' = sent, filters' = filters, passable' = passable
    PROVE  LetInv'
<1>1. Noted'
  BY DEF LetInv, Noted, Passable, NetworkOf, Attached
<1> QED
  BY <1>1 DEF LetInv

LEMMA UpdateLets ==
    ASSUME LetInv, NEW r \in Routers, send_updates(r)
    PROVE  LetInv'
<1> DEFINE frames == {UpdateFrame(r, n) : n \in Range(Order[r])}
<1>1. /\ pcap' = Captured(pcap, frames) /\ sent' = sent /\ arrived' = arrived
      /\ filters' = filters /\ passable' = passable
  BY DEF send_updates, tables
<1>2. IsFiniteSet(frames)
  <2> DEFINE k == Len(Order[r])
             f == [i \in 1 .. k |-> UpdateFrame(r, Order[r][i])]
  <2>1. k \in Nat /\ DOMAIN Order[r] = 1 .. k
    BY OrderAssumption, LenProperties
  <2>2. IsFiniteSet(1 .. k)
    BY <2>1, FS_Interval
  <2>3. f \in Surjection(1 .. k, frames)
    BY <2>1 DEF Surjection, Range
  <2> QED
    BY <2>2, <2>3, FS_Surjection
<1>3. \A g \in frames, n \in LANs : NetworkOf(g.mac) = n => Good(g, n)'
  <2>1. ASSUME NEW m \in Range(Order[r]), NEW n \in LANs,
               NetworkOf(UpdateFrame(r, m).mac) = n
        PROVE  IsUpdate(UpdateFrame(r, m), n)
    <3>1. UpdateFrame(r, m).mac = <<r, m>> /\ UpdateFrame(r, m).packet.from = <<r, m>>
          /\ UpdateFrame(r, m).packet.to = Broadcast(m)
      BY DEF UpdateFrame, Frame
    <3>2. <<r, m>> \in Attached /\ NetworkOf(<<r, m>>) = m
      BY Interfaces, NetworkOfInterface
    <3> QED
      BY <2>1, <3>1, <3>2 DEF IsUpdate
  <2> HIDE DEF frames
  <2>2. \A g \in frames : \E m \in Range(Order[r]) : g = UpdateFrame(r, m)
    BY DEF frames
  <2>3. ASSUME NEW g \in frames, NEW n \in LANs, NetworkOf(g.mac) = n
        PROVE  IsUpdate(g, n)
    BY <2>1, <2>2, <2>3
  <2> QED
    BY <2>3 DEF Good, IsUpdate, NetworkOf
<1>4. FramesGood'
  <2> HIDE DEF frames
  <2> QED
    BY <1>1, <1>2, <1>3, CapturedGood DEF LetInv, FramesGood
<1>5. LetThrough'
  BY <1>1 DEF LetInv, LetThrough, Crosses, NetworkOf
<1> QED
  BY <1>1, <1>4, <1>5, OnlyFrames

LEMMA ReadLets ==
    ASSUME LetInv, NEW r \in Routers, NEW n \in Range(Order[r]),
           Ignore(r, n) \/ LearnFromLAN(r, n) \/ Drop(r, n)
    PROVE  LetInv'
<1>1. /\ next_frame(r, n) /\ pcap' = Rest(r, n) /\ sent' = sent /\ arrived' = arrived
      /\ filters' = filters /\ passable' = passable
  BY DEF Ignore, LearnFromLAN, Drop, tables
<1>2. FramesGood'
  BY <1>1, OtherFrames, FramesStay DEF LetInv
<1>3. LetThrough'
  BY <1>1 DEF LetInv, LetThrough, Crosses, NetworkOf
<1> QED
  BY <1>1, <1>2, <1>3, OnlyFrames

LEMMA StopLets ==
    ASSUME LetInv, NEW r \in Routers,
           \/ InvalidAddressError(r)
           \/ \E n \in Range(Order[r]), entry \in Range(routing_table[r]) : NoMethodError(r, n, entry)
    PROVE  LetInv'
<1>1. /\ pcap' = [pcap EXCEPT ![r] = [m \in LANs |-> << >>]]
      /\ sent' = sent /\ arrived' = arrived /\ filters' = filters /\ passable' = passable
  BY DEF InvalidAddressError, NoMethodError
<1>2. FramesGood'
  <2> DEFINE b == [pcap EXCEPT ![r] = [m \in LANs |-> << >>]]
  <2>1. DOMAIN b = Routers /\ \A q \in Routers : DOMAIN b[q] = LANs
    BY DEF LetInv, FramesGood
  <2>2. << >> \in Seq({})
    OBVIOUS
  <2>3. \A q \in Routers, m \in LANs : OnlyGood(b[q][m], m)
    BY <2>2 DEF LetInv, FramesGood, OnlyGood
  <2> HIDE DEF b
  <2>4. pcap' = b
    BY <1>1 DEF b
  <2> QED
    BY <1>1, <2>1, <2>3, <2>4, FramesStay
<1>3. LetThrough'
  BY <1>1 DEF LetInv, LetThrough, Crosses, NetworkOf
<1> QED
  BY <1>1, <1>2, <1>3, OnlyFrames

(* What is forwarded passed the rules of this router: in the sender's LAN that is noted,
   elsewhere it was let through before. *)
LEMMA ForwardLets ==
    ASSUME LetInv, NEW r \in Routers, NEW n \in Range(Order[r]), NEW entry,
           Forward(r, n, entry)
    PROVE  LetInv'
<1> DEFINE f == Head(pcap[r][n])
           dst == Destination(r, entry, f.packet.to)
           out == Frame(f.packet, {}, <<r, entry.interface>>)
<1>1. /\ next_frame(r, n) /\ ~IsLocal(f, n) /\ ~should_be_filtered(filters[r], f.packet)
      /\ pcap' = IF dst = {} THEN Rest(r, n) ELSE Captured(Rest(r, n), {out})
      /\ arrived' = IF dst = {} THEN arrived ELSE Received(out, dst)
      /\ sent' = sent /\ filters' = filters /\ passable' = passable
  BY DEF Forward
<1>2. n \in LANs /\ <<r, n>> \in Attached
  BY Interfaces
<1>3. Good(f, n)
  BY <1>1, FirstFrame DEF LetInv
<1>4. IsCopy(f, n)
  <2>1. ~IsUpdate(f, n)
    BY <1>1, <1>2, NetworkOfBroadcast DEF IsUpdate, IsLocal
  <2> QED
    BY <1>3, <2>1 DEF Good
<1>5. f.packet \in Packets /\ sent[f.packet] # "no" /\ f.packet \in passable
  <2>1. CASE n = NetworkOf(f.packet.from)
    <3>1. Passable(f.packet, filters)
      BY <1>1, <1>2, <2>1 DEF Passable, should_be_filtered, Range
    <3> QED
      BY <1>4, <3>1 DEF LetInv, Noted, IsCopy
  <2> QED
    BY <1>4, <2>1 DEF IsCopy
<1>6. out.packet = f.packet /\ out.networks = {}
  BY DEF Frame
<1>7. FramesGood'
  <2> HIDE DEF f, dst, out
  <2>1. CASE dst = {}
    BY <1>1, <2>1, OtherFrames, FramesStay DEF LetInv
  <2>2. CASE dst # {}
    <3>1. IsFiniteSet({out})
      BY FS_Singleton
    <3>2. \A m \in LANs : NetworkOf(out.mac) = m => Good(out, m)
      BY <1>5, <1>6 DEF Good, IsCopy
    <3>3. \A g \in {out}, m \in LANs : NetworkOf(g.mac) = m => Good(g, m)'
      <4>1. ASSUME NEW m \in LANs, NEW g, g = out, NetworkOf(g.mac) = m
            PROVE  Good(g, m)'
        <5>1. Good(g, m)
          BY <3>2, <4>1
        <5> QED
          BY <1>1, <5>1, GoodStays
      <4> QED
        BY <4>1 DEF NetworkOf
    <3>4. pcap' = Captured(Rest(r, n), {out})
      BY <1>1, <2>2
    <3> QED
      BY <1>1, <3>1, <3>3, <3>4, CapturedGood, OtherFrames DEF LetInv
  <2> QED
    BY <2>1, <2>2
<1>8. LetThrough'
  <2>1. \A p \in Packets : arrived'[p] = arrived[p] \/ p = f.packet
    <3> HIDE DEF f, dst
    <3> QED
      BY <1>1, <1>6 DEF Received
  <2> QED
    BY <1>1, <1>5, <2>1 DEF LetInv, LetThrough, Crosses, NetworkOf
<1> QED
  BY <1>1, <1>7, <1>8, OnlyFrames

LEMMA LetInit == Init => LetInv
<1> SUFFICES ASSUME Init PROVE LetInv
  OBVIOUS
<1>1. ASSUME NEW n \in LANs
      PROVE  OnlyGood(<< >>, n)
  <2>1. << >> \in Seq({})
    OBVIOUS
  <2>2. ASSUME NEW frames, frames \in Seq({})
        PROVE  OnlyGood(frames, n)
    BY <2>2 DEF OnlyGood
  <2> QED
    BY <2>1, <2>2
<1>2. FramesGood
  <2>1. pcap = [r \in Routers |-> [n \in LANs |-> << >>]]
    BY DEF Init
  <2> QED
    BY <1>1, <2>1 DEF FramesGood
<1>3. DOMAIN sent = Packets /\ Noted /\ LetThrough
  BY DEF Init, Noted, LetThrough
<1> QED
  BY <1>2, <1>3 DEF LetInv

LEMMA LetStep == LetInv /\ [Next]_vars => LetInv'
<1> SUFFICES ASSUME LetInv, [Next]_vars PROVE LetInv'
  OBVIOUS
<1>1. ASSUME UNCHANGED <<filters, traffic, passable>>
      PROVE  LetInv'
  <2>1. FramesGood'
    BY <1>1, FramesStay DEF LetInv, FramesGood, traffic
  <2>2. LetThrough'
    BY <1>1 DEF LetInv, LetThrough, Crosses, NetworkOf, traffic
  <2> QED
    BY <1>1, <2>1, <2>2, OnlyFrames DEF traffic
<1>2. CASE \E p \in Packets : Send(p)
  BY <1>2, SendLets
<1>3. CASE \E r \in Routers : \E c \in {g[2] : g \in Commands} : Give(r, c)
  BY <1>1, <1>3 DEF Give, tables
<1>4. CASE \E r \in Routers : Loop(r)
  BY <1>4, CommandLets, UpdateLets, ReadLets, ForwardLets, StopLets DEF Loop, route_packet
<1>5. CASE UNCHANGED vars
  BY <1>1, <1>5 DEF vars, tables
<1> QED
  BY <1>2, <1>3, <1>4, <1>5 DEF Next

LEMMA LetInvariant == Spec => []LetInv
  BY LetInit, LetStep, PTL DEF Spec

(* Whatever routes, rules and ways there are, a packet is in another LAN than its
   sender's only if a router next to the sender let it pass. *)
THEOREM RulesKeepOut == Spec => []LetThrough
<1>1. LetInv => LetThrough
  BY DEF LetInv
<1> QED
  BY <1>1, LetInvariant, PTL

-----------------------------------------------------------------------------
(* What a router knows of its neighbors. *)

(* Tables are functions, and what waits for a router is a sequence. *)
Sequence(s) == \E S : s \in Seq(S)
Shapes ==
    /\ DOMAIN routing_table = Routers /\ DOMAIN mac_table = Routers
    /\ DOMAIN commands = Routers
    /\ \A r \in Routers : Sequence(commands[r])

(* An interface is known by its own MAC address only. *)
MacsOwn == \A r \in Routers : \A x \in DOMAIN mac_table[r] \cap Attached : mac_table[r][x] = x

Known(r, e) == /\ e.gateway \in Attached /\ e.interface = NetworkOf(e.gateway)
               /\ e.gateway \in DOMAIN mac_table[r] /\ mac_table[r][e.gateway] = e.gateway
Learned(r) == \A n \in DOMAIN routing_table[r] :
    routing_table[r][n].type = "dynamic" => Known(r, routing_table[r][n])
GatewayInv == Shapes /\ MacsOwn /\ \A r \in Routers : Learned(r)

LEMMA GatewayInit == Init => GatewayInv
<1> SUFFICES ASSUME Init PROVE GatewayInv
  OBVIOUS
<1>1. /\ routing_table = [r \in Routers |-> open_interfaces(r)]
      /\ mac_table = [r \in Routers |-> << >>] /\ commands = [r \in Routers |-> << >>]
  BY DEF Init
<1>2. Shapes
  <2>1. ASSUME NEW s, s = << >>
        PROVE  Sequence(s)
    <3>1. s \in Seq({})
      BY <2>1
    <3> QED
      BY <3>1 DEF Sequence
  <2> QED
    BY <1>1, <2>1 DEF Shapes
<1>3. MacsOwn
  BY <1>1 DEF MacsOwn
<1>4. \A r \in Routers : Learned(r)
  BY <1>1 DEF Learned, open_interfaces, Entry
<1> QED
  BY <1>2, <1>3, <1>4 DEF GatewayInv

(* A command adds static entries, and deletes. *)
LEMMA CommandKnown ==
    ASSUME GatewayInv, NEW r \in Routers, check_for_message(r) \/ InvalidAddressError(r)
    PROVE  GatewayInv'
<1>1. /\ mac_table' = mac_table /\ commands[r] # << >>
      /\ commands' = [commands EXCEPT ![r] = Tail(@)]
  BY DEF check_for_message, InvalidAddressError
<1>2. ASSUME NEW q \in Routers
      PROVE  Sequence(commands'[q])
  <2>1. PICK S : commands[q] \in Seq(S)
    BY DEF GatewayInv, Shapes, Sequence
  <2>2. CASE q = r
    <3>1. Tail(commands[r]) \in Seq(S)
      BY <1>1, <2>1, <2>2, HeadTailProperties
    <3> QED
      BY <1>1, <2>2, <3>1 DEF GatewayInv, Shapes, Sequence
  <2>3. CASE q # r
    BY <1>1, <2>1, <2>3 DEF GatewayInv, Shapes, Sequence
  <2> QED
    BY <2>2, <2>3
<1>3. /\ DOMAIN routing_table' = Routers
      /\ \A q \in Routers : \A n \in DOMAIN routing_table'[q] :
            \/ routing_table'[q][n].type # "dynamic"
            \/ n \in DOMAIN routing_table[q] /\ routing_table'[q][n] = routing_table[q][n]
  <2> DEFINE c == Head(commands[r])
  <2>1. CASE add_static_route(r, c)
    BY <2>1 DEF add_static_route, Entry, GatewayInv, Shapes
  <2>2. CASE delete_static_route(r, c)
    BY <2>2 DEF delete_static_route, Restrict, GatewayInv, Shapes
  <2>3. CASE add_new_rule(r, c) \/ delete_rule(r, c) \/ reset_all_stats(r, c)
    BY <2>3 DEF add_new_rule, delete_rule, reset_all_stats, GatewayInv, Shapes
  <2>4. CASE InvalidAddressError(r)
    BY <2>4 DEF InvalidAddressError, GatewayInv, Shapes
  <2> QED
    BY <2>1, <2>2, <2>3, <2>4 DEF check_for_message
<1>4. \A q \in Routers : Learned(q)'
  BY <1>1, <1>3 DEF GatewayInv, Learned, Known, NetworkOf, Attached
<1>5. MacsOwn'
  BY <1>1 DEF GatewayInv, MacsOwn, Attached
<1>6. Shapes'
  BY <1>1, <1>2, <1>3 DEF GatewayInv, Shapes
<1> QED
  BY <1>4, <1>5, <1>6 DEF GatewayInv

(* What is learned from an update is the gateway, its interface and its MAC address; what
   is learned from a packet is no entry, and a host's MAC address. *)
LEMMA FrameKnown ==
    ASSUME GatewayInv, FramesGood, NEW r \in Routers, NEW n \in Range(Order[r]),
           LearnFromLAN(r, n)
    PROVE  GatewayInv'
<1> DEFINE f == Head(pcap[r][n])
<1>1. /\ next_frame(r, n) /\ commands' = commands
      /\ mac_table' = [mac_table EXCEPT ![r] = learn_mac_addresses(@, f)]
      /\ routing_table' = [routing_table EXCEPT ![r] =
                                update_routing_table(r, @, f.packet.from, f.networks)]
  BY DEF LearnFromLAN
<1>2. Good(f, n)
  BY <1>1, FirstFrame
<1>3. <<r, n>> \in Attached
  BY Interfaces
<1> HIDE DEF f
<1>4. f.packet.from \in Attached => f.mac = f.packet.from
  BY <1>2, HomeAssumption, PacketsAssumption DEF Good, IsUpdate, IsCopy
<1>5. f.networks # {} => /\ f.packet.from \in Attached /\ NetworkOf(f.packet.from) = n
                         /\ find_interface_by_ip(r, f.packet.from) = n
  <2>1. CASE IsUpdate(f, n)
    BY <1>3, <2>1, NetworkOfInterface DEF IsUpdate, find_interface_by_ip
  <2>2. CASE IsCopy(f, n)
    BY <2>2 DEF IsCopy
  <2> QED
    BY <1>2, <2>1, <2>2 DEF Good
<1>6. DOMAIN mac_table' = Routers /\ DOMAIN routing_table' = Routers
  BY <1>1 DEF GatewayInv, Shapes
<1>7. /\ \A q \in Routers \ {r} : mac_table'[q] = mac_table[q] /\ routing_table'[q] = routing_table[q]
      /\ mac_table'[r] = learn_mac_addresses(mac_table[r], f)
      /\ routing_table'[r] = update_routing_table(r, routing_table[r], f.packet.from, f.networks)
  BY <1>1 DEF GatewayInv, Shapes
<1>8. MacsOwn'
  BY <1>4, <1>7 DEF GatewayInv, MacsOwn, learn_mac_addresses, Attached
<1>9. /\ f.packet.from \in DOMAIN mac_table'[r]
      /\ \A x \in DOMAIN mac_table[r] : x \in DOMAIN mac_table'[r] /\ mac_table'[r][x] = mac_table[r][x]
  BY <1>7 DEF learn_mac_addresses
<1>10. Learned(r)'
  <2>1. ASSUME NEW m \in DOMAIN routing_table'[r], routing_table'[r][m].type = "dynamic"
        PROVE  Known(r, routing_table[r][m])'
    <3>1. CASE m \in DOMAIN routing_table[r]
      <4>1. routing_table'[r][m] = routing_table[r][m]
        BY <1>7, <3>1 DEF update_routing_table
      <4>2. Known(r, routing_table[r][m])
        BY <2>1, <3>1, <4>1 DEF GatewayInv, Learned
      <4> QED
        BY <1>9, <4>1, <4>2 DEF Known, NetworkOf, Attached
    <3>2. CASE m \notin DOMAIN routing_table[r]
      <4>1. f.networks # {}
            /\ routing_table'[r][m] = Entry(f.packet.from, find_interface_by_ip(r, f.packet.from), "dynamic")
        BY <1>7, <3>2 DEF update_routing_table
      <4>2. routing_table'[r][m].gateway = f.packet.from /\ routing_table'[r][m].interface = n
        BY <1>5, <4>1 DEF Entry
      <4>3. mac_table'[r][f.packet.from] = f.packet.from
        BY <1>5, <1>8, <1>9, <4>1 DEF MacsOwn, Attached
      <4> QED
        BY <1>5, <1>9, <4>1, <4>2, <4>3 DEF Known, NetworkOf, Attached
    <3> QED
      BY <3>1, <3>2
  <2> QED
    BY <2>1 DEF Learned
<1>11. \A q \in Routers \ {r} : Learned(q)'
  BY <1>7 DEF GatewayInv, Learned, Known, NetworkOf, Attached
<1>12. Shapes'
  BY <1>1, <1>6 DEF GatewayInv, Shapes
<1> QED
  BY <1>8, <1>10, <1>11, <1>12 DEF GatewayInv

(* Nothing else touches what a router knows. *)
LEMMA OthersKnown ==
    ASSUME GatewayInv, routing_table' = routing_table, mac_table' = mac_table,
           DOMAIN commands' = Routers, \A r \in Routers : Sequence(commands'[r])
    PROVE  GatewayInv'
<1>1. Shapes'
  BY DEF GatewayInv, Shapes
<1>2. MacsOwn' /\ \A r \in Routers : Learned(r)'
  BY DEF GatewayInv, MacsOwn, Learned, Known, NetworkOf, Attached
<1> QED
  BY <1>1, <1>2 DEF GatewayInv

LEMMA GiveKnown ==
    ASSUME GatewayInv, NEW r \in Routers, NEW c, Give(r, c)
    PROVE  GatewayInv'
<1>1. PICK d : /\ commands' = [commands EXCEPT ![r] = Append(@, d)]
               /\ routing_table' = routing_table /\ mac_table' = mac_table
  BY DEF Give, tables
<1>2. ASSUME NEW q \in Routers
      PROVE  Sequence(commands'[q])
  <2>1. PICK S : commands[q] \in Seq(S)
    BY DEF GatewayInv, Shapes, Sequence
  <2>2. commands[q] \in Seq(S \cup {d})
    BY <2>1, SeqMonotonic
  <2>3. Append(commands[q], d) \in Seq(S \cup {d})
    BY <2>2, AppendProperties
  <2>4. commands'[q] \in {commands[q], Append(commands[q], d)}
    BY <1>1 DEF GatewayInv, Shapes
  <2> QED
    BY <2>2, <2>3, <2>4 DEF Sequence
<1> QED
  BY <1>1, <1>2, OthersKnown DEF GatewayInv, Shapes

LEMMA StepKnown ==
    ASSUME GatewayInv, FramesGood, [Next]_vars
    PROVE  GatewayInv'
<1>1. ASSUME UNCHANGED <<routing_table, mac_table, commands>>
      PROVE  GatewayInv'
  BY <1>1, OthersKnown DEF GatewayInv, Shapes
<1>2. CASE \E p \in Packets : Send(p)
  BY <1>1, <1>2 DEF Send, tables
<1>3. CASE \E r \in Routers : \E c \in {g[2] : g \in Commands} : Give(r, c)
  BY <1>3, GiveKnown
<1>4. CASE \E r \in Routers : check_for_message(r) \/ InvalidAddressError(r)
  BY <1>4, CommandKnown
<1>5. CASE \E r \in Routers : send_updates(r)
  BY <1>1, <1>5 DEF send_updates, tables
<1>6. CASE \E r \in Routers : route_packet(r)
  <2>1. PICK r \in Routers : route_packet(r)
    BY <1>6
  <2>2. PICK n \in Range(Order[r]) :
           \/ Ignore(r, n) \/ LearnFromLAN(r, n) \/ Drop(r, n)
           \/ \E entry \in Range(routing_table[r]) : Forward(r, n, entry) \/ NoMethodError(r, n, entry)
    BY <2>1 DEF route_packet
  <2>3. CASE LearnFromLAN(r, n)
    BY <2>3, FrameKnown
  <2>4. CASE ~LearnFromLAN(r, n)
    BY <1>1, <2>2, <2>4 DEF Ignore, Drop, Forward, NoMethodError, tables
  <2> QED
    BY <2>3, <2>4
<1>7. CASE UNCHANGED vars
  BY <1>1, <1>7 DEF vars, tables
<1> QED
  BY <1>2, <1>3, <1>4, <1>5, <1>6, <1>7 DEF Next, Loop

LEMMA GatewayInvariant == Spec => []GatewayInv
<1>1. LetInv => FramesGood
  BY DEF LetInv
<1> QED
  BY <1>1, GatewayInit, StepKnown, LetInvariant, PTL DEF Spec

(* Whatever announcements, commands and packets come in whatever order, a router knows the
   MAC address of every gateway it has learned. *)
THEOREM GatewaysStayKnown == Spec => []GatewaysKnown
<1>1. GatewayInv => GatewaysKnown
  BY DEF GatewayInv, GatewaysKnown, Learned, Known, Range
<1> QED
  BY <1>1, GatewayInvariant, PTL

(* No announcement displaces what the administrator configured. *)
THEOREM ConfiguredStays == Spec => KeepsConfigured
<1> DEFINE Keeps ==
        \A r \in Routers : \A n \in DOMAIN routing_table[r] :
            \/ routing_table[r][n].type = "dynamic"
            \/ n \in DOMAIN routing_table'[r] /\ routing_table'[r][n] = routing_table[r][n]
            \/ Len(commands'[r]) < Len(commands[r])
<1>1. GatewayInv /\ [Next]_vars => [Keeps]_vars
  <2> SUFFICES ASSUME GatewayInv, Next PROVE Keeps
    OBVIOUS
  <2>1. ASSUME UNCHANGED routing_table
        PROVE  Keeps
    BY <2>1
  <2>2. CASE \E p \in Packets : Send(p)
    BY <2>1, <2>2 DEF Send, tables
  <2>3. CASE \E r \in Routers : \E c \in {g[2] : g \in Commands} : Give(r, c)
    BY <2>1, <2>3 DEF Give, tables
  <2>7. CASE \E r \in Routers : InvalidAddressError(r)
    BY <2>1, <2>7 DEF InvalidAddressError
  <2>4. CASE \E r \in Routers : check_for_message(r)
    <3>1. PICK r \in Routers : check_for_message(r)
      BY <2>4
    <3>2. /\ commands[r] # << >> /\ commands'[r] = Tail(commands[r])
      BY <3>1 DEF check_for_message, GatewayInv, Shapes
    <3>3. Len(commands'[r]) < Len(commands[r])
      <4>1. PICK S : commands[r] \in Seq(S)
        BY DEF GatewayInv, Shapes, Sequence
      <4>2. Len(Tail(commands[r])) = Len(commands[r]) - 1 /\ Len(commands[r]) \in Nat
        BY <3>2, <4>1, HeadTailProperties, LenProperties
      <4> QED
        BY <3>2, <4>2
    <3>4. \A q \in Routers \ {r} : routing_table'[q] = routing_table[q]
      BY <3>1 DEF check_for_message, add_static_route, delete_static_route, add_new_rule,
                  delete_rule, reset_all_stats, GatewayInv, Shapes
    <3> QED
      BY <3>3, <3>4
  <2>5. CASE \E r \in Routers : send_updates(r)
    BY <2>1, <2>5 DEF send_updates, tables
  <2>6. CASE \E r \in Routers : route_packet(r)
    <3>1. PICK r \in Routers : \E n \in Range(Order[r]) :
             \/ Ignore(r, n) \/ LearnFromLAN(r, n) \/ Drop(r, n)
             \/ \E entry \in Range(routing_table[r]) :
                    Forward(r, n, entry) \/ NoMethodError(r, n, entry)
      BY <2>6 DEF route_packet
    <3>2. CASE \E n \in Range(Order[r]) : LearnFromLAN(r, n)
      BY <3>2 DEF LearnFromLAN, update_routing_table, GatewayInv, Shapes
    <3>3. CASE ~\E n \in Range(Order[r]) : LearnFromLAN(r, n)
      BY <2>1, <3>1, <3>3 DEF Ignore, Drop, Forward, NoMethodError, tables
    <3> QED
      BY <3>2, <3>3
  <2> QED
    BY <2>2, <2>3, <2>4, <2>5, <2>6, <2>7 DEF Next, Loop
<1> QED
  BY <1>1, GatewayInvariant, PTL DEF Spec, KeepsConfigured

-----------------------------------------------------------------------------
(* Rules are deleted by their place. *)

(* What waits for a router turns the rules it has into those it is meant to have: h is the
   list of rules before and after each command. *)
Apply(rules, c) == IF c.do = "add_new_rule" THEN Append(rules, c.rule)
                   ELSE IF c.do = "delete_rule" THEN DeleteAt(rules, c.id) ELSE rules
Leads(h, from, through, to) ==
    /\ h[0] = from /\ h[Len(through)] = to
    /\ \A i \in 1 .. Len(through) : h[i] = Apply(h[i - 1], through[i])
RulesInv ==
    /\ DOMAIN filters = Routers /\ DOMAIN meant = Routers
    /\ \A r \in Routers : /\ Sequence(meant[r])
                          /\ \E h : Leads(h, filters[r], commands[r], meant[r])

(* The first of a list's elements that equals e is deleted by its place. *)
LEMMA FirstDeleted ==
    ASSUME NEW s, Sequence(s), NEW e \in Range(s),
           NEW k, k = SelectInSeq(s, LAMBDA x : x = e) - 1
    PROVE  Sequence(RemoveFirst(s, e)) /\ DeleteAt(s, k) = RemoveFirst(s, e)
<1>1. PICK S : s \in Seq(S)
  BY DEF Sequence
<1>2. DOMAIN s = 1 .. Len(s) /\ Len(s) \in Nat
  BY <1>1, LenProperties
<1> DEFINE I == {i \in 1 .. Len(s) : s[i] = e}
<1>3. I # {} /\ I \subseteq Nat
  BY <1>2 DEF Range
<1>4. Min(I) \in I
  BY <1>3, MinIsLeast
<1>5. SelectInSeq(s, LAMBDA x : x = e) = Min(I)
  BY <1>3 DEF SelectInSeq
<1> DEFINE m == Min(I)
<1> HIDE DEF m
<1>6. m \in DOMAIN s /\ m \in Int /\ k + 1 = m
  BY <1>2, <1>4, <1>5 DEF m
<1>7. RemoveFirst(s, e) = RemoveAt(s, m)
  BY <1>3, <1>5 DEF RemoveFirst, m
<1>8. DeleteAt(s, k) = RemoveAt(s, m)
  BY <1>6 DEF DeleteAt
<1>9. RemoveAt(s, m) \in Seq(S)
  BY <1>1, <1>6, RemoveAtProperties
<1> QED
  BY <1>7, <1>8, <1>9 DEF Sequence

(* The router does what the administrator has done already. *)
LEMMA CommandLeads ==
    ASSUME GatewayInv, RulesInv, NEW r \in Routers, check_for_message(r) \/ InvalidAddressError(r)
    PROVE  RulesInv'
<1> DEFINE c == Head(commands[r])
<1>1. /\ commands[r] # << >> /\ commands' = [commands EXCEPT ![r] = Tail(@)]
      /\ meant' = meant
  BY DEF check_for_message, InvalidAddressError, admin
<1>2. PICK S : commands[r] \in Seq(S)
  BY DEF GatewayInv, Shapes, Sequence
<1>3. /\ Len(commands[r]) \in Nat \ {0} /\ c = commands[r][1]
      /\ Len(Tail(commands[r])) = Len(commands[r]) - 1
      /\ \A i \in 1 .. Len(commands[r]) - 1 : Tail(commands[r])[i] = commands[r][i + 1]
  BY <1>1, <1>2, HeadTailProperties, LenProperties, EmptySeq
<1>4. /\ DOMAIN filters' = Routers /\ filters'[r] = Apply(filters[r], c)
      /\ \A q \in Routers \ {r} : filters'[q] = filters[q]
  <2>1. \/ add_static_route(r, c) \/ delete_static_route(r, c)
        \/ add_new_rule(r, c) \/ delete_rule(r, c) \/ reset_all_stats(r, c)
        \/ filters' = filters /\ c.do = "new_static_route"
    BY DEF check_for_message, InvalidAddressError
  <2> HIDE DEF c
  <2>2. CASE add_static_route(r, c) \/ delete_static_route(r, c) \/ reset_all_stats(r, c)
    <3>1. filters' = filters /\ Apply(filters[r], c) = filters[r]
      BY <2>2 DEF add_static_route, delete_static_route, reset_all_stats, Apply
    <3> QED
      BY <3>1 DEF RulesInv
  <2>3. CASE add_new_rule(r, c)
    BY <2>3 DEF add_new_rule, Apply, RulesInv
  <2>4. CASE delete_rule(r, c)
    BY <2>4 DEF delete_rule, Apply, RulesInv
  <2>5. CASE filters' = filters /\ c.do = "new_static_route"
    BY <2>5 DEF Apply, RulesInv
  <2> QED
    BY <2>1, <2>2, <2>3, <2>4, <2>5
<1>5. PICK h : Leads(h, filters[r], commands[r], meant[r])
  BY DEF RulesInv
<1> DEFINE g == [i \in 0 .. Len(commands[r]) - 1 |-> h[i + 1]]
<1>6. Leads(g, filters'[r], commands'[r], meant'[r])
  <2>1. commands'[r] = Tail(commands[r]) /\ filters'[r] = Apply(filters[r], c)
    BY <1>1, <1>4 DEF GatewayInv, Shapes, RulesInv
  <2>2. h[1] = Apply(filters[r], c)
    BY <1>3, <1>5 DEF Leads
  <2>3. g[0] = filters'[r]
    BY <1>3, <2>1, <2>2
  <2>4. g[Len(commands'[r])] = meant'[r]
    <3> DEFINE l == Len(commands[r])
    <3>1. l - 1 \in 0 .. l - 1 /\ (l - 1) + 1 = l /\ Len(commands'[r]) = l - 1
      BY <1>3, <2>1
    <3>2. h[l] = meant'[r]
      BY <1>1, <1>5 DEF Leads
    <3>3. g[l - 1] = h[(l - 1) + 1]
      BY <3>1
    <3> HIDE DEF g, l
    <3> QED
      BY <3>1, <3>2, <3>3
  <2>5. ASSUME NEW i \in 1 .. Len(commands'[r])
        PROVE  g[i] = Apply(g[i - 1], commands'[r][i])
    <3>1. i \in 1 .. Len(commands[r]) - 1 /\ i + 1 \in 1 .. Len(commands[r])
      BY <1>3, <2>1
    <3>2. h[i + 1] = Apply(h[(i + 1) - 1], commands[r][i + 1])
      BY <1>5, <3>1 DEF Leads
    <3>3. g[i] = h[i + 1] /\ g[i - 1] = h[i] /\ (i + 1) - 1 = i /\ (i - 1) + 1 = i
      BY <1>3, <3>1
    <3>4. commands'[r][i] = commands[r][i + 1]
      BY <1>3, <2>1, <3>1
    <3> QED
      BY <3>2, <3>3, <3>4
  <2> HIDE DEF g
  <2> QED
    BY <2>3, <2>4, <2>5 DEF Leads
<1>7. \A q \in Routers \ {r} :
        commands'[q] = commands[q] /\ filters'[q] = filters[q] /\ meant'[q] = meant[q]
  BY <1>1, <1>4 DEF GatewayInv, Shapes, RulesInv
<1> HIDE DEF g
<1> QED
  BY <1>1, <1>4, <1>6, <1>7 DEF RulesInv

(* The administrator takes his own command for done. *)
LEMMA GiveLeads ==
    ASSUME GatewayInv, RulesInv, NEW r \in Routers, NEW c, Give(r, c)
    PROVE  RulesInv'
<1> DEFINE k == SelectInSeq(meant[r], LAMBDA rule : rule = c.rule) - 1
           d == IF c.do = "delete_rule" THEN [do |-> "delete_rule", id |-> k] ELSE c
<1>1. /\ c.do = "delete_rule" => c.rule \in Range(meant[r])
      /\ commands' = [commands EXCEPT ![r] = Append(@, d)]
      /\ meant' = [meant EXCEPT ![r] =
            IF c.do = "add_new_rule" THEN Append(@, c.rule)
            ELSE IF c.do = "delete_rule" THEN RemoveFirst(@, c.rule) ELSE @]
      /\ filters' = filters
  BY DEF Give, tables
<1>2. PICK S : commands[r] \in Seq(S)
  BY DEF GatewayInv, Shapes, Sequence
<1>3. PICK T : meant[r] \in Seq(T)
  BY DEF RulesInv, Sequence
<1>4. /\ commands'[r] = Append(commands[r], d)
      /\ meant'[r] = IF c.do = "add_new_rule" THEN Append(meant[r], c.rule)
                     ELSE IF c.do = "delete_rule" THEN RemoveFirst(meant[r], c.rule)
                     ELSE meant[r]
      /\ \A q \in Routers \ {r} :
            commands'[q] = commands[q] /\ filters'[q] = filters[q] /\ meant'[q] = meant[q]
      /\ DOMAIN meant' = Routers
  BY <1>1 DEF GatewayInv, Shapes, RulesInv
<1>5. Sequence(meant'[r]) /\ meant'[r] = Apply(meant[r], d)
  <2>1. CASE c.do = "add_new_rule"
    <3>1. meant[r] \in Seq(T \cup {c.rule})
      BY <1>3, SeqMonotonic
    <3>2. Append(meant[r], c.rule) \in Seq(T \cup {c.rule})
      BY <3>1, AppendProperties
    <3> QED
      BY <1>4, <2>1, <3>2 DEF Sequence, Apply
  <2>2. CASE c.do = "delete_rule"
    <3> DEFINE e == c.rule
               m == meant[r]
    <3>1. e \in Range(m) /\ Sequence(m)
      BY <1>1, <2>2 DEF RulesInv
    <3>2. ASSUME NEW s, Sequence(s), NEW x \in Range(s)
          PROVE  /\ Sequence(RemoveFirst(s, x))
                 /\ DeleteAt(s, SelectInSeq(s, LAMBDA y : y = x) - 1) = RemoveFirst(s, x)
      BY <3>2, FirstDeleted
    <3>3. Sequence(RemoveFirst(m, e)) /\ DeleteAt(m, k) = RemoveFirst(m, e)
      BY <3>1, <3>2
    <3>4. d.do = "delete_rule" /\ d.id = k
      BY <2>2
    <3> HIDE DEF k, d
    <3> QED
      BY <1>4, <2>2, <3>3, <3>4 DEF Apply
  <2>3. CASE c.do # "add_new_rule" /\ c.do # "delete_rule"
    BY <1>3, <1>4, <2>3 DEF Sequence, Apply
  <2> QED
    BY <2>1, <2>2, <2>3
<1> HIDE DEF d
<1>6. PICK h : Leads(h, filters[r], commands[r], meant[r])
  BY DEF RulesInv
<1>7. /\ commands[r] \in Seq(S \cup {d}) /\ Len(commands[r]) \in Nat
      /\ Len(commands'[r]) = Len(commands[r]) + 1
      /\ \A i \in 1 .. Len(commands[r]) : commands'[r][i] = commands[r][i]
      /\ commands'[r][Len(commands[r]) + 1] = d
  <2>1. commands[r] \in Seq(S \cup {d})
    BY <1>2, SeqMonotonic
  <2> QED
    BY <1>4, <2>1, AppendProperties, LenProperties
<1> DEFINE l == Len(commands[r])
           g == [i \in 0 .. l + 1 |-> IF i = l + 1 THEN meant'[r] ELSE h[i]]
<1>8. Leads(g, filters'[r], commands'[r], meant'[r])
  <2>1. l \in Nat /\ g[0] = h[0] /\ g[l + 1] = meant'[r] /\ \A i \in 0 .. l : g[i] = h[i]
    BY <1>7
  <2> HIDE DEF g
  <2>2. ASSUME NEW i \in 1 .. l + 1
        PROVE  g[i] = Apply(g[i - 1], commands'[r][i])
    <3>1. CASE i \in 1 .. l
      <4>1. i - 1 \in 0 .. l /\ i \in 0 .. l
        BY <2>1, <3>1
      <4> QED
        BY <1>6, <1>7, <2>1, <3>1, <4>1 DEF Leads
    <3>2. CASE i = l + 1
      <4>1. i - 1 = l /\ g[l] = meant[r]
        BY <1>6, <2>1, <3>2 DEF Leads
      <4> QED
        BY <1>5, <1>7, <2>1, <3>2, <4>1
    <3> QED
      BY <2>1, <3>1, <3>2
  <2> QED
    BY <1>1, <1>6, <1>7, <2>1, <2>2 DEF Leads
<1> HIDE DEF g
<1> QED
  BY <1>1, <1>4, <1>5, <1>8 DEF RulesInv

LEMMA RulesInit == Init => RulesInv
<1> SUFFICES ASSUME Init PROVE RulesInv
  OBVIOUS
<1>1. /\ filters = [r \in Routers |-> << >>] /\ meant = [r \in Routers |-> << >>]
      /\ commands = [r \in Routers |-> << >>]
  BY DEF Init
<1>2. ASSUME NEW s, s = << >>
      PROVE  Sequence(s) /\ Leads([i \in {0} |-> s], s, s, s)
  <2>1. s \in Seq({}) /\ Len(s) = 0
    BY <1>2
  <2> QED
    BY <2>1 DEF Sequence, Leads
<1>3. \A r \in Routers : filters[r] = << >> /\ meant[r] = << >> /\ commands[r] = << >>
  BY <1>1
<1>4. \A r \in Routers : Sequence(meant[r]) /\ \E h : Leads(h, filters[r], commands[r], meant[r])
  BY <1>2, <1>3
<1> QED
  BY <1>1, <1>4 DEF RulesInv

LEMMA RulesStep == GatewayInv /\ RulesInv /\ [Next]_vars => RulesInv'
<1> SUFFICES ASSUME GatewayInv, RulesInv, [Next]_vars PROVE RulesInv'
  OBVIOUS
<1>1. ASSUME UNCHANGED <<filters, commands, meant>>
      PROVE  RulesInv'
  BY <1>1 DEF RulesInv
<1>2. CASE \E p \in Packets : Send(p)
  BY <1>1, <1>2 DEF Send, tables, admin
<1>3. CASE \E r \in Routers : \E c \in {g[2] : g \in Commands} : Give(r, c)
  BY <1>3, GiveLeads
<1>4. CASE \E r \in Routers : check_for_message(r) \/ InvalidAddressError(r)
  BY <1>4, CommandLeads
<1>5. CASE \E r \in Routers : send_updates(r)
  BY <1>1, <1>5 DEF send_updates, tables, admin
<1>6. CASE \E r \in Routers : route_packet(r)
  <2>1. PICK r \in Routers : \E n \in Range(Order[r]) :
           \/ Ignore(r, n) \/ LearnFromLAN(r, n) \/ Drop(r, n)
           \/ \E entry \in Range(routing_table[r]) : Forward(r, n, entry) \/ NoMethodError(r, n, entry)
    BY <1>6 DEF route_packet
  <2>2. UNCHANGED <<filters, commands, admin>>
    BY <2>1 DEF Ignore, LearnFromLAN, Drop, Forward, NoMethodError, tables
  <2> QED
    BY <1>1, <2>2 DEF admin
<1>7. CASE UNCHANGED vars
  BY <1>1, <1>7 DEF vars, tables, admin
<1> QED
  BY <1>2, <1>3, <1>4, <1>5, <1>6, <1>7 DEF Next, Loop

(* However far a router lags behind its administrator, deleting by place hits the rule he
   means. *)
THEOREM DeletesTheRuleMeant == Spec => []RulesAsMeant
<1>1. ASSUME RulesInv
      PROVE  RulesAsMeant
  <2>1. ASSUME NEW r \in Routers, commands[r] = << >>
        PROVE  filters[r] = meant[r]
    <3>1. PICK h : Leads(h, filters[r], commands[r], meant[r])
      BY <1>1 DEF RulesInv
    <3>2. Len(commands[r]) = 0
      BY <2>1
    <3> QED
      BY <3>1, <3>2 DEF Leads
  <2> QED
    BY <2>1 DEF RulesAsMeant
<1> QED
  BY <1>1, RulesInit, RulesStep, GatewayInvariant, PTL DEF Spec

-----------------------------------------------------------------------------
(* When the main loop ends. *)

(* A route was given to r that is mistyped or far. *)
Bad(r, c) == \/ Mistyped \in {c.network, c.gateway}
             \/ <<r, NetworkOf(c.gateway)>> \notin Attached
Far(r) == \E g \in Given("new_static_route") : g[1] = r /\ Bad(r, g[2])
FromGiven(c, r, all) == c.do = "new_static_route" => <<r, c>> \in all
FarInv ==
    /\ DOMAIN up = Routers
    /\ \A r \in Routers :
        /\ up[r] \/ Far(r)
        /\ \A n \in DOMAIN routing_table[r] : routing_table[r][n].interface \in LANs \/ Far(r)
        /\ \A i \in DOMAIN commands[r] : FromGiven(commands[r][i], r, given)

LEMMA LANOfInterface ==
    ASSUME NEW r, NEW n, <<r, n>> \in Attached
    PROVE  n \in LANs
<1>1. PICK q \in Routers : <<r, n>> \in {<<q, m>> : m \in Range(Order[q])}
  BY DEF Attached
<1>2. q = r /\ n \in Range(Order[q])
  BY <1>1
<1> QED
  BY <1>2, Interfaces

LEMMA FarInit == Init => FarInv
<1> SUFFICES ASSUME Init PROVE FarInv
  OBVIOUS
<1>1. /\ up = [r \in Routers |-> TRUE] /\ commands = [r \in Routers |-> << >>]
      /\ routing_table = [r \in Routers |-> open_interfaces(r)]
  BY DEF Init
<1>2. \A r \in Routers : \A n \in DOMAIN routing_table[r] : routing_table[r][n].interface \in LANs
  BY <1>1, Interfaces DEF open_interfaces, Entry
<1> QED
  BY <1>1, <1>2 DEF FarInv

(* Being given a bad route is for ever. *)
LEMMA FarStays ==
    ASSUME given \subseteq given', NEW r, Far(r)
    PROVE  Far(r)'
  BY DEF Far, Bad, Given, NetworkOf, Attached

LEMMA SameTables ==
    ASSUME FarInv, routing_table' = routing_table, commands' = commands, given' = given,
           up' = up
    PROVE  FarInv'
<1>1. \A r : Far(r)' = Far(r)
  BY DEF Far, Bad, Given, NetworkOf, Attached
<1> QED
  BY <1>1 DEF FarInv, FromGiven

LEMMA GiveFar ==
    ASSUME GatewayInv, FarInv, NEW r \in Routers, NEW c, Give(r, c)
    PROVE  FarInv'
<1> DEFINE d == IF c.do = "delete_rule"
                THEN [do |-> "delete_rule",
                      id |-> SelectInSeq(meant[r], LAMBDA rule : rule = c.rule) - 1]
                ELSE c
<1>1. /\ given' = given \cup {<<r, c>>} /\ up' = up /\ routing_table' = routing_table
      /\ commands' = [commands EXCEPT ![r] = Append(@, d)]
  BY DEF Give, tables
<1>2. FromGiven(d, r, given')
  BY <1>1 DEF FromGiven
<1> HIDE DEF d
<1>3. ASSUME NEW q \in Routers, NEW i \in DOMAIN commands'[q]
      PROVE  FromGiven(commands'[q][i], q, given')
  <2>1. CASE q # r
    BY <1>1, <1>3, <2>1 DEF FarInv, FromGiven, GatewayInv, Shapes
  <2>2. CASE q = r
    <3>1. PICK S : commands[r] \in Seq(S)
      BY DEF GatewayInv, Shapes, Sequence
    <3>2. commands[r] \in Seq(S \cup {d})
      BY <3>1, SeqMonotonic
    <3>3. commands'[r] = Append(commands[r], d)
      BY <1>1 DEF GatewayInv, Shapes
    <3>4. \/ commands'[r][i] = d
          \/ i \in DOMAIN commands[r] /\ commands'[r][i] = commands[r][i]
      BY <1>3, <2>2, <3>2, <3>3, AppendProperties, LenProperties
    <3> QED
      BY <1>1, <1>2, <2>2, <3>4 DEF FarInv, FromGiven
  <2> QED
    BY <2>1, <2>2
<1>4. given \subseteq given'
  BY <1>1
<1> QED
  BY <1>1, <1>3, <1>4, FarStays DEF FarInv

LEMMA CommandFar ==
    ASSUME GatewayInv, FarInv, NEW r \in Routers, check_for_message(r) \/ InvalidAddressError(r)
    PROVE  FarInv'
<1> DEFINE c == Head(commands[r])
<1>1. /\ commands[r] # << >> /\ commands' = [commands EXCEPT ![r] = Tail(@)]
      /\ given' = given
  BY DEF check_for_message, InvalidAddressError, admin
<1>2. PICK S : commands[r] \in Seq(S)
  BY DEF GatewayInv, Shapes, Sequence
<1>3. /\ Len(commands[r]) \in Nat \ {0} /\ c = commands[r][1]
      /\ DOMAIN commands[r] = 1 .. Len(commands[r])
      /\ DOMAIN Tail(commands[r]) = 1 .. Len(commands[r]) - 1
      /\ \A i \in 1 .. Len(commands[r]) - 1 : Tail(commands[r])[i] = commands[r][i + 1]
  BY <1>1, <1>2, HeadTailProperties, LenProperties, EmptySeq
<1>4. FromGiven(c, r, given)
  BY <1>3 DEF FarInv
<1>5. ASSUME NEW q \in Routers, NEW i \in DOMAIN commands'[q]
      PROVE  FromGiven(commands'[q][i], q, given')
  <2>1. CASE q # r
    BY <1>1, <1>5, <2>1 DEF FarInv, FromGiven, GatewayInv, Shapes
  <2>2. CASE q = r
    <3>1. commands'[r] = Tail(commands[r])
      BY <1>1 DEF GatewayInv, Shapes
    <3>2. i + 1 \in DOMAIN commands[r] /\ commands'[r][i] = commands[r][i + 1]
      BY <1>3, <1>5, <2>2, <3>1
    <3> QED
      BY <1>1, <2>2, <3>2 DEF FarInv, FromGiven
  <2> QED
    BY <2>1, <2>2
<1> HIDE DEF c
<1>6. ASSUME NEW q \in Routers, NEW n \in DOMAIN routing_table'[q]
      PROVE  routing_table'[q][n].interface \in LANs \/ Far(q)
  <2>1. CASE add_static_route(r, c)
    <3>1. CASE q = r /\ n = c.network
      <4>1. routing_table'[q][n].interface = find_interface_by_ip(r, c.gateway)
        BY <1>6, <2>1, <3>1 DEF add_static_route, Entry, GatewayInv, Shapes
      <4>2. CASE <<r, NetworkOf(c.gateway)>> \in Attached
        BY <4>1, <4>2, LANOfInterface DEF find_interface_by_ip
      <4>3. CASE <<r, NetworkOf(c.gateway)>> \notin Attached
        <5>1. <<r, c>> \in Given("new_static_route")
          BY <1>4, <2>1 DEF FromGiven, add_static_route, Given
        <5>2. \E g \in Given("new_static_route") : g[1] = r /\ Bad(r, g[2])
          BY <4>3, <5>1 DEF Bad
        <5> QED
          BY <3>1, <5>2 DEF Far
      <4> QED
        BY <4>2, <4>3
    <3>2. CASE ~(q = r /\ n = c.network)
      <4>1. n \in DOMAIN routing_table[q] /\ routing_table'[q][n] = routing_table[q][n]
        BY <1>6, <2>1, <3>2 DEF add_static_route, GatewayInv, Shapes
      <4> QED
        BY <4>1 DEF FarInv
    <3> QED
      BY <3>1, <3>2
  <2>2. CASE delete_static_route(r, c)
    <3>1. n \in DOMAIN routing_table[q] /\ routing_table'[q][n] = routing_table[q][n]
      BY <1>6, <2>2 DEF delete_static_route, Restrict, GatewayInv, Shapes
    <3> QED
      BY <3>1 DEF FarInv
  <2>3. CASE add_new_rule(r, c) \/ delete_rule(r, c) \/ reset_all_stats(r, c)
    BY <1>6, <2>3 DEF add_new_rule, delete_rule, reset_all_stats, FarInv
  <2>4. CASE InvalidAddressError(r)
    BY <1>6, <2>4 DEF InvalidAddressError, FarInv
  <2> QED
    BY <2>1, <2>2, <2>3, <2>4 DEF check_for_message, c
<1>7. DOMAIN up' = Routers /\ \A q \in Routers : up'[q] \/ Far(q)
  <2>1. CASE check_for_message(r)
    BY <2>1 DEF check_for_message, FarInv
  <2>2. CASE InvalidAddressError(r)
    <3>1. c.do = "new_static_route" /\ Bad(r, c) /\ up' = [up EXCEPT ![r] = FALSE]
      BY <2>2 DEF InvalidAddressError, Raises, Bad, c
    <3>2. <<r, c>> \in Given("new_static_route")
      BY <1>4, <3>1 DEF FromGiven, Given
    <3>3. Far(r)
      BY <3>1, <3>2 DEF Far
    <3> QED
      BY <3>1, <3>3 DEF FarInv
  <2> QED
    BY <2>1, <2>2
<1> QED
  BY <1>1, <1>5, <1>6, <1>7, FarStays DEF FarInv

(* What is learned is on an interface. *)
LEMMA LearnFar ==
    ASSUME GatewayInv, GatewayInv', FarInv, NEW r \in Routers, NEW n \in Range(Order[r]),
           LearnFromLAN(r, n)
    PROVE  FarInv'
<1>1. /\ commands' = commands /\ given' = given /\ up' = up
      /\ \A q \in Routers : \A m \in DOMAIN routing_table'[q] :
            \/ routing_table'[q][m].type = "dynamic"
            \/ m \in DOMAIN routing_table[q] /\ routing_table'[q][m] = routing_table[q][m]
  BY DEF LearnFromLAN, update_routing_table, Entry, GatewayInv, Shapes, admin
<1>2. ASSUME NEW q \in Routers, NEW m \in DOMAIN routing_table'[q],
             routing_table'[q][m].type = "dynamic"
      PROVE  routing_table'[q][m].interface \in LANs
  <2>1. /\ routing_table'[q][m].gateway \in Attached
        /\ routing_table'[q][m].interface = NetworkOf(routing_table'[q][m].gateway)
    BY <1>2 DEF GatewayInv, Learned, Known, NetworkOf, Attached
  <2>2. PICK s \in Routers : \E k \in Range(Order[s]) : routing_table'[q][m].gateway = <<s, k>>
    BY <2>1 DEF Attached
  <2>3. PICK k \in Range(Order[s]) : routing_table'[q][m].gateway = <<s, k>>
    BY <2>2
  <2> QED
    BY <2>1, <2>3, Interfaces, NetworkOfInterface
<1> QED
  BY <1>1, <1>2, FarStays DEF FarInv, FromGiven

LEMMA StopFar ==
    ASSUME FarInv, NEW r \in Routers, NEW n, NEW entry \in Range(routing_table[r]),
           NoMethodError(r, n, entry)
    PROVE  FarInv'
<1>1. /\ commands' = commands /\ given' = given /\ routing_table' = routing_table
      /\ up' = [up EXCEPT ![r] = FALSE] /\ entry.interface \notin LANs
  BY DEF NoMethodError, admin
<1>2. Far(r)
  BY <1>1 DEF FarInv, Range
<1> QED
  BY <1>1, <1>2, FarStays DEF FarInv, FromGiven

LEMMA FarStep == GatewayInv /\ GatewayInv' /\ FarInv /\ [Next]_vars => FarInv'
<1> SUFFICES ASSUME GatewayInv, GatewayInv', FarInv, [Next]_vars PROVE FarInv'
  OBVIOUS
<1>1. CASE \E p \in Packets : Send(p)
  BY <1>1, SameTables DEF Send, tables, admin
<1>2. CASE \E r \in Routers : \E c \in {g[2] : g \in Commands} : Give(r, c)
  BY <1>2, GiveFar
<1>3. CASE \E r \in Routers : check_for_message(r) \/ InvalidAddressError(r)
  BY <1>3, CommandFar
<1>4. CASE \E r \in Routers : send_updates(r)
  BY <1>4, SameTables DEF send_updates, tables, admin
<1>5. CASE \E r \in Routers : route_packet(r)
  <2>1. PICK r \in Routers : \E n \in Range(Order[r]) :
           \/ Ignore(r, n) \/ LearnFromLAN(r, n) \/ Drop(r, n)
           \/ \E entry \in Range(routing_table[r]) : Forward(r, n, entry) \/ NoMethodError(r, n, entry)
    BY <1>5 DEF route_packet
  <2>2. PICK n \in Range(Order[r]) :
           \/ Ignore(r, n) \/ LearnFromLAN(r, n) \/ Drop(r, n)
           \/ \E entry \in Range(routing_table[r]) : Forward(r, n, entry) \/ NoMethodError(r, n, entry)
    BY <2>1
  <2>3. CASE LearnFromLAN(r, n)
    BY <2>3, LearnFar
  <2>4. CASE \/ Ignore(r, n) \/ Drop(r, n)
             \/ \E entry \in Range(routing_table[r]) : Forward(r, n, entry)
    BY <2>4, SameTables DEF Ignore, Drop, Forward, admin, tables
  <2>5. CASE \E entry \in Range(routing_table[r]) : NoMethodError(r, n, entry)
    BY <2>5, StopFar
  <2> QED
    BY <2>2, <2>3, <2>4, <2>5
<1>6. CASE UNCHANGED vars
  BY <1>6, SameTables DEF vars, tables, admin
<1> QED
  BY <1>1, <1>2, <1>3, <1>4, <1>5, <1>6 DEF Next, Loop

(* Nothing that a host, another router or a rule does ends the main loop: only a static route
   that is mistyped or whose gateway is on no interface. *)
THEOREM OnlyBadRoutesStop == Spec => []StopsOnlyForBadRoute
<1>1. FarInv => StopsOnlyForBadRoute
  BY DEF FarInv, StopsOnlyForBadRoute, Far, Bad
<1> QED
  BY <1>1, FarInit, FarStep, GatewayInvariant, PTL DEF Spec
-----------------------------------------------------------------------------
(* What arrives: routes lead there, and nothing is lost on the way.  For the time in which
   nobody touches a route. *)

(* An entry learned from the router s over LAN n is of a network that s has, but not over n. *)
LearnedFrom(table, r, s, n, x) ==
    /\ <<r, n>> \in Attached /\ <<s, n>> \in Attached /\ s # r
    /\ table[r][x] = Entry(<<s, n>>, n, "dynamic")
    /\ x \in DOMAIN table[s] /\ table[s][x].interface # n
TablesLead(table) ==
    \A r \in Routers :
        /\ \A n \in Range(Order[r]) : /\ n \in DOMAIN table[r]
                                      /\ table[r][n] = Entry(<<r, n>>, n, "direct")
        /\ \A x \in DOMAIN table[r] \ Range(Order[r]) :
            /\ \E s \in Routers : <<s, x>> \in Attached
            /\ \E s \in Routers, n \in LANs : LearnedFrom(table, r, s, n, x)

(* A packet that r captured on LAN n came from its sender's side, and is from its sender or
   from a router that has it go that way; an update has networks of its sender. *)
Origin(f) == NetworkOf(f.packet.from)
Aim(f) == NetworkOf(f.packet.to)
Over(table, r, f, n) == Aim(f) \in DOMAIN table[r] /\ table[r][Aim(f)].interface = n
FromHost(f, n) == f.mac = f.packet.from /\ Origin(f) = n
FromRouter(table, f, r, n) == \E s \in Routers \ {r} :
    /\ <<s, n>> \in Attached /\ f.mac = <<s, n>> /\ Over(table, s, f, n)
    /\ ~(Origin(f) = n /\ Aim(f) = n)
CopyLeads(table, Side, f, r, n) ==
    /\ f.packet \in Packets /\ f.networks = {}
    /\ FromHost(f, n) \/ FromRouter(table, f, r, n)
    /\ Origin(f) \in Side[<<r, n>>]
UpdateLeads(table, f, r, n) == \E s \in Routers \ {r} :
    /\ <<s, n>> \in Attached /\ f.mac = <<s, n>>
    /\ f.packet.from = <<s, n>> /\ f.packet.to = Broadcast(n)
    /\ f.networks \subseteq DOMAIN table[s]
FrameLeads(table, Side, f, r, n) ==
    <<r, n>> \in Attached /\ (CopyLeads(table, Side, f, r, n) \/ UpdateLeads(table, f, r, n))
FramesLead(table, Side, buffers) ==
    \A r \in Routers, n \in LANs : \A f \in Range(buffers[r][n]) : FrameLeads(table, Side, f, r, n)

(* The MAC address of a host of an attached LAN is right. *)
HostsRight(macs) == \A r \in Routers : \A x \in DOMAIN macs[r] \cap Hosts :
    <<r, NetworkOf(x)>> \in Attached => macs[r][x] = x

WayInv(Side) ==
    ~RoutesTouched => /\ TablesLead(routing_table)
                      /\ FramesLead(routing_table, Side, pcap)
                      /\ HostsRight(mac_table)

(* What is sent when all networks are known is there or on its way. *)
OnItsWay(buffers, p) == \E r \in Routers, n \in LANs \ {NetworkOf(p.to)} :
    \E f \in Range(buffers[r][n]) : f.packet = p
Safe(buffers, copies, p) == copies[p] > 0 \/ OnItsWay(buffers, p)
NoneLost == \A p \in Packets :
    sent[p] = "routable" /\ Understood(p) => Knowing /\ Safe(pcap, arrived, p)
LossInv ==
    /\ arrived \in [Packets -> Nat]
    /\ ~RoutesTouched /\ Given("add_new_rule") = {} => NoneLost

(* Commands that wait were given, and there is no rule that none of them added. *)
AskedFor(c, all) == \E g \in all : g[2].do = c.do
CommandInv ==
    /\ DOMAIN filters = Routers
    /\ \A r \in Routers : \A i \in DOMAIN commands[r] : AskedFor(commands[r][i], given)
    /\ Given("add_new_rule") = {} => \A r \in Routers : filters[r] = << >>

(* What each step leaves alone in the time of interest. *)
TablesGrow(old, new) == \A r \in Routers : \A x \in DOMAIN old[r] :
    x \in DOMAIN new[r] /\ new[r][x] = old[r][x]

-----------------------------------------------------------------------------
(* Attached interfaces. *)
LEMMA AttachedIs ==
    ASSUME NEW r, NEW n, <<r, n>> \in Attached
    PROVE  r \in Routers /\ n \in Range(Order[r]) /\ n \in LANs /\ NetworkOf(<<r, n>>) = n
<1>1. PICK q \in Routers : <<r, n>> \in {<<q, m>> : m \in Range(Order[q])}
  BY DEF Attached
<1>2. q = r /\ n \in Range(Order[q])
  BY <1>1
<1> QED
  BY <1>2, Interfaces, NetworkOfInterface

LEMMA NoHost ==
    ASSUME NEW x \in Attached
    PROVE  x \notin Hosts
  BY HomeAssumption

LEMMA PacketHosts ==
    ASSUME NEW p \in Packets
    PROVE  /\ p.from \in Hosts /\ p.to \in Hosts
           /\ NetworkOf(p.from) \in LANs /\ NetworkOf(p.to) \in LANs
  BY PacketsAssumption, HomeAssumption DEF NetworkOf

LEMMA Between ==
    ASSUME NEW Side, Apart(Side), NEW r, NEW n, <<r, n>> \in Attached
    PROVE  /\ n \in Side[<<r, n>>]
           /\ \A k : (<<r, k>> \in Attached /\ k # n) => Side[<<r, n>>] \cap Side[<<r, k>>] = {}
           /\ \A s, k : (<<s, n>> \in Attached /\ s # r /\ <<s, k>> \in Attached /\ k # n)
                => Side[<<s, k>>] \subseteq Side[<<r, n>>]
<1>1. ASSUME NEW k, <<r, k>> \in Attached, k # n
      PROVE  Side[<<r, n>>] \cap Side[<<r, k>>] = {}
  <2>1. <<r, k>> \in Attached \ {<<r, n>>} /\ <<r, k>>[1] = <<r, n>>[1]
    BY <1>1
  <2> QED
    BY <2>1 DEF Apart
<1>2. ASSUME NEW s, NEW k, <<s, n>> \in Attached, s # r, <<s, k>> \in Attached, k # n
      PROVE  Side[<<s, k>>] \subseteq Side[<<r, n>>]
  <2>1. <<s, n>> \in Attached \ {<<r, n>>} /\ <<s, n>>[2] = <<r, n>>[2]
    BY <1>2
  <2>2. <<s, k>> \in Attached \ {<<s, n>>} /\ <<s, k>>[1] = <<s, n>>[1]
    BY <1>2
  <2> QED
    BY <2>1, <2>2 DEF Apart
<1>3. n \in Side[<<r, n>>]
  BY DEF Apart
<1> QED
  BY <1>1, <1>2, <1>3

LEMMA Pair ==
    ASSUME InPairs, NEW r, NEW s, NEW t, NEW n, <<r, n>> \in Attached, <<s, n>> \in Attached,
           <<t, n>> \in Attached, s # r, t # s
    PROVE  t = r
<1>1. <<r, n>> = <<s, n>> \/ <<s, n>> = <<t, n>> \/ <<r, n>> = <<t, n>>
  <2>1. <<r, n>>[2] = <<s, n>>[2] /\ <<s, n>>[2] = <<t, n>>[2]
    OBVIOUS
  <2> QED
    BY <2>1 DEF InPairs
<1> QED
  BY <1>1

(* A router that has a network attached has it over that interface; another one has it from a
   router that has it, and then over another LAN. *)
LEMMA EntryLeads ==
    ASSUME NEW t, TablesLead(t), NEW r \in Routers, NEW x \in DOMAIN t[r]
    PROVE  /\ x \in LANs /\ t[r][x].interface \in LANs
           /\ <<r, t[r][x].interface>> \in Attached
           /\ \E s \in Routers : <<s, x>> \in Attached
           /\ \/ <<r, x>> \in Attached /\ t[r][x] = Entry(<<r, x>>, x, "direct")
              \/ /\ <<r, x>> \notin Attached
                 /\ \E s \in Routers : LearnedFrom(t, r, s, t[r][x].interface, x)
<1>1. CASE x \in Range(Order[r])
  <2>1. <<r, x>> \in Attached /\ x \in LANs /\ t[r][x] = Entry(<<r, x>>, x, "direct")
    BY <1>1, Interfaces DEF TablesLead
  <2>2. t[r][x].interface = x
    BY <2>1 DEF Entry
  <2> QED
    BY <2>1, <2>2
<1>2. CASE x \notin Range(Order[r])
  <2>1. <<r, x>> \notin Attached
    BY <1>2, AttachedIs
  <2>2. PICK s \in Routers, n \in LANs : LearnedFrom(t, r, s, n, x)
    BY <1>2 DEF TablesLead
  <2>3. t[r][x].interface = n /\ <<r, n>> \in Attached
    BY <2>2 DEF LearnedFrom, Entry
  <2>4. PICK q \in Routers : <<q, x>> \in Attached
    BY <1>2 DEF TablesLead
  <2>5. x \in LANs
    BY <2>4, AttachedIs
  <2> QED
    BY <2>1, <2>2, <2>3, <2>4, <2>5
<1> QED
  BY <1>1, <1>2

-----------------------------------------------------------------------------
(* Frames. *)

LEMMA OneCaptured ==
    ASSUME NEW f
    PROVE  SetToSeq({f}) = <<f>>
<1>1. Cardinality({f}) = 1 /\ IsFiniteSet({f})
  BY FS_Singleton
<1>2. SetToSeq({f}) \in Seq({f})
  BY <1>1, SeqOfSet
<1>3. PICK g \in [1 .. Cardinality({f}) -> {f}] : IsInjective(g)
  <2>1. [i \in 1 .. 1 |-> f] \in [1 .. 1 -> {f}] /\ IsInjective([i \in 1 .. 1 |-> f])
    BY DEF IsInjective
  <2> QED
    BY <1>1, <2>1
<1>4. SetToSeq({f}) \in [1 .. 1 -> {f}]
  BY <1>1, <1>3 DEF SetToSeq
<1> QED
  BY <1>2, <1>4

(* What is captured is there, with what was there before. *)
LEMMA CapturedHas ==
    ASSUME NEW b, NEW frames, IsFiniteSet(frames), NEW r \in Routers, NEW n \in LANs,
           Sequence(b[r][n])
    PROVE  /\ Range(b[r][n]) \subseteq Range(Captured(b, frames)[r][n])
           /\ \A f \in Range(Captured(b, frames)[r][n]) :
                \/ f \in Range(b[r][n])
                \/ f \in frames /\ <<r, n>> \in Attached /\ <<r, n>> # f.mac /\ NetworkOf(f.mac) = n
<1> DEFINE X == {f \in frames : /\ up[r] /\ <<r, n>> \in Attached \ {f.mac}
                                /\ NetworkOf(f.mac) = n}
<1>1. Captured(b, frames)[r][n] = b[r][n] \o SetToSeq(X)
  BY DEF Captured
<1>2. IsFiniteSet(X)
  BY FS_Subset
<1>3. SetToSeq(X) \in Seq(X)
  BY <1>2, SeqOfSet
<1>4. PICK S : b[r][n] \in Seq(S)
  BY DEF Sequence
<1>5. \A f \in X : f \in frames /\ <<r, n>> \in Attached /\ <<r, n>> # f.mac /\ NetworkOf(f.mac) = n
  OBVIOUS
<1> HIDE DEF X
<1>6. b[r][n] \in Seq(S \cup X) /\ SetToSeq(X) \in Seq(S \cup X)
  BY <1>3, <1>4, SeqMonotonic
<1> DEFINE s == b[r][n]
           t == SetToSeq(X)
<1>7. /\ Len(s \o t) = Len(s) + Len(t) /\ Len(s) \in Nat /\ Len(t) \in Nat
      /\ DOMAIN (s \o t) = 1 .. Len(s) + Len(t) /\ DOMAIN s = 1 .. Len(s) /\ DOMAIN t = 1 .. Len(t)
      /\ \A i \in 1 .. Len(s) : (s \o t)[i] = s[i]
      /\ \A i \in Len(s) + 1 .. Len(s) + Len(t) : (s \o t)[i] = t[i - Len(s)]
  BY <1>6, ConcatProperties, LenProperties
<1>8. \A i \in DOMAIN t : t[i] \in X
  BY <1>3, ElementType
<1> HIDE DEF s, t
<1>9. Range(s) \subseteq Range(s \o t)
  BY <1>7 DEF Range
<1>10. ASSUME NEW f \in Range(s \o t)
       PROVE  f \in Range(s) \/ f \in X
  <2>1. PICK i \in 1 .. Len(s) + Len(t) : f = (s \o t)[i]
    BY <1>7 DEF Range
  <2>2. CASE i \in 1 .. Len(s)
    BY <1>7, <2>1, <2>2 DEF Range
  <2>3. CASE i \in Len(s) + 1 .. Len(s) + Len(t)
    <3>1. i - Len(s) \in DOMAIN t
      BY <1>7, <2>3
    <3> QED
      BY <1>7, <1>8, <2>1, <2>3, <3>1
  <2> QED
    BY <1>7, <2>1, <2>2, <2>3
<1> QED
  BY <1>1, <1>5, <1>9, <1>10 DEF s, t

LEMMA CapturedEach ==
    ASSUME NEW b, NEW frames, IsFiniteSet(frames), NEW r \in Routers, NEW n \in LANs,
           Sequence(b[r][n]), pcap' = Captured(b, frames), NEW f \in Range(pcap'[r][n])
    PROVE  \/ f \in Range(b[r][n])
           \/ f \in frames /\ <<r, n>> \in Attached /\ <<r, n>> # f.mac /\ NetworkOf(f.mac) = n
  BY CapturedHas

(* When one frame is sent. *)
CapturedOf(b, f) == Captured(b, {f})

LEMMA CapturedLast ==
    ASSUME NEW b, NEW f, NEW r \in Routers, NEW n \in LANs, Sequence(b[r][n]),
           NEW g \in Range(CapturedOf(b, f)[r][n]), g \notin Range(b[r][n])
    PROVE  g = f /\ <<r, n>> \in Attached /\ <<r, n>> # f.mac /\ NetworkOf(f.mac) = n
<1>1. IsFiniteSet({f})
  BY FS_Singleton
<1>2. \A x \in Range(Captured(b, {f})[r][n]) :
        \/ x \in Range(b[r][n])
        \/ x \in {f} /\ <<r, n>> \in Attached /\ <<r, n>> # x.mac /\ NetworkOf(x.mac) = n
  BY <1>1, CapturedHas
<1>3. g \in {f} /\ <<r, n>> \in Attached /\ <<r, n>> # g.mac /\ NetworkOf(g.mac) = n
  BY <1>2 DEF CapturedOf
<1> QED
  BY <1>3

(* Everyone else on the LAN captures a frame. *)
LEMMA CapturedOne ==
    ASSUME NEW b, NEW f, NEW r \in Routers, NEW n \in LANs, Sequence(b[r][n]),
           up[r], <<r, n>> \in Attached, <<r, n>> # f.mac, NetworkOf(f.mac) = n
    PROVE  f \in Range(CapturedOf(b, f)[r][n])
<1>1. {g \in {f} : /\ up[r] /\ <<r, n>> \in Attached \ {g.mac} /\ NetworkOf(g.mac) = n} = {f}
  OBVIOUS
<1>2. Captured(b, {f})[r][n] = b[r][n] \o SetToSeq({g \in {f} :
        /\ up[r] /\ <<r, n>> \in Attached \ {g.mac} /\ NetworkOf(g.mac) = n})
  BY DEF Captured
<1>3. Captured(b, {f})[r][n] = b[r][n] \o <<f>>
  BY <1>1, <1>2, OneCaptured
<1>4. PICK S : b[r][n] \in Seq(S)
  BY DEF Sequence
<1> DEFINE s == b[r][n]
<1>5. s \in Seq(S \cup {f}) /\ <<f>> \in Seq(S \cup {f}) /\ Len(<<f>>) = 1 /\ <<f>>[1] = f
  BY <1>4, SeqMonotonic
<1>6. /\ Len(s) \in Nat /\ DOMAIN (s \o <<f>>) = 1 .. Len(s) + 1
      /\ \A i \in Len(s) + 1 .. Len(s) + 1 : (s \o <<f>>)[i] = <<f>>[i - Len(s)]
  BY <1>5, ConcatProperties, LenProperties
<1> HIDE DEF s
<1>7. Len(s) + 1 \in DOMAIN (s \o <<f>>) /\ (s \o <<f>>)[Len(s) + 1] = f
  BY <1>5, <1>6
<1> QED
  BY <1>3, <1>7 DEF Range, CapturedOf, s

LEMMA FramesAre ==
    ASSUME FramesGood, NEW r \in Routers, NEW n \in LANs
    PROVE  Sequence(pcap[r][n])
  BY DEF FramesGood, OnlyGood, Sequence

(* One frame is taken, the others stay. *)
LEMMA RestHas ==
    ASSUME FramesGood, NEW r \in Routers, NEW n \in Range(Order[r]), next_frame(r, n)
    PROVE  /\ Head(pcap[r][n]) \in Range(pcap[r][n])
           /\ \A q \in Routers, m \in LANs :
                /\ Sequence(Rest(r, n)[q][m])
                /\ Range(Rest(r, n)[q][m]) \subseteq Range(pcap[q][m])
                /\ \A f \in Range(pcap[q][m]) :
                    f \in Range(Rest(r, n)[q][m]) \/ (q = r /\ m = n /\ f = Head(pcap[r][n]))
<1>1. n \in LANs
  BY Interfaces
<1> DEFINE s == pcap[r][n]
<1>2. PICK S : s \in Seq(S)
  BY <1>1, FramesAre DEF Sequence
<1>3. s # << >>
  BY DEF next_frame
<1>4. /\ Head(s) = s[1] /\ Len(s) \in Nat \ {0} /\ DOMAIN s = 1 .. Len(s)
      /\ Tail(s) \in Seq(S) /\ DOMAIN Tail(s) = 1 .. Len(s) - 1
      /\ \A i \in 1 .. Len(s) - 1 : Tail(s)[i] = s[i + 1]
  BY <1>2, <1>3, HeadTailProperties, LenProperties, EmptySeq
<1>5. \A q \in Routers, m \in LANs :
        Rest(r, n)[q][m] = IF q = r /\ m = n THEN Tail(s) ELSE pcap[q][m]
  BY <1>1 DEF Rest, FramesGood
<1> HIDE DEF s
<1>6. Head(s) \in Range(s)
  BY <1>4 DEF Range
<1>7. Range(Tail(s)) \subseteq Range(s)
  <2>1. \A i \in 1 .. Len(s) - 1 : i + 1 \in 1 .. Len(s)
    BY <1>4
  <2> QED
    BY <1>4, <2>1 DEF Range
<1>8. ASSUME NEW f \in Range(s)
      PROVE  f \in Range(Tail(s)) \/ f = Head(s)
  <2>1. PICK i \in 1 .. Len(s) : f = s[i]
    BY <1>4 DEF Range
  <2>2. CASE i = 1
    BY <1>4, <2>1, <2>2
  <2>3. CASE i # 1
    <3>1. i - 1 \in 1 .. Len(s) - 1 /\ (i - 1) + 1 = i
      BY <1>4, <2>3
    <3> QED
      BY <1>4, <2>1, <3>1 DEF Range
  <2> QED
    BY <2>2, <2>3
<1>9. Sequence(Tail(s))
  BY <1>4 DEF Sequence
<1> QED
  BY <1>5, <1>6, <1>7, <1>8, <1>9, FramesAre DEF s

-----------------------------------------------------------------------------
(* Routes lead there. *)

(* What was right stays right while tables grow. *)
LEMMA FrameStays ==
    ASSUME NEW t, NEW u, TablesGrow(t, u), NEW Side, NEW f, NEW r, NEW n,
           FrameLeads(t, Side, f, r, n)
    PROVE  FrameLeads(u, Side, f, r, n)
<1>1. \A s \in Routers : \A x \in DOMAIN t[s] : x \in DOMAIN u[s] /\ u[s][x] = t[s][x]
  BY DEF TablesGrow
<1>2. FromRouter(t, f, r, n) => FromRouter(u, f, r, n)
  BY <1>1 DEF FromRouter, Over
<1>3. UpdateLeads(t, f, r, n) => UpdateLeads(u, f, r, n)
  BY <1>1 DEF UpdateLeads
<1> QED
  BY <1>2, <1>3 DEF FrameLeads, CopyLeads

LEMMA EntryStays ==
    ASSUME NEW t, NEW u, TablesGrow(t, u), NEW r \in Routers, NEW s \in Routers, NEW n,
           NEW x \in DOMAIN t[r], LearnedFrom(t, r, s, n, x)
    PROVE  LearnedFrom(u, r, s, n, x)
<1>1. u[r][x] = t[r][x] /\ \A y \in DOMAIN t[s] : y \in DOMAIN u[s] /\ u[s][y] = t[s][y]
  BY DEF TablesGrow
<1> QED
  BY <1>1 DEF LearnedFrom

(* A router next to the sender of an update learns its networks but those it gave it. *)
LEMMA NewEntry ==
    ASSUME InPairs, NEW t, TablesLead(t), NEW r \in Routers, NEW s \in Routers, s # r, NEW n,
           <<r, n>> \in Attached, <<s, n>> \in Attached,
           NEW x \in DOMAIN t[s], x \notin DOMAIN t[r]
    PROVE  t[s][x].interface # n /\ \E q \in Routers : <<q, x>> \in Attached
<1>1. n \in DOMAIN t[r]
  BY AttachedIs DEF TablesLead
<1>2. ASSUME t[s][x].interface = n
      PROVE  FALSE
  <2>1. CASE <<s, x>> \in Attached /\ t[s][x] = Entry(<<s, x>>, x, "direct")
    BY <1>1, <1>2, <2>1 DEF Entry
  <2>2. CASE \E q \in Routers : LearnedFrom(t, s, q, n, x)
    <3>1. PICK q \in Routers : LearnedFrom(t, s, q, n, x)
      BY <2>2
    <3>2. <<q, n>> \in Attached /\ q # s /\ x \in DOMAIN t[q]
      BY <3>1 DEF LearnedFrom
    <3>3. q = r
      BY <3>2, Pair
    <3> QED
      BY <3>2, <3>3
  <2> QED
    BY <1>2, <2>1, <2>2, EntryLeads
<1> QED
  BY <1>2, EntryLeads

LEMMA LearnTables ==
    ASSUME GatewayInv, InPairs, TablesLead(routing_table), NEW Side,
           NEW r \in Routers, NEW n \in Range(Order[r]), LearnFromLAN(r, n),
           FrameLeads(routing_table, Side, Head(pcap[r][n]), r, n)
    PROVE  TablesLead(routing_table') /\ TablesGrow(routing_table, routing_table')
<1> DEFINE f == Head(pcap[r][n])
           t == routing_table
           u == routing_table'
<1>1. /\ \A q \in Routers \ {r} : u[q] = t[q]
      /\ u[r] = update_routing_table(r, t[r], f.packet.from, f.networks)
  BY DEF LearnFromLAN, GatewayInv, Shapes
<1>2. /\ DOMAIN u[r] = DOMAIN t[r] \cup f.networks
      /\ \A x \in DOMAIN t[r] : u[r][x] = t[r][x]
      /\ \A x \in f.networks \ DOMAIN t[r] :
            u[r][x] = Entry(f.packet.from, find_interface_by_ip(r, f.packet.from), "dynamic")
  BY <1>1 DEF update_routing_table
<1>3. FrameLeads(t, Side, f, r, n) /\ TablesLead(t)
  OBVIOUS
<1>4. <<r, n>> \in Attached /\ n \in LANs
  BY Interfaces
<1> HIDE DEF f, t, u
<1>5. TablesGrow(t, u)
  BY <1>1, <1>2 DEF TablesGrow
<1>6. ASSUME NEW x \in f.networks, x \notin DOMAIN t[r]
      PROVE  /\ \E s \in Routers : <<s, x>> \in Attached
             /\ \E s \in Routers, m \in LANs : LearnedFrom(u, r, s, m, x)
  <2>1. UpdateLeads(t, f, r, n)
    BY <1>3, <1>6 DEF FrameLeads, CopyLeads
  <2>2. PICK s \in Routers \ {r} : /\ <<s, n>> \in Attached /\ f.packet.from = <<s, n>>
                                   /\ f.networks \subseteq DOMAIN t[s]
    BY <2>1 DEF UpdateLeads
  <2>3. find_interface_by_ip(r, <<s, n>>) = n
    BY <1>4, <2>2, AttachedIs DEF find_interface_by_ip
  <2>4. t[s][x].interface # n /\ \E q \in Routers : <<q, x>> \in Attached
    BY <1>3, <1>4, <1>6, <2>2, NewEntry
  <2>5. u[r][x] = Entry(<<s, n>>, n, "dynamic")
    BY <1>2, <1>6, <2>2, <2>3
  <2>6. u[s] = t[s] /\ x \in DOMAIN t[s]
    BY <1>1, <1>6, <2>2
  <2>7. LearnedFrom(u, r, s, n, x)
    BY <1>4, <2>2, <2>4, <2>5, <2>6 DEF LearnedFrom
  <2> QED
    BY <1>4, <2>4, <2>7
<1>7. ASSUME NEW q \in Routers, NEW x \in DOMAIN u[q] \ Range(Order[q])
      PROVE  /\ \E s \in Routers : <<s, x>> \in Attached
             /\ \E s \in Routers, m \in LANs : LearnedFrom(u, q, s, m, x)
  <2>1. CASE x \in DOMAIN t[q]
    <3>1. PICK s \in Routers, m \in LANs : LearnedFrom(t, q, s, m, x)
      BY <1>3, <1>7, <2>1 DEF TablesLead
    <3>2. LearnedFrom(u, q, s, m, x)
      BY <1>5, <2>1, <3>1, EntryStays
    <3> QED
      BY <1>3, <1>7, <2>1, <3>2 DEF TablesLead
  <2>2. CASE x \notin DOMAIN t[q]
    <3>1. q = r /\ x \in f.networks
      BY <1>1, <1>2, <1>7, <2>2
    <3> QED
      BY <1>6, <2>2, <3>1
  <2> QED
    BY <2>1, <2>2
<1>8. \A q \in Routers : \A m \in Range(Order[q]) :
        m \in DOMAIN u[q] /\ u[q][m] = Entry(<<q, m>>, m, "direct")
  BY <1>3, <1>5 DEF TablesLead, TablesGrow
<1>9. TablesLead(u)
  BY <1>7, <1>8 DEF TablesLead
<1> QED
  BY <1>5, <1>9 DEF t, u

(* What a router learns of the hosts on its LANs is right. *)
LEMMA LearnHosts ==
    ASSUME GatewayInv, NEW Side, Apart(Side), HostsRight(mac_table),
           NEW r \in Routers, NEW n \in Range(Order[r]), LearnFromLAN(r, n),
           FrameLeads(routing_table, Side, Head(pcap[r][n]), r, n)
    PROVE  HostsRight(mac_table')
<1> DEFINE f == Head(pcap[r][n])
           m == mac_table
           k == mac_table'
<1>1. /\ \A q \in Routers \ {r} : k[q] = m[q]
      /\ k[r] = learn_mac_addresses(m[r], f) /\ Aim(f) = n
  BY DEF LearnFromLAN, GatewayInv, Shapes, IsLocal, Aim
<1>2. FrameLeads(routing_table, Side, f, r, n) /\ HostsRight(m)
  OBVIOUS
<1> HIDE DEF f, m, k
<1>3. ASSUME f.packet.from \in Hosts, <<r, Origin(f)>> \in Attached
      PROVE  f.mac = f.packet.from
  <2>1. CopyLeads(routing_table, Side, f, r, n) /\ <<r, n>> \in Attached
    BY <1>2, <1>3, NoHost DEF FrameLeads, UpdateLeads
  <2>2. Origin(f) = n
    <3> DEFINE h == Origin(f)
    <3>1. h \in Side[<<r, n>>] /\ <<r, h>> \in Attached
      BY <1>3, <2>1 DEF CopyLeads
    <3> HIDE DEF h
    <3>2. h \in Side[<<r, h>>] /\ (h # n => Side[<<r, h>>] \cap Side[<<r, n>>] = {})
      BY <2>1, <3>1, Between
    <3>3. h = n
      BY <3>1, <3>2
    <3> QED
      BY <3>3 DEF h
  <2>3. ~FromRouter(routing_table, f, r, n)
    BY <1>1, <2>2 DEF FromRouter
  <2> QED
    BY <2>1, <2>3 DEF CopyLeads, FromHost
<1>4. ASSUME NEW q \in Routers, NEW x \in DOMAIN k[q] \cap Hosts, <<q, NetworkOf(x)>> \in Attached
      PROVE  k[q][x] = x
  <2>1. CASE x \in DOMAIN m[q]
    <3>1. k[q][x] = m[q][x]
      BY <1>1, <2>1 DEF learn_mac_addresses
    <3> QED
      BY <1>2, <1>4, <2>1, <3>1 DEF HostsRight
  <2>2. CASE x \notin DOMAIN m[q]
    <3>1. q = r
      BY <1>1, <1>4, <2>2
    <3>2. x = f.packet.from /\ k[q][x] = f.mac
      BY <1>1, <1>4, <2>2, <3>1 DEF learn_mac_addresses
    <3> QED
      BY <1>3, <1>4, <3>1, <3>2 DEF Origin
  <2> QED
    BY <2>1, <2>2
<1>5. HostsRight(k)
  BY <1>4 DEF HostsRight
<1> QED
  BY <1>5 DEF k

(* What was captured before, and what is new, leads there. *)
LEMMA StillLead ==
    ASSUME NEW u, TablesGrow(routing_table, u), NEW Side, NEW b,
           FramesLead(routing_table, Side, pcap),
           \A r \in Routers, n \in LANs : \A f \in Range(b[r][n]) :
                f \in Range(pcap[r][n]) \/ FrameLeads(u, Side, f, r, n)
    PROVE  FramesLead(u, Side, b)
  BY FrameStays DEF FramesLead

LEMMA SendLeads ==
    ASSUME FramesGood, NEW Side, Apart(Side), FramesLead(routing_table, Side, pcap),
           NEW p \in Packets, Send(p)
    PROVE  FramesLead(routing_table, Side, pcap')
<1> DEFINE f == Frame(p, {}, p.from)
<1>1. pcap' = CapturedOf(pcap, f)
  BY DEF Send, CapturedOf
<1>2. f.packet = p /\ f.networks = {} /\ f.mac = p.from
  BY DEF Frame
<1> HIDE DEF f
<1>3. ASSUME NEW r \in Routers, NEW n \in LANs, <<r, n>> \in Attached, NetworkOf(f.mac) = n
      PROVE  FrameLeads(routing_table, Side, f, r, n)
  <2>1. n \in Side[<<r, n>>]
    BY <1>3, Between
  <2> QED
    BY <1>2, <1>3, <2>1 DEF FrameLeads, CopyLeads, FromHost, Origin
<1>5. ASSUME NEW r \in Routers, NEW n \in LANs, NEW g \in Range(pcap'[r][n])
      PROVE  g \in Range(pcap[r][n]) \/ FrameLeads(routing_table, Side, g, r, n)
  <2>1. Sequence(pcap[r][n])
    BY FramesAre
  <2>3. g \in Range(CapturedOf(pcap, f)[r][n])
    BY <1>1
  <2>2. \/ g \in Range(pcap[r][n])
        \/ g = f /\ <<r, n>> \in Attached /\ NetworkOf(f.mac) = n
    BY <2>1, <2>3, CapturedLast
  <2> QED
    BY <1>3, <2>2
<1>6. TablesGrow(routing_table, routing_table)
  BY DEF TablesGrow
<1> QED
  BY <1>5, <1>6, StillLead

LEMMA FiniteUpdates ==
    ASSUME NEW r \in Routers
    PROVE  IsFiniteSet({UpdateFrame(r, n) : n \in Range(Order[r])})
<1> DEFINE frames == {UpdateFrame(r, n) : n \in Range(Order[r])}
           k == Len(Order[r])
           f == [i \in 1 .. k |-> UpdateFrame(r, Order[r][i])]
<1>1. k \in Nat /\ DOMAIN Order[r] = 1 .. k
  BY OrderAssumption, LenProperties
<1>2. IsFiniteSet(1 .. k)
  BY <1>1, FS_Interval
<1>3. f \in Surjection(1 .. k, frames)
  BY <1>1 DEF Surjection, Range
<1> QED
  BY <1>2, <1>3, FS_Surjection

LEMMA UpdateLeadsOn ==
    ASSUME FramesGood, NEW Side, FramesLead(routing_table, Side, pcap),
           NEW r \in Routers, send_updates(r)
    PROVE  FramesLead(routing_table, Side, pcap')
<1> DEFINE frames == {UpdateFrame(r, n) : n \in Range(Order[r])}
<1>1. pcap' = Captured(pcap, frames)
  BY DEF send_updates
<1>2. IsFiniteSet(frames)
  BY FiniteUpdates
<1>3. ASSUME NEW m \in Range(Order[r]), NEW q \in Routers, NEW n \in LANs, <<q, n>> \in Attached,
             <<q, n>> # UpdateFrame(r, m).mac, NetworkOf(UpdateFrame(r, m).mac) = n
      PROVE  FrameLeads(routing_table, Side, UpdateFrame(r, m), q, n)
  <2>1. /\ UpdateFrame(r, m).mac = <<r, m>> /\ UpdateFrame(r, m).packet.from = <<r, m>>
        /\ UpdateFrame(r, m).packet.to = Broadcast(m)
        /\ UpdateFrame(r, m).networks = DOMAIN routing_table[r]
    BY DEF UpdateFrame, Frame
  <2>2. <<r, m>> \in Attached /\ NetworkOf(<<r, m>>) = m
    BY Interfaces, NetworkOfInterface
  <2>3. m = n /\ r \in Routers \ {q}
    BY <1>3, <2>1, <2>2
  <2> QED
    BY <1>3, <2>1, <2>2, <2>3 DEF FrameLeads, UpdateLeads
<1> HIDE DEF frames
<1>5. \A g \in frames : \E m \in Range(Order[r]) : g = UpdateFrame(r, m)
  BY DEF frames
<1>6. TablesGrow(routing_table, routing_table)
  BY DEF TablesGrow
<1>7. ASSUME NEW q \in Routers, NEW n \in LANs, NEW g \in Range(pcap'[q][n]),
             g \notin Range(pcap[q][n])
      PROVE  FrameLeads(routing_table, Side, g, q, n)
  <2>0. Sequence(pcap[q][n])
    BY FramesAre
  <2>1. g \in frames /\ <<q, n>> \in Attached /\ <<q, n>> # g.mac /\ NetworkOf(g.mac) = n
    BY <1>1, <1>2, <1>7, <2>0, CapturedEach
  <2>2. PICK m \in Range(Order[r]) : g = UpdateFrame(r, m)
    BY <1>5, <2>1
  <2> QED
    BY <1>3, <2>1, <2>2
<1> QED
  BY <1>6, <1>7, StillLead

(* An entry for a host is that for its LAN. *)
LEMMA RouteIs ==
    ASSUME NEW t, TablesLead(t), NEW r \in Routers, NEW x \in Hosts
    PROVE  LET d == NetworkOf(x)
           IN /\ d \in DOMAIN t[r] => Route(t[r], x) = {t[r][d]}
              /\ \A e \in Route(t[r], x) : d \in DOMAIN t[r] /\ e = t[r][d]
<1> DEFINE d == NetworkOf(x)
           fits == {n \in DOMAIN t[r] : Includes(n, x)}
<1>1. d \in LANs /\ d # Everywhere
  BY HomeAssumption, PrefixAssumption DEF NetworkOf
<1>2. \A n \in DOMAIN t[r] : n \in LANs /\ n # Everywhere
  BY EntryLeads, PrefixAssumption
<1>3. \A n \in fits : n = d /\ n \in DOMAIN t[r]
  BY <1>2 DEF Includes
<1>4. d \in DOMAIN t[r] => fits = {d}
  BY <1>3 DEF Includes
<1>5. Route(t[r], x) = {t[r][n] : n \in IF fits \cap LANs # {} THEN fits \cap LANs ELSE fits}
  BY DEF Route
<1> HIDE DEF fits, d
<1>6. d \in DOMAIN t[r] => Route(t[r], x) = {t[r][d]}
  <2> SUFFICES ASSUME d \in DOMAIN t[r] PROVE Route(t[r], x) = {t[r][d]}
    OBVIOUS
  <2>1. fits = {d} /\ fits \cap LANs = {d}
    BY <1>1, <1>4
  <2> QED
    BY <1>5, <2>1
<1>7. ASSUME NEW e \in Route(t[r], x)
      PROVE  d \in DOMAIN t[r] /\ e = t[r][d]
  <2>1. PICK n \in fits : e = t[r][n]
    BY <1>5, <1>7
  <2> QED
    BY <1>3, <2>1
<1> QED
  BY <1>6, <1>7 DEF d

(* A packet that is not for this LAN is no update. *)
LEMMA IsOnWay ==
    ASSUME NEW t, NEW Side, NEW f, NEW r, NEW n, FrameLeads(t, Side, f, r, n), ~IsLocal(f, n)
    PROVE  CopyLeads(t, Side, f, r, n) /\ <<r, n>> \in Attached /\ Aim(f) # n
<1>1. <<r, n>> \in Attached /\ n \in LANs /\ Aim(f) # n
  BY AttachedIs DEF FrameLeads, IsLocal, Aim
<1>2. ~UpdateLeads(t, f, r, n)
  BY <1>1, NetworkOfBroadcast DEF UpdateLeads, Aim
<1> QED
  BY <1>1, <1>2 DEF FrameLeads

(* A packet goes on over another LAN, unless it is still in its sender's. *)
LEMMA NotBack ==
    ASSUME InPairs, NEW t, TablesLead(t), NEW Side, NEW r \in Routers, NEW n, NEW f,
           CopyLeads(t, Side, f, r, n), <<r, n>> \in Attached, Aim(f) # n,
           Over(t, r, f, n)
    PROVE  Origin(f) = n
<1>1. CASE FromHost(f, n)
  BY <1>1 DEF FromHost, Origin
<1>2. CASE FromRouter(t, f, r, n)
  <2>1. PICK s \in Routers \ {r} : /\ <<s, n>> \in Attached /\ Aim(f) \in DOMAIN t[s]
                                   /\ t[s][Aim(f)].interface = n
    BY <1>2 DEF FromRouter, Over
  <2>2. t[s][Aim(f)] # Entry(<<s, Aim(f)>>, Aim(f), "direct")
    BY <2>1 DEF Entry
  <2>3. PICK q \in Routers : LearnedFrom(t, s, q, n, Aim(f))
    BY <2>1, <2>2, EntryLeads
  <2>4. <<q, n>> \in Attached /\ q # s /\ t[q][Aim(f)].interface # n
    BY <2>3 DEF LearnedFrom
  <2>5. q = r
    BY <2>1, <2>4, Pair
  <2> QED
    BY <2>4, <2>5 DEF Over
<1> QED
  BY <1>1, <1>2 DEF CopyLeads

LEMMA Onward ==
    ASSUME InPairs, NEW t, TablesLead(t), NEW Side, Apart(Side), NEW r \in Routers, NEW n, NEW f,
           CopyLeads(t, Side, f, r, n), <<r, n>> \in Attached, Aim(f) # n,
           NEW k, Over(t, r, f, k),
           NEW q \in Routers, <<q, k>> \in Attached, q # r, NEW out,
           out.packet = f.packet, out.networks = {}, out.mac = <<r, k>>
    PROVE  FrameLeads(t, Side, out, q, k)
<1>1. <<r, k>> \in Attached
  BY EntryLeads DEF Over
<1>2. Origin(f) \in Side[<<r, n>>] /\ f.packet \in Packets
  BY DEF CopyLeads
<1>3. ~(Origin(f) = k /\ Aim(f) = k)
  <2> SUFFICES ASSUME Origin(f) = k, Aim(f) = k PROVE FALSE
    OBVIOUS
  <2>1. k \in Side[<<r, k>>] /\ (k # n => Side[<<r, k>>] \cap Side[<<r, n>>] = {})
    BY <1>1, Between
  <2> QED
    BY <1>2, <2>1
<1>4. FromRouter(t, out, q, k)
  <2>1. Aim(out) = Aim(f) /\ Origin(out) = Origin(f)
    BY DEF Aim, Origin
  <2>2. r \in Routers \ {q}
    OBVIOUS
  <2>3. Over(t, r, out, k)
    BY <2>1 DEF Over
  <2>4. ~(Origin(out) = k /\ Aim(out) = k)
    BY <1>3, <2>1
  <2> QED
    BY <1>1, <2>2, <2>3, <2>4 DEF FromRouter
<1>5. Origin(f) \in Side[<<q, k>>]
  <2>1. CASE k # n
    <3>1. Side[<<r, n>>] \subseteq Side[<<q, k>>]
      BY <1>1, <2>1, Between
    <3> QED
      BY <1>2, <3>1
  <2>2. CASE k = n
    <3>1. Origin(f) = n
      BY <2>2, NotBack
    <3>2. k \in Side[<<q, k>>]
      BY Between
    <3> QED
      BY <2>2, <3>1, <3>2
  <2> QED
    BY <2>1, <2>2
<1> QED
  BY <1>2, <1>4, <1>5 DEF FrameLeads, CopyLeads, Origin

LEMMA ForwardLeads ==
    ASSUME FramesGood, InPairs, NEW Side, Apart(Side), TablesLead(routing_table),
           FramesLead(routing_table, Side, pcap),
           NEW r \in Routers, NEW n \in Range(Order[r]), NEW entry, Forward(r, n, entry)
    PROVE  FramesLead(routing_table, Side, pcap')
<1>1. PICK f : f = Head(pcap[r][n])
  OBVIOUS
<1>2. PICK out : out = Frame(f.packet, {}, <<r, entry.interface>>)
  OBVIOUS
<1>3. /\ next_frame(r, n) /\ ~IsLocal(f, n) /\ entry \in Route(routing_table[r], f.packet.to)
      /\ pcap' = Rest(r, n) \/ pcap' = CapturedOf(Rest(r, n), out)
  BY <1>1, <1>2 DEF Forward, CapturedOf
<1>4. n \in LANs
  BY Interfaces
<1>5. /\ f \in Range(pcap[r][n])
      /\ \A q \in Routers, m \in LANs : /\ Sequence(Rest(r, n)[q][m])
                                        /\ Range(Rest(r, n)[q][m]) \subseteq Range(pcap[q][m])
  BY <1>1, <1>3, RestHas
<1>6. FrameLeads(routing_table, Side, f, r, n)
  BY <1>4, <1>5 DEF FramesLead
<1>7. CopyLeads(routing_table, Side, f, r, n) /\ <<r, n>> \in Attached /\ Aim(f) # n
  BY <1>3, <1>6, IsOnWay
<1>8. f.packet.to \in Hosts
  BY <1>7, PacketHosts DEF CopyLeads
<1>10. Aim(f) \in DOMAIN routing_table[r] /\ entry = routing_table[r][Aim(f)]
  BY <1>3, <1>8, RouteIs DEF Aim
<1>11. PICK k : k = entry.interface
  OBVIOUS
<1>12. <<r, k>> \in Attached
  BY <1>10, <1>11, EntryLeads
<1>13. NetworkOf(<<r, k>>) = k
  BY <1>12, AttachedIs
<1>14. out.packet = f.packet /\ out.networks = {} /\ out.mac = <<r, k>>
  BY <1>2, <1>11 DEF Frame
<1>17. Over(routing_table, r, f, k)
  BY <1>10, <1>11 DEF Over
<1>15. ASSUME NEW q \in Routers, NEW m \in LANs, NEW g \in Range(pcap'[q][m]),
              g \notin Range(pcap[q][m])
       PROVE  FrameLeads(routing_table, Side, g, q, m)
  <2>1. g \notin Range(Rest(r, n)[q][m]) /\ Sequence(Rest(r, n)[q][m])
    BY <1>5, <1>15
  <2>2. g \in Range(CapturedOf(Rest(r, n), out)[q][m])
    BY <1>3, <1>15, <2>1
  <2>4. g = out /\ <<q, m>> \in Attached /\ <<q, m>> # out.mac /\ NetworkOf(out.mac) = m
    BY <2>1, <2>2, CapturedLast
  <2>5. g = out /\ m = k /\ q # r /\ <<q, k>> \in Attached
    BY <1>13, <1>14, <2>4
  <2>6. FrameLeads(routing_table, Side, out, q, k)
    BY <1>7, <1>14, <1>17, <2>5, Onward
  <2> QED
    BY <2>5, <2>6
<1>16. TablesGrow(routing_table, routing_table)
  BY DEF TablesGrow
<1> QED
  BY <1>15, <1>16, StillLead

-----------------------------------------------------------------------------
(* In the time of interest tables only grow. *)
LEMMA CommandInit == Init => CommandInv
<1> SUFFICES ASSUME Init PROVE CommandInv
  OBVIOUS
<1>1. filters = [r \in Routers |-> << >>] /\ commands = [r \in Routers |-> << >>]
  BY DEF Init
<1> QED
  BY <1>1 DEF CommandInv

LEMMA AskedStays ==
    ASSUME NEW c, given \subseteq given', AskedFor(c, given)
    PROVE  AskedFor(c, given')
  BY DEF AskedFor

LEMMA SameCommands ==
    ASSUME CommandInv, commands' = commands, given' = given, filters' = filters
    PROVE  CommandInv'
  BY DEF CommandInv, Given

LEMMA GiveAsks ==
    ASSUME GatewayInv, CommandInv, NEW r \in Routers, NEW c, Give(r, c)
    PROVE  CommandInv'
<1> DEFINE d == IF c.do = "delete_rule"
                THEN [do |-> "delete_rule",
                      id |-> SelectInSeq(meant[r], LAMBDA rule : rule = c.rule) - 1]
                ELSE c
<1>1. /\ given' = given \cup {<<r, c>>} /\ filters' = filters
      /\ commands' = [commands EXCEPT ![r] = Append(@, d)]
  BY DEF Give, tables
<1>2. AskedFor(d, given')
  <2>1. d.do = c.do
    OBVIOUS
  <2>2. <<r, c>> \in given' /\ <<r, c>>[2].do = c.do
    BY <1>1
  <2> QED
    BY <2>1, <2>2 DEF AskedFor
<1> HIDE DEF d
<1>3. given \subseteq given'
  BY <1>1
<1>4. ASSUME NEW q \in Routers, NEW i \in DOMAIN commands'[q]
      PROVE  AskedFor(commands'[q][i], given')
  <2>1. CASE q # r
    <3>1. i \in DOMAIN commands[q] /\ commands'[q][i] = commands[q][i]
      BY <1>1, <1>4, <2>1 DEF GatewayInv, Shapes
    <3> QED
      BY <1>3, <3>1, AskedStays DEF CommandInv
  <2>2. CASE q = r
    <3>1. PICK S : commands[r] \in Seq(S)
      BY DEF GatewayInv, Shapes, Sequence
    <3>2. commands[r] \in Seq(S \cup {d})
      BY <3>1, SeqMonotonic
    <3>3. commands'[r] = Append(commands[r], d)
      BY <1>1 DEF GatewayInv, Shapes
    <3>4. \/ commands'[r][i] = d
          \/ i \in DOMAIN commands[r] /\ commands'[r][i] = commands[r][i]
      BY <1>4, <2>2, <3>2, <3>3, AppendProperties, LenProperties
    <3> QED
      BY <1>2, <1>3, <2>2, <3>4, AskedStays DEF CommandInv
  <2> QED
    BY <2>1, <2>2
<1>5. Given("add_new_rule")' = {} => Given("add_new_rule") = {}
  BY <1>3 DEF Given
<1> QED
  BY <1>1, <1>4, <1>5 DEF CommandInv

LEMMA CommandAsks ==
    ASSUME GatewayInv, CommandInv, NEW r \in Routers, check_for_message(r) \/ InvalidAddressError(r)
    PROVE  /\ CommandInv'
           /\ ~RoutesTouched => check_for_message(r) /\ routing_table' = routing_table
<1> DEFINE c == Head(commands[r])
           Raised == /\ InvalidAddressError(r) /\ c.do = "new_static_route"
                     /\ filters' = filters /\ routing_table' = routing_table
<1>1. /\ commands[r] # << >> /\ commands' = [commands EXCEPT ![r] = Tail(@)] /\ given' = given
      /\ \/ add_static_route(r, c) \/ delete_static_route(r, c)
         \/ add_new_rule(r, c) \/ delete_rule(r, c) \/ reset_all_stats(r, c)
         \/ Raised
  BY DEF check_for_message, InvalidAddressError, admin
<1>2. PICK S : commands[r] \in Seq(S)
  BY DEF GatewayInv, Shapes, Sequence
<1>3. /\ Len(commands[r]) \in Nat \ {0} /\ c = commands[r][1]
      /\ DOMAIN commands[r] = 1 .. Len(commands[r])
      /\ DOMAIN Tail(commands[r]) = 1 .. Len(commands[r]) - 1
      /\ \A i \in 1 .. Len(commands[r]) - 1 : Tail(commands[r])[i] = commands[r][i + 1]
  BY <1>1, <1>2, HeadTailProperties, LenProperties, EmptySeq
<1>4. AskedFor(c, given)
  BY <1>3 DEF CommandInv
<1>5. ASSUME NEW q \in Routers, NEW i \in DOMAIN commands'[q]
      PROVE  AskedFor(commands'[q][i], given')
  <2>1. CASE q # r
    BY <1>1, <1>5, <2>1 DEF CommandInv, GatewayInv, Shapes
  <2>2. CASE q = r
    <3>1. commands'[r] = Tail(commands[r])
      BY <1>1 DEF GatewayInv, Shapes
    <3>2. i + 1 \in DOMAIN commands[r] /\ commands'[r][i] = commands[r][i + 1]
      BY <1>3, <1>5, <2>2, <3>1
    <3> QED
      BY <1>1, <2>2, <3>2 DEF CommandInv
  <2> QED
    BY <2>1, <2>2
<1> HIDE DEF c
<1>6. PICK g \in given : g[2].do = c.do
  BY <1>4 DEF AskedFor
<1>7. ~RoutesTouched => c.do # "new_static_route" /\ c.do # "delete_static_route"
  BY <1>6 DEF RoutesTouched, Given
<1>13. ~RoutesTouched => check_for_message(r)
  BY <1>7 DEF Raised, InvalidAddressError, c
<1>8. Given("add_new_rule") = {} => c.do # "add_new_rule"
  BY <1>6 DEF Given
<1>9. ~RoutesTouched => routing_table' = routing_table
  BY <1>1, <1>7 DEF add_static_route, delete_static_route, add_new_rule, delete_rule, reset_all_stats
<1>10. DOMAIN filters' = Routers
  BY <1>1 DEF add_static_route, delete_static_route, add_new_rule, delete_rule, reset_all_stats,
              Raised, CommandInv
<1>11. ASSUME Given("add_new_rule") = {}, NEW q \in Routers
       PROVE  filters'[q] = << >>
  <2>1. filters[q] = << >> /\ DOMAIN filters = Routers
    BY <1>11 DEF CommandInv
  <2>2. CASE delete_rule(r, c)
    <3>1. filters' = [filters EXCEPT ![r] = DeleteAt(@, c.id)]
      BY <2>2 DEF delete_rule
    <3>2. DOMAIN << >> = {}
      OBVIOUS
    <3>3. DeleteAt(<< >>, c.id) = << >>
      BY <3>2 DEF DeleteAt
    <3> QED
      BY <2>1, <3>1, <3>3
  <2>3. CASE ~delete_rule(r, c)
    <3>1. filters' = filters
      BY <1>1, <1>8, <1>11, <2>3 DEF add_static_route, delete_static_route, add_new_rule,
                                     reset_all_stats, Raised
    <3> QED
      BY <2>1, <3>1
  <2> QED
    BY <2>2, <2>3
<1>12. Given("add_new_rule")' = Given("add_new_rule")
  BY <1>1 DEF Given
<1> QED
  BY <1>5, <1>9, <1>10, <1>11, <1>12, <1>13 DEF CommandInv

LEMMA FramesChange ==
    ASSUME NEW r \in Routers, route_packet(r)
    PROVE  commands' = commands /\ given' = given /\ filters' = filters /\ sent' = sent
<1>1. PICK n \in Range(Order[r]) :
           \/ Ignore(r, n) \/ LearnFromLAN(r, n) \/ Drop(r, n)
           \/ \E entry \in Range(routing_table[r]) : Forward(r, n, entry) \/ NoMethodError(r, n, entry)
  BY DEF route_packet
<1>2. CASE Ignore(r, n) \/ LearnFromLAN(r, n) \/ Drop(r, n)
  BY <1>2 DEF Ignore, LearnFromLAN, Drop, tables, admin
<1>3. CASE \E entry \in Range(routing_table[r]) : Forward(r, n, entry)
  BY <1>3 DEF Forward, admin
<1>4. CASE \E entry \in Range(routing_table[r]) : NoMethodError(r, n, entry)
  BY <1>4 DEF NoMethodError, admin
<1> QED
  BY <1>1, <1>2, <1>3, <1>4

(* What was given stays given. *)
LEMMA GivenGrows ==
    ASSUME [Next]_vars
    PROVE  given \subseteq given'
<1>1. CASE \E p \in Packets : Send(p)
  BY <1>1 DEF Send, admin
<1>2. CASE \E r \in Routers : \E c \in {g[2] : g \in Commands} : Give(r, c)
  BY <1>2 DEF Give
<1>3. CASE \E r \in Routers :
           check_for_message(r) \/ InvalidAddressError(r) \/ send_updates(r)
  BY <1>3 DEF check_for_message, InvalidAddressError, send_updates, admin
<1>4. CASE \E r \in Routers : route_packet(r)
  BY <1>4, FramesChange
<1>5. CASE UNCHANGED vars
  BY <1>5 DEF vars, admin
<1> QED
  BY <1>1, <1>2, <1>3, <1>4, <1>5 DEF Next, Loop

LEMMA CommandStep == GatewayInv /\ CommandInv /\ [Next]_vars => CommandInv'
<1> SUFFICES ASSUME GatewayInv, CommandInv, [Next]_vars PROVE CommandInv'
  OBVIOUS
<1>1. CASE \E p \in Packets : Send(p)
  BY <1>1, SameCommands DEF Send, tables, admin
<1>2. CASE \E r \in Routers : \E c \in {g[2] : g \in Commands} : Give(r, c)
  BY <1>2, GiveAsks
<1>3. CASE \E r \in Routers : check_for_message(r) \/ InvalidAddressError(r)
  BY <1>3, CommandAsks
<1>4. CASE \E r \in Routers : send_updates(r)
  BY <1>4, SameCommands DEF send_updates, tables, admin
<1>5. CASE \E r \in Routers : route_packet(r)
  BY <1>5, FramesChange, SameCommands
<1>6. CASE UNCHANGED vars
  BY <1>6, SameCommands DEF vars, tables, admin
<1> QED
  BY <1>1, <1>2, <1>3, <1>4, <1>5, <1>6 DEF Next, Loop

LEMMA CommandInvariant == Spec => []CommandInv
  BY CommandInit, CommandStep, GatewayInvariant, PTL DEF Spec

-----------------------------------------------------------------------------
(* Each step leads on. *)
LEMMA WayInit ==
    ASSUME NEW CONSTANT Side
    PROVE  Init => WayInv(Side)
<1> SUFFICES ASSUME Init PROVE WayInv(Side)
  OBVIOUS
<1>1. /\ routing_table = [r \in Routers |-> open_interfaces(r)]
      /\ mac_table = [r \in Routers |-> << >>]
      /\ pcap = [r \in Routers |-> [n \in LANs |-> << >>]]
  BY DEF Init
<1>2. \A r \in Routers : DOMAIN routing_table[r] = Range(Order[r])
  BY <1>1 DEF open_interfaces
<1>3. TablesLead(routing_table)
  BY <1>1, <1>2 DEF TablesLead, open_interfaces
<1>4. FramesLead(routing_table, Side, pcap)
  BY <1>1 DEF FramesLead, Range
<1>5. HostsRight(mac_table)
  BY <1>1 DEF HostsRight
<1> QED
  BY <1>3, <1>4, <1>5 DEF WayInv

LEMMA WayStays ==
    ASSUME NEW CONSTANT Side, TablesLead(routing_table), HostsRight(mac_table),
           routing_table' = routing_table, mac_table' = mac_table,
           FramesLead(routing_table, Side, pcap')
    PROVE  WayInv(Side)'
  BY DEF WayInv

LEMMA FewerFrames ==
    ASSUME FramesGood, NEW u, TablesGrow(routing_table, u), NEW Side,
           FramesLead(routing_table, Side, pcap),
           NEW r \in Routers, NEW n \in Range(Order[r]), next_frame(r, n)
    PROVE  FramesLead(u, Side, Rest(r, n))
<1>1. ASSUME NEW q \in Routers, NEW m \in LANs, NEW f \in Range(Rest(r, n)[q][m])
      PROVE  f \in Range(pcap[q][m])
  BY <1>1, RestHas
<1> QED
  BY <1>1, StillLead

(* No entry has an interface that is none. *)
LEMMA NoStop ==
    ASSUME FramesGood, NEW Side, TablesLead(routing_table), FramesLead(routing_table, Side, pcap),
           NEW r \in Routers, NEW n \in Range(Order[r]), NEW entry, NoMethodError(r, n, entry)
    PROVE  FALSE
<1>1. PICK f : f = Head(pcap[r][n])
  OBVIOUS
<1>2. /\ next_frame(r, n) /\ ~IsLocal(f, n) /\ entry \in Route(routing_table[r], f.packet.to)
      /\ entry.interface \notin LANs
  BY <1>1 DEF NoMethodError
<1>3. n \in LANs /\ f \in Range(pcap[r][n])
  BY <1>1, <1>2, Interfaces, RestHas
<1>4. CopyLeads(routing_table, Side, f, r, n)
  BY <1>2, <1>3, IsOnWay DEF FramesLead
<1>5. f.packet.to \in Hosts
  BY <1>4, PacketHosts DEF CopyLeads
<1>6. Aim(f) \in DOMAIN routing_table[r] /\ entry = routing_table[r][Aim(f)]
  BY <1>2, <1>5, RouteIs DEF Aim
<1> QED
  BY <1>2, <1>6, EntryLeads

LEMMA WayStep ==
    ASSUME InPairs, NEW CONSTANT Side, Apart(Side), LetInv, GatewayInv, CommandInv, WayInv(Side),
           [Next]_vars
    PROVE  WayInv(Side)'
<1>1. given \subseteq given'
  BY GivenGrows
<1>2. ~RoutesTouched' => ~RoutesTouched
  BY <1>1 DEF RoutesTouched, Given
<1> SUFFICES ASSUME ~RoutesTouched, ~RoutesTouched' PROVE WayInv(Side)'
  BY <1>2 DEF WayInv
<1> USE DEF LetInv
<1>3. /\ TablesLead(routing_table) /\ FramesLead(routing_table, Side, pcap)
      /\ HostsRight(mac_table) /\ FramesGood
  BY DEF WayInv
<1>4. CASE \E p \in Packets : Send(p)
  <2>1. PICK p \in Packets : Send(p)
    BY <1>4
  <2>2. FramesLead(routing_table, Side, pcap')
    BY <1>3, <2>1, SendLeads
  <2> QED
    BY <1>3, <2>1, <2>2, WayStays DEF Send, tables
<1>5. CASE \E r \in Routers : \E c \in {g[2] : g \in Commands} : Give(r, c)
  BY <1>3, <1>5, WayStays DEF Give, tables, traffic
<1>6. CASE \E r \in Routers : check_for_message(r) \/ InvalidAddressError(r)
  <2>1. PICK r \in Routers : check_for_message(r) \/ InvalidAddressError(r)
    BY <1>6
  <2>2. check_for_message(r) /\ routing_table' = routing_table
    BY <2>1, CommandAsks
  <2> QED
    BY <1>3, <2>2, WayStays DEF check_for_message, traffic
<1>7. CASE \E r \in Routers : send_updates(r)
  <2>1. PICK r \in Routers : send_updates(r)
    BY <1>7
  <2>2. FramesLead(routing_table, Side, pcap')
    BY <1>3, <2>1, UpdateLeadsOn
  <2> QED
    BY <1>3, <2>1, <2>2, WayStays DEF send_updates, tables
<1>8. CASE \E r \in Routers : route_packet(r)
  <2>1. PICK r \in Routers : \E n \in Range(Order[r]) :
           \/ Ignore(r, n) \/ LearnFromLAN(r, n) \/ Drop(r, n)
           \/ \E entry \in Range(routing_table[r]) : Forward(r, n, entry) \/ NoMethodError(r, n, entry)
    BY <1>8 DEF route_packet
  <2>2. PICK n \in Range(Order[r]) :
           \/ Ignore(r, n) \/ LearnFromLAN(r, n) \/ Drop(r, n)
           \/ \E entry \in Range(routing_table[r]) : Forward(r, n, entry) \/ NoMethodError(r, n, entry)
    BY <2>1
  <2>3. CASE LearnFromLAN(r, n)
    <3>1. next_frame(r, n) /\ pcap' = Rest(r, n)
      BY <2>3 DEF LearnFromLAN
    <3>2. n \in LANs /\ Head(pcap[r][n]) \in Range(pcap[r][n])
      BY <1>3, <3>1, Interfaces, RestHas
    <3>3. FrameLeads(routing_table, Side, Head(pcap[r][n]), r, n)
      BY <1>3, <3>2 DEF FramesLead
    <3>4. TablesLead(routing_table') /\ TablesGrow(routing_table, routing_table')
      BY <1>3, <2>3, <3>3, LearnTables
    <3>5. HostsRight(mac_table')
      BY <1>3, <2>3, <3>3, LearnHosts
    <3>6. FramesLead(routing_table', Side, pcap')
      BY <1>3, <3>1, <3>4, FewerFrames
    <3> QED
      BY <3>4, <3>5, <3>6 DEF WayInv
  <2>4. CASE Ignore(r, n) \/ Drop(r, n)
    <3>1. next_frame(r, n) /\ pcap' = Rest(r, n)
      BY <2>4 DEF Ignore, Drop
    <3>2. TablesGrow(routing_table, routing_table)
      BY DEF TablesGrow
    <3>3. FramesLead(routing_table, Side, pcap')
      BY <1>3, <3>1, <3>2, FewerFrames
    <3> QED
      BY <1>3, <2>4, <3>3, WayStays DEF Ignore, Drop, tables
  <2>5. CASE \E entry \in Range(routing_table[r]) : Forward(r, n, entry)
    <3>1. PICK entry \in Range(routing_table[r]) : Forward(r, n, entry)
      BY <2>5
    <3>2. FramesLead(routing_table, Side, pcap')
      BY <1>3, <3>1, ForwardLeads
    <3> QED
      BY <1>3, <3>1, <3>2, WayStays DEF Forward
  <2>6. CASE \E entry \in Range(routing_table[r]) : NoMethodError(r, n, entry)
    BY <1>3, <2>6, NoStop
  <2> QED
    BY <2>2, <2>3, <2>4, <2>5, <2>6
<1>9. CASE UNCHANGED vars
  BY <1>3, <1>9, WayStays DEF vars, tables, traffic
<1> QED
  BY <1>4, <1>5, <1>6, <1>7, <1>8, <1>9 DEF Next, Loop

-----------------------------------------------------------------------------
(* Nothing is lost. *)
LEMMA ReceivedMore ==
    ASSUME arrived \in [Packets -> Nat], NEW f, NEW dst
    PROVE  /\ Received(f, dst) \in [Packets -> Nat]
           /\ \A p \in Packets : arrived[p] > 0 => Received(f, dst)[p] > 0
  BY DEF Received

LEMMA ReceivedIt ==
    ASSUME arrived \in [Packets -> Nat], NEW p \in Packets, NEW f, NEW dst,
           f.packet = p, p.to \in dst, NetworkOf(p.to) = NetworkOf(f.mac)
    PROVE  Received(f, dst)[p] > 0
<1>1. arrived[p] \in Nat /\ MaxCount \in Nat \ {0}
  BY BoundsAssumption
<1>2. Received(f, dst)[p] = IF arrived[p] < MaxCount THEN arrived[p] + 1 ELSE arrived[p]
  BY DEF Received
<1> QED
  BY <1>1, <1>2

LEMMA SafeThere ==
    ASSUME NEW b, NEW copies, NEW p, NEW r \in Routers, NEW n \in LANs, n # NetworkOf(p.to),
           NEW f \in Range(b[r][n]), f.packet = p
    PROVE  Safe(b, copies, p)
  BY DEF Safe, OnItsWay

(* A packet stays safe if that holds for the copy that is on its way. *)
LEMMA SafeStays ==
    ASSUME NEW p \in Packets, Safe(pcap, arrived, p), arrived[p] > 0 => arrived'[p] > 0,
           \A q \in Routers, m \in LANs : m # NetworkOf(p.to) =>
                \A g \in Range(pcap[q][m]) : g.packet = p => Safe(pcap', arrived', p)
    PROVE  Safe(pcap', arrived', p)
<1>1. CASE arrived[p] > 0
  BY <1>1 DEF Safe
<1>2. CASE OnItsWay(pcap, p)
  BY <1>2 DEF OnItsWay
<1> QED
  BY <1>1, <1>2 DEF Safe

LEMMA KnowingStays ==
    ASSUME TablesGrow(routing_table, routing_table'), Knowing
    PROVE  Knowing'
  BY DEF Knowing, TablesGrow

(* One step's part: the packets that were sent already. *)
LEMMA NoneLostStays ==
    ASSUME TablesGrow(routing_table, routing_table'), sent' = sent, NoneLost,
           \A p \in Packets : (/\ sent[p] = "routable" /\ Understood(p)
                               /\ Knowing /\ Safe(pcap, arrived, p)) => Safe(pcap', arrived', p)
    PROVE  NoneLost'
<1>1. Knowing => Knowing'
  BY KnowingStays
<1> QED
  BY <1>1 DEF NoneLost

LEMMA CapturedMore ==
    ASSUME NEW b, NEW f, NEW r \in Routers, NEW n \in LANs, Sequence(b[r][n]),
           NEW g \in Range(b[r][n])
    PROVE  g \in Range(CapturedOf(b, f)[r][n])
<1>1. IsFiniteSet({f})
  BY FS_Singleton
<1>2. Range(b[r][n]) \subseteq Range(Captured(b, {f})[r][n])
  BY <1>1, CapturedHas
<1> QED
  BY <1>2 DEF CapturedOf

(* A host reaches a host of its LAN itself, and a router otherwise. *)
LEMMA SendSafe ==
    ASSUME Routers # {}, FramesGood, TablesLead(routing_table), \A r \in Routers : up[r],
           arrived \in [Packets -> Nat], DOMAIN sent = Packets, NoneLost,
           NEW p \in Packets, Send(p)
    PROVE  NoneLost'
<1>1. PICK f : f = Frame(p, {}, p.from)
  OBVIOUS
<1>2. /\ pcap' = CapturedOf(pcap, f) /\ arrived' = Received(f, {p.to}) /\ sent[p] = "no"
      /\ sent' = [sent EXCEPT ![p] = IF Knowing THEN "routable" ELSE "early"]
      /\ routing_table' = routing_table
  BY <1>1 DEF Send, CapturedOf, tables
<1>3. f.packet = p /\ f.mac = p.from
  BY <1>1 DEF Frame
<1>4. Knowing' <=> Knowing
  BY <1>2 DEF Knowing
<1>5. ASSUME Knowing
      PROVE  Safe(pcap', arrived', p)
  <2>1. CASE NetworkOf(p.to) = NetworkOf(p.from)
    <3>1. arrived'[p] > 0
      BY <1>2, <1>3, <2>1, ReceivedIt
    <3> QED
      BY <3>1 DEF Safe
  <2>2. CASE NetworkOf(p.to) # NetworkOf(p.from)
    <3>1. PICK h : h = NetworkOf(p.from)
      OBVIOUS
    <3>2. h \in LANs /\ p.from \in Hosts
      BY <3>1, PacketHosts
    <3>3. PICK q \in Routers : h \in DOMAIN routing_table[q]
      BY <1>5, <3>2 DEF Knowing
    <3>4. PICK s \in Routers : <<s, h>> \in Attached
      BY <3>3, EntryLeads
    <3>5. <<s, h>> # f.mac /\ NetworkOf(f.mac) = h
      BY <1>3, <3>1, <3>2, <3>4, NoHost
    <3>6. f \in Range(CapturedOf(pcap, f)[s][h])
      BY <3>2, <3>4, <3>5, FramesAre, CapturedOne
    <3>7. f \in Range(pcap'[s][h])
      BY <1>2, <3>6
    <3> QED
      BY <1>3, <2>2, <3>1, <3>2, <3>7, SafeThere
  <2> QED
    BY <2>1, <2>2
<1>6. ASSUME NEW q \in Packets, q # p, Safe(pcap, arrived, q)
      PROVE  Safe(pcap', arrived', q)
  <2>1. arrived[q] > 0 => arrived'[q] > 0
    BY <1>2, ReceivedMore
  <2>2. ASSUME NEW r \in Routers, NEW m \in LANs, m # NetworkOf(q.to),
               NEW g \in Range(pcap[r][m]), g.packet = q
        PROVE  Safe(pcap', arrived', q)
    <3>1. g \in Range(CapturedOf(pcap, f)[r][m])
      BY FramesAre, CapturedMore
    <3>2. g \in Range(pcap'[r][m])
      BY <1>2, <3>1
    <3> QED
      BY <2>2, <3>2, SafeThere
  <2> QED
    BY <1>6, <2>1, <2>2, SafeStays
<1>7. ASSUME NEW q \in Packets, sent'[q] = "routable", Understood(q)
      PROVE  Knowing' /\ Safe(pcap', arrived', q)
  <2>1. CASE q = p
    <3>1. Knowing
      BY <1>2, <1>7, <2>1
    <3> QED
      BY <1>4, <1>5, <2>1, <3>1
  <2>2. CASE q # p
    <3>1. sent[q] = "routable"
      BY <1>2, <1>7, <2>2
    <3> QED
      BY <1>4, <1>6, <1>7, <2>2, <3>1 DEF NoneLost
  <2> QED
    BY <2>1, <2>2
<1> QED
  BY <1>7 DEF NoneLost

LEMMA UpdatesSafe ==
    ASSUME FramesGood, NoneLost, NEW r \in Routers, send_updates(r)
    PROVE  NoneLost'
<1> DEFINE frames == {UpdateFrame(r, n) : n \in Range(Order[r])}
<1>1. /\ pcap' = Captured(pcap, frames) /\ arrived' = arrived /\ sent' = sent
      /\ routing_table' = routing_table
  BY DEF send_updates, tables
<1>2. IsFiniteSet(frames)
  BY FiniteUpdates
<1>3. TablesGrow(routing_table, routing_table')
  BY <1>1 DEF TablesGrow
<1> HIDE DEF frames
<1>4. ASSUME NEW p \in Packets, Safe(pcap, arrived, p)
      PROVE  Safe(pcap', arrived', p)
  <2>1. ASSUME NEW q \in Routers, NEW m \in LANs, m # NetworkOf(p.to),
               NEW g \in Range(pcap[q][m]), g.packet = p
        PROVE  Safe(pcap', arrived', p)
    <3>1. Range(pcap[q][m]) \subseteq Range(Captured(pcap, frames)[q][m])
      BY <1>2, FramesAre, CapturedHas
    <3>2. g \in Range(pcap'[q][m])
      BY <1>1, <3>1
    <3> QED
      BY <2>1, <3>2, SafeThere
  <2> QED
    BY <1>1, <1>4, <2>1, SafeStays
<1> QED
  BY <1>1, <1>3, <1>4, NoneLostStays

(* A frame that is taken and goes nowhere was no copy on its way, or of a protocol that the
   router does not know. *)
LEMMA TakenSafe ==
    ASSUME FramesGood, NoneLost, TablesGrow(routing_table, routing_table'),
           NEW r \in Routers, NEW n \in Range(Order[r]), next_frame(r, n),
           pcap' = Rest(r, n), arrived' = arrived, sent' = sent,
           \A p \in Packets : ~(/\ Understood(p) /\ Knowing
                                /\ Head(pcap[r][n]).packet = p /\ n # NetworkOf(p.to))
    PROVE  NoneLost'
<1>1. ASSUME NEW p \in Packets, Understood(p), Knowing, Safe(pcap, arrived, p)
      PROVE  Safe(pcap', arrived', p)
  <2>1. ASSUME NEW q \in Routers, NEW m \in LANs, m # NetworkOf(p.to),
               NEW g \in Range(pcap[q][m]), g.packet = p
        PROVE  Safe(pcap', arrived', p)
    <3>1. g \in Range(Rest(r, n)[q][m]) \/ (q = r /\ m = n /\ g = Head(pcap[r][n]))
      BY RestHas
    <3>2. g \in Range(pcap'[q][m])
      BY <1>1, <2>1, <3>1
    <3> QED
      BY <2>1, <3>2, SafeThere
  <2> QED
    BY <1>1, <2>1, SafeStays
<1> QED
  BY <1>1, NoneLostStays

(* No packet that has a way is dropped. *)
LEMMA DropSafe ==
    ASSUME FramesGood, NoneLost, TablesLead(routing_table), \A q \in Routers : filters[q] = << >>,
           NEW r \in Routers, NEW n \in Range(Order[r]), Drop(r, n)
    PROVE  NoneLost'
<1>1. PICK f : f = Head(pcap[r][n])
  OBVIOUS
<1>2. /\ next_frame(r, n) /\ pcap' = Rest(r, n) /\ arrived' = arrived /\ sent' = sent
      /\ routing_table' = routing_table
      /\ should_be_filtered(filters[r], f.packet) \/ Route(routing_table[r], f.packet.to) = {}
  BY <1>1 DEF Drop
<1>3. ~should_be_filtered(filters[r], f.packet)
  <2>1. filters[r] = << >> /\ DOMAIN << >> = {}
    OBVIOUS
  <2> QED
    BY <2>1 DEF should_be_filtered
<1>4. TablesGrow(routing_table, routing_table')
  BY <1>2 DEF TablesGrow
<1>5. ASSUME NEW p \in Packets, Knowing, f.packet = p
      PROVE  FALSE
  <2>1. p.to \in Hosts /\ NetworkOf(p.to) \in LANs
    BY PacketHosts
  <2>2. Route(routing_table[r], p.to) = {routing_table[r][NetworkOf(p.to)]}
    BY <1>5, <2>1, RouteIs DEF Knowing
  <2> QED
    BY <1>2, <1>3, <1>5, <2>2
<1> QED
  BY <1>1, <1>2, <1>4, <1>5, TakenSafe

(* A packet that is forwarded arrives, or is captured by the next router. *)
LEMMA ForwardSafe ==
    ASSUME GatewayInv, FramesGood, NoneLost, TablesLead(routing_table), HostsRight(mac_table),
           \A q \in Routers : up[q], arrived \in [Packets -> Nat],
           NEW r \in Routers, NEW n \in Range(Order[r]), NEW entry, Forward(r, n, entry)
    PROVE  NoneLost'
<1>1. PICK f : f = Head(pcap[r][n])
  OBVIOUS
<1>2. PICK k : k = entry.interface
  OBVIOUS
<1>3. PICK out : out = Frame(f.packet, {}, <<r, k>>)
  OBVIOUS
<1>4. PICK dst : dst = Destination(r, entry, f.packet.to)
  OBVIOUS
<1>5. /\ next_frame(r, n) /\ ~IsLocal(f, n) /\ entry \in Route(routing_table[r], f.packet.to)
      /\ pcap' = IF dst = {} THEN Rest(r, n) ELSE CapturedOf(Rest(r, n), out)
      /\ arrived' = IF dst = {} THEN arrived ELSE Received(out, dst)
      /\ routing_table' = routing_table /\ sent' = sent
  BY <1>1, <1>2, <1>3, <1>4 DEF Forward, CapturedOf
<1>6. out.packet = f.packet /\ out.mac = <<r, k>>
  BY <1>3 DEF Frame
<1>7. ASSUME NEW q \in Routers, NEW m \in LANs, NEW g \in Range(Rest(r, n)[q][m])
      PROVE  g \in Range(pcap'[q][m])
  <2>1. Sequence(Rest(r, n)[q][m])
    BY <1>5, RestHas
  <2>2. g \in Range(CapturedOf(Rest(r, n), out)[q][m])
    BY <1>7, <2>1, CapturedMore
  <2> QED
    BY <1>5, <1>7, <2>2
<1>8. \A q \in Routers, m \in LANs : \A g \in Range(pcap[q][m]) :
        g \in Range(Rest(r, n)[q][m]) \/ g = f
  <2>1. next_frame(r, n)
    BY <1>5
  <2>2. \A q \in Routers, m \in LANs : \A g \in Range(pcap[q][m]) :
            g \in Range(Rest(r, n)[q][m]) \/ (q = r /\ m = n /\ g = Head(pcap[r][n]))
    BY <2>1, RestHas
  <2> QED
    BY <1>1, <2>2
<1>9. ASSUME NEW p \in Packets, Knowing, f.packet = p
      PROVE  Safe(pcap', arrived', p)
  <2>1. PICK d : d = NetworkOf(p.to)
    OBVIOUS
  <2>2. p.to \in Hosts /\ d \in LANs
    BY <2>1, PacketHosts
  <2>3. d \in DOMAIN routing_table[r] /\ entry = routing_table[r][d]
    BY <1>5, <1>9, <2>1, <2>2, RouteIs
  <2>4. <<r, k>> \in Attached /\ k \in LANs
    BY <1>2, <2>3, EntryLeads
  <2>5. NetworkOf(out.mac) = k
    BY <1>6, <2>4, AttachedIs
  <2>6. CASE <<r, d>> \in Attached /\ entry = Entry(<<r, d>>, d, "direct")
    <3>1. p.to \in dst
      <4>1. entry.type = "direct"
        BY <2>6 DEF Entry
      <4>2. dst = IF p.to \in DOMAIN mac_table[r] THEN {mac_table[r][p.to]} ELSE Addresses
        BY <1>4, <1>9, <4>1 DEF Destination
      <4>3. p.to \in DOMAIN mac_table[r] => mac_table[r][p.to] = p.to
        BY <2>1, <2>2, <2>6 DEF HostsRight
      <4> QED
        BY <2>2, <4>2, <4>3 DEF Addresses
    <3>2. k = d
      BY <1>2, <2>6 DEF Entry
    <3>3. Received(out, dst)[p] > 0
      BY <1>6, <1>9, <2>1, <2>5, <3>1, <3>2, ReceivedIt
    <3>4. arrived'[p] > 0
      BY <1>5, <3>1, <3>3
    <3> QED
      BY <3>4 DEF Safe
  <2>7. CASE <<r, d>> \notin Attached /\ \E s \in Routers : LearnedFrom(routing_table, r, s, k, d)
    <3>1. PICK s \in Routers : LearnedFrom(routing_table, r, s, k, d)
      BY <2>7
    <3>2. <<s, k>> \in Attached /\ s # r /\ entry = Entry(<<s, k>>, k, "dynamic")
      BY <2>3, <3>1 DEF LearnedFrom
    <3>3. entry.type = "dynamic" /\ entry.type # "direct"
      BY <3>2 DEF Entry
    <3>4. entry.gateway \in DOMAIN mac_table[r]
      BY <2>3, <3>3 DEF GatewayInv, Learned, Known
    <3>5. dst # {}
      BY <1>4, <3>3, <3>4 DEF Destination
    <3>6. Sequence(Rest(r, n)[s][k])
      BY <1>5, <2>4, RestHas
    <3>7. out \in Range(CapturedOf(Rest(r, n), out)[s][k])
      BY <1>6, <2>4, <2>5, <3>2, <3>6, CapturedOne
    <3>8. out \in Range(pcap'[s][k])
      BY <1>5, <3>5, <3>7
    <3>9. k # d
      BY <2>4, <2>7
    <3> QED
      BY <1>6, <1>9, <2>1, <2>4, <3>8, <3>9, SafeThere
  <2> QED
    BY <1>2, <2>3, <2>6, <2>7, EntryLeads
<1>10. ASSUME NEW p \in Packets, Knowing, Safe(pcap, arrived, p)
      PROVE  Safe(pcap', arrived', p)
  <2>1. arrived[p] > 0 => arrived'[p] > 0
    BY <1>5, ReceivedMore
  <2>2. ASSUME NEW q \in Routers, NEW m \in LANs, m # NetworkOf(p.to),
               NEW g \in Range(pcap[q][m]), g.packet = p
        PROVE  Safe(pcap', arrived', p)
    <3>1. g \in Range(Rest(r, n)[q][m]) \/ g = f
      BY <1>8, <2>2
    <3>2. CASE g \in Range(Rest(r, n)[q][m])
      <4>1. g \in Range(pcap'[q][m])
        BY <1>7, <3>2
      <4> QED
        BY <2>2, <4>1, SafeThere
    <3>3. CASE g = f
      BY <1>9, <1>10, <2>2, <3>3
    <3> QED
      BY <3>1, <3>2, <3>3
  <2> QED
    BY <1>10, <2>1, <2>2, SafeStays
<1>11. TablesGrow(routing_table, routing_table')
  BY <1>5 DEF TablesGrow
<1> QED
  BY <1>5, <1>10, <1>11, NoneLostStays

LEMMA LossInit == Init => LossInv
<1> SUFFICES ASSUME Init PROVE LossInv
  OBVIOUS
<1>1. arrived = [p \in Packets |-> 0] /\ \A p \in Packets : sent[p] # "routable"
  BY DEF Init
<1> QED
  BY <1>1 DEF LossInv, NoneLost

LEMMA CountsStay ==
    ASSUME arrived \in [Packets -> Nat], [Next]_vars
    PROVE  arrived' \in [Packets -> Nat]
<1>1. CASE \E p \in Packets : Send(p)
  BY <1>1, ReceivedMore DEF Send
<1>2. CASE \E r \in Routers : \E c \in {g[2] : g \in Commands} : Give(r, c)
  BY <1>2 DEF Give, traffic
<1>3. CASE \E r \in Routers :
           check_for_message(r) \/ InvalidAddressError(r) \/ send_updates(r)
  BY <1>3 DEF check_for_message, InvalidAddressError, send_updates, traffic
<1>4. CASE \E r \in Routers : route_packet(r)
  <2>1. PICK r \in Routers : \E n \in Range(Order[r]) :
           \/ Ignore(r, n) \/ LearnFromLAN(r, n) \/ Drop(r, n)
           \/ \E entry \in Range(routing_table[r]) : Forward(r, n, entry) \/ NoMethodError(r, n, entry)
    BY <1>4 DEF route_packet
  <2>2. PICK n \in Range(Order[r]) :
           \/ Ignore(r, n) \/ LearnFromLAN(r, n) \/ Drop(r, n)
           \/ \E entry \in Range(routing_table[r]) : Forward(r, n, entry) \/ NoMethodError(r, n, entry)
    BY <2>1
  <2>3. CASE Ignore(r, n) \/ LearnFromLAN(r, n) \/ Drop(r, n)
    BY <2>3 DEF Ignore, LearnFromLAN, Drop
  <2>4. CASE \E entry \in Range(routing_table[r]) : Forward(r, n, entry)
    <3>1. PICK entry \in Range(routing_table[r]) : Forward(r, n, entry)
      BY <2>4
    <3>2. PICK f, dst : arrived' = IF dst = {} THEN arrived ELSE Received(f, dst)
      BY <3>1 DEF Forward
    <3> QED
      BY <3>2, ReceivedMore
  <2>5. CASE \E entry \in Range(routing_table[r]) : NoMethodError(r, n, entry)
    BY <2>5 DEF NoMethodError
  <2> QED
    BY <2>2, <2>3, <2>4, <2>5
<1>5. CASE UNCHANGED vars
  BY <1>5 DEF vars, traffic
<1> QED
  BY <1>1, <1>2, <1>3, <1>4, <1>5 DEF Next, Loop

LEMMA SameTraffic ==
    ASSUME NoneLost, routing_table' = routing_table, traffic' = traffic
    PROVE  NoneLost'
  BY DEF NoneLost, Knowing, traffic

LEMMA LossStep ==
    ASSUME Routers # {}, InPairs, NEW CONSTANT Side, Apart(Side), LetInv, GatewayInv, FarInv,
           CommandInv, WayInv(Side), LossInv, [Next]_vars
    PROVE  LossInv'
<1>1. given \subseteq given'
  BY GivenGrows
<1>2. /\ ~RoutesTouched' => ~RoutesTouched
      /\ Given("add_new_rule")' = {} => Given("add_new_rule") = {}
  BY <1>1 DEF RoutesTouched, Given
<1>3. arrived' \in [Packets -> Nat]
  BY CountsStay DEF LossInv
<1> SUFFICES ASSUME ~RoutesTouched, Given("add_new_rule") = {} PROVE NoneLost'
  BY <1>2, <1>3 DEF LossInv
<1>4. /\ TablesLead(routing_table) /\ FramesLead(routing_table, Side, pcap)
      /\ HostsRight(mac_table) /\ FramesGood /\ DOMAIN sent = Packets
      /\ NoneLost /\ arrived \in [Packets -> Nat]
  BY DEF WayInv, LossInv, LetInv
<1>5. \A r \in Routers : up[r] /\ filters[r] = << >>
  BY DEF FarInv, Far, RoutesTouched, CommandInv
<1>6. CASE \E p \in Packets : Send(p)
  BY <1>4, <1>5, <1>6, SendSafe
<1>7. CASE \E r \in Routers : \E c \in {g[2] : g \in Commands} : Give(r, c)
  BY <1>4, <1>7, SameTraffic DEF Give, tables
<1>8. CASE \E r \in Routers : check_for_message(r) \/ InvalidAddressError(r)
  <2>1. PICK r \in Routers : check_for_message(r) \/ InvalidAddressError(r)
    BY <1>8
  <2>2. check_for_message(r) /\ routing_table' = routing_table
    BY <2>1, CommandAsks
  <2> QED
    BY <1>4, <2>2, SameTraffic DEF check_for_message
<1>9. CASE \E r \in Routers : send_updates(r)
  BY <1>4, <1>9, UpdatesSafe
<1>10. CASE \E r \in Routers : route_packet(r)
  <2>1. PICK r \in Routers : \E n \in Range(Order[r]) :
           \/ Ignore(r, n) \/ LearnFromLAN(r, n) \/ Drop(r, n)
           \/ \E entry \in Range(routing_table[r]) : Forward(r, n, entry) \/ NoMethodError(r, n, entry)
    BY <1>10 DEF route_packet
  <2>2. PICK n \in Range(Order[r]) :
           \/ Ignore(r, n) \/ LearnFromLAN(r, n) \/ Drop(r, n)
           \/ \E entry \in Range(routing_table[r]) : Forward(r, n, entry) \/ NoMethodError(r, n, entry)
    BY <2>1
  <2>3. CASE LearnFromLAN(r, n)
    <3>1. /\ next_frame(r, n) /\ pcap' = Rest(r, n) /\ arrived' = arrived /\ sent' = sent
          /\ NetworkOf(Head(pcap[r][n]).packet.to) = n
      BY <2>3 DEF LearnFromLAN, IsLocal
    <3>2. n \in LANs /\ Head(pcap[r][n]) \in Range(pcap[r][n])
      BY <1>4, <3>1, Interfaces, RestHas
    <3>3. FrameLeads(routing_table, Side, Head(pcap[r][n]), r, n)
      BY <1>4, <3>2 DEF FramesLead
    <3>4. TablesGrow(routing_table, routing_table')
      BY <1>4, <2>3, <3>3, LearnTables
    <3> QED
      BY <1>4, <3>1, <3>4, TakenSafe
  <2>7. CASE Ignore(r, n)
    <3>1. /\ next_frame(r, n) /\ pcap' = Rest(r, n) /\ arrived' = arrived /\ sent' = sent
          /\ routing_table' = routing_table /\ ~Understood(Head(pcap[r][n]).packet)
      BY <2>7 DEF Ignore, tables
    <3>2. TablesGrow(routing_table, routing_table')
      BY <3>1 DEF TablesGrow
    <3> QED
      BY <1>4, <3>1, <3>2, TakenSafe
  <2>4. CASE Drop(r, n)
    BY <1>4, <1>5, <2>4, DropSafe
  <2>5. CASE \E entry \in Range(routing_table[r]) : Forward(r, n, entry)
    BY <1>4, <1>5, <2>5, ForwardSafe
  <2>6. CASE \E entry \in Range(routing_table[r]) : NoMethodError(r, n, entry)
    BY <1>4, <2>6, NoStop
  <2> QED
    BY <2>2, <2>3, <2>4, <2>5, <2>6, <2>7
<1>11. CASE UNCHANGED vars
  BY <1>4, <1>11, SameTraffic DEF vars, tables
<1> QED
  BY <1>6, <1>7, <1>8, <1>9, <1>10, <1>11 DEF Next, Loop

(* Nothing gets lost between routers on a row, a star or a tree of LANs, however many there
   are and in whatever order they read what they captured: a TCP, UDP or ICMP packet that is
   sent when all networks are known is with its receiver or on its way to it, as each router on the way has
   the next one's MAC address, which came with the route. *)
THEOREM NothingGetsLost ==
    ASSUME Routers # {}
    PROVE  Spec => []Arrives
<1>1. CASE OneWay
  <2>1. PICK Side \in [Attached -> SUBSET LANs] : Apart(Side)
    BY <1>1 DEF OneWay
  <2>2. InPairs
    BY <1>1 DEF OneWay
  <2>3. Init => WayInv(Side)
    BY WayInit
  <2> DEFINE AllInv == LetInv /\ GatewayInv /\ FarInv /\ CommandInv
  <2>4. AllInv /\ WayInv(Side) /\ [Next]_vars => WayInv(Side)'
    BY <2>1, <2>2, WayStep
  <2>5. AllInv /\ WayInv(Side) /\ LossInv /\ [Next]_vars => LossInv'
    BY <2>1, <2>2, LossStep
  <2>6. LossInv => Arrives
    <3> SUFFICES ASSUME LossInv, NEW p \in Packets, Quiet, ~RoutesTouched,
                        Given("add_new_rule") = {}, sent[p] = "routable", Understood(p)
                 PROVE  arrived[p] > 0
      BY DEF Arrives
    <3>1. Safe(pcap, arrived, p)
      BY DEF LossInv, NoneLost
    <3>2. ~OnItsWay(pcap, p)
      BY DEF OnItsWay, Quiet, Range
    <3> QED
      BY <3>1, <3>2 DEF Safe
  <2>7. Spec => []FarInv
    BY FarInit, FarStep, GatewayInvariant, PTL DEF Spec
  <2>8. Spec => []AllInv
    BY <2>7, LetInvariant, GatewayInvariant, CommandInvariant, PTL
  <2> HIDE DEF AllInv
  <2> QED
    BY <2>3, <2>4, <2>5, <2>6, <2>8, LossInit, PTL DEF Spec
<1>2. CASE ~OneWay
  <2>1. Arrives
    BY <1>2 DEF Arrives
  <2> QED
    BY <2>1, PTL
<1> QED
  BY <1>1, <1>2

-----------------------------------------------------------------------------
(* What does not go round: how many copies an interface has still to read, for the time in
   which nobody touches a route. *)

(* An interface y holds a frame that goes on, as its protocol is known; it is one that x reads if it is at x or on the
   side of x, with its receiver elsewhere. *)
Ways(n) == {y \in Attached : y[2] = n}
Shared(x) == \E y \in Attached \ {x} : y[2] = x[2]
Heading(Side, x, y, f) ==
    /\ Aim(f) # y[2] /\ Understood(f.packet)
    /\ \/ x = y
       \/ y[2] \in Side[x] /\ Aim(f) \notin Side[x] /\ (y[2] = x[2] \/ Shared(x))
Places == (Routers \X LANs) \X Nat
Held(buffers, y) == buffers[y[1]][y[2]]
Coming(Side, buffers, x) == {c \in Places :
    c[2] \in DOMAIN Held(buffers, c[1]) /\ Heading(Side, x, c[1], Held(buffers, c[1])[c[2]])}

(* Entries lead to the side on which the network is. *)
AimsAhead(Side, table) ==
    \A r \in Routers : \A n \in DOMAIN table[r] : n \in Side[<<r, table[r][n].interface>>]

(* What an interface read and will read are a copy of each packet for each router there. *)
Read(x) == stats[x[1]][x[2]].input
Within(Side, x) ==
    /\ IsFiniteSet(Coming(Side, pcap, x))
    /\ Read(x) + Cardinality(Coming(Side, pcap, x)) <= Cardinality(Ways(x[2])) * Cardinality(Sent)
CountsTyped ==
    /\ stats = [r \in Routers |-> stats[r]]
    /\ \A r \in Routers : stats[r] \in [Range(Order[r]) -> [input : Nat, output : Nat]]
RoundsInv(Side) ==
    /\ CountsTyped /\ IsFiniteSet(Sent)
    /\ ~RoutesTouched => AimsAhead(Side, routing_table) /\ \A x \in Attached : Within(Side, x)

-----------------------------------------------------------------------------
(* Counting. *)

LEMMA Fewer ==
    ASSUME NEW S, NEW T, IsFiniteSet(T), NEW g, \A s \in S : g[s] \in T,
           \A s, t \in S : g[s] = g[t] => s = t
    PROVE  IsFiniteSet(S) /\ Cardinality(S) <= Cardinality(T)
<1>1. PICK h : h = [s \in S |-> g[s]]
  OBVIOUS
<1>2. h \in Injection(S, T)
  BY <1>1 DEF Injection, IsInjective
<1> QED
  BY <1>2, FS_Injection

LEMMA AddedUp ==
    ASSUME NEW S, NEW T, NEW U, IsFiniteSet(S), IsFiniteSet(T), U \subseteq S \cup T
    PROVE  IsFiniteSet(U) /\ Cardinality(U) <= Cardinality(S) + Cardinality(T)
<1>1. /\ IsFiniteSet(S \cup T)
      /\ Cardinality(S \cup T) = Cardinality(S) + Cardinality(T) - Cardinality(S \cap T)
  BY FS_Union
<1>2. IsFiniteSet(S \cap T)
  BY FS_Intersection
<1>3. IsFiniteSet(U) /\ Cardinality(U) <= Cardinality(S \cup T)
  BY <1>1, FS_Subset
<1>4. /\ Cardinality(S) \in Nat /\ Cardinality(T) \in Nat /\ Cardinality(S \cap T) \in Nat
      /\ Cardinality(U) \in Nat
  BY <1>2, <1>3, FS_CardinalityType
<1> QED
  BY <1>1, <1>3, <1>4

(* At most two ways lead from a LAN. *)
LEMMA WaysArePair ==
    ASSUME InPairs, NEW x \in Attached
    PROVE  /\ IsFiniteSet(Ways(x[2])) /\ Cardinality(Ways(x[2])) \in Nat /\ x \in Ways(x[2])
           /\ \E y \in Attached : Ways(x[2]) = {x, y}
<1>1. \E y \in Attached : Ways(x[2]) = {x, y}
  <2>1. CASE \E y \in Attached : y[2] = x[2] /\ y # x
    <3>1. PICK y \in Attached : y[2] = x[2] /\ y # x
      BY <2>1
    <3>2. \A z \in Ways(x[2]) : z = x \/ z = y
      BY <3>1 DEF InPairs, Ways
    <3> QED
      BY <3>1, <3>2 DEF Ways
  <2>2. CASE ~\E y \in Attached : y[2] = x[2] /\ y # x
    BY <2>2 DEF Ways
  <2> QED
    BY <2>1, <2>2
<1>2. PICK y \in Attached : Ways(x[2]) = {x, y}
  BY <1>1
<1>3. IsFiniteSet(Ways(x[2]))
  <2>1. PICK X : X = {x}
    OBVIOUS
  <2>2. IsFiniteSet(X \cup {y}) /\ X \cup {y} = {x, y}
    BY <2>1, FS_Singleton, FS_AddElement
  <2> QED
    BY <1>2, <2>2
<1> QED
  BY <1>1, <1>3, FS_CardinalityType DEF Ways

(* A LAN with two routers has at least as many as any. *)
LEMMA NoMoreWays ==
    ASSUME InPairs, NEW x \in Attached, NEW y \in Attached, y[2] = x[2] \/ Shared(x)
    PROVE  Cardinality(Ways(y[2])) <= Cardinality(Ways(x[2]))
<1>1. /\ IsFiniteSet(Ways(x[2])) /\ Cardinality(Ways(x[2])) \in Nat
      /\ IsFiniteSet(Ways(y[2])) /\ Cardinality(Ways(y[2])) \in Nat
  BY WaysArePair
<1>2. CASE y[2] = x[2]
  BY <1>1, <1>2
<1>3. CASE Shared(x)
  <2>1. PICK z \in Attached : z # x /\ z[2] = x[2]
    BY <1>3 DEF Shared
  <2>2. PICK v \in Attached : Ways(y[2]) = {y, v}
    BY WaysArePair
  <2>3. PICK g : g = [u \in {y, v} |-> IF u = y THEN x ELSE z]
    OBVIOUS
  <2>4. /\ \A u \in {y, v} : g[u] \in Ways(x[2])
        /\ \A u, w \in {y, v} : g[u] = g[w] => u = w
    BY <2>1, <2>3 DEF Ways
  <2> QED
    BY <1>1, <2>2, <2>4, Fewer
<1> QED
  BY <1>2, <1>3

-----------------------------------------------------------------------------
(* Places in the buffers. *)

LEMMA ReadOne ==
    ASSUME FramesGood, NEW r \in Routers, NEW n \in Range(Order[r]), next_frame(r, n),
           NEW Side, NEW x, IsFiniteSet(Coming(Side, pcap, x))
    PROVE  /\ IsFiniteSet(Coming(Side, Rest(r, n), x))
           /\ Cardinality(Coming(Side, Rest(r, n), x)) <= Cardinality(Coming(Side, pcap, x))
           /\ Heading(Side, x, <<r, n>>, Head(pcap[r][n])) =>
                Cardinality(Coming(Side, Rest(r, n), x)) <= Cardinality(Coming(Side, pcap, x)) - 1
<1> DEFINE old == Coming(Side, pcap, x)
           new == Coming(Side, Rest(r, n), x)
           first == <<<<r, n>>, 1>>
<1>1. n \in LANs
  BY Interfaces
<1>2. PICK s : s = pcap[r][n]
  OBVIOUS
<1>3. PICK S : s \in Seq(S)
  BY <1>1, <1>2, FramesAre DEF Sequence
<1>4. s # << >>
  BY <1>2 DEF next_frame
<1>5. /\ Head(s) = s[1] /\ Len(s) \in Nat \ {0} /\ DOMAIN s = 1 .. Len(s)
      /\ DOMAIN Tail(s) = 1 .. Len(s) - 1
      /\ \A i \in 1 .. Len(s) - 1 : Tail(s)[i] = s[i + 1]
  BY <1>3, <1>4, HeadTailProperties, LenProperties, EmptySeq
<1>6. \A y \in Routers \X LANs :
        Held(Rest(r, n), y) = IF y = <<r, n>> THEN Tail(s) ELSE Held(pcap, y)
  BY <1>1, <1>2 DEF Rest, FramesGood, Held
<1>7. Held(pcap, <<r, n>>) = s
  BY <1>2 DEF Held
<1>8. PICK g : g = [c \in Places |-> IF c[1] = <<r, n>> THEN <<c[1], c[2] + 1>> ELSE c]
  OBVIOUS
<1>9. ASSUME NEW c \in new
      PROVE  c \in Places /\ g[c] \in old /\ g[c] # first
  <2>1. /\ c \in Places /\ c[1] \in Routers \X LANs /\ c[2] \in Nat /\ c = <<c[1], c[2]>>
        /\ c[2] \in DOMAIN Held(Rest(r, n), c[1])
        /\ Heading(Side, x, c[1], Held(Rest(r, n), c[1])[c[2]])
    BY <1>9 DEF Coming, Places
  <2>2. CASE c[1] = <<r, n>>
    <3>1. g[c] = <<<<r, n>>, c[2] + 1>>
      BY <1>8, <2>1, <2>2
    <3>2. /\ c[2] \in 1 .. Len(s) - 1 /\ Heading(Side, x, <<r, n>>, s[c[2] + 1])
          /\ c[2] + 1 \in 1 .. Len(s)
      <4>1. Held(Rest(r, n), <<r, n>>) = Tail(s)
        BY <1>1, <1>6
      <4>2. PICK i : i = c[2]
        OBVIOUS
      <4>3. i \in DOMAIN Tail(s) /\ Heading(Side, x, <<r, n>>, Tail(s)[i])
        BY <2>1, <2>2, <4>1, <4>2
      <4>4. i \in 1 .. Len(s) - 1 /\ i + 1 \in 1 .. Len(s) /\ Tail(s)[i] = s[i + 1]
        BY <1>5, <4>3
      <4> QED
        BY <4>2, <4>3, <4>4
    <3>3. g[c] \in Places
      BY <1>1, <2>1, <3>1 DEF Places
    <3>4. PICK d : d = g[c]
      OBVIOUS
    <3>5. d[1] = <<r, n>> /\ d[2] = c[2] + 1
      BY <3>1, <3>4
    <3>6. d[2] \in DOMAIN Held(pcap, d[1]) /\ Heading(Side, x, d[1], Held(pcap, d[1])[d[2]])
      BY <1>5, <1>7, <3>2, <3>5
    <3>7. d \in old
      BY <3>3, <3>4, <3>6 DEF Coming
    <3>8. d # first
      BY <2>1, <3>1, <3>2, <3>4
    <3> QED
      BY <2>1, <3>4, <3>7, <3>8
  <2>3. CASE c[1] # <<r, n>>
    <3>1. g[c] = c /\ Held(Rest(r, n), c[1]) = Held(pcap, c[1])
      BY <1>6, <1>8, <2>1, <2>3
    <3> QED
      BY <2>1, <2>3, <3>1 DEF Coming
  <2> QED
    BY <2>1, <2>2, <2>3
<1>10. ASSUME NEW c \in new, NEW d \in new, g[c] = g[d]
       PROVE  c = d
  <2>1. /\ c[1] \in Routers \X LANs /\ c[2] \in Nat /\ c = <<c[1], c[2]>>
        /\ d[1] \in Routers \X LANs /\ d[2] \in Nat /\ d = <<d[1], d[2]>>
    BY <1>9 DEF Places
  <2>2. /\ g[c] = IF c[1] = <<r, n>> THEN <<c[1], c[2] + 1>> ELSE c
        /\ g[d] = IF d[1] = <<r, n>> THEN <<d[1], d[2] + 1>> ELSE d
    BY <1>8, <1>9
  <2>3. g[c][1] = c[1] /\ g[d][1] = d[1]
    BY <2>1, <2>2
  <2>4. c[2] = d[2]
    <3>1. CASE c[1] = <<r, n>>
      <4>1. g[c] = <<c[1], c[2] + 1>> /\ g[d] = <<d[1], d[2] + 1>>
        BY <1>10, <2>2, <2>3, <3>1
      <4>2. g[c][2] = c[2] + 1 /\ g[d][2] = d[2] + 1
        BY <4>1
      <4>3. c[2] + 1 = d[2] + 1
        BY <1>10, <4>2
      <4> QED
        BY <2>1, <4>3
    <3>2. CASE c[1] # <<r, n>>
      BY <1>10, <2>2, <2>3, <3>2
    <3> QED
      BY <3>1, <3>2
  <2> QED
    BY <1>10, <2>1, <2>3, <2>4
<1>11. IsFiniteSet(new) /\ Cardinality(new) <= Cardinality(old)
  <2> HIDE DEF old, new
  <2>1. IsFiniteSet(old)
    BY DEF old
  <2> QED
    BY <1>9, <1>10, <2>1, Fewer
<1>12. ASSUME Heading(Side, x, <<r, n>>, Head(s))
       PROVE  Cardinality(new) <= Cardinality(old) - 1
  <2>1. first \in old
    BY <1>1, <1>5, <1>7, <1>12 DEF Coming, Places
  <2> HIDE DEF old, new, first
  <2>2. IsFiniteSet(old)
    BY DEF old
  <2>3. IsFiniteSet(old \ {first}) /\ Cardinality(old \ {first}) = Cardinality(old) - 1
    BY <2>1, <2>2, FS_RemoveElement
  <2>4. Cardinality(new) <= Cardinality(old \ {first})
    BY <1>9, <1>10, <2>3, Fewer
  <2> QED
    BY <2>3, <2>4
<1> QED
  BY <1>2, <1>11, <1>12

(* What is captured is behind what was there. *)
LEMMA CapturedPlaces ==
    ASSUME NEW b, NEW frames, IsFiniteSet(frames), NEW y \in Routers \X LANs,
           Sequence(Held(b, y)), NEW i \in DOMAIN Held(Captured(b, frames), y)
    PROVE  \/ i \in DOMAIN Held(b, y) /\ Held(Captured(b, frames), y)[i] = Held(b, y)[i]
           \/ /\ i \in Nat /\ i > Len(Held(b, y))
              /\ Held(Captured(b, frames), y)[i] \in frames
              /\ y \in Attached /\ y # Held(Captured(b, frames), y)[i].mac
              /\ NetworkOf(Held(Captured(b, frames), y)[i].mac) = y[2]
              /\ frames = {Held(Captured(b, frames), y)[i]} => i = Len(Held(b, y)) + 1
<1> DEFINE X == {f \in frames : /\ up[y[1]] /\ <<y[1], y[2]>> \in Attached \ {f.mac}
                                /\ NetworkOf(f.mac) = y[2]}
<1>1. PICK s, t : s = Held(b, y) /\ t = SetToSeq(X)
  OBVIOUS
<1>2. Held(Captured(b, frames), y) = s \o t
  BY <1>1 DEF Captured, Held
<1>3. IsFiniteSet(X) /\ \A f \in X : /\ f \in frames /\ y \in Attached /\ y # f.mac
                                     /\ NetworkOf(f.mac) = y[2]
  BY FS_Subset
<1>4. t \in Seq(X)
  BY <1>1, <1>3, SeqOfSet
<1>5. \A f : frames = {f} /\ f \in X => X = {f}
  OBVIOUS
<1> HIDE DEF X
<1>6. PICK S : s \in Seq(S)
  BY <1>1 DEF Sequence
<1>7. s \in Seq(S \cup X) /\ t \in Seq(S \cup X)
  BY <1>4, <1>6, SeqMonotonic
<1>8. /\ Len(s) \in Nat /\ Len(t) \in Nat
      /\ DOMAIN (s \o t) = 1 .. Len(s) + Len(t) /\ DOMAIN s = 1 .. Len(s) /\ DOMAIN t = 1 .. Len(t)
      /\ \A j \in 1 .. Len(s) : (s \o t)[j] = s[j]
      /\ \A j \in Len(s) + 1 .. Len(s) + Len(t) : (s \o t)[j] = t[j - Len(s)]
  BY <1>7, ConcatProperties, LenProperties
<1>9. \A j \in DOMAIN t : t[j] \in X
  BY <1>4, ElementType
<1>10. i \in 1 .. Len(s) + Len(t)
  BY <1>2, <1>8
<1>11. CASE i \in 1 .. Len(s)
  BY <1>1, <1>2, <1>8, <1>11
<1>12. CASE i \notin 1 .. Len(s)
  <2>1. /\ i \in Len(s) + 1 .. Len(s) + Len(t) /\ i - Len(s) \in 1 .. Len(t)
        /\ i \in Nat /\ i > Len(s)
    BY <1>8, <1>10, <1>12
  <2>2. PICK f : f = (s \o t)[i]
    OBVIOUS
  <2>3. f \in X
    BY <1>8, <1>9, <2>1, <2>2
  <2>4. frames = {f} => i = Len(s) + 1
    <3> SUFFICES ASSUME frames = {f} PROVE i = Len(s) + 1
      OBVIOUS
    <3>1. t = <<f>>
      BY <1>1, <1>5, <2>3, OneCaptured
    <3>2. Len(t) = 1
      BY <3>1
    <3> QED
      BY <1>8, <2>1, <3>2
  <2> QED
    BY <1>1, <1>2, <1>3, <2>1, <2>2, <2>3, <2>4
<1> QED
  BY <1>11, <1>12

(* Nothing that is sent to the LAN itself goes on. *)
LEMMA LocalOnly ==
    ASSUME FramesGood, NEW frames, IsFiniteSet(frames),
           \A f \in frames : Aim(f) = NetworkOf(f.mac),
           NEW Side, NEW x, IsFiniteSet(Coming(Side, pcap, x)),
           NEW b, b = Captured(pcap, frames)
    PROVE  /\ IsFiniteSet(Coming(Side, b, x))
           /\ Cardinality(Coming(Side, b, x)) <= Cardinality(Coming(Side, pcap, x))
<1>1. ASSUME NEW c \in Coming(Side, b, x)
      PROVE  c \in Coming(Side, pcap, x)
  <2>1. /\ c \in Places /\ c[1] \in Routers \X LANs /\ c[1][1] \in Routers /\ c[1][2] \in LANs
        /\ c[2] \in DOMAIN Held(b, c[1])
        /\ Heading(Side, x, c[1], Held(b, c[1])[c[2]])
    BY <1>1 DEF Coming, Places
  <2>2. PICK y, i, f : y = c[1] /\ i = c[2] /\ f = Held(b, y)[i]
    OBVIOUS
  <2>3. Sequence(Held(pcap, y))
    BY <2>1, <2>2, FramesAre DEF Held
  <2>4. \/ i \in DOMAIN Held(pcap, y) /\ f = Held(pcap, y)[i]
        \/ f \in frames /\ NetworkOf(f.mac) = y[2]
    BY <2>1, <2>2, <2>3, CapturedPlaces
  <2>5. Aim(f) # y[2]
    BY <2>1, <2>2 DEF Heading
  <2> QED
    BY <2>1, <2>2, <2>4, <2>5 DEF Coming
<1>2. Coming(Side, b, x) \in SUBSET Coming(Side, pcap, x)
  BY <1>1
<1> QED
  BY <1>2, FS_Subset

(* One frame that is sent on is at a place of its own in each interface that captures it. *)
Newest(b, y) == <<y, Len(Held(b, y)) + 1>>
Fresh(Side, b, x, f) ==
    {Newest(b, y) : y \in {z \in Attached : /\ z[2] = NetworkOf(f.mac) /\ z # f.mac
                                            /\ Heading(Side, x, z, f)}}

LEMMA OneMore ==
    ASSUME NEW b, \A y \in Routers \X LANs : Sequence(Held(b, y)),
           NEW Side, NEW x, IsFiniteSet(Coming(Side, b, x)), NEW f,
           IsFiniteSet(Fresh(Side, b, x, f))
    PROVE  /\ IsFiniteSet(Coming(Side, CapturedOf(b, f), x))
           /\ Cardinality(Coming(Side, CapturedOf(b, f), x)) <=
                Cardinality(Coming(Side, b, x)) + Cardinality(Fresh(Side, b, x, f))
<1>1. ASSUME NEW c \in Coming(Side, CapturedOf(b, f), x)
      PROVE  c \in Coming(Side, b, x) \cup Fresh(Side, b, x, f)
  <2>1. PICK d : d = Captured(b, {f})
    OBVIOUS
  <2>2. /\ c \in Places /\ c[1] \in Routers \X LANs /\ c = <<c[1], c[2]>>
        /\ c[2] \in DOMAIN Held(d, c[1])
        /\ Heading(Side, x, c[1], Held(d, c[1])[c[2]])
    BY <1>1, <2>1 DEF Coming, Places, CapturedOf
  <2>3. PICK y, i, g : y = c[1] /\ i = c[2] /\ g = Held(d, y)[i]
    OBVIOUS
  <2>4. IsFiniteSet({f})
    BY FS_Singleton
  <2>5. \/ i \in DOMAIN Held(b, y) /\ g = Held(b, y)[i]
        \/ /\ g \in {f} /\ y \in Attached /\ y # g.mac /\ NetworkOf(g.mac) = y[2]
           /\ {f} = {g} => i = Len(Held(b, y)) + 1
    BY <2>1, <2>2, <2>3, <2>4, CapturedPlaces
  <2>6. CASE i \in DOMAIN Held(b, y) /\ g = Held(b, y)[i]
    BY <2>2, <2>3, <2>6 DEF Coming
  <2>7. CASE /\ g \in {f} /\ y \in Attached /\ y # g.mac /\ NetworkOf(g.mac) = y[2]
             /\ {f} = {g} => i = Len(Held(b, y)) + 1
    <3>1. g = f /\ i = Len(Held(b, y)) + 1
      BY <2>7
    <3>2. c = Newest(b, y)
      BY <2>2, <2>3, <3>1 DEF Newest
    <3>3. Heading(Side, x, y, f)
      BY <2>2, <2>3, <3>1
    <3> QED
      BY <2>7, <3>1, <3>2, <3>3 DEF Fresh
  <2> QED
    BY <2>5, <2>6, <2>7
<1>2. Coming(Side, CapturedOf(b, f), x) \subseteq Coming(Side, b, x) \cup Fresh(Side, b, x, f)
  BY <1>1
<1> QED
  BY <1>2, AddedUp

(* Of a packet that its sender sends, as many are to come as there are routers. *)
LEMMA FreshAtSource ==
    ASSUME InPairs, NEW Side, NEW b, NEW x \in Attached, NEW f
    PROVE  /\ IsFiniteSet(Fresh(Side, b, x, f))
           /\ Cardinality(Fresh(Side, b, x, f)) <= Cardinality(Ways(x[2]))
<1>1. IsFiniteSet(Ways(x[2])) /\ Cardinality(Ways(x[2])) \in Nat
  BY WaysArePair
<1>2. CASE \E y \in Attached : y[2] = NetworkOf(f.mac) /\ y # x /\ Heading(Side, x, y, f)
  <2>1. PICK y \in Attached : y[2] = NetworkOf(f.mac) /\ y # x /\ Heading(Side, x, y, f)
    BY <1>2
  <2>2. y[2] = x[2] \/ Shared(x)
    BY <2>1 DEF Heading
  <2>3. /\ IsFiniteSet(Ways(y[2])) /\ Cardinality(Ways(y[2])) \in Nat
        /\ Cardinality(Ways(y[2])) <= Cardinality(Ways(x[2]))
    BY <2>2, WaysArePair, NoMoreWays
  <2>4. PICK g : g = [c \in Fresh(Side, b, x, f) |-> c[1]]
    OBVIOUS
  <2>5. ASSUME NEW c \in Fresh(Side, b, x, f)
        PROVE  g[c] \in Ways(y[2]) /\ c = Newest(b, g[c])
    <3>1. PICK z \in Attached : c = Newest(b, z) /\ z[2] = NetworkOf(f.mac)
      BY DEF Fresh
    <3>2. c[1] = z
      BY <3>1 DEF Newest
    <3> QED
      BY <2>1, <2>4, <3>1, <3>2 DEF Ways
  <2>6. /\ IsFiniteSet(Fresh(Side, b, x, f))
        /\ Cardinality(Fresh(Side, b, x, f)) <= Cardinality(Ways(y[2]))
    BY <2>3, <2>5, Fewer
  <2>7. Cardinality(Fresh(Side, b, x, f)) \in Nat
    BY <2>6, FS_CardinalityType
  <2> QED
    BY <1>1, <2>3, <2>6, <2>7
<1>3. CASE ~\E y \in Attached : y[2] = NetworkOf(f.mac) /\ y # x /\ Heading(Side, x, y, f)
  <2>1. PICK g : g = [c \in Fresh(Side, b, x, f) |-> x]
    OBVIOUS
  <2>2. ASSUME NEW c \in Fresh(Side, b, x, f)
        PROVE  c = Newest(b, x)
    BY <1>3 DEF Fresh
  <2>3. /\ \A c \in Fresh(Side, b, x, f) : g[c] \in Ways(x[2])
        /\ \A c, d \in Fresh(Side, b, x, f) : g[c] = g[d] => c = d
    BY <2>1, <2>2 DEF Ways
  <2> QED
    BY <1>1, <2>3, Fewer
<1> QED
  BY <1>2, <1>3

-----------------------------------------------------------------------------
(* Where entries lead. *)

LEMMA AttachedPair ==
    ASSUME NEW x \in Attached
    PROVE  /\ x = <<x[1], x[2]>> /\ x[1] \in Routers /\ x[2] \in Range(Order[x[1]])
           /\ x[2] \in LANs /\ x \in Routers \X LANs
<1>1. PICK r \in Routers : x \in {<<r, n>> : n \in Range(Order[r])}
  BY DEF Attached
<1>2. PICK n \in Range(Order[r]) : x = <<r, n>>
  BY <1>1
<1> QED
  BY <1>2, Interfaces

LEMMA LearnAims ==
    ASSUME GatewayInv, InPairs, NEW Side, Apart(Side), TablesLead(routing_table),
           AimsAhead(Side, routing_table),
           NEW r \in Routers, NEW n \in Range(Order[r]), LearnFromLAN(r, n),
           FrameLeads(routing_table, Side, Head(pcap[r][n]), r, n)
    PROVE  AimsAhead(Side, routing_table')
<1> DEFINE f == Head(pcap[r][n])
           t == routing_table
           u == routing_table'
<1>1. /\ \A q \in Routers \ {r} : u[q] = t[q]
      /\ u[r] = update_routing_table(r, t[r], f.packet.from, f.networks)
  BY DEF LearnFromLAN, GatewayInv, Shapes
<1>2. /\ DOMAIN u[r] = DOMAIN t[r] \cup f.networks
      /\ \A x \in DOMAIN t[r] : u[r][x] = t[r][x]
      /\ \A x \in f.networks \ DOMAIN t[r] :
            u[r][x] = Entry(f.packet.from, find_interface_by_ip(r, f.packet.from), "dynamic")
  BY <1>1 DEF update_routing_table
<1>3. FrameLeads(t, Side, f, r, n) /\ TablesLead(t) /\ AimsAhead(Side, t)
  OBVIOUS
<1>4. <<r, n>> \in Attached /\ n \in LANs
  BY Interfaces
<1> HIDE DEF f, t, u
<1>5. ASSUME NEW x \in f.networks, x \notin DOMAIN t[r]
      PROVE  u[r][x].interface = n /\ x \in Side[<<r, n>>]
  <2>1. UpdateLeads(t, f, r, n)
    BY <1>3, <1>5 DEF FrameLeads, CopyLeads
  <2>2. PICK s \in Routers \ {r} : /\ <<s, n>> \in Attached /\ f.packet.from = <<s, n>>
                                   /\ f.networks \subseteq DOMAIN t[s]
    BY <2>1 DEF UpdateLeads
  <2>3. find_interface_by_ip(r, <<s, n>>) = n
    BY <1>4, <2>2, AttachedIs DEF find_interface_by_ip
  <2>4. u[r][x] = Entry(<<s, n>>, n, "dynamic")
    BY <1>2, <1>5, <2>2, <2>3
  <2>5. PICK k : k = t[s][x].interface
    OBVIOUS
  <2>6. k # n /\ <<s, k>> \in Attached /\ x \in Side[<<s, k>>]
    <3>1. s \in Routers /\ s # r /\ <<s, n>> \in Attached /\ x \in DOMAIN t[s]
      BY <1>5, <2>2
    <3>2. t[s][x].interface # n
      BY <1>3, <1>4, <1>5, <3>1, NewEntry
    <3>3. <<s, t[s][x].interface>> \in Attached
      BY <1>3, <3>1, EntryLeads
    <3> QED
      BY <1>3, <2>5, <3>1, <3>2, <3>3 DEF AimsAhead
  <2>7. x \in Side[<<r, n>>]
    BY <1>4, <2>2, <2>6, Between
  <2> QED
    BY <2>4, <2>7 DEF Entry
<1>6. ASSUME NEW q \in Routers, NEW x \in DOMAIN u[q]
      PROVE  x \in Side[<<q, u[q][x].interface>>]
  <2>1. CASE x \in DOMAIN t[q]
    <3>1. u[q][x] = t[q][x]
      BY <1>1, <1>2, <2>1
    <3> QED
      BY <1>3, <2>1, <3>1 DEF AimsAhead
  <2>2. CASE x \notin DOMAIN t[q]
    <3>1. q = r /\ x \in f.networks
      BY <1>1, <1>2, <1>6, <2>2
    <3> QED
      BY <1>5, <2>2, <3>1
  <2> QED
    BY <2>1, <2>2
<1>7. AimsAhead(Side, u)
  BY <1>6 DEF AimsAhead
<1> QED
  BY <1>7 DEF u

(* A packet that is forwarded leaves its interface behind, and goes only where it was going. *)
LEMMA GoesOn ==
    ASSUME InPairs, NEW Side, Apart(Side), NEW t, TablesLead(t), AimsAhead(Side, t),
           NEW y \in Attached, NEW f, Aim(f) # y[2], NEW m, Over(t, y[1], f, m),
           NEW z \in Attached, z[2] = m, z # <<y[1], m>>,
           NEW x \in Attached, Heading(Side, x, z, f)
    PROVE  x # y /\ Heading(Side, x, y, f)
<1>1. PICK q, k, s, r, n : q = y[1] /\ k = y[2] /\ s = z[1] /\ r = x[1] /\ n = x[2]
  OBVIOUS
<1>2. /\ y = <<q, k>> /\ z = <<s, m>> /\ x = <<r, n>> /\ q \in Routers /\ s \in Routers
      /\ r \in Routers /\ s # q
      /\ <<q, k>> \in Attached /\ <<s, m>> \in Attached /\ <<r, n>> \in Attached
  BY <1>1, AttachedPair
<1>3. /\ <<q, k>> \in Attached /\ <<s, m>> \in Attached /\ <<r, n>> \in Attached
       /\ q \in Routers /\ s \in Routers /\ r \in Routers
  BY <1>2
<1>4. PICK d : d = Aim(f)
  OBVIOUS
<1>5. d \in DOMAIN t[q] /\ t[q][d].interface = m /\ d # m
  BY <1>1, <1>4 DEF Over, Heading
<1>6. <<q, m>> \in Attached /\ d \in Side[<<q, m>>]
  <2>1. <<q, t[q][d].interface>> \in Attached
    BY <1>2, <1>5, EntryLeads
  <2> QED
    BY <1>2, <1>5, <2>1 DEF AimsAhead
<1>7. d \notin Side[z]
  <2>1. t[q][d] # Entry(<<q, d>>, d, "direct")
    BY <1>5 DEF Entry
  <2>2. PICK p \in Routers : LearnedFrom(t, q, p, m, d)
    <3>1. \E p \in Routers : LearnedFrom(t, q, p, t[q][d].interface, d)
      BY <1>2, <1>5, <2>1, EntryLeads
    <3> QED
      BY <1>5, <3>1
  <2>3. <<p, m>> \in Attached /\ p # q /\ d \in DOMAIN t[p] /\ t[p][d].interface # m
    BY <2>2 DEF LearnedFrom
  <2>4. p = s
    BY <1>2, <1>6, <2>3, Pair
  <2>5. PICK l : l = t[s][d].interface
    OBVIOUS
  <2>6. <<s, l>> \in Attached /\ d \in Side[<<s, l>>] /\ l # m
    BY <1>2, <2>3, <2>4, <2>5, EntryLeads DEF AimsAhead
  <2>7. PICK w : w = <<s, l>>
    OBVIOUS
  <2>8. w \in Attached /\ w[1] = z[1] /\ w # z
    BY <1>1, <1>2, <2>6, <2>7
  <2>9. Side[z] \cap Side[w] = {}
    BY <2>8 DEF Apart
  <2> QED
    BY <2>6, <2>7, <2>9
<1>8. m \in Side[x] /\ d \notin Side[x] /\ (m = n \/ Shared(x))
  <2>1. CASE x = z
    <3>1. z[2] \in Side[z]
      BY DEF Apart
    <3> QED
      BY <1>1, <1>7, <2>1, <3>1
  <2>2. CASE x # z
    BY <1>1, <1>4, <2>2 DEF Heading
  <2> QED
    BY <2>1, <2>2
<1>9. n = k \/ Shared(x)
  <2>1. CASE m = n
    <3>1. PICK v : v = IF x = z THEN <<q, m>> ELSE z
      OBVIOUS
    <3>2. v \in Attached \ {x} /\ v[2] = x[2]
      BY <1>1, <1>2, <1>6, <2>1, <3>1
    <3> QED
      BY <3>2 DEF Shared
  <2> QED
    BY <1>8, <2>1
<1>10. x # <<q, m>>
  BY <1>6, <1>8
<1>11. CASE r = q
  <2>1. PICK w : w = <<q, m>>
    OBVIOUS
  <2>2. w \in Attached /\ w[1] = x[1] /\ w # x /\ w[2] = m
    BY <1>1, <1>6, <1>10, <1>11, <2>1
  <2>3. w[2] \in Side[w] /\ Side[w] \cap Side[x] = {}
    BY <2>2 DEF Apart
  <2> QED
    BY <1>8, <2>2, <2>3
<1>12. CASE r # q
  <2>1. x # y
    BY <1>2, <1>12
  <2>2. k \in Side[x]
    <3>1. PICK w : w = <<q, m>>
      OBVIOUS
    <3>2. w \in Attached /\ w[1] # x[1] /\ y[1] = w[1] /\ w[2] \in Side[x]
      BY <1>1, <1>6, <1>8, <1>12, <3>1
    <3> QED
      BY <1>1, <3>2 DEF Apart
  <2> QED
    BY <1>1, <1>4, <1>8, <1>9, <2>1, <2>2 DEF Heading
<1> QED
  BY <1>11, <1>12

-----------------------------------------------------------------------------
(* Steps. *)

(* A router that reads a packet counts it once. *)
ReadsAt(x, r, n) == IF x = <<r, n>> THEN Read(x) + 1 ELSE Read(x)
LEMMA CountedOnce ==
    ASSUME CountsTyped, NEW r \in Routers, NEW n \in Range(Order[r]),
           \/ stats' = Counted(r, n)
           \/ \E entry : stats' = [Counted(r, n) EXCEPT ![r][n].output = CountOut(@, entry)]
    PROVE  /\ CountsTyped'
           /\ \A x \in Attached : /\ Read(x) \in Nat /\ Read(x)' \in Nat
                                  /\ Read(x)' <= ReadsAt(x, r, n)
<1>1. \A c \in Nat : CountIn(c) \in Nat /\ CountIn(c) <= c + 1
  BY DEF CountIn
<1>2. \A entry : \A c \in Nat : CountOut(c, entry) \in Nat
  BY DEF CountOut
<1>3. PICK R : R = Range(Order[r])
  OBVIOUS
<1>4. PICK old : old = stats[r]
  OBVIOUS
<1>5. old \in [R -> [input : Nat, output : Nat]] /\ n \in R
  BY <1>3, <1>4 DEF CountsTyped
<1>6. PICK new : new = [old EXCEPT ![n].input = CountIn(@)]
  OBVIOUS
<1>7. /\ new \in [R -> [input : Nat, output : Nat]]
      /\ new[n].input <= old[n].input + 1
      /\ \A m \in R \ {n} : new[m] = old[m]
  BY <1>1, <1>5, <1>6
<1>8. Counted(r, n) = [stats EXCEPT ![r] = new]
  BY <1>4, <1>6 DEF Counted
<1>9. PICK last :
        /\ stats' = [stats EXCEPT ![r] = last]
        /\ last \in [R -> [input : Nat, output : Nat]]
        /\ last[n].input <= old[n].input + 1
        /\ \A m \in R \ {n} : last[m].input = old[m].input
  <2>1. CASE stats' = Counted(r, n)
    BY <1>7, <1>8, <2>1
  <2>2. CASE \E entry : stats' = [Counted(r, n) EXCEPT ![r][n].output = CountOut(@, entry)]
    <3>1. PICK entry : stats' = [Counted(r, n) EXCEPT ![r][n].output = CountOut(@, entry)]
      BY <2>2
    <3>2. PICK last : last = [new EXCEPT ![n].output = CountOut(@, entry)]
      OBVIOUS
    <3>3. /\ last \in [R -> [input : Nat, output : Nat]]
          /\ last[n].input = new[n].input
          /\ \A m \in R \ {n} : last[m] = new[m]
      BY <1>2, <1>5, <1>7, <3>2
    <3>4. Counted(r, n)[r] = new
      BY <1>8 DEF CountsTyped
    <3>5. stats' = [stats EXCEPT ![r] = last]
      BY <1>8, <3>1, <3>2, <3>4 DEF CountsTyped
    <3>6. last[n].input <= old[n].input + 1
      BY <1>7, <3>3
    <3>7. \A m \in R \ {n} : last[m].input = old[m].input
      BY <1>7, <3>3
    <3> QED
      BY <3>3, <3>5, <3>6, <3>7
  <2> QED
    BY <2>1, <2>2
<1>10. CountsTyped'
  BY <1>3, <1>9 DEF CountsTyped
<1>11. ASSUME NEW x \in Attached
       PROVE  Read(x) \in Nat /\ Read(x)' \in Nat /\ Read(x)' <= ReadsAt(x, r, n)
  <2>1. PICK q, m : q = x[1] /\ m = x[2]
    OBVIOUS
  <2>2. x = <<q, m>> /\ q \in Routers /\ m \in Range(Order[q])
    BY <2>1, AttachedPair
  <2>3. Read(x) = stats[q][m].input /\ Read(x)' = stats'[q][m].input
    BY <2>1 DEF Read
  <2>4. stats[q][m].input \in Nat /\ stats'[q][m].input \in Nat
    BY <1>10, <2>2 DEF CountsTyped
  <2>5. CASE q = r /\ m = n
    <3>1. stats'[q][m].input <= stats[q][m].input + 1
      BY <1>4, <1>9, <2>5 DEF CountsTyped
    <3>2. ReadsAt(x, r, n) = Read(x) + 1
      BY <2>2, <2>5 DEF ReadsAt
    <3> QED
      BY <2>3, <2>4, <3>1, <3>2
  <2>6. CASE ~(q = r /\ m = n)
    <3>1. stats'[q][m].input = stats[q][m].input
      BY <1>3, <1>4, <1>9, <2>2, <2>6 DEF CountsTyped
    <3>2. ReadsAt(x, r, n) = Read(x)
      BY <2>2, <2>6 DEF ReadsAt
    <3> QED
      BY <2>3, <2>4, <3>1, <3>2
  <2> QED
    BY <2>5, <2>6
<1> QED
  BY <1>10, <1>11

LEMMA WithinStays ==
    ASSUME InPairs, NEW CONSTANT Side, NEW x \in Attached, IsFiniteSet(Sent), sent' = sent,
           Within(Side, x), Read(x) \in Nat, Read(x)' \in Nat, IsFiniteSet(Coming(Side, pcap', x)),
           Read(x)' + Cardinality(Coming(Side, pcap', x))
                <= Read(x) + Cardinality(Coming(Side, pcap, x))
    PROVE  Within(Side, x)'
<1>1. Sent' = Sent
  BY DEF Sent
<1>2. Coming(Side, pcap, x)' = Coming(Side, pcap', x)
  BY DEF Coming, Held
<1>3. PICK N : N = Cardinality(Ways(x[2])) * Cardinality(Sent)
  OBVIOUS
<1>4. N \in Nat
  BY <1>3, WaysArePair, FS_CardinalityType
<1>5. PICK a, b, c, d : /\ a = Read(x) /\ b = Cardinality(Coming(Side, pcap, x))
                        /\ c = Read(x)' /\ d = Cardinality(Coming(Side, pcap', x))
  OBVIOUS
<1>6. a \in Nat /\ b \in Nat /\ c \in Nat /\ d \in Nat /\ a + b <= N /\ c + d <= a + b
  BY <1>3, <1>5, FS_CardinalityType DEF Within
<1>7. c + d <= N
  BY <1>4, <1>6
<1>8. Read(x)' + Cardinality(Coming(Side, pcap', x)) <= Cardinality(Ways(x[2])) * Cardinality(Sent')
  BY <1>1, <1>3, <1>5, <1>7
<1> QED
  BY <1>2, <1>8 DEF Within

LEMMA SendWithin ==
    ASSUME LetInv, InPairs, NEW CONSTANT Side, CountsTyped, IsFiniteSet(Sent),
           NEW p \in Packets, Send(p), NEW x \in Attached, Within(Side, x)
    PROVE  Within(Side, x)'
<1>1. PICK f : f = Frame(p, {}, p.from)
  OBVIOUS
<1>2. /\ sent[p] = "no" /\ pcap' = CapturedOf(pcap, f) /\ stats' = stats
      /\ sent' = [sent EXCEPT ![p] = IF Knowing THEN "routable" ELSE "early"]
  BY <1>1 DEF Send, CapturedOf, tables
<1>3. /\ Understood(p) => Sent' = Sent \cup {p} /\ p \notin Sent
      /\ ~Understood(p) => Sent' = Sent
  BY <1>2 DEF Sent, LetInv
<1>4. Understood(p) => Cardinality(Sent') = Cardinality(Sent) + 1
  BY <1>3, FS_AddElement
<1>5. PICK w : w = Cardinality(Ways(x[2]))
  OBVIOUS
<1>6. w \in Nat /\ Cardinality(Sent) \in Nat
  BY <1>5, WaysArePair, FS_CardinalityType
<1>7. w * (Cardinality(Sent) + 1) = w * Cardinality(Sent) + w
  <2>1. \A i, j \in Nat : i * (j + 1) = i * j + i
    OBVIOUS
  <2> QED
    BY <1>6, <2>1
<1>8. \A y \in Routers \X LANs : Sequence(Held(pcap, y))
  BY FramesAre DEF Held, LetInv
<1>9. IsFiniteSet(Coming(Side, pcap, x))
  BY DEF Within
<1>10. /\ IsFiniteSet(Fresh(Side, pcap, x, f)) /\ Cardinality(Fresh(Side, pcap, x, f)) <= w
       /\ IsFiniteSet(Coming(Side, CapturedOf(pcap, f), x))
       /\ Cardinality(Coming(Side, CapturedOf(pcap, f), x)) <=
                Cardinality(Coming(Side, pcap, x)) + Cardinality(Fresh(Side, pcap, x, f))
  BY <1>5, <1>8, <1>9, FreshAtSource, OneMore
<1>11. Coming(Side, pcap, x)' = Coming(Side, CapturedOf(pcap, f), x)
  BY <1>2 DEF Coming, Held
<1>12. Read(x)' = Read(x) /\ Read(x) \in Nat
  BY <1>2, AttachedPair DEF Read, CountsTyped
<1>13. PICK a, b, c, d, e : /\ a = Read(x) /\ b = Cardinality(Coming(Side, pcap, x))
                            /\ c = Cardinality(Fresh(Side, pcap, x, f)) /\ e = Cardinality(Sent)
                            /\ d = Cardinality(Coming(Side, CapturedOf(pcap, f), x))
  OBVIOUS
<1>14. /\ a \in Nat /\ b \in Nat /\ c \in Nat /\ d \in Nat /\ w * e \in Nat
       /\ c <= w /\ d <= b + c
  BY <1>6, <1>9, <1>10, <1>12, <1>13, FS_CardinalityType
<1>15. a + b <= w * e
  BY <1>5, <1>13 DEF Within
<1>16. a + d <= w * e + w
  BY <1>6, <1>14, <1>15
<1>18. ~Understood(p) => a + d <= w * e
  <2> SUFFICES ASSUME ~Understood(p) PROVE a + d <= w * e
    OBVIOUS
  <2>1. f.packet = p
    BY <1>1 DEF Frame
  <2>2. Fresh(Side, pcap, x, f) = {}
    BY <2>1 DEF Fresh, Heading
  <2>3. c = 0
    BY <1>13, <2>2, FS_EmptySet
  <2> QED
    BY <1>14, <1>15, <2>3
<1>17. Read(x)' + Cardinality(Coming(Side, pcap, x)') <= Cardinality(Ways(x[2])) * Cardinality(Sent')
  <2>1. CASE Understood(p)
    BY <1>4, <1>5, <1>7, <1>11, <1>12, <1>13, <1>16, <2>1
  <2>2. CASE ~Understood(p)
    BY <1>3, <1>5, <1>11, <1>12, <1>13, <1>18, <2>2
  <2> QED
    BY <2>1, <2>2
<1> QED
  BY <1>10, <1>11, <1>17 DEF Within

LEMMA UpdatesWithin ==
    ASSUME LetInv, InPairs, NEW CONSTANT Side, CountsTyped, IsFiniteSet(Sent),
           NEW r \in Routers, send_updates(r), NEW x \in Attached, Within(Side, x)
    PROVE  Within(Side, x)'
<1>1. PICK frames : frames = {UpdateFrame(r, n) : n \in Range(Order[r])}
  OBVIOUS
<1>2. pcap' = Captured(pcap, frames) /\ sent' = sent /\ stats' = stats
  BY <1>1 DEF send_updates, tables
<1>3. IsFiniteSet(frames)
  BY <1>1, FiniteUpdates
<1>4. ASSUME NEW f \in frames
      PROVE  Aim(f) = NetworkOf(f.mac)
  <2>1. PICK n \in Range(Order[r]) : f = UpdateFrame(r, n)
    BY <1>1
  <2>2. n \in LANs /\ <<r, n>> \in Attached
    BY Interfaces
  <2>3. f.mac = <<r, n>> /\ f.packet.to = Broadcast(n)
    BY <2>1 DEF UpdateFrame, Frame
  <2> QED
    BY <2>2, <2>3, NetworkOfInterface, NetworkOfBroadcast DEF Aim
<1>5. IsFiniteSet(Coming(Side, pcap, x))
  BY DEF Within
<1>6. /\ IsFiniteSet(Coming(Side, pcap', x))
      /\ Cardinality(Coming(Side, pcap', x)) <= Cardinality(Coming(Side, pcap, x))
  BY <1>2, <1>3, <1>4, <1>5, LocalOnly DEF LetInv
<1>7. Read(x)' = Read(x) /\ Read(x) \in Nat
  BY <1>2, AttachedPair DEF Read, CountsTyped
<1>8. Cardinality(Coming(Side, pcap', x)) \in Nat /\ Cardinality(Coming(Side, pcap, x)) \in Nat
  BY <1>5, <1>6, FS_CardinalityType
<1>9. Read(x)' + Cardinality(Coming(Side, pcap', x)) <= Read(x) + Cardinality(Coming(Side, pcap, x))
  BY <1>6, <1>7, <1>8
<1> QED
  BY <1>2, <1>6, <1>7, <1>9, WithinStays

(* A frame that is read and sent nowhere: if it goes on, it is counted and gone. *)
LEMMA TakenWithin ==
    ASSUME FramesGood, InPairs, NEW CONSTANT Side, CountsTyped, IsFiniteSet(Sent),
           NEW r \in Routers, NEW n \in Range(Order[r]), next_frame(r, n), pcap' = Rest(r, n),
           sent' = sent, NEW x \in Attached, Within(Side, x),
           Read(x) \in Nat, Read(x)' \in Nat,
           \/ Read(x)' = Read(x)
           \/ /\ Read(x)' <= ReadsAt(x, r, n)
              /\ Aim(Head(pcap[r][n])) # n /\ Understood(Head(pcap[r][n]).packet)
    PROVE  Within(Side, x)'
<1>1. IsFiniteSet(Coming(Side, pcap, x))
  BY DEF Within
<1>2. PICK f, a, b, d : /\ f = Head(pcap[r][n]) /\ a = Read(x)
                        /\ b = Cardinality(Coming(Side, pcap, x))
                        /\ d = Cardinality(Coming(Side, Rest(r, n), x))
  OBVIOUS
<1>3. /\ IsFiniteSet(Coming(Side, Rest(r, n), x)) /\ d <= b
      /\ Heading(Side, x, <<r, n>>, f) => d <= b - 1
  BY <1>1, <1>2, ReadOne
<1>4. b \in Nat /\ d \in Nat
  BY <1>1, <1>2, <1>3, FS_CardinalityType
<1>5. x = <<r, n>> /\ Aim(f) # n /\ Understood(f.packet) => Heading(Side, x, <<r, n>>, f)
  BY DEF Heading
<1>6. Read(x)' + d <= a + b
  BY <1>2, <1>3, <1>4, <1>5 DEF ReadsAt
<1> QED
  BY <1>1, <1>2, <1>3, <1>6, WithinStays

LEMMA ForwardWithin ==
    ASSUME FramesGood, InPairs, NEW CONSTANT Side, Apart(Side), CountsTyped, IsFiniteSet(Sent),
           TablesLead(routing_table), FramesLead(routing_table, Side, pcap),
           AimsAhead(Side, routing_table),
           NEW r \in Routers, NEW n \in Range(Order[r]), NEW entry, Forward(r, n, entry),
           NEW x \in Attached, Within(Side, x), Read(x) \in Nat, Read(x)' \in Nat,
           Read(x)' <= ReadsAt(x, r, n)
    PROVE  Within(Side, x)'
<1>1. PICK f, k, y : f = Head(pcap[r][n]) /\ k = entry.interface /\ y = <<r, n>>
  OBVIOUS
<1>2. PICK out : out = Frame(f.packet, {}, <<r, k>>)
  OBVIOUS
<1>3. PICK dst : dst = Destination(r, entry, f.packet.to)
  OBVIOUS
<1>4. /\ next_frame(r, n) /\ ~IsLocal(f, n) /\ entry \in Route(routing_table[r], f.packet.to)
      /\ pcap' = IF dst = {} THEN Rest(r, n) ELSE CapturedOf(Rest(r, n), out)
      /\ sent' = sent /\ Understood(f.packet)
  BY <1>1, <1>2, <1>3 DEF Forward, CapturedOf
<1>5. n \in LANs /\ y \in Attached /\ y[1] = r /\ y[2] = n /\ f \in Range(pcap[r][n])
  BY <1>1, <1>4, Interfaces, RestHas
<1>6. CopyLeads(routing_table, Side, f, r, n) /\ Aim(f) # n
  BY <1>4, <1>5, IsOnWay DEF FramesLead
<1>7. f.packet.to \in Hosts
  BY <1>6, PacketHosts DEF CopyLeads
<1>8. Aim(f) \in DOMAIN routing_table[r] /\ entry = routing_table[r][Aim(f)]
  BY <1>4, <1>7, RouteIs DEF Aim
<1>9. Over(routing_table, r, f, k) /\ <<r, k>> \in Attached
  BY <1>1, <1>8, EntryLeads DEF Over
<1>10. CASE dst = {}
  BY <1>1, <1>4, <1>6, <1>10, TakenWithin
<1>11. CASE dst # {}
  <2>1. PICK rest : rest = Rest(r, n)
    OBVIOUS
  <2>2. /\ out.mac = <<r, k>> /\ NetworkOf(out.mac) = k /\ Aim(out) = Aim(f)
        /\ out.packet = f.packet
    BY <1>2, <1>9, AttachedIs DEF Frame, Aim
  <2>3. ASSUME NEW z \in Attached, z[2] = k, z # <<r, k>>, Heading(Side, x, z, out)
        PROVE  x # y /\ Heading(Side, x, y, f)
    <3>1. Heading(Side, x, z, f)
      BY <2>2, <2>3 DEF Heading
    <3> QED
      BY <1>5, <1>6, <1>9, <2>3, <3>1, GoesOn
  <2>4. PICK u, v : u = Fresh(Side, rest, x, out) /\ v = Cardinality(u)
    OBVIOUS
  <2>5. /\ IsFiniteSet(u) /\ v \in Nat /\ v <= 1
        /\ u # {} => x # y /\ Heading(Side, x, y, f)
        /\ u = {} => v = 0
    <3>1. CASE \E z \in Attached : z[2] = k /\ z # <<r, k>> /\ Heading(Side, x, z, out)
      <4>1. PICK z \in Attached : z[2] = k /\ z # <<r, k>> /\ Heading(Side, x, z, out)
        BY <3>1
      <4>2. PICK w : w = <<r, k>>
        OBVIOUS
      <4>3. w \in Attached /\ w[2] = k
        BY <1>9, <4>2
      <4>4. \A a \in Attached : a[2] = k /\ a # w => a = z
        BY <4>1, <4>2, <4>3 DEF InPairs
      <4>5. u = {Newest(rest, z)}
        BY <2>2, <2>4, <4>1, <4>2, <4>4 DEF Fresh
      <4>6. IsFiniteSet(u) /\ Cardinality(u) = 1
        BY <4>5, FS_Singleton
      <4>7. x # y /\ Heading(Side, x, y, f)
        BY <2>3, <4>1
      <4>8. v = 1 /\ u # {}
        BY <2>4, <4>5, <4>6
      <4> QED
        BY <4>6, <4>7, <4>8
    <3>2. CASE ~\E z \in Attached : z[2] = k /\ z # <<r, k>> /\ Heading(Side, x, z, out)
      <4>1. u = {}
        BY <2>2, <2>4, <3>2 DEF Fresh
      <4> QED
        BY <2>4, <4>1, FS_EmptySet
    <3> QED
      BY <3>1, <3>2
  <2>6. IsFiniteSet(Coming(Side, pcap, x))
    BY DEF Within
  <2>7. PICK a, b, c, d : /\ a = Read(x) /\ b = Cardinality(Coming(Side, pcap, x))
                          /\ c = Cardinality(Coming(Side, rest, x))
                          /\ d = Cardinality(Coming(Side, CapturedOf(rest, out), x))
    OBVIOUS
  <2>8. /\ IsFiniteSet(Coming(Side, rest, x)) /\ c <= b
        /\ Heading(Side, x, y, f) => c <= b - 1
    BY <1>1, <1>4, <2>1, <2>6, <2>7, ReadOne
  <2>9. \A q \in Routers \X LANs : Sequence(Held(rest, q))
    BY <1>4, <2>1, RestHas DEF Held
  <2>10. IsFiniteSet(Coming(Side, CapturedOf(rest, out), x)) /\ d <= c + v
    BY <2>4, <2>5, <2>7, <2>8, <2>9, OneMore
  <2>11. a \in Nat /\ b \in Nat /\ c \in Nat /\ d \in Nat
    BY <2>6, <2>7, <2>8, <2>10, FS_CardinalityType
  <2>12. x = y => Heading(Side, x, y, f)
    BY <1>4, <1>5, <1>6 DEF Heading
  <2>13. Read(x)' + d <= a + b
    <3>1. CASE x = y
      <4>1. v = 0 /\ c <= b - 1 /\ Read(x)' <= a + 1
        BY <1>1, <2>5, <2>7, <2>8, <2>12, <3>1 DEF ReadsAt
      <4> QED
        BY <2>10, <2>11, <4>1
    <3>2. CASE x # y
      <4>1. Read(x)' <= a
        BY <1>1, <2>7, <3>2 DEF ReadsAt
      <4>2. v = 0 \/ (v <= 1 /\ c <= b - 1)
        BY <2>5, <2>8
      <4> QED
        BY <2>5, <2>8, <2>10, <2>11, <4>1, <4>2
    <3> QED
      BY <3>1, <3>2
  <2>14. pcap' = CapturedOf(rest, out)
    BY <1>4, <1>11, <2>1
  <2> QED
    BY <1>4, <2>7, <2>10, <2>13, <2>14, WithinStays
<1> QED
  BY <1>10, <1>11

LEMMA RoundsInit ==
    ASSUME NEW CONSTANT Side, Apart(Side), InPairs
    PROVE  Init => RoundsInv(Side)
<1> SUFFICES ASSUME Init PROVE RoundsInv(Side)
  OBVIOUS
<1>1. /\ routing_table = [r \in Routers |-> open_interfaces(r)]
      /\ stats = [r \in Routers |-> [n \in Range(Order[r]) |-> [input |-> 0, output |-> 0]]]
      /\ pcap = [r \in Routers |-> [n \in LANs |-> << >>]]
      /\ sent = [p \in Packets |-> "no"]
  BY DEF Init
<1>2. CountsTyped
  BY <1>1 DEF CountsTyped
<1>3. Sent = {}
  BY <1>1 DEF Sent
<1>4. IsFiniteSet(Sent) /\ Cardinality(Sent) = 0
  BY <1>3, FS_EmptySet
<1>5. ASSUME NEW r \in Routers, NEW n \in DOMAIN routing_table[r]
      PROVE  n \in Side[<<r, routing_table[r][n].interface>>]
  <2>1. n \in Range(Order[r]) /\ routing_table[r][n].interface = n
    BY <1>1 DEF open_interfaces, Entry
  <2>2. PICK x : x = <<r, n>>
    OBVIOUS
  <2>3. x \in Attached /\ x[2] = n
    BY <2>1, <2>2, Interfaces
  <2>4. x[2] \in Side[x]
    BY <2>3 DEF Apart
  <2> QED
    BY <2>1, <2>2, <2>3, <2>4
<1>6. AimsAhead(Side, routing_table)
  BY <1>5 DEF AimsAhead
<1>7. ASSUME NEW x \in Attached
      PROVE  Within(Side, x)
  <2>1. Read(x) = 0
    BY <1>1, AttachedPair DEF Read
  <2>2. \A y \in Routers \X LANs : Held(pcap, y) = << >>
    BY <1>1 DEF Held
  <2>3. \A c \in Places : c[1] \in Routers \X LANs
    BY DEF Places
  <2>4. Coming(Side, pcap, x) = {}
    BY <2>2, <2>3 DEF Coming
  <2>5. IsFiniteSet(Coming(Side, pcap, x)) /\ Cardinality(Coming(Side, pcap, x)) = 0
    BY <2>4, FS_EmptySet
  <2>6. Cardinality(Ways(x[2])) * Cardinality(Sent) = 0
    BY <1>4, WaysArePair
  <2> QED
    BY <2>1, <2>5, <2>6 DEF Within
<1> QED
  BY <1>2, <1>4, <1>6, <1>7 DEF RoundsInv

(* Counts are typed whatever is touched. *)
LEMMA CountsStep ==
    ASSUME CountsTyped, [Next]_vars
    PROVE  CountsTyped'
<1>1. CASE \E p \in Packets : Send(p)
  BY <1>1 DEF Send, tables, CountsTyped
<1>2. CASE \E r \in Routers : \E c \in {g[2] : g \in Commands} : Give(r, c)
  BY <1>2 DEF Give, tables, CountsTyped
<1>7. CASE \E r \in Routers : InvalidAddressError(r)
  BY <1>7 DEF InvalidAddressError, CountsTyped
<1>3. CASE \E r \in Routers : check_for_message(r)
  <2>1. PICK r \in Routers : check_for_message(r)
    BY <1>3
  <2>2. PICK c : \/ add_static_route(r, c) \/ delete_static_route(r, c)
                 \/ add_new_rule(r, c) \/ delete_rule(r, c) \/ reset_all_stats(r, c)
    BY <2>1 DEF check_for_message
  <2>3. CASE reset_all_stats(r, c)
    <3>1. PICK new : new = [n \in DOMAIN stats[r] |-> [input |-> 0, output |-> 0]]
      OBVIOUS
    <3>2. stats' = [stats EXCEPT ![r] = new]
      BY <2>3, <3>1 DEF reset_all_stats
    <3>3. new \in [Range(Order[r]) -> [input : Nat, output : Nat]]
      BY <3>1 DEF CountsTyped
    <3> QED
      BY <3>2, <3>3 DEF CountsTyped
  <2>4. CASE ~reset_all_stats(r, c)
    <3>1. stats' = stats
      BY <2>2, <2>4 DEF add_static_route, delete_static_route, add_new_rule, delete_rule
    <3> QED
      BY <3>1 DEF CountsTyped
  <2> QED
    BY <2>3, <2>4
<1>4. CASE \E r \in Routers : send_updates(r)
  BY <1>4 DEF send_updates, tables, CountsTyped
<1>5. CASE \E r \in Routers : route_packet(r)
  <2>1. PICK r \in Routers : \E n \in Range(Order[r]) :
           \/ Ignore(r, n) \/ LearnFromLAN(r, n) \/ Drop(r, n)
           \/ \E entry \in Range(routing_table[r]) : Forward(r, n, entry) \/ NoMethodError(r, n, entry)
    BY <1>5 DEF route_packet
  <2>2. PICK n \in Range(Order[r]) :
           \/ Ignore(r, n) \/ LearnFromLAN(r, n) \/ Drop(r, n)
           \/ \E entry \in Range(routing_table[r]) : Forward(r, n, entry) \/ NoMethodError(r, n, entry)
    BY <2>1
  <2>3. \/ stats' = stats \/ stats' = Counted(r, n)
        \/ \E entry : stats' = [Counted(r, n) EXCEPT ![r][n].output = CountOut(@, entry)]
    BY <2>2 DEF Ignore, LearnFromLAN, Drop, Forward, NoMethodError, tables
  <2>4. CASE stats' = stats
    BY <2>4 DEF CountsTyped
  <2>5. CASE stats' # stats
    BY <2>3, <2>5, CountedOnce
  <2> QED
    BY <2>4, <2>5
<1>6. CASE UNCHANGED vars
  BY <1>6 DEF vars, tables, CountsTyped
<1> QED
  BY <1>1, <1>2, <1>3, <1>4, <1>5, <1>6, <1>7 DEF Next, Loop

LEMMA SentStep ==
    ASSUME DOMAIN sent = Packets, IsFiniteSet(Sent), [Next]_vars
    PROVE  IsFiniteSet(Sent')
<1>1. CASE \E p \in Packets : Send(p)
  <2>1. PICK p \in Packets : Send(p)
    BY <1>1
  <2>2. Sent' \in SUBSET (Sent \cup {p})
    BY <2>1 DEF Send, Sent
  <2> QED
    BY <2>2, FS_AddElement, FS_Subset
<1>2. CASE \E r \in Routers : \E c \in {g[2] : g \in Commands} : Give(r, c)
  BY <1>2 DEF Give, traffic, Sent
<1>3. CASE \E r \in Routers :
           check_for_message(r) \/ InvalidAddressError(r) \/ send_updates(r)
  BY <1>3 DEF check_for_message, InvalidAddressError, send_updates, traffic, Sent
<1>4. CASE \E r \in Routers : route_packet(r)
  BY <1>4, FramesChange DEF Sent
<1>5. CASE UNCHANGED vars
  BY <1>5 DEF vars, traffic, Sent
<1> QED
  BY <1>1, <1>2, <1>3, <1>4, <1>5 DEF Next, Loop

(* Commands leave frames alone; counts can only go back to zero. *)
LEMMA CommandWithin ==
    ASSUME InPairs, NEW CONSTANT Side, CountsTyped, CountsTyped', IsFiniteSet(Sent),
           NEW r \in Routers, check_for_message(r), NEW x \in Attached, Within(Side, x)
    PROVE  Within(Side, x)'
<1>1. pcap' = pcap /\ sent' = sent
  BY DEF check_for_message, traffic
<1>2. PICK c : \/ add_static_route(r, c) \/ delete_static_route(r, c)
               \/ add_new_rule(r, c) \/ delete_rule(r, c) \/ reset_all_stats(r, c)
  BY DEF check_for_message
<1>3. Read(x) \in Nat /\ Read(x)' \in Nat
  BY AttachedPair DEF Read, CountsTyped
<1>4. Read(x)' <= Read(x)
  <2>1. CASE reset_all_stats(r, c)
    <3>1. PICK new : new = [n \in DOMAIN stats[r] |-> [input |-> 0, output |-> 0]]
      OBVIOUS
    <3>2. stats' = [stats EXCEPT ![r] = new]
      BY <2>1, <3>1 DEF reset_all_stats
    <3>3. x[1] \in Routers /\ x[2] \in Range(Order[x[1]])
      BY AttachedPair
    <3>4. CASE x[1] = r
      <4>1. stats'[r] = new /\ x[2] \in DOMAIN stats[r]
        BY <3>2, <3>3, <3>4 DEF CountsTyped
      <4>2. Read(x)' = 0
        BY <3>1, <3>4, <4>1 DEF Read
      <4> QED
        BY <1>3, <4>2
    <3>5. CASE x[1] # r
      <4>1. stats'[x[1]] = stats[x[1]]
        BY <3>2, <3>3, <3>5 DEF CountsTyped
      <4> QED
        BY <1>3, <4>1 DEF Read
    <3> QED
      BY <3>4, <3>5
  <2>2. CASE ~reset_all_stats(r, c)
    <3>1. stats' = stats
      BY <1>2, <2>2 DEF add_static_route, delete_static_route, add_new_rule, delete_rule
    <3> QED
      BY <1>3, <3>1 DEF Read
  <2> QED
    BY <2>1, <2>2
<1>5. IsFiniteSet(Coming(Side, pcap, x))
  BY DEF Within
<1>6. PICK a, b, e : a = Read(x) /\ b = Cardinality(Coming(Side, pcap, x)) /\ e = Read(x)'
  OBVIOUS
<1>7. e + b <= a + b
  BY <1>3, <1>4, <1>5, <1>6, FS_CardinalityType
<1>8. Read(x)' + Cardinality(Coming(Side, pcap', x)) <= Read(x) + Cardinality(Coming(Side, pcap, x))
  BY <1>1, <1>6, <1>7
<1> QED
  BY <1>1, <1>3, <1>5, <1>8, WithinStays

LEMMA SameWithin ==
    ASSUME NEW CONSTANT Side, stats' = stats, traffic' = traffic, NEW x \in Attached, Within(Side, x)
    PROVE  Within(Side, x)'
  BY DEF Within, Read, Coming, Held, Sent, traffic

LEMMA RoundsStep ==
    ASSUME InPairs, NEW CONSTANT Side, Apart(Side), LetInv, GatewayInv, CommandInv, WayInv(Side),
           RoundsInv(Side), [Next]_vars
    PROVE  RoundsInv(Side)'
<1>1. ~RoutesTouched' => ~RoutesTouched
  BY GivenGrows DEF RoutesTouched, Given
<1>2. /\ CountsTyped /\ CountsTyped' /\ IsFiniteSet(Sent) /\ IsFiniteSet(Sent')
      /\ FramesGood /\ DOMAIN sent = Packets
  BY CountsStep, SentStep DEF RoundsInv, LetInv
<1> SUFFICES ASSUME ~RoutesTouched
             PROVE  AimsAhead(Side, routing_table') /\ \A x \in Attached : Within(Side, x)'
  BY <1>1, <1>2 DEF RoundsInv, AimsAhead, Sent
<1>3. /\ AimsAhead(Side, routing_table) /\ \A x \in Attached : Within(Side, x)
      /\ TablesLead(routing_table) /\ FramesLead(routing_table, Side, pcap)
  BY DEF WayInv, RoundsInv
<1>4. CASE \E p \in Packets : Send(p)
  <2>1. PICK p \in Packets : Send(p)
    BY <1>4
  <2>2. routing_table' = routing_table
    BY <2>1 DEF Send, tables
  <2> QED
    BY <1>2, <1>3, <2>1, <2>2, SendWithin
<1>5. CASE \E r \in Routers : \E c \in {g[2] : g \in Commands} : Give(r, c)
  <2>1. tables' = tables /\ traffic' = traffic
    BY <1>5 DEF Give
  <2> QED
    BY <1>3, <2>1, SameWithin DEF tables
<1>6. CASE \E r \in Routers : check_for_message(r) \/ InvalidAddressError(r)
  <2>1. PICK r \in Routers : check_for_message(r) \/ InvalidAddressError(r)
    BY <1>6
  <2>2. check_for_message(r) /\ routing_table' = routing_table
    BY <2>1, CommandAsks
  <2> QED
    BY <1>2, <1>3, <2>2, CommandWithin
<1>7. CASE \E r \in Routers : send_updates(r)
  <2>1. PICK r \in Routers : send_updates(r)
    BY <1>7
  <2>2. routing_table' = routing_table
    BY <2>1 DEF send_updates, tables
  <2> QED
    BY <1>2, <1>3, <2>1, <2>2, UpdatesWithin
<1>8. CASE \E r \in Routers : route_packet(r)
  <2>1. PICK r \in Routers : \E n \in Range(Order[r]) :
           \/ Ignore(r, n) \/ LearnFromLAN(r, n) \/ Drop(r, n)
           \/ \E entry \in Range(routing_table[r]) : Forward(r, n, entry) \/ NoMethodError(r, n, entry)
    BY <1>8 DEF route_packet
  <2>2. PICK n \in Range(Order[r]) :
           \/ Ignore(r, n) \/ LearnFromLAN(r, n) \/ Drop(r, n)
           \/ \E entry \in Range(routing_table[r]) : Forward(r, n, entry) \/ NoMethodError(r, n, entry)
    BY <2>1
  <2>3. CASE LearnFromLAN(r, n)
    <3>1. next_frame(r, n) /\ pcap' = Rest(r, n) /\ stats' = stats /\ sent' = sent
      BY <2>3 DEF LearnFromLAN
    <3>2. n \in LANs /\ Head(pcap[r][n]) \in Range(pcap[r][n])
      BY <1>2, <3>1, Interfaces, RestHas
    <3>3. FrameLeads(routing_table, Side, Head(pcap[r][n]), r, n)
      BY <1>3, <3>2 DEF FramesLead
    <3>4. AimsAhead(Side, routing_table')
      BY <1>3, <2>3, <3>3, LearnAims
    <3>5. \A x \in Attached : Read(x) \in Nat /\ Read(x)' = Read(x)
      BY <1>2, <3>1, AttachedPair DEF Read, CountsTyped
    <3> QED
      BY <1>2, <1>3, <3>1, <3>4, <3>5, TakenWithin
  <2>7. CASE Ignore(r, n)
    <3>1. /\ next_frame(r, n) /\ pcap' = Rest(r, n) /\ stats' = stats /\ sent' = sent
          /\ routing_table' = routing_table
      BY <2>7 DEF Ignore, tables
    <3>2. \A x \in Attached : Read(x) \in Nat /\ Read(x)' = Read(x)
      BY <1>2, <3>1, AttachedPair DEF Read, CountsTyped
    <3> QED
      BY <1>2, <1>3, <3>1, <3>2, TakenWithin
  <2>4. CASE Drop(r, n)
    <3>1. /\ next_frame(r, n) /\ pcap' = Rest(r, n) /\ stats' = Counted(r, n) /\ sent' = sent
          /\ routing_table' = routing_table
          /\ Aim(Head(pcap[r][n])) # n /\ Understood(Head(pcap[r][n]).packet)
      BY <2>4 DEF Drop, IsLocal, Aim
    <3>2. \A x \in Attached : /\ Read(x) \in Nat /\ Read(x)' \in Nat
                              /\ Read(x)' <= ReadsAt(x, r, n)
      BY <1>2, <3>1, CountedOnce
    <3> QED
      BY <1>2, <1>3, <3>1, <3>2, TakenWithin
  <2>5. CASE \E entry \in Range(routing_table[r]) : Forward(r, n, entry)
    <3>1. PICK entry \in Range(routing_table[r]) : Forward(r, n, entry)
      BY <2>5
    <3>2. /\ stats' = [Counted(r, n) EXCEPT ![r][n].output = CountOut(@, entry)]
          /\ routing_table' = routing_table
      BY <3>1 DEF Forward
    <3>3. \A x \in Attached : /\ Read(x) \in Nat /\ Read(x)' \in Nat
                              /\ Read(x)' <= ReadsAt(x, r, n)
      BY <1>2, <3>2, CountedOnce
    <3>4. \A x \in Attached : Within(Side, x)'
      BY <1>2, <1>3, <3>1, <3>3, ForwardWithin
    <3> QED
      BY <1>3, <3>2, <3>4
  <2>6. CASE \E entry \in Range(routing_table[r]) : NoMethodError(r, n, entry)
    BY <1>2, <1>3, <2>6, NoStop
  <2> QED
    BY <2>2, <2>3, <2>4, <2>5, <2>6, <2>7
<1>9. CASE UNCHANGED vars
  <2>1. tables' = tables /\ traffic' = traffic
    BY <1>9 DEF vars
  <2> QED
    BY <1>3, <2>1, SameWithin DEF tables
<1> QED
  BY <1>4, <1>5, <1>6, <1>7, <1>8, <1>9 DEF Next, Loop

(* Between LANs with one way only, TCP, UDP and ICMP packets do not go round: although routers capture what others
   forward, a packet that is behind an interface does not come back to it, and no interface
   reads more copies of it than there are routers on the LAN. *)
THEOREM NothingGoesRound == Spec => []NoRounds
<1>1. CASE OneWay
  <2>1. PICK Side \in [Attached -> SUBSET LANs] : Apart(Side)
    BY <1>1 DEF OneWay
  <2>2. InPairs
    BY <1>1 DEF OneWay
  <2>3. Init => WayInv(Side) /\ RoundsInv(Side)
    BY <2>1, <2>2, WayInit, RoundsInit
  <2> DEFINE AllInv == LetInv /\ GatewayInv /\ CommandInv
  <2>4. AllInv /\ WayInv(Side) /\ [Next]_vars => WayInv(Side)'
    BY <2>1, <2>2, WayStep
  <2>5. AllInv /\ WayInv(Side) /\ RoundsInv(Side) /\ [Next]_vars => RoundsInv(Side)'
    BY <2>1, <2>2, RoundsStep
  <2>6. RoundsInv(Side) => NoRounds
    <3> SUFFICES ASSUME RoundsInv(Side), ~RoutesTouched, NEW x \in Attached
                 PROVE  Read(x) <= Cardinality(Ways(x[2])) * Cardinality(Sent)
      BY DEF NoRounds, Read, Ways
    <3>1. Within(Side, x) /\ CountsTyped /\ IsFiniteSet(Sent)
      BY DEF RoundsInv
    <3>2. PICK a, b, N : /\ a = Read(x) /\ b = Cardinality(Coming(Side, pcap, x))
                         /\ N = Cardinality(Ways(x[2])) * Cardinality(Sent)
      OBVIOUS
    <3>3. a \in Nat /\ b \in Nat /\ N \in Nat /\ a + b <= N
      BY <2>2, <3>1, <3>2, AttachedPair, WaysArePair, FS_CardinalityType
         DEF Within, Read, CountsTyped
    <3> QED
      BY <3>2, <3>3
  <2>7. Spec => []AllInv
    BY LetInvariant, GatewayInvariant, CommandInvariant, PTL
  <2> HIDE DEF AllInv
  <2> QED
    BY <2>3, <2>4, <2>5, <2>6, <2>7, PTL DEF Spec
<1>2. CASE ~OneWay
  <2>1. NoRounds
    BY <1>2 DEF NoRounds
  <2> QED
    BY <2>1, PTL
<1> QED
  BY <1>1, <1>2
=============================================================================
