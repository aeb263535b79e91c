------------------------------- MODULE Router -------------------------------
(***************************************************************************)
(* What routers do with frames (router.rb, packet_queue.rb, mac_table.rb,  *)
(* filters.rb, packet_input.rb) and with the commands of their menu        *)
(* (loopback.rb), between hosts on LANs that several routers may share.    *)
(* Interfaces are promiscuous: a router captures every frame that somebody *)
(* else puts on its LANs, and nothing looks at a frame's destination MAC.  *)
(*                                                                         *)
(* The main loop takes a command, sends its update and takes a frame in    *)
(* turn.  As commands and frames may come at any time in between, each of  *)
(* the three is an action.  Entries do not time out here: see              *)
(* RoutingProtocol.                                                        *)
(***************************************************************************)
EXTENDS Integers, SequencesExt

CONSTANTS Routers, LANs, Hosts,
          Order,        \* of each router: its interfaces as $pcap_hash has them
          Home,         \* of each host: its LAN
          Everywhere,   \* 0.0.0.0/0
          Mistyped,     \* a text that is no address, or none
          Packets,      \* [from, to : Hosts, protocol]; ports are part of the protocol
          Commands,     \* <<router, command>> the administrator may give, each once
          MaxPackets,   \* bound on packets sent
          MaxCommands,  \* bound on commands given
          MaxCount      \* bound at which packet counts stay

Attached == UNION {{<<r, n>> : n \in Range(Order[r])} : r \in Routers}

ASSUME OrderAssumption == \A r \in Routers : Order[r] \in Seq(LANs) /\ IsInjective(Order[r])
ASSUME HomeAssumption == Home \in [Hosts -> LANs] /\ Hosts \cap Attached = {}
ASSUME PrefixAssumption == Everywhere \notin LANs
ASSUME MistypedAssumption == Mistyped \notin LANs \cup {Everywhere} \cup Hosts \cup Attached
ASSUME PacketsAssumption == \A p \in Packets : p.from \in Hosts /\ p.to \in Hosts
ASSUME BoundsAssumption == MaxPackets \in Nat /\ MaxCommands \in Nat /\ MaxCount \in Nat \ {0}

VARIABLES
    up,                 \* FALSE once an exception ended the main loop
    routing_table, mac_table, filters, stats,
    pcap,               \* frames captured and not read yet, by router and LAN
    commands,           \* what waits in $recv_socket
    sent,               \* of each packet: "no", "early", "routable" (see Send)
    arrived,            \* how many copies its receiver got
    given,              \* commands given so far
    meant,              \* the rules as the administrator knows them
    passable            \* packets that a router next to the sender would let pass at some time

tables == <<up, routing_table, mac_table, filters, stats>>
traffic == <<pcap, sent, arrived>>
admin == <<given, meant>>
vars == <<tables, traffic, commands, admin, passable>>

-----------------------------------------------------------------------------
(* An interface <<router, LAN>> has an IP and a MAC address, a host too; both are
   named by their owner. *)
Addresses == Hosts \cup Attached
NetworkOf(x) == IF x \in Hosts THEN Home[x] ELSE x[2]
Networks == LANs \cup {Everywhere}
Includes(n, x) == n \in {Everywhere, NetworkOf(x)}

(* as_l4_protocol knows TCP, UDP and ICMP. *)
Understood(p) == p.protocol # "unknown"

Entry(gateway, interface, type) ==
    [gateway |-> gateway, interface |-> interface, type |-> type]
open_interfaces(r) == [n \in Range(Order[r]) |-> Entry(<<r, n>>, n, "direct")]

(* Variation (a bug the properties must notice): only the first interface is looked at. *)
FirstInterfaceOnly(r, x) == IF NetworkOf(x) = Order[r][1] THEN NetworkOf(x) ELSE "?"
find_interface_by_ip(r, x) == IF <<r, NetworkOf(x)>> \in Attached THEN NetworkOf(x) ELSE "?"

(* Variation (a bug the properties must notice): the latest sender is the gateway. *)
FollowsLatest(r, table, from, networks) ==
    [n \in networks |-> Entry(from, find_interface_by_ip(r, from), "dynamic")] @@ table
update_routing_table(r, table, from, networks) ==
    [n \in DOMAIN table \cup networks |->
        IF n \in DOMAIN table THEN table[n]
        ELSE Entry(from, find_interface_by_ip(r, from), "dynamic")]

(* Longest prefix first; {} if nothing matches. *)
Route(table, x) ==
    LET fits == {n \in DOMAIN table : Includes(n, x)}
    IN {table[n] : n \in IF fits \cap LANs # {} THEN fits \cap LANs ELSE fits}

Fits(rule, p) == /\ rule.src \in {p.from, "any"} /\ rule.dst \in {p.to, "any"}
                 /\ rule.protocol \in {p.protocol, "any"}
(* Variation (a bug the properties must notice): only the first rule counts. *)
FirstRuleOnly(rules, p) == rules # << >> /\ Fits(rules[1], p)
should_be_filtered(rules, p) == \E i \in DOMAIN rules : Fits(rules[i], p)

(* Variation (a bug the properties must notice): broadcasts teach nothing. *)
IgnoresUpdates(macs, f) == IF f.networks # {} THEN macs ELSE macs @@ (f.packet.from :> f.mac)
learn_mac_addresses(macs, f) ==
    [x \in DOMAIN macs \cup {f.packet.from} |-> IF x \in DOMAIN macs THEN macs[x] ELSE f.mac]

Frame(packet, networks, mac) == [packet |-> packet, networks |-> networks, mac |-> mac]
Broadcast(n) == <<"broadcast", n>>
ASSUME BroadcastAssumption == \A n \in LANs : Broadcast(n) \notin Hosts
UpdateFrame(r, n) ==
    Frame([from |-> <<r, n>>, to |-> Broadcast(n), protocol |-> "udp"], DOMAIN routing_table[r], <<r, n>>)

(* Variation (a bug the properties must notice): what came from the LAN is routed too. *)
NothingIsLocal(f, n) == f.packet.to = Broadcast(n)
IsLocal(f, n) == NetworkOf(f.packet.to) = n

CountOut(count, entry) == IF count = MaxCount THEN count ELSE count + 1

(* Every running router attached to the LAN but the sender captures a frame. *)
Captured(buffers, frames) ==
    [r \in Routers |-> [n \in LANs |->
        buffers[r][n] \o SetToSeq({f \in frames : /\ up[r] /\ <<r, n>> \in Attached \ {f.mac}
                                                  /\ NetworkOf(f.mac) = n})]]
(* The host that has the packet's address takes it if its MAC is among dst. *)
Received(f, dst) ==
    [p \in Packets |-> IF p = f.packet /\ p.to \in dst /\ NetworkOf(p.to) = NetworkOf(f.mac)
                          /\ arrived[p] < MaxCount
                       THEN arrived[p] + 1 ELSE arrived[p]]

-----------------------------------------------------------------------------
Init ==
    /\ up = [r \in Routers |-> TRUE]
    /\ routing_table = [r \in Routers |-> open_interfaces(r)]
    /\ mac_table = [r \in Routers |-> << >>]
    /\ filters = [r \in Routers |-> << >>]
    /\ stats = [r \in Routers |-> [n \in Range(Order[r]) |-> [input |-> 0, output |-> 0]]]
    /\ pcap = [r \in Routers |-> [n \in LANs |-> << >>]]
    /\ commands = [r \in Routers |-> << >>]
    /\ sent = [p \in Packets |-> "no"] /\ arrived = [p \in Packets |-> 0]
    /\ given = {} /\ meant = [r \in Routers |-> << >>]
    /\ passable = {}

(* A host sends to a host of its LAN, or to a router. *)
Knowing == \A r \in Routers : LANs \subseteq DOMAIN routing_table[r]
Passable(p, rules) == \E r \in Routers :
    <<r, NetworkOf(p.from)>> \in Attached /\ ~\E rule \in Range(rules[r]) : Fits(rule, p)
Send(p) ==
    /\ sent[p] = "no"
    /\ Cardinality({q \in Packets : sent[q] # "no"}) < MaxPackets
    /\ sent' = [sent EXCEPT ![p] = IF Knowing THEN "routable" ELSE "early"]
    /\ LET f == Frame(p, {}, p.from)
       IN /\ pcap' = Captured(pcap, {f})
          /\ arrived' = Received(f, {p.to})
    /\ passable' = IF Passable(p, filters) THEN passable \cup {p} ELSE passable
    /\ UNCHANGED <<tables, commands, admin>>

(* The administrator gives a command.  He deletes a rule by its place in the list as it
   is after his earlier commands. *)
Give(r, c) ==
    /\ <<r, c>> \in Commands \ given /\ Cardinality(given) < MaxCommands
    /\ c.do = "delete_rule" => c.rule \in Range(meant[r])
    /\ given' = given \cup {<<r, c>>}
    /\ meant' = [meant EXCEPT ![r] =
            IF c.do = "add_new_rule" THEN Append(@, c.rule)
            ELSE IF c.do = "delete_rule" THEN RemoveFirst(@, c.rule) ELSE @]
    /\ commands' = [commands EXCEPT ![r] = Append(@,
            IF c.do = "delete_rule"
            THEN [do |-> "delete_rule", id |-> SelectInSeq(meant[r], LAMBDA rule : rule = c.rule) - 1]
            ELSE c)]
    /\ UNCHANGED <<tables, traffic, passable>>

-----------------------------------------------------------------------------
(* process_message, command by command. *)
(* IPAddr.new of the network raises, or include? of the gateway on the first interface:
   the menu passes on what was typed. *)
Raises(r, c) == \/ c.network = Mistyped
                \/ c.gateway = Mistyped /\ Order[r] # << >>
add_static_route(r, c) ==
    /\ c.do = "new_static_route"
    /\ ~Raises(r, c)
    /\ routing_table' = [routing_table EXCEPT ![r] = [n \in DOMAIN @ \cup {c.network} |->
            IF n # c.network THEN @[n]
            ELSE Entry(c.gateway, find_interface_by_ip(r, c.gateway), "static")]]
    /\ UNCHANGED <<filters, stats>>

(* The id counts the entries of the table as it was shown; which one has it now, or
   none, is open, and it may be of any type. *)
delete_static_route(r, c) ==
    /\ c.do = "delete_static_route"
    /\ \E n \in Networks :
        routing_table' = [routing_table EXCEPT ![r] = Restrict(@, DOMAIN @ \ {n})]
    /\ UNCHANGED <<filters, stats>>

add_new_rule(r, c) ==
    /\ c.do = "add_new_rule"
    /\ filters' = [filters EXCEPT ![r] = Append(@, c.rule)]
    /\ UNCHANGED <<routing_table, stats>>

(* Variation (a bug the properties must notice): ids are taken to start at one. *)
CountsFromOne(rules, id) == IF id \in DOMAIN rules THEN RemoveAt(rules, id) ELSE rules
DeleteAt(rules, id) == IF id + 1 \in DOMAIN rules THEN RemoveAt(rules, id + 1) ELSE rules
delete_rule(r, c) ==
    /\ c.do = "delete_rule"
    /\ filters' = [filters EXCEPT ![r] = DeleteAt(@, c.id)]
    /\ UNCHANGED <<routing_table, stats>>

reset_all_stats(r, c) ==
    /\ c.do = "reset_stats"
    /\ stats' = [stats EXCEPT ![r] = [n \in DOMAIN @ |-> [input |-> 0, output |-> 0]]]
    /\ UNCHANGED <<routing_table, filters>>

check_for_message(r) ==
    /\ up[r] /\ commands[r] # << >>
    /\ LET c == Head(commands[r])
       IN \/ add_static_route(r, c) \/ delete_static_route(r, c)
          \/ add_new_rule(r, c) \/ delete_rule(r, c) \/ reset_all_stats(r, c)
    /\ commands' = [commands EXCEPT ![r] = Tail(@)]
    /\ passable' = passable \cup {p \in Packets : sent[p] # "no" /\ Passable(p, filters')}
    /\ UNCHANGED <<up, mac_table, traffic, admin>>

(* check_for_message rescues only that there is no message: the main loop ends. *)
InvalidAddressError(r) ==
    /\ up[r] /\ commands[r] # << >>
    /\ Head(commands[r]).do = "new_static_route" /\ Raises(r, Head(commands[r]))
    /\ up' = [up EXCEPT ![r] = FALSE]
    /\ pcap' = [pcap EXCEPT ![r] = [n \in LANs |-> << >>]]
    /\ commands' = [commands EXCEPT ![r] = Tail(@)]
    /\ UNCHANGED <<routing_table, mac_table, filters, stats, sent, arrived, admin, passable>>

(* On every interface.  Only while a neighbor lacks an entry or a MAC address: others would
   not change anything here. *)
News(r) == \E s \in Routers \ {r} :
    /\ up[s]
    /\ \E n \in Range(Order[s]) \cap Range(Order[r]) :
        ~(DOMAIN routing_table[r] \subseteq DOMAIN routing_table[s]) \/ <<r, n>> \notin DOMAIN mac_table[s]
    /\ \A n \in LANs : UpdateFrame(r, n) \notin Range(pcap[s][n])
send_updates(r) ==
    /\ up[r] /\ News(r)
    /\ pcap' = Captured(pcap, {UpdateFrame(r, n) : n \in Range(Order[r])})
    /\ UNCHANGED <<tables, commands, sent, arrived, admin, passable>>

(* The first interface that has a frame. *)
next_frame(r, n) ==
    /\ up[r] /\ pcap[r][n] # << >>
    /\ \A i \in DOMAIN Order[r] :
        Order[r][i] = n => \A j \in 1 .. i - 1 : pcap[r][Order[r][j]] = << >>
Rest(r, n) == [pcap EXCEPT ![r][n] = Tail(@)]

(* route_packet for a protocol it does not know: not even the sender is learned. *)
Ignore(r, n) ==
    /\ next_frame(r, n)
    /\ ~Understood(Head(pcap[r][n]).packet)
    /\ pcap' = Rest(r, n)
    /\ UNCHANGED <<tables, commands, sent, arrived, admin, passable>>

(* For a frame that stays in its LAN. *)
LearnFromLAN(r, n) ==
    /\ next_frame(r, n)
    /\ Understood(Head(pcap[r][n]).packet)
    /\ LET f == Head(pcap[r][n])
       IN /\ IsLocal(f, n)
          /\ mac_table' = [mac_table EXCEPT ![r] = learn_mac_addresses(@, f)]
          /\ routing_table' = [routing_table EXCEPT ![r] =
                                    update_routing_table(r, @, f.packet.from, f.networks)]
    /\ pcap' = Rest(r, n)
    /\ UNCHANGED <<up, filters, stats, commands, sent, arrived, admin, passable>>

CountIn(count) == IF count = MaxCount THEN count ELSE count + 1
Counted(r, n) == [stats EXCEPT ![r][n].input = CountIn(@)]

(* For one that is dropped: by a rule, or since no entry fits. *)
Drop(r, n) ==
    /\ next_frame(r, n)
    /\ Understood(Head(pcap[r][n]).packet)
    /\ LET p == Head(pcap[r][n]).packet
       IN /\ ~IsLocal(Head(pcap[r][n]), n)
          /\ should_be_filtered(filters[r], p) \/ Route(routing_table[r], p.to) = {}
    /\ stats' = Counted(r, n)
    /\ pcap' = Rest(r, n)
    /\ UNCHANGED <<up, routing_table, mac_table, filters, commands, sent, arrived, admin, passable>>

(* send_local and send_remote: to whom on the LAN, {} if the gateway's MAC address is
   not known.  An unknown host of an attached network gets a broadcast. *)
(* Variation (a bug the properties must notice): it gets nothing. *)
NoBroadcast(r, entry, x) ==
    LET target == IF entry.type = "direct" THEN x ELSE entry.gateway
    IN IF target \in DOMAIN mac_table[r] THEN {mac_table[r][target]} ELSE {}
Destination(r, entry, x) ==
    LET target == IF entry.type = "direct" THEN x ELSE entry.gateway
    IN IF target \in DOMAIN mac_table[r] THEN {mac_table[r][target]}
       ELSE IF entry.type = "direct" THEN Addresses ELSE {}

(* For one that is forwarded; both counters are those of the interface it
   came from, and `out' counts what send_remote dropped, too. *)
Forward(r, n, entry) ==
    /\ next_frame(r, n)
    /\ Understood(Head(pcap[r][n]).packet)
    /\ LET f == Head(pcap[r][n])
           dst == Destination(r, entry, f.packet.to)
           out == Frame(f.packet, {}, <<r, entry.interface>>)
       IN /\ ~IsLocal(f, n) /\ ~should_be_filtered(filters[r], f.packet)
          /\ entry \in Route(routing_table[r], f.packet.to)
          /\ dst = {} \/ entry.interface \in LANs
          /\ pcap' = IF dst = {} THEN Rest(r, n) ELSE Captured(Rest(r, n), {out})
          /\ arrived' = IF dst = {} THEN arrived ELSE Received(out, dst)
          /\ stats' = [Counted(r, n) EXCEPT ![r][n].output = CountOut(@, entry)]
    /\ UNCHANGED <<up, routing_table, mac_table, filters, commands, sent, admin, passable>>

(* No interface has the device `?': nil.mac_address ends the program. *)
NoMethodError(r, n, entry) ==
    /\ next_frame(r, n)
    /\ Understood(Head(pcap[r][n]).packet)
    /\ LET f == Head(pcap[r][n])
       IN /\ ~IsLocal(f, n) /\ ~should_be_filtered(filters[r], f.packet)
          /\ entry \in Route(routing_table[r], f.packet.to)
          /\ entry.interface \notin LANs /\ Destination(r, entry, f.packet.to) # {}
    /\ up' = [up EXCEPT ![r] = FALSE]
    /\ pcap' = [pcap EXCEPT ![r] = [m \in LANs |-> << >>]]
    /\ stats' = Counted(r, n)
    /\ UNCHANGED <<routing_table, mac_table, filters, commands, sent, arrived, admin, passable>>

route_packet(r) == \E n \in Range(Order[r]) :
    \/ Ignore(r, n) \/ LearnFromLAN(r, n) \/ Drop(r, n)
    \/ \E entry \in Range(routing_table[r]) : Forward(r, n, entry) \/ NoMethodError(r, n, entry)

Loop(r) == check_for_message(r) \/ InvalidAddressError(r) \/ send_updates(r) \/ route_packet(r)

Next ==
    \/ \E p \in Packets : Send(p)
    \/ \E r \in Routers : \/ \E c \in {g[2] : g \in Commands} : Give(r, c)
                          \/ Loop(r)

Spec == Init /\ [][Next]_vars

-----------------------------------------------------------------------------
(* Properties. *)

Given(do) == {g \in given : g[2].do = do}
RoutesTouched == Given("new_static_route") \cup Given("delete_static_route") # {}

(* Whoever is the gateway of a learned entry is on the entry's interface and its MAC
   address is known: send_remote does not drop what it is to send there, as the update that
   made the entry came in a frame the address was learned from. *)
GatewaysKnown ==
    \A r \in Routers : \A e \in Range(routing_table[r]) : e.type = "dynamic" =>
        /\ e.gateway \in Attached /\ e.interface = NetworkOf(e.gateway)
        /\ e.gateway \in DOMAIN mac_table[r] /\ mac_table[r][e.gateway] = e.gateway

(* Interfaces and static routes are the administrator's: whatever other routers announce, an
   entry that was not learned goes or changes only by a command to this router. *)
KeepsConfigured ==
    [][\A r \in Routers : \A n \in DOMAIN routing_table[r] :
        \/ routing_table[r][n].type = "dynamic"
        \/ n \in DOMAIN routing_table'[r] /\ routing_table'[r][n] = routing_table[r][n]
        \/ Len(commands'[r]) < Len(commands[r])]_vars

(* Once its commands are through, a router has the rules the administrator thinks it has,
   though he deletes by place and does not look at the list again. *)
RulesAsMeant == \A r \in Routers : commands[r] = << >> => filters[r] = meant[r]

(* A packet arrives in another LAN only if some router next to its sender had no rule
   against it at some time after it was sent: it is not enough that a later rule or another
   router would let it pass. *)
Crosses(p) == NetworkOf(p.from) # NetworkOf(p.to)
LetThrough == \A p \in Packets : arrived[p] > 0 /\ Crosses(p) => p \in passable

(* The main loop ends only if a static route was given to the router that is mistyped or
   whose gateway is on no interface of it: no frame, update or other command ends it. *)
StopsOnlyForBadRoute ==
    \A r \in Routers : up[r] \/ \E g \in Given("new_static_route") :
        /\ g[1] = r
        /\ \/ Mistyped \in {g[2].network, g[2].gateway}
           \/ <<r, NetworkOf(g[2].gateway)>> \notin Attached

(* A LAN has at most two routers. *)
InPairs == \A x, y, z \in Attached : (x[2] = y[2] /\ y[2] = z[2]) => (x = y \/ y = z \/ x = z)

(* There is no second way between LANs: an interface of a router has a side, all that is behind
   the LAN it is on, which meets the side of none of the router's other interfaces. *)
Apart(Side) == \A x \in Attached :
    /\ x[2] \in Side[x]
    /\ \A y, z \in Attached :
        (y[1] # x[1] /\ z[1] = y[1] /\ y[2] \in Side[x]) => z[2] \in Side[x]
    /\ \A y \in Attached \ {x} :
        /\ x[1] = y[1] => Side[x] \cap Side[y] = {}
        /\ x[2] = y[2] => \A z \in Attached \ {y} : z[1] = y[1] => Side[z] \subseteq Side[x]
OneWay == InPairs /\ \E Side \in [Attached -> SUBSET LANs] : Apart(Side)

(* Packets do not go round although nothing counts down their TTL: with interfaces and
   learned networks only, a router handles a packet at most once for each router of the LAN
   that it comes from, and none whose protocol it does not know. *)
Sent == {p \in Packets : sent[p] # "no" /\ Understood(p)}
NoRounds ==
    OneWay /\ ~RoutesTouched => \A x \in Attached :
        stats[x[1]][x[2]].input <= Cardinality({y \in Attached : y[2] = x[2]}) * Cardinality(Sent)

(* When nothing is under way any more, what was sent after all routers knew all networks
   has arrived, if nobody added a rule or touched a route and it is TCP, UDP or ICMP: the
   routers say nothing of any other protocol and pass none on. *)
Quiet == \A r \in Routers : \A n \in LANs : pcap[r][n] = << >>
Arrives ==
    OneWay /\ Quiet /\ ~RoutesTouched /\ Given("add_new_rule") = {} =>
        \A p \in Packets : sent[p] = "routable" /\ Understood(p) => arrived[p] > 0
=============================================================================
