-------------------------- MODULE RoutingProtocol --------------------------
(***************************************************************************)
(* The routing protocol of the Ruby router (routing_protocol.rb, the       *)
(* update of routing_table.rb and the loop of router.rb that drives them), *)
(* between routers that share networks.  Every two seconds a router        *)
(* broadcasts the networks it has an entry for; who hears it makes an      *)
(* entry for those it lacks and refreshes the dynamic ones it has,         *)
(* whichever router they came from.                                        *)
(*                                                                         *)
(* Time passes in seconds, once every router has done what is due: the     *)
(* loop is busy-waiting and a pass takes far less than a second.           *)
(***************************************************************************)
EXTENDS Integers, Functions

CONSTANTS Routers, Networks,
          Attached,     \* <<router, network>>: its interfaces
          MaxFaults     \* bound on updates lost and routers that die

ASSUME AttachedAssumption == Attached \subseteq Routers \X Networks
ASSUME FaultsAssumption == MaxFaults \in Nat
ASSUME GatewayAssumption == "self" \notin Routers

VARIABLES
    state,              \* of each router: "off", "on", "dead"
    routing_table,      \* [Routers -> entries by network]
    since,              \* seconds since $last_update_sent
    frames,             \* updates that arrived and next_frame has not returned yet
    lost, died          \* how many updates, how many routers

vars == <<state, routing_table, since, frames, lost, died>>

-----------------------------------------------------------------------------
Direct(r) == {n \in Networks : <<r, n>> \in Attached}
Neighbors(r) == {s \in Routers \ {r} : Direct(r) \cap Direct(s) # {}}
On == {r \in Routers : state[r] = "on"}

UpdatePeriod == 2
ValidTime == 3

(* gateway: `self' or the router whose update made the entry; age: seconds
   since it was received. *)
Entry(gateway, type) == [gateway |-> gateway, type |-> type, age |-> 0]

open_interfaces(r) == [n \in Direct(r) |-> Entry("self", "direct")]

(* Variation (a bug the properties must notice): the latest sender is the gateway. *)
FollowsLatest(table, from, networks) ==
    [n \in DOMAIN table \cup networks |->
        IF n \in DOMAIN table /\ (n \notin networks \/ table[n].type # "dynamic")
        THEN table[n] ELSE Entry(from, "dynamic")]
(* Variation (a bug the properties must notice): it only refreshes. *)
LearnsNothing(table, from, networks) ==
    [n \in DOMAIN table |->
        IF n \in networks /\ table[n].type = "dynamic" THEN [table[n] EXCEPT !.age = 0]
        ELSE table[n]]
update_routing_table(table, from, networks) ==
    [n \in DOMAIN table \cup networks |->
        IF n \notin DOMAIN table THEN Entry(from, "dynamic")
        ELSE IF n \in networks /\ table[n].type = "dynamic" THEN [table[n] EXCEPT !.age = 0]
        ELSE table[n]]

Expired(entry) == entry.type = "dynamic" /\ entry.age > ValidTime

(* Variation (a bug the properties must notice): their time begins again. *)
Renews(table) ==
    [n \in DOMAIN table |-> IF Expired(table[n]) THEN [table[n] EXCEPT !.age = 0] ELSE table[n]]
check_routing_table(table) == Restrict(table, {n \in DOMAIN table : ~Expired(table[n])})

(* Variation (a bug the properties must notice): every four seconds. *)
TooSeldom(r) == since[r] >= 2 * UpdatePeriod
UpdateDue(r) == since[r] >= UpdatePeriod

-----------------------------------------------------------------------------
Init ==
    /\ state = [r \in Routers |-> "off"]
    /\ routing_table = [r \in Routers |-> << >>]
    /\ since = [r \in Routers |-> 0]
    /\ frames = [r \in Routers |-> {}]
    /\ lost = 0 /\ died = 0

Start(r) ==
    /\ state[r] = "off"
    /\ state' = [state EXCEPT ![r] = "on"]
    /\ routing_table' = [routing_table EXCEPT ![r] = open_interfaces(r)]
    /\ since' = [since EXCEPT ![r] = 0]
    /\ UNCHANGED <<frames, lost, died>>

(* The update is a broadcast on every interface, made before the table is
   checked.  Who is off does not hear it. *)
Heard(r) == IF UpdateDue(r) THEN Neighbors(r) \cap On ELSE {}
Update(r) == [from |-> r, networks |-> DOMAIN routing_table[r]]

Waits(r) == \/ UpdateDue(r)
            \/ \E n \in DOMAIN routing_table[r] : Expired(routing_table[r][n])
            \/ frames[r] # {}

(* One pass of the loop: send_updates, check_routing_table, next_frame and
   update_routing_table.  Which interface has a frame first is open. *)
Iterate(r) ==
    /\ r \in On /\ Waits(r)
    /\ since' = [since EXCEPT ![r] = IF UpdateDue(r) THEN 0 ELSE @]
    /\ LET table == check_routing_table(routing_table[r])
           sent == [s \in Routers |-> IF s \in Heard(r) THEN frames[s] \cup {Update(r)}
                                      ELSE frames[s]]
       IN \/ /\ frames[r] = {}
             /\ routing_table' = [routing_table EXCEPT ![r] = table]
             /\ frames' = sent
          \/ \E f \in frames[r] :
                /\ routing_table' = [routing_table EXCEPT ![r] =
                                        update_routing_table(table, f.from, f.networks)]
                /\ frames' = [sent EXCEPT ![r] = @ \ {f}]
    /\ UNCHANGED <<state, lost, died>>

Lose(r) ==
    /\ lost + died < MaxFaults
    /\ lost' = lost + 1
    /\ \E f \in frames[r] : frames' = [frames EXCEPT ![r] = @ \ {f}]
    /\ UNCHANGED <<state, routing_table, since, died>>

Die(r) ==
    /\ lost + died < MaxFaults
    /\ r \in On
    /\ died' = died + 1
    /\ state' = [state EXCEPT ![r] = "dead"]
    /\ routing_table' = [routing_table EXCEPT ![r] = << >>]
    /\ frames' = [frames EXCEPT ![r] = {}]
    /\ UNCHANGED <<since, lost>>

Tick ==
    /\ On # {}
    /\ \A r \in On : ~Waits(r)
    /\ since' = [r \in Routers |-> IF r \in On THEN since[r] + 1 ELSE since[r]]
    /\ routing_table' = [r \in Routers |-> [n \in DOMAIN routing_table[r] |->
            IF routing_table[r][n].type = "dynamic"
            THEN [routing_table[r][n] EXCEPT !.age = @ + 1]
            ELSE routing_table[r][n]]]
    /\ UNCHANGED <<state, frames, lost, died>>

Next == \/ \E r \in Routers : Start(r) \/ Iterate(r) \/ Lose(r) \/ Die(r)
        \/ Tick

Spec == Init /\ [][Next]_vars

(* Time passes, the loops run and every router is switched on some day. *)
Fairness == WF_vars(Tick) /\ \A r \in Routers : WF_vars(Start(r)) /\ WF_vars(Iterate(r))
FairSpec == Spec /\ Fairness

-----------------------------------------------------------------------------
(* Properties. *)

(* The router a packet for n is handed to at r. *)
NextHop(r, n) == IF n \in DOMAIN routing_table[r] THEN routing_table[r][n].gateway ELSE "self"

(* While no router dies and no update is lost, no packet circles: among any
   routers there is one that hands a packet for n to none of them, in whatever
   order routers start and hear each other.  (One lost update is enough to break
   it: a router whose entry times out learns the network back from one that
   learned it from it, and as entries are only refreshed, that stays.) *)
LoopFree ==
    lost + died = 0 => \A n \in Networks : \A round \in (SUBSET Routers) \ {{}} :
        \E r \in round : NextHop(r, n) \notin round

(* While no update is lost and no router dies, an entry never times out:
   three seconds outlast the period in every phase the loops can have. *)
NeverForgets ==
    [][lost' + died' = 0 =>
        \A r \in On : DOMAIN routing_table[r] \subseteq DOMAIN routing_table'[r]]_vars

(* Every router gets to know every network for good, a lost update
   notwithstanding, unless a router dies. *)
Converges ==
    <>[](\/ died > 0
         \/ \A r \in Routers : state[r] = "on" /\ DOMAIN routing_table[r] = Networks)

(* "connectivity to ... lost": a network that only dead routers were attached to
   disappears from the other routing tables, unless two neighbors have it: each takes
   the other's updates as news of it, and so they keep it for ever. *)
Gone == {n \in Networks : \A r \in Routers : <<r, n>> \in Attached => state[r] = "dead"}
Holders(n) == {s \in On : n \in DOMAIN routing_table[s]}
ForgetsDead ==
    died > 0 ~>
        \A n \in Gone : \A s \in Holders(n) : Neighbors(s) \cap Holders(n) # {}
=============================================================================
