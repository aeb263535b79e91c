--------------------------- MODULE RoutingProofs ---------------------------
(* Theorems about RoutingProtocol for any routers and networks, however they
   are connected. *)
EXTENDS RoutingProtocol, CommonLemmas

-----------------------------------------------------------------------------
(* Types. *)

Types == {"direct", "dynamic"}
Entries == [gateway : Routers \cup {"self"}, type : Types, age : Nat]
Updates == [from : Routers, networks : SUBSET Networks]
Table(t) == \E S \in SUBSET Networks : t \in [S -> Entries]

TypeOK ==
    /\ state \in [Routers -> {"off", "on", "dead"}]
    /\ \A r \in Routers : Table(routing_table[r])
    /\ DOMAIN routing_table = Routers
    /\ since \in [Routers -> 0 .. UpdatePeriod]
    /\ frames \in [Routers -> SUBSET Updates]
    /\ lost \in Nat /\ died \in Nat

LEMMA TableEntries ==
    ASSUME NEW t, Table(t)
    PROVE  /\ DOMAIN t \subseteq Networks
           /\ \A n \in DOMAIN t : t[n] \in Entries
BY DEF Table

(* A table loses what has expired and keeps the rest as it is. *)
LEMMA CheckedTable ==
    ASSUME NEW t, Table(t)
    PROVE  /\ Table(check_routing_table(t))
           /\ DOMAIN check_routing_table(t) = {n \in DOMAIN t : ~Expired(t[n])}
           /\ \A n \in DOMAIN t : ~Expired(t[n]) => check_routing_table(t)[n] = t[n]
<1> DEFINE S == {n \in DOMAIN t : ~Expired(t[n])}
           u == check_routing_table(t)
<1>1. u = [n \in S |-> t[n]]
  BY DEF check_routing_table, Restrict
<1>2. S \in SUBSET Networks /\ \A n \in S : t[n] \in Entries
  BY TableEntries
<1>3. u \in [S -> Entries]
  BY <1>1, <1>2
<1> QED
  BY <1>1, <1>2, <1>3 DEF Table

(* A table gains an entry for each network of an update that it lacks; what it
   has keeps its gateway and its type, and does not age. *)
LEMMA UpdatedDomain ==
    ASSUME NEW t, NEW g, NEW ns
    PROVE  DOMAIN update_routing_table(t, g, ns) = DOMAIN t \cup ns
BY DEF update_routing_table

LEMMA UpdatedTable ==
    ASSUME NEW t, Table(t), NEW g \in Routers, NEW ns, ns \subseteq Networks
    PROVE  /\ Table(update_routing_table(t, g, ns))
           /\ \A n \in DOMAIN t : LET e == update_routing_table(t, g, ns)[n] IN
                /\ e.gateway = t[n].gateway /\ e.type = t[n].type
                /\ e.age = IF n \in ns /\ t[n].type = "dynamic" THEN 0 ELSE t[n].age
<1> DEFINE S == DOMAIN t \cup ns
           u == update_routing_table(t, g, ns)
<1>1. u = [n \in S |-> IF n \notin DOMAIN t THEN Entry(g, "dynamic")
                       ELSE IF n \in ns /\ t[n].type = "dynamic" THEN [t[n] EXCEPT !.age = 0]
                       ELSE t[n]]
  BY DEF update_routing_table
<1>2. S \in SUBSET Networks /\ \A n \in DOMAIN t : t[n] \in Entries
  BY TableEntries
<1>3. Entry(g, "dynamic") \in Entries
  BY DEF Entry, Entries, Types
<1>4. ASSUME NEW n \in DOMAIN t
      PROVE  LET e == u[n] IN
                /\ e \in Entries
                /\ e.gateway = t[n].gateway /\ e.type = t[n].type
                /\ e.age = IF n \in ns /\ t[n].type = "dynamic" THEN 0 ELSE t[n].age
  <2>1. u[n] = IF n \in ns /\ t[n].type = "dynamic" THEN [t[n] EXCEPT !.age = 0] ELSE t[n]
    BY <1>1
  <2> HIDE DEF u
  <2> QED
    BY <1>2, <2>1 DEF Entries
<1>5. \A n \in S : u[n] \in Entries
  BY <1>1, <1>3, <1>4
<1>6. u \in [S -> Entries]
  <2> HIDE DEF S
  <2>1. u = [n \in S |-> u[n]]
    BY <1>1
  <2> HIDE DEF u
  <2> QED
    BY <1>5, <2>1
<1> HIDE DEF u
<1> QED
  BY <1>2, <1>4, <1>6 DEF Table, u

Checked(r) == check_routing_table(routing_table[r])

(* What a pass of the loop does, router by router. *)
LEMMA Pass ==
    ASSUME TypeOK, NEW r \in Routers, Iterate(r)
    PROVE  /\ since' = [since EXCEPT ![r] = IF UpdateDue(r) THEN 0 ELSE @]
           /\ \A s \in Routers \ {r} :
                /\ routing_table'[s] = routing_table[s]
                /\ frames'[s] = IF s \in Heard(r) THEN frames[s] \cup {Update(r)} ELSE frames[s]
           /\ DOMAIN routing_table' = Routers
           /\ UNCHANGED <<state, lost, died>>
           /\ frames' \in [Routers -> SUBSET Updates]
           /\ \/ frames'[r] = frames[r] /\ routing_table'[r] = Checked(r)
              \/ \E f \in frames[r] :
                    /\ f \in Updates /\ frames'[r] = frames[r] \ {f}
                    /\ routing_table'[r] = update_routing_table(Checked(r), f.from, f.networks)
<1> DEFINE t == Checked(r)
           sent == [s \in Routers |-> IF s \in Heard(r) THEN frames[s] \cup {Update(r)}
                                      ELSE frames[s]]
<1>1. Table(routing_table[r])
  BY DEF TypeOK
<1>2. Update(r) \in Updates
  BY <1>1, TableEntries DEF Update, Updates
<1>3. sent \in [Routers -> SUBSET Updates] /\ r \notin Heard(r) /\ sent[r] = frames[r]
  BY <1>2 DEF TypeOK, Heard, Neighbors
<1>4. /\ since' = [since EXCEPT ![r] = IF UpdateDue(r) THEN 0 ELSE @]
      /\ UNCHANGED <<state, lost, died>>
      /\ \/ /\ frames[r] = {}
            /\ routing_table' = [routing_table EXCEPT ![r] = t]
            /\ frames' = sent
         \/ \E f \in frames[r] :
                /\ routing_table' = [routing_table EXCEPT ![r] =
                                        update_routing_table(t, f.from, f.networks)]
                /\ frames' = [sent EXCEPT ![r] = @ \ {f}]
  BY DEF Iterate, Checked
<1>5. DOMAIN routing_table = Routers /\ frames \in [Routers -> SUBSET Updates]
  BY DEF TypeOK
<1>6. \A s \in Routers : sent[s] = IF s \in Heard(r) THEN frames[s] \cup {Update(r)} ELSE frames[s]
  OBVIOUS
<1> HIDE DEF t, sent
<1>7. CASE /\ routing_table' = [routing_table EXCEPT ![r] = t]
           /\ frames' = sent
  BY <1>3, <1>4, <1>5, <1>6, <1>7 DEF t
<1>8. ASSUME NEW f \in frames[r],
             routing_table' = [routing_table EXCEPT ![r] =
                                        update_routing_table(t, f.from, f.networks)],
             frames' = [sent EXCEPT ![r] = @ \ {f}]
      PROVE  /\ \A s \in Routers \ {r} : routing_table'[s] = routing_table[s] /\ frames'[s] = sent[s]
             /\ DOMAIN routing_table' = Routers /\ frames' \in [Routers -> SUBSET Updates]
             /\ f \in Updates /\ frames'[r] = frames[r] \ {f}
             /\ routing_table'[r] = update_routing_table(t, f.from, f.networks)
  <2>1. f \in Updates
    BY <1>5
  <2> DEFINE u == update_routing_table(t, f.from, f.networks)
  <2> HIDE DEF u
  <2>2. routing_table' = [routing_table EXCEPT ![r] = u]
    BY <1>8 DEF u
  <2>3. /\ \A s \in Routers \ {r} : routing_table'[s] = routing_table[s]
        /\ DOMAIN routing_table' = Routers /\ routing_table'[r] = u
    BY <1>5, <2>2
  <2>4. /\ frames'[r] = frames[r] \ {f} /\ frames' \in [Routers -> SUBSET Updates]
        /\ \A s \in Routers \ {r} : frames'[s] = sent[s]
    BY <1>3, <1>5, <1>8
  <2> QED
    BY <2>1, <2>3, <2>4 DEF u
<1>9. CASE \E f \in frames[r] :
                /\ routing_table' = [routing_table EXCEPT ![r] =
                                        update_routing_table(t, f.from, f.networks)]
                /\ frames' = [sent EXCEPT ![r] = @ \ {f}]
  BY <1>4, <1>6, <1>8, <1>9 DEF t
<1> QED
  BY <1>4, <1>7, <1>9

LEMMA TypeInit == Init => TypeOK
<1> SUFFICES ASSUME Init
             PROVE  TypeOK
  OBVIOUS
<1> DEFINE o == << >>
<1>1. Table(o)
  <2>1. o \in [{} -> Entries]
    OBVIOUS
  <2> QED
    BY <2>1 DEF Table
<1> HIDE DEF o
<1>2. \A r \in Routers : routing_table[r] = o
  BY DEF Init, o
<1>3. \A r \in Routers : Table(routing_table[r])
  BY <1>1, <1>2
<1> QED
  BY <1>3 DEF Init, TypeOK, UpdatePeriod

LEMMA TypeNext == TypeOK /\ [Next]_vars => TypeOK'
<1> SUFFICES ASSUME TypeOK, [Next]_vars
             PROVE  TypeOK'
  OBVIOUS
<1> USE DEF UpdatePeriod
<1>1. ASSUME NEW r \in Routers, Start(r)
      PROVE  TypeOK'
  <2>1. Direct(r) \in SUBSET Networks
    BY DEF Direct
  <2>2. open_interfaces(r) \in [Direct(r) -> Entries]
    BY DEF open_interfaces, Entry, Entries, Types
  <2>3. Table(open_interfaces(r))
    BY <2>1, <2>2 DEF Table
  <2> DEFINE o == open_interfaces(r)
  <2> HIDE DEF o
  <2>4. routing_table' = [routing_table EXCEPT ![r] = o] /\ Table(o)
    BY <1>1, <2>3 DEF Start, o
  <2>5. DOMAIN routing_table' = Routers /\ \A s \in Routers : Table(routing_table'[s])
    BY <2>4 DEF TypeOK
  <2> QED
    BY <1>1, <2>5 DEF TypeOK, Start
<1>2. ASSUME NEW r \in Routers, Iterate(r)
      PROVE  TypeOK'
  <2>1. Table(Checked(r))
    BY CheckedTable DEF TypeOK, Checked
  <2>2. Table(routing_table'[r])
    <3>1. CASE routing_table'[r] = Checked(r)
      BY <2>1, <3>1
    <3>2. ASSUME NEW f \in Updates,
                 routing_table'[r] = update_routing_table(Checked(r), f.from, f.networks)
          PROVE  Table(routing_table'[r])
      <4>1. f.from \in Routers /\ f.networks \in SUBSET Networks
        BY <3>2 DEF Updates
      <4> DEFINE u == update_routing_table(Checked(r), f.from, f.networks)
      <4>2. Table(u)
        BY <2>1, <4>1, UpdatedTable
      <4>3. routing_table'[r] = u
        BY <3>2
      <4> HIDE DEF u
      <4> QED
        BY <4>2, <4>3
    <3> QED
      BY <1>2, <3>1, <3>2, Pass
  <2>3. /\ since' = [since EXCEPT ![r] = IF UpdateDue(r) THEN 0 ELSE @]
        /\ UNCHANGED <<state, lost, died>> /\ frames' \in [Routers -> SUBSET Updates]
        /\ DOMAIN routing_table' = Routers
        /\ \A s \in Routers \ {r} : routing_table'[s] = routing_table[s]
    BY <1>2, Pass
  <2> QED
    BY <2>2, <2>3 DEF TypeOK
<1>3. ASSUME NEW r \in Routers, Lose(r)
      PROVE  TypeOK'
  BY <1>3 DEF TypeOK, Lose
<1>4. ASSUME NEW r \in Routers, Die(r)
      PROVE  TypeOK'
  <2> DEFINE o == << >>
  <2>1. Table(o)
    <3>1. o \in [{} -> Entries]
      OBVIOUS
    <3> QED
      BY <3>1 DEF Table
  <2> HIDE DEF o
  <2>2. routing_table' = [routing_table EXCEPT ![r] = o]
    BY <1>4 DEF Die, o
  <2>3. DOMAIN routing_table' = Routers /\ \A s \in Routers : Table(routing_table'[s])
    BY <2>1, <2>2 DEF TypeOK
  <2> QED
    BY <1>4, <2>3 DEF TypeOK, Die
<1>5. CASE Tick
  <2>1. since' \in [Routers -> 0 .. UpdatePeriod]
    BY <1>5 DEF TypeOK, Tick, Waits, UpdateDue, On
  <2>2. ASSUME NEW r \in Routers
        PROVE  Table(routing_table'[r])
    <3> DEFINE t == routing_table[r]
    <3>1. routing_table'[r] = [n \in DOMAIN t |-> IF t[n].type = "dynamic"
                                THEN [t[n] EXCEPT !.age = @ + 1] ELSE t[n]]
      BY <1>5 DEF Tick
    <3>2. Table(t)
      BY DEF TypeOK
    <3> HIDE DEF t
    <3>3. \A n \in DOMAIN t : t[n] \in Entries
      BY <3>2, TableEntries
    <3>4. \A n \in DOMAIN t : (IF t[n].type = "dynamic" THEN [t[n] EXCEPT !.age = @ + 1]
                                                       ELSE t[n]) \in Entries
      BY <3>3 DEF Entries
    <3>5. routing_table'[r] \in [DOMAIN t -> Entries]
      BY <3>1, <3>4
    <3> QED
      BY <3>2, <3>5, TableEntries DEF Table
  <2>3. DOMAIN routing_table' = Routers
    BY <1>5 DEF Tick
  <2> QED
    BY <1>5, <2>1, <2>2, <2>3 DEF TypeOK, Tick
<1>6. CASE UNCHANGED vars
  BY <1>6 DEF vars, TypeOK
<1> QED
  BY <1>1, <1>2, <1>3, <1>4, <1>5, <1>6 DEF Next

(* Routing tables map networks to entries, no router is late with its update
   when time passes, and only routers that heard an update have it to read. *)
THEOREM TypeCorrect == Spec => []TypeOK
<1>1. Init => TypeOK
  BY TypeInit
<1>2. TypeOK /\ [Next]_vars => TypeOK'
  BY TypeNext
<1> QED
  BY <1>1, <1>2, PTL DEF Spec

-----------------------------------------------------------------------------
(* While no update is lost and no router dies, every entry that was learned is
   kept alive by the updates of the router it was learned from. *)

Quiet == lost = 0 /\ died = 0

(* A router that is not on knows nothing and hears nothing. *)
SwitchedOff ==
    \A r \in Routers : r \notin On =>
        state[r] = "off" /\ DOMAIN routing_table[r] = {} /\ frames[r] = {}

(* An update is read in the second it was sent, and its sender still has what
   it told. *)
NewsFresh ==
    \A r \in Routers : \A f \in frames[r] :
        /\ f.from \in On /\ r \in Neighbors(f.from) /\ since[f.from] = 0
        /\ f.networks \subseteq DOMAIN routing_table[f.from]

(* An entry is as old as its gateway's last update, or the next one is there. *)
Coming(r, g, n) == \E f \in frames[r] : f.from = g /\ n \in f.networks
Fresh(r, n, e) ==
    /\ e.gateway \in On /\ r \in Neighbors(e.gateway)
    /\ n \in DOMAIN routing_table[e.gateway]
    /\ \/ e.age <= since[e.gateway]
       \/ e.age <= UpdatePeriod /\ Coming(r, e.gateway, n)
EntriesFresh ==
    \A r \in Routers : \A n \in DOMAIN routing_table[r] :
        IF routing_table[r][n].type = "dynamic" THEN Fresh(r, n, routing_table[r][n])
        ELSE routing_table[r][n].gateway = "self"

(* Along the gateways for a network the routers can be numbered downwards. *)
Downwards(n, rank) ==
    \A r \in Routers : (n \in DOMAIN routing_table[r] /\ routing_table[r][n].type = "dynamic")
                            => rank[routing_table[r][n].gateway] < rank[r]
Ranked == \A n \in Networks : \E rank \in [Routers -> Nat] : Downwards(n, rank)

QuietInv == Quiet => SwitchedOff /\ NewsFresh /\ EntriesFresh /\ Ranked

LEMMA EntryBounds ==
    ASSUME TypeOK, EntriesFresh, NEW r \in Routers, NEW n \in DOMAIN routing_table[r]
    PROVE  /\ routing_table[r][n] \in Entries
           /\ routing_table[r][n].type = "dynamic" => /\ routing_table[r][n].age <= UpdatePeriod
                                                     /\ routing_table[r][n].gateway # r
           /\ ~Expired(routing_table[r][n])
<1>1. routing_table[r][n] \in Entries
  BY TableEntries DEF TypeOK
<1>2. CASE routing_table[r][n].type = "dynamic"
  <2> DEFINE e == routing_table[r][n]
  <2>1. Fresh(r, n, e)
    BY <1>2 DEF EntriesFresh
  <2>2. e.gateway \in Routers /\ since[e.gateway] \in 0 .. 2 /\ e.gateway # r
    BY <2>1 DEF Fresh, On, Neighbors, TypeOK, UpdatePeriod
  <2>3. e.age \in Nat
    BY <1>1 DEF Entries
  <2>4. e.age <= 2
    BY <2>1, <2>2, <2>3 DEF Fresh, UpdatePeriod
  <2> QED
    BY <1>1, <2>2, <2>3, <2>4 DEF Expired, ValidTime, UpdatePeriod
<1> QED
  BY <1>1, <1>2 DEF Expired

(* A pass forgets nothing. *)
LEMMA QuietPass ==
    ASSUME TypeOK, EntriesFresh, NEW r \in Routers, Iterate(r)
    PROVE  \/ /\ frames'[r] = frames[r] /\ DOMAIN routing_table'[r] = DOMAIN routing_table[r]
              /\ \A n \in DOMAIN routing_table[r] : routing_table'[r][n] = routing_table[r][n]
           \/ \E f \in frames[r] :
                /\ f \in Updates /\ frames'[r] = frames[r] \ {f}
                /\ DOMAIN routing_table'[r] = DOMAIN routing_table[r] \cup f.networks
                /\ \A n \in f.networks \ DOMAIN routing_table[r] :
                        routing_table'[r][n] = Entry(f.from, "dynamic")
                /\ \A n \in DOMAIN routing_table[r] :
                        LET d == routing_table[r][n]
                            e == routing_table'[r][n]
                        IN /\ e.gateway = d.gateway /\ e.type = d.type
                           /\ e.age = IF n \in f.networks /\ d.type = "dynamic" THEN 0 ELSE d.age
<1> DEFINE t == Checked(r)
<1>1. Table(routing_table[r]) /\ \A n \in DOMAIN routing_table[r] : ~Expired(routing_table[r][n])
  BY EntryBounds DEF TypeOK
<1>2. /\ Table(t) /\ DOMAIN t = DOMAIN routing_table[r]
      /\ \A n \in DOMAIN routing_table[r] : t[n] = routing_table[r][n]
  BY <1>1, CheckedTable DEF Checked
<1> HIDE DEF t
<1>3. CASE frames'[r] = frames[r] /\ routing_table'[r] = t
  BY <1>2, <1>3
<1>4. ASSUME NEW f \in frames[r], f \in Updates, frames'[r] = frames[r] \ {f},
             routing_table'[r] = update_routing_table(t, f.from, f.networks)
      PROVE  /\ DOMAIN routing_table'[r] = DOMAIN routing_table[r] \cup f.networks
             /\ \A n \in f.networks \ DOMAIN routing_table[r] :
                        routing_table'[r][n] = Entry(f.from, "dynamic")
             /\ \A n \in DOMAIN routing_table[r] :
                        LET d == routing_table[r][n]
                            e == routing_table'[r][n]
                        IN /\ e.gateway = d.gateway /\ e.type = d.type
                           /\ e.age = IF n \in f.networks /\ d.type = "dynamic" THEN 0 ELSE d.age
  <2>1. f.from \in Routers /\ f.networks \in SUBSET Networks
    BY <1>4 DEF Updates
  <2> DEFINE u == update_routing_table(t, f.from, f.networks)
  <2>2. /\ DOMAIN u = DOMAIN t \cup f.networks
        /\ \A n \in f.networks \ DOMAIN t : u[n] = Entry(f.from, "dynamic")
        /\ \A n \in DOMAIN t : LET e == u[n] IN
                /\ e.gateway = t[n].gateway /\ e.type = t[n].type
                /\ e.age = IF n \in f.networks /\ t[n].type = "dynamic" THEN 0 ELSE t[n].age
    <3>1. \A n \in DOMAIN t : LET e == u[n] IN
                /\ e.gateway = t[n].gateway /\ e.type = t[n].type
                /\ e.age = IF n \in f.networks /\ t[n].type = "dynamic" THEN 0 ELSE t[n].age
      BY <1>2, <2>1, UpdatedTable
    <3>2. DOMAIN u = DOMAIN t \cup f.networks
      BY UpdatedDomain
    <3>3. \A n \in f.networks \ DOMAIN t : u[n] = Entry(f.from, "dynamic")
      BY DEF update_routing_table
    <3> HIDE DEF u
    <3> QED
      BY <3>1, <3>2, <3>3
  <2>3. routing_table'[r] = u
    BY <1>4
  <2> HIDE DEF u
  <2> QED
    BY <1>2, <2>2, <2>3
<1>5. \/ frames'[r] = frames[r] /\ routing_table'[r] = t
      \/ \E f \in frames[r] :
            /\ f \in Updates /\ frames'[r] = frames[r] \ {f}
            /\ routing_table'[r] = update_routing_table(t, f.from, f.networks)
  BY Pass DEF t
<1> QED
  BY <1>3, <1>4, <1>5

(* The other routers, and what a pass sends them. *)
LEMMA PassOthers ==
    ASSUME TypeOK, EntriesFresh, NEW r \in Routers, Iterate(r)
    PROVE  /\ r \in On /\ On' = On /\ UNCHANGED <<lost, died>>
           /\ \A s \in Routers : DOMAIN routing_table[s] \subseteq DOMAIN routing_table'[s]
           /\ \A s \in Routers \ {r} : /\ routing_table'[s] = routing_table[s]
                                       /\ since'[s] = since[s]
                                       /\ frames'[s] = IF s \in Heard(r)
                                                THEN frames[s] \cup {Update(r)} ELSE frames[s]
           /\ since'[r] = IF UpdateDue(r) THEN 0 ELSE since[r]
           /\ frames'[r] \subseteq frames[r]
<1>1. /\ since' = [since EXCEPT ![r] = IF UpdateDue(r) THEN 0 ELSE @] /\ state' = state
      /\ \A s \in Routers \ {r} :
                /\ routing_table'[s] = routing_table[s]
                /\ frames'[s] = IF s \in Heard(r) THEN frames[s] \cup {Update(r)} ELSE frames[s]
      /\ UNCHANGED <<lost, died>>
  BY Pass
<1>2. DOMAIN routing_table[r] \subseteq DOMAIN routing_table'[r] /\ frames'[r] \subseteq frames[r]
  BY QuietPass
<1>3. /\ \A s \in Routers \ {r} : since'[s] = since[s]
      /\ since'[r] = IF UpdateDue(r) THEN 0 ELSE since[r]
  BY <1>1 DEF TypeOK
<1>4. r \in On /\ On' = On
  BY <1>1 DEF Iterate, On
<1> QED
  BY <1>1, <1>2, <1>3, <1>4

LEMMA NewsPass ==
    ASSUME TypeOK, SwitchedOff, NewsFresh, EntriesFresh, NEW r \in Routers, Iterate(r)
    PROVE  SwitchedOff' /\ NewsFresh'
<1> USE PassOthers
<1>1. SwitchedOff'
  <2>1. state' = state
    BY Pass
  <2> QED
    BY <2>1 DEF SwitchedOff, Heard
<1>2. ASSUME NEW s \in Routers, NEW f \in frames[s]
      PROVE  /\ f.from \in On /\ s \in Neighbors(f.from) /\ since'[f.from] = 0
             /\ f.networks \subseteq DOMAIN routing_table'[f.from]
  <2>1. /\ f.from \in On /\ s \in Neighbors(f.from) /\ since[f.from] = 0
        /\ f.networks \subseteq DOMAIN routing_table[f.from] /\ f.from \in Routers
    BY DEF NewsFresh, On
  <2> QED
    BY <2>1
<1>3. ASSUME NEW s \in Heard(r)
      PROVE  LET f == Update(r) IN
             /\ f.from \in On /\ s \in Neighbors(f.from) /\ since'[f.from] = 0
             /\ f.networks \subseteq DOMAIN routing_table'[f.from]
  BY DEF Heard, Update
<1>4. \A s \in Routers : \A f \in frames'[s] : f \in frames[s] \/ (s \in Heard(r) /\ f = Update(r))
  OBVIOUS
<1>5. NewsFresh'
  BY <1>2, <1>3, <1>4 DEF NewsFresh
<1> QED
  BY <1>1, <1>5

LEMMA EntriesPass ==
    ASSUME TypeOK, SwitchedOff, NewsFresh, EntriesFresh, NEW r \in Routers, Iterate(r)
    PROVE  EntriesFresh'
<1>0. /\ r \in On /\ On' = On
      /\ \A s \in Routers : DOMAIN routing_table[s] \subseteq DOMAIN routing_table'[s]
      /\ \A s \in Routers \ {r} : /\ routing_table'[s] = routing_table[s]
                                  /\ since'[s] = since[s]
                                  /\ frames'[s] = IF s \in Heard(r)
                                                THEN frames[s] \cup {Update(r)} ELSE frames[s]
      /\ since'[r] = IF UpdateDue(r) THEN 0 ELSE since[r]
  BY PassOthers
<1>1. ASSUME NEW s \in Routers \ {r}, NEW n \in DOMAIN routing_table[s],
             NEW e, e = routing_table[s][n], e.type = "dynamic"
      PROVE  Fresh(s, n, e)'
  <2>1. /\ Fresh(s, n, e) /\ e.gateway \in Routers /\ e.age <= UpdatePeriod
    BY <1>1, EntryBounds DEF EntriesFresh, Fresh, On
  <2>2. s \in On
    BY DEF SwitchedOff
  <2>3. CASE e.gateway = r /\ UpdateDue(r)
    <3>1. s \in Heard(r)
      BY <2>1, <2>2, <2>3 DEF Heard, Fresh
    <3>2. Update(r) \in frames'[s]
      BY <1>0, <3>1
    <3>3. Update(r).from = r /\ n \in Update(r).networks
      BY <2>1, <2>3 DEF Fresh, Update
    <3>4. Coming(s, r, n)'
      BY <3>2, <3>3 DEF Coming
    <3> QED
      BY <1>0, <2>1, <2>3, <3>4 DEF Fresh
  <2>4. CASE ~(e.gateway = r /\ UpdateDue(r))
    <3>1. since'[e.gateway] = since[e.gateway]
      BY <1>0, <2>1, <2>4
    <3>2. Coming(s, e.gateway, n) => Coming(s, e.gateway, n)'
      BY <1>0 DEF Coming
    <3> QED
      BY <1>0, <2>1, <3>1, <3>2 DEF Fresh
  <2> QED
    BY <2>3, <2>4
<1>2. ASSUME NEW n \in DOMAIN routing_table'[r], NEW e, e = routing_table'[r][n]
      PROVE  IF e.type = "dynamic" THEN Fresh(r, n, e)' ELSE e.gateway = "self"
  <2>1. ASSUME n \in DOMAIN routing_table[r], NEW d, d = routing_table[r][n],
               e.gateway = d.gateway, e.type = d.type, d.type = "dynamic",
               \/ e.age = 0
               \/ e.age = d.age /\ (Coming(r, d.gateway, n) => Coming(r, d.gateway, n)')
        PROVE  Fresh(r, n, e)'
    <3>1. /\ Fresh(r, n, d) /\ d.gateway \in Routers \ {r} /\ since[d.gateway] \in 0 .. 2
      BY <2>1, EntryBounds DEF EntriesFresh, Fresh, On, TypeOK, UpdatePeriod
    <3>2. /\ since'[d.gateway] = since[d.gateway]
          /\ DOMAIN routing_table[d.gateway] \subseteq DOMAIN routing_table'[d.gateway]
      BY <1>0, <3>1
    <3>3. \/ e.age <= since'[d.gateway]
          \/ e.age <= UpdatePeriod /\ Coming(r, d.gateway, n)'
      BY <2>1, <3>1, <3>2 DEF Fresh
    <3>4. Fresh(r, n, e)' <=> /\ d.gateway \in On' /\ r \in Neighbors(d.gateway)
                              /\ n \in DOMAIN routing_table'[d.gateway]
                              /\ \/ e.age <= since'[d.gateway]
                                 \/ e.age <= UpdatePeriod /\ Coming(r, d.gateway, n)'
      BY <2>1 DEF Fresh
    <3> QED
      BY <1>0, <3>1, <3>2, <3>3, <3>4 DEF Fresh
  <2>2. CASE /\ frames'[r] = frames[r] /\ DOMAIN routing_table'[r] = DOMAIN routing_table[r]
             /\ \A x \in DOMAIN routing_table[r] : routing_table'[r][x] = routing_table[r][x]
    <3>1. Coming(r, e.gateway, n) => Coming(r, e.gateway, n)'
      BY <2>2 DEF Coming
    <3> QED
      BY <1>2, <2>1, <2>2, <3>1 DEF EntriesFresh
  <2>3. ASSUME NEW f \in frames[r],
                f \in Updates, frames'[r] = frames[r] \ {f},
                DOMAIN routing_table'[r] = DOMAIN routing_table[r] \cup f.networks,
                \A x \in f.networks \ DOMAIN routing_table[r] :
                        routing_table'[r][x] = Entry(f.from, "dynamic"),
                \A x \in DOMAIN routing_table[r] :
                        LET d == routing_table[r][x]
                            c == routing_table'[r][x]
                        IN /\ c.gateway = d.gateway /\ c.type = d.type
                           /\ c.age = IF x \in f.networks /\ d.type = "dynamic" THEN 0 ELSE d.age
        PROVE  IF e.type = "dynamic" THEN Fresh(r, n, e)' ELSE e.gateway = "self"
    <3>1. CASE n \in DOMAIN routing_table[r]
      <4>1. PICK d : d = routing_table[r][n]
        OBVIOUS
      <4>2. /\ e.gateway = d.gateway /\ e.type = d.type
            /\ e.age = IF n \in f.networks /\ d.type = "dynamic" THEN 0 ELSE d.age
        BY <1>2, <2>3, <3>1, <4>1
      <4>3. n \notin f.networks => (Coming(r, d.gateway, n) => Coming(r, d.gateway, n)')
        BY <2>3 DEF Coming
      <4>4. CASE d.type = "dynamic"
        BY <2>1, <3>1, <4>1, <4>2, <4>3, <4>4
      <4>5. CASE d.type # "dynamic"
        BY <3>1, <4>1, <4>2, <4>5 DEF EntriesFresh
      <4> QED
        BY <4>4, <4>5
    <3>2. CASE n \notin DOMAIN routing_table[r]
      <4>1. n \in f.networks /\ e = Entry(f.from, "dynamic")
        BY <1>2, <2>3, <3>2
      <4>2. e.gateway = f.from /\ e.type = "dynamic" /\ e.age = 0
        BY <4>1 DEF Entry
      <4>3. /\ f.from \in On /\ f.from \in Routers /\ r \in Neighbors(f.from)
            /\ since[f.from] = 0 /\ n \in DOMAIN routing_table[f.from] /\ f.from # r
        BY <4>1 DEF NewsFresh, On, Neighbors
      <4>4. since'[f.from] = 0 /\ n \in DOMAIN routing_table'[f.from] /\ f.from \in On'
        BY <1>0, <4>3
      <4>5. PICK g : g = f.from
        OBVIOUS
      <4>6. e.age <= since'[g]
        BY <4>2, <4>4, <4>5
      <4>7. Fresh(r, n, e)'
        BY <4>2, <4>3, <4>4, <4>5, <4>6 DEF Fresh
      <4> QED
        BY <4>2, <4>7
    <3> QED
      BY <3>1, <3>2
  <2> QED
    BY <2>2, <2>3, QuietPass
<1>3. ASSUME NEW s \in Routers, NEW n \in DOMAIN routing_table'[s]
      PROVE  IF routing_table'[s][n].type = "dynamic" THEN Fresh(s, n, routing_table[s][n])'
             ELSE routing_table'[s][n].gateway = "self"
  <2>1. PICK e : e = routing_table'[s][n]
    OBVIOUS
  <2>2. CASE s = r
    <3>1. IF e.type = "dynamic" THEN Fresh(s, n, e)' ELSE e.gateway = "self"
      BY <1>2, <2>1, <2>2
    <3> QED
      BY <2>1, <3>1 DEF Fresh
  <2>3. CASE s # r
    <3>1. s \in Routers \ {r} /\ n \in DOMAIN routing_table[s] /\ e = routing_table[s][n]
      BY <1>0, <2>1, <2>3
    <3>2. IF e.type = "dynamic" THEN Fresh(s, n, e)' ELSE e.gateway = "self"
      BY <1>1, <3>1 DEF EntriesFresh
    <3> QED
      BY <2>1, <3>2 DEF Fresh
  <2> QED
    BY <2>2, <2>3
<1> QED
  BY <1>3 DEF EntriesFresh

(* A router that learns a network is numbered above the router it learned it
   from; nobody hands packets to it yet. *)
LEMMA RankedPass ==
    ASSUME TypeOK, NewsFresh, EntriesFresh, Ranked, NEW r \in Routers, Iterate(r)
    PROVE  Ranked'
<1> SUFFICES ASSUME NEW n \in Networks
             PROVE  \E rank \in [Routers -> Nat] : Downwards(n, rank)'
  BY DEF Ranked
<1>1. PICK rank \in [Routers -> Nat] : Downwards(n, rank)
  BY DEF Ranked
<1>2. \A s \in Routers \ {r} : routing_table'[s] = routing_table[s]
  BY PassOthers
<1>3. CASE \A x \in DOMAIN routing_table'[r] : x = n =>
            /\ n \in DOMAIN routing_table[r]
            /\ routing_table'[r][n].gateway = routing_table[r][n].gateway
            /\ routing_table'[r][n].type = routing_table[r][n].type
  <2>1. ASSUME NEW s \in Routers, n \in DOMAIN routing_table'[s],
               routing_table'[s][n].type = "dynamic"
        PROVE  rank[routing_table'[s][n].gateway] < rank[s]
    <3>1. CASE s = r
      BY <1>1, <1>3, <2>1, <3>1 DEF Downwards
    <3>2. CASE s # r
      BY <1>1, <1>2, <2>1, <3>2 DEF Downwards
    <3> QED
      BY <3>1, <3>2
  <2>2. Downwards(n, rank)'
    BY <2>1 DEF Downwards
  <2> QED
    BY <2>2
<1>4. ASSUME NEW f \in frames[r], n \in f.networks, n \notin DOMAIN routing_table[r],
             routing_table'[r][n] = Entry(f.from, "dynamic")
      PROVE  \E new \in [Routers -> Nat] : Downwards(n, new)'
  <2>1. PICK g \in Routers : g = f.from /\ g # r
    BY DEF NewsFresh, On, Neighbors
  <2> DEFINE new == [rank EXCEPT ![r] = rank[g] + 1]
  <2>2. new \in [Routers -> Nat] /\ new[r] = rank[g] + 1 /\ rank[g] \in Nat
        /\ \A s \in Routers \ {r} : new[s] = rank[s]
    BY <2>1
  <2> HIDE DEF new
  <2>3. ASSUME NEW s \in Routers, n \in DOMAIN routing_table'[s],
               routing_table'[s][n].type = "dynamic"
        PROVE  new[routing_table'[s][n].gateway] < new[s]
    <3>1. CASE s = r
      <4>1. routing_table'[s][n].gateway = g
        BY <1>4, <2>1, <3>1 DEF Entry
      <4> QED
        BY <2>1, <2>2, <3>1, <4>1
    <3>2. CASE s # r
      <4>1. routing_table'[s] = routing_table[s] /\ n \in DOMAIN routing_table[s]
        BY <1>2, <2>3, <3>2
      <4>2. Fresh(s, n, routing_table[s][n])
        BY <2>3, <4>1 DEF EntriesFresh
      <4>3. routing_table[s][n].gateway \in Routers \ {r}
        BY <1>4, <4>2 DEF Fresh, On
      <4>4. rank[routing_table[s][n].gateway] < rank[s]
        BY <1>1, <2>3, <4>1 DEF Downwards
      <4> QED
        BY <2>2, <3>2, <4>1, <4>3, <4>4
    <3> QED
      BY <3>1, <3>2
  <2>4. Downwards(n, new)'
    BY <2>3 DEF Downwards
  <2> QED
    BY <2>2, <2>4
<1>5. CASE /\ DOMAIN routing_table'[r] = DOMAIN routing_table[r]
           /\ \A x \in DOMAIN routing_table[r] : routing_table'[r][x] = routing_table[r][x]
  BY <1>3, <1>5
<1>6. ASSUME NEW f \in frames[r],
             DOMAIN routing_table'[r] = DOMAIN routing_table[r] \cup f.networks,
             \A x \in f.networks \ DOMAIN routing_table[r] :
                        routing_table'[r][x] = Entry(f.from, "dynamic"),
             \A x \in DOMAIN routing_table[r] :
                        LET d == routing_table[r][x]
                            e == routing_table'[r][x]
                        IN e.gateway = d.gateway /\ e.type = d.type
      PROVE  \E new \in [Routers -> Nat] : Downwards(n, new)'
  <2>1. CASE n \in f.networks \ DOMAIN routing_table[r]
    BY <1>4, <1>6, <2>1
  <2>2. CASE n \notin f.networks \ DOMAIN routing_table[r]
    BY <1>3, <1>6, <2>2
  <2> QED
    BY <2>1, <2>2
<1> QED
  <2>1. CASE \E f \in frames[r] :
             /\ DOMAIN routing_table'[r] = DOMAIN routing_table[r] \cup f.networks
             /\ \A x \in f.networks \ DOMAIN routing_table[r] :
                        routing_table'[r][x] = Entry(f.from, "dynamic")
             /\ \A x \in DOMAIN routing_table[r] :
                        LET d == routing_table[r][x]
                            e == routing_table'[r][x]
                        IN e.gateway = d.gateway /\ e.type = d.type
    BY <1>6, <2>1
  <2> QED
    BY <1>5, <2>1, QuietPass

LEMMA QuietStart ==
    ASSUME TypeOK, SwitchedOff, NewsFresh, EntriesFresh, Ranked, NEW r \in Routers, Start(r)
    PROVE  SwitchedOff' /\ NewsFresh' /\ EntriesFresh' /\ Ranked'
<1>1. /\ r \notin On /\ On' = On \cup {r} /\ frames' = frames
      /\ frames[r] = {} /\ DOMAIN routing_table[r] = {}
  BY DEF Start, On, TypeOK, SwitchedOff
<1>2. /\ \A s \in Routers \ {r} : routing_table'[s] = routing_table[s] /\ since'[s] = since[s]
                                  /\ state'[s] = state[s]
      /\ routing_table'[r] = open_interfaces(r)
  BY DEF Start, TypeOK
<1>3. \A n \in DOMAIN routing_table'[r] : /\ routing_table'[r][n].type = "direct"
                                         /\ routing_table'[r][n].gateway = "self"
  BY <1>2 DEF open_interfaces, Entry
<1>4. SwitchedOff'
  BY <1>1, <1>2 DEF SwitchedOff
<1>5. NewsFresh'
  <2>1. ASSUME NEW s \in Routers, NEW f \in frames[s]
        PROVE  /\ f.from \in On' /\ s \in Neighbors(f.from) /\ since'[f.from] = 0
               /\ f.networks \subseteq DOMAIN routing_table'[f.from]
    <3>1. /\ f.from \in On /\ s \in Neighbors(f.from) /\ since[f.from] = 0
          /\ f.networks \subseteq DOMAIN routing_table[f.from]
          /\ f.from \in Routers \ {r}
      BY <1>1 DEF NewsFresh, On
    <3> QED
      BY <1>1, <1>2, <3>1
  <2> QED
    BY <1>1, <2>1 DEF NewsFresh
<1>6. ASSUME NEW s \in Routers \ {r}, NEW n \in DOMAIN routing_table[s],
             NEW e, e = routing_table[s][n], e.type = "dynamic"
      PROVE  Fresh(s, n, e)' /\ e.gateway # r
  <2>1. Fresh(s, n, e) /\ e.gateway \in Routers \ {r}
    BY <1>1, <1>6 DEF EntriesFresh, Fresh, On
  <2>2. since'[e.gateway] = since[e.gateway]
        /\ routing_table'[e.gateway] = routing_table[e.gateway]
    BY <1>2, <2>1
  <2>3. Coming(s, e.gateway, n)' <=> Coming(s, e.gateway, n)
    BY <1>1 DEF Coming
  <2> QED
    BY <1>1, <2>1, <2>2, <2>3 DEF Fresh
<1>7. EntriesFresh'
  <2>1. ASSUME NEW s \in Routers, NEW n \in DOMAIN routing_table'[s]
        PROVE  IF routing_table'[s][n].type = "dynamic" THEN Fresh(s, n, routing_table[s][n])'
               ELSE routing_table'[s][n].gateway = "self"
    <3>1. CASE s = r
      BY <1>3, <3>1
    <3>2. CASE s # r
      <4>1. PICK e : e = routing_table'[s][n]
        OBVIOUS
      <4>2. s \in Routers \ {r} /\ n \in DOMAIN routing_table[s] /\ e = routing_table[s][n]
        BY <1>2, <3>2, <4>1
      <4>3. IF e.type = "dynamic" THEN Fresh(s, n, e)' ELSE e.gateway = "self"
        BY <1>6, <4>2 DEF EntriesFresh
      <4> QED
        BY <4>1, <4>3 DEF Fresh
    <3> QED
      BY <3>1, <3>2
  <2> QED
    BY <2>1 DEF EntriesFresh
<1>8. Ranked'
  <2> SUFFICES ASSUME NEW n \in Networks
               PROVE  \E rank \in [Routers -> Nat] : Downwards(n, rank)'
    BY DEF Ranked
  <2>1. PICK rank \in [Routers -> Nat] : Downwards(n, rank)
    BY DEF Ranked
  <2>2. ASSUME NEW s \in Routers, n \in DOMAIN routing_table'[s],
               routing_table'[s][n].type = "dynamic"
        PROVE  rank[routing_table'[s][n].gateway] < rank[s]
    <3>1. s # r
      BY <1>3, <2>2
    <3> QED
      BY <1>2, <2>1, <2>2, <3>1 DEF Downwards
  <2>3. Downwards(n, rank)'
    BY <2>2 DEF Downwards
  <2> QED
    BY <2>3
<1> QED
  BY <1>4, <1>5, <1>7, <1>8

LEMMA QuietTick ==
    ASSUME TypeOK, SwitchedOff, NewsFresh, EntriesFresh, Ranked, Tick
    PROVE  SwitchedOff' /\ NewsFresh' /\ EntriesFresh' /\ Ranked'
<1>1. /\ On' = On /\ frames' = frames /\ UNCHANGED <<state, lost, died>>
      /\ \A s \in Routers : frames[s] = {}
      /\ \A s \in On : since'[s] = since[s] + 1
  BY DEF Tick, On, Waits, SwitchedOff
<1>2. ASSUME NEW s \in Routers
      PROVE  /\ DOMAIN routing_table'[s] = DOMAIN routing_table[s]
             /\ \A n \in DOMAIN routing_table[s] :
                    LET d == routing_table[s][n]
                        e == routing_table'[s][n]
                    IN /\ e.gateway = d.gateway /\ e.type = d.type
                       /\ d.type = "dynamic" => e.age = d.age + 1
  <2> DEFINE t == routing_table[s]
             u == routing_table'[s]
  <2>1. u = [n \in DOMAIN t |-> IF t[n].type = "dynamic"
                                THEN [t[n] EXCEPT !.age = @ + 1] ELSE t[n]]
    BY DEF Tick
  <2>2. \A n \in DOMAIN t : t[n] \in Entries
    BY TableEntries DEF TypeOK
  <2> HIDE DEF t, u
  <2>3. DOMAIN u = DOMAIN t
    BY <2>1
  <2>4. ASSUME NEW n \in DOMAIN t
        PROVE  /\ u[n].gateway = t[n].gateway /\ u[n].type = t[n].type
               /\ t[n].type = "dynamic" => u[n].age = t[n].age + 1
    <3>1. u[n] = IF t[n].type = "dynamic" THEN [t[n] EXCEPT !.age = @ + 1] ELSE t[n]
      BY <2>1
    <3> QED
      BY <2>2, <3>1 DEF Entries
  <2> QED
    BY <2>3, <2>4 DEF t, u
<1>3. SwitchedOff'
  BY <1>1, <1>2 DEF SwitchedOff
<1>4. NewsFresh'
  BY <1>1 DEF NewsFresh
<1>5. ASSUME NEW s \in Routers, NEW n \in DOMAIN routing_table'[s], NEW e, NEW d,
             d = routing_table[s][n], e.gateway = d.gateway, e.type = d.type,
             d.type = "dynamic", e.age = d.age + 1
      PROVE  Fresh(s, n, e)'
  <2>1. Fresh(s, n, d) /\ d \in Entries
    BY <1>2, <1>5, EntryBounds DEF EntriesFresh
  <2>2. d.age <= since[d.gateway]
    BY <1>1, <2>1 DEF Fresh, Coming
  <2>3. since[d.gateway] \in Nat /\ d.age \in Nat /\ d.gateway \in Routers
        /\ since'[d.gateway] = since[d.gateway] + 1 /\ d.gateway \in On
    BY <1>1, <2>1 DEF Fresh, On, TypeOK, Entries, UpdatePeriod
  <2>4. e.age <= since'[d.gateway]
    BY <1>5, <2>2, <2>3
  <2>5. DOMAIN routing_table'[d.gateway] = DOMAIN routing_table[d.gateway]
    BY <1>2, <2>3
  <2> QED
    BY <1>1, <1>5, <2>1, <2>4, <2>5 DEF Fresh
<1>6. EntriesFresh'
  <2>1. ASSUME NEW s \in Routers, NEW n \in DOMAIN routing_table'[s]
        PROVE  IF routing_table'[s][n].type = "dynamic" THEN Fresh(s, n, routing_table[s][n])'
               ELSE routing_table'[s][n].gateway = "self"
    <3>1. PICK e, d : e = routing_table'[s][n] /\ d = routing_table[s][n]
      OBVIOUS
    <3>2. /\ n \in DOMAIN routing_table[s]
          /\ e.gateway = d.gateway /\ e.type = d.type
          /\ d.type = "dynamic" => e.age = d.age + 1
      BY <1>2, <3>1
    <3>3. IF e.type = "dynamic" THEN Fresh(s, n, e)' ELSE e.gateway = "self"
      BY <1>5, <3>1, <3>2 DEF EntriesFresh
    <3> QED
      BY <3>1, <3>3 DEF Fresh
  <2> QED
    BY <2>1 DEF EntriesFresh
<1>7. Ranked'
  <2> SUFFICES ASSUME NEW n \in Networks
               PROVE  \E rank \in [Routers -> Nat] : Downwards(n, rank)'
    BY DEF Ranked
  <2>1. PICK rank \in [Routers -> Nat] : Downwards(n, rank)
    BY DEF Ranked
  <2>2. ASSUME NEW s \in Routers, n \in DOMAIN routing_table'[s],
               routing_table'[s][n].type = "dynamic"
        PROVE  rank[routing_table'[s][n].gateway] < rank[s]
    BY <1>2, <2>1, <2>2 DEF Downwards
  <2>3. Downwards(n, rank)'
    BY <2>2 DEF Downwards
  <2> QED
    BY <2>3
<1> QED
  BY <1>3, <1>4, <1>6, <1>7

LEMMA QuietNext == TypeOK /\ QuietInv /\ [Next]_vars => QuietInv'
<1> SUFFICES ASSUME TypeOK, QuietInv, [Next]_vars, Quiet'
             PROVE  (SwitchedOff /\ NewsFresh /\ EntriesFresh /\ Ranked)'
  BY DEF QuietInv
<1>1. ASSUME NEW r \in Routers, Start(r)
      PROVE  (SwitchedOff /\ NewsFresh /\ EntriesFresh /\ Ranked)'
  <2>1. Quiet
    BY <1>1 DEF Start, Quiet
  <2> QED
    BY <1>1, <2>1, QuietStart DEF QuietInv
<1>2. ASSUME NEW r \in Routers, Iterate(r)
      PROVE  (SwitchedOff /\ NewsFresh /\ EntriesFresh /\ Ranked)'
  <2>1. Quiet
    BY <1>2 DEF Iterate, Quiet
  <2> QED
    BY <1>2, <2>1, NewsPass, EntriesPass, RankedPass DEF QuietInv
<1>3. ASSUME NEW r \in Routers, Lose(r) \/ Die(r)
      PROVE  FALSE
  BY <1>3 DEF Lose, Die, Quiet, TypeOK
<1>4. CASE Tick
  <2>1. Quiet
    BY <1>4 DEF Tick, Quiet
  <2> QED
    BY <1>4, <2>1, QuietTick DEF QuietInv
<1>5. CASE UNCHANGED vars
  BY <1>5 DEF vars, Quiet, QuietInv, SwitchedOff, NewsFresh, EntriesFresh, Fresh, Coming,
              Ranked, Downwards, On
<1> QED
  BY <1>1, <1>2, <1>3, <1>4, <1>5 DEF Next

LEMMA QuietInit == Init => QuietInv
<1> SUFFICES ASSUME Init
             PROVE  SwitchedOff /\ NewsFresh /\ EntriesFresh /\ Ranked
  BY DEF QuietInv
<1>1. \A r \in Routers : state[r] = "off" /\ DOMAIN routing_table[r] = {} /\ frames[r] = {}
  BY DEF Init
<1>2. SwitchedOff /\ NewsFresh /\ EntriesFresh
  BY <1>1 DEF SwitchedOff, NewsFresh, EntriesFresh
<1>3. Ranked
  <2> DEFINE zero == [r \in Routers |-> 0]
  <2>1. zero \in [Routers -> Nat]
    OBVIOUS
  <2>2. \A n \in Networks : Downwards(n, zero)
    BY <1>1 DEF Downwards
  <2> QED
    BY <2>1, <2>2 DEF Ranked
<1> QED
  BY <1>2, <1>3

(* While no router dies and no update is lost, no packet circles, whatever the
   networks look like: gateways never change, and each had the network before
   the routers that use it. *)
THEOREM NeverCircles == Spec => []LoopFree
<1>1. TypeOK /\ QuietInv => LoopFree
  <2> SUFFICES ASSUME TypeOK, QuietInv, lost + died = 0, NEW n \in Networks,
                      NEW round \in (SUBSET Routers) \ {{}}
               PROVE  \E r \in round : NextHop(r, n) \notin round
    BY DEF LoopFree
  <2>1. EntriesFresh /\ Ranked
    BY DEF QuietInv, Quiet, TypeOK
  <2>2. PICK rank \in [Routers -> Nat] : Downwards(n, rank)
    BY <2>1 DEF Ranked
  <2> DEFINE S == {rank[r] : r \in round}
  <2>3. S \subseteq Nat /\ S # {}
    <3>1. \A r \in round : r \in Routers /\ rank[r] \in Nat
      OBVIOUS
    <3>2. PICK r \in round : TRUE
      OBVIOUS
    <3>3. S \subseteq Nat
      BY <3>1
    <3>4. rank[r] \in S
      BY <3>2
    <3> QED
      BY <3>3, <3>4
  <2>4. Min(S) \in S /\ \A y \in S : Min(S) <= y
    BY <2>3, MinIsLeast
  <2>5. PICK r \in round : \A s \in round : rank[r] <= rank[s]
    BY <2>4
  <2>6. r \in Routers /\ rank[r] \in Nat
    OBVIOUS
  <2>7. CASE n \in DOMAIN routing_table[r] /\ routing_table[r][n].type = "dynamic"
    <3>1. NextHop(r, n) = routing_table[r][n].gateway
      BY <2>7 DEF NextHop
    <3>2. rank[NextHop(r, n)] < rank[r]
      BY <2>2, <2>6, <2>7, <3>1 DEF Downwards
    <3>3. ASSUME NextHop(r, n) \in round
          PROVE  FALSE
      <4>1. rank[NextHop(r, n)] \in Nat /\ rank[r] <= rank[NextHop(r, n)]
        BY <2>5, <3>3
      <4> QED
        BY <2>6, <3>2, <4>1
    <3> QED
      BY <3>3
  <2>8. CASE ~(n \in DOMAIN routing_table[r] /\ routing_table[r][n].type = "dynamic")
    <3>1. NextHop(r, n) = "self"
      BY <2>1, <2>6, <2>8 DEF NextHop, EntriesFresh
    <3> QED
      BY <3>1, GatewayAssumption
  <2> QED
    BY <2>7, <2>8
<1> QED
  BY <1>1, TypeInit, TypeNext, QuietInit, QuietNext, PTL DEF Spec

(* While no router dies and no update is lost, an entry never times out: the
   three seconds it is valid outlast the two seconds between updates and the
   time an update waits to be read, in every phase the loops can have. *)
THEOREM NothingForgotten == Spec => NeverForgets
<1>1. TypeOK /\ QuietInv /\ [Next]_vars
        => [lost' + died' = 0 =>
                \A r \in On : DOMAIN routing_table[r] \subseteq DOMAIN routing_table'[r]]_vars
  <2> SUFFICES ASSUME TypeOK, QuietInv, Next, lost' + died' = 0, NEW r \in On
               PROVE  DOMAIN routing_table[r] \subseteq DOMAIN routing_table'[r]
    OBVIOUS
  <2>0. r \in Routers /\ TypeOK'
    BY TypeNext DEF On
  <2>1. ASSUME NEW s \in Routers, Start(s)
        PROVE  DOMAIN routing_table[r] \subseteq DOMAIN routing_table'[r]
    <3>1. r # s
      BY <2>1 DEF Start, On
    <3> QED
      BY <2>0, <2>1, <3>1 DEF Start, TypeOK
  <2>2. ASSUME NEW s \in Routers, Iterate(s)
        PROVE  DOMAIN routing_table[r] \subseteq DOMAIN routing_table'[r]
    <3>1. EntriesFresh
      BY <2>2 DEF Iterate, QuietInv, Quiet, TypeOK
    <3> QED
      BY <2>0, <2>2, <3>1, PassOthers
  <2>3. ASSUME NEW s \in Routers, Lose(s) \/ Die(s)
        PROVE  FALSE
    BY <2>3 DEF Lose, Die, TypeOK
  <2>4. CASE Tick
    BY <2>0, <2>4 DEF Tick
  <2> QED
    BY <2>1, <2>2, <2>3, <2>4 DEF Next
<1> QED
  BY <1>1, TypeInit, TypeNext, QuietInit, QuietNext, PTL DEF Spec, NeverForgets
=============================================================================
