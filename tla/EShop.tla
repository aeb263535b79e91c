------------------------------- MODULE EShop -------------------------------
(***************************************************************************)
(* The e-shop of e_shop.erl: a gen_server, one process per session, two    *)
(* processes per order (one keeps its state, one changes it as time goes   *)
(* by) and the client processes that call the server.                      *)
(*                                                                         *)
(* The server handles one message at a time, but inside a handler it asks  *)
(* a session or an order and waits TIME_UNIT for {Pid, Answer}.  Answers   *)
(* carry no reference to the question.  A question that timed out may      *)
(* still be answered: into the next handler's receive, or into handle_info *)
(* whose return value `ok' stops the server.                               *)
(***************************************************************************)
EXTENDS Integers, SequencesExt, FiniteSetsExt

CONSTANTS
    Users, Passwords, Clients,
    Prices,         \* kinds of price a caller passes: "float", "integer"
    MaxLate,        \* answers that may be outstanding past TIME_UNIT at a time
    MaxSessions, MaxItems, MaxOrders,   \* bounds on what the clients ask for
    MaxStarts       \* times start_link is called

ASSUME UsersAssumption == {"ok", "nobody"} \cap Users = {}
ASSUME PricesAssumption == Prices \subseteq {"float", "integer"}
ASSUME BoundsAssumption == /\ MaxLate \in Nat
                           /\ MaxSessions \in Nat
                           /\ MaxItems \in Nat
                           /\ MaxOrders \in Nat
                           /\ MaxStarts \in Nat \ {0}

VARIABLES
    (* the gen_server process *)
    pc,         \* the receive it is in: the main loop's ("idle"), or a handler's
    inc,        \* which start of the server this is; part of its pid
    job,        \* the message it handles
    peer,       \* the process whose answer it waits for
    mbox,       \* its mailbox
    (* #e_shop_state *)
    users, items, item_count, orders, order_count,
    (* the other processes *)
    sessions,   \* session_actor's
    keepers,    \* order_state_keeping_actor's
    timers,     \* order_state_changing_actor's
    client,     \* what each client process waits for in gen_server:call
    (* observation *)
    answer      \* the last reply of the server, until it takes its next message

shop == <<users, items, item_count, orders, order_count>>
server == <<pc, inc, job, peer, mbox>>
vars == <<server, shop, sessions, keepers, timers, client, answer>>

-----------------------------------------------------------------------------
(* Process identifiers and messages. *)

Session(i) == <<"session", i>>
Keeper(k) == <<"keeper", k>>
NoPid == <<"nobody", 0>>
Pids == {"session", "keeper"} \X Nat

(* Variation (a bug the properties must notice): a misspelt atom. *)
StagesMisspelt == <<"packaged", "shipped", "received">>

Stages == <<"packaged", "shipped", "delivered">>
States == {"placed", "packaged", "shipped", "delivered"}

AccountCalls == [op : {"register", "log_in"}, client : Clients,
                 user : Users, password : Passwords]
SessionCalls ==
    [op : {"log_out", "get_all_items", "make_order", "get_my_orders"},
     client : Clients, session : DOMAIN sessions]
    \cup [op : {"add_new_item"}, client : Clients, session : DOMAIN sessions,
          price : Prices]
    \cup [op : {"get_order_state"}, client : Clients, session : DOMAIN sessions,
          order : Nat]
SessionOps == {"log_out", "get_all_items", "make_order", "get_my_orders",
               "add_new_item", "get_order_state"}
Calls == AccountCalls \cup SessionCalls
Casts == [op : {"change_order_state"}, order : Nat, state : Range(Stages)]
Replies == [op : {"reply"}, from : Pids, val : Users \cup States \cup {"ok"}]
NoJob == [op |-> "none"]

(* Questions to a session and to a keeper; `from' is the asking server. *)
SessionRequests == [from : Nat, req : {"check_existence", "destroy_session"}]
KeeperRequests ==
    [from : Nat, req : {"get_order_state"}]
    \cup [from : Nat, req : {"change_order_state"}, state : Range(Stages)]

(* Pid ! Message.  What is sent to a process that has exited is dropped, and
   so is what is sent to a server process that has terminated. *)
(* Variation (a bug the properties must notice): mail out of order. *)
DeliverInFront(box, m) == <<m>> \o box
Deliver(box, m) == Append(box, m)
AskSession(i, r) ==
    sessions' = IF sessions[i].alive
                THEN [sessions EXCEPT ![i].mbox = Deliver(@, [from |-> inc, req |-> r])]
                ELSE sessions
AskKeeper(k, r) == keepers' = [keepers EXCEPT ![k].mbox = Deliver(@, r)]
ToServer(asker, m) == IF asker = inc /\ pc # "down" THEN Deliver(mbox, m) ELSE mbox

(* The `receive' of a handler: the first answer that matches its pattern, left
   in the mailbox are the messages that do not. *)
(* Variation (a bug the properties must notice): the pid in the pattern is not bound. *)
MatchesAnyPid(m) == m.op = "reply" /\ (pc \in {"log_out", "change"} => m.val = "ok")
(* Variation (a bug the properties must notice): {SessionId, _} for {SessionId, ok}. *)
MatchesAnyValue(m) == m.op = "reply" /\ m.from = peer
Matches(m) == /\ m.op = "reply"
              /\ m.from = peer
              /\ pc \in {"log_out", "change"} => m.val = "ok"
FirstMatch(i) == Matches(mbox[i]) /\ \A j \in 1 .. i - 1 : ~Matches(mbox[j])
Take(i) == FirstMatch(i) /\ mbox' = RemoveAt(mbox, i)

(* The questions of this server that are not answered, and the answers it has
   not read: it stops waiting for one (`after ?TIME_UNIT') when there is no
   match yet and at most MaxLate of them are outstanding.  With MaxLate = 0
   that is only when the process asked is gone. *)
Unanswered ==
    (UNION {{<<Session(i), n>> : n \in {x \in DOMAIN sessions[i].mbox :
                sessions[i].mbox[x].from = inc}} : i \in DOMAIN sessions})
    \cup (UNION {{<<Keeper(k), n>> : n \in {x \in DOMAIN keepers[k].mbox :
                keepers[k].mbox[x].from = inc}} : k \in DOMAIN keepers})
    \cup {<<NoPid, n>> : n \in {x \in DOMAIN mbox : mbox[x].op = "reply"}}
(* Variation (a bug the properties must notice): no time to answer. *)
TimeoutAtOnce == \A i \in DOMAIN mbox : ~Matches(mbox[i])
TimeUnitPassed == /\ \A i \in DOMAIN mbox : ~Matches(mbox[i])
                  /\ Cardinality(Unanswered) <= MaxLate

(* {reply, Value, State}: the client is released and the main loop goes on. *)
Back == pc' = "idle" /\ job' = NoJob /\ peer' = NoPid
NoClient == [op |-> "none", dead |-> FALSE]
Say(m, v, ids) == /\ client' = [client EXCEPT ![m.client] = NoClient]
                  /\ answer' = [call |-> m, val |-> v, ids |-> ids]
NoAnswer == [call |-> NoJob, val |-> "none", ids |-> {}]
Reply(v, ids) == Back /\ Say(job, v, ids)

(* The server process stops: its state and its mailbox are gone, and every
   process that waits in gen_server:call exits or catches the error. *)
(* Variation (a bug the properties must notice): the order list outlives a crash. *)
NoShopButOrders == /\ users' = << >> /\ items' = << >> /\ item_count' = 0
                   /\ orders' = orders /\ order_count' = order_count
NoShop == /\ users' = << >> /\ items' = << >> /\ item_count' = 0
          /\ orders' = << >> /\ order_count' = 0
Terminate == /\ pc' = "down" /\ job' = NoJob /\ peer' = NoPid
             /\ client' = [c \in Clients |-> NoClient]
             /\ answer' = NoAnswer
             /\ mbox' = << >>
             /\ NoShop

(* The orders with this id in the order list; get_order_data wants exactly one. *)
OrdersWithId(id) == {n \in DOMAIN orders : orders[n].id = id}
OrderKeeper(id) == orders[CHOOSE n \in OrdersWithId(id) : TRUE].keeper
-----------------------------------------------------------------------------
Init ==
    /\ pc = "idle" /\ inc = 1 /\ job = NoJob /\ peer = NoPid /\ mbox = << >>
    /\ users = << >> /\ items = << >> /\ item_count = 0
    /\ orders = << >> /\ order_count = 0
    /\ sessions = << >> /\ keepers = << >> /\ timers = << >>
    /\ client = [c \in Clients |-> NoClient]
    /\ answer = NoAnswer

(* start_link again, after the server has stopped.  Sessions, keepers and
   timers are not linked to the server and have outlived it. *)
StartLink ==
    /\ pc = "down" /\ inc < MaxStarts
    /\ pc' = "idle" /\ inc' = inc + 1
    /\ UNCHANGED <<job, peer, mbox, shop, sessions, keepers, timers, client, answer>>

-----------------------------------------------------------------------------
(* The client API: a message to e_shop, and the caller waits for the reply.
   `dead' notes for the properties that the session named in the call had
   exited by then. *)
Free(c) == client[c] = NoClient /\ pc # "down"
Waiting(op) == Cardinality({c \in Clients : client[c].op = op})
Call(c, m, dead) ==
    /\ mbox' = Deliver(mbox, m)
    /\ client' = [client EXCEPT ![c] = [op |-> m.op, dead |-> dead]]
    /\ UNCHANGED <<pc, inc, job, peer, shop, sessions, keepers, timers, answer>>

CallAccount(c) ==
    /\ Free(c)
    /\ \E m \in AccountCalls :
        /\ m.client = c
        /\ m.op = "log_in" => Len(sessions) + Waiting("log_in") < MaxSessions
        /\ Call(c, m, FALSE)

WithinBounds(op) ==
    CASE op = "make_order" -> Len(keepers) + Waiting(op) < MaxOrders
      [] op = "add_new_item" -> item_count + Waiting(op) < MaxItems
      [] OTHER -> TRUE

SessionCall(op, c, i) ==
    CASE op = "add_new_item" ->
            [op : {op}, client : {c}, session : {i}, price : Prices]
      [] op = "get_order_state" ->
            [op : {op}, client : {c}, session : {i}, order : 1 .. MaxOrders]
      [] OTHER -> [op : {op}, client : {c}, session : {i}]

CallSession(c) ==
    /\ Free(c)
    /\ \E op \in SessionOps, i \in DOMAIN sessions :
        /\ WithinBounds(op)
        /\ \E m \in SessionCall(op, c, i) : Call(c, m, ~sessions[i].alive)

-----------------------------------------------------------------------------
(* The main loop takes the first message of the mailbox. *)
Handle(ops, m) == /\ pc = "idle" /\ mbox # << >>
                  /\ m = Head(mbox) /\ m.op \in ops

NewUser(u, p) == [x \in DOMAIN users \cup {u} |->
                    IF x = u THEN [password |-> p, orders |-> {}] ELSE users[x]]

HandleRegister ==
    \E m \in AccountCalls :
        /\ Handle({"register"}, m)
        /\ mbox' = Tail(mbox)
        /\ \/ /\ m.user \in DOMAIN users
              /\ users' = users
              /\ Say(m, "user_already_exists", {})
           \/ /\ m.user \notin DOMAIN users
              /\ users' = NewUser(m.user, m.password)
              /\ Say(m, "registration_ok", {})
        /\ UNCHANGED <<pc, inc, job, peer, items, item_count, orders, order_count,
                       sessions, keepers, timers>>

HandleLogIn ==
    \E m \in AccountCalls :
        /\ Handle({"log_in"}, m)
        /\ mbox' = Tail(mbox)
        /\ \/ /\ m.user \notin DOMAIN users
              /\ Say(m, "no_such_user", {})
              /\ sessions' = sessions
           \/ /\ m.user \in DOMAIN users
              /\ users[m.user].password # m.password
              /\ Say(m, "invalid_password", {})
              /\ sessions' = sessions
           \/ /\ m.user \in DOMAIN users
              /\ users[m.user].password = m.password
              /\ Say(m, "ok", {})
              /\ sessions' = Append(sessions,
                                [owner |-> m.user, alive |-> TRUE, mbox |-> << >>])
        /\ UNCHANGED <<pc, inc, job, peer, shop, keepers, timers>>

(* Every other call starts with check_auth_and_perform_action. *)
CheckAuth ==
    /\ pc = "idle" /\ mbox # << >> /\ Head(mbox).op \in SessionOps
    /\ job' = Head(mbox) /\ mbox' = Tail(mbox)
    /\ pc' = "auth" /\ peer' = Session(Head(mbox).session)
    /\ AskSession(Head(mbox).session, "check_existence")
    /\ answer' = NoAnswer
    /\ UNCHANGED <<inc, shop, keepers, timers, client>>

(* A cast from an order's timer; get_order_data fails (badmatch) when the list
   does not hold exactly one order with this id. *)
HandleCast ==
    /\ pc = "idle" /\ mbox # << >> /\ Head(mbox).op = "change_order_state"
    /\ LET m == Head(mbox) IN
        \/ /\ Cardinality(OrdersWithId(m.order)) = 1
           /\ job' = m /\ mbox' = Tail(mbox)
           /\ pc' = "change" /\ peer' = Keeper(OrderKeeper(m.order))
           /\ AskKeeper(OrderKeeper(m.order),
                        [from |-> inc, req |-> "change_order_state", state |-> m.state])
           /\ answer' = NoAnswer
           /\ UNCHANGED <<inc, shop, sessions, timers, client>>
        \/ /\ Cardinality(OrdersWithId(m.order)) # 1
           /\ Terminate
           /\ UNCHANGED <<inc, sessions, keepers, timers>>

(* An answer that no handler waited for any more reaches the main loop. *)
HandleInfo ==
    /\ pc = "idle" /\ mbox # << >> /\ Head(mbox).op = "reply"
    /\ Terminate
    /\ UNCHANGED <<inc, sessions, keepers, timers>>

-----------------------------------------------------------------------------
(* The session answered: Action(Username), with whatever value the first
   {SessionId, _} in the mailbox carries. *)
Authenticated(op, i) == pc = "auth" /\ job.op = op /\ FirstMatch(i)

LogOut ==
    \E i \in DOMAIN mbox :
        /\ Authenticated("log_out", i) /\ Take(i)
        /\ AskSession(job.session, "destroy_session")
        /\ pc' = "log_out"
        /\ UNCHANGED <<inc, job, peer, shop, keepers, timers, client, answer>>

(* ~.2f formats floats only: one item with an integer price and the handler
   fails, the server with it. *)
ItemFormats(n) == items[n].price = "float"

GetAllItems ==
    \E i \in DOMAIN mbox :
        /\ Authenticated("get_all_items", i)
        /\ \/ /\ \A n \in DOMAIN items : ItemFormats(n)
              /\ Take(i) /\ Reply("item_list", {})
              /\ UNCHANGED <<inc, shop, sessions, keepers, timers>>
           \/ /\ \E n \in DOMAIN items : ~ItemFormats(n)
              /\ Terminate
              /\ UNCHANGED <<inc, sessions, keepers, timers>>

AddNewItem ==
    \E i \in DOMAIN mbox :
        /\ Authenticated("add_new_item", i) /\ Take(i)
        /\ items' = <<[id |-> item_count + 1, added_by |-> mbox[i].val,
                       price |-> job.price]>> \o items
        /\ item_count' = item_count + 1
        /\ Reply("item_added", {})
        /\ UNCHANGED <<inc, users, orders, order_count, sessions, keepers, timers>>

NewOrder(id, user) == [id |-> id, user |-> user, keeper |-> Len(keepers) + 1]
(* Variation (a bug the properties must notice): the counter is incremented twice. *)
TimerOfNextOrder(id) == [order |-> id + 1, sent |-> 0]
NewTimer(id) == [order |-> id, sent |-> 0]

(* The keeper is spawned first; dict:update fails for a user that is not
   registered (any more) and leaves the keeper without an order. *)
MakeOrder ==
    \E i \in DOMAIN mbox :
        LET user == mbox[i].val
            id == order_count + 1
        IN
        /\ Authenticated("make_order", i)
        /\ keepers' = Append(keepers, [state |-> "placed", mbox |-> << >>])
        /\ \/ /\ user \in DOMAIN users
              /\ Take(i)
              /\ users' = [users EXCEPT ![user].orders = @ \cup {id}]
              /\ orders' = <<NewOrder(id, user)>> \o orders
              /\ order_count' = id
              /\ timers' = Append(timers, NewTimer(id))
              /\ Reply("order_placed", {id})
              /\ UNCHANGED <<inc, items, item_count, sessions>>
           \/ /\ user \notin DOMAIN users
              /\ Terminate
              /\ UNCHANGED <<inc, sessions, timers>>

(* Variation (a bug the properties must notice): every order is listed. *)
AllOrders(user) == {orders[n].id : n \in DOMAIN orders}
OrdersOf(user) == {orders[n].id : n \in {x \in DOMAIN orders :
                                            orders[x].id \in users[user].orders}}

(* dict:fetch fails for an unregistered user here as well. *)
GetMyOrders ==
    \E i \in DOMAIN mbox :
        LET user == mbox[i].val IN
        /\ Authenticated("get_my_orders", i)
        /\ \/ /\ user \in DOMAIN users
              /\ Take(i) /\ Reply("order_list", OrdersOf(user))
              /\ UNCHANGED <<inc, shop, sessions, keepers, timers>>
           \/ /\ user \notin DOMAIN users
              /\ Terminate
              /\ UNCHANGED <<inc, sessions, keepers, timers>>

GetOrderState ==
    \E i \in DOMAIN mbox :
        LET user == mbox[i].val IN
        /\ Authenticated("get_order_state", i)
        /\ \/ /\ user \in DOMAIN users
              /\ job.order \notin users[user].orders
              /\ Take(i) /\ Reply("no_such_order", {})
              /\ UNCHANGED <<inc, shop, sessions, keepers, timers>>
           \/ /\ user \in DOMAIN users
              /\ job.order \in users[user].orders
              /\ Cardinality(OrdersWithId(job.order)) = 1
              /\ Take(i)
              /\ pc' = "fetch" /\ peer' = Keeper(OrderKeeper(job.order))
              /\ AskKeeper(OrderKeeper(job.order),
                           [from |-> inc, req |-> "get_order_state"])
              /\ UNCHANGED <<inc, job, shop, sessions, timers, client, answer>>
           \/ /\ ~(/\ user \in DOMAIN users
                   /\ job.order \in users[user].orders
                         => Cardinality(OrdersWithId(job.order)) = 1)
              /\ Terminate
              /\ UNCHANGED <<inc, sessions, keepers, timers>>

-----------------------------------------------------------------------------
(* The second receive of a handler, and the timeouts. *)
LogOutOk ==
    \E i \in DOMAIN mbox :
        /\ pc = "log_out" /\ Take(i)
        /\ Reply("log_out_ok", {})
        /\ UNCHANGED <<inc, shop, sessions, keepers, timers>>

OrderStateFetched ==
    \E i \in DOMAIN mbox :
        /\ pc = "fetch" /\ Take(i)
        /\ Reply(mbox[i].val, {job.order})
        /\ UNCHANGED <<inc, shop, sessions, keepers, timers>>

OrderStateChanged ==
    \E i \in DOMAIN mbox :
        /\ pc = "change" /\ Take(i)
        /\ Back
        /\ UNCHANGED <<inc, shop, sessions, keepers, timers, client, answer>>

(* Variation (a bug the properties must notice): a receive without `after'. *)
NeverTimesOut == FALSE /\ UNCHANGED vars
CallTimesOut ==
    /\ pc \in {"auth", "log_out", "fetch"} /\ TimeUnitPassed
    /\ Reply(CASE pc = "auth" -> "no_such_session"
               [] pc = "log_out" -> "log_out_error"
               [] OTHER -> "error", {})
    /\ UNCHANGED <<inc, mbox, shop, sessions, keepers, timers>>

ChangeTimesOut ==
    /\ pc = "change" /\ TimeUnitPassed
    /\ Back
    /\ UNCHANGED <<inc, mbox, shop, sessions, keepers, timers, client, answer>>

-----------------------------------------------------------------------------
SessionAnswer(i, req) == IF req = "check_existence" THEN sessions[i].owner ELSE "ok"

(* session_actor: destroy_session is answered with ok and ends the process. *)
SessionReceive(i) ==
    /\ sessions[i].alive /\ sessions[i].mbox # << >>
    /\ LET m == Head(sessions[i].mbox) IN
        /\ mbox' = ToServer(m.from, [op |-> "reply", from |-> Session(i),
                                     val |-> SessionAnswer(i, m.req)])
        /\ \/ /\ m.req = "check_existence"
              /\ sessions' = [sessions EXCEPT ![i].mbox = Tail(@)]
           \/ /\ m.req = "destroy_session"
              /\ sessions' = [sessions EXCEPT ![i].mbox = << >>, ![i].alive = FALSE]
    /\ UNCHANGED <<pc, inc, job, peer, shop, keepers, timers, client, answer>>

(* after Timeout * ?TIME_UNIT without a message *)
SessionExpire(i) ==
    /\ sessions[i].alive /\ sessions[i].mbox = << >>
    /\ sessions' = [sessions EXCEPT ![i].alive = FALSE]
    /\ UNCHANGED <<server, shop, keepers, timers, client, answer>>

KeeperReceive(k) ==
    /\ keepers[k].mbox # << >>
    /\ LET m == Head(keepers[k].mbox) IN
        \/ /\ m.req = "get_order_state"
           /\ keepers' = [keepers EXCEPT ![k].mbox = Tail(@)]
           /\ mbox' = ToServer(m.from, [op |-> "reply", from |-> Keeper(k),
                                        val |-> keepers[k].state])
        \/ /\ m.req = "change_order_state"
           /\ keepers' = [keepers EXCEPT ![k] = [state |-> m.state, mbox |-> Tail(@.mbox)]]
           /\ mbox' = ToServer(m.from, [op |-> "reply", from |-> Keeper(k),
                                        val |-> "ok"])
    /\ UNCHANGED <<pc, inc, job, peer, shop, sessions, timers, client, answer>>

(* Variation (a bug the properties must notice): one stage too few. *)
StopsEarly(t) == timers[t].sent + 1 < Len(Stages)
Running(t) == timers[t].sent < Len(Stages)

(* gen_server:cast to the name e_shop: whatever server is registered gets it. *)
TimerFire(t) ==
    /\ Running(t)
    /\ timers' = [timers EXCEPT ![t].sent = @ + 1]
    /\ mbox' = ToServer(inc, [op |-> "change_order_state", order |-> timers[t].order,
                              state |-> Stages[timers[t].sent + 1]])
    /\ UNCHANGED <<pc, inc, job, peer, shop, sessions, keepers, client, answer>>

-----------------------------------------------------------------------------
ServerStep == \/ HandleRegister \/ HandleLogIn \/ CheckAuth \/ HandleCast \/ HandleInfo
              \/ LogOut \/ GetAllItems \/ AddNewItem \/ MakeOrder
              \/ GetMyOrders \/ GetOrderState
              \/ LogOutOk \/ OrderStateFetched \/ OrderStateChanged
              \/ CallTimesOut \/ ChangeTimesOut

Next == \/ StartLink
        \/ ServerStep
        \/ \E c \in Clients : CallAccount(c) \/ CallSession(c)
        \/ \E i \in DOMAIN sessions : SessionReceive(i) \/ SessionExpire(i)
        \/ \E k \in DOMAIN keepers : KeeperReceive(k)
        \/ \E t \in DOMAIN timers : TimerFire(t)

Spec == Init /\ [][Next]_vars

(* The Erlang scheduler runs every process that can run, and timers go off.
   Nothing makes a client call, a session expire or the shop restart. *)
Fairness ==
    /\ WF_vars(ServerStep)
    /\ \A i \in 1 .. MaxSessions : WF_vars(i \in DOMAIN sessions /\ SessionReceive(i))
    /\ \A k \in 1 .. MaxOrders :
        /\ WF_vars(k \in DOMAIN keepers /\ KeeperReceive(k))
        /\ WF_vars(k \in DOMAIN timers /\ TimerFire(k))
FairSpec == Spec /\ Fairness

-----------------------------------------------------------------------------
(* Properties. *)

Messages == Calls \cup Casts \cup Replies
UserData == [password : Passwords, orders : SUBSET (Nat \ {0})]
Items == [id : Nat, added_by : Users \cup States \cup {"ok"}, price : Prices]
Orders == [id : Nat \ {0}, user : Users, keeper : Nat \ {0}]
SessionActors == [owner : Users, alive : BOOLEAN, mbox : Seq(SessionRequests)]
KeeperActors == [state : States, mbox : Seq(KeeperRequests)]
TimerActors == [order : Nat \ {0}, sent : 0 .. Len(Stages)]
ClientStates == [op : {"none", "register", "log_in"} \cup SessionOps, dead : BOOLEAN]

TypeServer ==
    /\ pc \in {"idle", "auth", "log_out", "fetch", "change", "down"}
    /\ inc \in 1 .. MaxStarts
    /\ mbox \in Seq(Messages)

TypeHandler ==
    /\ pc \in {"idle", "down"} => job = NoJob /\ peer = NoPid
    /\ pc \in {"auth", "log_out", "fetch"} => job \in SessionCalls
    /\ pc \in {"auth", "log_out"} => peer = Session(job.session)
    /\ pc = "log_out" => job.op = "log_out"
    /\ pc = "fetch" => job.op = "get_order_state"
    /\ pc = "change" => job \in Casts
    /\ pc \in {"fetch", "change"} => \E k \in DOMAIN keepers : peer = Keeper(k)

TypeShop ==
    /\ \E S \in SUBSET Users : users \in [S -> UserData]
    /\ items \in Seq(Items)
    /\ item_count \in Nat
    /\ orders \in Seq(Orders)
    /\ \A n \in DOMAIN orders : orders[n].keeper \in DOMAIN keepers
    /\ order_count \in Nat

TypeActors ==
    /\ sessions \in Seq(SessionActors)
    /\ keepers \in Seq(KeeperActors)
    /\ timers \in Seq(TimerActors)
    /\ client \in [Clients -> ClientStates]

(* The type of every variable, and which message and which process go with
   each receive of the server. *)
TypeOK == TypeServer /\ TypeHandler /\ TypeShop /\ TypeActors

(* While processes answer within TIME_UNIT, the only answer in the server's
   mailbox is the one its handler waits for, and there is none when it is in
   its main loop, where handle_info would stop it. *)
NoStrayReply ==
    \A i \in DOMAIN mbox : mbox[i].op = "reply" =>
        /\ pc \notin {"idle", "down"} /\ Matches(mbox[i])
        /\ \A j \in DOMAIN mbox : mbox[j].op = "reply" => j = i

(* While processes answer within TIME_UNIT, no sequence of calls, expiring sessions
   and timers stops the server: no badmatch in get_order_data, no failing dict:update
   or dict:fetch, no stray message.  Only an item with an integer price does, when the
   items are listed.  (Of its second life nothing is said: what the first left behind
   may stop that.) *)
StaysUp ==
    [][(pc # "down" /\ pc' = "down" /\ inc = 1) =>
        \E n \in DOMAIN items : items[n].price = "integer"]_vars

(* The order list and the order ids in the user dictionary tell the same
   story: each order is listed by its user and by no one else, ids count down
   to 1, no two orders share a keeper and each has the timer that moves it. *)
OrderBookCoherent ==
    /\ order_count = Len(orders)
    /\ \A n \in DOMAIN orders :
        /\ orders[n].id = order_count + 1 - n
        /\ \A u \in DOMAIN users : orders[n].id \in users[u].orders <=> u = orders[n].user
        /\ orders[n].user \in DOMAIN users
        /\ \A k \in DOMAIN orders : orders[k].keeper = orders[n].keeper => k = n
        /\ \E t \in DOMAIN timers : timers[t].order = orders[n].id
    /\ \A u \in DOMAIN users : users[u].orders \subseteq 1 .. order_count

(* What get_order_state and get_my_orders tell is true when they tell it: the
   state the order's keeper has, of an order of the session's owner; exactly
   the owner's orders. *)
AnswerIsCurrent ==
    LET owner == sessions[answer.call.session].owner IN
    /\ (answer.call.op = "get_order_state" /\ answer.val \in States) =>
            \E n \in OrdersWithId(answer.call.order) :
                /\ orders[n].user = owner
                /\ keepers[orders[n].keeper].state = answer.val
    /\ (answer.call.op = "get_my_orders" /\ answer.val = "order_list") =>
            answer.ids = {orders[n].id : n \in {x \in DOMAIN orders : orders[x].user = owner}}

(* A call made with a session that had exited by then is answered
   no_such_session, if it is answered: test1 relies on it after its session
   timed out.  An old answer of that session never authenticates it. *)
DeadSessionRefused ==
    [][\A c \in Clients :
        (client[c].dead /\ client'[c] = NoClient /\ pc' # "down")
            => answer'.val = "no_such_session"]_vars

(* log_out_ok means the session is gone, however late the answers are. *)
LogOutIsFinal ==
    (answer.call.op = "log_out" /\ answer.val = "log_out_ok")
        => ~sessions[answer.call.session].alive

(* The keepers implement OrderTracking: whatever times out, no order skips a
   stage or goes back. *)
Tracking == INSTANCE OrderTracking
            WITH status <- [k \in DOMAIN keepers |-> keepers[k].state]
Tracked == Tracking!Spec

(* ... and every order is delivered in the end. *)
TrackedFairly == Tracking!FairSpec

(* Every gen_server:call returns (or exits, with the server). *)
CallsAnswered == \A c \in Clients : client[c] # NoClient ~> client[c] = NoClient
=============================================================================
