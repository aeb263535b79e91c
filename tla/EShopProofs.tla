---------------------------- MODULE EShopProofs ----------------------------
(* Theorems about EShop for any users, clients, bounds and starts. *)
EXTENDS EShop, CommonLemmas

-----------------------------------------------------------------------------
(* What the operators that send and receive do to the types. *)

LEMMA MessagesGrow ==
    ASSUME DOMAIN sessions \subseteq DOMAIN sessions'
    PROVE  /\ SessionCalls \subseteq SessionCalls'
           /\ Messages \subseteq Messages'
<1>1. SessionCalls \subseteq SessionCalls'
  BY DEF SessionCalls
<1>2. AccountCalls' = AccountCalls /\ Casts' = Casts /\ Replies' = Replies
  BY DEF AccountCalls, Casts, Replies
<1> QED
  BY <1>1, <1>2 DEF Messages, Calls

LEMMA AskSessionType ==
    ASSUME TypeActors, inc \in Nat, NEW i \in DOMAIN sessions,
           NEW r \in {"check_existence", "destroy_session"}, AskSession(i, r)
    PROVE  sessions' \in Seq(SessionActors) /\ DOMAIN sessions' = DOMAIN sessions
<1> DEFINE s == sessions[i]
           e == [s EXCEPT !.mbox = Append(s.mbox, [from |-> inc, req |-> r])]
<1>1. s \in SessionActors
  BY ElementType DEF TypeActors
<1>2. [from |-> inc, req |-> r] \in SessionRequests
  BY DEF SessionRequests
<1>3. Append(s.mbox, [from |-> inc, req |-> r]) \in Seq(SessionRequests)
  BY <1>1, <1>2, AppendType DEF SessionActors
<1>4. e \in SessionActors
  BY <1>1, <1>3 DEF SessionActors
<1>5. sessions' = IF s.alive THEN [sessions EXCEPT ![i] = e] ELSE sessions
  BY DEF AskSession, Deliver
<1> HIDE DEF s, e
<1> QED
  BY <1>4, <1>5, ReplaceType DEF TypeActors

LEMMA AskKeeperType ==
    ASSUME TypeActors, NEW k \in DOMAIN keepers, NEW r \in KeeperRequests,
           AskKeeper(k, r)
    PROVE  keepers' \in Seq(KeeperActors) /\ DOMAIN keepers' = DOMAIN keepers
<1> DEFINE s == keepers[k]
           e == [s EXCEPT !.mbox = Append(s.mbox, r)]
<1>1. s \in KeeperActors
  BY ElementType DEF TypeActors
<1>2. Append(s.mbox, r) \in Seq(KeeperRequests)
  BY <1>1, AppendType DEF KeeperActors
<1>3. e \in KeeperActors
  BY <1>1, <1>2 DEF KeeperActors
<1>4. keepers' = [keepers EXCEPT ![k] = e]
  BY DEF AskKeeper, Deliver
<1> HIDE DEF s, e
<1> QED
  BY <1>3, <1>4, ReplaceType DEF TypeActors

LEMMA ToServerType ==
    ASSUME TypeServer, NEW a, NEW m \in Messages
    PROVE  ToServer(a, m) \in Seq(Messages)
BY AppendType DEF TypeServer, ToServer, Deliver

LEMMA TakeType ==
    ASSUME TypeServer, NEW i \in DOMAIN mbox
    PROVE  /\ mbox[i] \in Messages
           /\ Take(i) => mbox' \in Seq(Messages)
           /\ FirstMatch(i) => mbox[i] \in Replies
<1>1. mbox[i] \in Messages
  BY ElementType DEF TypeServer
<1>2. Take(i) => mbox' \in Seq(Messages)
  BY RemoveAtProperties DEF TypeServer, Take
<1>3. FirstMatch(i) => mbox[i] \in Replies
  BY <1>1 DEF FirstMatch, Matches, Messages, Calls, AccountCalls, SessionCalls, Casts,
              Replies
<1> QED
  BY <1>1, <1>2, <1>3

LEMMA HeadType ==
    ASSUME TypeServer, mbox # << >>
    PROVE  /\ Head(mbox) \in Messages
           /\ Tail(mbox) \in Seq(Messages)
           /\ Head(mbox).op \in {"register", "log_in"} => Head(mbox) \in AccountCalls
           /\ Head(mbox).op \in SessionOps => Head(mbox) \in SessionCalls
           /\ Head(mbox).op = "change_order_state" => Head(mbox) \in Casts
<1>1. Head(mbox) \in Messages /\ Tail(mbox) \in Seq(Messages)
  BY HeadTailProperties DEF TypeServer
<1> QED
  BY <1>1 DEF Messages, Calls, AccountCalls, SessionCalls, SessionOps, Casts, Replies

LEMMA OrderKeeperType ==
    ASSUME TypeShop, NEW id, Cardinality(OrdersWithId(id)) = 1
    PROVE  /\ OrderKeeper(id) \in DOMAIN keepers
           /\ \E n \in DOMAIN orders : orders[n].id = id /\ orders[n].keeper = OrderKeeper(id)
<1>1. OrdersWithId(id) # {}
  BY FS_EmptySet
<1>2. (CHOOSE n \in OrdersWithId(id) : TRUE) \in OrdersWithId(id)
  BY <1>1
<1> QED
  BY <1>2 DEF OrdersWithId, OrderKeeper, TypeShop

(* A server that stops leaves nothing behind that could be ill-typed. *)
LEMMA TerminateType ==
    ASSUME TypeOK, Terminate, inc' = inc, UNCHANGED <<sessions, timers>>,
           keepers' \in Seq(KeeperActors)
    PROVE  TypeOK'
<1>1. TypeServer' /\ TypeHandler'
  BY EmptySeq DEF TypeOK, TypeServer, TypeHandler, Terminate
<1>2. TypeShop'
  <2>1. users' = << >> /\ items' = << >> /\ item_count' = 0
        /\ orders' = << >> /\ order_count' = 0
    BY DEF Terminate, NoShop
  <2>2. users' \in [{} -> UserData]
    BY <2>1
  <2>3. items' \in Seq(Items) /\ orders' \in Seq(Orders) /\ DOMAIN orders' = {}
    BY <2>1, EmptySeq
  <2> QED
    BY <2>1, <2>2, <2>3 DEF TypeShop, UserData, Items, Orders, States
<1>3. client' \in [Clients -> ClientStates]
  BY DEF Terminate, NoClient, ClientStates
<1>4. TypeActors'
  BY <1>3 DEF TypeOK, TypeActors, SessionActors, KeeperActors, TimerActors, ClientStates,
              SessionRequests, KeeperRequests, States, Stages, SessionOps
<1> QED
  BY <1>1, <1>2, <1>4 DEF TypeOK

-----------------------------------------------------------------------------
(* Each action keeps the types. *)

LEMMA TypeClients ==
    ASSUME TypeOK, NEW c \in Clients, CallAccount(c) \/ CallSession(c)
    PROVE  TypeOK'
<1>1. PICK m \in Calls, d \in BOOLEAN : Call(c, m, d)
  <2>1. CASE CallAccount(c)
    BY <2>1 DEF CallAccount, Calls
  <2>2. CASE CallSession(c)
    <3>1. PICK op \in SessionOps, i \in DOMAIN sessions :
             \E m \in SessionCall(op, c, i) : Call(c, m, ~sessions[i].alive)
      BY <2>2 DEF CallSession
    <3>2. SessionCall(op, c, i) \subseteq SessionCalls
      <4>1. 1 .. MaxOrders \subseteq Nat
        OBVIOUS
      <4> QED
        BY <4>1 DEF SessionCall, SessionCalls, SessionOps
    <3>3. (~sessions[i].alive) \in BOOLEAN
      OBVIOUS
    <3> QED
      BY <3>1, <3>2, <3>3 DEF Calls
  <2> QED
    BY <2>1, <2>2
<1>2. m.op \in {"register", "log_in"} \cup SessionOps
  BY <1>1 DEF Calls, AccountCalls, SessionCalls, SessionOps
<1>3. mbox' \in Seq(Messages)
  BY <1>1, AppendType DEF Call, Deliver, TypeOK, TypeServer, Messages
<1>4. client' \in [Clients -> ClientStates]
  BY <1>1, <1>2 DEF Call, TypeOK, TypeActors, ClientStates
<1>5. UNCHANGED <<pc, inc, job, peer, shop, sessions, keepers, timers, answer>>
  BY <1>1 DEF Call
<1>6. SessionCalls' = SessionCalls /\ Messages' = Messages
  BY <1>5 DEF SessionCalls, AccountCalls, Messages, Calls, Casts, Replies
<1>7. TypeServer' /\ TypeHandler'
  BY <1>3, <1>5, <1>6 DEF TypeOK, TypeServer, TypeHandler
<1>8. TypeShop' /\ TypeActors'
  BY <1>4, <1>5 DEF TypeOK, TypeShop, TypeActors, shop
<1> QED
  BY <1>7, <1>8 DEF TypeOK

LEMMA TypeStartLink == TypeOK /\ StartLink => TypeOK'
<1> SUFFICES ASSUME TypeOK, StartLink
             PROVE  TypeOK'
  OBVIOUS
<1>1. inc' \in 1 .. MaxStarts
  BY BoundsAssumption DEF StartLink, TypeOK, TypeServer
<1>2. SessionCalls' = SessionCalls /\ Messages' = Messages
  BY DEF StartLink, SessionCalls, AccountCalls, Messages, Calls, Casts, Replies
<1> QED
  BY <1>1, <1>2 DEF StartLink, TypeOK, TypeServer, TypeHandler, TypeShop, TypeActors, shop

LEMMA TypeHandleRegister == TypeOK /\ HandleRegister => TypeOK'
<1> SUFFICES ASSUME TypeOK, HandleRegister
             PROVE  TypeOK'
  OBVIOUS
<1>1. PICK m \in AccountCalls :
        /\ mbox # << >> /\ mbox' = Tail(mbox)
        /\ users' = users \/ users' = NewUser(m.user, m.password)
        /\ client' = [client EXCEPT ![m.client] = NoClient]
        /\ UNCHANGED <<pc, inc, job, peer, items, item_count, orders, order_count,
                       sessions, keepers, timers>>
  BY DEF HandleRegister, Handle, Say
<1>2. PICK S \in SUBSET Users : users \in [S -> UserData]
  BY DEF TypeOK, TypeShop
<1>3. \E T \in SUBSET Users : users' \in [T -> UserData]
  <2>1. CASE users' = users
    BY <1>2, <2>1
  <2>2. CASE users' = NewUser(m.user, m.password)
    <3>1. m.user \in Users /\ [password |-> m.password, orders |-> {}] \in UserData
      BY DEF AccountCalls, UserData
    <3>2. NewUser(m.user, m.password) \in [S \cup {m.user} -> UserData]
      BY <1>2, <3>1 DEF NewUser
    <3>3. S \cup {m.user} \in SUBSET Users
      BY <3>1
    <3> QED
      BY <2>2, <3>2, <3>3
  <2> QED
    BY <1>1, <2>1, <2>2
<1>4. mbox' \in Seq(Messages)
  BY <1>1, HeadType DEF TypeOK
<1>5. SessionCalls' = SessionCalls /\ Messages' = Messages
  BY <1>1 DEF SessionCalls, AccountCalls, Messages, Calls, Casts, Replies
<1>6. TypeServer' /\ TypeHandler'
  BY <1>1, <1>4, <1>5 DEF TypeOK, TypeServer, TypeHandler
<1>7. TypeShop' /\ TypeActors'
  BY <1>1, <1>3 DEF TypeOK, TypeShop, TypeActors, NoClient, ClientStates
<1> QED
  BY <1>6, <1>7 DEF TypeOK

LEMMA TypeHandleLogIn == TypeOK /\ HandleLogIn => TypeOK'
<1> SUFFICES ASSUME TypeOK, HandleLogIn
             PROVE  TypeOK'
  OBVIOUS
<1>1. PICK m \in AccountCalls :
        /\ mbox # << >> /\ mbox' = Tail(mbox)
        /\ \/ sessions' = sessions
           \/ sessions' = Append(sessions,
                            [owner |-> m.user, alive |-> TRUE, mbox |-> << >>])
        /\ client' = [client EXCEPT ![m.client] = NoClient]
        /\ UNCHANGED <<pc, inc, job, peer, shop, keepers, timers>>
  BY DEF HandleLogIn, Handle, Say
<1>2. [owner |-> m.user, alive |-> TRUE, mbox |-> << >>] \in SessionActors
  BY EmptySeq DEF AccountCalls, SessionActors
<1>3. sessions' \in Seq(SessionActors) /\ DOMAIN sessions \subseteq DOMAIN sessions'
  <2> DEFINE e == [owner |-> m.user, alive |-> TRUE, mbox |-> << >>]
  <2> HIDE DEF e
  <2>1. CASE sessions' = sessions
    BY <2>1 DEF TypeOK, TypeActors
  <2>2. CASE sessions' = Append(sessions, e)
    BY <1>2, <2>2, AppendType DEF TypeOK, TypeActors, e
  <2> QED
    BY <1>1, <2>1, <2>2 DEF e
<1>4. SessionCalls \subseteq SessionCalls' /\ Messages \subseteq Messages'
  BY <1>3, MessagesGrow
<1>5. mbox' \in Seq(Messages')
  BY <1>1, <1>4, HeadType, SeqMonotone DEF TypeOK
<1>6. TypeServer' /\ TypeHandler'
  BY <1>1, <1>4, <1>5 DEF TypeOK, TypeServer, TypeHandler
<1>7. TypeShop' /\ TypeActors'
  BY <1>1, <1>3 DEF TypeOK, TypeShop, TypeActors, shop, NoClient, ClientStates
<1> QED
  BY <1>6, <1>7 DEF TypeOK

LEMMA TypeCheckAuth == TypeOK /\ CheckAuth => TypeOK'
<1> SUFFICES ASSUME TypeOK, CheckAuth
             PROVE  TypeOK'
  OBVIOUS
<1>1. job' \in SessionCalls /\ mbox' \in Seq(Messages)
  BY HeadType DEF TypeOK, CheckAuth
<1>2. inc \in Nat /\ job'.session \in DOMAIN sessions
  BY <1>1 DEF TypeOK, TypeServer, SessionCalls
<1>3. sessions' \in Seq(SessionActors) /\ DOMAIN sessions' = DOMAIN sessions
  BY <1>2, AskSessionType DEF TypeOK, CheckAuth
<1>4. SessionCalls' = SessionCalls /\ Messages' = Messages
  BY <1>3 DEF SessionCalls, AccountCalls, Messages, Calls, Casts, Replies
<1>5. TypeServer' /\ TypeHandler'
  BY <1>1, <1>4 DEF TypeOK, TypeServer, TypeHandler, CheckAuth
<1>6. TypeShop' /\ TypeActors'
  BY <1>3 DEF TypeOK, TypeShop, TypeActors, CheckAuth, shop
<1> QED
  BY <1>5, <1>6 DEF TypeOK

LEMMA TypeHandleCast == TypeOK /\ HandleCast => TypeOK'
<1> SUFFICES ASSUME TypeOK, HandleCast
             PROVE  TypeOK'
  OBVIOUS
<1> DEFINE m == Head(mbox)
           r == [from |-> inc, req |-> "change_order_state", state |-> m.state]
<1>1. m \in Casts /\ Tail(mbox) \in Seq(Messages)
  BY HeadType DEF TypeOK, HandleCast
<1>2. CASE Cardinality(OrdersWithId(m.order)) = 1
  <2>1. /\ job' = m /\ mbox' = Tail(mbox)
        /\ pc' = "change" /\ peer' = Keeper(OrderKeeper(m.order))
        /\ AskKeeper(OrderKeeper(m.order), r)
        /\ UNCHANGED <<inc, shop, sessions, timers, client>>
    BY <1>2 DEF HandleCast
  <2>2. OrderKeeper(m.order) \in DOMAIN keepers
    BY <1>2, OrderKeeperType DEF TypeOK
  <2>3. r \in KeeperRequests
    BY <1>1 DEF TypeOK, TypeServer, KeeperRequests, Casts
  <2>4. keepers' \in Seq(KeeperActors) /\ DOMAIN keepers' = DOMAIN keepers
    BY <2>1, <2>2, <2>3, AskKeeperType DEF TypeOK
  <2>5. Messages' = Messages /\ Casts' = Casts
    BY <2>1 DEF SessionCalls, AccountCalls, Messages, Calls, Casts, Replies
  <2>6. TypeServer' /\ TypeHandler'
    BY <1>1, <2>1, <2>2, <2>4, <2>5 DEF TypeOK, TypeServer, TypeHandler
  <2>7. TypeShop' /\ TypeActors'
    BY <2>1, <2>4 DEF TypeOK, TypeShop, TypeActors, shop
  <2> QED
    BY <2>6, <2>7 DEF TypeOK
<1>3. CASE Cardinality(OrdersWithId(m.order)) # 1
  BY <1>3, TerminateType DEF HandleCast, TypeOK, TypeActors
<1> QED
  BY <1>2, <1>3

LEMMA TypeHandleInfo == TypeOK /\ HandleInfo => TypeOK'
BY TerminateType DEF HandleInfo, TypeOK, TypeActors

LEMMA TypeLogOut == TypeOK /\ LogOut => TypeOK'
<1> SUFFICES ASSUME TypeOK, LogOut
             PROVE  TypeOK'
  OBVIOUS
<1>1. PICK i \in DOMAIN mbox :
        /\ pc = "auth" /\ job.op = "log_out" /\ Take(i)
        /\ AskSession(job.session, "destroy_session")
        /\ pc' = "log_out"
        /\ UNCHANGED <<inc, job, peer, shop, keepers, timers, client, answer>>
  BY DEF LogOut, Authenticated
<1>2. inc \in Nat /\ job.session \in DOMAIN sessions
  BY <1>1 DEF TypeOK, TypeServer, TypeHandler, SessionCalls
<1>3. sessions' \in Seq(SessionActors) /\ DOMAIN sessions' = DOMAIN sessions
  BY <1>1, <1>2, AskSessionType DEF TypeOK
<1>4. SessionCalls' = SessionCalls /\ Messages' = Messages
  BY <1>3 DEF SessionCalls, AccountCalls, Messages, Calls, Casts, Replies
<1>5. mbox' \in Seq(Messages)
  BY <1>1, TakeType DEF TypeOK
<1>6. TypeServer' /\ TypeHandler'
  BY <1>1, <1>4, <1>5 DEF TypeOK, TypeServer, TypeHandler
<1>7. TypeShop' /\ TypeActors'
  BY <1>1, <1>3 DEF TypeOK, TypeShop, TypeActors, shop
<1> QED
  BY <1>6, <1>7 DEF TypeOK

(* A handler that replies: the main loop goes on with the mailbox it left. *)
LEMMA TypeReply ==
    ASSUME TypeOK, NEW v, NEW ids, Reply(v, ids), inc' = inc, sessions' = sessions,
           mbox' \in Seq(Messages)
    PROVE  TypeServer' /\ TypeHandler' /\ client' \in [Clients -> ClientStates]
<1>1. SessionCalls' = SessionCalls /\ Messages' = Messages
  BY DEF SessionCalls, AccountCalls, Messages, Calls, Casts, Replies
<1>2. TypeServer' /\ TypeHandler'
  BY <1>1 DEF TypeOK, TypeServer, TypeHandler, Reply, Back
<1>3. client' \in [Clients -> ClientStates]
  BY DEF TypeOK, TypeActors, Reply, Say, NoClient, ClientStates
<1> QED
  BY <1>2, <1>3

(* The handlers that only reply. *)
LEMMA TypeReplyOnly ==
    ASSUME TypeOK, NEW v, NEW ids, Reply(v, ids), mbox' \in Seq(Messages),
           UNCHANGED <<inc, shop, sessions, keepers, timers>>
    PROVE  TypeOK'
<1>1. TypeServer' /\ TypeHandler' /\ client' \in [Clients -> ClientStates]
  BY TypeReply
<1>2. TypeShop' /\ TypeActors'
  BY <1>1 DEF TypeOK, TypeShop, TypeActors, shop
<1> QED
  BY <1>1, <1>2 DEF TypeOK

LEMMA TypeQueries ==
    TypeOK /\ (GetAllItems \/ GetMyOrders \/ LogOutOk \/ OrderStateFetched \/ CallTimesOut)
        => TypeOK'
<1> SUFFICES ASSUME TypeOK
             PROVE  /\ GetAllItems => TypeOK'
                    /\ GetMyOrders => TypeOK'
                    /\ LogOutOk => TypeOK'
                    /\ OrderStateFetched => TypeOK'
                    /\ CallTimesOut => TypeOK'
  OBVIOUS
<1>1. ASSUME GetAllItems PROVE TypeOK'
  <2>1. CASE \E i \in DOMAIN mbox :
               /\ Take(i) /\ Reply("item_list", {})
               /\ UNCHANGED <<inc, shop, sessions, keepers, timers>>
    BY <2>1, TakeType, TypeReplyOnly DEF TypeOK
  <2>2. CASE Terminate /\ UNCHANGED <<inc, sessions, keepers, timers>>
    BY <2>2, TerminateType DEF TypeOK, TypeActors
  <2> QED
    BY <1>1, <2>1, <2>2 DEF GetAllItems
<1>2. ASSUME GetMyOrders PROVE TypeOK'
  <2>1. CASE \E i \in DOMAIN mbox :
               /\ Take(i) /\ Reply("order_list", OrdersOf(mbox[i].val))
               /\ UNCHANGED <<inc, shop, sessions, keepers, timers>>
    BY <2>1, TakeType, TypeReplyOnly DEF TypeOK
  <2>2. CASE Terminate /\ UNCHANGED <<inc, sessions, keepers, timers>>
    BY <2>2, TerminateType DEF TypeOK, TypeActors
  <2> QED
    BY <1>2, <2>1, <2>2 DEF GetMyOrders
<1>3. ASSUME LogOutOk PROVE TypeOK'
  BY <1>3, TakeType, TypeReplyOnly DEF LogOutOk, TypeOK
<1>4. ASSUME OrderStateFetched PROVE TypeOK'
  BY <1>4, TakeType, TypeReplyOnly DEF OrderStateFetched, TypeOK
<1>5. ASSUME CallTimesOut PROVE TypeOK'
  <2>1. mbox' \in Seq(Messages)
    BY <1>5 DEF CallTimesOut, TypeOK, TypeServer
  <2> QED
    BY <1>5, <2>1, TypeReplyOnly DEF CallTimesOut
<1> QED
  BY <1>1, <1>2, <1>3, <1>4, <1>5

LEMMA TypeAddNewItem == TypeOK /\ AddNewItem => TypeOK'
<1> SUFFICES ASSUME TypeOK, AddNewItem
             PROVE  TypeOK'
  OBVIOUS
<1>1. PICK i \in DOMAIN mbox :
        /\ pc = "auth" /\ job.op = "add_new_item" /\ Take(i)
        /\ items' = <<[id |-> item_count + 1, added_by |-> mbox[i].val,
                       price |-> job.price]>> \o items
        /\ item_count' = item_count + 1
        /\ Reply("item_added", {})
        /\ UNCHANGED <<inc, users, orders, order_count, sessions, keepers, timers>>
  BY DEF AddNewItem, Authenticated
<1> DEFINE e == [id |-> item_count + 1, added_by |-> mbox[i].val, price |-> job.price]
<1>2. mbox[i].val \in Users \cup States \cup {"ok"}
  BY <1>1, TakeType DEF TypeOK, Take, Replies
<1>3. job.price \in Prices
  BY <1>1 DEF TypeOK, TypeHandler, SessionCalls
<1>4. e \in Items
  BY <1>2, <1>3 DEF TypeOK, TypeShop, Items
<1>5. items' = <<e>> \o items
  BY <1>1
<1> HIDE DEF e
<1>6. items' \in Seq(Items)
  BY <1>4, <1>5, ConsType DEF TypeOK, TypeShop
<1>7. mbox' \in Seq(Messages)
  BY <1>1, TakeType DEF TypeOK
<1>8. TypeServer' /\ TypeHandler' /\ client' \in [Clients -> ClientStates]
  BY <1>1, <1>7, TypeReply
<1>9. TypeShop' /\ TypeActors'
  BY <1>1, <1>6, <1>8 DEF TypeOK, TypeShop, TypeActors
<1> QED
  BY <1>8, <1>9 DEF TypeOK

LEMMA TypeMakeOrder == TypeOK /\ MakeOrder => TypeOK'
<1> SUFFICES ASSUME TypeOK, MakeOrder
             PROVE  TypeOK'
  OBVIOUS
<1> DEFINE keeper == [state |-> "placed", mbox |-> << >>]
           id == order_count + 1
<1>1. keepers' = Append(keepers, keeper)
  BY DEF MakeOrder
<1>2. keeper \in KeeperActors
  BY EmptySeq DEF KeeperActors, States
<1> HIDE DEF keeper
<1>3. /\ keepers' \in Seq(KeeperActors) /\ DOMAIN keepers \subseteq DOMAIN keepers'
      /\ Len(keepers) + 1 \in DOMAIN keepers'
  BY <1>1, <1>2, AppendType DEF TypeOK, TypeActors
<1>4. CASE Terminate /\ UNCHANGED <<inc, sessions, timers>>
  BY <1>3, <1>4, TerminateType
<1>5. ASSUME NEW i \in DOMAIN mbox, NEW user \in DOMAIN users,
             Take(i),
             users' = [users EXCEPT ![user].orders = @ \cup {id}],
             orders' = <<NewOrder(id, user)>> \o orders,
             order_count' = id,
             timers' = Append(timers, NewTimer(id)),
             Reply("order_placed", {id}),
             UNCHANGED <<inc, items, item_count, sessions>>
      PROVE  TypeOK'
  <2>1. id \in Nat \ {0} /\ order_count' \in Nat
    BY <1>5 DEF TypeOK, TypeShop
  <2>2. PICK S \in SUBSET Users : users \in [S -> UserData]
    BY DEF TypeOK, TypeShop
  <2>3. user \in Users /\ users' \in [S -> UserData]
    BY <1>5, <2>1, <2>2 DEF UserData
  <2>4. Len(keepers) + 1 \in Nat \ {0}
    BY LenProperties DEF TypeOK, TypeActors
  <2>5. NewOrder(id, user) \in Orders
    BY <2>1, <2>3, <2>4 DEF NewOrder, Orders
  <2>6. /\ orders' \in Seq(Orders)
        /\ \A n \in DOMAIN orders' :
             orders'[n] = NewOrder(id, user) \/ \E k \in DOMAIN orders : orders'[n] = orders[k]
    BY <1>5, <2>5, ConsType DEF TypeOK, TypeShop
  <2>7. \A n \in DOMAIN orders' : orders'[n].keeper \in DOMAIN keepers'
    BY <1>3, <2>6 DEF NewOrder, TypeOK, TypeShop
  <2>8. NewTimer(id) \in TimerActors
    BY <2>1 DEF NewTimer, TimerActors, Stages
  <2>9. timers' \in Seq(TimerActors)
    BY <1>5, <2>8, AppendType DEF TypeOK, TypeActors
  <2>10. mbox' \in Seq(Messages)
    BY <1>5, TakeType DEF TypeOK
  <2>11. TypeServer' /\ TypeHandler' /\ client' \in [Clients -> ClientStates]
    BY <1>5, <2>10, TypeReply
  <2>12. TypeShop'
    BY <1>5, <2>1, <2>3, <2>6, <2>7 DEF TypeOK, TypeShop
  <2>13. TypeActors'
    BY <1>3, <1>5, <2>9, <2>11 DEF TypeOK, TypeActors, TimerActors, Stages
  <2> QED
    BY <2>11, <2>12, <2>13 DEF TypeOK
<1> HIDE DEF id
<1> QED
  BY <1>4, <1>5 DEF MakeOrder, id

LEMMA TypeGetOrderState == TypeOK /\ GetOrderState => TypeOK'
<1> SUFFICES ASSUME TypeOK, GetOrderState
             PROVE  TypeOK'
  OBVIOUS
<1>1. CASE \E i \in DOMAIN mbox :
             /\ Take(i) /\ Reply("no_such_order", {})
             /\ UNCHANGED <<inc, shop, sessions, keepers, timers>>
  BY <1>1, TakeType, TypeReplyOnly DEF TypeOK
<1>2. CASE Terminate /\ UNCHANGED <<inc, sessions, keepers, timers>>
  BY <1>2, TerminateType DEF TypeOK, TypeActors
<1> DEFINE r == [from |-> inc, req |-> "get_order_state"]
<1>3. ASSUME NEW i \in DOMAIN mbox,
             pc = "auth", job.op = "get_order_state", Take(i),
             Cardinality(OrdersWithId(job.order)) = 1,
             pc' = "fetch", peer' = Keeper(OrderKeeper(job.order)),
             AskKeeper(OrderKeeper(job.order), r),
             UNCHANGED <<inc, job, shop, sessions, timers, client, answer>>
      PROVE  TypeOK'
  <2>1. OrderKeeper(job.order) \in DOMAIN keepers
    BY <1>3, OrderKeeperType DEF TypeOK
  <2>2. r \in KeeperRequests
    BY DEF TypeOK, TypeServer, KeeperRequests
  <2>3. keepers' \in Seq(KeeperActors) /\ DOMAIN keepers' = DOMAIN keepers
    BY <1>3, <2>1, <2>2, AskKeeperType DEF TypeOK
  <2>4. Messages' = Messages /\ SessionCalls' = SessionCalls
    BY <1>3 DEF SessionCalls, AccountCalls, Messages, Calls, Casts, Replies
  <2>5. mbox' \in Seq(Messages)
    BY <1>3, TakeType DEF TypeOK
  <2>6. TypeServer' /\ TypeHandler'
    BY <1>3, <2>1, <2>3, <2>4, <2>5 DEF TypeOK, TypeServer, TypeHandler
  <2>7. TypeShop' /\ TypeActors'
    BY <1>3, <2>3 DEF TypeOK, TypeShop, TypeActors, shop
  <2> QED
    BY <2>6, <2>7 DEF TypeOK
<1> HIDE DEF r
<1> QED
  BY <1>1, <1>2, <1>3 DEF GetOrderState, Authenticated, r

LEMMA TypeChange == TypeOK /\ (OrderStateChanged \/ ChangeTimesOut) => TypeOK'
<1> SUFFICES ASSUME TypeOK, OrderStateChanged \/ ChangeTimesOut
             PROVE  TypeOK'
  OBVIOUS
<1>1. /\ Back /\ UNCHANGED <<inc, shop, sessions, keepers, timers, client, answer>>
      /\ mbox' \in Seq(Messages)
  BY TakeType DEF OrderStateChanged, ChangeTimesOut, TypeOK, TypeServer
<1>2. Messages' = Messages
  BY <1>1 DEF SessionCalls, AccountCalls, Messages, Calls, Casts, Replies
<1>3. TypeServer' /\ TypeHandler'
  BY <1>1, <1>2 DEF TypeOK, TypeServer, TypeHandler, Back
<1>4. TypeShop' /\ TypeActors'
  BY <1>1 DEF TypeOK, TypeShop, TypeActors, shop
<1> QED
  BY <1>3, <1>4 DEF TypeOK

(* A step of another process that only adds an answer or a cast to the mailbox. *)
LEMMA TypeActorStep ==
    ASSUME TypeOK, mbox' \in Seq(Messages), TypeActors',
           DOMAIN sessions' = DOMAIN sessions, DOMAIN keepers' = DOMAIN keepers,
           UNCHANGED <<pc, inc, job, peer, shop>>
    PROVE  TypeOK'
<1>1. Messages' = Messages /\ SessionCalls' = SessionCalls
  BY DEF SessionCalls, AccountCalls, Messages, Calls, Casts, Replies
<1>2. TypeServer' /\ TypeHandler'
  BY <1>1 DEF TypeOK, TypeServer, TypeHandler
<1>3. TypeShop'
  BY DEF TypeOK, TypeShop, shop
<1> QED
  BY <1>2, <1>3 DEF TypeOK

LEMMA TypeSession ==
    ASSUME TypeOK, NEW i \in DOMAIN sessions, SessionReceive(i) \/ SessionExpire(i)
    PROVE  TypeOK'
<1> DEFINE s == sessions[i]
<1>1. s \in SessionActors /\ i \in Nat
  BY ElementType, LenProperties DEF TypeOK, TypeActors
<1>2. CASE SessionReceive(i)
  <2> DEFINE m == Head(s.mbox)
             reply == [op |-> "reply", from |-> Session(i), val |-> SessionAnswer(i, m.req)]
  <2>1. m \in SessionRequests /\ Tail(s.mbox) \in Seq(SessionRequests)
    BY <1>1, <1>2, HeadTailProperties DEF SessionReceive, SessionActors
  <2>2. reply \in Messages
    BY <1>1 DEF Messages, Replies, Session, Pids, SessionAnswer, SessionActors
  <2>3. mbox' \in Seq(Messages)
    BY <1>2, <2>2, ToServerType DEF SessionReceive, TypeOK
  <2>4. PICK e \in SessionActors : sessions' = [sessions EXCEPT ![i] = e]
    <3>1. /\ [s EXCEPT !.mbox = Tail(s.mbox)] \in SessionActors
          /\ [s EXCEPT !.mbox = << >>, !.alive = FALSE] \in SessionActors
      BY <1>1, <2>1, EmptySeq DEF SessionActors
    <3>2. \/ sessions' = [sessions EXCEPT ![i] = [s EXCEPT !.mbox = Tail(s.mbox)]]
          \/ sessions' = [sessions EXCEPT ![i] = [s EXCEPT !.mbox = << >>, !.alive = FALSE]]
      BY <1>2 DEF SessionReceive
    <3> HIDE DEF s
    <3> QED
      BY <3>1, <3>2
  <2>5. sessions' \in Seq(SessionActors) /\ DOMAIN sessions' = DOMAIN sessions
    BY <2>4, ReplaceType DEF TypeOK, TypeActors
  <2> QED
    BY <1>2, <2>3, <2>5, TypeActorStep DEF SessionReceive, TypeOK, TypeActors
<1>3. CASE SessionExpire(i)
  <2>1. [s EXCEPT !.alive = FALSE] \in SessionActors
    BY <1>1 DEF SessionActors
  <2>2. sessions' = [sessions EXCEPT ![i] = [s EXCEPT !.alive = FALSE]]
    BY <1>3 DEF SessionExpire
  <2>3. sessions' \in Seq(SessionActors) /\ DOMAIN sessions' = DOMAIN sessions
    BY <2>1, <2>2, ReplaceType DEF TypeOK, TypeActors
  <2> QED
    BY <1>3, <2>3, TypeActorStep DEF SessionExpire, server, TypeOK, TypeServer, TypeActors
<1> QED
  BY <1>2, <1>3

LEMMA TypeKeeper ==
    ASSUME TypeOK, NEW k \in DOMAIN keepers, KeeperReceive(k)
    PROVE  TypeOK'
<1> DEFINE s == keepers[k]
           m == Head(s.mbox)
<1>1. s \in KeeperActors /\ k \in Nat
  BY ElementType, LenProperties DEF TypeOK, TypeActors
<1>2. m \in KeeperRequests /\ Tail(s.mbox) \in Seq(KeeperRequests)
  BY <1>1, HeadTailProperties DEF KeeperReceive, KeeperActors
<1>3. mbox' \in Seq(Messages)
  <2>1. /\ [op |-> "reply", from |-> Keeper(k), val |-> s.state] \in Messages
        /\ [op |-> "reply", from |-> Keeper(k), val |-> "ok"] \in Messages
    BY <1>1 DEF Messages, Replies, Keeper, Pids, KeeperActors
  <2> QED
    BY <2>1, ToServerType DEF KeeperReceive, TypeOK
<1>4. PICK e \in KeeperActors : keepers' = [keepers EXCEPT ![k] = e]
  <2>1. CASE m.req = "get_order_state"
    <3>1. [s EXCEPT !.mbox = Tail(s.mbox)] \in KeeperActors
      BY <1>1, <1>2 DEF KeeperActors
    <3>2. keepers' = [keepers EXCEPT ![k] = [s EXCEPT !.mbox = Tail(s.mbox)]]
      BY <2>1 DEF KeeperReceive
    <3> HIDE DEF s
    <3> QED
      BY <3>1, <3>2
  <2>2. CASE m.req = "change_order_state"
    <3>1. m.state \in States
      BY <1>2, <2>2 DEF KeeperRequests, Range, Stages, States
    <3>2. [state |-> m.state, mbox |-> Tail(s.mbox)] \in KeeperActors
      BY <1>2, <3>1 DEF KeeperActors
    <3>3. keepers' = [keepers EXCEPT ![k] = [state |-> m.state, mbox |-> Tail(s.mbox)]]
      BY <2>2 DEF KeeperReceive
    <3> HIDE DEF s, m
    <3> QED
      BY <3>2, <3>3
  <2> QED
    BY <2>1, <2>2 DEF KeeperReceive
<1>5. keepers' \in Seq(KeeperActors) /\ DOMAIN keepers' = DOMAIN keepers
  BY <1>4, ReplaceType DEF TypeOK, TypeActors
<1> QED
  BY <1>3, <1>5, TypeActorStep DEF KeeperReceive, TypeOK, TypeActors

LEMMA TypeTimer ==
    ASSUME TypeOK, NEW t \in DOMAIN timers, TimerFire(t)
    PROVE  TypeOK'
<1> DEFINE s == timers[t]
<1>1. s \in TimerActors /\ s.sent + 1 \in 1 .. 3
  <2>1. s \in TimerActors
    BY ElementType DEF TypeOK, TypeActors
  <2> QED
    BY <2>1 DEF TimerFire, Running, TimerActors, Stages
<1>2. Stages[s.sent + 1] \in Range(Stages)
  BY <1>1 DEF Range, Stages
<1>3. [op |-> "change_order_state", order |-> s.order, state |-> Stages[s.sent + 1]]
        \in Messages
  BY <1>1, <1>2 DEF Messages, Casts, TimerActors
<1>4. mbox' \in Seq(Messages)
  BY <1>3, ToServerType DEF TimerFire, TypeOK
<1>5. [s EXCEPT !.sent = s.sent + 1] \in TimerActors
  BY <1>1 DEF TimerActors, Stages
<1>6. timers' = [timers EXCEPT ![t] = [s EXCEPT !.sent = s.sent + 1]]
  BY DEF TimerFire
<1>7. timers' \in Seq(TimerActors)
  BY <1>5, <1>6, ReplaceType DEF TypeOK, TypeActors
<1> QED
  BY <1>4, <1>7, TypeActorStep DEF TimerFire, TypeOK, TypeActors, TimerActors, Stages

-----------------------------------------------------------------------------
LEMMA TypeInit == Init => TypeOK
<1> SUFFICES ASSUME Init
             PROVE  TypeOK
  OBVIOUS
<1>1. TypeServer /\ TypeHandler
  BY EmptySeq, BoundsAssumption DEF Init, TypeServer, TypeHandler
<1>2. TypeShop
  <2>1. users \in [{} -> UserData] /\ DOMAIN orders = {}
    BY DEF Init
  <2> QED
    BY <2>1, EmptySeq DEF Init, TypeShop
<1>3. TypeActors
  BY EmptySeq DEF Init, TypeActors, NoClient, ClientStates
<1> QED
  BY <1>1, <1>2, <1>3 DEF TypeOK

LEMMA TypeNext == TypeOK /\ [Next]_vars => TypeOK'
<1> SUFFICES ASSUME TypeOK, [Next]_vars
             PROVE  TypeOK'
  OBVIOUS
<1>1. CASE StartLink
  BY <1>1, TypeStartLink
<1>2. CASE ServerStep
  BY <1>2, TypeHandleRegister, TypeHandleLogIn, TypeCheckAuth, TypeHandleCast,
     TypeHandleInfo, TypeLogOut, TypeQueries, TypeAddNewItem, TypeMakeOrder,
     TypeGetOrderState, TypeChange DEF ServerStep
<1>3. CASE \E c \in Clients : CallAccount(c) \/ CallSession(c)
  BY <1>3, TypeClients
<1>4. CASE \E i \in DOMAIN sessions : SessionReceive(i) \/ SessionExpire(i)
  BY <1>4, TypeSession
<1>5. CASE \E k \in DOMAIN keepers : KeeperReceive(k)
  BY <1>5, TypeKeeper
<1>6. CASE \E t \in DOMAIN timers : TimerFire(t)
  BY <1>6, TypeTimer
<1>7. CASE UNCHANGED vars
  <2>1. Messages' = Messages /\ SessionCalls' = SessionCalls
    BY <1>7 DEF SessionCalls, AccountCalls, Messages, Calls, Casts, Replies, vars
  <2> QED
    BY <1>7, <2>1 DEF TypeOK, TypeServer, TypeHandler, TypeShop, TypeActors, vars, server, shop
<1> QED
  BY <1>1, <1>2, <1>3, <1>4, <1>5, <1>6, <1>7 DEF Next

(* Whatever the users, the bounds, the number of starts and the answers that
   are late, every variable keeps its type: each receive of the server waits
   for a session or an order's keeper that exists, and never with a message of
   another kind in hand. *)
THEOREM TypeCorrect == Spec => []TypeOK
<1>1. Init => TypeOK
  BY TypeInit
<1>2. TypeOK /\ [Next]_vars => TypeOK'
  BY TypeNext
<1> QED
  BY <1>1, <1>2, PTL DEF Spec

-----------------------------------------------------------------------------
(* A confirmed log-out is final. *)

Listed(m, box) == \E j \in DOMAIN box : m = box[j]

LEMMA TailListed ==
    ASSUME NEW S, NEW s \in Seq(S), s # << >>, NEW j \in DOMAIN Tail(s)
    PROVE  Listed(Tail(s)[j], s)
<1>1. Len(s) \in Nat /\ DOMAIN s = 1 .. Len(s)
  BY LenProperties
<1>2. Tail(s) \in Seq(S) /\ Len(Tail(s)) = Len(s) - 1
  BY HeadTailProperties
<1>3. j \in 1 .. Len(Tail(s))
  BY <1>2, LenProperties
<1>4. Tail(s)[j] = s[j + 1]
  BY <1>3, HeadTailProperties
<1> QED
  BY <1>1, <1>2, <1>3, <1>4 DEF Listed

LEMMA AppendListed ==
    ASSUME NEW S, NEW s \in Seq(S), NEW e \in S, NEW j \in DOMAIN Append(s, e)
    PROVE  Append(s, e)[j] = e \/ Listed(Append(s, e)[j], s)
<1>1. Len(s) \in Nat /\ DOMAIN s = 1 .. Len(s)
  BY LenProperties
<1>2. /\ Append(s, e) \in Seq(S) /\ Len(Append(s, e)) = Len(s) + 1
      /\ \A i \in 1 .. Len(s) : Append(s, e)[i] = s[i]
      /\ Append(s, e)[Len(s) + 1] = e
  BY AppendProperties
<1>3. j \in 1 .. Len(s) + 1
  BY <1>2, LenProperties
<1> QED
  BY <1>1, <1>2, <1>3 DEF Listed

LEMMA RemoveAtListed ==
    ASSUME NEW S, NEW s \in Seq(S), NEW i \in DOMAIN s, NEW j \in DOMAIN RemoveAt(s, i)
    PROVE  Listed(RemoveAt(s, i)[j], s)
<1>1. Len(s) \in Nat /\ DOMAIN s = 1 .. Len(s)
  BY LenProperties
<1>2. /\ RemoveAt(s, i) \in Seq(S) /\ Len(RemoveAt(s, i)) = Len(s) - 1
      /\ RemoveAt(s, i)[j] = IF j < i THEN s[j] ELSE s[j + 1]
  BY RemoveAtProperties
<1>3. j \in 1 .. Len(s) - 1
  BY <1>2, LenProperties
<1> QED
  BY <1>1, <1>2, <1>3 DEF Listed

(* The mailbox of the server after a step of its own holds what it held. *)
LEMMA ServerStepMail ==
    ASSUME TypeOK, ServerStep, NEW j \in DOMAIN mbox'
    PROVE  Listed(mbox'[j], mbox)
<1>1. mbox \in Seq(Messages)
  BY DEF TypeOK, TypeServer
<1>2. CASE mbox' = mbox
  BY <1>2 DEF Listed
<1>3. CASE mbox' = << >>
  BY <1>3
<1>4. CASE mbox # << >> /\ mbox' = Tail(mbox)
  BY <1>1, <1>4, TailListed
<1>5. CASE \E i \in DOMAIN mbox : mbox' = RemoveAt(mbox, i)
  BY <1>1, <1>5, RemoveAtListed
<1>6. \/ mbox' = mbox \/ mbox' = << >> \/ (mbox # << >> /\ mbox' = Tail(mbox))
      \/ \E i \in DOMAIN mbox : mbox' = RemoveAt(mbox, i)
  <2>1. CASE HandleRegister \/ HandleLogIn \/ CheckAuth \/ HandleCast \/ HandleInfo
    BY <2>1 DEF HandleRegister, HandleLogIn, CheckAuth, HandleCast, HandleInfo, Handle,
                Terminate
  <2>2. CASE LogOut \/ GetAllItems \/ AddNewItem \/ MakeOrder
    BY <2>2 DEF LogOut, GetAllItems, AddNewItem, MakeOrder, Take, Terminate
  <2>3. CASE GetMyOrders \/ GetOrderState \/ LogOutOk
    BY <2>3 DEF GetMyOrders, GetOrderState, LogOutOk, Take, Terminate
  <2>4. CASE OrderStateFetched \/ OrderStateChanged \/ CallTimesOut \/ ChangeTimesOut
    BY <2>4 DEF OrderStateFetched, OrderStateChanged, CallTimesOut, ChangeTimesOut, Take
  <2> QED
    BY <2>1, <2>2, <2>3, <2>4 DEF ServerStep
<1> QED
  BY <1>2, <1>3, <1>4, <1>5, <1>6

(* A session that has exited stays so; sessions are only added, and keep
   their owner. *)
SessionsGrow == \A n \in DOMAIN sessions :
                    /\ n \in DOMAIN sessions' /\ (sessions'[n].alive => sessions[n].alive)
                    /\ sessions'[n].owner = sessions[n].owner

LEMMA SessionsOnlyGrow == TypeOK /\ [Next]_vars => SessionsGrow
<1> SUFFICES ASSUME TypeOK, [Next]_vars
             PROVE  SessionsGrow
  OBVIOUS
<1>1. sessions \in Seq(SessionActors) /\ DOMAIN sessions = 1 .. Len(sessions)
      /\ Len(sessions) \in Nat
  BY LenProperties DEF TypeOK, TypeActors
<1>2. CASE sessions' = sessions
  BY <1>2 DEF SessionsGrow
<1>3. ASSUME NEW i \in Int, NEW r, AskSession(i, r)
      PROVE  SessionsGrow
  BY <1>1, <1>3 DEF AskSession, SessionsGrow
<1>4. CASE HandleLogIn
  <2>1. ASSUME NEW u, sessions' = Append(sessions,
                            [owner |-> u, alive |-> TRUE, mbox |-> << >>])
        PROVE  SessionsGrow
    BY <1>1, <2>1 DEF SessionsGrow
  <2> QED
    BY <1>2, <1>4, <2>1 DEF HandleLogIn
<1>5. CASE CheckAuth
  <2>1. Head(mbox) \in SessionCalls
    BY <1>5, HeadType DEF CheckAuth, TypeOK
  <2>2. Head(mbox).session \in Int
    BY <1>1, <2>1 DEF SessionCalls
  <2> QED
    BY <1>3, <1>5, <2>2 DEF CheckAuth
<1>6. CASE LogOut
  <2>1. job.session \in Int
    BY <1>1, <1>6 DEF LogOut, Authenticated, TypeOK, TypeHandler, SessionCalls
  <2> QED
    BY <1>3, <1>6, <2>1 DEF LogOut
<1>7. ASSUME NEW i \in DOMAIN sessions, SessionReceive(i)
      PROVE  SessionsGrow
  <2>1. \/ sessions' = [sessions EXCEPT ![i].mbox = Tail(@)]
        \/ sessions' = [sessions EXCEPT ![i].mbox = << >>, ![i].alive = FALSE]
    BY <1>7 DEF SessionReceive
  <2>2. sessions[i] \in SessionActors
    BY <1>1, ElementType
  <2>3. CASE sessions' = [sessions EXCEPT ![i].mbox = Tail(@)]
    BY <1>1, <2>3 DEF SessionsGrow
  <2>4. CASE sessions' = [sessions EXCEPT ![i].mbox = << >>, ![i].alive = FALSE]
    <3>1. /\ DOMAIN sessions' = DOMAIN sessions
          /\ \A n \in DOMAIN sessions : n # i => sessions'[n] = sessions[n]
      BY <2>4
    <3>2. ~sessions'[i].alive /\ sessions'[i].owner = sessions[i].owner
      BY <2>2, <2>4 DEF SessionActors
    <3> QED
      BY <3>1, <3>2 DEF SessionsGrow
  <2> QED
    BY <2>1, <2>3, <2>4
<1>8. ASSUME NEW i \in DOMAIN sessions, SessionExpire(i)
      PROVE  SessionsGrow
  BY <1>1, <1>8 DEF SessionExpire, SessionsGrow
<1>9. \/ sessions' = sessions \/ HandleLogIn \/ CheckAuth \/ LogOut
      \/ \E i \in DOMAIN sessions : SessionReceive(i) \/ SessionExpire(i)
  <2>1. CASE ServerStep
    BY <2>1 DEF ServerStep, HandleRegister, HandleCast, HandleInfo, GetAllItems, AddNewItem,
                MakeOrder, GetMyOrders, GetOrderState, LogOutOk, OrderStateFetched,
                OrderStateChanged, CallTimesOut, ChangeTimesOut
  <2>2. CASE StartLink \/ (\E c \in Clients : CallAccount(c) \/ CallSession(c))
    BY <2>2 DEF StartLink, CallAccount, CallSession, Call
  <2>3. CASE (\E k \in DOMAIN keepers : KeeperReceive(k))
             \/ (\E t \in DOMAIN timers : TimerFire(t)) \/ UNCHANGED vars
    BY <2>3 DEF KeeperReceive, TimerFire, vars
  <2> QED
    BY <2>1, <2>2, <2>3 DEF Next
<1> QED
  BY <1>2, <1>4, <1>5, <1>6, <1>7, <1>8, <1>9

(* An answer from a session is from one that was spawned, and ok is the last
   thing a session says. *)
LastWord(m, ss) == (m.op = "reply" /\ m.from[1] = "session") =>
                       /\ m.from[2] \in DOMAIN ss
                       /\ m.val = "ok" => ~ss[m.from[2]].alive
OkIsLast == \A j \in DOMAIN mbox : LastWord(mbox[j], sessions)

LogOutAnswered == answer.call.op = "log_out" /\ answer.val = "log_out_ok"
FinalInv == /\ OkIsLast
            /\ LogOutAnswered => /\ answer.call.session \in DOMAIN sessions
                                 /\ ~sessions[answer.call.session].alive

LEMMA OkIsLastNext == TypeOK /\ OkIsLast /\ [Next]_vars => OkIsLast'
<1> SUFFICES ASSUME TypeOK, OkIsLast, [Next]_vars, NEW j \in DOMAIN mbox'
             PROVE  LastWord(mbox'[j], sessions')
  BY DEF OkIsLast
<1>1. mbox \in Seq(Messages)
  BY DEF TypeOK, TypeServer
<1>2. CASE Listed(mbox'[j], mbox)
  <2>1. PICK i \in DOMAIN mbox : mbox'[j] = mbox[i]
    BY <1>2 DEF Listed
  <2>2. LastWord(mbox[i], sessions)
    BY DEF OkIsLast
  <2> QED
    BY <2>1, <2>2, SessionsOnlyGrow DEF LastWord, SessionsGrow
<1>3. CASE StartLink \/ ServerStep \/ UNCHANGED vars
  <2>1. CASE ServerStep
    BY <1>2, <2>1, ServerStepMail
  <2>2. CASE StartLink \/ UNCHANGED vars
    BY <1>2, <2>2 DEF StartLink, vars, server, Listed
  <2> QED
    BY <1>3, <2>1, <2>2
<1>4. ASSUME NEW c \in Clients, CallAccount(c) \/ CallSession(c)
      PROVE  LastWord(mbox'[j], sessions')
  <2>1. PICK m \in Messages : m.op # "reply" /\ mbox' = Append(mbox, m)
    <3>1. CASE CallAccount(c)
      BY <3>1 DEF CallAccount, Call, Deliver, Messages, Calls, AccountCalls
    <3>2. CASE CallSession(c)
      <4>1. PICK op \in SessionOps, i \in DOMAIN sessions :
               \E m \in SessionCall(op, c, i) : Call(c, m, ~sessions[i].alive)
        BY <3>2 DEF CallSession
      <4>2. SessionCall(op, c, i) \subseteq SessionCalls
        <5>1. 1 .. MaxOrders \subseteq Nat
          OBVIOUS
        <5> QED
          BY <5>1 DEF SessionCall, SessionCalls, SessionOps
      <4>3. SessionCalls \subseteq Messages /\ \A m \in SessionCalls : m.op # "reply"
        BY DEF SessionCalls, Messages, Calls
      <4> QED
        BY <4>1, <4>2, <4>3 DEF Call, Deliver
    <3> QED
      BY <1>4, <3>1, <3>2
  <2>2. mbox'[j] = m \/ Listed(mbox'[j], mbox)
    BY <1>1, <2>1, AppendListed
  <2>3. CASE mbox'[j] = m
    BY <2>1, <2>3 DEF LastWord
  <2> QED
    BY <1>2, <2>2, <2>3
<1>5. ASSUME NEW i \in DOMAIN sessions, SessionReceive(i)
      PROVE  LastWord(mbox'[j], sessions')
  <2> DEFINE req == Head(sessions[i].mbox).req
             m == [op |-> "reply", from |-> Session(i), val |-> SessionAnswer(i, req)]
  <2>1. sessions[i] \in SessionActors /\ i \in Nat
    BY ElementType, LenProperties DEF TypeOK, TypeActors
  <2>2. m \in Messages
    BY <2>1 DEF Messages, Replies, Session, Pids, SessionAnswer, SessionActors
  <2>3. mbox' = mbox \/ mbox' = Append(mbox, m)
    BY <1>5 DEF SessionReceive, ToServer, Deliver
  <2>4. LastWord(m, sessions')
    <3>1. i \in DOMAIN sessions'
      BY SessionsOnlyGrow DEF SessionsGrow
    <3>2. CASE req = "check_existence"
      <4>1. m.val \in Users
        BY <2>1, <3>2 DEF SessionAnswer, SessionActors
      <4> QED
        BY <3>1, <4>1, UsersAssumption DEF LastWord, Session
    <3>3. CASE req = "destroy_session"
      <4>1. ~sessions'[i].alive
        <5>1. sessions' = [sessions EXCEPT ![i].mbox = << >>, ![i].alive = FALSE]
          BY <1>5, <3>3 DEF SessionReceive
        <5>2. i \in 1 .. Len(sessions) /\ sessions \in [1 .. Len(sessions) -> SessionActors]
          BY LenProperties DEF TypeOK, TypeActors
        <5> QED
          BY <5>1, <5>2 DEF SessionActors
      <4> QED
        BY <3>1, <4>1 DEF LastWord, Session
    <3> QED
      BY <1>5, <3>2, <3>3 DEF SessionReceive
  <2> HIDE DEF m, req
  <2>5. mbox'[j] = m \/ Listed(mbox'[j], mbox)
    BY <1>1, <2>2, <2>3, AppendListed DEF Listed
  <2> QED
    BY <1>2, <2>4, <2>5
<1>6. ASSUME NEW i \in DOMAIN sessions, SessionExpire(i)
      PROVE  LastWord(mbox'[j], sessions')
  BY <1>2, <1>6 DEF SessionExpire, server, Listed
<1>7. ASSUME NEW k \in DOMAIN keepers, KeeperReceive(k)
      PROVE  LastWord(mbox'[j], sessions')
  <2>1. keepers[k] \in KeeperActors /\ k \in Nat
    BY ElementType, LenProperties DEF TypeOK, TypeActors
  <2>2. PICK m \in Messages : m.from[1] = "keeper" /\ (mbox' = mbox \/ mbox' = Append(mbox, m))
    BY <1>7, <2>1 DEF KeeperReceive, ToServer, Deliver, Messages, Replies, Keeper, Pids,
                      KeeperActors
  <2>3. mbox'[j] = m \/ Listed(mbox'[j], mbox)
    BY <1>1, <2>2, AppendListed DEF Listed
  <2>4. CASE mbox'[j] = m
    BY <2>2, <2>4 DEF LastWord
  <2> QED
    BY <1>2, <2>3, <2>4
<1>8. ASSUME NEW t \in DOMAIN timers, TimerFire(t)
      PROVE  LastWord(mbox'[j], sessions')
  <2>1. TypeOK'
    BY TypeNext
  <2>2. PICK m : m.op # "reply" /\ (mbox' = mbox \/ mbox' = Append(mbox, m))
    BY <1>8 DEF TimerFire, ToServer, Deliver
  <2>3. CASE mbox' = mbox
    BY <1>2, <2>3 DEF Listed
  <2>4. CASE mbox' = Append(mbox, m)
    <3>1. mbox'[j] = m \/ Listed(mbox'[j], mbox)
      <4>1. Len(mbox) \in Nat /\ DOMAIN mbox = 1 .. Len(mbox)
        BY <1>1, LenProperties
      <4> QED
        BY <1>1, <2>4, <4>1 DEF Listed
    <3>2. CASE mbox'[j] = m
      BY <2>2, <3>2 DEF LastWord
    <3> QED
      BY <1>2, <3>1, <3>2
  <2> QED
    BY <2>2, <2>3, <2>4
<1> QED
  BY <1>3, <1>4, <1>5, <1>6, <1>7, <1>8 DEF Next

LEMMA FinalInvNext == TypeOK /\ FinalInv /\ [Next]_vars => FinalInv'
<1> SUFFICES ASSUME TypeOK, FinalInv, [Next]_vars
             PROVE  FinalInv'
  OBVIOUS
<1>1. OkIsLast'
  BY OkIsLastNext DEF FinalInv
<1>2. CASE answer' = answer
  BY <1>1, <1>2, SessionsOnlyGrow DEF FinalInv, LogOutAnswered, SessionsGrow
<1>3. CASE ~LogOutAnswered'
  BY <1>1, <1>3 DEF FinalInv
<1>4. CASE LogOutOk
  <2>1. PICK i \in DOMAIN mbox : /\ pc = "log_out" /\ FirstMatch(i)
                                 /\ answer' = [call |-> job, val |-> "log_out_ok", ids |-> {}]
                                 /\ sessions' = sessions
    BY <1>4 DEF LogOutOk, Take, Reply, Say
  <2>2. peer = Session(job.session)
    BY <2>1 DEF TypeOK, TypeHandler
  <2>3. /\ mbox[i].op = "reply" /\ mbox[i].val = "ok" /\ mbox[i].from = peer
    BY <2>1 DEF FirstMatch, Matches
  <2>4. LastWord(mbox[i], sessions)
    BY DEF FinalInv, OkIsLast
  <2>5. job.session \in DOMAIN sessions /\ ~sessions[job.session].alive
    BY <2>2, <2>3, <2>4 DEF LastWord, Session
  <2> QED
    BY <1>1, <2>1, <2>5 DEF FinalInv
<1>5. CASE ServerStep /\ ~LogOutOk
  <2>1. ASSUME NEW m, NEW v, NEW ids, Say(m, v, ids), v # "log_out_ok"
        PROVE  answer'.val # "log_out_ok"
    BY <2>1 DEF Say
  <2>2. CASE Terminate \/ answer' = NoAnswer
    BY <2>2, <1>3 DEF Terminate, NoAnswer, LogOutAnswered
  <2>3. CASE HandleRegister \/ HandleLogIn
    BY <1>3, <2>1, <2>3 DEF HandleRegister, HandleLogIn, LogOutAnswered
  <2>4. CASE CheckAuth \/ HandleCast \/ HandleInfo
    BY <2>2, <2>4 DEF CheckAuth, HandleCast, HandleInfo
  <2>5. CASE GetAllItems \/ AddNewItem \/ MakeOrder
    BY <1>3, <2>1, <2>2, <2>5 DEF GetAllItems, AddNewItem, MakeOrder, Reply, LogOutAnswered
  <2>6. CASE GetMyOrders \/ GetOrderState
    BY <1>2, <1>3, <2>1, <2>2, <2>6 DEF GetMyOrders, GetOrderState, Reply, LogOutAnswered
  <2>7. CASE LogOut \/ OrderStateChanged \/ ChangeTimesOut
    BY <1>2, <2>7 DEF LogOut, OrderStateChanged, ChangeTimesOut
  <2>8. CASE CallTimesOut
    BY <1>3, <2>1, <2>8 DEF CallTimesOut, Reply, LogOutAnswered
  <2>9. CASE OrderStateFetched
    <3>1. answer'.call = job /\ job.op = "get_order_state"
      BY <2>9 DEF OrderStateFetched, Reply, Say, TypeOK, TypeHandler
    <3> QED
      BY <1>3, <3>1 DEF LogOutAnswered
  <2> QED
    BY <1>5, <2>3, <2>4, <2>5, <2>6, <2>7, <2>8, <2>9 DEF ServerStep
<1>6. CASE ~ServerStep
  <2>1. answer' = answer
    BY <1>6 DEF Next, StartLink, CallAccount, CallSession, Call, SessionReceive,
                SessionExpire, KeeperReceive, TimerFire, vars
  <2> QED
    BY <1>2, <2>1
<1> QED
  BY <1>4, <1>5, <1>6

(* However late the answers of the processes are, and whatever handler reads
   them, and however often the server was restarted: when log_out has answered
   log_out_ok, the session's process is gone. *)
THEOREM LogOutFinal == Spec => []LogOutIsFinal
<1>1. Init => FinalInv
  BY DEF Init, FinalInv, OkIsLast, LogOutAnswered, NoAnswer, NoJob
<1>2. TypeOK /\ FinalInv /\ [Next]_vars => FinalInv'
  BY FinalInvNext
<1>3. FinalInv => LogOutIsFinal
  BY DEF FinalInv, LogOutAnswered, LogOutIsFinal
<1> QED
  BY <1>1, <1>2, <1>3, TypeCorrect, PTL DEF Spec

-----------------------------------------------------------------------------
(* The order list and the user dictionary tell the same story. *)

(* What a step does to the order book. *)
BookKept == UNCHANGED <<users, orders, order_count>>
TimersKept == /\ DOMAIN timers \subseteq DOMAIN timers'
              /\ \A t \in DOMAIN timers : timers'[t].order = timers[t].order

LEMMA TimersOnlyGrow == TypeOK /\ [Next]_vars => TimersKept
<1> SUFFICES ASSUME TypeOK, [Next]_vars
             PROVE  TimersKept
  OBVIOUS
<1>1. timers \in Seq(TimerActors) /\ DOMAIN timers = 1 .. Len(timers)
      /\ Len(timers) \in Nat
  BY LenProperties DEF TypeOK, TypeActors
<1>2. CASE timers' = timers
  BY <1>2 DEF TimersKept
<1>3. ASSUME NEW id, timers' = Append(timers, NewTimer(id))
      PROVE  TimersKept
  BY <1>1, <1>3 DEF TimersKept
<1>4. ASSUME NEW t \in DOMAIN timers, TimerFire(t)
      PROVE  TimersKept
  BY <1>1, <1>4 DEF TimerFire, TimersKept, TimerActors
<1>5. CASE MakeOrder
  BY <1>2, <1>3, <1>5 DEF MakeOrder
<1>6. CASE ServerStep /\ ~MakeOrder
  BY <1>2, <1>6 DEF ServerStep, HandleRegister, HandleLogIn, CheckAuth, HandleCast, HandleInfo,
              LogOut, GetAllItems, AddNewItem, GetMyOrders, GetOrderState, LogOutOk,
              OrderStateFetched, OrderStateChanged, CallTimesOut, ChangeTimesOut
<1>7. CASE StartLink \/ (\E c \in Clients : CallAccount(c) \/ CallSession(c))
           \/ (\E i \in DOMAIN sessions : SessionReceive(i) \/ SessionExpire(i))
           \/ (\E k \in DOMAIN keepers : KeeperReceive(k)) \/ UNCHANGED vars
  BY <1>2, <1>7 DEF StartLink, CallAccount, CallSession, Call, SessionReceive, SessionExpire,
              KeeperReceive, vars
<1> QED
  BY <1>4, <1>5, <1>6, <1>7 DEF Next

LEMMA BookSteps ==
    ASSUME [Next]_vars
    PROVE  BookKept \/ HandleRegister \/ MakeOrder \/ Terminate
<1>1. CASE ServerStep
  BY <1>1 DEF ServerStep, HandleLogIn, CheckAuth, HandleCast, HandleInfo,
              LogOut, GetAllItems, AddNewItem, GetMyOrders, GetOrderState, LogOutOk,
              OrderStateFetched, OrderStateChanged, CallTimesOut, ChangeTimesOut, BookKept, shop
<1>2. CASE StartLink \/ (\E c \in Clients : CallAccount(c) \/ CallSession(c))
           \/ (\E i \in DOMAIN sessions : SessionReceive(i) \/ SessionExpire(i))
           \/ (\E k \in DOMAIN keepers : KeeperReceive(k))
           \/ (\E t \in DOMAIN timers : TimerFire(t)) \/ UNCHANGED vars
  BY <1>2 DEF StartLink, CallAccount, CallSession, Call, SessionReceive, SessionExpire,
              KeeperReceive, TimerFire, BookKept, vars, shop
<1> QED
  BY <1>1, <1>2 DEF Next

(* The first order of a list that has grown in front, and the others. *)
LEMMA ConsProperties ==
    ASSUME NEW S, NEW s \in Seq(S), NEW e \in S
    PROVE  /\ <<e>> \o s \in Seq(S)
           /\ Len(<<e>> \o s) = Len(s) + 1
           /\ (<<e>> \o s)[1] = e
           /\ \A n \in 2 .. Len(s) + 1 : n - 1 \in DOMAIN s /\ (<<e>> \o s)[n] = s[n - 1]
<1>1. <<e>> \in Seq(S) /\ Len(<<e>>) = 1 /\ <<e>>[1] = e
  OBVIOUS
<1> DEFINE h == <<e>>
<1> HIDE DEF h
<1>2. /\ h \o s \in Seq(S)
      /\ Len(h \o s) = 1 + Len(s)
      /\ \A n \in 1 .. 1 + Len(s) : (h \o s)[n] = IF n <= 1 THEN h[n] ELSE s[n - 1]
  BY <1>1, ConcatProperties DEF h
<1>3. Len(s) \in Nat /\ DOMAIN s = 1 .. Len(s)
  BY LenProperties
<1> QED
  BY <1>1, <1>2, <1>3 DEF h

LEMMA BookMakeOrder ==
    ASSUME TypeOK, OrderBookCoherent, MakeOrder, ~Terminate
    PROVE  OrderBookCoherent'
<1> DEFINE id == order_count + 1
<1>1. PICK user \in DOMAIN users :
         /\ users' = [users EXCEPT ![user].orders = @ \cup {id}]
         /\ orders' = <<NewOrder(id, user)>> \o orders
         /\ order_count' = id
         /\ timers' = Append(timers, NewTimer(id))
  BY DEF MakeOrder
<1>2. PICK S \in SUBSET Users : users \in [S -> UserData]
  BY DEF TypeOK, TypeShop
<1>3. order_count \in Nat /\ order_count = Len(orders) /\ orders \in Seq(Orders)
      /\ DOMAIN orders = 1 .. order_count
  BY LenProperties DEF TypeOK, TypeShop, OrderBookCoherent
<1>4. /\ keepers \in Seq(KeeperActors) /\ DOMAIN keepers = 1 .. Len(keepers)
      /\ Len(keepers) \in Nat
  BY LenProperties DEF TypeOK, TypeActors
<1>5. NewOrder(id, user) \in Orders
  BY <1>2, <1>3, <1>4 DEF NewOrder, Orders
<1>6. /\ Len(orders') = order_count + 1 /\ DOMAIN orders' = 1 .. order_count + 1
      /\ orders'[1] = NewOrder(id, user)
      /\ \A n \in 2 .. order_count + 1 : n - 1 \in DOMAIN orders /\ orders'[n] = orders[n - 1]
  <2>1. orders' \in Seq(Orders) /\ Len(orders') = order_count + 1
        /\ orders'[1] = NewOrder(id, user)
        /\ \A n \in 2 .. order_count + 1 : n - 1 \in DOMAIN orders /\ orders'[n] = orders[n - 1]
    <3> HIDE DEF id
    <3> QED
      BY <1>1, <1>3, <1>5, ConsProperties
  <2> QED
    BY <2>1, LenProperties
<1>7. DOMAIN users' = DOMAIN users
      /\ \A u \in DOMAIN users : users'[u].orders = IF u = user THEN users[u].orders \cup {id}
                                                    ELSE users[u].orders
  BY <1>1, <1>2 DEF UserData
<1>8. \A u \in DOMAIN users : users[u].orders \subseteq 1 .. order_count
  BY DEF OrderBookCoherent
<1>9. ASSUME NEW n \in DOMAIN orders'
      PROVE  /\ orders'[n].id = order_count' + 1 - n
             /\ \A u \in DOMAIN users' : orders'[n].id \in users'[u].orders <=> u = orders'[n].user
             /\ orders'[n].user \in DOMAIN users'
             /\ \A k \in DOMAIN orders' : orders'[k].keeper = orders'[n].keeper => k = n
             /\ \E t \in DOMAIN timers' : timers'[t].order = orders'[n].id
  <2>1. \A k \in DOMAIN orders : orders[k].keeper \in 1 .. Len(keepers)
    BY <1>4 DEF TypeOK, TypeShop
  <2>2. /\ DOMAIN timers \subseteq DOMAIN timers'
        /\ \A t \in DOMAIN timers : timers'[t] = timers[t]
        /\ \E t \in DOMAIN timers' : timers'[t] = NewTimer(id)
    <3>1. timers \in Seq(TimerActors) /\ DOMAIN timers = 1 .. Len(timers)
          /\ Len(timers) \in Nat
      BY LenProperties DEF TypeOK, TypeActors
    <3> DEFINE t == NewTimer(id)
    <3> HIDE DEF t
    <3>2. timers' = Append(timers, t)
      BY <1>1 DEF t
    <3>3. /\ DOMAIN timers' = 1 .. Len(timers) + 1 /\ timers'[Len(timers) + 1] = t
          /\ \A x \in DOMAIN timers : timers'[x] = timers[x]
      BY <3>1, <3>2
    <3>4. Len(timers) + 1 \in DOMAIN timers' /\ DOMAIN timers \subseteq DOMAIN timers'
      BY <3>1, <3>3
    <3> QED
      BY <3>3, <3>4 DEF t
  <2>3. CASE n = 1
    <3>1. orders'[n].id = id /\ orders'[n].user = user /\ orders'[n].keeper = Len(keepers) + 1
      BY <1>6, <2>3 DEF NewOrder
    <3>2. \A u \in DOMAIN users : id \notin users[u].orders
      BY <1>3, <1>8
    <3>3. \A k \in DOMAIN orders' : orders'[k].keeper = orders'[n].keeper => k = n
      BY <1>4, <1>6, <2>1, <2>3, <3>1
    <3>4. \E t \in DOMAIN timers' : timers'[t].order = id
      BY <2>2 DEF NewTimer
    <3>5. orders'[n].id = order_count' + 1 - n
      BY <1>1, <1>3, <2>3, <3>1
    <3> HIDE DEF id
    <3> QED
      BY <1>7, <2>3, <3>1, <3>2, <3>3, <3>4, <3>5
  <2>4. CASE n # 1
    <3>1. n - 1 \in DOMAIN orders /\ orders'[n] = orders[n - 1] /\ n \in Int
      BY <1>3, <1>6, <2>4
    <3> DEFINE o == orders[n - 1]
    <3>2. /\ o.id = order_count + 1 - (n - 1)
          /\ \A u \in DOMAIN users : o.id \in users[u].orders <=> u = o.user
          /\ o.user \in DOMAIN users
          /\ \A k \in DOMAIN orders : orders[k].keeper = o.keeper => k = n - 1
          /\ \E t \in DOMAIN timers : timers[t].order = o.id
      BY <3>1 DEF OrderBookCoherent
    <3>3. o.id # id
      BY <1>3, <1>6, <2>4, <3>1, <3>2
    <3>4. orders'[n].id = order_count' + 1 - n
      BY <1>1, <1>3, <3>1, <3>2
    <3>5. \A k \in DOMAIN orders' : orders'[k].keeper = o.keeper => k = n
      <4> SUFFICES ASSUME NEW k \in DOMAIN orders', orders'[k].keeper = o.keeper
                   PROVE  k = n
        OBVIOUS
      <4>1. CASE k = 1
        BY <1>4, <1>6, <2>1, <3>1, <4>1 DEF NewOrder
      <4>2. CASE k # 1
        <5>1. k - 1 \in DOMAIN orders /\ orders'[k] = orders[k - 1] /\ k \in Int
          BY <1>3, <1>6, <4>2
        <5>2. k - 1 = n - 1
          BY <3>2, <5>1
        <5> QED
          BY <3>1, <5>1, <5>2
      <4> QED
        BY <4>1, <4>2
    <3>6. \E t \in DOMAIN timers' : timers'[t].order = o.id
      BY <2>2, <3>2
    <3>7. \A u \in DOMAIN users : o.id \in users'[u].orders <=> u = o.user
      <4> HIDE DEF o, id
      <4> QED
        BY <1>7, <3>2, <3>3
    <3> HIDE DEF o, id
    <3> QED
      BY <1>7, <3>1, <3>2, <3>4, <3>5, <3>6, <3>7 DEF o
  <2> QED
    BY <2>3, <2>4
<1>10. \A u \in DOMAIN users' : users'[u].orders \subseteq 1 .. order_count'
  BY <1>1, <1>3, <1>7, <1>8
<1> HIDE DEF id
<1> QED
  BY <1>1, <1>3, <1>6, <1>9, <1>10 DEF OrderBookCoherent, id

LEMMA BookNext == TypeOK /\ OrderBookCoherent /\ [Next]_vars => OrderBookCoherent'
<1> SUFFICES ASSUME TypeOK, OrderBookCoherent, [Next]_vars
             PROVE  OrderBookCoherent'
  OBVIOUS
<1>1. CASE BookKept
  <2>1. \A n \in DOMAIN orders : \E t \in DOMAIN timers' : timers'[t].order = orders[n].id
    BY TimersOnlyGrow DEF TimersKept, OrderBookCoherent
  <2> QED
    BY <1>1, <2>1 DEF BookKept, OrderBookCoherent
<1>2. CASE Terminate
  <2>1. users' = << >> /\ orders' = << >> /\ order_count' = 0
    BY <1>2 DEF Terminate, NoShop
  <2>2. DOMAIN users' = {} /\ DOMAIN orders' = {} /\ Len(orders') = 0
    BY <2>1
  <2> QED
    BY <2>1, <2>2 DEF OrderBookCoherent
<1>3. CASE HandleRegister /\ ~BookKept
  <2>1. PICK u, p : u \notin DOMAIN users /\ users' = NewUser(u, p)
    BY <1>3 DEF HandleRegister, BookKept
  <2>2. UNCHANGED <<orders, order_count, timers>>
    BY <1>3 DEF HandleRegister
  <2>3. /\ DOMAIN users' = DOMAIN users \cup {u}
        /\ users'[u].orders = {}
        /\ \A x \in DOMAIN users : users'[x] = users[x]
    BY <2>1 DEF NewUser
  <2>4. ASSUME NEW n \in DOMAIN orders
        PROVE  /\ orders[n].user \in DOMAIN users'
               /\ \A x \in DOMAIN users' : orders[n].id \in users'[x].orders <=> x = orders[n].user
    BY <2>1, <2>3 DEF OrderBookCoherent
  <2>5. \A x \in DOMAIN users' : users'[x].orders \subseteq 1 .. order_count
    BY <2>3 DEF OrderBookCoherent
  <2> QED
    BY <2>2, <2>4, <2>5 DEF OrderBookCoherent
<1> QED
  BY <1>1, <1>2, <1>3, BookSteps, BookMakeOrder

(* Whatever times out, crashes or is restarted, the order list and the order
   ids of the user dictionary agree: each order is its user's and no one
   else's, ids are not reused, no two orders share a keeper, and each order has
   a timer. *)
THEOREM BooksAgree == Spec => []OrderBookCoherent
<1>1. Init => OrderBookCoherent
  <2> SUFFICES ASSUME Init
               PROVE  OrderBookCoherent
    OBVIOUS
  <2>1. users = << >> /\ orders = << >> /\ order_count = 0
    BY DEF Init
  <2>2. DOMAIN users = {} /\ DOMAIN orders = {} /\ Len(orders) = 0
    BY <2>1
  <2> QED
    BY <2>1, <2>2 DEF OrderBookCoherent
<1>2. TypeOK /\ OrderBookCoherent /\ [Next]_vars => OrderBookCoherent'
  BY BookNext
<1> QED
  BY <1>1, <1>2, TypeCorrect, PTL DEF Spec

-----------------------------------------------------------------------------
(* Mailboxes that lose messages keep the order of the others. *)

Thins(b, a, gone) ==
    \E f \in [DOMAIN b -> DOMAIN a] :
        /\ \A y \in DOMAIN b : b[y] = a[f[y]] /\ f[y] \notin gone
        /\ \A y, z \in DOMAIN b : y < z => f[y] < f[z]
        /\ \A x \in DOMAIN a \ gone : \E y \in DOMAIN b : f[y] = x

LEMMA ThinsSame ==
    ASSUME NEW S, NEW s \in Seq(S)
    PROVE  Thins(s, s, {})
<1> DEFINE f == [x \in DOMAIN s |-> x]
<1>1. f \in [DOMAIN s -> DOMAIN s] /\ \A x \in DOMAIN s : f[x] = x
  OBVIOUS
<1> HIDE DEF f
<1> QED
  BY <1>1 DEF Thins

LEMMA ThinsTail ==
    ASSUME NEW S, NEW s \in Seq(S), s # << >>
    PROVE  1 \in DOMAIN s /\ s[1] = Head(s) /\ Thins(Tail(s), s, {1})
<1>1. Len(s) \in Nat \ {0} /\ DOMAIN s = 1 .. Len(s) /\ s[1] = Head(s)
  BY LenProperties, EmptySeq, HeadTailProperties
<1>2. /\ Tail(s) \in Seq(S) /\ Len(Tail(s)) = Len(s) - 1
      /\ \A j \in 1 .. Len(Tail(s)) : Tail(s)[j] = s[j + 1]
  BY HeadTailProperties
<1>3. DOMAIN Tail(s) = 1 .. Len(s) - 1
  BY <1>2, LenProperties
<1> DEFINE t == Tail(s)
           f == [x \in DOMAIN t |-> x + 1]
<1> HIDE DEF t
<1>4. f \in [DOMAIN t -> DOMAIN s] /\ \A x \in DOMAIN t : f[x] = x + 1
  BY <1>1, <1>3 DEF t
<1> HIDE DEF f
<1>5. \A y \in DOMAIN t : t[y] = s[f[y]] /\ f[y] \notin {1}
  BY <1>1, <1>2, <1>3, <1>4 DEF t
<1>6. \A y, z \in DOMAIN t : y < z => f[y] < f[z]
  BY <1>1, <1>3, <1>4 DEF t
<1>7. ASSUME NEW x \in DOMAIN s \ {1}
      PROVE  \E y \in DOMAIN t : f[y] = x
  <2>1. x - 1 \in DOMAIN t /\ f[x - 1] = x
    BY <1>1, <1>3, <1>4 DEF t
  <2> QED
    BY <2>1
<1> QED
  BY <1>1, <1>4, <1>5, <1>6, <1>7 DEF Thins, t

LEMMA ThinsRemoveAt ==
    ASSUME NEW S, NEW s \in Seq(S), NEW i \in DOMAIN s
    PROVE  Thins(RemoveAt(s, i), s, {i})
<1> DEFINE t == RemoveAt(s, i)
           f == [x \in DOMAIN t |-> IF x < i THEN x ELSE x + 1]
<1>1. /\ t \in Seq(S) /\ Len(t) = Len(s) - 1
      /\ \A j \in DOMAIN t : t[j] = IF j < i THEN s[j] ELSE s[j + 1]
  BY RemoveAtProperties
<1>2. Len(s) \in Nat /\ DOMAIN s = 1 .. Len(s) /\ DOMAIN t = 1 .. Len(s) - 1
      /\ i \in 1 .. Len(s)
  BY <1>1, LenProperties
<1> HIDE DEF t
<1>3. f \in [DOMAIN t -> DOMAIN s]
      /\ \A x \in DOMAIN t : f[x] = IF x < i THEN x ELSE x + 1
  BY <1>2
<1> HIDE DEF f
<1>4. \A y \in DOMAIN t : t[y] = s[f[y]] /\ f[y] \notin {i}
  BY <1>1, <1>2, <1>3
<1>5. \A y, z \in DOMAIN t : y < z => f[y] < f[z]
  BY <1>2, <1>3
<1>6. ASSUME NEW x \in DOMAIN s \ {i}
      PROVE  \E y \in DOMAIN t : f[y] = x
  <2>1. CASE x < i
    <3>1. x \in DOMAIN t /\ f[x] = x
      BY <1>2, <1>3, <2>1
    <3> QED
      BY <3>1
  <2>2. CASE x > i
    <3>1. x - 1 \in DOMAIN t /\ f[x - 1] = x
      BY <1>2, <1>3, <2>2
    <3> QED
      BY <3>1
  <2> QED
    BY <1>2, <2>1, <2>2
<1> QED
  BY <1>3, <1>4, <1>5, <1>6 DEF Thins, t

LEMMA AppendAt ==
    ASSUME NEW S, NEW s \in Seq(S), NEW e \in S
    PROVE  /\ Append(s, e) \in Seq(S)
           /\ Len(s) \in Nat /\ DOMAIN s = 1 .. Len(s)
           /\ DOMAIN Append(s, e) = 1 .. Len(s) + 1
           /\ \A j \in DOMAIN s : Append(s, e)[j] = s[j]
           /\ Append(s, e)[Len(s) + 1] = e
<1>1. /\ Append(s, e) \in Seq(S) /\ Len(Append(s, e)) = Len(s) + 1
      /\ \A i \in 1 .. Len(s) : Append(s, e)[i] = s[i]
      /\ Append(s, e)[Len(s) + 1] = e
  BY AppendProperties
<1>2. Len(s) \in Nat /\ DOMAIN s = 1 .. Len(s)
  BY LenProperties
<1> QED
  BY <1>1, <1>2, LenProperties

-----------------------------------------------------------------------------
(* An order's way: its state, the changes its keeper has not read, the casts
   for it that the server has not read, and its timer. *)

(* How far an order with this state has come. *)
Rank(s) == CASE s = "placed" -> 0 [] s = "packaged" -> 1
             [] s = "shipped" -> 2 [] OTHER -> 3

Changes(q) == {x \in DOMAIN q : q[x].req = "change_order_state"}
Casted(box, k) == {i \in DOMAIN box : box[i].op = "change_order_state" /\ box[i].order = k}
Sorted(q, X) == \A x, y \in X : x < y => Rank(q[x].state) < Rank(q[y].state)
Ranks(q, X) == {Rank(q[x].state) : x \in X}

(* What the keeper in state v has to read takes it one stage at a time. *)
InLine(v, q) ==
    /\ Sorted(q, Changes(q))
    /\ \A r \in Ranks(q, Changes(q)) :
        /\ v < r
        /\ \A p \in 1 .. 3 : v < p /\ p < r => p \in Ranks(q, Changes(q))

(* What the server has to pass on to it follows, up to where the timer is. *)
OnTheWay(v, q, k, box, sent) ==
    /\ v <= sent
    /\ \A r \in Ranks(q, Changes(q)) : r <= sent
    /\ Sorted(box, Casted(box, k))
    /\ \A b \in Ranks(box, Casted(box, k)) :
        /\ v < b /\ b <= sent
        /\ \A r \in Ranks(q, Changes(q)) : r < b
    /\ \A p \in 1 .. sent : \/ p <= v \/ p \in Ranks(q, Changes(q))
                            \/ p \in Ranks(box, Casted(box, k))

LEMMA RankProperties ==
    /\ \A s : Rank(s) \in 0 .. 3
    /\ Rank("placed") = 0
    /\ Range(Stages) = {"packaged", "shipped", "delivered"}
    /\ DOMAIN Stages = 1 .. 3 /\ Len(Stages) = 3
    /\ \A r \in 1 .. 3 : Stages[r] \in Range(Stages) /\ Rank(Stages[r]) = r
    /\ \A s \in Range(Stages) : Rank(s) \in 1 .. 3 /\ Stages[Rank(s)] = s
<1>1. DOMAIN Stages = 1 .. 3 /\ Len(Stages) = 3
      /\ Stages[1] = "packaged" /\ Stages[2] = "shipped" /\ Stages[3] = "delivered"
  BY DEF Stages
<1>2. Range(Stages) = {"packaged", "shipped", "delivered"}
  BY <1>1 DEF Range
<1>3. \A s : Rank(s) \in 0 .. 3
  BY DEF Rank
<1>4. /\ Rank("placed") = 0 /\ Rank("packaged") = 1 /\ Rank("shipped") = 2
      /\ Rank("delivered") = 3
  BY DEF Rank
<1> QED
  BY <1>1, <1>2, <1>3, <1>4

LEMMA ThinRanks ==
    ASSUME NEW a, NEW b, NEW gone, Thins(b, a, gone),
           DOMAIN a \subseteq Int, DOMAIN b \subseteq Int,
           NEW X \in SUBSET DOMAIN a, NEW Y \in SUBSET DOMAIN b,
           \A y \in DOMAIN b, x \in DOMAIN a : b[y] = a[x] => (y \in Y <=> x \in X)
    PROVE  /\ Ranks(b, Y) = Ranks(a, X \ gone)
           /\ Sorted(a, X) => Sorted(b, Y)
<1>1. PICK f \in [DOMAIN b -> DOMAIN a] :
        /\ \A y \in DOMAIN b : b[y] = a[f[y]] /\ f[y] \notin gone
        /\ \A y, z \in DOMAIN b : y < z => f[y] < f[z]
        /\ \A x \in DOMAIN a \ gone : \E y \in DOMAIN b : f[y] = x
  BY DEF Thins
<1>2. \A y \in Y : f[y] \in X \ gone /\ b[y] = a[f[y]]
  BY <1>1
<1>3. \A x \in X \ gone : \E y \in Y : b[y] = a[x]
  BY <1>1
<1>4. Ranks(b, Y) = Ranks(a, X \ gone)
  BY <1>2, <1>3 DEF Ranks
<1>5. ASSUME Sorted(a, X), NEW y \in Y, NEW z \in Y, y < z
      PROVE  Rank(b[y].state) < Rank(b[z].state)
  <2>1. f[y] < f[z]
    BY <1>1, <1>5
  <2> QED
    BY <1>2, <1>5, <2>1 DEF Sorted
<1> QED
  BY <1>4, <1>5 DEF Sorted

(* The same with one more message after the others. *)
LEMMA AppendRanks ==
    ASSUME NEW S, NEW s \in Seq(S), NEW e \in S, NEW X \in SUBSET DOMAIN s
    PROVE  /\ Ranks(Append(s, e), X) = Ranks(s, X)
           /\ Ranks(Append(s, e), X \cup {Len(s) + 1}) = Ranks(s, X) \cup {Rank(e.state)}
           /\ Sorted(s, X) => Sorted(Append(s, e), X)
           /\ (Sorted(s, X) /\ \A r \in Ranks(s, X) : r < Rank(e.state))
                  => Sorted(Append(s, e), X \cup {Len(s) + 1})
<1> DEFINE t == Append(s, e)
           n == Len(s) + 1
<1>1. /\ Len(s) \in Nat /\ DOMAIN s = 1 .. Len(s)
      /\ \A x \in X : t[x] = s[x] /\ x < n /\ x \in Int
      /\ t[n] = e /\ n \in Int
  BY AppendAt
<1> HIDE DEF t, n
<1>2. Ranks(t, X) = Ranks(s, X)
  BY <1>1 DEF Ranks
<1>3. Ranks(t, X \cup {n}) = Ranks(s, X) \cup {Rank(e.state)}
  BY <1>1 DEF Ranks
<1>4. Sorted(s, X) => Sorted(t, X)
  BY <1>1 DEF Sorted
<1>5. ASSUME Sorted(s, X), \A r \in Ranks(s, X) : r < Rank(e.state),
             NEW x \in X \cup {n}, NEW y \in X \cup {n}, x < y
      PROVE  Rank(t[x].state) < Rank(t[y].state)
  <2>1. x \in X
    BY <1>1, <1>5
  <2>2. CASE y \in X
    BY <1>1, <1>5, <2>1, <2>2 DEF Sorted
  <2>3. CASE y = n
    BY <1>1, <1>5, <2>1, <2>3 DEF Ranks
  <2> QED
    BY <2>2, <2>3
<1> QED
  BY <1>2, <1>3, <1>4, <1>5 DEF Sorted, t, n

(* The keeper's mailbox. *)
LEMMA QueueGains ==
    ASSUME NEW q \in Seq(KeeperRequests), NEW m \in KeeperRequests
    PROVE  LET R == Ranks(q, Changes(q))
               p == Append(q, m)
           IN  /\ m.req # "change_order_state" =>
                    /\ Ranks(p, Changes(p)) = R
                    /\ Sorted(q, Changes(q)) => Sorted(p, Changes(p))
               /\ m.req = "change_order_state" =>
                    /\ Ranks(p, Changes(p)) = R \cup {Rank(m.state)}
                    /\ (Sorted(q, Changes(q)) /\ \A r \in R : r < Rank(m.state))
                            => Sorted(p, Changes(p))
<1> DEFINE p == Append(q, m)
           n == Len(q) + 1
<1>1. /\ Len(q) \in Nat /\ DOMAIN q = 1 .. Len(q) /\ DOMAIN p = 1 .. n
      /\ \A x \in DOMAIN q : p[x] = q[x]
      /\ p[n] = m
  BY AppendAt
<1>2. Changes(q) \in SUBSET DOMAIN q
  BY DEF Changes
<1> HIDE DEF p, n
<1>3. m.req # "change_order_state" => Changes(p) = Changes(q)
  BY <1>1 DEF Changes, n
<1>4. m.req = "change_order_state" => Changes(p) = Changes(q) \cup {n}
  BY <1>1 DEF Changes, n
<1> DEFINE X == Changes(q)
<1>5. /\ Ranks(p, X) = Ranks(q, X)
      /\ Ranks(p, X \cup {n}) = Ranks(q, X) \cup {Rank(m.state)}
      /\ Sorted(q, X) => Sorted(p, X)
      /\ (Sorted(q, X) /\ \A r \in Ranks(q, X) : r < Rank(m.state)) => Sorted(p, X \cup {n})
  <2>1. X \in SUBSET DOMAIN q
    BY <1>2
  <2> HIDE DEF X
  <2> QED
    BY <2>1, AppendRanks DEF p, n
<1> QED
  BY <1>3, <1>4, <1>5 DEF p

LEMMA QueueLoses ==
    ASSUME NEW q \in Seq(KeeperRequests), q # << >>, Sorted(q, Changes(q))
    PROVE  LET R == Ranks(q, Changes(q))
               p == Tail(q)
               v == Rank(Head(q).state)
           IN  /\ Sorted(p, Changes(p))
               /\ Head(q).req # "change_order_state" => Ranks(p, Changes(p)) = R
               /\ Head(q).req = "change_order_state" =>
                    /\ v \in R /\ \A r \in R : v <= r
                    /\ Ranks(p, Changes(p)) = R \ {v}
<1> DEFINE p == Tail(q)
           v == Rank(Head(q).state)
<1>1. 1 \in DOMAIN q /\ q[1] = Head(q) /\ Thins(p, q, {1})
  BY ThinsTail
<1>2. DOMAIN q \subseteq Nat \ {0} /\ DOMAIN p \subseteq Int
  BY LenProperties, HeadTailProperties
<1> HIDE DEF p
<1>3. /\ Changes(q) \in SUBSET DOMAIN q /\ Changes(p) \in SUBSET DOMAIN p
      /\ \A y \in DOMAIN p, x \in DOMAIN q :
            p[y] = q[x] => (y \in Changes(p) <=> x \in Changes(q))
  BY DEF Changes
<1>4. Ranks(p, Changes(p)) = Ranks(q, Changes(q) \ {1}) /\ Sorted(p, Changes(p))
  <2>1. DOMAIN q \subseteq Int
    BY <1>2
  <2> QED
    BY <1>1, <1>2, <1>3, <2>1, ThinRanks
<1>5. Head(q).req # "change_order_state" => 1 \notin Changes(q)
  BY <1>1 DEF Changes
<1>6. ASSUME Head(q).req = "change_order_state"
      PROVE  /\ v \in Ranks(q, Changes(q))
             /\ \A r \in Ranks(q, Changes(q)) : v <= r
             /\ Ranks(q, Changes(q) \ {1}) = Ranks(q, Changes(q)) \ {v}
  <2>1. 1 \in Changes(q)
    BY <1>1, <1>6 DEF Changes
  <2>2. \A x \in Changes(q) \ {1} : Rank(q[1].state) < Rank(q[x].state)
    <3>1. \A x \in Changes(q) \ {1} : 1 < x
      BY <1>2 DEF Changes
    <3> QED
      BY <2>1, <3>1 DEF Sorted
  <2>3. \A x : Rank(q[x].state) \in Int
    BY RankProperties
  <2> QED
    BY <1>1, <2>1, <2>2, <2>3 DEF Ranks
<1> QED
  BY <1>4, <1>5, <1>6 DEF p

(* The server's mailbox. *)
SameCasts(b, a) ==
    /\ \A k : /\ Ranks(b, Casted(b, k)) = Ranks(a, Casted(a, k))
              /\ Sorted(a, Casted(a, k)) => Sorted(b, Casted(b, k))
    /\ \A y \in DOMAIN b : b[y].op = "change_order_state" => Listed(b[y], a)

LEMMA SameCastsThins ==
    ASSUME NEW S, NEW a \in Seq(S), NEW b \in Seq(S), NEW gone, Thins(b, a, gone),
           \A x \in gone : a[x].op # "change_order_state"
    PROVE  SameCasts(b, a)
<1>1. DOMAIN a \subseteq Int /\ DOMAIN b \subseteq Int
  BY LenProperties
<1>2. ASSUME NEW k
      PROVE  /\ Ranks(b, Casted(b, k)) = Ranks(a, Casted(a, k))
             /\ Sorted(a, Casted(a, k)) => Sorted(b, Casted(b, k))
  <2>1. /\ Casted(a, k) \in SUBSET DOMAIN a /\ Casted(b, k) \in SUBSET DOMAIN b
        /\ \A y \in DOMAIN b, x \in DOMAIN a :
              b[y] = a[x] => (y \in Casted(b, k) <=> x \in Casted(a, k))
        /\ Casted(a, k) \ gone = Casted(a, k)
    BY DEF Casted
  <2> QED
    BY <1>1, <2>1, ThinRanks
<1>3. \A y \in DOMAIN b : Listed(b[y], a)
  BY DEF Thins, Listed
<1> QED
  BY <1>2, <1>3 DEF SameCasts

LEMMA SameCastsAppend ==
    ASSUME NEW S, NEW a \in Seq(S), NEW m \in S, m.op # "change_order_state"
    PROVE  SameCasts(Append(a, m), a)
<1> DEFINE b == Append(a, m)
           n == Len(a) + 1
<1>1. /\ Len(a) \in Nat /\ DOMAIN a = 1 .. Len(a) /\ DOMAIN b = 1 .. n
      /\ \A x \in DOMAIN a : b[x] = a[x]
      /\ b[n] = m
  BY AppendAt
<1> HIDE DEF b, n
<1>2. ASSUME NEW k
      PROVE  /\ Ranks(b, Casted(b, k)) = Ranks(a, Casted(a, k))
             /\ Sorted(a, Casted(a, k)) => Sorted(b, Casted(b, k))
  <2> DEFINE X == Casted(a, k)
  <2>1. Casted(b, k) = X
    BY <1>1 DEF Casted, n
  <2>2. \A x \in X : b[x] = a[x]
    BY <1>1 DEF Casted
  <2> HIDE DEF X
  <2>3. Ranks(b, X) = Ranks(a, X) /\ (Sorted(a, X) => Sorted(b, X))
    BY <2>2 DEF Ranks, Sorted
  <2> QED
    BY <2>1, <2>3 DEF X
<1>3. \A y \in DOMAIN b : b[y].op = "change_order_state" => Listed(b[y], a)
  BY <1>1 DEF Listed, n
<1> QED
  BY <1>2, <1>3 DEF SameCasts, b

LEMMA CastsHandled ==
    ASSUME NEW S, NEW a \in Seq(S), a # << >>, NEW k, Sorted(a, Casted(a, k))
    PROVE  LET c == Rank(Head(a).state)
               B == Ranks(a, Casted(a, k))
               B2 == Ranks(Tail(a), Casted(Tail(a), k))
           IN  /\ Sorted(Tail(a), Casted(Tail(a), k))
               /\ 1 \notin Casted(a, k) => B2 = B
               /\ 1 \in Casted(a, k) => /\ c \in B /\ \A x \in B2 : c < x
                                        /\ B = B2 \cup {c}
<1> DEFINE b == Tail(a)
           X == Casted(a, k)
           Y == Casted(b, k)
           gone == {1}
<1>1. 1 \in DOMAIN a /\ a[1] = Head(a) /\ Thins(b, a, gone)
  BY ThinsTail
<1>2. DOMAIN a \subseteq Nat \ {0} /\ DOMAIN b \subseteq Int
  BY LenProperties, HeadTailProperties
<1> HIDE DEF b
<1>3. /\ X \in SUBSET DOMAIN a /\ Y \in SUBSET DOMAIN b
      /\ \A y \in DOMAIN b, x \in DOMAIN a : b[y] = a[x] => (y \in Y <=> x \in X)
  BY DEF Casted
<1> HIDE DEF X, Y, gone
<1>4. Ranks(b, Y) = Ranks(a, X \ gone) /\ Sorted(b, Y)
  <2>1. DOMAIN a \subseteq Int /\ DOMAIN b \subseteq Int /\ Sorted(a, X)
    BY <1>2 DEF X
  <2>2. Thins(b, a, gone)
    BY <1>1
  <2> QED
    BY <1>3, <2>1, <2>2, ThinRanks
<1>5. 1 \notin X => X \ {1} = X
  OBVIOUS
<1>6. ASSUME 1 \in X
      PROVE  /\ Rank(Head(a).state) \in Ranks(a, X)
             /\ \A x \in Ranks(a, X \ {1}) : Rank(Head(a).state) < x
             /\ Ranks(a, X) = Ranks(a, X \ {1}) \cup {Rank(Head(a).state)}
  <2>1. \A x \in X \ {1} : Rank(a[1].state) < Rank(a[x].state)
    <3>1. \A x \in X \ {1} : 1 < x
      BY <1>2, <1>3
    <3>2. Sorted(a, X)
      BY DEF X
    <3> QED
      BY <1>6, <3>1, <3>2 DEF Sorted
  <2> QED
    BY <1>1, <1>6, <2>1 DEF Ranks
<1> QED
  BY <1>4, <1>5, <1>6 DEF b, X, Y, gone

LEMMA CastsGain ==
    ASSUME NEW S, NEW a \in Seq(S), NEW m \in S, m.op = "change_order_state", NEW k,
           Sorted(a, Casted(a, k))
    PROVE  LET B == Ranks(a, Casted(a, k))
               b == Append(a, m)
           IN  /\ m.order # k => /\ Ranks(b, Casted(b, k)) = B
                                 /\ Sorted(b, Casted(b, k))
               /\ m.order = k =>
                    /\ Ranks(b, Casted(b, k)) = B \cup {Rank(m.state)}
                    /\ (\A x \in B : x < Rank(m.state)) => Sorted(b, Casted(b, k))
<1> DEFINE b == Append(a, m)
           n == Len(a) + 1
           X == Casted(a, k)
<1>1. /\ Len(a) \in Nat /\ DOMAIN a = 1 .. Len(a) /\ DOMAIN b = 1 .. n
      /\ \A x \in DOMAIN a : b[x] = a[x]
      /\ b[n] = m
  BY AppendAt
<1> HIDE DEF b, n
<1>2. /\ m.order # k => Casted(b, k) = X
      /\ m.order = k => Casted(b, k) = X \cup {n}
  BY <1>1 DEF Casted, n
<1>3. \A x \in X : b[x] = a[x] /\ x < n /\ x \in Int
  BY <1>1 DEF Casted, n
<1> HIDE DEF X
<1>4. Sorted(a, X) /\ n \in Int
  BY <1>1 DEF X, n
<1>5. Ranks(b, X) = Ranks(a, X) /\ Sorted(b, X)
  BY <1>3, <1>4 DEF Ranks, Sorted
<1>6. Ranks(b, X \cup {n}) = Ranks(a, X) \cup {Rank(m.state)}
  BY <1>1, <1>3 DEF Ranks
<1>7. ASSUME \A x \in Ranks(a, X) : x < Rank(m.state),
             NEW x \in X \cup {n}, NEW y \in X \cup {n}, x < y
      PROVE  Rank(b[x].state) < Rank(b[y].state)
  <2>1. x \in X
    BY <1>3, <1>4, <1>7
  <2>2. CASE y \in X
    BY <1>3, <1>4, <1>7, <2>1, <2>2 DEF Sorted
  <2>3. CASE y = n
    BY <1>1, <1>3, <1>7, <2>1, <2>3 DEF Ranks
  <2> QED
    BY <2>2, <2>3
<1>8. (\A x \in Ranks(a, X) : x < Rank(m.state)) => Sorted(b, X \cup {n})
  BY <1>7 DEF Sorted
<1> QED
  BY <1>2, <1>5, <1>6, <1>8 DEF b, X

(* The keeper reads its mailbox one change at a time, in the order of the
   stages, and so does the server that passes the timer's casts on. *)
Line(k) == InLine(Rank(keepers[k].state), keepers[k].mbox)
Way(k) == OnTheWay(Rank(keepers[k].state), keepers[k].mbox, k, mbox, timers[k].sent)
InStep ==
    /\ Len(keepers) = order_count /\ Len(timers) = order_count
    /\ \A t \in DOMAIN timers : timers[t].order = t
    /\ \A n \in DOMAIN orders : orders[n].keeper = orders[n].id
    /\ \A i \in DOMAIN mbox :
        mbox[i].op = "change_order_state" => mbox[i].order \in DOMAIN keepers
    /\ \A k \in DOMAIN keepers : Way(k)
TrackInv ==
    /\ \A k \in DOMAIN keepers : Line(k)
    /\ pc # "down" => InStep

LEMMA WaySame ==
    ASSUME NEW v, NEW q, NEW p, NEW k, NEW a, NEW b, NEW sent,
           OnTheWay(v, q, k, a, sent), SameCasts(b, a),
           Ranks(p, Changes(p)) = Ranks(q, Changes(q))
    PROVE  OnTheWay(v, p, k, b, sent)
BY DEF OnTheWay, SameCasts

LEMMA CastsKeep ==
    ASSUME InStep, SameCasts(mbox', mbox), DOMAIN keepers \subseteq DOMAIN keepers'
    PROVE  \A i \in DOMAIN mbox' :
                mbox'[i].op = "change_order_state" => mbox'[i].order \in DOMAIN keepers'
BY DEF InStep, SameCasts, Listed

(* A step that is not about orders. *)
LEMMA WayKept ==
    ASSUME TypeOK, TrackInv, UNCHANGED <<orders, order_count, keepers, timers>>,
           pc' # "down" => pc # "down" /\ SameCasts(mbox', mbox)
    PROVE  TrackInv'
<1>1. \A k \in DOMAIN keepers' : Line(k)'
  BY DEF TrackInv, Line
<1>2. ASSUME pc' # "down"
      PROVE  InStep'
  <2>1. InStep /\ SameCasts(mbox', mbox)
    BY <1>2 DEF TrackInv
  <2>2. ASSUME NEW k \in DOMAIN keepers
        PROVE  Way(k)'
    BY <2>1, WaySame DEF InStep, Way
  <2>3. \A i \in DOMAIN mbox' :
           mbox'[i].op = "change_order_state" => mbox'[i].order \in DOMAIN keepers'
    BY <2>1, CastsKeep
  <2> QED
    BY <2>1, <2>2, <2>3 DEF InStep
<1> QED
  BY <1>1, <1>2 DEF TrackInv

(* What a step that handles no cast and sends none does to the mailbox. *)
LEMMA QuietMail ==
    ASSUME TypeOK,
           \/ mbox' = mbox
           \/ mbox # << >> /\ Head(mbox).op # "change_order_state" /\ mbox' = Tail(mbox)
           \/ \E i \in DOMAIN mbox : Take(i)
           \/ \E m \in Messages : m.op # "change_order_state" /\ mbox' = Append(mbox, m)
    PROVE  SameCasts(mbox', mbox)
<1>1. mbox \in Seq(Messages)
  BY DEF TypeOK, TypeServer
<1>2. CASE mbox' = mbox
  BY <1>1, <1>2, ThinsSame, SameCastsThins
<1>3. CASE mbox # << >> /\ Head(mbox).op # "change_order_state" /\ mbox' = Tail(mbox)
  <2> DEFINE gone == {1}
  <2>1. mbox[1] = Head(mbox) /\ Thins(mbox', mbox, gone)
    BY <1>1, <1>3, ThinsTail
  <2>2. mbox' \in Seq(Messages)
    BY <1>1, <1>3, HeadTailProperties
  <2>3. \A x \in gone : mbox[x].op # "change_order_state"
    BY <1>3, <2>1
  <2> HIDE DEF gone
  <2> QED
    BY <1>1, <2>1, <2>2, <2>3, SameCastsThins
<1>4. ASSUME NEW i \in DOMAIN mbox, Take(i)
      PROVE  SameCasts(mbox', mbox)
  <2>1. mbox' = RemoveAt(mbox, i) /\ mbox[i].op = "reply"
    BY <1>4 DEF Take, FirstMatch, Matches
  <2>2. Thins(mbox', mbox, {i}) /\ mbox' \in Seq(Messages)
    BY <1>1, <2>1, ThinsRemoveAt, RemoveAtProperties
  <2> QED
    BY <1>1, <2>1, <2>2, SameCastsThins
<1>5. ASSUME NEW m \in Messages, m.op # "change_order_state", mbox' = Append(mbox, m)
      PROVE  SameCasts(mbox', mbox)
  BY <1>1, <1>5, SameCastsAppend
<1> QED
  BY <1>2, <1>3, <1>4, <1>5

(* Steps that leave the orders alone. *)
LEMMA TrackCalls ==
    ASSUME TypeOK, TrackInv, NEW c \in Clients, CallAccount(c) \/ CallSession(c)
    PROVE  TrackInv'
<1>1. PICK m \in Messages : m.op # "change_order_state" /\ mbox' = Append(mbox, m)
  <2>1. CASE CallAccount(c)
    BY <2>1 DEF CallAccount, Call, Deliver, Messages, Calls, AccountCalls
  <2>2. CASE CallSession(c)
    <3>1. PICK op \in SessionOps, i \in DOMAIN sessions :
             \E m \in SessionCall(op, c, i) : Call(c, m, ~sessions[i].alive)
      BY <2>2 DEF CallSession
    <3>2. SessionCall(op, c, i) \subseteq SessionCalls
      <4>1. 1 .. MaxOrders \subseteq Nat
        OBVIOUS
      <4> QED
        BY <4>1 DEF SessionCall, SessionCalls, SessionOps
    <3>3. /\ SessionCalls \subseteq Messages
          /\ \A m \in SessionCalls : m.op # "change_order_state"
      BY DEF SessionCalls, Messages, Calls
    <3> QED
      BY <3>1, <3>2, <3>3 DEF Call, Deliver
  <2> QED
    BY <2>1, <2>2
<1>2. pc' = pc /\ UNCHANGED <<orders, order_count, keepers, timers>>
  BY DEF CallAccount, CallSession, Call, shop
<1>3. SameCasts(mbox', mbox)
  BY <1>1, QuietMail
<1> QED
  BY <1>2, <1>3, WayKept

LEMMA TrackSessions ==
    ASSUME TypeOK, TrackInv, NEW i \in DOMAIN sessions,
           SessionReceive(i) \/ SessionExpire(i)
    PROVE  TrackInv'
<1>1. pc' = pc /\ UNCHANGED <<orders, order_count, keepers, timers>>
  BY DEF SessionReceive, SessionExpire, server, shop
<1>2. mbox' = mbox \/ \E m \in Messages : m.op # "change_order_state" /\ mbox' = Append(mbox, m)
  <2>1. CASE SessionExpire(i)
    BY <2>1 DEF SessionExpire, server
  <2>2. CASE SessionReceive(i)
    <3> DEFINE req == Head(sessions[i].mbox).req
               m == [op |-> "reply", from |-> Session(i), val |-> SessionAnswer(i, req)]
    <3>1. sessions[i] \in SessionActors /\ i \in Nat
      BY ElementType, LenProperties DEF TypeOK, TypeActors
    <3>2. m \in Messages
      BY <3>1 DEF Messages, Replies, Session, Pids, SessionAnswer, SessionActors
    <3>3. mbox' = mbox \/ mbox' = Append(mbox, m)
      BY <2>2 DEF SessionReceive, ToServer, Deliver
    <3> QED
      BY <3>2, <3>3
  <2> QED
    BY <2>1, <2>2
<1> QED
  BY <1>1, <1>2, QuietMail, WayKept

LEMMA TrackStop ==
    ASSUME TypeOK, TrackInv, Terminate,
           \/ keepers' = keepers
           \/ keepers' = Append(keepers, [state |-> "placed", mbox |-> << >>])
    PROVE  TrackInv'
<1>1. pc' = "down"
  BY DEF Terminate
<1>2. keepers \in Seq(KeeperActors)
  BY DEF TypeOK, TypeActors
<1> DEFINE e == [state |-> "placed", mbox |-> << >>]
<1>3. InLine(Rank(e.state), e.mbox)
  BY DEF InLine, Sorted, Ranks, Changes
<1>4. e \in KeeperActors
  BY EmptySeq DEF KeeperActors, States
<1> HIDE DEF e
<1>5. ASSUME NEW k \in DOMAIN keepers'
      PROVE  keepers'[k] = e \/ (k \in DOMAIN keepers /\ keepers'[k] = keepers[k])
  <2>1. keepers' = keepers \/ keepers' = Append(keepers, e)
    BY DEF e
  <2>2. CASE keepers' = Append(keepers, e)
    BY <1>2, <1>4, <2>2, AppendAt
  <2> QED
    BY <2>1, <2>2
<1>6. \A k \in DOMAIN keepers' : Line(k)'
  BY <1>3, <1>5 DEF TrackInv, Line
<1> QED
  BY <1>1, <1>6 DEF TrackInv

LEMMA TrackQuiet ==
    ASSUME TypeOK, TrackInv,
           \/ HandleRegister \/ HandleLogIn \/ CheckAuth \/ HandleInfo \/ LogOut
           \/ GetAllItems \/ AddNewItem \/ GetMyOrders \/ LogOutOk
           \/ OrderStateFetched \/ OrderStateChanged \/ CallTimesOut \/ ChangeTimesOut
    PROVE  TrackInv'
<1>1. CASE Terminate /\ keepers' = keepers
  BY <1>1, TrackStop
<1>2. ASSUME UNCHANGED <<orders, order_count, keepers, timers>>, pc # "down",
             \/ mbox' = mbox
             \/ mbox # << >> /\ Head(mbox).op # "change_order_state" /\ mbox' = Tail(mbox)
             \/ \E i \in DOMAIN mbox : Take(i)
      PROVE  TrackInv'
  BY <1>2, QuietMail, WayKept
<1>3. CASE HandleRegister \/ HandleLogIn
  BY <1>2, <1>3 DEF HandleRegister, HandleLogIn, Handle, shop
<1>4. CASE CheckAuth
  BY <1>2, <1>4 DEF CheckAuth, SessionOps, shop
<1>5. CASE HandleInfo \/ LogOut
  BY <1>1, <1>2, <1>5 DEF HandleInfo, LogOut, Authenticated, shop
<1>6. CASE GetAllItems \/ AddNewItem
  BY <1>1, <1>2, <1>6 DEF GetAllItems, AddNewItem, Authenticated, shop
<1>7. CASE GetMyOrders
  BY <1>1, <1>2, <1>7 DEF GetMyOrders, Authenticated, shop
<1>8. CASE LogOutOk \/ OrderStateFetched \/ OrderStateChanged
  BY <1>2, <1>8 DEF LogOutOk, OrderStateFetched, OrderStateChanged, shop
<1>9. CASE CallTimesOut \/ ChangeTimesOut
  BY <1>2, <1>9 DEF CallTimesOut, ChangeTimesOut, shop
<1> QED
  BY <1>3, <1>4, <1>5, <1>6, <1>7, <1>8, <1>9

(* The keeper that a keeper's mailbox has grown by one request is as it was. *)
LEMMA KeeperAsked ==
    ASSUME TypeOK, NEW k \in DOMAIN keepers, NEW r \in KeeperRequests, AskKeeper(k, r)
    PROVE  /\ DOMAIN keepers' = DOMAIN keepers /\ Len(keepers') = Len(keepers)
           /\ keepers'[k].state = keepers[k].state
           /\ keepers'[k].mbox = Append(keepers[k].mbox, r)
           /\ keepers[k].mbox \in Seq(KeeperRequests)
           /\ \A j \in DOMAIN keepers : j # k => keepers'[j] = keepers[j]
<1>1. keepers[k] \in KeeperActors /\ keepers \in Seq(KeeperActors)
  BY ElementType DEF TypeOK, TypeActors
<1>2. DOMAIN keepers = 1 .. Len(keepers) /\ Len(keepers) \in Nat
  BY <1>1, LenProperties
<1>3. keepers' = [keepers EXCEPT ![k].mbox = Append(@, r)]
  BY DEF AskKeeper, Deliver
<1>4. keepers' \in Seq(KeeperActors) /\ DOMAIN keepers' = DOMAIN keepers
  BY AskKeeperType DEF TypeOK
<1>5. Len(keepers') = Len(keepers)
  BY <1>2, <1>4, LenProperties
<1> QED
  BY <1>1, <1>3, <1>4, <1>5 DEF KeeperActors

LEMMA TrackGetOrderState ==
    ASSUME TypeOK, TrackInv, GetOrderState
    PROVE  TrackInv'
<1>2. pc # "down"
  BY DEF GetOrderState, Authenticated
<1>3. CASE Terminate /\ keepers' = keepers
  BY <1>3, TrackStop
<1>4. ASSUME NEW i \in DOMAIN mbox, Take(i), UNCHANGED <<shop, keepers, timers>>
      PROVE  TrackInv'
  BY <1>2, <1>4, QuietMail, WayKept DEF shop
<1> DEFINE o == OrderKeeper(job.order)
           r == [from |-> inc, req |-> "get_order_state"]
<1>5. ASSUME NEW i \in DOMAIN mbox, Take(i), Cardinality(OrdersWithId(job.order)) = 1,
             AskKeeper(o, r), UNCHANGED <<shop, timers>>
      PROVE  TrackInv'
  <2>1. o \in DOMAIN keepers
    BY <1>5, OrderKeeperType DEF TypeOK
  <2>2. r \in KeeperRequests /\ r.req # "change_order_state"
    BY DEF TypeOK, TypeServer, KeeperRequests
  <2> HIDE DEF o, r
  <2>3. /\ DOMAIN keepers' = DOMAIN keepers /\ Len(keepers') = Len(keepers)
        /\ keepers'[o].state = keepers[o].state
        /\ keepers'[o].mbox = Append(keepers[o].mbox, r)
        /\ keepers[o].mbox \in Seq(KeeperRequests)
        /\ \A j \in DOMAIN keepers : j # o => keepers'[j] = keepers[j]
    BY <1>5, <2>1, <2>2, KeeperAsked
  <2>4. ASSUME NEW k \in DOMAIN keepers
        PROVE  /\ keepers'[k].state = keepers[k].state
               /\ Ranks(keepers'[k].mbox, Changes(keepers'[k].mbox))
                    = Ranks(keepers[k].mbox, Changes(keepers[k].mbox))
               /\ Sorted(keepers[k].mbox, Changes(keepers[k].mbox))
                    => Sorted(keepers'[k].mbox, Changes(keepers'[k].mbox))
    <3>1. CASE k = o
      <4> DEFINE q == keepers[o].mbox
                 p == keepers'[o].mbox
      <4>1. q \in Seq(KeeperRequests) /\ p = Append(q, r)
        BY <2>3
      <4> HIDE DEF q, p
      <4>2. /\ Ranks(p, Changes(p)) = Ranks(q, Changes(q))
            /\ Sorted(q, Changes(q)) => Sorted(p, Changes(p))
        BY <2>2, <4>1, QueueGains
      <4> QED
        BY <2>3, <3>1, <4>2 DEF q, p
    <3> QED
      BY <2>3, <3>1
  <2>5. SameCasts(mbox', mbox)
    BY <1>5, QuietMail
  <2>6. \A k \in DOMAIN keepers' : Line(k)'
    BY <2>3, <2>4 DEF TrackInv, Line, InLine
  <2>7. InStep
    BY <1>2 DEF TrackInv
  <2>8. ASSUME NEW k \in DOMAIN keepers
        PROVE  Way(k)'
    BY <1>5, <2>4, <2>5, <2>7, WaySame DEF InStep, Way
  <2>9. \A j \in DOMAIN mbox' :
           mbox'[j].op = "change_order_state" => mbox'[j].order \in DOMAIN keepers'
    BY <2>3, <2>5, <2>7, CastsKeep
  <2>10. InStep'
    BY <1>5, <2>3, <2>7, <2>8, <2>9 DEF InStep, shop
  <2> QED
    BY <2>6, <2>10 DEF TrackInv
<1> HIDE DEF o, r
<1> QED
  BY <1>3, <1>4, <1>5 DEF GetOrderState, o, r

(* A cast is passed on to the keeper of its order. *)
LEMMA PassedOn ==
    ASSUME NEW v, NEW q \in Seq(KeeperRequests), NEW k, NEW a \in Seq(Messages), NEW sent \in 0 .. 3,
           InLine(v, q), OnTheWay(v, q, k, a, sent), a # << >>, 1 \in Casted(a, k),
           NEW r \in KeeperRequests, r.req = "change_order_state",
           Rank(r.state) = Rank(Head(a).state), v \in 0 .. 3
    PROVE  /\ InLine(v, Append(q, r))
           /\ OnTheWay(v, Append(q, r), k, Tail(a), sent)
<1> DEFINE c == Rank(r.state)
           p == Append(q, r)
           b == Tail(a)
           R == Ranks(q, Changes(q))
           B == Ranks(a, Casted(a, k))
           R2 == Ranks(p, Changes(p))
           B2 == Ranks(b, Casted(b, k))
<1>1. /\ Sorted(b, Casted(b, k)) /\ c \in B /\ (\A x \in B2 : c < x) /\ B = B2 \cup {c}
  <2>1. Sorted(a, Casted(a, k))
    BY DEF OnTheWay
  <2> QED
    BY <2>1, CastsHandled
<1>2. v < c /\ c <= sent /\ \A x \in R : x < c
  BY <1>1 DEF OnTheWay
<1>3. R2 = R \cup {c} /\ Sorted(p, Changes(p))
  <2>1. Sorted(q, Changes(q))
    BY DEF InLine
  <2> QED
    BY <1>2, <2>1, QueueGains
<1>4. c \in 0 .. 3 /\ R \subseteq 0 .. 3 /\ B2 \subseteq 0 .. 3
  BY RankProperties DEF Ranks
<1>5. ASSUME NEW x \in R2
      PROVE  v < x /\ x <= sent /\ \A n \in 1 .. 3 : v < n /\ n < x => n \in R2
  <2>1. CASE x \in R
    BY <1>3, <2>1 DEF InLine, OnTheWay
  <2>2. CASE x = c
    <3>1. ASSUME NEW n \in 1 .. 3, v < n, n < c
          PROVE  n \in R2
      <4>1. n \in 1 .. sent /\ ~(n <= v)
        BY <1>2, <1>4, <3>1
      <4>2. n \in R \/ n \in B
        BY <4>1 DEF OnTheWay
      <4>3. n \notin B
        BY <1>1, <1>4, <3>1
      <4> QED
        BY <1>3, <4>2, <4>3
    <3> QED
      BY <1>2, <2>2, <3>1
  <2> QED
    BY <1>3, <2>1, <2>2
<1>6. ASSUME NEW x \in B2
      PROVE  v < x /\ x <= sent /\ \A n \in R2 : n < x
  <2>1. x \in B
    BY <1>1
  <2>2. v < x /\ x <= sent /\ \A n \in R : n < x
    BY <2>1 DEF OnTheWay
  <2> QED
    BY <1>1, <1>3, <2>2
<1>7. \A n \in 1 .. sent : n <= v \/ n \in R2 \/ n \in B2
  BY <1>1, <1>3 DEF OnTheWay
<1>8. v <= sent
  BY DEF OnTheWay
<1> HIDE DEF c
<1> QED
  BY <1>1, <1>3, <1>5, <1>6, <1>7, <1>8 DEF InLine, OnTheWay

LEMMA TrackHandleCast ==
    ASSUME TypeOK, OrderBookCoherent, TrackInv, HandleCast
    PROVE  TrackInv'
<1> DEFINE o == Head(mbox).order
           r == [from |-> inc, req |-> "change_order_state", state |-> Head(mbox).state]
<1>1. pc # "down" /\ mbox # << >> /\ Head(mbox).op = "change_order_state"
  BY DEF HandleCast
<1>2. CASE Terminate /\ keepers' = keepers
  BY <1>2, TrackStop
<1>3. ASSUME Cardinality(OrdersWithId(o)) = 1, mbox' = Tail(mbox), pc' = "change",
             AskKeeper(OrderKeeper(o), r), UNCHANGED <<inc, shop, sessions, timers>>
      PROVE  TrackInv'
  <2>1. InStep
    BY <1>1 DEF TrackInv
  <2>2. OrderKeeper(o) = o /\ o \in DOMAIN keepers
    BY <1>3, <2>1, OrderKeeperType DEF InStep, TypeOK
  <2>3. Head(mbox) \in Casts
    BY <1>1, HeadType DEF TypeOK
  <2>4. /\ r \in KeeperRequests /\ r.req = "change_order_state"
        /\ Rank(r.state) = Rank(Head(mbox).state)
    BY <2>3 DEF TypeOK, TypeServer, KeeperRequests, Casts
  <2>5. 1 \in DOMAIN mbox /\ mbox[1] = Head(mbox) /\ mbox \in Seq(Messages)
    BY <1>1, ThinsTail DEF TypeOK, TypeServer
  <2>6. 1 \in Casted(mbox, o) /\ \A k : k # o => 1 \notin Casted(mbox, k)
    BY <1>1, <2>5 DEF Casted
  <2> HIDE DEF o, r
  <2>7. /\ DOMAIN keepers' = DOMAIN keepers /\ Len(keepers') = Len(keepers)
        /\ keepers'[o].state = keepers[o].state
        /\ keepers'[o].mbox = Append(keepers[o].mbox, r)
        /\ keepers[o].mbox \in Seq(KeeperRequests)
        /\ \A j \in DOMAIN keepers : j # o => keepers'[j] = keepers[j]
    BY <1>3, <2>2, <2>4, KeeperAsked
  <2>8. ASSUME NEW k \in DOMAIN keepers
        PROVE  Line(k)' /\ Way(k)'
    <3> DEFINE v == Rank(keepers[k].state)
               q == keepers[k].mbox
               sent == timers[k].sent
    <3>1. InLine(v, q) /\ OnTheWay(v, q, k, mbox, sent)
      BY <2>1 DEF TrackInv, Line, InStep, Way
    <3>2. CASE k = o
      <4>1. sent \in 0 .. 3 /\ v \in 0 .. 3 /\ q \in Seq(KeeperRequests)
        <5>1. timers \in Seq(TimerActors) /\ k \in DOMAIN timers
          <6>1. /\ DOMAIN timers = 1 .. Len(timers) /\ DOMAIN keepers = 1 .. Len(keepers)
            BY LenProperties DEF TypeOK, TypeActors
          <6> QED
            BY <2>1, <6>1 DEF InStep, TypeOK, TypeActors
        <5>2. timers[k] \in TimerActors
          BY <5>1, ElementType
        <5> QED
          BY <2>7, <3>2, <5>2, RankProperties DEF TimerActors
      <4> HIDE DEF v, q, sent
      <4>2. /\ InLine(v, Append(q, r))
            /\ OnTheWay(v, Append(q, r), k, Tail(mbox), sent)
        BY <1>1, <2>4, <2>5, <2>6, <3>1, <3>2, <4>1, PassedOn
      <4> QED
        BY <1>3, <2>7, <3>2, <4>2 DEF Line, Way, v, q, sent
    <3>3. CASE k # o
      <4>1. 1 \notin Casted(mbox, k) /\ Sorted(mbox, Casted(mbox, k))
        BY <2>6, <3>1, <3>3 DEF OnTheWay
      <4>2. /\ Sorted(Tail(mbox), Casted(Tail(mbox), k))
            /\ Ranks(Tail(mbox), Casted(Tail(mbox), k)) = Ranks(mbox, Casted(mbox, k))
        BY <1>1, <2>5, <4>1, CastsHandled
      <4> HIDE DEF v, q, sent
      <4>3. OnTheWay(v, q, k, Tail(mbox), sent)
        BY <3>1, <4>2 DEF OnTheWay
      <4> QED
        BY <1>3, <2>7, <3>1, <3>3, <4>3 DEF Line, Way, v, q, sent
    <3> QED
      BY <3>2, <3>3
  <2>9. \A j \in DOMAIN mbox' :
           mbox'[j].op = "change_order_state" => mbox'[j].order \in DOMAIN keepers'
    <3>1. \A j \in DOMAIN mbox' : Listed(mbox'[j], mbox)
      BY <1>1, <1>3, <2>5, TailListed
    <3> QED
      BY <2>1, <2>7, <3>1 DEF InStep, Listed
  <2>10. InStep'
    BY <1>3, <2>1, <2>7, <2>8, <2>9 DEF InStep, shop
  <2> QED
    BY <2>7, <2>8, <2>10 DEF TrackInv
<1> HIDE DEF o, r
<1> QED
  BY <1>2, <1>3 DEF HandleCast, o, r

(* The keeper reads its next request. *)
LEMMA ReadInLine ==
    ASSUME NEW v \in 0 .. 3, NEW q \in Seq(KeeperRequests), q # << >>, InLine(v, q)
    PROVE  /\ Head(q).req # "change_order_state" =>
                /\ InLine(v, Tail(q))
                /\ Ranks(Tail(q), Changes(Tail(q))) = Ranks(q, Changes(q))
           /\ Head(q).req = "change_order_state" =>
                /\ Rank(Head(q).state) = v + 1
                /\ v + 1 \in Ranks(q, Changes(q))
                /\ InLine(v + 1, Tail(q))
                /\ Ranks(Tail(q), Changes(Tail(q))) = Ranks(q, Changes(q)) \ {v + 1}
<1> DEFINE R == Ranks(q, Changes(q))
           p == Tail(q)
           R2 == Ranks(p, Changes(p))
           c == Rank(Head(q).state)
<1>1. /\ Sorted(p, Changes(p))
      /\ Head(q).req # "change_order_state" => R2 = R
      /\ Head(q).req = "change_order_state" =>
            c \in R /\ (\A r \in R : c <= r) /\ R2 = R \ {c}
  BY QueueLoses DEF InLine
<1>2. \A r \in R : /\ v < r
                   /\ \A n \in 1 .. 3 : v < n /\ n < r => n \in R
  BY DEF InLine
<1>3. R \subseteq 0 .. 3 /\ c \in 0 .. 3
  BY RankProperties DEF Ranks
<1> HIDE DEF R, R2, p, c
<1>4. CASE Head(q).req # "change_order_state"
  BY <1>1, <1>2, <1>4 DEF InLine, R, R2, p
<1>5. CASE Head(q).req = "change_order_state"
  <2>1. c = v + 1
    <3>1. v < c
      BY <1>1, <1>2, <1>5
    <3>2. CASE v + 1 < c
      <4>1. v + 1 \in 1 .. 3
        BY <1>3, <3>2
      <4>2. v + 1 \in R
        BY <1>1, <1>2, <1>5, <3>2, <4>1
      <4> QED
        BY <1>1, <1>3, <1>5, <3>2, <4>2
    <3> QED
      BY <1>3, <3>1, <3>2
  <2>2. ASSUME NEW r \in R2
        PROVE  /\ v + 1 < r
               /\ \A n \in 1 .. 3 : v + 1 < n /\ n < r => n \in R2
    <3>1. r \in R /\ r # c /\ c <= r /\ r \in 0 .. 3
      BY <1>1, <1>3, <1>5, <2>2
    <3>2. \A n \in 1 .. 3 : v + 1 < n /\ n < r => n \in R /\ n # c
      BY <1>2, <2>1, <3>1
    <3> QED
      BY <1>1, <1>5, <2>1, <3>1, <3>2
  <2> QED
    BY <1>1, <1>5, <2>1, <2>2 DEF InLine, R, R2, p, c
<1> QED
  BY <1>4, <1>5

(* What a keeper does. *)
LEMMA KeeperReads ==
    ASSUME TypeOK, NEW k \in DOMAIN keepers, KeeperReceive(k)
    PROVE  /\ DOMAIN keepers' = DOMAIN keepers /\ Len(keepers') = Len(keepers)
           /\ keepers[k].mbox \in Seq(KeeperRequests) /\ keepers[k].mbox # << >>
           /\ keepers[k].state \in States
           /\ keepers'[k].mbox = Tail(keepers[k].mbox)
           /\ keepers'[k].state = IF Head(keepers[k].mbox).req = "change_order_state"
                                  THEN Head(keepers[k].mbox).state ELSE keepers[k].state
           /\ \A j \in DOMAIN keepers : j # k => keepers'[j] = keepers[j]
           /\ mbox' = mbox \/ \E m \in Messages : m.op # "change_order_state"
                                                  /\ mbox' = Append(mbox, m)
           /\ pc' = pc /\ UNCHANGED <<shop, timers>>
<1>1. /\ keepers[k] \in KeeperActors /\ keepers \in Seq(KeeperActors)
      /\ DOMAIN keepers = 1 .. Len(keepers) /\ Len(keepers) \in Nat /\ k \in Nat
  BY ElementType, LenProperties DEF TypeOK, TypeActors
<1> DEFINE q == keepers[k].mbox
           m == Head(q)
<1>2. q # << >> /\ q \in Seq(KeeperRequests) /\ keepers[k].state \in States
  BY <1>1 DEF KeeperReceive, KeeperActors
<1>3. \/ m.req = "get_order_state" /\ keepers' = [keepers EXCEPT ![k].mbox = Tail(@)]
      \/ m.req = "change_order_state"
         /\ keepers' = [keepers EXCEPT ![k] = [state |-> m.state, mbox |-> Tail(@.mbox)]]
  BY DEF KeeperReceive
<1>4. \A v \in States \cup {"ok"} : [op |-> "reply", from |-> Keeper(k), val |-> v] \in Messages
  BY <1>1 DEF Messages, Replies, Keeper, Pids
<1>5. mbox' = mbox \/ \E v \in States \cup {"ok"} :
                          mbox' = Append(mbox, [op |-> "reply", from |-> Keeper(k), val |-> v])
  BY <1>2 DEF KeeperReceive, ToServer, Deliver
<1>6. mbox' = mbox \/ \E x \in Messages : x.op # "change_order_state" /\ mbox' = Append(mbox, x)
  BY <1>4, <1>5
<1>7. DOMAIN keepers' = DOMAIN keepers
  BY <1>3
<1>8. TypeOK'
  BY TypeKeeper
<1>9. Len(keepers') = Len(keepers)
  BY <1>1, <1>7, <1>8, LenProperties DEF TypeOK, TypeActors
<1>10. pc' = pc /\ UNCHANGED <<shop, timers>>
  BY DEF KeeperReceive
<1>11. \A j \in DOMAIN keepers : j # k => keepers'[j] = keepers[j]
  BY <1>1, <1>3
<1>12. /\ keepers'[k].mbox = Tail(q)
       /\ keepers'[k].state = IF m.req = "change_order_state" THEN m.state ELSE keepers[k].state
  BY <1>1, <1>3 DEF KeeperActors
<1> HIDE DEF q, m
<1> QED
  BY <1>2, <1>6, <1>7, <1>9, <1>10, <1>11, <1>12 DEF q, m

LEMMA TrackKeeper ==
    ASSUME TypeOK, TrackInv, NEW k \in DOMAIN keepers, KeeperReceive(k)
    PROVE  TrackInv'
<1> DEFINE v == Rank(keepers[k].state)
           q == keepers[k].mbox
           c == Head(q).req = "change_order_state"
           w == Rank(keepers'[k].state)
<1>1. /\ DOMAIN keepers' = DOMAIN keepers /\ Len(keepers') = Len(keepers)
      /\ q \in Seq(KeeperRequests) /\ q # << >>
      /\ keepers'[k].mbox = Tail(q)
      /\ keepers'[k].state = IF c THEN Head(q).state ELSE keepers[k].state
      /\ \A j \in DOMAIN keepers : j # k => keepers'[j] = keepers[j]
      /\ mbox' = mbox \/ \E m \in Messages : m.op # "change_order_state"
                                             /\ mbox' = Append(mbox, m)
      /\ pc' = pc /\ UNCHANGED <<shop, timers>>
  BY KeeperReads
<1>2. v \in 0 .. 3 /\ InLine(v, q)
  BY RankProperties DEF TrackInv, Line
<1> HIDE DEF v, q
<1>3. /\ ~c => /\ InLine(v, Tail(q))
               /\ Ranks(Tail(q), Changes(Tail(q))) = Ranks(q, Changes(q))
      /\ c => /\ Rank(Head(q).state) = v + 1
              /\ v + 1 \in Ranks(q, Changes(q))
              /\ InLine(v + 1, Tail(q))
              /\ Ranks(Tail(q), Changes(Tail(q))) = Ranks(q, Changes(q)) \ {v + 1}
  BY <1>1, <1>2, ReadInLine
<1>4. /\ ~c => w = v
      /\ c => w = v + 1
  BY <1>1, <1>3 DEF v
<1>5. InLine(w, Tail(q))
  BY <1>3, <1>4
<1>6. \A j \in DOMAIN keepers' : Line(j)'
  BY <1>1, <1>5 DEF TrackInv, Line
<1>7. SameCasts(mbox', mbox)
  BY <1>1, QuietMail
<1>8. ASSUME pc # "down"
      PROVE  InStep'
  <2>1. InStep
    BY <1>8 DEF TrackInv
  <2>2. OnTheWay(v, q, k, mbox, timers[k].sent)
    BY <2>1 DEF InStep, Way, v, q
  <2>3. OnTheWay(w, Tail(q), k, mbox, timers[k].sent)
    <3>1. CASE ~c
      BY <1>3, <1>4, <2>2, <3>1 DEF OnTheWay
    <3>2. CASE c
      <4> DEFINE R == Ranks(q, Changes(q))
                 B == Ranks(mbox, Casted(mbox, k))
                 sent == timers[k].sent
      <4>1. v + 1 <= sent /\ \A b \in B : v + 1 < b
        BY <1>3, <2>2, <3>2 DEF OnTheWay
      <4>2. \A n \in 1 .. sent : n <= v + 1 \/ n \in R \ {v + 1} \/ n \in B
        <5>1. \A n \in 1 .. sent : n <= v \/ n \in R \/ n \in B
          BY <2>2 DEF OnTheWay
        <5> HIDE DEF R, B
        <5> QED
          BY <1>2, <5>1
      <4>3. Ranks(Tail(q), Changes(Tail(q))) = R \ {v + 1} /\ w = v + 1
        BY <1>3, <1>4, <3>2
      <4> HIDE DEF w
      <4> QED
        BY <2>2, <4>1, <4>2, <4>3 DEF OnTheWay
    <3> QED
      BY <3>1, <3>2
  <2>4. ASSUME NEW j \in DOMAIN keepers
        PROVE  Way(j)'
    <3>1. CASE j = k
      <4>1. OnTheWay(w, Tail(q), k, mbox', timers[k].sent)
        BY <1>7, <2>3, WaySame
      <4> QED
        BY <1>1, <3>1, <4>1 DEF Way
    <3>2. CASE j # k
      <4>1. OnTheWay(Rank(keepers[j].state), keepers[j].mbox, j, mbox', timers[j].sent)
        BY <1>7, <2>1, WaySame DEF InStep, Way
      <4> QED
        BY <1>1, <3>2, <4>1 DEF Way
    <3> QED
      BY <3>1, <3>2
  <2>5. \A j \in DOMAIN mbox' :
           mbox'[j].op = "change_order_state" => mbox'[j].order \in DOMAIN keepers'
    BY <1>1, <1>7, <2>1, CastsKeep
  <2> QED
    BY <1>1, <2>1, <2>4, <2>5 DEF InStep, shop
<1> QED
  BY <1>1, <1>6, <1>8 DEF TrackInv

LEMMA TrackTimer ==
    ASSUME TypeOK, TrackInv, NEW t \in DOMAIN timers, TimerFire(t)
    PROVE  TrackInv'
<1> DEFINE sent == timers[t].sent
           m == [op |-> "change_order_state", order |-> timers[t].order,
                 state |-> Stages[sent + 1]]
<1>1. /\ timers \in Seq(TimerActors) /\ DOMAIN timers = 1 .. Len(timers)
      /\ Len(timers) \in Nat /\ timers[t] \in TimerActors
  BY ElementType, LenProperties DEF TypeOK, TypeActors
<1>2. sent \in 0 .. 2 /\ Rank(m.state) = sent + 1 /\ m \in Messages
  <2>1. sent \in 0 .. 2
    BY <1>1, RankProperties DEF TimerFire, Running, TimerActors
  <2>2. Stages[sent + 1] \in Range(Stages) /\ Rank(Stages[sent + 1]) = sent + 1
    BY <2>1, RankProperties
  <2> QED
    BY <1>1, <2>1, <2>2 DEF Messages, Casts, TimerActors
<1>3. /\ pc' = pc /\ UNCHANGED <<orders, order_count, keepers>>
      /\ timers' = [timers EXCEPT ![t].sent = @ + 1]
      /\ pc # "down" => mbox' = Append(mbox, m)
  BY DEF TimerFire, ToServer, Deliver, shop
<1>4. /\ DOMAIN timers' = DOMAIN timers
      /\ timers'[t].sent = sent + 1
      /\ \A x \in DOMAIN timers : timers'[x].order = timers[x].order
      /\ \A x \in DOMAIN timers : x # t => timers'[x] = timers[x]
  BY <1>1, <1>3 DEF TimerActors
<1>5. \A k \in DOMAIN keepers' : Line(k)'
  BY <1>3 DEF TrackInv, Line
<1>6. ASSUME pc # "down"
      PROVE  InStep'
  <2>1. InStep /\ mbox' = Append(mbox, m) /\ mbox \in Seq(Messages)
    BY <1>3, <1>6 DEF TrackInv, TypeOK, TypeServer
  <2>2. /\ keepers \in Seq(KeeperActors) /\ DOMAIN keepers = DOMAIN timers
        /\ timers[t].order = t /\ m.order = t /\ m.op = "change_order_state"
    BY <1>1, <2>1, LenProperties DEF InStep, TypeOK, TypeActors
  <2> HIDE DEF m, sent
  <2>3. ASSUME NEW k \in DOMAIN keepers
        PROVE  Way(k)'
    <3> DEFINE v == Rank(keepers[k].state)
               q == keepers[k].mbox
               B == Ranks(mbox, Casted(mbox, k))
               B2 == Ranks(mbox', Casted(mbox', k))
    <3>1. OnTheWay(v, q, k, mbox, timers[k].sent)
      BY <2>1 DEF InStep, Way
    <3>2. Sorted(mbox, Casted(mbox, k))
      BY <3>1 DEF OnTheWay
    <3>3. CASE k = t
      <4>1. \A x \in B : x < Rank(m.state)
        BY <1>2, <3>1, <3>3, RankProperties DEF OnTheWay, Ranks, sent
      <4>2. B2 = B \cup {sent + 1} /\ Sorted(mbox', Casted(mbox', k))
        BY <1>2, <2>1, <2>2, <3>2, <3>3, <4>1, CastsGain
      <4>3. OnTheWay(v, q, k, mbox', sent + 1)
        <5>1. v \in 0 .. 3 /\ Ranks(q, Changes(q)) \subseteq 0 .. 3 /\ B \subseteq 0 .. 3
          BY RankProperties DEF Ranks
        <5>2. OnTheWay(v, q, k, mbox, sent)
          BY <3>1, <3>3 DEF sent
        <5> HIDE DEF v, q
        <5> QED
          BY <1>2, <4>2, <5>1, <5>2 DEF OnTheWay
      <4> QED
        BY <1>3, <1>4, <3>3, <4>3 DEF Way
    <3>4. CASE k # t
      <4>1. B2 = B /\ Sorted(mbox', Casted(mbox', k))
        <5>1. m.order # k /\ m \in Messages
          BY <1>2, <2>2, <3>4
        <5> QED
          BY <2>1, <2>2, <3>2, <5>1, CastsGain
      <4>2. OnTheWay(v, q, k, mbox', timers[k].sent)
        <5> HIDE DEF v, q
        <5> QED
          BY <3>1, <4>1 DEF OnTheWay
      <4> QED
        BY <1>3, <1>4, <2>2, <3>4, <4>2 DEF Way
    <3> QED
      BY <3>3, <3>4
  <2>4. \A j \in DOMAIN mbox' : mbox'[j] = m \/ Listed(mbox'[j], mbox)
    BY <1>2, <2>1, AppendListed
  <2>5. \A j \in DOMAIN mbox' :
           mbox'[j].op = "change_order_state" => mbox'[j].order \in DOMAIN keepers'
    BY <1>3, <2>1, <2>2, <2>4 DEF InStep, Listed
  <2>6. Len(timers') = Len(timers)
    <3>1. TypeOK'
      BY TypeTimer
    <3> QED
      BY <1>1, <1>4, <3>1, LenProperties DEF TypeOK, TypeActors
  <2> QED
    BY <1>3, <1>4, <2>1, <2>3, <2>5, <2>6 DEF InStep
<1> QED
  BY <1>3, <1>5, <1>6 DEF TrackInv

LEMMA TrackMakeOrder ==
    ASSUME TypeOK, OrderBookCoherent, TrackInv, MakeOrder
    PROVE  TrackInv'
<1> DEFINE fresh == [state |-> "placed", mbox |-> << >>]
           id == order_count + 1
           n == Len(keepers) + 1
<1>1. CASE Terminate
  BY <1>1, TrackStop DEF MakeOrder
<1>2. ASSUME NEW i \in DOMAIN mbox, NEW user \in DOMAIN users, Take(i),
             keepers' = Append(keepers, fresh),
             orders' = <<NewOrder(id, user)>> \o orders,
             order_count' = id,
             timers' = Append(timers, NewTimer(id)),
             pc # "down"
      PROVE  TrackInv'
  <2>1. InStep /\ SameCasts(mbox', mbox)
    BY <1>2, QuietMail DEF TrackInv
  <2>2. /\ keepers \in Seq(KeeperActors) /\ timers \in Seq(TimerActors)
        /\ order_count \in Nat /\ orders \in Seq(Orders)
        /\ Len(keepers) = order_count /\ Len(timers) = order_count
    BY <2>1 DEF TypeOK, TypeActors, TypeShop, InStep
  <2>3. fresh \in KeeperActors
    BY EmptySeq DEF KeeperActors, States
  <2>4. NewTimer(id) \in TimerActors
    BY <2>2 DEF NewTimer, TimerActors, Stages
  <2>5. NewOrder(id, user) \in Orders
    <3>1. PICK S \in SUBSET Users : users \in [S -> UserData]
      BY DEF TypeOK, TypeShop
    <3>2. user \in Users
      BY <1>2, <3>1
    <3> QED
      BY <2>2, <3>2 DEF NewOrder, Orders
  <2> DEFINE o == NewOrder(id, user)
             tm == NewTimer(id)
  <2>6. tm.order = n /\ tm.sent = 0 /\ o.id = n /\ o.keeper = n /\ id = n
    BY <2>2 DEF NewTimer, NewOrder
  <2>7. fresh.state = "placed" /\ fresh.mbox = << >>
    OBVIOUS
  <2>8. keepers' = Append(keepers, fresh) /\ timers' = Append(timers, tm)
        /\ orders' = <<o>> \o orders /\ order_count' = n
    BY <1>2, <2>6
  <2> HIDE DEF fresh, o, tm, id
  <2>9. /\ DOMAIN keepers = 1 .. Len(keepers) /\ DOMAIN keepers' = 1 .. n
        /\ Len(keepers') = n /\ Len(keepers) \in Nat
        /\ \A k \in DOMAIN keepers : keepers'[k] = keepers[k]
        /\ keepers'[n] = fresh
    <3>1. keepers' \in Seq(KeeperActors) /\ Len(keepers') = Len(keepers) + 1
      BY <2>2, <2>3, <2>8, AppendProperties
    <3> QED
      BY <2>2, <2>3, <2>8, <3>1, AppendAt
  <2>10. /\ DOMAIN timers = 1 .. Len(keepers) /\ DOMAIN timers' = 1 .. n
         /\ Len(timers') = n
         /\ \A k \in DOMAIN timers : timers'[k] = timers[k]
         /\ timers'[n] = tm
    <3>1. timers' \in Seq(TimerActors) /\ Len(timers') = Len(timers) + 1
      BY <2>2, <2>4, <2>6, <2>8, AppendProperties DEF tm
    <3>2. tm \in TimerActors
      BY <2>4 DEF tm
    <3> QED
      BY <2>2, <2>8, <3>1, <3>2, AppendAt
  <2>11. \A j \in DOMAIN mbox' :
           mbox'[j].op = "change_order_state" => mbox'[j].order \in DOMAIN keepers
    BY <2>1 DEF InStep, SameCasts, Listed
  <2>12. ASSUME NEW k \in DOMAIN keepers'
         PROVE  Line(k)' /\ Way(k)'
    <3>1. CASE k \in DOMAIN keepers
      <4>1. Line(k) /\ Way(k)
        BY <2>1, <3>1 DEF TrackInv, InStep
      <4>2. OnTheWay(Rank(keepers[k].state), keepers[k].mbox, k, mbox', timers[k].sent)
        BY <2>1, <4>1, WaySame DEF Way
      <4> QED
        BY <2>9, <2>10, <3>1, <4>1, <4>2 DEF Line, Way
    <3>2. CASE k = n
      <4>1. InLine(0, << >>)
        BY DEF InLine, Sorted, Ranks, Changes
      <4>2. Casted(mbox', n) = {}
        BY <2>9, <2>11 DEF Casted
      <4>3. OnTheWay(0, << >>, n, mbox', 0)
        BY <4>2 DEF OnTheWay, Sorted, Ranks, Changes
      <4>4. Rank("placed") = 0
        BY RankProperties
      <4> QED
        BY <2>6, <2>7, <2>9, <2>10, <3>2, <4>1, <4>3, <4>4 DEF Line, Way
    <3> QED
      BY <2>9, <3>1, <3>2
  <2>13. \A t \in DOMAIN timers' : timers'[t].order = t
    BY <2>1, <2>6, <2>9, <2>10 DEF InStep
  <2>14. \A x \in DOMAIN orders' : orders'[x].keeper = orders'[x].id
    <3>1. o \in Orders
      BY <2>5 DEF o
    <3>2. \A x \in DOMAIN orders' : orders'[x] = o \/ \E y \in DOMAIN orders : orders'[x] = orders[y]
      BY <2>2, <2>8, <3>1, ConsType
    <3> QED
      BY <2>1, <2>6, <3>2 DEF InStep
  <2>15. InStep'
    BY <2>8, <2>9, <2>10, <2>11, <2>12, <2>13, <2>14 DEF InStep
  <2> QED
    BY <2>12, <2>15 DEF TrackInv
<1> HIDE DEF fresh, id
<1> QED
  BY <1>1, <1>2 DEF MakeOrder, Authenticated, fresh, id

LEMMA TrackNext ==
    ASSUME MaxStarts = 1, TypeOK, OrderBookCoherent, TrackInv, [Next]_vars
    PROVE  TrackInv'
<1>1. CASE StartLink
  BY <1>1 DEF StartLink, TypeOK, TypeServer
<1>2. CASE ServerStep
  BY <1>2, TrackQuiet, TrackGetOrderState, TrackHandleCast, TrackMakeOrder DEF ServerStep
<1>3. CASE \E c \in Clients : CallAccount(c) \/ CallSession(c)
  BY <1>3, TrackCalls
<1>4. CASE \E i \in DOMAIN sessions : SessionReceive(i) \/ SessionExpire(i)
  BY <1>4, TrackSessions
<1>5. CASE \E k \in DOMAIN keepers : KeeperReceive(k)
  BY <1>5, TrackKeeper
<1>6. CASE \E t \in DOMAIN timers : TimerFire(t)
  BY <1>6, TrackTimer
<1>7. CASE UNCHANGED vars
  <2>1. UNCHANGED <<orders, order_count, keepers, timers, pc, mbox>>
    BY <1>7 DEF vars, shop, server
  <2> QED
    BY <2>1, QuietMail, WayKept
<1> QED
  BY <1>1, <1>2, <1>3, <1>4, <1>5, <1>6, <1>7 DEF Next

-----------------------------------------------------------------------------
(* The keepers implement OrderTracking. *)

TrackedStep == [Tracking!Next]_[k \in DOMAIN keepers |-> keepers[k].state]

LEMMA TrackedSame ==
    ASSUME DOMAIN keepers' = DOMAIN keepers,
           \A k \in DOMAIN keepers : keepers'[k].state = keepers[k].state
    PROVE  TrackedStep
BY DEF TrackedStep

LEMMA TrackedAdvance ==
    ASSUME TypeOK, TrackInv, NEW k \in DOMAIN keepers, KeeperReceive(k)
    PROVE  TrackedStep
<1> DEFINE q == keepers[k].mbox
           m == Head(q)
<1>1. /\ DOMAIN keepers' = DOMAIN keepers
      /\ q \in Seq(KeeperRequests) /\ q # << >>
      /\ keepers'[k].state = IF m.req = "change_order_state" THEN m.state ELSE keepers[k].state
      /\ \A j \in DOMAIN keepers : j # k => keepers'[j] = keepers[j]
  BY KeeperReads
<1>2. CASE m.req # "change_order_state"
  BY <1>1, <1>2, TrackedSame
<1>3. CASE m.req = "change_order_state"
  <2>1. Rank(m.state) = Rank(keepers[k].state) + 1
    <3>1. InLine(Rank(keepers[k].state), q) /\ Rank(keepers[k].state) \in 0 .. 3
      BY RankProperties DEF TrackInv, Line
    <3> HIDE DEF q
    <3> QED
      BY <1>1, <1>3, <3>1, ReadInLine
  <2>2. m.state \in Range(Stages)
    <3>1. m \in KeeperRequests
      BY <1>1, HeadTailProperties
    <3> QED
      BY <1>3, <3>1 DEF KeeperRequests
  <2>3. Rank(keepers[k].state) < 3 /\ Stages[Rank(keepers[k].state) + 1] = m.state
    BY <2>1, <2>2, RankProperties
  <2>4. \A s : Tracking!Rank(s) = Rank(s)
    BY DEF Tracking!Rank, Rank
  <2>5. Tracking!Stages = Stages
    BY DEF Tracking!Stages, Stages
  <2>6. Tracking!Advance(k)
    BY <1>1, <1>3, <2>3, <2>4, <2>5 DEF Tracking!Advance
  <2> QED
    BY <2>6 DEF TrackedStep, Tracking!Next
<1> QED
  BY <1>2, <1>3

LEMMA TrackedPlace ==
    ASSUME TypeOK, keepers' = Append(keepers, [state |-> "placed", mbox |-> << >>])
    PROVE  TrackedStep
<1> DEFINE e == [state |-> "placed", mbox |-> << >>]
           s == [k \in DOMAIN keepers |-> keepers[k].state]
           t == [k \in DOMAIN keepers' |-> keepers'[k].state]
<1>1. keepers \in Seq(KeeperActors) /\ e \in KeeperActors /\ e.state = "placed"
  BY EmptySeq DEF TypeOK, TypeActors, KeeperActors, States
<1> HIDE DEF e
<1>2. /\ Len(keepers) \in Nat /\ DOMAIN keepers = 1 .. Len(keepers)
      /\ DOMAIN keepers' = 1 .. Len(keepers) + 1
      /\ \A j \in DOMAIN keepers : keepers'[j] = keepers[j]
      /\ keepers'[Len(keepers) + 1] = e
  BY <1>1, AppendAt DEF e
<1>3. s \in Seq(States) /\ Len(s) = Len(keepers)
  <2>1. \A k \in DOMAIN keepers : keepers[k].state \in States
    <3>1. \A k \in DOMAIN keepers : keepers[k] \in KeeperActors
      BY <1>1, ElementType
    <3> QED
      BY <3>1 DEF KeeperActors
  <2>2. s \in [1 .. Len(keepers) -> States]
    BY <1>2, <2>1
  <2> QED
    BY <1>2, <2>2, SeqDef, LenProperties
<1>4. "placed" \in States
  BY DEF States
<1>5. /\ DOMAIN Append(s, "placed") = 1 .. Len(keepers) + 1
      /\ \A j \in 1 .. Len(keepers) : Append(s, "placed")[j] = s[j]
      /\ Append(s, "placed")[Len(keepers) + 1] = "placed"
      /\ Append(s, "placed") \in Seq(States)
  <2> HIDE DEF s
  <2> QED
    BY <1>3, <1>4, AppendAt
<1>6. Append(s, "placed") = [j \in 1 .. Len(keepers) + 1 |-> Append(s, "placed")[j]]
  <2> DEFINE a == Append(s, "placed")
  <2>1. a \in [1 .. Len(a) -> States]
    BY <1>5, LenProperties
  <2>2. DOMAIN a = 1 .. Len(keepers) + 1
    BY <1>5
  <2> HIDE DEF a
  <2>3. a = [j \in 1 .. Len(keepers) + 1 |-> a[j]]
    BY <2>1, <2>2
  <2> QED
    BY <2>3 DEF a
<1>7. t = [j \in 1 .. Len(keepers) + 1 |-> keepers'[j].state]
  BY <1>2
<1>8. \A j \in 1 .. Len(keepers) + 1 : keepers'[j].state = Append(s, "placed")[j]
  BY <1>1, <1>2, <1>5
<1>9. t = Append(s, "placed")
  <2> HIDE DEF s, t
  <2> QED
    BY <1>6, <1>7, <1>8
<1> QED
  BY <1>9 DEF TrackedStep, Tracking!Next, Tracking!Place

LEMMA TrackedNext ==
    ASSUME TypeOK, TrackInv, [Next]_vars
    PROVE  TrackedStep
<1>1. CASE keepers' = keepers
  BY <1>1, TrackedSame
<1>2. CASE MakeOrder
  BY <1>2, TrackedPlace DEF MakeOrder
<1>3. CASE \E k \in DOMAIN keepers : KeeperReceive(k)
  BY <1>3, TrackedAdvance
<1>4. ASSUME NEW k \in DOMAIN keepers, NEW r \in KeeperRequests, AskKeeper(k, r)
      PROVE  TrackedStep
  BY <1>4, KeeperAsked, TrackedSame
<1>5. CASE HandleCast
  <2>1. ASSUME Cardinality(OrdersWithId(Head(mbox).order)) = 1,
               AskKeeper(OrderKeeper(Head(mbox).order),
                         [from |-> inc, req |-> "change_order_state", state |-> Head(mbox).state])
        PROVE  TrackedStep
    <3>1. Head(mbox) \in Casts
      BY <1>5, HeadType DEF HandleCast, TypeOK
    <3>2. OrderKeeper(Head(mbox).order) \in DOMAIN keepers
      BY <2>1, OrderKeeperType DEF TypeOK
    <3>3. [from |-> inc, req |-> "change_order_state", state |-> Head(mbox).state]
            \in KeeperRequests
      BY <3>1 DEF TypeOK, TypeServer, KeeperRequests, Casts
    <3> QED
      BY <1>4, <2>1, <3>2, <3>3
  <2> QED
    BY <1>1, <1>5, <2>1 DEF HandleCast
<1>6. CASE GetOrderState
  <2>1. ASSUME Cardinality(OrdersWithId(job.order)) = 1,
               AskKeeper(OrderKeeper(job.order), [from |-> inc, req |-> "get_order_state"])
        PROVE  TrackedStep
    <3>1. OrderKeeper(job.order) \in DOMAIN keepers
      BY <2>1, OrderKeeperType DEF TypeOK
    <3>2. [from |-> inc, req |-> "get_order_state"] \in KeeperRequests
      BY DEF TypeOK, TypeServer, KeeperRequests
    <3> QED
      BY <1>4, <2>1, <3>1, <3>2
  <2> QED
    BY <1>1, <1>6, <2>1 DEF GetOrderState
<1>7. CASE ServerStep /\ ~MakeOrder /\ ~HandleCast /\ ~GetOrderState
  BY <1>1, <1>7 DEF ServerStep, HandleRegister, HandleLogIn, CheckAuth, HandleInfo,
              LogOut, GetAllItems, AddNewItem, GetMyOrders, LogOutOk,
              OrderStateFetched, OrderStateChanged, CallTimesOut, ChangeTimesOut
<1>8. CASE StartLink \/ (\E c \in Clients : CallAccount(c) \/ CallSession(c))
           \/ (\E i \in DOMAIN sessions : SessionReceive(i) \/ SessionExpire(i))
           \/ (\E t \in DOMAIN timers : TimerFire(t)) \/ UNCHANGED vars
  BY <1>1, <1>8 DEF StartLink, CallAccount, CallSession, Call, SessionReceive, SessionExpire,
              TimerFire, vars
<1> QED
  BY <1>2, <1>3, <1>5, <1>6, <1>7, <1>8 DEF Next

(* While the shop is started once, and whatever times out, stops or is asked in
   between, every order goes from placed to packaged, shipped and delivered
   without skipping a stage or going back. *)
THEOREM OrdersTracked ==
    ASSUME MaxStarts = 1
    PROVE  Spec => Tracked
<1>1. Init => Tracking!Init
  BY DEF Init, Tracking!Init
<1>2. Init => TrackInv
  <2> SUFFICES ASSUME Init
               PROVE  TrackInv
    OBVIOUS
  <2>1. keepers = << >> /\ timers = << >> /\ orders = << >> /\ mbox = << >> /\ order_count = 0
    BY DEF Init
  <2>2. /\ DOMAIN keepers = {} /\ DOMAIN timers = {} /\ DOMAIN orders = {} /\ DOMAIN mbox = {}
        /\ Len(keepers) = 0 /\ Len(timers) = 0
    BY <2>1
  <2> QED
    BY <2>1, <2>2 DEF TrackInv, InStep
<1>3. TypeOK /\ OrderBookCoherent /\ TrackInv /\ [Next]_vars => TrackInv'
  BY TrackNext
<1>4. TypeOK /\ TrackInv /\ [Next]_vars
        => [Tracking!Next]_[k \in DOMAIN keepers |-> keepers[k].state]
  BY TrackedNext DEF TrackedStep
<1> QED
  BY <1>1, <1>2, <1>3, <1>4, TypeCorrect, BooksAgree, PTL DEF Spec, Tracked, Tracking!Spec

-----------------------------------------------------------------------------
(* A call made with a session that had exited is refused. *)

CallOps == {"register", "log_in"} \cup SessionOps
ReplyFrom(m, s) == m.op = "reply" /\ m.from = Session(s)
Gone(s, ss) == s \in DOMAIN ss /\ ~ss[s].alive

(* Each client waits for the one call of its that is in the mailbox.  Behind a
   call with a session that had exited there is no answer of that session. *)
CallsWait(box, cl, ss) ==
    /\ \A i \in DOMAIN box : box[i].op \in CallOps => cl[box[i].client].op = box[i].op
    /\ \A i, j \in DOMAIN box :
        (box[i].op \in CallOps /\ box[j].op \in CallOps /\ box[i].client = box[j].client)
            => i = j
    /\ \A i \in DOMAIN box :
        (box[i].op \in SessionOps /\ cl[box[i].client].dead) =>
            /\ Gone(box[i].session, ss)
            /\ \A j \in DOMAIN box : i < j => ~ReplyFrom(box[j], box[i].session)

(* The same for the call that a handler has taken out of the mailbox: there is
   no answer of that session at all, and the handler waits in vain. *)
JobWaits(p, m, box, cl, ss) ==
    p \in {"auth", "log_out", "fetch"} =>
        /\ cl[m.client].op = m.op
        /\ \A i \in DOMAIN box : box[i].op \in CallOps => box[i].client # m.client
        /\ cl[m.client].dead => /\ p = "auth" /\ Gone(m.session, ss)
                                /\ \A j \in DOMAIN box : ~ReplyFrom(box[j], m.session)

AccountsLive == \A c \in Clients : client[c].op \in {"register", "log_in"} => ~client[c].dead

DeadInv == /\ CallsWait(mbox, client, sessions)
           /\ JobWaits(pc, job, mbox, client, sessions)
           /\ AccountsLive

(* What keeps these: losing messages, new messages that are no calls, a client
   that is answered, a session that exits. *)
LEMMA CallsWaitThins ==
    ASSUME NEW a, NEW b, NEW gone, Thins(b, a, gone), DOMAIN b \subseteq Int,
           DOMAIN a \subseteq Int, NEW cl, NEW ss, CallsWait(a, cl, ss)
    PROVE  CallsWait(b, cl, ss)
<1>1. PICK f \in [DOMAIN b -> DOMAIN a] :
        /\ \A y \in DOMAIN b : b[y] = a[f[y]] /\ f[y] \notin gone
        /\ \A y, z \in DOMAIN b : y < z => f[y] < f[z]
        /\ \A x \in DOMAIN a \ gone : \E y \in DOMAIN b : f[y] = x
  BY DEF Thins
<1>2. \A y \in DOMAIN b : f[y] \in DOMAIN a /\ b[y] = a[f[y]]
  BY <1>1
<1>3. ASSUME NEW i \in DOMAIN b
      PROVE  b[i].op \in CallOps => cl[b[i].client].op = b[i].op
  BY <1>2 DEF CallsWait
<1>4. ASSUME NEW i \in DOMAIN b, b[i].op \in SessionOps, cl[b[i].client].dead
      PROVE  /\ Gone(b[i].session, ss)
             /\ \A j \in DOMAIN b : i < j => ~ReplyFrom(b[j], b[i].session)
  <2>1. /\ Gone(a[f[i]].session, ss)
        /\ \A j \in DOMAIN a : f[i] < j => ~ReplyFrom(a[j], a[f[i]].session)
    BY <1>2, <1>4 DEF CallsWait
  <2> QED
    BY <1>1, <1>2, <2>1
<1>5. ASSUME NEW i \in DOMAIN b, NEW j \in DOMAIN b,
             b[i].op \in CallOps, b[j].op \in CallOps, b[i].client = b[j].client
      PROVE  i = j
  <2>1. f[i] = f[j]
    BY <1>2, <1>5 DEF CallsWait
  <2>2. i \in Int /\ j \in Int /\ f[i] \in Int /\ f[j] \in Int
    BY <1>2
  <2>3. ~(i < j) /\ ~(j < i)
    BY <1>1, <2>1, <2>2
  <2> QED
    BY <2>2, <2>3
<1> QED
  BY <1>3, <1>4, <1>5 DEF CallsWait

LEMMA JobWaitsThins ==
    ASSUME NEW a, NEW b, NEW gone, Thins(b, a, gone), NEW p, NEW m, NEW cl, NEW ss,
           JobWaits(p, m, a, cl, ss)
    PROVE  JobWaits(p, m, b, cl, ss)
BY DEF Thins, JobWaits

LEMMA CallsWaitAppend ==
    ASSUME NEW S, NEW a \in Seq(S), NEW e \in S, NEW cl, NEW ss, CallsWait(a, cl, ss),
           e.op \notin CallOps, \A s : ReplyFrom(e, s) => ~Gone(s, ss)
    PROVE  CallsWait(Append(a, e), cl, ss)
<1> DEFINE b == Append(a, e)
           n == Len(a) + 1
<1>1. /\ Len(a) \in Nat /\ DOMAIN a = 1 .. Len(a) /\ DOMAIN b = 1 .. n
      /\ \A x \in DOMAIN a : b[x] = a[x]
      /\ b[n] = e
  BY AppendAt
<1>2. \A i \in DOMAIN b : i = n \/ (i \in DOMAIN a /\ b[i] = a[i])
  BY <1>1
<1> HIDE DEF b, n
<1>3. SessionOps \subseteq CallOps
  BY DEF CallOps
<1>4. ASSUME NEW i \in DOMAIN b, b[i].op \in SessionOps, cl[b[i].client].dead
      PROVE  /\ Gone(b[i].session, ss)
             /\ \A j \in DOMAIN b : i < j => ~ReplyFrom(b[j], b[i].session)
  <2>1. i \in DOMAIN a /\ b[i] = a[i]
    BY <1>1, <1>2, <1>3, <1>4
  <2>2. /\ Gone(a[i].session, ss)
        /\ \A j \in DOMAIN a : i < j => ~ReplyFrom(a[j], a[i].session)
    BY <1>4, <2>1 DEF CallsWait
  <2>3. ~ReplyFrom(e, a[i].session)
    BY <2>2
  <2> QED
    BY <1>1, <1>2, <2>1, <2>2, <2>3
<1>5. \A i \in DOMAIN b : b[i].op \in CallOps => i \in DOMAIN a /\ b[i] = a[i]
  BY <1>1, <1>2
<1>6. /\ \A i \in DOMAIN b : b[i].op \in CallOps => cl[b[i].client].op = b[i].op
      /\ \A i, j \in DOMAIN b :
            (b[i].op \in CallOps /\ b[j].op \in CallOps /\ b[i].client = b[j].client) => i = j
  BY <1>5 DEF CallsWait
<1> QED
  BY <1>4, <1>6 DEF CallsWait, b

LEMMA JobWaitsAppend ==
    ASSUME NEW S, NEW a \in Seq(S), NEW e \in S, NEW p, NEW m, NEW cl, NEW ss,
           JobWaits(p, m, a, cl, ss),
           e.op \notin CallOps, \A s : ReplyFrom(e, s) => ~Gone(s, ss)
    PROVE  JobWaits(p, m, Append(a, e), cl, ss)
<1> DEFINE b == Append(a, e)
           n == Len(a) + 1
<1>1. /\ Len(a) \in Nat /\ DOMAIN a = 1 .. Len(a) /\ DOMAIN b = 1 .. n
      /\ \A x \in DOMAIN a : b[x] = a[x]
      /\ b[n] = e
  BY AppendAt
<1>2. \A i \in DOMAIN b : i = n \/ (i \in DOMAIN a /\ b[i] = a[i])
  BY <1>1
<1> HIDE DEF b, n
<1> QED
  BY <1>1, <1>2 DEF JobWaits, b

(* Sessions only exit. *)
LEMMA GoneStays ==
    ASSUME TypeOK, [Next]_vars
    PROVE  \A s : Gone(s, sessions) => Gone(s, sessions')
BY SessionsOnlyGrow DEF Gone, SessionsGrow

LEMMA DeadWaitSessions ==
    ASSUME NEW ss, NEW tt, \A s : Gone(s, ss) => Gone(s, tt), NEW box, NEW cl
    PROVE  /\ CallsWait(box, cl, ss) => CallsWait(box, cl, tt)
           /\ \A p, m : JobWaits(p, m, box, cl, ss) => JobWaits(p, m, box, cl, tt)
BY DEF CallsWait, JobWaits

(* A client that got its answer has no other call in the mailbox. *)
LEMMA Answered ==
    ASSUME NEW box, NEW cl, NEW dl, NEW ss, CallsWait(box, cl, ss), NEW c,
           \A i \in DOMAIN box : box[i].op \in CallOps => box[i].client # c,
           \A d : d # c => dl[d] = cl[d]
    PROVE  CallsWait(box, dl, ss)
<1>1. SessionOps \subseteq CallOps
  BY DEF CallOps
<1>2. \A i \in DOMAIN box : box[i].op \in CallOps => dl[box[i].client] = cl[box[i].client]
  OBVIOUS
<1>3. \A i \in DOMAIN box : box[i].op \in CallOps => dl[box[i].client].op = box[i].op
  BY <1>2 DEF CallsWait
<1>4. ASSUME NEW i \in DOMAIN box, box[i].op \in SessionOps, dl[box[i].client].dead
      PROVE  /\ Gone(box[i].session, ss)
             /\ \A j \in DOMAIN box : i < j => ~ReplyFrom(box[j], box[i].session)
  BY <1>1, <1>2, <1>4 DEF CallsWait
<1> QED
  BY <1>3, <1>4 DEF CallsWait

(* The server's own steps lose messages only. *)
LEMMA ShrinkMail ==
    ASSUME TypeOK,
           \/ mbox' = mbox
           \/ mbox # << >> /\ mbox' = Tail(mbox)
           \/ \E i \in DOMAIN mbox : Take(i)
    PROVE  /\ \E gone : Thins(mbox', mbox, gone)
           /\ DOMAIN mbox \subseteq Int /\ DOMAIN mbox' \subseteq Int
<1>1. mbox \in Seq(Messages)
  BY DEF TypeOK, TypeServer
<1>2. CASE mbox' = mbox
  BY <1>1, <1>2, ThinsSame, LenProperties
<1>3. CASE mbox # << >> /\ mbox' = Tail(mbox)
  <2>1. Thins(mbox', mbox, {1})
    BY <1>1, <1>3, ThinsTail
  <2>2. mbox' \in Seq(Messages)
    BY <1>1, <1>3, HeadTailProperties
  <2>3. DOMAIN mbox \subseteq Int /\ DOMAIN mbox' \subseteq Int
    BY <1>1, <2>2, LenProperties
  <2> QED
    BY <2>1, <2>3
<1>4. ASSUME NEW i \in DOMAIN mbox, Take(i)
      PROVE  /\ \E gone : Thins(mbox', mbox, gone)
             /\ DOMAIN mbox \subseteq Int /\ DOMAIN mbox' \subseteq Int
  <2>1. mbox' = RemoveAt(mbox, i)
    BY <1>4 DEF Take
  <2>2. Thins(mbox', mbox, {i})
    BY <1>1, <2>1, ThinsRemoveAt
  <2>3. mbox' \in Seq(Messages)
    BY <1>1, <2>1, RemoveAtProperties
  <2>4. DOMAIN mbox \subseteq Int /\ DOMAIN mbox' \subseteq Int
    BY <1>1, <2>3, LenProperties
  <2> QED
    BY <2>2, <2>4
<1> QED
  BY <1>2, <1>3, <1>4

LEMMA DeadShrinks ==
    ASSUME TypeOK, [Next]_vars, DeadInv,
           \/ mbox' = mbox
           \/ mbox # << >> /\ mbox' = Tail(mbox)
           \/ \E i \in DOMAIN mbox : Take(i)
    PROVE  /\ CallsWait(mbox', client, sessions')
           /\ JobWaits(pc, job, mbox', client, sessions')
<1>1. PICK gone : Thins(mbox', mbox, gone)
  BY ShrinkMail
<1>2. DOMAIN mbox \subseteq Int /\ DOMAIN mbox' \subseteq Int
  BY ShrinkMail
<1>3. CallsWait(mbox', client, sessions) /\ JobWaits(pc, job, mbox', client, sessions)
  BY <1>1, <1>2, CallsWaitThins, JobWaitsThins DEF DeadInv
<1> QED
  BY <1>3, GoneStays, DeadWaitSessions

(* Client c has its answer. *)
LEMMA DeadAnswered ==
    ASSUME TypeOK, DeadInv, NEW c, client' = [client EXCEPT ![c] = NoClient],
           pc' = "idle", CallsWait(mbox', client, sessions'),
           \A i \in DOMAIN mbox' : mbox'[i].op \in CallOps => mbox'[i].client # c
    PROVE  DeadInv'
<1>1. client \in [Clients -> ClientStates]
  BY DEF TypeOK, TypeActors
<1>2. \A d : d # c => client'[d] = client[d]
  <2>1. CASE c \in Clients
    BY <1>1, <2>1
  <2>2. CASE c \notin Clients
    BY <1>1, <2>2
  <2> QED
    BY <2>1, <2>2
<1>3. CallsWait(mbox', client', sessions')
  <2>1. PICK box, dl, ss : box = mbox' /\ dl = client' /\ ss = sessions'
    OBVIOUS
  <2>2. /\ CallsWait(box, client, ss)
        /\ \A i \in DOMAIN box : box[i].op \in CallOps => box[i].client # c
        /\ \A d : d # c => dl[d] = client[d]
    BY <1>2, <2>1
  <2>3. CallsWait(box, dl, ss)
    BY <2>2, Answered
  <2> QED
    BY <2>1, <2>3
<1>4. AccountsLive'
  BY <1>1, <1>2 DEF DeadInv, AccountsLive, NoClient
<1> QED
  BY <1>3, <1>4 DEF DeadInv, JobWaits

LEMMA DeadStop == DeadInv /\ Terminate => DeadInv'
<1> SUFFICES ASSUME Terminate
             PROVE  DeadInv'
  OBVIOUS
<1>1. pc' = "down" /\ mbox' = << >> /\ client' = [c \in Clients |-> NoClient]
  BY DEF Terminate
<1>2. DOMAIN mbox' = {}
  BY <1>1
<1> QED
  BY <1>1, <1>2 DEF DeadInv, CallsWait, JobWaits, AccountsLive, NoClient

LEMMA DeadAccounts ==
    ASSUME TypeOK, [Next]_vars, DeadInv, HandleRegister \/ HandleLogIn
    PROVE  DeadInv'
<1>1. PICK m \in AccountCalls :
        /\ pc = "idle" /\ pc' = pc /\ mbox # << >> /\ m = Head(mbox)
        /\ mbox' = Tail(mbox)
        /\ client' = [client EXCEPT ![m.client] = NoClient]
  BY DEF HandleRegister, HandleLogIn, Handle, Say
<1>2. mbox \in Seq(Messages)
  BY DEF TypeOK, TypeServer
<1>3. /\ Len(mbox) \in Nat /\ DOMAIN mbox = 1 .. Len(mbox) /\ 1 \in DOMAIN mbox /\ mbox[1] = m
      /\ DOMAIN mbox' = 1 .. Len(mbox) - 1
      /\ \A j \in DOMAIN mbox' : mbox'[j] = mbox[j + 1]
  <2>1. /\ Tail(mbox) \in Seq(Messages) /\ Len(Tail(mbox)) = Len(mbox) - 1
        /\ \A j \in 1 .. Len(Tail(mbox)) : Tail(mbox)[j] = mbox[j + 1]
    BY <1>1, <1>2, HeadTailProperties
  <2> QED
    BY <1>1, <1>2, <2>1, ThinsTail, LenProperties
<1>4. m.op \in CallOps
  BY DEF AccountCalls, CallOps
<1>5. ASSUME NEW j \in DOMAIN mbox', mbox'[j].op \in CallOps
      PROVE  mbox'[j].client # m.client
  <2>1. j + 1 \in DOMAIN mbox /\ j + 1 # 1 /\ mbox'[j] = mbox[j + 1]
    BY <1>3
  <2> QED
    BY <1>3, <1>4, <1>5, <2>1 DEF DeadInv, CallsWait
<1>6. CallsWait(mbox', client, sessions')
  BY <1>1, DeadShrinks
<1> QED
  BY <1>1, <1>5, <1>6, DeadAnswered

LEMMA DeadReply ==
    ASSUME TypeOK, [Next]_vars, DeadInv, pc \in {"auth", "log_out", "fetch"},
           NEW v, NEW ids, Reply(v, ids),
           mbox' = mbox \/ \E i \in DOMAIN mbox : Take(i)
    PROVE  DeadInv'
<1>1. CallsWait(mbox', client, sessions') /\ JobWaits(pc, job, mbox', client, sessions')
  BY DeadShrinks
<1>2. \A i \in DOMAIN mbox' : mbox'[i].op \in CallOps => mbox'[i].client # job.client
  BY <1>1 DEF JobWaits
<1>3. pc' = "idle" /\ client' = [client EXCEPT ![job.client] = NoClient]
  BY DEF Reply, Back, Say
<1> QED
  BY <1>1, <1>2, <1>3, DeadAnswered

(* A handler that goes on after its session has answered: the session was alive
   when it was called with. *)
LEMMA NotDead ==
    ASSUME TypeOK, DeadInv, NEW i \in DOMAIN mbox, FirstMatch(i),
           pc \in {"auth", "log_out", "fetch"}
    PROVE  ~client[job.client].dead
<1>1. mbox[i].op = "reply" /\ mbox[i].from = peer
  BY DEF FirstMatch, Matches
<1>2. pc = "auth" => ReplyFrom(mbox[i], job.session)
  BY <1>1 DEF ReplyFrom, TypeOK, TypeHandler
<1> QED
  BY <1>2 DEF DeadInv, JobWaits

LEMMA DeadGoesOn ==
    ASSUME TypeOK, [Next]_vars, DeadInv, NEW i \in DOMAIN mbox, Take(i),
           pc = "auth", job' = job, client' = client
    PROVE  DeadInv'
<1>1. CallsWait(mbox', client, sessions') /\ JobWaits(pc, job, mbox', client, sessions')
  BY DeadShrinks
<1>2. ~client[job.client].dead
  BY NotDead DEF Take
<1>3. JobWaits(pc', job', mbox', client', sessions')
  BY <1>1, <1>2 DEF JobWaits
<1> QED
  BY <1>1, <1>3 DEF DeadInv, AccountsLive

LEMMA DeadCheckAuth ==
    ASSUME TypeOK, [Next]_vars, DeadInv, CheckAuth
    PROVE  DeadInv'
<1> DEFINE m == Head(mbox)
<1>1. /\ pc = "idle" /\ mbox # << >> /\ m.op \in SessionOps /\ job' = m
      /\ mbox' = Tail(mbox) /\ pc' = "auth" /\ client' = client
  BY DEF CheckAuth
<1>2. mbox \in Seq(Messages)
  BY DEF TypeOK, TypeServer
<1> HIDE DEF m
<1>3. /\ Len(mbox) \in Nat /\ DOMAIN mbox = 1 .. Len(mbox) /\ 1 \in DOMAIN mbox /\ mbox[1] = m
      /\ DOMAIN mbox' = 1 .. Len(mbox) - 1
      /\ \A j \in DOMAIN mbox' : mbox'[j] = mbox[j + 1]
  <2>1. /\ Tail(mbox) \in Seq(Messages) /\ Len(Tail(mbox)) = Len(mbox) - 1
        /\ \A j \in 1 .. Len(Tail(mbox)) : Tail(mbox)[j] = mbox[j + 1]
    BY <1>1, <1>2, HeadTailProperties
  <2> QED
    BY <1>1, <1>2, <2>1, ThinsTail, LenProperties DEF m
<1>4. m.op \in CallOps
  BY <1>1 DEF CallOps
<1>5. \A j \in DOMAIN mbox' : j + 1 \in DOMAIN mbox /\ 1 < j + 1 /\ j + 1 # 1
  BY <1>3
<1>6. \A j \in DOMAIN mbox' : mbox'[j].op \in CallOps => mbox'[j].client # m.client
  BY <1>3, <1>4, <1>5 DEF DeadInv, CallsWait
<1>7. client[m.client].op = m.op
  BY <1>3, <1>4 DEF DeadInv, CallsWait
<1>8. ASSUME client[m.client].dead
      PROVE  Gone(m.session, sessions') /\ \A j \in DOMAIN mbox' : ~ReplyFrom(mbox'[j], m.session)
  <2>1. /\ Gone(m.session, sessions)
        /\ \A j \in DOMAIN mbox : 1 < j => ~ReplyFrom(mbox[j], m.session)
    BY <1>1, <1>3, <1>8 DEF DeadInv, CallsWait
  <2>2. Gone(m.session, sessions')
    BY <2>1, GoneStays
  <2> QED
    BY <1>3, <1>5, <2>1, <2>2
<1>9. JobWaits(pc', job', mbox', client', sessions')
  BY <1>1, <1>6, <1>7, <1>8 DEF JobWaits
<1>10. CallsWait(mbox', client, sessions')
  BY <1>1, DeadShrinks
<1> QED
  BY <1>1, <1>9, <1>10 DEF DeadInv, AccountsLive

LEMMA DeadServer ==
    ASSUME TypeOK, [Next]_vars, DeadInv, ServerStep
    PROVE  DeadInv'
<1>1. CASE HandleRegister \/ HandleLogIn
  BY <1>1, DeadAccounts
<1>2. CASE CheckAuth
  BY <1>2, DeadCheckAuth
<1>3. CASE Terminate
  BY <1>3, DeadStop
<1>4. ASSUME pc' \in {"idle", "change"}, client' = client,
             \/ mbox' = mbox
             \/ mbox # << >> /\ mbox' = Tail(mbox)
             \/ \E i \in DOMAIN mbox : Take(i)
      PROVE  DeadInv'
  BY <1>4, DeadShrinks DEF DeadInv, JobWaits, AccountsLive
<1>5. CASE HandleCast \/ HandleInfo
  BY <1>3, <1>4, <1>5 DEF HandleCast, HandleInfo
<1>6. CASE LogOut
  BY <1>6, DeadGoesOn DEF LogOut, Authenticated
<1>7. CASE GetAllItems \/ AddNewItem \/ MakeOrder
  BY <1>3, <1>7, DeadReply DEF GetAllItems, AddNewItem, MakeOrder, Authenticated
<1>8. CASE GetMyOrders
  BY <1>3, <1>8, DeadReply DEF GetMyOrders, Authenticated
<1>9. CASE GetOrderState
  BY <1>3, <1>9, DeadReply, DeadGoesOn DEF GetOrderState, Authenticated
<1>10. CASE LogOutOk \/ OrderStateFetched
  BY <1>10, DeadReply DEF LogOutOk, OrderStateFetched
<1>11. CASE OrderStateChanged \/ ChangeTimesOut
  BY <1>4, <1>11 DEF OrderStateChanged, ChangeTimesOut, Back
<1>12. CASE CallTimesOut
  BY <1>12, DeadReply DEF CallTimesOut
<1> QED
  BY <1>1, <1>2, <1>5, <1>6, <1>7, <1>8, <1>9, <1>10, <1>11, <1>12 DEF ServerStep

(* A client calls: it had no call in the mailbox or in a handler. *)
LEMMA DeadCall ==
    ASSUME TypeOK, DeadInv, NEW c \in Clients, NEW m \in Calls, NEW dead \in BOOLEAN,
           Free(c), Call(c, m, dead), m.client = c,
           m.op \in {"register", "log_in"} => ~dead,
           (m.op \in SessionOps /\ dead) => Gone(m.session, sessions)
    PROVE  DeadInv'
<1>1. mbox \in Seq(Messages) /\ client \in [Clients -> ClientStates] /\ m \in Messages
  BY DEF TypeOK, TypeServer, TypeActors, Messages
<1>2. /\ mbox' = Append(mbox, m) /\ client[c] = NoClient
      /\ client' = [client EXCEPT ![c] = [op |-> m.op, dead |-> dead]]
      /\ UNCHANGED <<pc, job, sessions>>
  BY DEF Call, Deliver, Free
<1> DEFINE n == Len(mbox) + 1
<1>3. /\ Len(mbox) \in Nat /\ DOMAIN mbox = 1 .. Len(mbox) /\ DOMAIN mbox' = 1 .. n
      /\ \A x \in DOMAIN mbox : mbox'[x] = mbox[x]
      /\ mbox'[n] = m
  BY <1>1, <1>2, AppendAt
<1>4. \A i \in DOMAIN mbox' : i = n \/ (i \in DOMAIN mbox /\ mbox'[i] = mbox[i])
  BY <1>3
<1>5. /\ client'[c].op = m.op /\ client'[c].dead = dead
      /\ \A d : d # c => client'[d] = client[d]
  <2>1. \A d \in Clients : d # c => client'[d] = client[d]
    BY <1>1, <1>2
  <2>2. \A d : d \notin Clients => client'[d] = client[d]
    BY <1>1, <1>2
  <2>3. client'[c] = [op |-> m.op, dead |-> dead]
    BY <1>1, <1>2
  <2> QED
    BY <2>1, <2>2, <2>3
<1>6. m.op \in CallOps /\ SessionOps \subseteq CallOps /\ "none" \notin CallOps
      /\ "reply" \notin CallOps
  BY DEF CallOps, SessionOps, Calls, AccountCalls, SessionCalls
<1> HIDE DEF n
<1>7. \A i \in DOMAIN mbox : mbox[i].op \in CallOps => mbox[i].client # c
  BY <1>2, <1>6 DEF DeadInv, CallsWait, NoClient
<1>8. \A i \in DOMAIN mbox' : mbox'[i].op \in CallOps => client'[mbox'[i].client].op = mbox'[i].op
  BY <1>3, <1>4, <1>5, <1>7 DEF DeadInv, CallsWait
<1>9. \A i, j \in DOMAIN mbox' :
        (mbox'[i].op \in CallOps /\ mbox'[j].op \in CallOps /\ mbox'[i].client = mbox'[j].client)
            => i = j
  BY <1>3, <1>4, <1>7 DEF DeadInv, CallsWait
<1>10. ASSUME NEW i \in DOMAIN mbox', mbox'[i].op \in SessionOps, client'[mbox'[i].client].dead
       PROVE  /\ Gone(mbox'[i].session, sessions')
              /\ \A j \in DOMAIN mbox' : i < j => ~ReplyFrom(mbox'[j], mbox'[i].session)
  <2>1. CASE i = n
    <3>1. Gone(m.session, sessions')
      BY <1>2, <1>3, <1>5, <1>10, <2>1
    <3>2. \A j \in DOMAIN mbox' : ~(n < j)
      BY <1>3 DEF n
    <3> QED
      BY <1>3, <2>1, <3>1, <3>2
  <2>2. CASE i # n
    <3>1. i \in DOMAIN mbox /\ mbox'[i] = mbox[i] /\ client'[mbox[i].client] = client[mbox[i].client]
      BY <1>4, <1>5, <1>6, <1>7, <1>10, <2>2
    <3>2. /\ Gone(mbox[i].session, sessions)
          /\ \A j \in DOMAIN mbox : i < j => ~ReplyFrom(mbox[j], mbox[i].session)
      BY <1>10, <3>1 DEF DeadInv, CallsWait
    <3>3. \A s : ~ReplyFrom(m, s)
      BY <1>6 DEF ReplyFrom
    <3> QED
      BY <1>2, <1>3, <1>4, <3>1, <3>2, <3>3
  <2> QED
    BY <2>1, <2>2
<1>11. CallsWait(mbox', client', sessions')
  BY <1>8, <1>9, <1>10 DEF CallsWait
<1>12. JobWaits(pc', job', mbox', client', sessions')
  <2> SUFFICES ASSUME pc \in {"auth", "log_out", "fetch"}
               PROVE  JobWaits(pc, job, mbox', client', sessions')
    BY <1>2 DEF JobWaits
  <2>1. /\ client[job.client].op = job.op
        /\ \A i \in DOMAIN mbox : mbox[i].op \in CallOps => mbox[i].client # job.client
        /\ client[job.client].dead => /\ pc = "auth" /\ Gone(job.session, sessions)
                                      /\ \A j \in DOMAIN mbox : ~ReplyFrom(mbox[j], job.session)
    BY DEF DeadInv, JobWaits
  <2>2. job.op \in CallOps
    BY <1>6 DEF TypeOK, TypeHandler, SessionCalls, SessionOps, CallOps
  <2>3. job.client # c
    BY <1>2, <1>6, <2>1, <2>2 DEF NoClient
  <2>4. client'[job.client] = client[job.client]
    BY <1>5, <2>3
  <2>5. \A s : ~ReplyFrom(m, s)
    BY <1>6 DEF ReplyFrom
  <2> QED
    BY <1>2, <1>3, <1>4, <2>1, <2>3, <2>4, <2>5 DEF JobWaits
<1>13. AccountsLive'
  BY <1>5 DEF DeadInv, AccountsLive
<1> QED
  BY <1>11, <1>12, <1>13 DEF DeadInv

LEMMA DeadClients ==
    ASSUME TypeOK, DeadInv, NEW c \in Clients, CallAccount(c) \/ CallSession(c)
    PROVE  DeadInv'
<1>1. CASE CallAccount(c)
  <2>1. PICK m \in AccountCalls : m.client = c /\ Call(c, m, FALSE) /\ Free(c)
    BY <1>1 DEF CallAccount
  <2>2. m \in Calls
    BY DEF Calls
  <2> QED
    BY <2>1, <2>2, DeadCall
<1>2. CASE CallSession(c)
  <2>1. PICK op \in SessionOps, i \in DOMAIN sessions :
           \E m \in SessionCall(op, c, i) : Call(c, m, ~sessions[i].alive)
    BY <1>2 DEF CallSession
  <2>2. PICK m \in SessionCall(op, c, i) : Call(c, m, ~sessions[i].alive)
    BY <2>1
  <2>3. SessionCall(op, c, i) \subseteq SessionCalls
        /\ \A x \in SessionCall(op, c, i) : x.client = c /\ x.session = i /\ x.op = op
    <3>1. 1 .. MaxOrders \subseteq Nat
      OBVIOUS
    <3> QED
      BY <3>1 DEF SessionCall, SessionCalls, SessionOps
  <2>4. m \in Calls /\ m.client = c /\ m.session = i /\ m.op \in SessionOps
    BY <2>3 DEF Calls
  <2>5. (~sessions[i].alive) \in BOOLEAN /\ (~sessions[i].alive => Gone(i, sessions))
    BY DEF Gone
  <2>6. Free(c) /\ m.op \notin {"register", "log_in"}
    BY <1>2, <2>4 DEF CallSession, SessionOps
  <2> QED
    BY <2>2, <2>4, <2>5, <2>6, DeadCall
<1> QED
  BY <1>1, <1>2

(* A process sends the server something that is not a call. *)
LEMMA DeadMail ==
    ASSUME TypeOK, [Next]_vars, DeadInv, UNCHANGED <<pc, job, client>>,
           mbox' = mbox \/ \E m \in Messages : /\ m.op \notin CallOps
                                               /\ \A s : ReplyFrom(m, s) => ~Gone(s, sessions)
                                               /\ mbox' = Append(mbox, m)
    PROVE  DeadInv'
<1>1. mbox \in Seq(Messages)
  BY DEF TypeOK, TypeServer
<1>2. CallsWait(mbox', client, sessions) /\ JobWaits(pc, job, mbox', client, sessions)
  BY <1>1, CallsWaitAppend, JobWaitsAppend DEF DeadInv
<1>3. CallsWait(mbox', client, sessions') /\ JobWaits(pc, job, mbox', client, sessions')
  BY <1>2, GoneStays, DeadWaitSessions
<1> QED
  BY <1>3 DEF DeadInv, AccountsLive

LEMMA DeadNext == TypeOK /\ DeadInv /\ [Next]_vars => DeadInv'
<1> SUFFICES ASSUME TypeOK, DeadInv, [Next]_vars
             PROVE  DeadInv'
  OBVIOUS
<1>0. "reply" \notin CallOps /\ "change_order_state" \notin CallOps
  BY DEF CallOps, SessionOps
<1>1. CASE ServerStep
  BY <1>1, DeadServer
<1>2. CASE \E c \in Clients : CallAccount(c) \/ CallSession(c)
  BY <1>2, DeadClients
<1>3. CASE StartLink
  BY <1>3 DEF StartLink, DeadInv, CallsWait, JobWaits, AccountsLive
<1>4. ASSUME NEW i \in DOMAIN sessions, SessionReceive(i) \/ SessionExpire(i)
      PROVE  DeadInv'
  <2>1. UNCHANGED <<pc, job, client>>
    BY <1>4 DEF SessionReceive, SessionExpire, server
  <2>2. CASE SessionExpire(i)
    BY <2>1, <2>2, DeadMail DEF SessionExpire, server
  <2>3. CASE SessionReceive(i)
    <3> DEFINE req == Head(sessions[i].mbox).req
               m == [op |-> "reply", from |-> Session(i), val |-> SessionAnswer(i, req)]
    <3>1. sessions[i] \in SessionActors /\ i \in Nat
      BY ElementType, LenProperties DEF TypeOK, TypeActors
    <3>2. m \in Messages
      BY <3>1 DEF Messages, Replies, Session, Pids, SessionAnswer, SessionActors
    <3>3. mbox' = mbox \/ mbox' = Append(mbox, m)
      BY <2>3 DEF SessionReceive, ToServer, Deliver
    <3>4. m.op \notin CallOps /\ \A s : ReplyFrom(m, s) => ~Gone(s, sessions)
      <4>1. sessions[i].alive
        BY <2>3 DEF SessionReceive
      <4> QED
        BY <1>0, <4>1 DEF ReplyFrom, Session, Gone
    <3> HIDE DEF m
    <3> QED
      BY <2>1, <3>2, <3>3, <3>4, DeadMail
  <2> QED
    BY <1>4, <2>2, <2>3
<1>5. ASSUME NEW k \in DOMAIN keepers, KeeperReceive(k)
      PROVE  DeadInv'
  <2>1. keepers[k] \in KeeperActors /\ k \in Nat
    BY ElementType, LenProperties DEF TypeOK, TypeActors
  <2> DEFINE Answer(v) == [op |-> "reply", from |-> Keeper(k), val |-> v]
  <2>5. \A v \in States \cup {"ok"} : Answer(v) \in Messages
    BY <2>1 DEF Messages, Replies, Keeper, Pids
  <2>6. mbox' = mbox \/ \E v \in States \cup {"ok"} : mbox' = Append(mbox, Answer(v))
    BY <1>5, <2>1 DEF KeeperReceive, ToServer, Deliver, KeeperActors
  <2>7. PICK v \in States \cup {"ok"} : mbox' = mbox \/ mbox' = Append(mbox, Answer(v))
    BY <2>6 DEF States
  <2>2. PICK m \in Messages : /\ m.op = "reply" /\ m.from = Keeper(k)
                              /\ (mbox' = mbox \/ mbox' = Append(mbox, m))
    BY <2>5, <2>7
  <2>3. m.op \notin CallOps /\ \A s : ~ReplyFrom(m, s)
    BY <1>0, <2>2 DEF ReplyFrom, Session, Keeper
  <2>4. UNCHANGED <<pc, job, client>>
    BY <1>5 DEF KeeperReceive
  <2> QED
    BY <2>2, <2>3, <2>4, DeadMail
<1>6. ASSUME NEW t \in DOMAIN timers, TimerFire(t)
      PROVE  DeadInv'
  <2> DEFINE m == [op |-> "change_order_state", order |-> timers[t].order,
                   state |-> Stages[timers[t].sent + 1]]
  <2>1. timers[t] \in TimerActors
    BY ElementType DEF TypeOK, TypeActors
  <2>2. Stages[timers[t].sent + 1] \in Range(Stages)
    <3>1. timers[t].sent + 1 \in 1 .. 3
      BY <1>6, <2>1, RankProperties DEF TimerFire, Running, TimerActors
    <3> QED
      BY <3>1, RankProperties
  <2>3. m \in Messages
    BY <2>1, <2>2 DEF Messages, Casts, TimerActors
  <2>4. mbox' = mbox \/ mbox' = Append(mbox, m)
    BY <1>6 DEF TimerFire, ToServer, Deliver
  <2>5. m.op \notin CallOps /\ \A s : ~ReplyFrom(m, s)
    BY <1>0 DEF ReplyFrom
  <2>6. UNCHANGED <<pc, job, client>>
    BY <1>6 DEF TimerFire
  <2> HIDE DEF m
  <2> QED
    BY <2>3, <2>4, <2>5, <2>6, DeadMail
<1>7. CASE UNCHANGED vars
  BY <1>7 DEF vars, server, DeadInv, CallsWait, JobWaits, AccountsLive
<1> QED
  BY <1>1, <1>2, <1>3, <1>4, <1>5, <1>6, <1>7 DEF Next

(* Who gets an answer, and which. *)
Refused == \A c \in Clients :
              (client[c].dead /\ client'[c] = NoClient /\ pc' # "down")
                  => answer'.val = "no_such_session"

LEMMA RefusedNext == TypeOK /\ DeadInv /\ [Next]_vars => Refused
<1> SUFFICES ASSUME TypeOK, DeadInv, [Next]_vars, NEW c \in Clients,
                    client[c].dead, client'[c] = NoClient, pc' # "down"
             PROVE  answer'.val = "no_such_session"
  BY DEF Refused
<1>1. client'[c] # client[c] /\ client \in [Clients -> ClientStates]
  BY DEF NoClient, TypeOK, TypeActors
<1>2. ASSUME NEW m, NEW v, NEW ids, Say(m, v, ids)
      PROVE  m.client = c /\ answer'.val = v
  BY <1>1, <1>2 DEF Say
<1>3. CASE HandleRegister \/ HandleLogIn
  <2>1. PICK m \in AccountCalls : pc = "idle" /\ mbox # << >> /\ m = Head(mbox) /\ m.client = c
    BY <1>2, <1>3 DEF HandleRegister, HandleLogIn, Handle
  <2>2. 1 \in DOMAIN mbox /\ mbox[1] = m
    BY <2>1, ThinsTail DEF TypeOK, TypeServer
  <2>3. client[c].op \in {"register", "log_in"}
    BY <2>1, <2>2 DEF DeadInv, CallsWait, AccountCalls, CallOps
  <2> QED
    BY <2>3 DEF DeadInv, AccountsLive
<1>4. ASSUME NEW v, NEW ids, Reply(v, ids), pc \in {"auth", "log_out", "fetch"}
      PROVE  /\ pc = "auth" /\ answer'.val = v
             /\ \A i \in DOMAIN mbox : ~FirstMatch(i)
  <2>1. job.client = c /\ answer'.val = v
    BY <1>2, <1>4 DEF Reply
  <2>2. client[job.client].dead
    BY <2>1
  <2>3. pc = "auth"
    BY <1>4, <2>2 DEF DeadInv, JobWaits
  <2> QED
    BY <1>4, <2>1, <2>2, <2>3, NotDead
<1>5. CASE CallTimesOut
  BY <1>4, <1>5 DEF CallTimesOut
<1>6. CASE client' = client \/ Terminate
  BY <1>1, <1>6 DEF Terminate
<1>7. CASE ServerStep /\ ~HandleRegister /\ ~HandleLogIn /\ ~CallTimesOut
  <2>1. CASE CheckAuth \/ HandleCast \/ HandleInfo \/ LogOut
             \/ OrderStateChanged \/ ChangeTimesOut
    BY <1>6, <2>1 DEF CheckAuth, HandleCast, HandleInfo, LogOut, OrderStateChanged,
                      ChangeTimesOut
  <2>2. CASE GetAllItems \/ AddNewItem \/ MakeOrder
    BY <1>4, <1>6, <2>2 DEF GetAllItems, AddNewItem, MakeOrder, Authenticated, Take
  <2>3. CASE GetMyOrders \/ GetOrderState
    BY <1>4, <1>6, <2>3 DEF GetMyOrders, GetOrderState, Authenticated, Take
  <2>4. CASE LogOutOk \/ OrderStateFetched
    BY <1>4, <2>4 DEF LogOutOk, OrderStateFetched, Take
  <2> QED
    BY <1>7, <2>1, <2>2, <2>3, <2>4 DEF ServerStep
<1>8. ASSUME NEW d \in Clients, CallAccount(d) \/ CallSession(d)
      PROVE  FALSE
  <2>1. client[d] = NoClient
    BY <1>8 DEF CallAccount, CallSession, Free
  <2>2. \E m, dead : client' = [client EXCEPT ![d] = [op |-> m.op, dead |-> dead]]
    BY <1>8 DEF CallAccount, CallSession, Call
  <2> QED
    BY <1>1, <2>1, <2>2 DEF NoClient
<1>9. CASE StartLink
           \/ (\E i \in DOMAIN sessions : SessionReceive(i) \/ SessionExpire(i))
           \/ (\E k \in DOMAIN keepers : KeeperReceive(k))
           \/ (\E t \in DOMAIN timers : TimerFire(t)) \/ UNCHANGED vars
  BY <1>6, <1>9 DEF StartLink, SessionReceive, SessionExpire, KeeperReceive, TimerFire, vars
<1> QED
  BY <1>3, <1>5, <1>7, <1>8, <1>9 DEF Next

(* A call made with a session that had exited by then is answered
   no_such_session or not at all, however late that session's answers come and
   however often the shop was restarted: mailboxes are read in order, so an
   answer that is older than the call never authenticates it. *)
THEOREM DeadRefused == Spec => DeadSessionRefused
<1>1. Init => DeadInv
  <2> SUFFICES ASSUME Init
               PROVE  DeadInv
    OBVIOUS
  <2>1. mbox = << >> /\ pc = "idle" /\ client = [c \in Clients |-> NoClient]
    BY DEF Init
  <2>2. DOMAIN mbox = {}
    BY <2>1
  <2> QED
    BY <2>1, <2>2 DEF DeadInv, CallsWait, JobWaits, AccountsLive, NoClient
<1>2. TypeOK /\ DeadInv /\ [Next]_vars => DeadInv'
  BY DeadNext
<1>3. TypeOK /\ DeadInv /\ [Next]_vars
        => [\A c \in Clients :
              (client[c].dead /\ client'[c] = NoClient /\ pc' # "down")
                  => answer'.val = "no_such_session"]_vars
  BY RefusedNext DEF Refused
<1> QED
  BY <1>1, <1>2, <1>3, TypeCorrect, PTL DEF Spec, DeadSessionRefused

-----------------------------------------------------------------------------
(* While processes answer in time (MaxLate = 0) there is one conversation at a
   time: nothing is asked and nothing answered, or a session is asked, or a
   keeper is, or there is the one answer that the handler waits for. *)

NoReplies == \A i \in DOMAIN mbox : mbox[i].op # "reply"
NoQuestions == /\ \A i \in DOMAIN sessions : sessions[i].mbox = << >>
               /\ \A k \in DOMAIN keepers : keepers[k].mbox = << >>
Calm == NoReplies /\ NoQuestions

SessionAsked ==
    /\ NoReplies /\ pc \in {"auth", "log_out"}
    /\ sessions[job.session].mbox
        = <<[from |-> inc,
             req |-> IF pc = "auth" THEN "check_existence" ELSE "destroy_session"]>>
    /\ \A i \in DOMAIN sessions : i # job.session => sessions[i].mbox = << >>
    /\ \A k \in DOMAIN keepers : keepers[k].mbox = << >>

KeeperAskedBy(k) ==
    /\ NoReplies /\ pc \in {"fetch", "change"} /\ peer = Keeper(k)
    /\ \E r \in KeeperRequests :
        /\ keepers[k].mbox = <<r>> /\ r.from = inc
        /\ r.req = "get_order_state" <=> pc = "fetch"
    /\ \A i \in DOMAIN sessions : sessions[i].mbox = << >>
    /\ \A j \in DOMAIN keepers : j # k => keepers[j].mbox = << >>

GoodAnswer(m) ==
    /\ m.op = "reply" /\ m.from = peer
    /\ pc \in {"auth", "log_out", "fetch", "change"}
    /\ pc \in {"log_out", "change"} => m.val = "ok"
    /\ pc = "auth" => m.val = sessions[job.session].owner
    /\ pc = "fetch" => \E k \in DOMAIN keepers : peer = Keeper(k) /\ m.val = keepers[k].state

OneAnswer ==
    /\ NoQuestions
    /\ \E i \in DOMAIN mbox : /\ GoodAnswer(mbox[i])
                              /\ \A j \in DOMAIN mbox : mbox[j].op = "reply" => j = i

PromptInv == Calm \/ SessionAsked \/ (\E k \in DOMAIN keepers : KeeperAskedBy(k)) \/ OneAnswer

LEMMA CalmInBetween == PromptInv /\ pc \in {"idle", "down"} => Calm
BY DEF PromptInv, SessionAsked, KeeperAskedBy, OneAnswer, GoodAnswer

LEMMA TheAnswer ==
    ASSUME PromptInv, NEW i \in DOMAIN mbox, FirstMatch(i)
    PROVE  /\ NoQuestions /\ GoodAnswer(mbox[i])
           /\ \A j \in DOMAIN mbox : mbox[j].op = "reply" => j = i
<1>1. mbox[i].op = "reply"
  BY DEF FirstMatch, Matches
<1>2. OneAnswer
  BY <1>1 DEF PromptInv, Calm, SessionAsked, KeeperAskedBy, NoReplies
<1> QED
  BY <1>1, <1>2 DEF OneAnswer

LEMMA AnswerTaken ==
    ASSUME TypeOK, PromptInv, NEW i \in DOMAIN mbox, Take(i)
    PROVE  NoReplies'
<1>1. mbox \in Seq(Messages) /\ mbox' = RemoveAt(mbox, i)
  BY DEF TypeOK, TypeServer, Take
<1>2. Thins(mbox', mbox, {i})
  BY <1>1, ThinsRemoveAt
<1>3. \A j \in DOMAIN mbox : mbox[j].op = "reply" => j = i
  BY TheAnswer DEF Take
<1> QED
  BY <1>2, <1>3 DEF NoReplies, Thins

LEMMA SilenceKept ==
    ASSUME TypeOK, NoReplies,
           \/ mbox' = mbox \/ mbox' = << >>
           \/ mbox # << >> /\ mbox' = Tail(mbox)
           \/ \E m \in Messages : m.op # "reply" /\ mbox' = Append(mbox, m)
    PROVE  NoReplies'
<1>1. mbox \in Seq(Messages)
  BY DEF TypeOK, TypeServer
<1>2. CASE mbox' = mbox \/ mbox' = << >>
  BY <1>2 DEF NoReplies
<1>3. CASE mbox # << >> /\ mbox' = Tail(mbox)
  BY <1>1, <1>3, TailListed DEF NoReplies, Listed
<1>4. ASSUME NEW m \in Messages, m.op # "reply", mbox' = Append(mbox, m)
      PROVE  NoReplies'
  BY <1>1, <1>4, AppendListed DEF NoReplies, Listed
<1> QED
  BY <1>2, <1>3, <1>4

LEMMA SingleQuestion ==
    ASSUME NEW r
    PROVE  /\ Append(<< >>, r) = <<r>> /\ <<r>> # << >> /\ Head(<<r>>) = r /\ Tail(<<r>>) = << >>
           /\ DOMAIN <<r>> = {1} /\ <<r>>[1] = r
OBVIOUS

(* What Unanswered lists. *)
LEMMA UnansweredOf ==
    /\ \A i \in DOMAIN sessions : \A n \in DOMAIN sessions[i].mbox :
        sessions[i].mbox[n].from = inc => <<Session(i), n>> \in Unanswered
    /\ \A k \in DOMAIN keepers : \A n \in DOMAIN keepers[k].mbox :
        keepers[k].mbox[n].from = inc => <<Keeper(k), n>> \in Unanswered
    /\ \A y \in Unanswered :
        \/ \E i \in DOMAIN sessions : \E n \in DOMAIN sessions[i].mbox : y = <<Session(i), n>>
        \/ \E k \in DOMAIN keepers : \E n \in DOMAIN keepers[k].mbox : y = <<Keeper(k), n>>
        \/ \E n \in DOMAIN mbox : mbox[n].op = "reply"
<1> DEFINE OfSession(i) == {<<Session(i), n>> : n \in {x \in DOMAIN sessions[i].mbox :
                                sessions[i].mbox[x].from = inc}}
           OfKeeper(k) == {<<Keeper(k), n>> : n \in {x \in DOMAIN keepers[k].mbox :
                                keepers[k].mbox[x].from = inc}}
           InBox == {<<NoPid, n>> : n \in {x \in DOMAIN mbox : mbox[x].op = "reply"}}
           All1 == UNION {OfSession(i) : i \in DOMAIN sessions}
           All2 == UNION {OfKeeper(k) : k \in DOMAIN keepers}
<1>1. Unanswered = All1 \cup All2 \cup InBox
  BY SMT DEF Unanswered
<1>2. \A i \in DOMAIN sessions : \A n \in DOMAIN sessions[i].mbox :
        sessions[i].mbox[n].from = inc => <<Session(i), n>> \in OfSession(i)
  OBVIOUS
<1>3. \A k \in DOMAIN keepers : \A n \in DOMAIN keepers[k].mbox :
        keepers[k].mbox[n].from = inc => <<Keeper(k), n>> \in OfKeeper(k)
  OBVIOUS
<1>4. \A i \in DOMAIN sessions : \A y \in OfSession(i) :
        \E n \in DOMAIN sessions[i].mbox : y = <<Session(i), n>>
  OBVIOUS
<1>5. \A k \in DOMAIN keepers : \A y \in OfKeeper(k) :
        \E n \in DOMAIN keepers[k].mbox : y = <<Keeper(k), n>>
  OBVIOUS
<1>6. \A y \in InBox : \E n \in DOMAIN mbox : mbox[n].op = "reply"
  OBVIOUS
<1> HIDE DEF OfSession, OfKeeper, InBox
<1>7. /\ \A i \in DOMAIN sessions : OfSession(i) \subseteq Unanswered
      /\ \A k \in DOMAIN keepers : OfKeeper(k) \subseteq Unanswered
      /\ \A y \in Unanswered : \/ \E i \in DOMAIN sessions : y \in OfSession(i)
                               \/ \E k \in DOMAIN keepers : y \in OfKeeper(k)
                               \/ y \in InBox
  BY <1>1
<1> QED
  BY <1>2, <1>3, <1>4, <1>5, <1>6, <1>7

(* A handler stops waiting only when nothing was left to answer. *)
LEMMA TimedOut ==
    ASSUME MaxLate = 0, TypeOK, PromptInv, TimeUnitPassed,
           pc \in {"auth", "log_out", "fetch", "change"}
    PROVE  Calm
<1>1. /\ \A i \in DOMAIN mbox : ~Matches(mbox[i])
      /\ Cardinality(Unanswered) <= 0
  BY DEF TimeUnitPassed
<1>2. ~OneAnswer
  BY <1>1 DEF OneAnswer, GoodAnswer, Matches
<1>3. ASSUME NEW x, Unanswered = {x}
      PROVE  FALSE
  BY <1>1, <1>3, FS_Singleton
<1>4. CASE SessionAsked
  <2>1. job.session \in DOMAIN sessions
    BY <1>4 DEF SessionAsked, TypeOK, TypeHandler, SessionCalls
  <2> DEFINE s == job.session
             r == [from |-> inc, req |-> IF pc = "auth" THEN "check_existence"
                                                        ELSE "destroy_session"]
             x == <<Session(s), 1>>
  <2>2. sessions[s].mbox = <<r>> /\ r.from = inc /\ NoReplies
    BY <1>4 DEF SessionAsked
  <2> HIDE DEF r
  <2>3. DOMAIN sessions[s].mbox = {1} /\ sessions[s].mbox[1].from = inc
    BY <2>2, SingleQuestion
  <2>4. /\ \A i \in DOMAIN sessions : i # s => DOMAIN sessions[i].mbox = {}
        /\ \A k \in DOMAIN keepers : DOMAIN keepers[k].mbox = {}
    BY <1>4 DEF SessionAsked
  <2>5. x \in Unanswered
    BY <2>1, <2>3, UnansweredOf
  <2>6. ASSUME NEW y \in Unanswered
        PROVE  y = x
    <3>1. \/ \E i \in DOMAIN sessions : \E n \in DOMAIN sessions[i].mbox : y = <<Session(i), n>>
          \/ \E k \in DOMAIN keepers : \E n \in DOMAIN keepers[k].mbox : y = <<Keeper(k), n>>
          \/ \E n \in DOMAIN mbox : mbox[n].op = "reply"
      BY <2>6, UnansweredOf
    <3> QED
      BY <2>2, <2>3, <2>4, <3>1 DEF NoReplies
  <2>7. Unanswered = {x}
    BY <2>5, <2>6
  <2> QED
    BY <1>3, <2>7
<1>5. ASSUME NEW s \in DOMAIN keepers, KeeperAskedBy(s)
      PROVE  FALSE
  <2>1. PICK r \in KeeperRequests : keepers[s].mbox = <<r>> /\ r.from = inc
    BY <1>5 DEF KeeperAskedBy
  <2> DEFINE x == <<Keeper(s), 1>>
  <2>2. NoReplies
    BY <1>5 DEF KeeperAskedBy
  <2>3. DOMAIN keepers[s].mbox = {1} /\ keepers[s].mbox[1].from = inc
    BY <2>1, SingleQuestion
  <2>4. /\ \A i \in DOMAIN sessions : DOMAIN sessions[i].mbox = {}
        /\ \A k \in DOMAIN keepers : k # s => DOMAIN keepers[k].mbox = {}
    BY <1>5 DEF KeeperAskedBy
  <2>5. x \in Unanswered
    BY <2>3, UnansweredOf
  <2>6. ASSUME NEW y \in Unanswered
        PROVE  y = x
    <3>1. \/ \E i \in DOMAIN sessions : \E n \in DOMAIN sessions[i].mbox : y = <<Session(i), n>>
          \/ \E k \in DOMAIN keepers : \E n \in DOMAIN keepers[k].mbox : y = <<Keeper(k), n>>
          \/ \E n \in DOMAIN mbox : mbox[n].op = "reply"
      BY <2>6, UnansweredOf
    <3> QED
      BY <2>2, <2>3, <2>4, <3>1 DEF NoReplies
  <2>7. Unanswered = {x}
    BY <2>5, <2>6
  <2> QED
    BY <1>3, <2>7
<1> QED
  BY <1>2, <1>4, <1>5 DEF PromptInv

-----------------------------------------------------------------------------
(* What each step does to the conversation. *)

(* Nobody was asked: new processes have empty mailboxes. *)
LEMMA StillNoQuestions ==
    ASSUME TypeOK, NoQuestions,
           sessions' = sessions \/ \E u \in Users :
                sessions' = Append(sessions, [owner |-> u, alive |-> TRUE, mbox |-> << >>]),
           keepers' = keepers
                \/ keepers' = Append(keepers, [state |-> "placed", mbox |-> << >>])
    PROVE  NoQuestions'
<1>1. ASSUME NEW i \in DOMAIN sessions'
      PROVE  sessions'[i].mbox = << >>
  <2>1. CASE sessions' = sessions
    BY <2>1 DEF NoQuestions
  <2>2. ASSUME NEW u \in Users,
               sessions' = Append(sessions, [owner |-> u, alive |-> TRUE, mbox |-> << >>])
        PROVE  sessions'[i].mbox = << >>
    <3> DEFINE e == [owner |-> u, alive |-> TRUE, mbox |-> << >>]
    <3>1. e \in SessionActors /\ e.mbox = << >> /\ sessions \in Seq(SessionActors)
      BY EmptySeq DEF SessionActors, TypeOK, TypeActors
    <3>2. sessions' = Append(sessions, e)
      BY <2>2
    <3> HIDE DEF e
    <3>4. PICK ss : ss = sessions' /\ ss = Append(sessions, e)
      BY <3>2
    <3>5. /\ Len(sessions) \in Nat /\ DOMAIN sessions = 1 .. Len(sessions)
          /\ DOMAIN ss = 1 .. Len(sessions) + 1
          /\ \A j \in DOMAIN sessions : ss[j] = sessions[j]
          /\ ss[Len(sessions) + 1] = e
      BY <3>1, <3>4, AppendAt
    <3>6. i \in DOMAIN ss
      BY <3>4
    <3>7. i = Len(sessions) + 1 \/ i \in DOMAIN sessions
      BY <3>5, <3>6
    <3>3. sessions'[i] = e \/ (i \in DOMAIN sessions /\ sessions'[i] = sessions[i])
      BY <3>4, <3>5, <3>7
    <3> QED
      BY <3>1, <3>3 DEF NoQuestions
  <2> QED
    BY <2>1, <2>2
<1>2. ASSUME NEW k \in DOMAIN keepers'
      PROVE  keepers'[k].mbox = << >>
  <2>1. CASE keepers' = keepers
    BY <2>1 DEF NoQuestions
  <2>2. CASE keepers' = Append(keepers, [state |-> "placed", mbox |-> << >>])
    <3> DEFINE e == [state |-> "placed", mbox |-> << >>]
    <3>1. e \in KeeperActors /\ e.mbox = << >> /\ keepers \in Seq(KeeperActors)
      BY EmptySeq DEF KeeperActors, States, TypeOK, TypeActors
    <3>2. keepers' = Append(keepers, e)
      BY <2>2
    <3> HIDE DEF e
    <3>4. PICK ss : ss = keepers' /\ ss = Append(keepers, e)
      BY <3>2
    <3>5. /\ Len(keepers) \in Nat /\ DOMAIN keepers = 1 .. Len(keepers)
          /\ DOMAIN ss = 1 .. Len(keepers) + 1
          /\ \A j \in DOMAIN keepers : ss[j] = keepers[j]
          /\ ss[Len(keepers) + 1] = e
      BY <3>1, <3>4, AppendAt
    <3>6. k \in DOMAIN ss
      BY <3>4
    <3>7. k = Len(keepers) + 1 \/ k \in DOMAIN keepers
      BY <3>5, <3>6
    <3>3. keepers'[k] = e \/ (k \in DOMAIN keepers /\ keepers'[k] = keepers[k])
      BY <3>4, <3>5, <3>7
    <3> QED
      BY <3>1, <3>3 DEF NoQuestions
  <2> QED
    BY <2>1, <2>2
<1> QED
  BY <1>1, <1>2 DEF NoQuestions

(* Calls, casts of the timers and sessions that expire do not disturb it. *)
LEMMA PromptMail ==
    ASSUME TypeOK, PromptInv, UNCHANGED <<pc, inc, job, peer, keepers>>,
           DOMAIN sessions' = DOMAIN sessions,
           \A i \in DOMAIN sessions : /\ sessions'[i].mbox = sessions[i].mbox
                                      /\ sessions'[i].owner = sessions[i].owner,
           mbox' = mbox \/ \E m \in Messages : m.op # "reply" /\ mbox' = Append(mbox, m)
    PROVE  PromptInv'
<1>1. NoReplies => NoReplies'
  BY SilenceKept
<1>2. NoQuestions => NoQuestions'
  BY DEF NoQuestions
<1>3. CASE Calm
  BY <1>1, <1>2, <1>3 DEF Calm, PromptInv
<1>4. CASE SessionAsked
  <2>1. job.session \in DOMAIN sessions
    BY <1>4 DEF SessionAsked, TypeOK, TypeHandler, SessionCalls
  <2>2. SessionAsked'
    BY <1>1, <1>4, <2>1 DEF SessionAsked
  <2> QED
    BY <2>2 DEF PromptInv
<1>5. ASSUME NEW k \in DOMAIN keepers, KeeperAskedBy(k)
      PROVE  PromptInv'
  <2>1. KeeperAskedBy(k)'
    BY <1>1, <1>5 DEF KeeperAskedBy
  <2> QED
    BY <2>1 DEF PromptInv
<1>6. CASE OneAnswer
  <2>1. mbox \in Seq(Messages)
    BY DEF TypeOK, TypeServer
  <2>2. PICK i \in DOMAIN mbox : /\ GoodAnswer(mbox[i])
                                 /\ \A j \in DOMAIN mbox : mbox[j].op = "reply" => j = i
    BY <1>6 DEF OneAnswer
  <2>3. /\ i \in DOMAIN mbox' /\ mbox'[i] = mbox[i]
        /\ \A j \in DOMAIN mbox' : mbox'[j].op = "reply" => j = i
    <3>1. CASE mbox' = mbox
      BY <2>2, <3>1
    <3>2. ASSUME NEW m \in Messages, m.op # "reply", mbox' = Append(mbox, m)
          PROVE  /\ i \in DOMAIN mbox' /\ mbox'[i] = mbox[i]
                 /\ \A j \in DOMAIN mbox' : mbox'[j].op = "reply" => j = i
      <4>1. /\ Len(mbox) \in Nat /\ DOMAIN mbox = 1 .. Len(mbox)
            /\ DOMAIN mbox' = 1 .. Len(mbox) + 1
            /\ \A j \in DOMAIN mbox : mbox'[j] = mbox[j]
            /\ mbox'[Len(mbox) + 1] = m
        BY <2>1, <3>2, AppendAt
      <4>2. \A j \in DOMAIN mbox' : j \in DOMAIN mbox \/ j = Len(mbox) + 1
        BY <4>1
      <4>3. i \in DOMAIN mbox'
        BY <4>1
      <4> QED
        BY <2>2, <3>2, <4>1, <4>2, <4>3
    <3> QED
      BY <3>1, <3>2
  <2>4. pc = "auth" => job.session \in DOMAIN sessions
    BY DEF TypeOK, TypeHandler, SessionCalls
  <2>5. GoodAnswer(mbox[i])'
    BY <2>2, <2>3, <2>4 DEF GoodAnswer
  <2> QED
    BY <1>2, <1>6, <2>3, <2>5 DEF OneAnswer, PromptInv
<1> QED
  BY <1>3, <1>4, <1>5, <1>6 DEF PromptInv

LEMMA NoMail ==
    ASSUME mbox' = << >>
    PROVE  NoReplies'
BY DEF NoReplies

(* The server stops in its main loop, or with its answer in hand. *)
LEMMA PromptStop ==
    ASSUME TypeOK, PromptInv, Terminate, pc = "idle" \/ \E i \in DOMAIN mbox : FirstMatch(i),
           sessions' = sessions,
           keepers' = keepers
                \/ keepers' = Append(keepers, [state |-> "placed", mbox |-> << >>])
    PROVE  PromptInv'
<1>1. NoQuestions
  BY CalmInBetween, TheAnswer DEF Calm
<1>2. NoQuestions' /\ NoReplies'
  BY <1>1, StillNoQuestions, NoMail DEF Terminate
<1> QED
  BY <1>2 DEF PromptInv, Calm

(* The handler is done with the answer. *)
LEMMA PromptDone ==
    ASSUME TypeOK, PromptInv, NEW i \in DOMAIN mbox, Take(i), sessions' = sessions,
           keepers' = keepers
                \/ keepers' = Append(keepers, [state |-> "placed", mbox |-> << >>])
    PROVE  PromptInv'
<1>1. NoQuestions
  BY TheAnswer DEF Take
<1>2. NoQuestions' /\ NoReplies'
  BY <1>1, StillNoQuestions, AnswerTaken
<1> QED
  BY <1>2 DEF PromptInv, Calm

LEMMA PromptAccounts ==
    ASSUME TypeOK, PromptInv, HandleRegister \/ HandleLogIn
    PROVE  PromptInv'
<1>1. pc = "idle" /\ mbox # << >> /\ mbox' = Tail(mbox) /\ keepers' = keepers
  BY DEF HandleRegister, HandleLogIn, Handle
<1>2. Calm
  BY <1>1, CalmInBetween
<1>3. sessions' = sessions \/ \E u \in Users :
            sessions' = Append(sessions, [owner |-> u, alive |-> TRUE, mbox |-> << >>])
  BY DEF HandleRegister, HandleLogIn, AccountCalls
<1>4. NoQuestions' /\ NoReplies'
  BY <1>1, <1>2, <1>3, StillNoQuestions, SilenceKept DEF Calm
<1> QED
  BY <1>4 DEF PromptInv, Calm

(* The handler asks a session: with nobody asked before, it alone is, or it
   has exited and the question is dropped. *)
LEMMA SessionIsAsked ==
    ASSUME TypeOK, NoQuestions, NoReplies', inc' = inc, keepers' = keepers,
           NEW s \in DOMAIN sessions, job'.session = s,
           pc' \in {"auth", "log_out"},
           AskSession(s, IF pc' = "auth" THEN "check_existence" ELSE "destroy_session")
    PROVE  PromptInv'
<1> DEFINE r == [from |-> inc, req |-> IF pc' = "auth" THEN "check_existence"
                                                      ELSE "destroy_session"]
<1>1. sessions' = IF sessions[s].alive
                  THEN [sessions EXCEPT ![s].mbox = Append(@, r)] ELSE sessions
  BY DEF AskSession, Deliver
<1>2. /\ sessions[s] \in SessionActors /\ sessions[s].mbox = << >>
      /\ sessions \in Seq(SessionActors)
  BY ElementType DEF TypeOK, TypeActors, NoQuestions
<1> HIDE DEF r
<1>3. CASE ~sessions[s].alive
  BY <1>1, <1>3 DEF PromptInv, Calm, NoQuestions
<1>4. CASE sessions[s].alive
  <2>1. /\ DOMAIN sessions' = DOMAIN sessions
        /\ sessions'[s].mbox = <<r>>
        /\ \A i \in DOMAIN sessions : i # s => sessions'[i] = sessions[i]
    BY <1>1, <1>2, <1>4, SingleQuestion DEF SessionActors
  <2>2. SessionAsked'
    BY <2>1 DEF SessionAsked, NoQuestions, r
  <2> QED
    BY <2>2 DEF PromptInv
<1> QED
  BY <1>3, <1>4

(* The same for a keeper. *)
LEMMA KeeperIsAsked ==
    ASSUME TypeOK, NoQuestions, NoReplies', inc' = inc, sessions' = sessions,
           NEW k \in DOMAIN keepers, NEW r \in KeeperRequests, AskKeeper(k, r),
           r.from = inc, peer' = Keeper(k), pc' \in {"fetch", "change"},
           r.req = "get_order_state" <=> pc' = "fetch"
    PROVE  PromptInv'
<1>1. /\ DOMAIN keepers' = DOMAIN keepers
      /\ keepers'[k].mbox = <<r>>
      /\ \A j \in DOMAIN keepers : j # k => keepers'[j] = keepers[j]
  BY KeeperAsked, SingleQuestion DEF NoQuestions
<1>2. KeeperAskedBy(k)'
  BY <1>1 DEF KeeperAskedBy, NoQuestions
<1> QED
  BY <1>1, <1>2 DEF PromptInv

LEMMA PromptAsks ==
    ASSUME TypeOK, PromptInv, CheckAuth \/ LogOut
    PROVE  PromptInv'
<1>1. CASE CheckAuth
  <2>1. Calm /\ NoReplies'
    BY <1>1, CalmInBetween, SilenceKept DEF CheckAuth, Calm
  <2> DEFINE s == Head(mbox).session
  <2>2. s \in DOMAIN sessions /\ job'.session = s
    BY <1>1, HeadType DEF CheckAuth, TypeOK, SessionCalls
  <2>3. /\ pc' = "auth" /\ inc' = inc /\ keepers' = keepers
        /\ AskSession(s, "check_existence")
    BY <1>1 DEF CheckAuth
  <2> HIDE DEF s
  <2> QED
    BY <2>1, <2>2, <2>3, SessionIsAsked DEF Calm
<1>2. CASE LogOut
  <2>1. PICK i \in DOMAIN mbox : /\ pc = "auth" /\ Take(i)
                                 /\ AskSession(job.session, "destroy_session")
                                 /\ pc' = "log_out" /\ inc' = inc /\ job' = job
                                 /\ keepers' = keepers
    BY <1>2 DEF LogOut, Authenticated
  <2>2. NoQuestions /\ NoReplies'
    BY <2>1, TheAnswer, AnswerTaken DEF Take
  <2>3. job.session \in DOMAIN sessions
    BY <2>1 DEF TypeOK, TypeHandler, SessionCalls
  <2> QED
    BY <2>1, <2>2, <2>3, SessionIsAsked
<1> QED
  BY <1>1, <1>2

LEMMA PromptHandleCast ==
    ASSUME TypeOK, PromptInv, HandleCast
    PROVE  PromptInv'
<1> DEFINE m == Head(mbox)
           r == [from |-> inc, req |-> "change_order_state", state |-> m.state]
<1>1. pc = "idle" /\ mbox # << >> /\ m.op = "change_order_state"
  BY DEF HandleCast
<1>2. CASE Terminate /\ UNCHANGED <<sessions, keepers>>
  BY <1>1, <1>2, PromptStop
<1>3. CASE /\ Cardinality(OrdersWithId(m.order)) = 1
           /\ mbox' = Tail(mbox) /\ pc' = "change" /\ inc' = inc
           /\ peer' = Keeper(OrderKeeper(m.order)) /\ sessions' = sessions
           /\ AskKeeper(OrderKeeper(m.order), r)
  <2>1. Calm /\ NoReplies'
    BY <1>1, <1>3, CalmInBetween, SilenceKept DEF Calm
  <2>2. OrderKeeper(m.order) \in DOMAIN keepers
    BY <1>3, OrderKeeperType DEF TypeOK
  <2>3. m \in Casts /\ inc \in Nat
    BY <1>1, HeadType DEF TypeOK, TypeServer
  <2>4. r \in KeeperRequests
    BY <2>3 DEF Casts, KeeperRequests
  <2>5. r.from = inc /\ r.req = "change_order_state"
    OBVIOUS
  <2> HIDE DEF r, m
  <2> QED
    BY <1>3, <2>1, <2>2, <2>4, <2>5, KeeperIsAsked DEF Calm
<1> QED
  BY <1>2, <1>3 DEF HandleCast

LEMMA PromptGetOrderState ==
    ASSUME TypeOK, PromptInv, GetOrderState
    PROVE  PromptInv'
<1>1. PICK i \in DOMAIN mbox :
        /\ FirstMatch(i)
        /\ \/ Take(i) /\ UNCHANGED <<sessions, keepers>>
           \/ /\ Cardinality(OrdersWithId(job.order)) = 1 /\ Take(i)
              /\ pc' = "fetch" /\ peer' = Keeper(OrderKeeper(job.order))
              /\ AskKeeper(OrderKeeper(job.order), [from |-> inc, req |-> "get_order_state"])
              /\ UNCHANGED <<inc, sessions>>
           \/ Terminate /\ UNCHANGED <<sessions, keepers>>
  BY DEF GetOrderState, Authenticated
<1>2. CASE Take(i) /\ UNCHANGED <<sessions, keepers>>
  BY <1>2, PromptDone
<1>3. CASE Terminate /\ UNCHANGED <<sessions, keepers>>
  BY <1>1, <1>3, PromptStop
<1>4. CASE /\ Cardinality(OrdersWithId(job.order)) = 1 /\ Take(i)
           /\ pc' = "fetch" /\ peer' = Keeper(OrderKeeper(job.order))
           /\ AskKeeper(OrderKeeper(job.order), [from |-> inc, req |-> "get_order_state"])
           /\ UNCHANGED <<inc, sessions>>
  <2> DEFINE r == [from |-> inc, req |-> "get_order_state"]
  <2>1. NoQuestions /\ NoReplies'
    BY <1>4, TheAnswer, AnswerTaken DEF Take
  <2>2. OrderKeeper(job.order) \in DOMAIN keepers
    BY <1>4, OrderKeeperType DEF TypeOK
  <2>3. r \in KeeperRequests /\ r.from = inc /\ r.req = "get_order_state"
    BY DEF KeeperRequests, TypeOK, TypeServer
  <2>4. AskKeeper(OrderKeeper(job.order), r)
    BY <1>4
  <2> HIDE DEF r
  <2> QED
    BY <1>4, <2>1, <2>2, <2>3, <2>4, KeeperIsAsked
<1> QED
  BY <1>1, <1>2, <1>3, <1>4

LEMMA PromptServer ==
    ASSUME MaxLate = 0, TypeOK, PromptInv, ServerStep
    PROVE  PromptInv'
<1>1. CASE HandleInfo
  BY <1>1, PromptStop DEF HandleInfo
<1>2. CASE GetAllItems \/ AddNewItem
  BY <1>2, PromptStop, PromptDone DEF GetAllItems, AddNewItem, Authenticated
<1>3. CASE MakeOrder
  BY <1>3, PromptStop, PromptDone DEF MakeOrder, Authenticated
<1>4. CASE GetMyOrders
  BY <1>4, PromptStop, PromptDone DEF GetMyOrders, Authenticated
<1>5. CASE LogOutOk \/ OrderStateFetched \/ OrderStateChanged
  BY <1>5, PromptDone DEF LogOutOk, OrderStateFetched, OrderStateChanged
<1>6. CASE CallTimesOut \/ ChangeTimesOut
  <2>1. Calm /\ mbox' = mbox /\ sessions' = sessions /\ keepers' = keepers
    BY <1>6, TimedOut DEF CallTimesOut, ChangeTimesOut
  <2> QED
    BY <2>1 DEF PromptInv, Calm, NoReplies, NoQuestions
<1> QED
  BY <1>1, <1>2, <1>3, <1>4, <1>5, <1>6, PromptAccounts, PromptAsks, PromptHandleCast,
     PromptGetOrderState DEF ServerStep

(* The answer that a process sends is the only one. *)
LEMMA AnswerSent ==
    ASSUME TypeOK, NoReplies, NEW m \in Messages, GoodAnswer(m)', NoQuestions',
           mbox' = Append(mbox, m)
    PROVE  PromptInv'
<1>1. mbox \in Seq(Messages)
  BY DEF TypeOK, TypeServer
<1> DEFINE n == Len(mbox) + 1
<1>2. /\ Len(mbox) \in Nat /\ DOMAIN mbox = 1 .. Len(mbox)
      /\ DOMAIN mbox' = 1 .. n
      /\ \A j \in DOMAIN mbox : mbox'[j] = mbox[j]
      /\ mbox'[n] = m
  BY <1>1, AppendAt
<1>3. n \in DOMAIN mbox' /\ \A j \in DOMAIN mbox' : j \in DOMAIN mbox \/ j = n
  BY <1>2
<1> HIDE DEF n
<1>4. \A j \in DOMAIN mbox' : mbox'[j].op = "reply" => j = n
  BY <1>2, <1>3 DEF NoReplies
<1>6. OneAnswer'
  BY <1>2, <1>3, <1>4 DEF OneAnswer
<1> QED
  BY <1>6 DEF PromptInv

LEMMA PromptSession ==
    ASSUME TypeOK, PromptInv, NEW i \in DOMAIN sessions, SessionReceive(i)
    PROVE  PromptInv'
<1>1. sessions[i].mbox # << >>
  BY DEF SessionReceive
<1>2. SessionAsked /\ i = job.session
  BY <1>1 DEF PromptInv, Calm, OneAnswer, NoQuestions, SessionAsked, KeeperAskedBy
<1> DEFINE r == [from |-> inc, req |-> IF pc = "auth" THEN "check_existence"
                                                    ELSE "destroy_session"]
           m == [op |-> "reply", from |-> Session(i), val |-> SessionAnswer(i, r.req)]
<1>3. /\ sessions[i].mbox = <<r>> /\ NoReplies /\ pc \in {"auth", "log_out"}
      /\ \A j \in DOMAIN sessions : j # i => sessions[j].mbox = << >>
      /\ \A k \in DOMAIN keepers : keepers[k].mbox = << >>
  BY <1>2 DEF SessionAsked
<1>4. Head(sessions[i].mbox) = r /\ Tail(sessions[i].mbox) = << >>
  BY <1>3, SingleQuestion
<1>5. /\ sessions[i] \in SessionActors /\ i \in Nat /\ sessions \in Seq(SessionActors)
  BY ElementType, LenProperties DEF TypeOK, TypeActors
<1>6. m \in Messages
  BY <1>5 DEF Messages, Replies, Session, Pids, SessionAnswer, SessionActors
<1>7. mbox' = Append(mbox, m)
  BY <1>3, <1>4 DEF SessionReceive, ToServer, Deliver
<1>8. /\ sessions' = [sessions EXCEPT ![i].mbox = << >>]
         \/ sessions' = [sessions EXCEPT ![i].mbox = << >>, ![i].alive = FALSE]
      /\ UNCHANGED <<pc, inc, job, peer, keepers>>
  BY <1>4 DEF SessionReceive
<1>9. /\ DOMAIN sessions' = DOMAIN sessions
      /\ sessions'[i].mbox = << >> /\ sessions'[i].owner = sessions[i].owner
      /\ \A j \in DOMAIN sessions : j # i => sessions'[j] = sessions[j]
  BY <1>5, <1>8 DEF SessionActors
<1>10. NoQuestions'
  BY <1>3, <1>8, <1>9 DEF NoQuestions
<1>11. peer = Session(i)
  BY <1>2, <1>3 DEF TypeOK, TypeHandler
<1>12. PICK x \in Messages : /\ mbox' = Append(mbox, x)
                             /\ x.op = "reply" /\ x.from = Session(i)
                             /\ x.val = IF pc = "auth" THEN sessions[i].owner ELSE "ok"
  BY <1>6, <1>7 DEF SessionAnswer
<1>13. GoodAnswer(x)'
  BY <1>2, <1>3, <1>8, <1>9, <1>11, <1>12 DEF GoodAnswer
<1> QED
  BY <1>3, <1>10, <1>12, <1>13, AnswerSent

LEMMA PromptKeeper ==
    ASSUME TypeOK, PromptInv, NEW k \in DOMAIN keepers, KeeperReceive(k)
    PROVE  PromptInv'
<1>1. /\ keepers[k].mbox # << >> /\ DOMAIN keepers' = DOMAIN keepers
      /\ keepers'[k].mbox = Tail(keepers[k].mbox)
      /\ keepers'[k].state = IF Head(keepers[k].mbox).req = "change_order_state"
                             THEN Head(keepers[k].mbox).state ELSE keepers[k].state
      /\ \A j \in DOMAIN keepers : j # k => keepers'[j] = keepers[j]
      /\ keepers[k].state \in States
  BY KeeperReads
<1>2. KeeperAskedBy(k)
  BY <1>1 DEF PromptInv, Calm, OneAnswer, NoQuestions, SessionAsked, KeeperAskedBy
<1>3. PICK r \in KeeperRequests : /\ keepers[k].mbox = <<r>> /\ r.from = inc
                                  /\ r.req = "get_order_state" <=> pc = "fetch"
  BY <1>2 DEF KeeperAskedBy
<1>4. Head(keepers[k].mbox) = r /\ Tail(keepers[k].mbox) = << >>
  BY <1>3, SingleQuestion
<1>5. pc \in {"fetch", "change"} /\ peer = Keeper(k) /\ NoReplies
  BY <1>2 DEF KeeperAskedBy
<1> DEFINE m == [op |-> "reply", from |-> Keeper(k),
                 val |-> IF pc = "fetch" THEN keepers[k].state ELSE "ok"]
<1>6. mbox' = Append(mbox, m) /\ UNCHANGED <<pc, inc, job, peer, sessions>>
  BY <1>3, <1>4, <1>5 DEF KeeperReceive, ToServer, Deliver
<1>7. k \in Nat
  BY LenProperties DEF TypeOK, TypeActors
<1>8. m \in Messages
  BY <1>1, <1>7 DEF Messages, Replies, Keeper, Pids
<1>9. NoQuestions'
  BY <1>1, <1>2, <1>4, <1>6 DEF NoQuestions, KeeperAskedBy
<1>10. pc = "fetch" => keepers'[k].state = keepers[k].state
  BY <1>1, <1>3, <1>4
<1>11. PICK x \in Messages : /\ mbox' = Append(mbox, x)
                             /\ x.op = "reply" /\ x.from = Keeper(k)
                             /\ x.val = IF pc = "fetch" THEN keepers[k].state ELSE "ok"
  BY <1>6, <1>8
<1>12. GoodAnswer(x)'
  BY <1>1, <1>5, <1>6, <1>10, <1>11 DEF GoodAnswer
<1> QED
  BY <1>5, <1>9, <1>11, <1>12, AnswerSent

(* A call or a cast that is sent, or nothing. *)
LEMMA CallMail ==
    ASSUME TypeOK, NEW c \in Clients, CallAccount(c) \/ CallSession(c)
    PROVE  \E m \in Messages : /\ m.op \notin {"change_order_state", "reply"}
                               /\ mbox' = Append(mbox, m)
<1>1. CASE CallAccount(c)
  BY <1>1 DEF CallAccount, Call, Deliver, Messages, Calls, AccountCalls
<1>2. CASE CallSession(c)
  <2>1. PICK op \in SessionOps, i \in DOMAIN sessions :
           \E m \in SessionCall(op, c, i) : Call(c, m, ~sessions[i].alive)
    BY <1>2 DEF CallSession
  <2>2. SessionCall(op, c, i) \subseteq SessionCalls
    <3>1. 1 .. MaxOrders \subseteq Nat
      OBVIOUS
    <3> QED
      BY <3>1 DEF SessionCall, SessionCalls, SessionOps
  <2>3. /\ SessionCalls \subseteq Messages
        /\ \A m \in SessionCalls : m.op \notin {"change_order_state", "reply"}
    BY DEF SessionCalls, Messages, Calls
  <2> QED
    BY <2>1, <2>2, <2>3 DEF Call, Deliver
<1> QED
  BY <1>1, <1>2

LEMMA TimerMail ==
    ASSUME TypeOK, NEW t \in DOMAIN timers, TimerFire(t)
    PROVE  mbox' = mbox \/ \E m \in Messages : /\ m.op = "change_order_state"
                                               /\ m.order = timers[t].order
                                               /\ mbox' = Append(mbox, m)
<1> DEFINE m == [op |-> "change_order_state", order |-> timers[t].order,
                 state |-> Stages[timers[t].sent + 1]]
<1>1. timers[t] \in TimerActors
  BY ElementType DEF TypeOK, TypeActors
<1>2. Stages[timers[t].sent + 1] \in Range(Stages)
  <2>1. timers[t].sent + 1 \in 1 .. 3
    BY <1>1, RankProperties DEF TimerFire, Running, TimerActors
  <2> QED
    BY <2>1, RankProperties
<1>3. m \in Messages
  BY <1>1, <1>2 DEF Messages, Casts, TimerActors
<1>4. mbox' = mbox \/ mbox' = Append(mbox, m)
  BY DEF TimerFire, ToServer, Deliver
<1>5. m.op = "change_order_state" /\ m.order = timers[t].order
  OBVIOUS
<1> HIDE DEF m
<1> QED
  BY <1>3, <1>4, <1>5

LEMMA PromptNext == MaxLate = 0 /\ TypeOK /\ PromptInv /\ [Next]_vars => PromptInv'
<1> SUFFICES ASSUME MaxLate = 0, TypeOK, PromptInv, [Next]_vars
             PROVE  PromptInv'
  OBVIOUS
<1>1. CASE ServerStep
  BY <1>1, PromptServer
<1>2. ASSUME NEW c \in Clients, CallAccount(c) \/ CallSession(c)
      PROVE  PromptInv'
  <2>1. UNCHANGED <<pc, inc, job, peer, keepers, sessions>>
    BY <1>2 DEF CallAccount, CallSession, Call
  <2>2. \E m \in Messages : m.op # "reply" /\ mbox' = Append(mbox, m)
    BY <1>2, CallMail
  <2> QED
    BY <2>1, <2>2, PromptMail
<1>3. ASSUME NEW t \in DOMAIN timers, TimerFire(t)
      PROVE  PromptInv'
  <2>1. UNCHANGED <<pc, inc, job, peer, keepers, sessions>>
    BY <1>3 DEF TimerFire
  <2>2. mbox' = mbox \/ \E m \in Messages : m.op # "reply" /\ mbox' = Append(mbox, m)
    BY <1>3, TimerMail
  <2> QED
    BY <2>1, <2>2, PromptMail
<1>4. ASSUME NEW i \in DOMAIN sessions, SessionExpire(i)
      PROVE  PromptInv'
  <2>1. UNCHANGED <<pc, inc, job, peer, keepers, mbox>>
    BY <1>4 DEF SessionExpire, server
  <2>2. sessions' = [sessions EXCEPT ![i].alive = FALSE]
    BY <1>4 DEF SessionExpire
  <2>3. /\ DOMAIN sessions' = DOMAIN sessions
        /\ \A n \in DOMAIN sessions : /\ sessions'[n].mbox = sessions[n].mbox
                                      /\ sessions'[n].owner = sessions[n].owner
    BY <2>2
  <2> QED
    BY <2>1, <2>3, PromptMail
<1>5. CASE StartLink
  <2>1. Calm /\ UNCHANGED <<mbox, sessions, keepers>>
    BY <1>5, CalmInBetween DEF StartLink
  <2> QED
    BY <2>1 DEF PromptInv, Calm, NoReplies, NoQuestions
<1>6. CASE UNCHANGED vars
  <2>1. UNCHANGED <<pc, inc, job, peer, keepers, sessions, mbox>>
    BY <1>6 DEF vars, server
  <2> QED
    BY <2>1, PromptMail
<1> QED
  BY <1>1, <1>2, <1>3, <1>4, <1>5, <1>6, PromptSession, PromptKeeper DEF Next

LEMMA PromptInit == Init => PromptInv
<1> SUFFICES ASSUME Init
             PROVE  Calm
  BY DEF PromptInv
<1> QED
  BY DEF Init, Calm, NoReplies, NoQuestions

(* While every process answers within TIME_UNIT (MaxLate = 0), no answer is
   ever stray: the one in the mailbox is the one its handler waits for. *)
THEOREM NoneStray ==
    ASSUME MaxLate = 0
    PROVE  Spec => []NoStrayReply
<1>1. Init => PromptInv
  BY PromptInit
<1>2. TypeOK /\ PromptInv /\ [Next]_vars => PromptInv'
  BY PromptNext
<1>3. PromptInv => NoStrayReply
  BY DEF PromptInv, Calm, SessionAsked, KeeperAskedBy, OneAnswer, GoodAnswer, NoReplies,
         NoStrayReply, Matches
<1> QED
  BY <1>1, <1>2, <1>3, TypeCorrect, PTL DEF Spec

-----------------------------------------------------------------------------
(* What the handlers tell. *)

(* The keeper that is asked for a state is that of the order asked for, and
   the order is the caller's. *)
FetchInv == pc = "fetch" =>
    \E n \in DOMAIN orders : /\ orders[n].id = job.order
                             /\ orders[n].user = sessions[job.session].owner
                             /\ peer = Keeper(orders[n].keeper)

(* The step into the receive for a keeper's state, and any other. *)
LEMMA FetchSteps ==
    ASSUME [Next]_vars, pc' = "fetch"
    PROVE  \/ GetOrderState
           \/ pc = "fetch" /\ UNCHANGED <<job, peer, orders, answer>>
<1>1. CASE ServerStep
  BY <1>1 DEF ServerStep, HandleRegister, HandleLogIn, CheckAuth, HandleCast, HandleInfo,
              LogOut, GetAllItems, AddNewItem, MakeOrder, GetMyOrders, LogOutOk,
              OrderStateFetched, OrderStateChanged, CallTimesOut, ChangeTimesOut, Reply, Back,
              Terminate, Handle, Authenticated
<1>2. CASE StartLink \/ (\E c \in Clients : CallAccount(c) \/ CallSession(c))
           \/ (\E i \in DOMAIN sessions : SessionReceive(i) \/ SessionExpire(i))
           \/ (\E k \in DOMAIN keepers : KeeperReceive(k))
           \/ (\E t \in DOMAIN timers : TimerFire(t)) \/ UNCHANGED vars
  BY <1>2 DEF StartLink, CallAccount, CallSession, Call, SessionReceive, SessionExpire,
              KeeperReceive, TimerFire, vars, shop, server
<1> QED
  BY <1>1, <1>2 DEF Next

LEMMA FetchNext ==
    ASSUME TypeOK, PromptInv, OrderBookCoherent, FetchInv, [Next]_vars
    PROVE  FetchInv'
<1> SUFFICES ASSUME pc' = "fetch"
             PROVE  FetchInv'
  BY DEF FetchInv
<1>1. SessionsGrow
  BY SessionsOnlyGrow
<1>2. CASE pc = "fetch" /\ UNCHANGED <<job, peer, orders>>
  <2>1. job.session \in DOMAIN sessions
    BY <1>2 DEF TypeOK, TypeHandler, SessionCalls
  <2>2. sessions'[job.session].owner = sessions[job.session].owner
    BY <1>1, <2>1 DEF SessionsGrow
  <2> QED
    BY <1>2, <2>2 DEF FetchInv
<1>3. CASE GetOrderState
  <2>1. PICK i \in DOMAIN mbox :
          /\ pc = "auth" /\ FirstMatch(i)
          /\ mbox[i].val \in DOMAIN users
          /\ job.order \in users[mbox[i].val].orders
          /\ Cardinality(OrdersWithId(job.order)) = 1
          /\ peer' = Keeper(OrderKeeper(job.order))
          /\ UNCHANGED <<job, orders, sessions>>
    BY <1>3 DEF GetOrderState, Authenticated, Reply, Back, Terminate, shop
  <2>2. mbox[i].val = sessions[job.session].owner
    BY <2>1, TheAnswer DEF GoodAnswer
  <2>3. PICK n \in DOMAIN orders :
          orders[n].id = job.order /\ orders[n].keeper = OrderKeeper(job.order)
    BY <2>1, OrderKeeperType DEF TypeOK
  <2>4. orders[n].user = mbox[i].val
    BY <2>1, <2>3 DEF OrderBookCoherent
  <2>5. /\ orders[n].id = job.order /\ orders[n].user = sessions[job.session].owner
        /\ peer' = Keeper(orders[n].keeper)
    BY <2>1, <2>2, <2>3, <2>4
  <2>6. job' = job /\ orders' = orders /\ sessions' = sessions
    BY <2>1
  <2> QED
    BY <2>5, <2>6 DEF FetchInv
<1> QED
  BY <1>2, <1>3, FetchSteps

(* The last answer is true, and there is none while a handler runs. *)
AnswerInv ==
    /\ pc # "idle" => answer = NoAnswer
    /\ answer.call.op \in {"get_order_state", "get_my_orders"}
            => answer.call.session \in DOMAIN sessions
    /\ AnswerIsCurrent

OrdersListed(user) == {orders[n].id : n \in {x \in DOMAIN orders : orders[x].user = user}}

LEMMA AnswerNone ==
    ASSUME answer = NoAnswer
    PROVE  AnswerInv
<1>1. answer.call.op = "none"
  BY DEF NoAnswer, NoJob
<1> QED
  BY <1>1 DEF AnswerInv, AnswerIsCurrent

(* An answer that tells nothing of the orders. *)
LEMMA AnswerOther ==
    ASSUME TypeOK, [Next]_vars, pc' = "idle", NEW m, NEW v, NEW ids,
           answer' = [call |-> m, val |-> v, ids |-> ids],
           \/ m.op \notin {"get_order_state", "get_my_orders"}
           \/ m.session \in DOMAIN sessions /\ v \notin States \cup {"order_list"}
    PROVE  AnswerInv'
<1>1. SessionsGrow
  BY SessionsOnlyGrow
<1>2. answer'.call = m /\ answer'.val = v
  OBVIOUS
<1> QED
  BY <1>1, <1>2 DEF AnswerInv, AnswerIsCurrent, SessionsGrow

(* What an answer says of the orders stays true while the orders stay. *)
LEMMA AnswerStays ==
    ASSUME TypeOK, AnswerInv, [Next]_vars, answer' = answer,
           pc' # "idle" => answer = NoAnswer,
           UNCHANGED <<orders, keepers>>
    PROVE  AnswerInv'
<1>1. SessionsGrow
  BY SessionsOnlyGrow
<1>2. answer.call.op \in {"get_order_state", "get_my_orders"} =>
        /\ answer.call.session \in DOMAIN sessions'
        /\ sessions'[answer.call.session].owner = sessions[answer.call.session].owner
  BY <1>1 DEF AnswerInv, SessionsGrow
<1>3. CASE answer.call.op = "get_order_state"
  BY <1>2, <1>3 DEF AnswerInv, AnswerIsCurrent, OrdersWithId
<1>4. CASE answer.call.op = "get_my_orders"
  BY <1>2, <1>4 DEF AnswerInv, AnswerIsCurrent
<1>5. CASE answer.call.op \notin {"get_order_state", "get_my_orders"}
  BY <1>5 DEF AnswerInv, AnswerIsCurrent
<1> QED
  BY <1>3, <1>4, <1>5

LEMMA AnswerFetched ==
    ASSUME TypeOK, PromptInv, FetchInv, [Next]_vars, OrderStateFetched
    PROVE  AnswerInv'
<1>1. PICK i \in DOMAIN mbox : /\ pc = "fetch" /\ FirstMatch(i) /\ pc' = "idle"
                               /\ answer' = [call |-> job, val |-> mbox[i].val,
                                             ids |-> {job.order}]
                               /\ UNCHANGED <<orders, sessions, keepers>>
  BY DEF OrderStateFetched, Take, Reply, Back, Say, shop
<1>2. PICK k \in DOMAIN keepers : peer = Keeper(k) /\ mbox[i].val = keepers[k].state
  BY <1>1, TheAnswer DEF GoodAnswer
<1>3. PICK n \in DOMAIN orders : /\ orders[n].id = job.order
                                 /\ orders[n].user = sessions[job.session].owner
                                 /\ peer = Keeper(orders[n].keeper)
  BY <1>1 DEF FetchInv
<1>4. orders[n].keeper = k
  BY <1>2, <1>3 DEF Keeper
<1>5. job.op = "get_order_state" /\ job.session \in DOMAIN sessions
  BY <1>1 DEF TypeOK, TypeHandler, SessionCalls
<1>6. answer'.call = job /\ answer'.val = keepers[k].state
  BY <1>1, <1>2
<1>7. /\ answer'.call.op = "get_order_state" /\ pc' = "idle"
      /\ answer'.call.session \in DOMAIN sessions'
  BY <1>1, <1>5, <1>6
<1>8. /\ n \in DOMAIN orders' /\ orders'[n].id = answer'.call.order
      /\ orders'[n].user = sessions'[answer'.call.session].owner
      /\ keepers'[orders'[n].keeper].state = answer'.val
  BY <1>1, <1>3, <1>4, <1>6
<1> QED
  BY <1>7, <1>8 DEF AnswerInv, AnswerIsCurrent, OrdersWithId

LEMMA AnswerListed ==
    ASSUME TypeOK, PromptInv, OrderBookCoherent, AnswerInv, [Next]_vars, GetMyOrders
    PROVE  AnswerInv'
<1>1. CASE Terminate
  BY <1>1, AnswerNone DEF Terminate, NoAnswer, AnswerInv, AnswerIsCurrent, NoJob
<1>2. CASE ~Terminate
  <2>1. PICK i \in DOMAIN mbox :
          /\ pc = "auth" /\ job.op = "get_my_orders" /\ FirstMatch(i) /\ pc' = "idle"
          /\ mbox[i].val \in DOMAIN users
          /\ answer' = [call |-> job, val |-> "order_list", ids |-> OrdersOf(mbox[i].val)]
          /\ UNCHANGED <<orders, sessions, keepers>>
    BY <1>2 DEF GetMyOrders, Authenticated, Take, Reply, Back, Say, shop
  <2>2. mbox[i].val = sessions[job.session].owner
    BY <2>1, TheAnswer DEF GoodAnswer
  <2>3. \A n \in DOMAIN orders : orders[n].id \in users[mbox[i].val].orders
                                    <=> orders[n].user = mbox[i].val
    BY <2>1 DEF OrderBookCoherent
  <2>4. OrdersOf(mbox[i].val) = OrdersListed(mbox[i].val)
    BY <2>3 DEF OrdersOf, OrdersListed
  <2>5. job.session \in DOMAIN sessions
    BY <2>1 DEF TypeOK, TypeHandler, SessionCalls
  <2>6. answer'.call = job /\ answer'.ids = OrdersListed(sessions[job.session].owner)
        /\ answer'.val = "order_list"
    BY <2>1, <2>2, <2>4
  <2> QED
    BY <2>1, <2>5, <2>6 DEF AnswerInv, AnswerIsCurrent, OrdersListed
<1> QED
  BY <1>1, <1>2

LEMMA AnswerServer ==
    ASSUME TypeOK, PromptInv, OrderBookCoherent, FetchInv, AnswerInv, [Next]_vars, ServerStep
    PROVE  AnswerInv'
<1>1. CASE answer' = NoAnswer
  <2>1. answer'.call.op = "none"
    BY <1>1 DEF NoAnswer, NoJob
  <2> QED
    BY <1>1, <2>1 DEF AnswerInv, AnswerIsCurrent, NoAnswer
<1>2. CASE HandleRegister \/ HandleLogIn
  <2>1. PICK m \in AccountCalls : pc = "idle" /\ pc' = "idle" /\ \E v :
                answer' = [call |-> m, val |-> v, ids |-> {}]
    BY <1>2 DEF HandleRegister, HandleLogIn, Handle, Say
  <2>2. m.op \notin {"get_order_state", "get_my_orders"}
    BY DEF AccountCalls
  <2> QED
    BY <2>1, <2>2, AnswerOther
<1>3. CASE CheckAuth \/ HandleCast \/ HandleInfo
  BY <1>1, <1>3 DEF CheckAuth, HandleCast, HandleInfo, Terminate
<1>4. CASE LogOut
  BY <1>1, <1>4 DEF LogOut, Authenticated, AnswerInv
<1>5. ASSUME NEW v, NEW ids, Reply(v, ids),
             \/ job.op \notin {"get_order_state", "get_my_orders"}
             \/ job.session \in DOMAIN sessions /\ v \notin States \cup {"order_list"}
      PROVE  AnswerInv'
  <2>1. PICK m : m = job
    OBVIOUS
  <2>2. pc' = "idle" /\ answer' = [call |-> m, val |-> v, ids |-> ids]
    BY <1>5, <2>1 DEF Reply, Back, Say
  <2> QED
    BY <1>5, <2>1, <2>2, AnswerOther
<1>6. CASE GetAllItems \/ AddNewItem
  BY <1>1, <1>5, <1>6 DEF GetAllItems, AddNewItem, Authenticated, Terminate
<1>7. CASE MakeOrder
  BY <1>1, <1>5, <1>7 DEF MakeOrder, Authenticated, Terminate
<1>8. CASE GetOrderState
  <2>1. pc = "auth" /\ job.session \in DOMAIN sessions
    BY <1>8 DEF GetOrderState, Authenticated, TypeOK, TypeHandler, SessionCalls
  <2>2. answer' = answer \/ answer' = NoAnswer \/ Reply("no_such_order", {})
    BY <1>8 DEF GetOrderState, Terminate
  <2>3. "no_such_order" \notin States \cup {"order_list"}
    BY DEF States
  <2> QED
    BY <1>1, <1>5, <2>1, <2>2, <2>3 DEF AnswerInv
<1>9. CASE LogOutOk
  BY <1>5, <1>9 DEF LogOutOk, TypeOK, TypeHandler
<1>10. CASE OrderStateChanged \/ ChangeTimesOut
  BY <1>1, <1>10 DEF OrderStateChanged, ChangeTimesOut, AnswerInv
<1>11. CASE CallTimesOut
  <2>1. job.session \in DOMAIN sessions
    BY <1>11 DEF CallTimesOut, TypeOK, TypeHandler, SessionCalls
  <2>2. PICK v \in {"no_such_session", "log_out_error", "error"} : Reply(v, {})
    BY <1>11 DEF CallTimesOut
  <2>3. v \notin States \cup {"order_list"}
    BY DEF States
  <2> QED
    BY <1>5, <2>1, <2>2, <2>3
<1> QED
  BY <1>2, <1>3, <1>4, <1>6, <1>7, <1>8, <1>9, <1>10, <1>11, AnswerFetched, AnswerListed
     DEF ServerStep

LEMMA AnswerNext ==
    ASSUME TypeOK, PromptInv, OrderBookCoherent, FetchInv, AnswerInv, [Next]_vars
    PROVE  AnswerInv'
<1>1. CASE ServerStep
  BY <1>1, AnswerServer
<1>2. CASE StartLink \/ (\E c \in Clients : CallAccount(c) \/ CallSession(c))
           \/ (\E i \in DOMAIN sessions : SessionReceive(i) \/ SessionExpire(i))
           \/ (\E t \in DOMAIN timers : TimerFire(t)) \/ UNCHANGED vars
  <2>1. answer' = answer /\ orders' = orders /\ keepers' = keepers /\ (pc' = pc \/ pc' = "idle")
    BY <1>2 DEF StartLink, CallAccount, CallSession, Call, SessionReceive, SessionExpire,
                TimerFire, vars, shop, server
  <2> QED
    BY <2>1, AnswerStays DEF AnswerInv
<1>3. ASSUME NEW k \in DOMAIN keepers, KeeperReceive(k)
      PROVE  AnswerInv'
  <2>1. keepers[k].mbox # << >> /\ answer' = answer
    BY <1>3 DEF KeeperReceive
  <2>2. pc # "idle"
    BY <2>1, CalmInBetween DEF Calm, NoQuestions
  <2>3. answer' = NoAnswer
    BY <2>1, <2>2 DEF AnswerInv
  <2>4. answer'.call.op = "none"
    BY <2>3 DEF NoAnswer, NoJob
  <2> QED
    BY <2>3, <2>4 DEF AnswerInv, AnswerIsCurrent, NoAnswer
<1> QED
  BY <1>1, <1>2, <1>3 DEF Next

(* While every process answers within TIME_UNIT, get_order_state tells the
   state that the order's keeper has, of an order of the session's owner, and
   get_my_orders the owner's orders and no others. *)
THEOREM AnswersTrue ==
    ASSUME MaxLate = 0
    PROVE  Spec => []AnswerIsCurrent
<1>1. Init => PromptInv /\ FetchInv /\ AnswerInv
  <2>1. Init => PromptInv
    BY PromptInit
  <2>2. Init => FetchInv /\ AnswerInv
    <3> SUFFICES ASSUME Init
                 PROVE  FetchInv /\ AnswerInv
      OBVIOUS
    <3>1. pc = "idle" /\ answer = NoAnswer
      BY DEF Init
    <3> QED
      BY <3>1, AnswerNone DEF FetchInv
  <2> QED
    BY <2>1, <2>2
<1>2. TypeOK /\ OrderBookCoherent /\ PromptInv /\ FetchInv /\ AnswerInv /\ [Next]_vars
        => (PromptInv /\ FetchInv /\ AnswerInv)'
  BY PromptNext, FetchNext, AnswerNext
<1>3. AnswerInv => AnswerIsCurrent
  BY DEF AnswerInv
<1> QED
  BY <1>1, <1>2, <1>3, TypeCorrect, BooksAgree, PTL DEF Spec

-----------------------------------------------------------------------------
(* What stops the server in its first life. *)

(* Sessions are of registered users, and timers and their casts are of orders
   that are in the list.  A second life starts with an empty list and the
   sessions and timers of the first. *)
LifeInv == (inc = 1 /\ pc # "down") =>
    /\ \A i \in DOMAIN sessions : sessions[i].owner \in DOMAIN users
    /\ \A t \in DOMAIN timers : timers[t].order <= order_count
    /\ \A i \in DOMAIN mbox : mbox[i].op = "change_order_state"
                                => mbox[i].order \in 1 .. order_count

(* A step within a life. *)
LEMMA LifeKept ==
    ASSUME TypeOK, LifeInv, inc = 1, pc # "down",
           DOMAIN users \subseteq DOMAIN users', order_count' = order_count,
           \A i \in DOMAIN sessions' :
                \/ i \in DOMAIN sessions /\ sessions'[i].owner = sessions[i].owner
                \/ sessions'[i].owner \in DOMAIN users,
           \A t \in DOMAIN timers' :
                t \in DOMAIN timers /\ timers'[t].order = timers[t].order,
           \A j \in DOMAIN mbox' : mbox'[j].op = "change_order_state" =>
                Listed(mbox'[j], mbox) \/ mbox'[j].order \in 1 .. order_count
    PROVE  LifeInv'
BY DEF LifeInv, Listed

LEMMA LifeServer ==
    ASSUME TypeOK, LifeInv, inc = 1, pc # "down", pc' # "down", ServerStep, [Next]_vars
    PROVE  LifeInv'
<1>1. \A j \in DOMAIN mbox' : Listed(mbox'[j], mbox)
  BY ServerStepMail
<1>2. ~Terminate
  BY DEF Terminate
<1>3. timers \in Seq(TimerActors) /\ sessions \in Seq(SessionActors) /\ order_count \in Nat
  BY DEF TypeOK, TypeActors, TypeShop
<1>4. CASE MakeOrder
  <2>1. /\ order_count' = order_count + 1 /\ DOMAIN users' = DOMAIN users
        /\ timers' = Append(timers, NewTimer(order_count + 1))
        /\ sessions' = sessions /\ UNCHANGED inc
    BY <1>2, <1>4 DEF MakeOrder
  <2> DEFINE e == NewTimer(order_count + 1)
  <2>2. e \in TimerActors /\ e.order = order_count + 1
    BY <1>3, RankProperties DEF NewTimer, TimerActors
  <2> HIDE DEF e
  <2>3. PICK tt : tt = timers' /\ tt = Append(timers, e)
    BY <2>1 DEF e
  <2>4. /\ Len(timers) \in Nat /\ DOMAIN timers = 1 .. Len(timers)
        /\ DOMAIN tt = 1 .. Len(timers) + 1
        /\ \A j \in DOMAIN timers : tt[j] = timers[j]
        /\ tt[Len(timers) + 1] = e
    BY <1>3, <2>2, <2>3, AppendAt
  <2>5. \A t \in DOMAIN timers' : t \in DOMAIN timers \/ t = Len(timers) + 1
    BY <2>3, <2>4
  <2>6. \A t \in DOMAIN timers : timers[t].order \in Nat
    <3>1. \A t \in DOMAIN timers : timers[t] \in TimerActors
      BY <1>3, ElementType
    <3> QED
      BY <3>1 DEF TimerActors
  <2>7. \A t \in DOMAIN timers' : timers'[t].order <= order_count'
    <3> TAKE t \in DOMAIN timers'
    <3>1. CASE t \in DOMAIN timers
      <4>1. timers'[t].order = timers[t].order /\ timers[t].order <= order_count
        BY <2>3, <2>4, <3>1 DEF LifeInv
      <4> QED
        BY <1>3, <2>1, <2>6, <3>1, <4>1
    <3>2. CASE t = Len(timers) + 1
      BY <1>3, <2>1, <2>2, <2>3, <2>4, <3>2
    <3> QED
      BY <2>5, <3>1, <3>2
  <2>8. \A j \in DOMAIN mbox' : mbox'[j].op = "change_order_state"
                                    => mbox'[j].order \in 1 .. order_count'
    BY <1>1, <1>3, <2>1 DEF Listed, LifeInv
  <2> QED
    BY <2>1, <2>7, <2>8 DEF LifeInv
<1>5. CASE ServerStep /\ ~MakeOrder
  <2>1. order_count' = order_count /\ timers' = timers
    BY <1>2, <1>5 DEF ServerStep, HandleRegister, HandleLogIn, CheckAuth, HandleCast,
                HandleInfo, LogOut, GetAllItems, AddNewItem, GetMyOrders, GetOrderState,
                LogOutOk, OrderStateFetched, OrderStateChanged, CallTimesOut,
                ChangeTimesOut, shop
  <2>2. DOMAIN users \subseteq DOMAIN users'
    <3>1. users' = users \/ HandleRegister
      BY <1>2, <1>5 DEF ServerStep, HandleLogIn, CheckAuth, HandleCast,
                HandleInfo, LogOut, GetAllItems, AddNewItem, GetMyOrders, GetOrderState,
                LogOutOk, OrderStateFetched, OrderStateChanged, CallTimesOut,
                ChangeTimesOut, shop
    <3>2. CASE HandleRegister
      BY <3>2 DEF HandleRegister, NewUser
    <3> QED
      BY <3>1, <3>2
  <2>3. ASSUME NEW i \in DOMAIN sessions'
        PROVE  \/ i \in DOMAIN sessions /\ sessions'[i].owner = sessions[i].owner
               \/ sessions'[i].owner \in DOMAIN users
    <3>1. SessionsGrow
      BY SessionsOnlyGrow
    <3>2. CASE i \in DOMAIN sessions
      BY <3>1, <3>2 DEF SessionsGrow
    <3>3. CASE HandleLogIn /\ i \notin DOMAIN sessions
      <4>1. PICK m \in AccountCalls : m.user \in DOMAIN users /\
              sessions' = Append(sessions,
                                 [owner |-> m.user, alive |-> TRUE, mbox |-> << >>])
        BY <3>3 DEF HandleLogIn
      <4> DEFINE e == [owner |-> m.user, alive |-> TRUE, mbox |-> << >>]
      <4>2. e \in SessionActors /\ e.owner = m.user
        BY EmptySeq DEF SessionActors, AccountCalls
      <4> HIDE DEF e
      <4>3. PICK ss : ss = sessions' /\ ss = Append(sessions, e)
        BY <4>1 DEF e
      <4>4. /\ Len(sessions) \in Nat /\ DOMAIN sessions = 1 .. Len(sessions)
            /\ DOMAIN ss = 1 .. Len(sessions) + 1 /\ ss[Len(sessions) + 1] = e
        BY <1>3, <4>2, <4>3, AppendAt
      <4>5. i = Len(sessions) + 1
        BY <3>3, <4>3, <4>4
      <4> QED
        BY <4>1, <4>2, <4>3, <4>4, <4>5
    <3>4. CASE ~HandleLogIn /\ i \notin DOMAIN sessions
      <4>1. DOMAIN sessions' = DOMAIN sessions
        <5>1. CASE CheckAuth
          BY <5>1 DEF CheckAuth, AskSession
        <5>2. CASE LogOut
          BY <5>2 DEF LogOut, AskSession
        <5>3. CASE ~CheckAuth /\ ~LogOut
          BY <1>2, <1>5, <3>4, <5>3 DEF ServerStep, HandleRegister, HandleCast,
                HandleInfo, GetAllItems, AddNewItem, GetMyOrders, GetOrderState,
                LogOutOk, OrderStateFetched, OrderStateChanged, CallTimesOut,
                ChangeTimesOut
        <5> QED
          BY <5>1, <5>2, <5>3
      <4> QED
        BY <3>4, <4>1
    <3> QED
      BY <3>2, <3>3, <3>4
  <2>4. \A t \in DOMAIN timers' : t \in DOMAIN timers /\ timers'[t].order = timers[t].order
    BY <2>1
  <2> QED
    BY <1>1, <2>1, <2>2, <2>3, <2>4, LifeKept
<1> QED
  BY <1>4, <1>5

(* What the clients, the sessions, the keepers and the timers do. *)
LEMMA LifeOthers ==
    ASSUME TypeOK, LifeInv, [Next]_vars, UNCHANGED <<pc, inc, users, order_count>>,
           DOMAIN sessions' = DOMAIN sessions,
           timers' = timers \/ \E t \in DOMAIN timers : timers' = [timers EXCEPT ![t].sent = @ + 1],
           mbox' = mbox \/ \E m \in Messages :
                /\ mbox' = Append(mbox, m)
                /\ m.op = "change_order_state" => \E t \in DOMAIN timers : m.order = timers[t].order
    PROVE  LifeInv'
<1> SUFFICES ASSUME inc = 1, pc # "down"
             PROVE  LifeInv'
  BY DEF LifeInv
<1>1. SessionsGrow /\ TimersKept
  BY SessionsOnlyGrow, TimersOnlyGrow
<1>2. DOMAIN timers' = DOMAIN timers
  OBVIOUS
<1>3. ASSUME NEW t \in DOMAIN timers
      PROVE  timers[t].order \in 1 .. order_count
  <2>1. timers[t] \in TimerActors /\ order_count \in Nat
    BY ElementType DEF TypeOK, TypeActors, TypeShop
  <2> QED
    BY <2>1 DEF LifeInv, TimerActors
<1>4. ASSUME NEW j \in DOMAIN mbox', mbox'[j].op = "change_order_state"
      PROVE  Listed(mbox'[j], mbox) \/ mbox'[j].order \in 1 .. order_count
  <2>1. CASE mbox' = mbox
    BY <2>1 DEF Listed
  <2>2. ASSUME NEW m \in Messages, mbox' = Append(mbox, m),
               m.op = "change_order_state" => \E t \in DOMAIN timers : m.order = timers[t].order
        PROVE  Listed(mbox'[j], mbox) \/ mbox'[j].order \in 1 .. order_count
    <3>1. mbox \in Seq(Messages)
      BY DEF TypeOK, TypeServer
    <3>2. mbox'[j] = m \/ Listed(mbox'[j], mbox)
      BY <2>2, <3>1, AppendListed
    <3> QED
      BY <1>3, <1>4, <2>2, <3>2
  <2> QED
    BY <2>1, <2>2
<1> QED
  BY <1>1, <1>2, <1>4, LifeKept DEF SessionsGrow, TimersKept

LEMMA LifeNext ==
    ASSUME TypeOK, LifeInv, [Next]_vars
    PROVE  LifeInv'
<1>0. inc \in Nat \ {0}
  BY DEF TypeOK, TypeServer
<1>1. CASE StartLink
  BY <1>0, <1>1 DEF StartLink, LifeInv
<1>2. CASE ServerStep
  <2>1. inc' = inc /\ pc # "down"
    BY <1>2 DEF ServerStep, HandleRegister, HandleLogIn, CheckAuth, HandleCast, HandleInfo,
                LogOut, GetAllItems, AddNewItem, MakeOrder, GetMyOrders, GetOrderState, LogOutOk,
                OrderStateFetched, OrderStateChanged, CallTimesOut, ChangeTimesOut, Handle,
                Authenticated
  <2>2. CASE inc = 1 /\ pc' # "down"
    BY <1>2, <2>1, <2>2, LifeServer
  <2> QED
    BY <2>1, <2>2 DEF LifeInv
<1>3. ASSUME NEW c \in Clients, CallAccount(c) \/ CallSession(c)
      PROVE  LifeInv'
  <2>1. UNCHANGED <<pc, inc, users, order_count, sessions, timers>>
    BY <1>3 DEF CallAccount, CallSession, Call, shop
  <2> QED
    BY <1>3, <2>1, CallMail, LifeOthers
<1>4. ASSUME NEW t \in DOMAIN timers, TimerFire(t)
      PROVE  LifeInv'
  <2>1. UNCHANGED <<pc, inc, users, order_count, sessions>>
        /\ timers' = [timers EXCEPT ![t].sent = @ + 1]
    BY <1>4 DEF TimerFire, shop
  <2> QED
    BY <1>4, <2>1, TimerMail, LifeOthers
<1>5. ASSUME NEW i \in DOMAIN sessions, SessionReceive(i) \/ SessionExpire(i)
      PROVE  LifeInv'
  <2>1. UNCHANGED <<pc, inc, users, order_count, timers>> /\ DOMAIN sessions' = DOMAIN sessions
    BY <1>5 DEF SessionReceive, SessionExpire, shop, server
  <2>2. mbox' = mbox \/ \E m \in Messages : m.op = "reply" /\ mbox' = Append(mbox, m)
    <3>1. CASE SessionExpire(i)
      BY <3>1 DEF SessionExpire, server
    <3>2. CASE SessionReceive(i)
      <4> DEFINE req == Head(sessions[i].mbox).req
                 m == [op |-> "reply", from |-> Session(i), val |-> SessionAnswer(i, req)]
      <4>1. sessions[i] \in SessionActors /\ i \in Nat
        BY ElementType, LenProperties DEF TypeOK, TypeActors
      <4>2. m \in Messages
        BY <4>1 DEF Messages, Replies, Session, Pids, SessionAnswer, SessionActors
      <4>3. mbox' = mbox \/ mbox' = Append(mbox, m)
        BY <3>2 DEF SessionReceive, ToServer, Deliver
      <4> QED
        BY <4>2, <4>3
    <3> QED
      BY <1>5, <3>1, <3>2
  <2> QED
    BY <2>1, <2>2, LifeOthers
<1>6. ASSUME NEW k \in DOMAIN keepers, KeeperReceive(k)
      PROVE  LifeInv'
  <2>1. UNCHANGED <<pc, inc, users, order_count, sessions, timers>>
    BY <1>6 DEF KeeperReceive, shop
  <2> QED
    BY <1>6, <2>1, KeeperReads, LifeOthers
<1>7. CASE UNCHANGED vars
  <2>1. UNCHANGED <<pc, inc, users, order_count, sessions, timers, mbox>>
    BY <1>7 DEF vars, shop, server
  <2> QED
    BY <2>1, LifeOthers
<1> QED
  BY <1>1, <1>2, <1>3, <1>4, <1>5, <1>6, <1>7 DEF Next

(* get_order_data finds the one order with an id that was given out. *)
LEMMA OneOrder ==
    ASSUME TypeOK, OrderBookCoherent, NEW id \in 1 .. order_count
    PROVE  Cardinality(OrdersWithId(id)) = 1
<1>1. DOMAIN orders = 1 .. order_count /\ order_count \in Nat
  BY LenProperties DEF TypeOK, TypeShop, OrderBookCoherent
<1> DEFINE n == order_count + 1 - id
<1>2. n \in DOMAIN orders /\ orders[n].id = id
  BY <1>1 DEF OrderBookCoherent
<1>3. ASSUME NEW x \in DOMAIN orders, orders[x].id = id
      PROVE  x = n
  BY <1>1, <1>3 DEF OrderBookCoherent
<1> HIDE DEF n
<1>4. OrdersWithId(id) = {n}
  BY <1>2, <1>3 DEF OrdersWithId
<1> QED
  BY <1>4, FS_Singleton

LEMMA StaysUpNext ==
    ASSUME TypeOK, PromptInv, LifeInv, OrderBookCoherent, [Next]_vars,
           pc # "down", pc' = "down", inc = 1
    PROVE  \E n \in DOMAIN items : items[n].price = "integer"
<1>1. ASSUME NEW i \in DOMAIN mbox, FirstMatch(i), pc = "auth"
      PROVE  mbox[i].val \in DOMAIN users
  <2>1. mbox[i].val = sessions[job.session].owner
    BY <1>1, TheAnswer DEF GoodAnswer
  <2>2. job.session \in DOMAIN sessions
    BY <1>1 DEF TypeOK, TypeHandler, SessionCalls
  <2> QED
    BY <2>1, <2>2 DEF LifeInv
<1>2. ~HandleCast
  <2> SUFFICES ASSUME HandleCast
               PROVE  FALSE
    OBVIOUS
  <2>1. mbox # << >> /\ Head(mbox).op = "change_order_state"
        /\ Cardinality(OrdersWithId(Head(mbox).order)) # 1
    BY DEF HandleCast
  <2>2. 1 \in DOMAIN mbox /\ mbox[1] = Head(mbox)
    BY <2>1, ThinsTail DEF TypeOK, TypeServer
  <2>3. Head(mbox).order \in 1 .. order_count
    BY <2>1, <2>2 DEF LifeInv
  <2> QED
    BY <2>1, <2>3, OneOrder
<1>3. ~HandleInfo
  <2> SUFFICES ASSUME HandleInfo
               PROVE  FALSE
    OBVIOUS
  <2>1. pc = "idle" /\ mbox # << >> /\ Head(mbox).op = "reply"
    BY DEF HandleInfo
  <2>2. 1 \in DOMAIN mbox /\ mbox[1] = Head(mbox)
    BY <2>1, ThinsTail DEF TypeOK, TypeServer
  <2> QED
    BY <2>1, <2>2, CalmInBetween DEF Calm, NoReplies
<1>4. ~MakeOrder /\ ~GetMyOrders
  BY <1>1 DEF MakeOrder, GetMyOrders, Authenticated, Reply, Back
<1>5. ~GetOrderState
  <2> SUFFICES ASSUME GetOrderState
               PROVE  FALSE
    OBVIOUS
  <2>1. PICK i \in DOMAIN mbox :
          /\ pc = "auth" /\ FirstMatch(i)
          /\ ~(/\ mbox[i].val \in DOMAIN users
               /\ job.order \in users[mbox[i].val].orders
                     => Cardinality(OrdersWithId(job.order)) = 1)
    BY DEF GetOrderState, Authenticated, Reply, Back
  <2>2. mbox[i].val \in DOMAIN users
    BY <1>1, <2>1
  <2>3. job.order \in 1 .. order_count
    BY <2>1, <2>2 DEF OrderBookCoherent
  <2> QED
    BY <2>1, <2>2, <2>3, OneOrder
<1>6. CASE GetAllItems
  <2>1. PICK n \in DOMAIN items : ~ItemFormats(n)
    BY <1>6 DEF GetAllItems, Reply, Back
  <2>2. items[n] \in Items
    BY ElementType DEF TypeOK, TypeShop
  <2> QED
    BY <2>1, <2>2, PricesAssumption DEF ItemFormats, Items
<1>7. CASE ServerStep /\ ~GetAllItems
  BY <1>2, <1>3, <1>4, <1>5, <1>7 DEF ServerStep, HandleRegister, HandleLogIn, CheckAuth,
     LogOut, AddNewItem, LogOutOk, OrderStateFetched, OrderStateChanged, CallTimesOut,
     ChangeTimesOut, Reply, Back
<1>8. CASE StartLink \/ (\E c \in Clients : CallAccount(c) \/ CallSession(c))
           \/ (\E i \in DOMAIN sessions : SessionReceive(i) \/ SessionExpire(i))
           \/ (\E k \in DOMAIN keepers : KeeperReceive(k))
           \/ (\E t \in DOMAIN timers : TimerFire(t)) \/ UNCHANGED vars
  BY <1>8 DEF StartLink, CallAccount, CallSession, Call, SessionReceive, SessionExpire,
              KeeperReceive, TimerFire, vars, server
<1> QED
  BY <1>6, <1>7, <1>8 DEF Next

(* While every process answers within TIME_UNIT, only the listing of an item
   with an integer price stops the server in its first life: get_order_data
   never fails, no dict:fetch or dict:update does, no message is stray. *)
THEOREM OnlyIntegersStop ==
    ASSUME MaxLate = 0
    PROVE  Spec => StaysUp
<1>1. Init => PromptInv /\ LifeInv
  <2>1. Init => PromptInv
    BY PromptInit
  <2>2. Init => LifeInv
    BY DEF Init, LifeInv
  <2> QED
    BY <2>1, <2>2
<1>2. TypeOK /\ PromptInv /\ LifeInv /\ [Next]_vars => (PromptInv /\ LifeInv)'
  BY PromptNext, LifeNext
<1>3. TypeOK /\ PromptInv /\ LifeInv /\ OrderBookCoherent /\ [Next]_vars
        => [(pc # "down" /\ pc' = "down" /\ inc = 1) =>
                \E n \in DOMAIN items : items[n].price = "integer"]_vars
  BY StaysUpNext
<1> QED
  BY <1>1, <1>2, <1>3, TypeCorrect, BooksAgree, PTL DEF Spec, StaysUp
=============================================================================
