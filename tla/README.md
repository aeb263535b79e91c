# Verification of zdrojaky

Four programs live in this repository and share nothing but it. This directory
holds TLA+ models of all four, the TLC runs that check the models, and proofs about
each of the four.

| program | language | what it is |
| --- | --- | --- |
| `src/erlang-eshop` | Erlang | an e-shop: a `gen_server`, a process per session, two per order |
| `src/sip-proxy` | C | a SIP registrar and proxy over MySQL |
| `src/ruby-router` | Ruby | a software router with its own routing protocol |
| `src/crypto-trading-bot` | Python | trading strategies, their simulation and a parameter search |

## 1. Inventory

### e-shop (`src/erlang-eshop/e_shop.erl`)

| component | state | operations | interacts by |
| --- | --- | --- | --- |
| server | `users` (dict with password and order ids), `items`, `orders`, two counters | nine calls, one cast, `handle_info`, `terminate` | its mailbox |
| session process | owner, its mailbox | answers `check_existence`, answers and obeys `destroy_session`, exits when idle too long | `{SessionId, Value}` to the server |
| order keeper | the order's state | `get_order_state`, `change_order_state` | `{Pid, Value}` to the server |
| order timer | how far it is | casts `packaged`, `shipped`, `delivered` to the name `e_shop` | cast |
| clients | what they wait for | `gen_server:call` | call and reply |

Hard: a handler waits inside the server for `{Pid, Answer}` and gives up after
`TIME_UNIT`; answers carry no reference to their question, so a late one is
read by the next handler that waits for the same process, or falls into
`handle_info`, whose return value stops the server. Sessions, keepers and timers
are not linked to the server and outlive it.

Correct when: a session that is gone authenticates nobody; a log-out that was
confirmed happened; the order list, the users' order ids, keepers and timers tell one
story; an order goes placed, packaged, shipped, delivered, skips nothing
and arrives; the server stays up while processes answer in time; calls return.

### SIP proxy (`src/sip-proxy/src`)

| component | state | operations |
| --- | --- | --- |
| registrar (`register.c`) | ring of `MAX_CHALLENGES` expected responses, index, the static HA1 buffer | challenge, accept, forbid, deregister |
| location table (`database.c`) | `registered_users`, outlives the process | insert or refresh, delete, find by extension or address |
| requests (`main.c`, `invite.c`) | `sip_calls`, `sip_transactions` | INVITE, ACK, BYE, CANCEL, OPTIONS |
| statuses (`main.c`) | `sip_calls` | 180, 200, 487, 603 change the state of the call |
| forwarding, archive | `sip_messages` | find the other side, send, file |
| main loop, networking | one receive buffer for all datagrams | start, receive, dispatch, clear, exit |
| configuration (`config-file.c`) | `field`, `value`, the `SERVER_CONFIG` they fill | read a line |
| text helpers (`misc.c`) | one static result buffer | extensions, CSeq, Via, nonces |
| digest (`md5.c`) | none | MD5 of a response |

One loop handles one datagram at a time. Hard: UDP loses, repeats and reorders;
the ring is overwritten while phones compute their answers; restart empties the
ring but not the table; `200 OK` is sent before the row is written; the digits of an
answer are compared as a string that nothing terminates; the
transaction of a response is looked up by a key that is not unique, and
a missing one ends the process; a phone de-registers or moves in the middle of a call; buffers
keep what earlier datagrams, headers and lines left in them.

Correct when: a challenge admits at most one registration and a fresh correct answer
is refused for nothing that phones, network or proxy did; who was told `200 OK` is in the table where it is; the record
of a call agrees with what the two phones know of it; datagrams reach whom they are for; a
message is handled and its headers are read as they were sent; settings take effect.

### Router (`src/ruby-router`)

| component | state | operations |
| --- | --- | --- |
| routing table | entries: network, gateway, type, valid time | learn, refresh, expire |
| routing protocol | `$last_update_sent` | broadcast every two seconds |
| packet queue, forwarding | captured frames, MAC table | next frame, learn the MAC, route |
| filters, statistics | list of rules, counters | match, count |
| loopback commands, menu | none of their own | edit the tables above |

Hard: the table a router announces is made of what its neighbours announced;
which announcement comes first, and which is lost, decides where packets go. Interfaces are
promiscuous and a frame's destination MAC is not looked at, so every router of a LAN forwards
what is sent there; the TTL is never decremented; MAC addresses are
learned from whatever passes. Rules and routes are deleted by their place in a list. Commands are not
checked, and what they raise ends the loop.

Correct when: following the gateways ends at a router that has the network,
entries do not time out without reason, every router learns every network, and
what is gone is forgotten; gateways that were learned can be reached; a packet that no rule
forbids arrives and one that a rule forbids does not; the administrator's commands have the effect he meant; the
program does not end.

### Trading bot (`src/crypto-trading-bot`)

| component | state | operations |
| --- | --- | --- |
| optimizer (`optimizer/`) | combinations to try, what was tried, the best so far | make combinations or a sample, value, keep the better |
| simulation (`strategy/abstract_strategy.py`) | row, prices, trade list, signal table | read a row, buy and sell, fill the signal row |
| strategies (`strategy/*.py`) | their parameters | conditions to buy and to sell |
| portfolio | cash, positions | not in the repository; used by the simulation |
| rounding (`calculations/rounding.py`) | none | round to an exchange's step |
| price downloads, databases, output | none | I/O |

It is sequential. Hard: the share of the cash for a coin changes with every purchase in a
row; a coin can be bought and sold in one row, and a row has one signal per coin; rounding goes by
the digits of a step, not by the step; a valuation can be NaN, which nothing is greater
than.

Correct when: a purchase is of a quantity that can be traded and leaves as much for
the other coins; positions and signal table tell one story; the best of the tried
parameters win.

The hazards of all of this, each with its line and the properties that watch it,
are in `PROJECT.json`.

## 2. Modules

| module | models | state of it |
| --- | --- | --- |
| `OrderTracking` | what the e-shop promises about orders (abstract) | done |
| `EShop` | `e_shop.erl` | done |
| `EShopProofs` | theorems about `EShop` | eight theorems |
| `SipRegistrar` | `register.c` and its part of `database.c` | done |
| `SipCalls` | `main.c`, `invite.c`, `forwarding.c`, `simple-responses.c` and their part of `database.c` | done |
| `SipCallsProofs` | theorems about `SipCalls` | five theorems |
| `SipProxy` | `SipRegistrar`, extended, and `SipCalls` over its location table | done |
| `SipProxyProofs` | theorems about `SipRegistrar` and `SipProxy` | eight theorems |
| `SipText` | extensions and CSeq in `misc.c` and which handler reads which | operators |
| `SipConfig` | `config-file.c` | done |
| `SipMain` | `main()` and its receive buffer, with `SipText` and `SipConfig` | done |
| `SipMainProofs` | theorems about `SipMain` | two theorems |
| `RoutingProtocol` | `routing_protocol.rb`, `routing_table.rb`, the loop of `router.rb` | done |
| `RoutingProofs` | theorems about `RoutingProtocol` | three theorems |
| `Router` | `router.rb`, `packet_queue.rb`, `mac_table.rb`, `filters.rb`, `packet_input.rb`, `loopback.rb`, `router_menu.rb` | done |
| `RouterProofs` | theorems about `Router` | seven theorems |
| `Rounding` | `rounding.py` | operators |
| `Trading` | `optimization_function.py`, `create_combinations.py`, `abstract_strategy.py`, the other strategies | done |
| `TradingProofs` | theorems about `Rounding` and `Trading` | four theorems |
| `CommonLemmas` | the smallest and the largest of a set of numbers, sequences that gain, lose or change an element | lemmas |
| `MC*` | model values and topologies | done |

### EShop

The server is `pc` (the `receive` it is in: the main loop, or one of the four inside
handlers), the message it handles (`job`), whom it waits for (`peer`) and its
mailbox. A handler that asks a session or a keeper is split where the code
waits, so that everything can happen in between: `CheckAuth` is
`check_auth_and_perform_action` up to its `receive`; `LogOut`, `GetAllItems`,
`AddNewItem`, `MakeOrder`, `GetMyOrders` and `GetOrderState` are the actions it
then performs; `LogOutOk` and `OrderStateFetched` are the second receives;
`HandleCast`, `OrderStateChanged` are `handle_cast`; `CallTimesOut` and
`ChangeTimesOut` the `after ?TIME_UNIT`. `Matches` is the pattern of each
receive and `FirstMatch` the selective receive. Whatever raises an exception in the
code (`badmatch` in `get_order_data`, `dict:fetch`, `dict:update`, `~.2f` on an
integer) is `Terminate`; `StartLink` starts the server again, with the old
sessions, keepers and timers still there. `SessionExpire` may happen whenever a
session has no mail: its time-out is far longer than everything else.

`MaxLate` is the number of answers that may be outstanding past `TIME_UNIT` at a
time. 0 means that processes answer in time (a handler then gives up only when
the process is gone), 1 that one may be late, by any amount.

`StartLink` gives the server a second life; `inc` counts them. `Tracked` is the refinement: the states of the keepers implement
`OrderTracking`, so no time-out, late answer or restart makes an order skip a stage
or go back. `TrackedFairly` adds fairness on both sides: every order is
delivered.

### SipRegistrar

One action per way `process_registration_request` can end (`deregister_client`,
`challenge_client`, `challenge_without_nonce`, `accept_client`, `forbid_client`),
each with everything the code does: reading HA1 into the static buffer (which
keeps the last user's when there is no such account), the ring, the table, the
answer. `Wiped` and `NextSlot` are the ring; `Inserted` is `insert ... on
duplicate key update`, which leaves the address of an existing row alone. An
`Expires` that is missing is an uninitialized variable in the code and either
value here. `challenge_response[33]` gets the 32 digits of an answer and no NUL behind them
(`register.c:22`), so what `strcmp` reads there is uninitialized as well: a right answer may match or, as
`HandleUnterminated`, be forbidden, which leaves its challenge open; a wrong one never matches. `MaxUnterminated` bounds how
often that happens. A phone asks, answers a challenge, renews, leaves, moves and
retransmits; the network loses and repeats. `Restart` empties the memory of the
proxy, `CrashBeforeWrite` happens between the `200 OK` and the row. A nonce is the number
of its challenge and a digest the record of what is hashed.

### SipCalls

`process_invitation_request`, `process_request` and `process_status` are the
handlers of `main.c` with all the database calls they make: the transaction made
or found (`CreatesTransaction`, `find_sip_transaction`), the call row
(`create_new_call`, `update_call_state`), the forwarding and the two rows of the
archive. `Exit` is `exit(1)` on an unknown sender or transaction. `is_message_a_status`
lists the statuses that are passed on; 100 Trying is one, no phone here sends it, and it would change
no state. `NewState`
looks for the method in the whole datagram, as `strstr` does. The phones
(`CallerTakes`, `CalleeTakes`) behave as RFC 3261 says. Each phone has a link to and from
the proxy; any datagram in it may be next, so reordering is free, and
`overtaken` notes that it happened.

### SipProxy

`SipProxy` extends `SipRegistrar`; `Talk` is an instance of `SipCalls` that takes its location table and the
place of each phone from there: what one half writes the other reads, a datagram at a time.
`ServeRegistration` and `ServeCall` are the process; `Registering`, `Leaving` and `Moving` what phones do about their
registration; `Dial` and `Converse` what they do in a call; `Restarting` follows an exit. A phone calls
when it believes that it is registered. Registrations of an earlier life of the
proxy are in the table from the start. Phones start at different places (`HomesAssumption`), and no
extension is `PS`, the archive's name for the proxy (`NamesAssumption`). `gone`, `former` and `reachable` are
history: who de-registered, who moved from where, and which calls were dialed to
a phone that has been registered since. Datagrams of a call keep their order
here; `SipCalls` reorders them. `AddressesOwn`, that nobody has been at an address another phone left, is the
condition of `ReachesWhomItIsFor`.

### SipMain, SipConfig, SipText

`SipMain` is the process: `load_server_config` line by line, `start_listening`,
`connect_to_database`, then `Skip`, `Handle` and `Exit`. What matters of the receive buffer
is which of its places hold nothing, part of this datagram or of an earlier one;
`Texts` is what C's string functions then take for the message, reading on beyond the
end when nothing terminates it. `Skip` leaves the buffer as it is, `Handle` clears it (`memset`).
`Received` fills it up to the length of the datagram. A datagram longer than the buffer is an error, as
Winsock has it, and fills the buffer all the same.

`SipText` is the one place where texts are sequences of characters: whether
`get_string_between_chars` terminates its static buffer depends on them.
`ReadAll` reads the headers of a message in the order its handler does; `process_status` reads those of
100, 180, 487 and 603 alike.

`SipConfig` keeps `field` and `value` from line to line, as `sscanf` does.

### RoutingProtocol

`Iterate` is one pass of the loop of `router.rb`: `send_updates`, then
`check_routing_table`, then at most one frame and `update_routing_table`. `Tick` is a
second; it passes when every running router has done what is due, since the loop is busy
and a pass is short. `Start` copies the interfaces into the table, `Lose` and
`Die` are faults, at most `MaxFaults` together. A packet for a network follows `NextHop`;
that it goes round is said without following it: there is a set of routers each of which passes
it to another of the set, and `LoopFree` says that every set has a router that does not.

### Router

Routers on shared LANs, with hosts that send each packet once and an administrator who gives each
command once. The loop's three steps (`check_for_message`, `send_updates`, a frame) are
actions of their own, since frames and commands may arrive between any two of them.
`Ignore` (a protocol that is not TCP, UDP or ICMP: nothing is learned, counted or passed on), `LearnFromLAN`, `Drop`, `Forward` and
`NoMethodError` are the ways `route_packet` can end; a command is carried out, or it is `InvalidAddressError`: a route
whose network or next hop is `Mistyped` raises what nothing rescues, and the loop ends. Updates are sent (`send_updates`) while a
neighbor lacks a network or the MAC address they come from (`News`); others would change nothing, so that leaving
them out leaves no state out. A captured frame may wait as long as it likes.
`next_frame` takes the first interface that has a frame. An interface or host stands
for its own IP and MAC address, so a MAC table maps owners to owners and a right
entry maps an owner to itself. `Captured` is libpcap: every running router of the LAN gets
the frame, except the one that sent it. `delete_static_route` may hit any
entry, because the place it names was read off a table that has changed; `delete_rule`
gets the place of the rule in the list as the administrator knows it
(`meant`). `passable` remembers which packets a router next to the sender would have let
pass at some time. Protocols share one counter per direction and interface. Time-outs of
entries are in `RoutingProtocol` only.

Two properties speak of networks without a second way between LANs. `OneWay` says so of the constants:
a LAN has at most two routers (`InPairs`), and each interface has a side, all that is behind the LAN it is on, such
that the sides of a router's interfaces do not meet (`Apart`): whatever is behind a router on that LAN, or behind
any other router on the side, belongs to it.

### Rounding, Trading

`Trading` runs the optimizer: for each combination `load_data`, then for each row of
the price table `ReadRow`, `row_processing_step` coin by coin and
`fill_signal_row`, then `Valued`. The table is any table of `Rows` rows. `step_dict` holds the
coins of a row that are still to be looked at, as places in the list of coins; the first is next. What the
portfolio does (`calc_cash_for_trade` divides the cash, `enter_position` spends at most that on what
`round_down` leaves, `exit_position` sells all) is taken from how
`abstract_strategy.py` and the strategies call it, and a valuation is any number or none. Amounts
are in tenths; the steps of the run are 1.0 and 0.5. `round_qty_down` asserts that its quantity is not
zero, and nothing catches that: a coin to buy without cash (`BuysNothing`) ends the search (`AssertionError`).
A purchase of some cash whose quantity is rounded down to nothing passes the assertion, which is made before rounding.
A signal table can be replayed (`SignalsReplay`) if the last signal for a coin says whether it is
held, and if each signal that is no repetition, a first one or one after a sale, is to buy and the others are to sell.

## 3. Runs

| run | asks |
| --- | --- |
| `eshop_prompt` | With processes that answer in time and a second life of the server: is there ever a stray answer (`NoStrayReply`), does the server stay up (`StaysUp`), do the order book (`OrderBookCoherent`) and the answers (`AnswerIsCurrent`) agree, are all variables well typed (`TypeOK`)? |
| `eshop_late` | With one late answer at a time: is a confirmed log-out final (`LogOutIsFinal`), is a dead session refused (`DeadSessionRefused`), do orders still keep their order (`Tracked`)? |
| `eshop_orders` | With a fair scheduler: do all calls return (`CallsAnswered`), are all orders delivered (`TrackedFairly`)? |
| `registrar_faults` | With duplicates, a move, a restart, a crash, an answer without its NUL: is each challenge used once (`AcceptedOnce`), is a fresh answer forbidden only for what lies behind it, and does its challenge then stay open (`FreshAnswerAccepted`), is everything well typed (`TypeOK`)? |
| `registrar_live` | With two of a loss, a restart and an answer without its NUL: is who was told so in the table (`RegisteredWhereSaid`), does everyone get in (`EventuallyRegistered`)? |
| `registrar_moved` | Is who was told so in the table after a move? Violated. |
| `calls` | With reordering, a repeated datagram and a callee that lists its methods: do `sip_calls`, the archive and the phones agree (`AnsweredMeansAnswered`, `FiledTogether`, `RecordMatchesOutcome`), does the proxy stop only for an unknown phone (`ExitsOnlyForUnlocated`), does the caller hear (`CallerHears`)? |
| `sip_proxy` | While phones register, leave and move during a call: is a registered callee found (`FoundIfRegistered`), do datagrams reach whom they are for (`ReachesWhomItIsFor`), does the proxy stop only for a phone that left or moved (`StopsOnlyForUnsettled`)? |
| `sip_main` | With any short file and datagrams of any kind and length: do settings take effect (`SettingsTakeEffect`), are messages handled as sent (`HandledAsSent`) and headers read as written (`ReadAsWritten`)? |
| `routing` | In a ring, any start order and phase, two faults: no loops (`LoopFree`) and no time-outs (`NeverForgets`) without a fault, everything is learnt (`Converges`), and what is dead lasts only between two that tell each other of it (`ForgetsDead`). |
| `router` | While networks are learned and two commands are given: can gateways be reached (`GatewaysKnown`), are configured entries left alone (`KeepsConfigured`), are the rules those meant (`RulesAsMeant`) and obeyed (`LetThrough`), does nothing go round (`NoRounds`), do packets of the known protocols arrive (`Arrives`), does the loop end only for a route that is mistyped or leads nowhere (`StopsOnlyForBadRoute`)? |
| `trading` | For any table of three rows, all or a sample of the parameters: are purchases sound (`PurchasesSound`), can the signal table be replayed (`SignalsReplay`), do the best parameters win (`WinnerIsBest`)? |

Where the environment is bounded (phones stop asking, calls and requests run out, the
optimizer ends) the system may stop and the deadlock check is off. It is on in `eshop_orders` and `routing`.

### Bounds

- e-shop: two users, two passwords and two sessions let one user's session meet another's orders
  and both of a pair of wrong passwords occur; a single client is enough for
  interleavings with sessions, keepers and timers, since the server takes
  one call at a time. Three casts per order overlap with every call.
  `eshop_late` needs two sessions (an old one and a new one) and one order.
  `eshop_prompt` has two lives of the server but one order: a timer of the first life meets a book
  that is empty, not one with a new order of the same id.
- registrar: two challenges in the ring and three phones, so that the third overwrites the
  first. `MaxRequests` is 2 where one round of ask and answer is the subject
  and 8 where a restart, a loss, a refused answer and a renewal cost extra rounds: enough for a phone never to run out.
  One answer may lack its NUL; that every answer does cannot be excluded by the code, and then nobody gets in.
  Any two of a loss, a restart and a refused answer may happen in a behaviour (`MaxFaults`). `registrar_live` starts with
  phones at given places (`LiveInit`): which is where does not matter.
- calls: one call, since calls meet only in the keys of the tables, which contain the
  Call-ID; three phones so that caller, callee and a stranger can each
  be the one that is not registered; one repeated datagram. The callee is the one with the `Allow`
  header.
- proxy as a whole: two phones, one call and at most one of each: registration,
  change of mind, move, restart. That is a phone that leaves or moves at any point of a call. With one move
  nobody is at an address that another phone left, unless it comes to the other's former one; what
  a second move adds is that `AddressesOwn` fails.
- main: a buffer of 6 with `Short` 3 gives a keep-alive, a message, one that fills the buffer
  and one that does not fit; messages have extensions and CSeq numbers of
  different lengths, so that each can leave something behind the next. Three lines are a
  setting, a comment and a setting that lacks something, in any order.
- routing: a ring of three is the smallest network with two ways, a row of
  three the smallest with a router in between. Ages stop at `ValidTime + 1`, when
  the entry goes.
- router: a row of two routers is the smallest network with a learned route, and its middle LAN has two
  routers and a host, so both forward and copies occur. One packet each way, so that
  a MAC address learned from one is used for the other, and one of an unknown protocol; at most two of
  them (`MaxPackets`) in a behaviour. Two commands: two rules, a rule and
  its deletion, a route (good, to a gateway on no interface, with a mistyped network or next hop) and its deletion, and one of each. Counters stop at 5, above the four frames
  `NoRounds` allows an interface.
- trading: two coins whose purchases share the cash, one with a step that is a power of ten
  and one without; three rows to buy, sell and buy again; 2 x 2 parameters, with `high`
  below, at and above `low`; a sample of one. The capital of 20 can be used up to the last unit by a
  purchase, after which the next is one of nothing.

### Fairness

- e-shop: weak fairness of the server, each session, keeper and timer. The Erlang
  scheduler is preemptive and timers of the runtime go off. Clients, session
  time-outs and restarts are not forced.
- registrar and calls: the proxy's loop and the phones take what has arrived; phones
  retransmit (RFC 3261 timers), and whoever wants to be registered goes on asking
  while its bound allows. Losses, moves and crashes are not forced. In `SipCalls` a phone that rings is
  answered or refused at some time.
- router: none; `Arrives` says what holds when nothing is under way any more.
- proxy as a whole, main, trading: none; their properties are about safety.
- routing: the loop is `while true`, time passes, and a router that is off is switched on.

## 4. Proofs

37 theorems, proved by TLAPS for all values of the constants that satisfy the named assumptions of
the modules. A few conditions appear as hypotheses of single theorems: `MaxStarts = 1`, `MaxLate = 0`,
`MaxMoves = MaxDups = MaxCrashes = 0`, and `MaxDups = 0` with `NoExpires = {}` (no duplicate of a
registration, and every one says for how long). They are those of the run that checks the property, each is
needed, and everything else (users, sessions, orders, losses, restarts) is unbounded there too.
That there is a router (`Routers # {}`) is the only other one.

`EShopProofs` proves, for all users, passwords, clients, prices and bounds:

- `TypeCorrect`: `Spec => []TypeOK`. `TypeOK` is inductive as it stands since it
  says more than types: which message and which process belong to each receive
  (`TypeHandler`) and that every order names a keeper that exists. Without that, the
  step that asks an order's keeper could not be shown to ask one. The lemmas before
  it say what a selective receive leaves in the mailbox (`RemoveAtProperties`), and that
  messages that name a session stay well formed as sessions are added
  (`MessagesGrow`).
- `LogOutFinal`: `Spec => []LogOutIsFinal`. A session's answers reach the server in the order it
  gave them and `ok` is the last one. `OkIsLast` is that invariant: an `ok` of a session
  in the server's mailbox means that the session is gone. It needs no
  assumption on `MaxLate` or `MaxStarts`: it does not matter how late answers are.
  `FinalInv` adds what was already told to a client (`LogOutAnswered`), and uses
  that an exited session never comes back.
- `DeadRefused`: `Spec => DeadSessionRefused`, for any number of late answers and restarts. When a call
  with an exited session is made, that session's last answer is already in the mailbox,
  in front of the call; a late answer can be found behind it only if the session was alive.
  `DeadInv` says so for calls in the mailbox (`CallsWait`) and for the one
  a handler has taken out (`JobWaits`), which therefore waits in vain.
- `BooksAgree`: `Spec => []OrderBookCoherent`, which is inductive given `TypeOK`.
- `OrdersTracked`: `Spec => Tracked`, the refinement of `OrderTracking`, for one start. A keeper takes what it
  is told, so that no stage is skipped depends on what is on its way: `TrackInv` says
  that what the keeper has still to read takes it one stage at a time (`InLine`), and that what the
  server has still to pass on follows, without a gap, up to where the timer is (`OnTheWay`).
  With a second start it is false: the new book gives out old ids, and a timer of the first life moves
  an order of the second.
- `NoneStray`, `AnswersTrue`, `OnlyIntegersStop`: `NoStrayReply`, `AnswerIsCurrent` and `StaysUp`, if processes answer
  within `TIME_UNIT` (`MaxLate = 0`). `PromptInv` is the shape of that: nothing is asked and nothing answered, or
  one session is asked, or one keeper is, or there is the one answer that the handler waits for,
  and it is true (`OneAnswer`). `FetchInv` adds that the keeper asked is that of the caller's order, `LifeInv` that
  sessions, timers and casts of the first life name users and orders that exist, so that no
  `dict:fetch` or `dict:update` fails. With one late answer all three are false.

`SipProxyProofs` proves of `SipRegistrar`, for all phones, accounts, addresses, ring sizes and bounds:

- `RegistrarTypes`: `Spec => []TypeOK`, inductive as it stands. One lemma per group of actions;
  `MinIsLeast` says that the smallest slot `process_registration_request` matches is one it
  matches.
- `OnceEach`: `Spec => []AcceptedOnce`. That no challenge was accepted twice says nothing of the next
  acceptance, so the invariant `OnceInv` adds where open challenges are: a challenge in
  the ring was not accepted yet (`RingFresh`), no two slots hold the same one
  (`SlotsDiffer`), and a blank slot matches no answer (`AuthNotBlank`). Wiping the
  slot on acceptance needs all three; issuing needs that challenge numbers only grow;
  duplicates and restarts then cost nothing.
- `FreshNotForbidden`: `Spec => FreshAnswerAccepted`, an action property: the byte behind a right answer is the only
  reason to forbid it, however often that happens, and costs it nothing but another try. The ring holds the youngest challenges in
  order, whatever was wiped in between: the age of a slot tells its number (`RingInOrder`), so
  the next one overwrites nothing fresher than `MAX_CHALLENGES` ago. Phones present what they were given,
  and what they were given is expected in the ring while it is unspent (`AnswersExpected`).
  `SameRequest` is there because a `403` is known by its CSeq: without it one
  to another request could be mistaken for one to this.
- `SaidIsWritten`: `Spec => []RegisteredWhereSaid`, without moves, duplicates and crashes between answer and write,
  whatever is lost and however often the proxy restarts. `RowInv` says that a phone has one datagram
  on its way (`OneOnItsWay`) and what its row is while it is being answered (`RowRight`).
  Dropping any of the three conditions makes it false; `registrar_moved` shows the first.

and of `SipProxy`, the same and for all calls, repeated datagrams and first places of the phones:

- `RegistrarUnimpaired`: `ProxySpec => []AcceptedOnce /\ FreshAnswerAccepted`. Each step of the whole is one of the
  registrar or leaves it alone (`RegistrarStep`), so its invariants carry over; only the rows an earlier life of the proxy
  left make the start different.
- `OnlyUnsettledStop`, `RegisteredIsFound` and `ReachesItsPhone`: `StopsOnlyForUnsettled`, `FoundIfRegistered` and
  `ReachesWhomItIsFor`, when registrations are not duplicated and none lacks its `Expires`. A delayed
  duplicate of a de-registration deletes the row of a phone that came back, and a request without `Expires` may be taken for
  one: both are listed hazards, and break all three. `WholeInv` has five parts. `RegistrationInv`: a phone has one
  datagram of its registration on its way, and what its row is meanwhile. `TalkInv`: the transaction of each datagram of a
  call exists, however the rows change. `ReachInv`: who was registered all the time since it was dialed has a row, and no
  404 about it is under way. `InvolvedInv`: a phone that takes part in a call and neither left nor
  moved has a row; this is where the halves meet, for a phone takes part by a datagram that found its row.
  `OwnInv`: while no address has two owners, datagrams are with the phone that sends or gets them.
  TLC found `WholeInv` to hold on the instance of `sip_proxy`, all 1,292,113 states.

`SipCallsProofs` proves, for all phones, registered or not, calls and repetitions, with any reordering:

- `CallsTypeCorrect`, and `FindsTransactions` (`ExitsOnlyForUnlocated`), `OnlyAnswersCount` (`AnsweredMeansAnswered`) and
  `ResponsesFiledTogether` (`FiledTogether`), all from one invariant, `IInv`. Its core is `Means`: what may be read off a datagram about
  its call, whoever has it and however old it is, is still true. What is true of a call stays so (`Follows`),
  rows keep their place and archive entries are never removed (`Grows`), so a datagram may arrive at any time;
  the lemma per handler then only has to say what it adds. `WayInv` says that the transaction of each datagram under way exists, `TablesInv`
  that the first row with a key is the one its request was filed under, which is what the
  query finds for every response.
- `RecordsTellOutcome`: `Spec => []RecordMatchesOutcome`. It holds only while datagrams keep their order, so its invariant says
  for each call what its four links still hold. `TalkInv` is what the phones have said and heard, in any order. `OrderInv`
  adds the order: no INVITE or CANCEL comes after an ACK or BYE (`RequestsInOrder`), no ringing after a final response
  (`ResponsesInOrder`), and what a phone knows is on record or will be by what is still on its way (`Recorded`). A method listed in an
  `Allow` header may have turned the record to answered, which `Recorded` has to allow for as the property does. Links are
  described by what they hold (`Has`), what does not come after what (`NoneAfter`) and what comes first (`Led`), so that a step is
  a link that gained a datagram at its end, lost its first, or neither; one lemma each says what these do to the
  three. TLC checked `OrderInv` on instances with phones that list their methods and phones that do not, up to three repeats, and two
  calls (the largest has 918,773 states).

`RoutingProofs` proves, for any routers and networks, however connected, started in any order and phase:

- `TypeCorrect`: tables and updates are well typed, and no running router is late with its update.
- `NothingForgotten` (`NeverForgets`) and `NeverCircles` (`LoopFree`), while nothing is lost and no router dies. Neither is inductive.
  `QuietInv` adds, for such behaviours, that an update is read in the second it was sent and its sender still has
  what it told (`NewsFresh`); that an entry is no older than its gateway's last update,
  or the next one is already there (`EntriesFresh`), which is why three seconds outlast two; and that
  along the gateways for each network the routers can be numbered downwards (`Ranked`): a new
  entry gets the number after its gateway's, moving everyone above it out of the way,
  and entries are never redirected. A set of routers that pass a packet to each other would have no smallest number.

`RouterProofs` proves, for any routers, LANs, hosts, packets and commands, and all but the last two with any
number of routers on a LAN and of ways between LANs:

- `RulesKeepOut`: `Spec => []LetThrough`. That nothing has crossed yet which no router let through
  says nothing of frames that are still captured. `LetInv` adds them: a frame captured from a LAN
  is an update of a router of this LAN, or a packet that is in its sender's LAN or was let
  through (`FramesGood`), and what a router next to the sender lets pass now is on the list (`Noted`).
  Forwarding out of the sender's LAN then goes through a router's rules, and
  forwarding from elsewhere adds nothing new.
- `GatewaysStayKnown`: `Spec => []GatewaysKnown`. An entry that is learned names the sender of an
  update as gateway; by `FramesGood` that is an interface of a router on the LAN the frame came from, and
  the frame has its own MAC address. `GatewayInv` adds that no interface is ever known by another MAC address
  (`MacsOwn`), whatever order frames and commands come in: packets that were forwarded have
  a host as sender, never an interface.
- `ConfiguredStays`: `Spec => KeepsConfigured`, an action property, from the same invariant.
- `DeletesTheRuleMeant`: `Spec => []RulesAsMeant`. The property speaks of routers that have read all commands; `RulesInv` says of all
  others that there is a history of the rules (`Leads`) that begins with what the router has, applies one waiting command
  after the other, and ends with what the administrator thinks it has.
- `OnlyBadRoutesStop`: `Spec => []StopsOnlyForBadRoute`. A mistyped route ends the loop at once. `FarInv` follows a gateway on no interface from the command to the
  table; otherwise every entry names a LAN, and `GatewayInv` keeps the rest of the loop from failing.
- `NothingGetsLost`: `Spec => []Arrives`, for packets of the protocols the routers know and any row, star or tree of LANs. `WayInv` says, of the sides that `OneWay` has, that a
  table entry leads to the side its network is on, that a frame comes from its sender's side and has a router ahead that
  knows how to go on, and that the MAC addresses of hosts are right: what misleads a router, frames from the wrong side, cannot be there.
  `LossInv` is then that what was sent in a known protocol when all networks were known has arrived or is captured somewhere outside of its
  receiver's LAN; each of its copies is forwarded nearer to it. `CommandInv` links the
  rules there are to the commands that were given.
- `NothingGoesRound`: `Spec => []NoRounds`, on the same networks. The counters say what an interface has read of the
  protocols that are counted;
  `RoundsInv` adds what it will read, the places of captured frames that head for it (`Coming`), and bounds both
  together (`Within`): reading turns a coming frame into a read one, and forwarding must not make a second. A copy
  goes only where the frame was going and never back over the interface it was read from
  (`GoesOn`), because entries lead to the side the network is on (`AimsAhead`). Sets of places are compared by
  injections (`Fewer`), so nothing has to be summed over packets or links. TLC checked `RoundsInv` on the
  instance of the run and on a row of three routers.

`SipMainProofs` proves, for a buffer of any size and datagrams of any lengths, files of any number of lines:

- `MessagesAsSent`: `Spec => []HandledAsSent`. The invariant `BufferInv` says how much of
  the buffer earlier datagrams can have left: no more than `Short` characters before its first NUL,
  unless a datagram has filled it; a message is longer than that, so it covers them.
- `ConfigAsWritten`: `Spec => SettingsTakeEffect`, an action property. `ReadSoFar` is what the fields are after
  the lines read so far; `MaxIsGreatest` of `CommonLemmas` says which line was the last for a field.

`TradingProofs` proves, for any coins, steps, tables, parameters, capital and valuations:

- `FirstBestWins`: `Spec => []WinnerIsBest`. `WinnerSoFar` says of every prefix of the attempts what the
  property says of all of them, with the index of the winner as its witness.
- `TypeCorrect`: `Spec => []TypeOK`, which includes that cash and holdings are never negative.
- `PurchasesFit`: `Spec => []PurchasesSound`. The lemmas are arithmetic: `RoundedDown` (what `round_down` leaves is no more than there
  was, and a multiple of a step that is a power of ten), `ShareOfCash` (as many shares as there are coins without a position fit
  the cash), `CoinsLeft` (a purchase makes them one fewer).
- `TableReplays`: `Spec => []SignalsReplay`. In the middle of a row positions and table disagree; `ReplayInv` says how: a coin with no trade in
  this row is held if its last signal says so, one with a trade has one only (`TradesOnce`), and the trade says what changed (`TradeTold`).
  `LastSignal` turns "the last signal", which the property names with a maximum, into the form that
  appending a row preserves (`Bought`).

Assumed of the constants: `ok` and `nobody` are no user names, bounds are
natural numbers, prices are among the two kinds; the ring of the registrar has at least one slot; hosts,
interfaces and broadcast addresses differ and packets are between hosts; no router is called `self`, the gateway of the entries of
its own interfaces; a message is longer than a keep-alive and shorter than the buffer; the list of coins has no coin twice;
steps are multiples of a tenth; prices are positive; valuations and NaN are coded as integers.

Where TLC can evaluate an inductive invariant, it was first checked on the instance of its run.

Only model-checked, and why:

- liveness under fairness (`TrackedFairly`, `CallsAnswered`, `EventuallyRegistered`, `CallerHears`,
  `Converges`, `ForgetsDead`): beyond the prover.
- `ReadAsWritten`: texts are read with folds, which are recursive definitions; what they compute for all texts is an induction
  over data. It is the only invariant that no theorem states.

## 5. Where code and its own words disagree

- `registrar_moved`: `register_user_on_server` updates only the two timestamps of an existing row. A
  phone that registers from a new address is told `200 OK` and the log prints "registered
  extension ... at" the new address, but calls go to the old one.

Met while stating properties, and visible in their wording: `register.c:22` copies the 32 digits of a response into
`challenge_response[33]` and writes no NUL behind them, so that a right response is told
`403 Forbidden (Bad auth)` if the byte there is not NUL by chance (`FreshAnswerAccepted`); one lost update can make a
routing loop that stays (`LoopFree` is stated for runs without a fault); a 486 is dropped by the
proxy (`CallerHears`); a phone without a row in the location table stops the proxy by
calling (`ExitsOnlyForUnlocated`); a static route with a gateway on no interface can end the router, and one
with a mistyped address ends it at once, since the menu passes on what was typed and `check_for_message` rescues only
`EWOULDBLOCK` (`StopsOnlyForBadRoute`); packets that are not TCP, UDP or ICMP are dropped before anything is learned or counted
(`Arrives`); `router.rb:38` says "build MAC table only from local network", but any frame *to*
the LAN is learned from, so with two routers on the same two LANs each takes the other for
the host, keeps that for ever, and `Arrives` fails (it is stated for networks without a second way); with three routers on a LAN a packet goes round between
those that are not its gateway (`NoRounds` is stated for two); "Output" of an interface counts what
came in there and was handed on, also when `send_remote` dropped it; one item with an integer price stops the
e-shop when items are listed (`StaysUp` allows for it); the method of a `200 OK` is searched in the whole
datagram, although the CSeq was copied before, so an OK to a CANCEL whose `Allow` header lists INVITE sets
`answered_ts` of a call that nobody answered (`AnsweredMeansAnswered`); an entry is refreshed by whoever announces
the network, so two routers that outlive the one that had it keep announcing it to each other
(`ForgetsDead`); a datagram that does not fit the buffer leaves its rest to the next one
(`HandledAsSent`); a display name with an s and a colon is read as an extension, and a URI
without user part gets the host (`ReadAsWritten`); the last line of a configuration file is
ignored unless it ends with a newline, and a setting without a value gets the one of the line before
(`SettingsTakeEffect`); a step of 0.5 is taken for one of 0.1 (`PurchasesSound`); a coin bought and sold
in one row is listed as sold only (`SignalsReplay`); a first valuation that is NaN wins (`WinnerIsBest`).

## 6. Not modelled

- SIP: `Via` headers, Call-IDs and the copies `strtok` works on; MD5 (third-party) and the random
  source; OPTIONS (answered 501 without a state change); failing SQL other than the duplicate
  call id; `delete_old_registrations`, which nothing calls.
- e-shop: formatting of item lists and totals; the 5 s time-out of `gen_server:call`. The tests
  (`test1` to `test3`) are particular sequences of calls that the clients of `EShop` can make.
- router: byte formats, libpcap and what is only displayed.
- trading bot: price downloads, database reads, charts and result tables; the output table of the
  simulation; `round_price_down` and `round_price_up`, which only differ in the direction; `optimize_all`,
  which needs modules that are not in the repository.

## 7. Plan

1. `Router` with more ways: two routers on two LANs and three on one, with what still holds there
   beyond the first five theorems (nothing is forwarded after its last copy has been read), and the
   joint time-out of entries with `RoutingProtocol`.
2. `EShop` with orders in both lives of the server, and what is then left of `Tracked`.
3. `SipProxy` with losses and two moves: which calls reach a stranger, and for how long.
