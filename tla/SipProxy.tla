------------------------------- MODULE SipProxy -------------------------------
(***************************************************************************)
(* The SIP proxy with its two halves together: SipRegistrar, extended      *)
(* here, writes the location table while SipCalls looks phones up in it,   *)
(* one datagram at a time from either.  Phones call once they were told    *)
(* that they are registered, and may move or de-register during a call.    *)
(***************************************************************************)
EXTENDS SipRegistrar

CONSTANTS
    Calls, Listing, Refusals,   \* as in SipCalls
    MaxRepeats,     \* bound on duplicates and retransmissions of a call's datagrams
    HomeOf          \* where the phones are at first

ASSUME CallsAssumption == Listing \subseteq Phones /\ Refusals \subseteq {"603", "486"}
(* The archive's name for the proxy is nobody's extension. *)
ASSUME NamesAssumption == "PS" \notin Phones
ASSUME RepeatsAssumption == MaxRepeats \in Nat
ASSUME HomesAssumption == /\ HomeOf \in [Phones -> Addresses]
                          /\ \A p, q \in Phones : HomeOf[p] = HomeOf[q] => p = q

VARIABLES
    sip_calls, sip_transactions, sip_messages, exited, up, down, call, dups,
    overtaken,                                          \* as in SipCalls
    gone,           \* phones that de-registered and have not registered again
    former,         \* [Phones -> the addresses each moved away from]
    reachable       \* calls whose callee has been registered since they were dialed

Talk == INSTANCE SipCalls WITH at <- [p \in Phones |-> phone[p].at], Located <- {},
                               MaxDups <- MaxRepeats

talk == <<sip_calls, sip_transactions, sip_messages, exited, up, down, call, dups, overtaken>>
history == <<gone, former, reachable>>
registration == vars
allVars == <<registration, talk, history>>

(* As after a restart: some phones have a row of an earlier life of the proxy. *)
ProxyInit ==
    /\ phone \in [Phones -> [at : Addresses, state : {"rest"}, reg : BOOLEAN, cseq : {0},
                             auth : {NoAuth}]]
    /\ \A p \in Phones : phone[p].at = HomeOf[p]
    /\ \A p \in Strangers : ~phone[p].reg
    /\ registered_users = [p \in Phones |-> IF phone[p].reg THEN phone[p].at ELSE None]
    /\ open_challenges = [i \in Slots |-> Blank]
    /\ cur_challenge_index = 0 /\ HA1 = None
    /\ net = {} /\ granted = << >> /\ born = 0
    /\ count = [what \in Bounded |-> 0]
    /\ Talk!TalkInit
    /\ gone = {} /\ reachable = {}
    /\ former = [p \in Phones |-> {}]

-----------------------------------------------------------------------------
ServeRegistration ==
    /\ ~exited
    /\ \E p \in Phones : Serve(p)
    /\ UNCHANGED <<talk, history>>

Registered(p) == phone[p].state = "answering" /\ phone'[p].state = "rest" /\ phone'[p].reg
Registering ==
    /\ \E p \in Phones : Receive(p) \/ Ask(p) \/ Renew(p) \/ Retransmit(p)
    /\ gone' = {p \in gone : ~Registered(p)}
    /\ UNCHANGED <<talk, former, reachable>>

(* p, if registered, has a row with its address. *)
Settled(p) == p \notin gone /\ former[p] = {}
NotTo(p) == {c \in reachable : call[c].to # p}

Leaving ==
    \E p \in Phones :
        /\ Leave(p)
        /\ gone' = gone \cup {p}
        /\ reachable' = NotTo(p)
        /\ UNCHANGED <<talk, former>>

Moving ==
    \E p \in Phones :
        /\ Move(p)
        /\ former' = [former EXCEPT ![p] = @ \cup {phone[p].at}]
        /\ reachable' = NotTo(p)
        /\ UNCHANGED <<talk, gone>>

(* The process is started again after an exit; SipRegistrar has restarts at any
   moment. *)
Restarting ==
    /\ exited
    /\ Restart
    /\ exited' = FALSE
    /\ UNCHANGED <<sip_calls, sip_transactions, sip_messages, up, down, call, dups, overtaken,
                   history>>

(* Datagrams of a call keep their order here; SipCalls reorders them. *)
ServeCall ==
    /\ UNCHANGED <<registration, history>>
    /\ \E p \in Phones : Talk!Proxy(p)
    /\ ~overtaken'

Dial ==
    /\ UNCHANGED <<registration, gone, former>>
    /\ \E c \in Calls, p, q \in Phones :
        /\ phone[p].reg
        /\ Talk!Dial(c, p, q)
        /\ reachable' = IF Settled(q) /\ phone[q].reg THEN reachable \cup {c} ELSE reachable

Converse ==
    /\ UNCHANGED <<registration, history>>
    /\ \/ \E p \in Phones : Talk!Phone(p)
       \/ \E c \in Calls : \/ Talk!Redial(c) \/ Talk!GiveUp(c) \/ Talk!Answer(c)
                           \/ Talk!Refuse(c) \/ Talk!HangUp(c)
    /\ ~overtaken'

ProxyNext == \/ ServeRegistration \/ Registering \/ Leaving \/ Moving \/ Restarting
             \/ ServeCall \/ Dial \/ Converse

ProxySpec == ProxyInit /\ [][ProxyNext]_allVars

-----------------------------------------------------------------------------
(* Properties. *)

(* Only a phone that de-registered, or that has moved, stops the proxy, with a
   request or response it sends then: whoever was told 200 OK and stayed has a row
   (registrations being renewed and restarts notwithstanding), and the transaction
   of every response is found. *)
StopsOnlyForUnsettled ==
    [][(~exited /\ exited') => \E p \in Phones : Talk!Proxy(p) /\ ~Settled(p)]_allVars

(* A caller hears 404 only if the callee was not registered all the time since it
   dialed. *)
FoundIfRegistered == \A c \in reachable : call[c].outcome # "failed"

(* As long as nobody has been at an address that another phone left, datagrams reach
   the phone they are for and the archive names the phone that sent them, although
   phones that moved keep their old rows. *)
AddressesOwn ==
    \A p \in Phones : \A q \in Phones \ {p} : ({phone[p].at} \cup former[p]) \cap former[q] = {}
Receiver(m) == IF Talk!IsRequest(m) THEN m.uri ELSE m.from
Sender(m) == IF Talk!IsRequest(m) THEN m.from ELSE m.uri
ReachesWhomItIsFor ==
    AddressesOwn =>
        /\ \A p \in Phones : \A i \in DOMAIN down[p] : p = Receiver(down[p][i])
        /\ \A a \in sip_messages : a.dst = "PS" => a.src = Sender(a.msg)
=============================================================================
