---------------------------- MODULE SipRegistrar ----------------------------
(***************************************************************************)
(* Registration at the SIP proxy (register.c and the accounts, challenges  *)
(* and locations of database.c): a phone asks, gets a nonce, answers it,   *)
(* and its address is written to the location table, where calls find it.  *)
(*                                                                         *)
(* The proxy is one loop that handles a datagram at a time.  The location  *)
(* table is in MySQL and outlives it; the ring of MAX_CHALLENGES open      *)
(* challenges and the last HA1 read are memory.  Datagrams get lost, late  *)
(* and duplicated.  The phones are the outside world.                      *)
(***************************************************************************)
EXTENDS Integers, Sequences, FiniteSetsExt, TLC

CONSTANTS
    Accounts,       \* extensions in user_accounts
    Strangers,      \* phones whose extension has no account
    NoAgent,        \* phones that send no User-Agent header
    NoExpires,      \* phones that send no Expires header
    Addresses, None,
    MAX_CHALLENGES,
    MaxRequests,    \* bounds on a phone's CSeq and on what goes wrong
    MaxChanges, MaxMoves, MaxDups, MaxLosses, MaxRestarts, MaxCrashes, MaxUnterminated,
    MaxFaults       \* bound on losses, restarts and unterminated answers together

ASSUME RingAssumption == MAX_CHALLENGES \in Nat \ {0}
ASSUME NoneAssumption == None \notin Addresses \cup Accounts \cup Strangers
ASSUME PhonesAssumption == Accounts \cap Strangers = {}

Phones == Accounts \cup Strangers
Slots == 0 .. MAX_CHALLENGES - 1
Bounded == {"changes", "moves", "dups", "losses", "restarts", "crashes", "unterminated"}

VARIABLES
    registered_users,       \* [Phones -> Addresses \cup {None}], the location table
    open_challenges,        \* the ring of expected responses
    cur_challenge_index,
    HA1,                    \* static buffer of get_HA1_for_user
    net,                    \* datagrams on their way
    phone,                  \* each phone: where it is, what it waits for, what it believes
    granted,                \* of each nonce made so far, how often a response was accepted
    born,                   \* nonces made before the proxy's last start
    count                   \* how often each bounded event happened

proxy == <<open_challenges, cur_challenge_index, HA1>>
vars == <<registered_users, proxy, net, phone, granted, born, count>>

-----------------------------------------------------------------------------
(* MD5(HA1:nonce:HA2); HA2 is the same for every REGISTER. *)
Digest(ha1, nonce) == [ha1 |-> ha1, nonce |-> nonce]
Blank == Digest(None, 0)
NoAuth == Digest(None, -1)

Register(p, cseq, expires, auth) ==
    [kind |-> "REGISTER", from |-> p, src |-> phone[p].at, cseq |-> cseq,
     expires |-> IF p \in NoExpires THEN "absent" ELSE expires,
     agent |-> p \notin NoAgent, auth |-> auth]
Response(m, kind, nonce) ==
    [kind |-> kind, to |-> m.from, dst |-> m.src, cseq |-> m.cseq, nonce |-> nonce]

Happens(what, max) == /\ count[what] < max
                      /\ count' = [count EXCEPT ![what] = @ + 1]

Faults == count["losses"] + count["restarts"] + count["unterminated"]

(* The network hands m over and takes `sent'; a duplicate of m may remain. *)
Handle(m, sent) == \/ /\ net' = (net \ {m}) \cup sent
                      /\ UNCHANGED count
                   \/ /\ Happens("dups", MaxDups)
                      /\ net' = net \cup sent

(* The same while the byte after the 32 copied into challenge_response[33] is not NUL:
   it is never written, and strcmp reads on. *)
HandleUnterminated(m, sent) ==
    /\ Faults < MaxFaults
    /\ count["unterminated"] < MaxUnterminated
    /\ \/ /\ net' = (net \ {m}) \cup sent
          /\ count' = [count EXCEPT !["unterminated"] = @ + 1]
       \/ /\ count["dups"] < MaxDups
          /\ net' = net \cup sent
          /\ count' = [count EXCEPT !["unterminated"] = @ + 1, !["dups"] = @ + 1]

Init ==
    /\ registered_users = [p \in Phones |-> None]
    /\ open_challenges = [i \in Slots |-> Blank]
    /\ cur_challenge_index = 0
    /\ HA1 = None
    /\ net = {}
    /\ phone \in [Phones -> [at : Addresses, state : {"rest"}, reg : {FALSE},
                             cseq : {0}, auth : {NoAuth}]]
    /\ \A p, q \in Phones : phone[p].at = phone[q].at => p = q
    /\ granted = << >>
    /\ born = 0
    /\ count = [what \in Bounded |-> 0]

-----------------------------------------------------------------------------
(* The proxy. *)

(* The buffer keeps the last account's HA1 when the extension has none, and
   is never NULL: does_user_exist says yes to everyone. *)
LookUp(extension) == IF extension \in Accounts THEN extension ELSE HA1

(* Without an Expires header the variable is uninitialized: any value. *)
Expires(m) == IF m.expires = "absent" THEN {"zero", "positive"} ELSE {m.expires}

(* Variations (bugs the properties must notice): the index stands still;
   one slot of the ring is never used; no modulo. *)
StandsStill(i) == i
SkipsOne(i) == (i + 1) % (IF MAX_CHALLENGES > 1 THEN MAX_CHALLENGES - 1 ELSE 1)
NoModulo(i) == i + 1
NextSlot(i) == (i + 1) % MAX_CHALLENGES

Matching(response) == {i \in Slots : open_challenges[i] = response}

(* Variation (a bug the properties must notice): the response is not wiped. *)
Kept(response) == open_challenges
Wiped(response) == [open_challenges EXCEPT ![Min(Matching(response))] = Blank]

(* Variation (a bug the properties must notice): delete without its where. *)
DeleteAll(m) == [p \in Phones |-> None]
Deleted(m) == [registered_users EXCEPT ![m.from] = None]

(* Variation (a bug the properties must notice): update without insert. *)
UpdatesOnly(m) == registered_users
(* insert ... on duplicate key update: an existing row keeps its address. *)
Inserted(m) == [registered_users EXCEPT ![m.from] = IF @ = None THEN m.src ELSE @]

deregister_client(m) ==
    /\ "zero" \in Expires(m)
    /\ HA1' = LookUp(m.from)
    /\ registered_users' = Deleted(m)
    /\ Handle(m, {Response(m, "200", 0)})
    /\ UNCHANGED <<open_challenges, cur_challenge_index, phone, granted, born>>

(* The challenge is made when the loop meets the User-Agent header. *)
challenge_client(m) ==
    /\ "positive" \in Expires(m)
    /\ m.auth = NoAuth
    /\ m.agent
    /\ HA1' = LookUp(m.from)
    /\ granted' = Append(granted, 0)
    /\ open_challenges' = [open_challenges EXCEPT ![cur_challenge_index] =
                                Digest(LookUp(m.from), Len(granted'))]
    /\ cur_challenge_index' = NextSlot(cur_challenge_index)
    /\ Handle(m, {Response(m, "401", Len(granted'))})
    /\ UNCHANGED <<registered_users, phone, born>>

challenge_without_nonce(m) ==
    /\ "positive" \in Expires(m)
    /\ m.auth = NoAuth
    /\ ~m.agent
    /\ HA1' = LookUp(m.from)
    /\ Handle(m, {Response(m, "401", 0)})
    /\ UNCHANGED <<registered_users, open_challenges, cur_challenge_index, phone,
                   granted, born>>

(* An answer that strcmp finds, if a NUL follows it. *)
ValidResponse(m) == /\ "positive" \in Expires(m)
                    /\ m.auth # NoAuth
                    /\ Matching(m.auth) # {}

accept_client(m) ==
    /\ ValidResponse(m)
    /\ HA1' = LookUp(m.from)
    /\ open_challenges' = Wiped(m.auth)
    /\ granted' = [granted EXCEPT ![m.auth.nonce] = @ + 1]
    /\ registered_users' = Inserted(m)
    /\ Handle(m, {Response(m, "200", 0)})
    /\ UNCHANGED <<cur_challenge_index, phone, born>>

(* A right answer is forbidden as well if strcmp reads beyond it; its challenge stays
   open. *)
forbid_client(m) ==
    /\ "positive" \in Expires(m)
    /\ m.auth # NoAuth
    /\ \/ Matching(m.auth) = {} /\ Handle(m, {Response(m, "403", 0)})
       \/ Matching(m.auth) # {} /\ HandleUnterminated(m, {Response(m, "403", 0)})
    /\ HA1' = LookUp(m.from)
    /\ UNCHANGED <<registered_users, open_challenges, cur_challenge_index, phone,
                   granted, born>>

process_registration_request(m) ==
    \/ deregister_client(m)
    \/ challenge_client(m)
    \/ challenge_without_nonce(m)
    \/ accept_client(m)
    \/ forbid_client(m)

(* A new process: the ring and the buffer are empty, the table is not. *)
Reborn == /\ open_challenges' = [i \in Slots |-> Blank]
          /\ cur_challenge_index' = 0
          /\ HA1' = None
          /\ born' = Len(granted')

Restart == /\ Faults < MaxFaults
           /\ Happens("restarts", MaxRestarts)
           /\ UNCHANGED <<registered_users, net, phone, granted>>
           /\ Reborn

(* The proxy dies after it sent the 200 OK and before it wrote the row. *)
CrashBeforeWrite(m) ==
    /\ ValidResponse(m)
    /\ Happens("crashes", MaxCrashes)
    /\ net' = (net \ {m}) \cup {Response(m, "200", 0)}
    /\ granted' = [granted EXCEPT ![m.auth.nonce] = @ + 1]
    /\ UNCHANGED <<registered_users, phone>>
    /\ Reborn

-----------------------------------------------------------------------------
(* The phones. *)

Waiting == {"asking", "answering", "leaving"}

(* p's request of its current CSeq, as it would send it (again). *)
Current(p) == Register(p, phone[p].cseq,
                       IF phone[p].state = "leaving" THEN "zero" ELSE "positive",
                       phone[p].auth)

Send(p, state, auth) ==
    /\ phone' = [phone EXCEPT ![p].state = state, ![p].cseq = @ + 1, ![p].auth = auth]
    /\ net' = net \cup {Register(p, phone[p].cseq + 1,
                                 IF state = "leaving" THEN "zero" ELSE "positive", auth)}

Ask(p) ==
    /\ phone[p].state = "rest" /\ ~phone[p].reg
    /\ phone[p].cseq < MaxRequests
    /\ Send(p, "asking", NoAuth)
    /\ UNCHANGED <<registered_users, proxy, granted, born, count>>

Renew(p) ==
    /\ phone[p].state = "rest" /\ phone[p].reg
    /\ Happens("changes", MaxChanges)
    /\ Send(p, "asking", NoAuth)
    /\ UNCHANGED <<registered_users, proxy, granted, born>>

Leave(p) ==
    /\ phone[p].state = "rest" /\ phone[p].reg
    /\ p \notin NoExpires
    /\ Happens("changes", MaxChanges)
    /\ Send(p, "leaving", NoAuth)
    /\ UNCHANGED <<registered_users, proxy, granted, born>>

(* Another network: the phone has to register from its new address. *)
Move(p) ==
    /\ phone[p].state = "rest"
    /\ Happens("moves", MaxMoves)
    /\ \E a \in Addresses \ {phone[q].at : q \in Phones} :
        phone' = [phone EXCEPT ![p].at = a, ![p].reg = FALSE]
    /\ UNCHANGED <<registered_users, proxy, net, granted, born>>

(* The retransmission timer is longer than a round trip: it goes off when
   neither the request nor its response is on its way.  (A timer that is too
   short makes a duplicate.) *)
Retransmit(p) ==
    /\ phone[p].state \in Waiting
    /\ \A m \in net : IF m.kind = "REGISTER" THEN m # Current(p)
                      ELSE m.to = p => m.cseq # phone[p].cseq
    /\ net' = net \cup {Current(p)}
    /\ UNCHANGED <<registered_users, proxy, phone, granted, born, count>>

Expected(r) == /\ phone[r.to].state \in Waiting
               /\ r.cseq = phone[r.to].cseq
               /\ r.dst = phone[r.to].at

(* Only a 401 with a nonce that answers a request without credentials can be
   followed up; after anything else but a 200 the phone is not registered. *)
PhoneReceives(r) ==
    /\ IF Expected(r)
       THEN \/ /\ r.kind = "401" /\ r.nonce # 0
               /\ net' = (net \ {r}) \cup
                     {Register(r.to, r.cseq + 1, "positive", Digest(r.to, r.nonce))}
               /\ phone' = [phone EXCEPT ![r.to] =
                     [@ EXCEPT !.state = "answering", !.cseq = r.cseq + 1,
                               !.auth = Digest(r.to, r.nonce)]]
            \/ /\ r.kind = "200"
               /\ net' = net \ {r}
               /\ phone' = [phone EXCEPT ![r.to].state = "rest",
                                         ![r.to].reg = (phone[r.to].state # "leaving")]
            \/ /\ r.kind = "403" \/ (r.kind = "401" /\ r.nonce = 0)
               /\ net' = net \ {r}
               /\ phone' = [phone EXCEPT ![r.to].state = "rest", ![r.to].reg = FALSE]
       ELSE net' = net \ {r} /\ UNCHANGED phone
    /\ UNCHANGED <<registered_users, proxy, granted, born, count>>

Lose(m) ==
    /\ Faults < MaxFaults
    /\ Happens("losses", MaxLosses)
    /\ net' = net \ {m}
    /\ UNCHANGED <<registered_users, proxy, phone, granted, born>>

-----------------------------------------------------------------------------
Requests(p) == {m \in net : m.kind = "REGISTER" /\ m.from = p}
Responses(p) == {m \in net : m.kind # "REGISTER" /\ m.to = p}

Serve(p) == \E m \in Requests(p) : process_registration_request(m)
Receive(p) == \E r \in Responses(p) : PhoneReceives(r)

Next ==
    \/ \E p \in Phones : \/ Serve(p) \/ Receive(p)
                         \/ Ask(p) \/ Renew(p) \/ Leave(p) \/ Move(p) \/ Retransmit(p)
                         \/ \E m \in Requests(p) : CrashBeforeWrite(m)
    \/ \E m \in net : Lose(m)
    \/ Restart

Spec == Init /\ [][Next]_vars

(* The proxy's loop never stops taking datagrams; phones that want to be
   registered keep asking and retransmitting.  Nothing has to go wrong. *)
Fairness == \A p \in Phones : /\ WF_vars(Serve(p)) /\ WF_vars(Receive(p))
                              /\ WF_vars(Ask(p)) /\ WF_vars(Retransmit(p))
FairSpec == Spec /\ Fairness

-----------------------------------------------------------------------------
(* Properties. *)

Digests == [ha1 : Phones \cup {None}, nonce : Nat \cup {-1}]
REGISTERs == [kind : {"REGISTER"}, from : Phones, src : Addresses, cseq : Nat,
              expires : {"positive", "zero", "absent"}, agent : BOOLEAN, auth : Digests]
ResponseMsgs == [kind : {"200", "401", "403"}, to : Phones, dst : Addresses,
                 cseq : Nat, nonce : Nat]

(* The type of every variable. *)
TypeOK ==
    /\ registered_users \in [Phones -> Addresses \cup {None}]
    /\ open_challenges \in [Slots -> Digests]
    /\ cur_challenge_index \in Slots
    /\ HA1 \in Accounts \cup {None}
    /\ net \subseteq REGISTERs \cup ResponseMsgs
    /\ phone \in [Phones -> [at : Addresses, state : Waiting \cup {"rest"},
                             reg : BOOLEAN, cseq : Nat, auth : Digests]]
    /\ granted \in Seq(Nat)
    /\ born \in 0 .. Len(granted)
    /\ count \in [Bounded -> Nat]

(* No challenge admits two registrations, however its answer is duplicated and
   however the ring has been overwritten meanwhile. *)
AcceptedOnce == \A n \in DOMAIN granted : granted[n] <= 1

(* An answer with the right password to one of the last MAX_CHALLENGES
   challenges of this run of the proxy that was not used yet is forbidden only if the
   byte after it is not NUL, and then its challenge stays open, whatever else was
   registered, duplicated or refused in between. *)
Unspent == {n \in DOMAIN granted : /\ granted[n] = 0 /\ n > born
                                   /\ n > Len(granted) - MAX_CHALLENGES}
FreshAnswerAccepted ==
    [][\A m \in {x \in net : x.kind = "REGISTER"} :
        (m.from \in Accounts /\ m.auth.nonce \in Unspent)
            => (Response(m, "403", 0) \in net' \ net
                    => /\ count'["unterminated"] = count["unterminated"] + 1
                       /\ \E i \in Slots : open_challenges'[i] = m.auth)]_vars

(* A phone that was told 200 OK for registering can be called: it is in the
   location table at the address it registered from, as the proxy says when it
   prints "registered extension %s at %s:%d".  Not so after a duplicated
   de-registration, an omitted Expires header or a crash before the write. *)
RegisteredWhereSaid ==
    \A p \in Phones \ NoExpires :
        (phone[p].reg /\ phone[p].state # "leaving")
            => registered_users[p] = phone[p].at

(* With no more phones at a time than open challenges, a phone that has an
   account and asks for registration gets it, whatever is lost on the way and
   whenever the proxy restarts, once a NUL follows its answer: it asks again after
   each of the MaxUnterminated times that none does. *)
EventuallyRegistered ==
    \A p \in Accounts \ (NoAgent \cup NoExpires) :
        phone[p].state = "asking" ~> (phone[p].state = "rest" /\ phone[p].reg)
=============================================================================
