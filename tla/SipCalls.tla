------------------------------ MODULE SipCalls ------------------------------
(***************************************************************************)
(* Calls through the SIP proxy (process_request and process_status of      *)
(* main.c, invite.c, forwarding.c, simple-responses.c and the calls,       *)
(* transactions and archive of database.c).                                *)
(*                                                                         *)
(* The proxy is stateless but for its tables: it finds the other side in   *)
(* the location table, forwards the datagram, files it, and notes in       *)
(* sip_calls what it takes it to mean.  Phones follow RFC 3261; they are   *)
(* the outside world.  Here they stay where they registered; SipProxy has  *)
(* registrations that change meanwhile.                                    *)
(***************************************************************************)
EXTENDS Integers, SequencesExt, FiniteSetsExt, TLC

CONSTANTS
    Phones,         \* extensions
    Located,        \* those with a row in registered_users, at an address of their own name
    None,
    Calls,          \* Call-IDs
    Listing,        \* phones whose 200 OK has an Allow header
    Refusals,       \* how a phone turns a call down: "603", "486"
    MaxDups         \* bound on duplicates and retransmissions

ASSUME LocatedAssumption == Located \subseteq Phones /\ None \notin Phones
ASSUME ListingAssumption == Listing \subseteq Phones
ASSUME RefusalsAssumption == Refusals \subseteq {"603", "486"}
ASSUME DupsAssumption == MaxDups \in Nat

VARIABLES
    registered_users,   \* [Phones -> addresses and None], as in SipRegistrar
    at,                 \* where the phones are
    sip_calls,          \* [call ids -> state and timestamps that are not null]
    sip_transactions,   \* in order of transaction_id
    sip_messages,       \* the archive
    exited,             \* the proxy called exit(1)
    up, down,           \* per phone, the datagrams to and from the proxy
    call,               \* what caller and callee know of each call
    dups,
    overtaken           \* whether a datagram has overtaken another

tables == <<sip_calls, sip_transactions, sip_messages, exited>>
places == <<registered_users, at>>
talk == <<tables, up, down, call, dups, overtaken>>
vars == <<places, talk>>

Methods == {"INVITE", "ACK", "BYE", "CANCEL"}

Request(kind, c, from, uri, cseq) ==
    [kind |-> kind, of |-> kind, call |-> c, from |-> from, cseq |-> cseq,
     uri |-> uri, allow |-> FALSE]
(* A response keeps From, Call-ID and CSeq; `allow': it lists INVITE, ACK,
   CANCEL and BYE in an Allow header. *)
Status(kind, m, allow) == [m EXCEPT !.kind = kind, !.allow = allow]

IsRequest(m) == m.kind \in Methods

(* Variation (a bug the properties must notice): no 603. *)
NoDecline(m) == m.kind \in {"100", "180", "200", "487"}
(* The phones here send no 100 Trying: it would go the way of a 487 that ends nothing. *)
is_message_a_status(m) == m.kind \in {"100", "180", "200", "487", "603"}

-----------------------------------------------------------------------------
(* The tables. *)

(* Variation (a bug the properties must notice): the port is not compared. *)
AnyExtension(address) == {e \in Phones : registered_users[e] # None}
(* The query may find several rows; any may be the first. *)
find_extension_by_location(address) == {e \in Phones : registered_users[e] = address}
find_registered_client(extension) == registered_users[extension] # None

(* Variation (a bug the properties must notice): of duplicates, the last. *)
LastTransaction(m) ==
    Max({0} \cup {t \in DOMAIN sip_transactions : sip_transactions[t] = <<m.from, m.cseq, m.call>>})
(* The row the query returns first, in the order of the primary key; 0: none,
   and the caller exits. *)
find_sip_transaction(m) ==
    LET found == {t \in DOMAIN sip_transactions :
                    sip_transactions[t] = <<m.from, m.cseq, m.call>>}
    IN IF found = {} THEN 0 ELSE Min(found)

Dialed == [state |-> "dialed", stamps |-> {"dialed"}]
(* Variation (a bug the properties must notice): replace into. *)
ReplaceInto(calls, c) == (c :> Dialed) @@ calls
(* The Call-ID is the primary key: a second insert fails and is ignored. *)
create_new_call(calls, c) ==
    [d \in DOMAIN calls \cup {c} |-> IF d \in DOMAIN calls THEN calls[d] ELSE Dialed]

Timestamp(state) == IF state \in {"cancelled", "declined", "failed"} THEN "ended" ELSE state

update_call_state(calls, c, state) ==
    [calls EXCEPT ![c] = [state |-> state, stamps |-> @.stamps \cup {Timestamp(state)}]]

has_call_been_answered(c) == c \in DOMAIN sip_calls /\ "answered" \in sip_calls[c].stamps

Archived(src, dst, m, tid) == [src |-> src, dst |-> dst, msg |-> m, tid |-> tid]

(* Variation (a bug the properties must notice): every OK is an answer. *)
AnyOk(m) == CASE m.kind = "180" -> "ringing" [] m.kind = "200" -> "answered"
              [] m.kind = "603" -> "declined" [] OTHER -> "none"
(* strstr looks for the method in the whole datagram. *)
NewState(m) ==
    CASE m.kind = "180" -> "ringing"
      [] m.kind = "603" -> "declined"
      [] m.kind = "200" -> IF m.of = "INVITE" \/ m.allow THEN "answered"
                           ELSE IF m.of = "BYE" THEN "ended" ELSE "cancelled"
      [] OTHER -> "none"

-----------------------------------------------------------------------------
(* The proxy. *)

(* Variation (a bug the properties must notice): none for BYE. *)
InviteOrAck(m) == m.kind = "INVITE" \/ (m.kind = "ACK" /\ has_call_been_answered(m.call))
CreatesTransaction(m) == \/ m.kind \in {"INVITE", "BYE"}
                         \/ m.kind = "ACK" /\ has_call_been_answered(m.call)

TransactionId(m) == IF CreatesTransaction(m) THEN Len(sip_transactions) + 1
                    ELSE find_sip_transaction(m)
Transactions(m) == IF CreatesTransaction(m)
                   THEN Append(sip_transactions, <<m.from, m.cseq, m.call>>)
                   ELSE sip_transactions

(* Neither the sender's extension nor the transaction may be unknown. *)
Fails(p, m) == find_extension_by_location(at[p]) = {} \/ TransactionId(m) = 0

(* p's link to the proxy yields datagram i, which may come again. *)
Arrives(p, i) == /\ \/ up' = [up EXCEPT ![p] = RemoveAt(@, i)] /\ UNCHANGED dups
                    \/ /\ dups < MaxDups
                       /\ dups' = dups + 1
                       /\ UNCHANGED up
                 /\ overtaken' = (overtaken \/ i > 1)

(* m is filed as received from p and, if dst is in the location table, as
   forwarded to it; whoever is at that address gets it. *)
Forward(p, m, dst) ==
    LET tid == TransactionId(m)
        onward == IF find_registered_client(dst) THEN {Archived("PS", dst, m, tid)} ELSE {}
    IN /\ \E src \in find_extension_by_location(at[p]) :
            sip_messages' = sip_messages \cup {Archived(src, "PS", m, tid)} \cup onward
       /\ down' = [q \in Phones |-> IF at[q] = registered_users[dst] THEN Append(down[q], m)
                                                                    ELSE down[q]]

(* The caller is told 404, and the call has failed. *)
NotFound(p, m) ==
    LET reply == Status("404", m, FALSE) IN
    /\ ~find_registered_client(m.uri)
    /\ sip_calls' = update_call_state(create_new_call(sip_calls, m.call), m.call, "failed")
    /\ \E src \in find_extension_by_location(at[p]) :
        sip_messages' = sip_messages \cup {Archived(src, "PS", m, TransactionId(m)),
                                            Archived("PS", src, reply, TransactionId(m))}
    /\ down' = [down EXCEPT ![p] = Append(@, reply)]

process_invitation_request(p, m) ==
    /\ m.kind = "INVITE"
    /\ sip_transactions' = Transactions(m)
    /\ \/ NotFound(p, m)
       \/ /\ find_registered_client(m.uri)
          /\ sip_calls' = create_new_call(sip_calls, m.call)
          /\ Forward(p, m, m.uri)

(* BYE, CANCEL and ACK go to the extension of the request line. *)
process_request(p, m) ==
    /\ m.kind \in {"BYE", "CANCEL", "ACK"}
    /\ sip_transactions' = Transactions(m)
    /\ Forward(p, m, m.uri)
    /\ UNCHANGED sip_calls

(* A status goes back to the extension in its From. *)
process_status(p, m) ==
    /\ is_message_a_status(m)
    /\ Forward(p, m, m.from)
    /\ sip_calls' = IF NewState(m) = "none" THEN sip_calls
                    ELSE update_call_state(sip_calls, m.call, NewState(m))
    /\ UNCHANGED sip_transactions

Ignore(m) ==
    /\ ~IsRequest(m) /\ ~is_message_a_status(m)
    /\ UNCHANGED <<tables, down>>

Exit(p, m) ==
    /\ Fails(p, m)
    /\ exited' = TRUE
    /\ UNCHANGED <<sip_calls, sip_transactions, sip_messages, down>>

Proxy(p) ==
    /\ ~exited
    /\ \E i \in DOMAIN up[p] : LET m == up[p][i] IN
        /\ Arrives(p, i)
        /\ \/ Ignore(m)
           \/ (IsRequest(m) \/ is_message_a_status(m)) /\ Exit(p, m)
           \/ /\ ~Fails(p, m)
              /\ UNCHANGED exited
              /\ process_invitation_request(p, m) \/ process_request(p, m) \/ process_status(p, m)
    /\ UNCHANGED <<places, call>>

-----------------------------------------------------------------------------
(* The phones.  The caller: idle, calling, proceeding (it heard a 180), up, bye
   (it sent BYE), over.  The callee: idle, ringing, up, bye, over; `last' is its
   last response to the INVITE and `acked' that it may stop sending it. *)

Unused == [from |-> "nobody", to |-> "nobody", caller |-> "idle", callee |-> "idle",
           last |-> "none", acked |-> FALSE, cancelled |-> FALSE, outcome |-> "none"]

Invite(c) == Request("INVITE", c, call[c].from, call[c].to, 1)
Ack(c) == Request("ACK", c, call[c].from, call[c].to, 1)
Cancel(c) == Request("CANCEL", c, call[c].from, call[c].to, 1)
CallerBye(c) == Request("BYE", c, call[c].from, call[c].to, 2)
CalleeBye(c) == Request("BYE", c, call[c].to, call[c].from, 1)

Sends(q, p, msgs) == [q EXCEPT ![p] = @ \o msgs]
Keeps == UNCHANGED <<places, tables, down, dups, overtaken>>

Dial(c, p, q) ==
    /\ call[c].caller = "idle"
    /\ p # q
    /\ call' = [call EXCEPT ![c].from = p, ![c].to = q, ![c].caller = "calling"]
    /\ up' = Sends(up, p, <<Request("INVITE", c, p, q, 1)>>)
    /\ Keeps

(* The proxy sends no 100 Trying: the caller repeats its INVITE until it hears. *)
Redial(c) ==
    /\ call[c].caller = "calling"
    /\ dups < MaxDups
    /\ dups' = dups + 1
    /\ up' = Sends(up, call[c].from, <<Invite(c)>>)
    /\ UNCHANGED <<places, tables, down, call, overtaken>>

GiveUp(c) ==
    /\ call[c].caller = "proceeding" /\ ~call[c].cancelled
    /\ call' = [call EXCEPT ![c].cancelled = TRUE]
    /\ up' = Sends(up, call[c].from, <<Cancel(c)>>)
    /\ Keeps

Answer(c) ==
    /\ call[c].callee = "ringing"
    /\ call' = [call EXCEPT ![c].callee = "up", ![c].last = "200"]
    /\ up' = Sends(up, call[c].to, <<Status("200", Invite(c), call[c].to \in Listing)>>)
    /\ Keeps

Refuse(c) ==
    /\ call[c].callee = "ringing"
    /\ \E kind \in Refusals :
        /\ call' = [call EXCEPT ![c].callee = "over", ![c].last = kind]
        /\ up' = Sends(up, call[c].to, <<Status(kind, Invite(c), FALSE)>>)
    /\ Keeps

HangUp(c) ==
    /\ \/ /\ call[c].caller = "up"
          /\ call' = [call EXCEPT ![c].caller = "bye"]
          /\ up' = Sends(up, call[c].from, <<CallerBye(c)>>)
       \/ /\ call[c].callee = "up" /\ call[c].acked
          /\ call' = [call EXCEPT ![c].callee = "bye"]
          /\ up' = Sends(up, call[c].to, <<CalleeBye(c)>>)
    /\ Keeps

Final == [s \in {"404", "487", "603"} |->
            CASE s = "404" -> "failed" [] s = "487" -> "cancelled" [] s = "603" -> "declined"]

(* What the caller does with m, as the new state of the call and what it sends. *)
CallerTakes(c, m) ==
    LET d == call[c]
        allow == d.from \in Listing IN
    CASE m.kind = "180" ->
            <<IF d.caller = "calling" THEN [d EXCEPT !.caller = "proceeding"] ELSE d, << >>>>
      [] m.kind = "200" /\ m.of = "INVITE" ->
            IF d.caller \notin {"calling", "proceeding"} THEN <<d, <<Ack(c)>>>>
            ELSE IF d.cancelled
            THEN <<[d EXCEPT !.caller = "bye", !.outcome = "completed"], <<Ack(c), CallerBye(c)>>>>
            ELSE <<[d EXCEPT !.caller = "up", !.outcome = "completed"], <<Ack(c)>>>>
      [] m.kind \in DOMAIN Final ->
            <<IF d.caller \notin {"calling", "proceeding"} THEN d
              ELSE [d EXCEPT !.caller = "over", !.outcome = Final[m.kind]], <<Ack(c)>>>>
      [] m.kind = "200" /\ m.of = "BYE" -> <<[d EXCEPT !.caller = "over"], << >>>>
      [] m.kind = "BYE" ->
            <<[d EXCEPT !.caller = IF @ = "up" THEN "over" ELSE @], <<Status("200", m, allow)>>>>
      [] OTHER -> <<d, << >>>>

CalleeTakes(c, m) ==
    LET d == call[c]
        allow == d.to \in Listing IN
    CASE m.kind = "INVITE" ->
            IF d.callee = "idle"
            THEN <<[d EXCEPT !.callee = "ringing", !.last = "180"], <<Status("180", m, FALSE)>>>>
            ELSE <<d, IF d.acked THEN << >>
                      ELSE <<Status(d.last, m, d.last = "200" /\ allow)>>>>
      [] m.kind = "CANCEL" ->
            IF d.callee = "ringing"
            THEN <<[d EXCEPT !.callee = "over", !.last = "487"],
                   <<Status("200", m, allow), Status("487", Invite(c), FALSE)>>>>
            ELSE <<d, <<Status("200", m, allow)>>>>
      [] m.kind = "ACK" -> <<[d EXCEPT !.acked = TRUE], << >>>>
      [] m.kind = "BYE" ->
            <<[d EXCEPT !.callee = IF @ = "up" THEN "over" ELSE @], <<Status("200", m, allow)>>>>
      [] m.kind = "200" /\ m.of = "BYE" -> <<[d EXCEPT !.callee = "over"], << >>>>
      [] OTHER -> <<d, << >>>>

Phone(p) ==
    \E i \in DOMAIN down[p] :
        LET m == down[p][i]
            took == IF p = call[m.call].from THEN CallerTakes(m.call, m)
                    ELSE IF p = call[m.call].to THEN CalleeTakes(m.call, m)
                    ELSE <<call[m.call], << >>>>
        IN /\ down' = [down EXCEPT ![p] = RemoveAt(@, i)]
           /\ call' = [call EXCEPT ![m.call] = took[1]]
           /\ up' = Sends(up, p, took[2])
           /\ overtaken' = (overtaken \/ i > 1)
           /\ UNCHANGED <<places, tables, dups>>

-----------------------------------------------------------------------------
TalkInit ==
    /\ sip_calls = << >> /\ sip_transactions = << >> /\ sip_messages = {}
    /\ exited = FALSE
    /\ up = [p \in Phones |-> << >>] /\ down = [p \in Phones |-> << >>]
    /\ call = [c \in Calls |-> Unused]
    /\ dups = 0 /\ overtaken = FALSE

Init ==
    /\ registered_users = [p \in Phones |-> IF p \in Located THEN p ELSE None]
    /\ at = [p \in Phones |-> p]
    /\ TalkInit

Next ==
    \/ \E p \in Phones : Proxy(p) \/ Phone(p)
    \/ \E c \in Calls : \/ \E p, q \in Phones : Dial(c, p, q)
                        \/ Redial(c) \/ GiveUp(c) \/ Answer(c) \/ Refuse(c) \/ HangUp(c)

Spec == Init /\ [][Next]_vars

(* The proxy's loop and the phones take what arrives, and a phone that rings
   is answered or not wanted.  Nobody has to dial, give up or hang up. *)
Fairness == /\ \A p \in Phones : WF_vars(Proxy(p)) /\ WF_vars(Phone(p))
            /\ \A c \in Calls : WF_vars(Answer(c) \/ Refuse(c))
FairSpec == Spec /\ Fairness

-----------------------------------------------------------------------------
(* Properties. *)

Statuses == {"180", "200", "404", "486", "487", "603"}
Datagrams == [kind : Methods \cup Statuses, of : Methods, call : Calls, from : Phones,
              cseq : {1, 2}, uri : Phones, allow : BOOLEAN]
Views == [from : Phones \cup {"nobody"}, to : Phones \cup {"nobody"},
          caller : {"idle", "calling", "proceeding", "up", "bye", "over"},
          callee : {"idle", "ringing", "up", "bye", "over"},
          last : {"none", "180", "200", "486", "487", "603"},
          acked : BOOLEAN, cancelled : BOOLEAN,
          outcome : {"none", "completed", "failed", "cancelled", "declined"}]
Rows == Phones \X {1, 2} \X Calls

(* The type of what the tables, the phones and the links hold. *)
TypeOK ==
    /\ call \in [Calls -> Views]
    /\ up \in [Phones -> Seq(Datagrams)] /\ down \in [Phones -> Seq(Datagrams)]
    /\ sip_transactions \in Seq(Rows)
    /\ \A a \in sip_messages : a.msg \in Datagrams
    /\ DOMAIN sip_calls \subseteq Calls

Stamps == {"dialed", "ringing", "answered", "ended"}

(* The proxy stops (find_extension_by_location, find_sip_transaction) only when
   a phone that is not in the location table calls: never on a transaction it
   cannot find, however datagrams are reordered and repeated. *)
ExitsOnlyForUnlocated == exited => \E c \in Calls : call[c].from \in Phones \ Located

(* A call has an answered_ts only if its callee took it: the OK to a CANCEL or BYE is
   told from the OK to an INVITE by its CSeq.  Not so if the callee lists the methods
   it knows in an Allow header, where INVITE is found first. *)
AnsweredMeansAnswered ==
    \A c \in DOMAIN sip_calls : "answered" \in sip_calls[c].stamps =>
        call[c].last = "200" \/ (call[c].cancelled /\ call[c].to \in Listing)

(* All responses to a request are filed under one transaction, the one the
   request was filed under, though repeated requests and the ACK make rows
   with the same key. *)
FiledTogether ==
    \A a \in sip_messages : ~IsRequest(a.msg) =>
        /\ \E b \in sip_messages : /\ b.tid = a.tid /\ b.msg.kind = a.msg.of
                                   /\ b.msg.call = a.msg.call /\ b.msg.from = a.msg.from
        /\ \A b \in sip_messages :
            (~IsRequest(b.msg) /\ b.msg.call = a.msg.call /\ b.msg.of = a.msg.of
             /\ b.msg.from = a.msg.from /\ b.msg.kind # "404") => b.tid = a.tid

(* If no datagram overtook another, the record of a call that is over says how it
   went, once nothing is on its way: ended and when it was answered, though its INVITE
   was repeated, declined, cancelled or failed.  A CANCEL that came too late may have
   the last word, and so may an OK with an Allow header, as an answer. *)
Quiet == \A p \in Phones : up[p] = << >> /\ down[p] = << >>
Misread(c) == {call[c].from, call[c].to} \cap Listing # {} /\ sip_calls[c].state = "answered"
RecordMatchesOutcome ==
    \A c \in Calls : (Quiet /\ ~exited /\ ~overtaken /\ call[c].caller = "over") =>
        \/ Misread(c)
        \/ CASE call[c].outcome = "completed" ->
                    sip_calls[c] = [state |-> "ended", stamps |-> Stamps]
              [] call[c].outcome = "declined" ->
                    sip_calls[c].state \in {"declined"} \cup
                        (IF call[c].cancelled THEN {"cancelled"} ELSE {})
              [] OTHER -> sip_calls[c].state = call[c].outcome

(* If nothing is lost, a caller whose callee answers or declines hears how its
   call went, however datagrams are reordered and repeated.  Not so after a 486
   Busy Here, which the proxy drops, and when a phone without a row in the
   location table has stopped the proxy. *)
CallerHears ==
    \A c \in Calls : call[c].caller = "calling" ~>
        (call[c].caller \in {"up", "bye", "over"} \/ call[c].last = "486" \/ exited)
=============================================================================
