--------------------------- MODULE SipCallsProofs ---------------------------
(* Theorems about SipCalls for any phones, calls and repetitions, with datagrams that
   overtake each other. *)
EXTENDS SipCalls, CommonLemmas

-----------------------------------------------------------------------------
(* The inductive invariant. *)

PlacesInv == /\ registered_users = [p \in Phones |-> IF p \in Located THEN p ELSE None]
             /\ at = [p \in Phones |-> p]

(* What may be read off a datagram about its call, whoever has it: it is one the two
   phones of the call send, and what it says has happened. *)
Means(m) ==
    LET d == call[m.call]
    IN /\ d.caller # "idle"
       /\ IF IsRequest(m) THEN m.of = m.kind ELSE m.of # "ACK"
       /\ \/ m.from = d.from /\ m.uri = d.to /\ m.cseq = IF m.of = "BYE" THEN 2 ELSE 1
          \/ /\ m.of = "BYE" /\ m.from = d.to /\ m.uri = d.from /\ m.cseq = 1
             /\ d.to \in Located
       /\ m.kind = "404" => m.of = "INVITE" /\ d.to \notin Located
       /\ m.kind \in Statuses \ {"404"} => m.uri \in Located
       /\ m.kind = "200" /\ m.of = "INVITE" => d.last = "200"
       /\ m.of = "BYE" => d.last = "200"
       /\ m.of = "CANCEL" => d.cancelled
       /\ m.allow => m.uri \in Listing

(* Transactions: the key of a datagram, whether there is one, and the first. *)
Key(m) == <<m.from, m.cseq, m.call>>
InviteKey(c) == <<call[c].from, 1, c>>
RowsOf(k) == {t \in DOMAIN sip_transactions : sip_transactions[t] = k}
First(k) == Min(RowsOf(k))
Filed(kind, k, tid) ==
    \E b \in sip_messages : /\ b.tid = tid /\ b.msg.kind = kind
                            /\ b.msg.call = k[3] /\ b.msg.from = k[1]
CancelFiled(m) == m.of = "CANCEL" => Filed("CANCEL", Key(m), First(Key(m)))

(* On the way to the proxy, and from it. *)
InUp(p, m) ==
    /\ m \in Datagrams /\ Means(m)
    /\ p = IF IsRequest(m) THEN m.from ELSE m.uri
    /\ m.kind # "INVITE" => RowsOf(InviteKey(m.call)) # {}
    /\ ~IsRequest(m) => RowsOf(Key(m)) # {} /\ CancelFiled(m)
InDown(p, m) ==
    /\ m \in Datagrams /\ Means(m)
    /\ IF IsRequest(m) THEN p = m.uri /\ p \in Located ELSE p = m.from
    /\ RowsOf(InviteKey(m.call)) # {} /\ RowsOf(Key(m)) # {} /\ CancelFiled(m)
WayInv == \A p \in Phones : /\ \A m \in Range(up[p]) : InUp(p, m)
                            /\ \A m \in Range(down[p]) : InDown(p, m)

(* How far a call is. *)
ViewOK(c, d) ==
    /\ d.caller # "idle" => d.from \in Phones /\ d.to \in Phones /\ d.from # d.to
    /\ d.callee # "idle" => /\ d.caller # "idle" /\ d.to \in Located
                            /\ RowsOf(<<d.from, 1, c>>) # {} /\ d.last # "none"
    /\ d.callee = "idle" => d.last = "none"
    /\ d.callee = "ringing" => d.last = "180"
    /\ d.callee \in {"up", "bye"} => d.last = "200"
    /\ d.caller \notin {"idle", "calling"} => RowsOf(<<d.from, 1, c>>) # {}
    /\ d.caller \in {"up", "bye"} => d.last = "200"

(* The tables: the first row with a key was made by the request it is the key of, and what
   is filed as a response has the number of that row. *)
RowOK(k) ==
    LET d == call[k[3]]
    IN /\ d.caller # "idle"
       /\ k \in {<<d.from, 1, k[3]>>, <<d.from, 2, k[3]>>, <<d.to, 1, k[3]>>}
       /\ Filed(IF k = InviteKey(k[3]) THEN "INVITE" ELSE "BYE", k, First(k))
ArchiveOK(a) ==
    /\ Means(a.msg)
    /\ a.msg.kind \in Statuses \ {"404"} =>
        RowsOf(Key(a.msg)) # {} /\ a.tid = First(Key(a.msg)) /\ CancelFiled(a.msg)
    /\ a.msg.kind = "404" => Filed("INVITE", Key(a.msg), a.tid)
RecordOK(c) == "answered" \in sip_calls[c].stamps =>
    call[c].last = "200" \/ (call[c].cancelled /\ call[c].to \in Listing)
TablesInv ==
    /\ \A k \in Range(sip_transactions) : RowOK(k)
    /\ \A a \in sip_messages : ArchiveOK(a)
    /\ \A c \in DOMAIN sip_calls : call[c].caller # "idle" /\ RecordOK(c)
ExitInv == exited =>
    \E c \in Calls : call[c].caller # "idle" /\ call[c].from \in Phones \ Located

IInv == TypeOK /\ PlacesInv /\ WayInv /\ (\A c \in Calls : ViewOK(c, call[c])) /\ TablesInv /\ ExitInv

-----------------------------------------------------------------------------
(* What has been said, dialed or filed stays so. *)

Follows(d, e) ==
    d.caller # "idle" =>
        /\ e.caller # "idle" /\ e.from = d.from /\ e.to = d.to
        /\ d.last = "200" => e.last = "200"
        /\ d.cancelled => e.cancelled
Grows ==
    /\ \A c \in Calls : Follows(call[c], call'[c])
    /\ \/ sip_transactions' = sip_transactions
       \/ \E k \in Rows : sip_transactions' = Append(sip_transactions, k)
    /\ sip_messages \subseteq sip_messages'

(* The first row is one, and rows keep their place. *)
LEMMA FirstIsRow ==
    ASSUME TypeOK, NEW k, RowsOf(k) # {}
    PROVE  First(k) \in RowsOf(k) /\ (\A t \in RowsOf(k) : First(k) <= t) /\ First(k) \in Nat \ {0}
<1>1. RowsOf(k) \subseteq Nat \ {0}
  BY LenProperties DEF TypeOK, RowsOf
<1> QED
  BY <1>1, MinIsLeast DEF First

LEMMA LeastIsMin ==
    ASSUME NEW S, S \subseteq Nat, NEW x \in S, \A y \in S : x <= y
    PROVE  Min(S) = x
<1>1. Min(S) \in S /\ \A y \in S : Min(S) <= y
  BY MinIsLeast
<1>2. Min(S) <= x /\ x <= Min(S) /\ Min(S) \in Nat /\ x \in Nat
  BY <1>1
<1> QED
  BY <1>2

LEMMA NewRow ==
    ASSUME TypeOK, NEW k \in Rows, sip_transactions' = Append(sip_transactions, k)
    PROVE  /\ sip_transactions' \in Seq(Rows)
           /\ Range(sip_transactions') = Range(sip_transactions) \cup {k}
           /\ RowsOf(k)' = RowsOf(k) \cup {Len(sip_transactions) + 1}
           /\ \A l : l # k => RowsOf(l)' = RowsOf(l)
<1>1. sip_transactions \in Seq(Rows)
  BY DEF TypeOK
<1>2. /\ sip_transactions' \in Seq(Rows) /\ Len(sip_transactions') = Len(sip_transactions) + 1
      /\ \A i \in 1 .. Len(sip_transactions) : sip_transactions'[i] = sip_transactions[i]
      /\ sip_transactions'[Len(sip_transactions) + 1] = k
      /\ Range(sip_transactions') = Range(sip_transactions) \cup {k}
  BY <1>1, AppendProperties, RangeAppend
<1>3. /\ Len(sip_transactions) \in Nat /\ DOMAIN sip_transactions = 1 .. Len(sip_transactions)
      /\ DOMAIN sip_transactions' = 1 .. Len(sip_transactions) + 1
  BY <1>1, <1>2, LenProperties
<1> QED
  BY <1>2, <1>3 DEF RowsOf

LEMMA RowsStay ==
    ASSUME TypeOK, Grows, NEW k, RowsOf(k) # {}
    PROVE  RowsOf(k)' # {} /\ First(k)' = First(k)
<1>1. CASE sip_transactions' = sip_transactions
  BY <1>1 DEF RowsOf, First
<1>2. ASSUME NEW l \in Rows, sip_transactions' = Append(sip_transactions, l)
      PROVE  RowsOf(k)' # {} /\ First(k)' = First(k)
  <2>1. CASE k # l
    BY <1>2, <2>1, NewRow DEF First
  <2>2. CASE k = l
    <3>1. RowsOf(k)' = RowsOf(k) \cup {Len(sip_transactions) + 1}
      BY <1>2, <2>2, NewRow
    <3>2. RowsOf(k) \subseteq 1 .. Len(sip_transactions) /\ Len(sip_transactions) \in Nat
      BY LenProperties DEF TypeOK, RowsOf
    <3>3. /\ First(k) \in RowsOf(k)' /\ RowsOf(k)' \subseteq Nat
          /\ \A t \in RowsOf(k)' : First(k) <= t
      BY <3>1, <3>2, FirstIsRow
    <3>4. Min(RowsOf(k)') = First(k)
      BY <3>3, LeastIsMin
    <3> QED
      BY <3>1, <3>4 DEF First
  <2> QED
    BY <2>1, <2>2
<1> QED
  BY <1>1, <1>2 DEF Grows

LEMMA FiledStays ==
    ASSUME Grows, NEW kind, NEW k, NEW tid, Filed(kind, k, tid)
    PROVE  Filed(kind, k, tid)'
  BY DEF Filed, Grows

LEMMA MeansStays ==
    ASSUME Grows, NEW m \in Datagrams, Means(m)
    PROVE  Means(m)'
<1>1. m.call \in Calls
  BY DEF Datagrams
<1> QED
  BY <1>1 DEF Means, Grows, Follows, IsRequest

LEMMA InviteKeyStays ==
    ASSUME Grows, NEW c \in Calls, call[c].caller # "idle"
    PROVE  InviteKey(c)' = InviteKey(c)
  BY DEF InviteKey, Grows, Follows

LEMMA CancelFiledStays ==
    ASSUME TypeOK, Grows, NEW m, RowsOf(Key(m)) # {}, CancelFiled(m)
    PROVE  CancelFiled(m)'
<1>1. First(Key(m))' = First(Key(m))
  BY RowsStay DEF Key
<1> QED
  BY <1>1, FiledStays DEF CancelFiled, Key

LEMMA InUpStays ==
    ASSUME TypeOK, Grows, NEW p, NEW m, InUp(p, m)
    PROVE  InUp(p, m)'
<1>1. m \in Datagrams /\ m.call \in Calls /\ call[m.call].caller # "idle"
  BY DEF InUp, Datagrams, Means
<1>2. Means(m)'
  BY <1>1, MeansStays DEF InUp
<1>3. m.kind # "INVITE" => RowsOf(InviteKey(m.call))' # {}
  BY <1>1, InviteKeyStays, RowsStay DEF InUp, InviteKey, RowsOf
<1>4. ~IsRequest(m) => RowsOf(Key(m))' # {} /\ CancelFiled(m)'
  BY RowsStay, CancelFiledStays DEF InUp, Key
<1> QED
  BY <1>2, <1>3, <1>4 DEF InUp, IsRequest, Key, Datagrams

LEMMA InDownStays ==
    ASSUME TypeOK, Grows, NEW p, NEW m, InDown(p, m)
    PROVE  InDown(p, m)'
<1>1. m \in Datagrams /\ m.call \in Calls /\ call[m.call].caller # "idle"
  BY DEF InDown, Datagrams, Means
<1>2. Means(m)'
  BY <1>1, MeansStays DEF InDown
<1>3. RowsOf(InviteKey(m.call))' # {}
  BY <1>1, InviteKeyStays, RowsStay DEF InDown, InviteKey, RowsOf
<1>4. RowsOf(Key(m))' # {} /\ CancelFiled(m)'
  BY RowsStay, CancelFiledStays DEF InDown, Key
<1> QED
  BY <1>2, <1>3, <1>4 DEF InDown, IsRequest, Key, Datagrams

LEMMA RowStays ==
    ASSUME TypeOK, Grows, NEW k \in Rows, RowsOf(k) # {}, RowOK(k)
    PROVE  RowOK(k)'
<1>1. k[3] \in Calls /\ call[k[3]].caller # "idle"
  BY DEF Rows, RowOK
<1>2. InviteKey(k[3])' = InviteKey(k[3])
  BY <1>1, InviteKeyStays
<1>3. First(k)' = First(k)
  BY RowsStay
<1>4. Filed(IF k = InviteKey(k[3]) THEN "INVITE" ELSE "BYE", k, First(k))'
  BY <1>2, <1>3, FiledStays DEF RowOK
<1> QED
  BY <1>1, <1>4 DEF RowOK, Grows, Follows

LEMMA ArchiveStays ==
    ASSUME TypeOK, Grows, NEW a \in sip_messages, ArchiveOK(a)
    PROVE  ArchiveOK(a)'
<1> DEFINE m == a.msg
<1>1. m \in Datagrams
  BY DEF TypeOK
<1>2. Means(m)'
  BY <1>1, MeansStays DEF ArchiveOK
<1>3. m.kind \in Statuses \ {"404"} =>
        RowsOf(Key(m))' # {} /\ a.tid = First(Key(m))' /\ CancelFiled(m)'
  BY RowsStay, CancelFiledStays DEF ArchiveOK, Key
<1>4. m.kind = "404" => Filed("INVITE", Key(m), a.tid)'
  BY FiledStays DEF ArchiveOK
<1> QED
  BY <1>2, <1>3, <1>4 DEF ArchiveOK, Key

LEMMA RecordStays ==
    ASSUME Grows, NEW c \in Calls, call[c].caller # "idle", RecordOK(c),
           "answered" \in sip_calls'[c].stamps => "answered" \in sip_calls[c].stamps
    PROVE  call'[c].caller # "idle" /\ RecordOK(c)'
  BY DEF Grows, Follows, RecordOK

LEMMA ExitStays ==
    ASSUME TypeOK, Grows, ExitInv, exited' = exited
    PROVE  ExitInv'
  BY DEF ExitInv, Grows, Follows

-----------------------------------------------------------------------------
(* The phones. *)

LEMMA OneSent ==
    ASSUME NEW S, NEW x \in S
    PROVE  <<x>> \in Seq(S) /\ Range(<<x>>) = {x}
  BY DEF Range

LEMMA TwoSent ==
    ASSUME NEW S, NEW x \in S, NEW y \in S
    PROVE  <<x, y>> \in Seq(S) /\ Range(<<x, y>>) = {x, y}
  BY DEF Range

LEMMA NoneSent ==
    ASSUME NEW S
    PROVE  << >> \in Seq(S) /\ Range(<< >>) = {}
  BY DEF Range

(* Whatever a phone sends is in order if the call stays in order. *)
LEMMA PhoneStep ==
    ASSUME IInv, UNCHANGED <<places, tables>>, NEW p \in Phones,
           NEW c \in Calls, NEW e \in Views, call' = [call EXCEPT ![c] = e],
           Follows(call[c], e), ViewOK(c, e),
           NEW msgs \in Seq(Datagrams), up' = Sends(up, p, msgs),
           \A m \in Range(msgs) : InUp(p, m)',
           down' \in [Phones -> Seq(Datagrams)],
           \A q \in Phones : Range(down'[q]) \subseteq Range(down[q])
    PROVE  IInv'
<1>1. /\ call' \in [Calls -> Views] /\ call'[c] = e
      /\ \A b \in Calls \ {c} : call'[b] = call[b]
  BY DEF IInv, TypeOK
<1>2. Grows
  BY <1>1 DEF Grows, Follows, tables
<1>3. /\ up' \in [Phones -> Seq(Datagrams)]
      /\ \A q \in Phones : Range(up'[q]) = IF q = p THEN Range(up[q]) \cup Range(msgs)
                                           ELSE Range(up[q])
  <2>1. up[p] \in Seq(Datagrams)
    BY DEF IInv, TypeOK
  <2>2. up[p] \o msgs \in Seq(Datagrams) /\ Range(up[p] \o msgs) = Range(up[p]) \cup Range(msgs)
    BY <2>1, ConcatProperties, RangeConcatenation
  <2> QED
    BY <2>2 DEF Sends, IInv, TypeOK
<1>4. TypeOK' /\ PlacesInv'
  BY <1>1, <1>3 DEF IInv, TypeOK, PlacesInv, tables, places
<1>5. WayInv'
  <2>1. ASSUME NEW q \in Phones, NEW m, m \in Range(up'[q])
        PROVE  InUp(q, m)'
    <3>1. CASE m \in Range(up[q])
      BY <1>2, <3>1, InUpStays DEF IInv, WayInv
    <3>2. CASE m \notin Range(up[q])
      BY <1>3, <2>1, <3>2
    <3> QED
      BY <3>1, <3>2
  <2>2. ASSUME NEW q \in Phones, NEW m, m \in Range(down'[q])
        PROVE  InDown(q, m)'
    <3>1. m \in Range(down[q])
      BY <2>2
    <3> QED
      BY <1>2, <3>1, InDownStays DEF IInv, WayInv
  <2> QED
    BY <2>1, <2>2 DEF WayInv
<1>6. ASSUME NEW b \in Calls
      PROVE  ViewOK(b, call[b])'
  <2>1. \A k : RowsOf(k)' = RowsOf(k)
    BY DEF RowsOf, tables
  <2>2. ViewOK(b, call'[b])
    BY <1>1 DEF IInv
  <2> QED
    BY <2>1, <2>2 DEF ViewOK
<1>7. TablesInv'
  <2>1. ASSUME NEW k \in Range(sip_transactions)
        PROVE  RowOK(k)'
    <3>1. k \in Rows /\ RowsOf(k) # {}
      BY RangeOfSeq DEF IInv, TypeOK, Range, RowsOf
    <3> QED
      BY <1>2, <3>1, RowStays DEF IInv, TablesInv
  <2>2. \A a \in sip_messages : ArchiveOK(a)'
    BY <1>2, ArchiveStays DEF IInv, TablesInv
  <2>3. \A b \in DOMAIN sip_calls : call'[b].caller # "idle" /\ RecordOK(b)'
    BY <1>2, RecordStays DEF IInv, TypeOK, TablesInv, tables
  <2> QED
    BY <2>1, <2>2, <2>3 DEF TablesInv, tables
<1>8. ExitInv'
  BY <1>2, ExitStays DEF IInv, tables
<1> QED
  BY <1>4, <1>5, <1>6, <1>7, <1>8 DEF IInv

(* What it sent before the step changed the call is still right. *)
LEMMA SameRows ==
    ASSUME IInv, UNCHANGED tables, NEW c \in Calls, NEW e \in Views,
           call' = [call EXCEPT ![c] = e], Follows(call[c], e), NEW p, NEW m, InUp(p, m)
    PROVE  InUp(p, m)'
<1>1. Grows
  BY DEF Grows, Follows, tables, IInv, TypeOK
<1> QED
  BY <1>1, InUpStays DEF IInv

(* The requests of a call that is under way, as long as they are justified. *)
LEMMA CallersRequests ==
    ASSUME IInv, NEW c \in Calls, call[c].caller # "idle", RowsOf(<<call[c].from, 1, c>>) # {}
    PROVE  /\ InUp(call[c].from, Ack(c))
           /\ call[c].last = "200" => InUp(call[c].from, CallerBye(c))
  BY DEF IInv, ViewOK, InUp, Datagrams, Methods, Statuses, Means, IsRequest, InviteKey,
         Ack, CallerBye, Request

(* What a phone says to a request. *)
LEMMA Response ==
    ASSUME IInv, NEW p \in Phones, NEW m, InDown(p, m), IsRequest(m), NEW kind \in Statuses \ {"404"}, NEW allow \in BOOLEAN,
           m.kind # "ACK", m.kind = "INVITE" /\ kind = "200" => call[m.call].last = "200",
           allow => p \in Listing
    PROVE  InUp(p, Status(kind, m, allow))
<1> DEFINE s == Status(kind, m, allow)
<1>1. /\ m \in Datagrams /\ Means(m) /\ m.of = m.kind /\ m.uri = p /\ p \in Located
      /\ RowsOf(InviteKey(m.call)) # {} /\ RowsOf(Key(m)) # {} /\ CancelFiled(m)
  BY DEF InDown, Means
<1>2. /\ s \in Datagrams /\ s.kind = kind /\ s.of = m.of /\ s.call = m.call /\ s.from = m.from
      /\ s.uri = p /\ s.cseq = m.cseq /\ s.allow = allow /\ ~IsRequest(s)
  BY <1>1 DEF Status, Datagrams, Methods, Statuses, IsRequest
<1> HIDE DEF s
<1>3. Means(s)
  BY <1>1, <1>2 DEF Means, Statuses
<1>4. RowsOf(Key(s)) # {} /\ CancelFiled(s)
  BY <1>1, <1>2 DEF Key, CancelFiled
<1> QED
  BY <1>1, <1>2, <1>3, <1>4 DEF InUp, s

(* What the caller makes of a datagram. *)
LEMMA CallerTook ==
    ASSUME IInv, NEW p \in Phones, NEW m, InDown(p, m), p = call[m.call].from
    PROVE  LET took == CallerTakes(m.call, m)
               d == call[m.call]
           IN /\ took[1] \in Views /\ Follows(d, took[1]) /\ ViewOK(m.call, took[1])
              /\ took[2] \in Seq(Datagrams) /\ \A x \in Range(took[2]) : InUp(p, x)
<1> DEFINE c == m.call
           d == call[c]
           took == CallerTakes(c, m)
           Good(e, msgs) == /\ e \in Views /\ Follows(d, e) /\ ViewOK(c, e)
                            /\ msgs \in Seq(Datagrams) /\ \A x \in Range(msgs) : InUp(p, x)
<1>1. /\ m \in Datagrams /\ c \in Calls /\ d \in Views /\ d.caller # "idle"
      /\ Means(m) /\ RowsOf(InviteKey(c)) # {} /\ ViewOK(c, d)
      /\ RowsOf(<<d.from, 1, c>>) # {}
  BY DEF InDown, Datagrams, Means, IInv, TypeOK, InviteKey
<1>2. /\ InUp(p, Ack(c)) /\ Ack(c) \in Datagrams
      /\ d.last = "200" => InUp(p, CallerBye(c)) /\ CallerBye(c) \in Datagrams
  BY <1>1, CallersRequests DEF InUp
<1>3. d.from # d.to
  BY <1>1 DEF ViewOK
<1>4. Good(d, << >>) /\ Good(d, <<Ack(c)>>)
  <2>1. << >> \in Seq(Datagrams) /\ Range(<< >>) = {}
    BY NoneSent
  <2>2. <<Ack(c)>> \in Seq(Datagrams) /\ Range(<<Ack(c)>>) = {Ack(c)}
    BY <1>2, OneSent
  <2>3. Follows(d, d)
    BY DEF Follows
  <2>4. \A x \in Range(<<Ack(c)>>) : InUp(p, x)
    BY <1>2, <2>2
  <2> HIDE DEF c, d
  <2> QED
    BY <1>1, <2>1, <2>2, <2>3, <2>4
<1>5. CASE m.kind = "180"
  <2>1. took = <<IF d.caller = "calling" THEN [d EXCEPT !.caller = "proceeding"] ELSE d, << >>>>
    BY <1>5 DEF CallerTakes, Final
  <2>2. Good([d EXCEPT !.caller = "proceeding"], << >>) \/ d.caller # "calling"
    <3>1. CASE d.caller = "calling"
      BY <1>1, <1>4, <3>1 DEF Views, Follows, ViewOK
    <3> QED
      BY <3>1
  <2> QED
    BY <1>4, <2>1, <2>2
<1>6. CASE m.kind = "200" /\ m.of = "INVITE"
  <2>1. d.last = "200"
    BY <1>1, <1>6 DEF Means
  <2>2. took = IF d.caller \notin {"calling", "proceeding"} THEN <<d, <<Ack(c)>>>>
               ELSE IF d.cancelled
               THEN <<[d EXCEPT !.caller = "bye", !.outcome = "completed"], <<Ack(c), CallerBye(c)>>>>
               ELSE <<[d EXCEPT !.caller = "up", !.outcome = "completed"], <<Ack(c)>>>>
    BY <1>6 DEF CallerTakes, Final
  <2>3. \A s \in {"bye", "up"} :
            /\ [d EXCEPT !.caller = s, !.outcome = "completed"] \in Views
            /\ Follows(d, [d EXCEPT !.caller = s, !.outcome = "completed"])
            /\ ViewOK(c, [d EXCEPT !.caller = s, !.outcome = "completed"])
    BY <1>1, <2>1 DEF Views, Follows, ViewOK
  <2>4. /\ <<Ack(c), CallerBye(c)>> \in Seq(Datagrams)
        /\ Range(<<Ack(c), CallerBye(c)>>) = {Ack(c), CallerBye(c)}
    BY <1>2, <2>1, TwoSent
  <2>5. Good([d EXCEPT !.caller = "bye", !.outcome = "completed"], <<Ack(c), CallerBye(c)>>)
    BY <1>2, <2>1, <2>3, <2>4
  <2>6. Good([d EXCEPT !.caller = "up", !.outcome = "completed"], <<Ack(c)>>)
    BY <1>4, <2>3
  <2> QED
    BY <1>4, <2>2, <2>5, <2>6
<1>7. CASE m.kind \in DOMAIN Final
  <2>1. m.kind \in {"404", "487", "603"} /\ Final[m.kind] \in {"failed", "cancelled", "declined"}
    BY <1>7 DEF Final
  <2>2. took = <<IF d.caller \notin {"calling", "proceeding"} THEN d
                 ELSE [d EXCEPT !.caller = "over", !.outcome = Final[m.kind]], <<Ack(c)>>>>
    BY <1>7, <2>1 DEF CallerTakes
  <2>3. \A o \in {"failed", "cancelled", "declined"} :
            LET e == [d EXCEPT !.caller = "over", !.outcome = o]
            IN e \in Views /\ Follows(d, e) /\ ViewOK(c, e)
    BY <1>1 DEF Views, Follows, ViewOK
  <2>4. Good([d EXCEPT !.caller = "over", !.outcome = Final[m.kind]], <<Ack(c)>>)
    BY <1>4, <2>1, <2>3
  <2> QED
    BY <1>4, <2>2, <2>4
<1>8. CASE m.kind = "200" /\ m.of = "BYE"
  <2>1. took = <<[d EXCEPT !.caller = "over"], << >>>>
    BY <1>8 DEF CallerTakes, Final
  <2>2. Good([d EXCEPT !.caller = "over"], << >>)
    BY <1>1, <1>4 DEF Views, Follows, ViewOK
  <2> QED
    BY <2>1, <2>2
<1>9. CASE m.kind = "BYE"
  <2> DEFINE s == Status("200", m, d.from \in Listing)
  <2>1. took = <<[d EXCEPT !.caller = IF @ = "up" THEN "over" ELSE @], <<s>>>>
    BY <1>9 DEF CallerTakes, Final
  <2>3. InUp(p, s)
    <3>1. (d.from \in Listing) \in BOOLEAN /\ (d.from \in Listing => p \in Listing)
      OBVIOUS
    <3>2. IsRequest(m) /\ "200" \in Statuses \ {"404"}
      BY <1>9 DEF IsRequest, Methods, Statuses
    <3> QED
      BY <1>9, <3>1, <3>2, Response
  <2>4. <<s>> \in Seq(Datagrams) /\ Range(<<s>>) = {s}
    BY <2>3, OneSent DEF InUp
  <2>5. Good([d EXCEPT !.caller = IF @ = "up" THEN "over" ELSE @], <<s>>)
    <3>1. LET e == [d EXCEPT !.caller = IF @ = "up" THEN "over" ELSE @]
          IN e \in Views /\ Follows(d, e) /\ ViewOK(c, e)
      BY <1>1 DEF Views, Follows, ViewOK
    <3> HIDE DEF s
    <3> QED
      BY <2>3, <2>4, <3>1
  <2> QED
    BY <2>1, <2>5
<1>10. CASE /\ m.kind # "180" /\ ~(m.kind = "200" /\ m.of = "INVITE") /\ m.kind \notin DOMAIN Final
            /\ ~(m.kind = "200" /\ m.of = "BYE") /\ m.kind # "BYE"
  <2>1. took = <<d, << >>>>
    BY <1>10 DEF CallerTakes
  <2> QED
    BY <1>4, <2>1
<1> QED
  BY <1>5, <1>6, <1>7, <1>8, <1>9, <1>10

(* Final responses to the INVITE, when it was received. *)
LEMMA InviteResponse ==
    ASSUME IInv, NEW c \in Calls, call[c].callee # "idle",
           NEW kind \in Statuses \ {"404", "200"}
    PROVE  InUp(call[c].to, Status(kind, Invite(c), FALSE))
<1> DEFINE s == Status(kind, Invite(c), FALSE)
           d == call[c]
<1>1. /\ d \in Views /\ d.caller # "idle" /\ d.to \in Located /\ RowsOf(<<d.from, 1, c>>) # {}
      /\ d.from \in Phones /\ d.to \in Phones /\ d.from # d.to
  BY DEF IInv, TypeOK, ViewOK
<1>2. /\ s \in Datagrams /\ s.kind = kind /\ s.of = "INVITE" /\ s.call = c /\ s.from = d.from
      /\ s.uri = d.to /\ s.cseq = 1 /\ s.allow = FALSE /\ ~IsRequest(s)
  BY <1>1 DEF Status, Invite, Request, Datagrams, Methods, Statuses, IsRequest
<1> HIDE DEF s
<1>3. Means(s)
  BY <1>1, <1>2 DEF Means, Statuses
<1>4. RowsOf(Key(s)) # {} /\ CancelFiled(s)
  BY <1>1, <1>2 DEF Key, CancelFiled
<1> QED
  BY <1>1, <1>2, <1>3, <1>4 DEF InUp, InviteKey, s

(* What the callee makes of a datagram. *)
LEMMA CalleeTook ==
    ASSUME IInv, NEW p \in Phones, NEW m, InDown(p, m), p # call[m.call].from,
           p = call[m.call].to
    PROVE  LET took == CalleeTakes(m.call, m)
               d == call[m.call]
           IN /\ took[1] \in Views /\ Follows(d, took[1]) /\ ViewOK(m.call, took[1])
              /\ took[2] \in Seq(Datagrams) /\ \A x \in Range(took[2]) : InUp(p, x)
<1> DEFINE c == m.call
           d == call[c]
           allow == d.to \in Listing
           took == CalleeTakes(c, m)
           Good(e, msgs) == /\ e \in Views /\ Follows(d, e) /\ ViewOK(c, e)
                            /\ msgs \in Seq(Datagrams) /\ \A x \in Range(msgs) : InUp(p, x)
<1> SUFFICES Good(took[1], took[2])
  OBVIOUS
<1>1. /\ m \in Datagrams /\ c \in Calls /\ d \in Views /\ d.caller # "idle"
      /\ ViewOK(c, d) /\ RowsOf(<<d.from, 1, c>>) # {}
      /\ IsRequest(m) => p \in Located
  BY DEF InDown, Datagrams, Means, IInv, TypeOK, InviteKey
<1>2. Good(d, << >>)
  <2>1. << >> \in Seq(Datagrams) /\ Range(<< >>) = {}
    BY NoneSent
  <2>2. Follows(d, d)
    BY DEF Follows
  <2> QED
    BY <1>1, <2>1, <2>2
<1>3. allow \in BOOLEAN /\ (allow => p \in Listing)
  OBVIOUS
<1>4. ASSUME NEW kind \in Statuses \ {"404"}, NEW list \in BOOLEAN, list => p \in Listing,
             IsRequest(m), m.kind # "ACK", m.kind = "INVITE" /\ kind = "200" => d.last = "200"
      PROVE  /\ InUp(p, Status(kind, m, list)) /\ Status(kind, m, list) \in Datagrams
             /\ <<Status(kind, m, list)>> \in Seq(Datagrams)
             /\ Range(<<Status(kind, m, list)>>) = {Status(kind, m, list)}
  <2>1. InUp(p, Status(kind, m, list))
    BY <1>4, Response
  <2>2. Status(kind, m, list) \in Datagrams
    BY <2>1 DEF InUp
  <2> QED
    BY <2>1, <2>2, OneSent
<1>5. CASE m.kind = "INVITE"
  <2>0. IsRequest(m)
    BY <1>5 DEF IsRequest, Methods
  <2>1. CASE d.callee = "idle"
    <3> DEFINE e == [d EXCEPT !.callee = "ringing", !.last = "180"]
               s == Status("180", m, FALSE)
    <3>1. took = <<e, <<s>>>>
      BY <1>5, <2>1 DEF CalleeTakes
    <3>2. e \in Views /\ Follows(d, e) /\ ViewOK(c, e)
      BY <1>1, <2>0, <2>1 DEF Views, Follows, ViewOK
    <3>3. "180" \in Statuses \ {"404"}
      BY DEF Statuses
    <3>4. Good(e, <<s>>)
      BY <1>4, <1>5, <2>0, <3>2, <3>3
    <3> HIDE DEF e, s, took
    <3> QED
      BY <3>1, <3>4
  <2>2. CASE d.callee # "idle" /\ d.acked
    <3>1. took = <<d, << >>>>
      BY <1>5, <2>2 DEF CalleeTakes
    <3> QED
      BY <1>2, <3>1
  <2>3. CASE d.callee # "idle" /\ ~d.acked
    <3> DEFINE list == d.last = "200" /\ allow
    <3>1. took = <<d, <<Status(d.last, m, list)>>>>
      BY <1>5, <2>3 DEF CalleeTakes
    <3>2. d.last \in Statuses \ {"404"}
      BY <1>1, <2>3 DEF ViewOK, Views, Statuses
    <3>3. list \in BOOLEAN /\ (list => p \in Listing)
      BY <1>3
    <3> HIDE DEF list
    <3>4. Good(d, <<Status(d.last, m, list)>>)
      BY <1>2, <1>4, <1>5, <2>0, <3>2, <3>3
    <3> QED
      BY <3>1, <3>4
  <2> QED
    BY <2>1, <2>2, <2>3
<1>6. CASE m.kind = "CANCEL"
  <2>0. IsRequest(m) /\ "200" \in Statuses \ {"404"} /\ "487" \in Statuses \ {"404", "200"}
    BY <1>6 DEF IsRequest, Methods, Statuses
  <2> DEFINE s == Status("200", m, allow)
             t == Status("487", Invite(c), FALSE)
  <2>1. InUp(p, s) /\ s \in Datagrams /\ <<s>> \in Seq(Datagrams) /\ Range(<<s>>) = {s}
    <3> HIDE DEF allow, d
    <3> QED
      BY <1>3, <1>4, <1>6, <2>0
  <2>2. CASE d.callee = "ringing"
    <3>1. took = <<[d EXCEPT !.callee = "over", !.last = "487"], <<s, t>>>>
      BY <1>6, <2>2 DEF CalleeTakes
    <3>2. LET e == [d EXCEPT !.callee = "over", !.last = "487"]
          IN e \in Views /\ Follows(d, e) /\ ViewOK(c, e)
      BY <1>1, <2>2 DEF Views, Follows, ViewOK
    <3>3. InUp(p, t) /\ t \in Datagrams
      BY <1>1, <2>0, <2>2, InviteResponse DEF InUp
    <3> HIDE DEF s, t
    <3>4. <<s, t>> \in Seq(Datagrams) /\ Range(<<s, t>>) = {s, t}
      BY <2>1, <3>3, TwoSent
    <3>5. Good([d EXCEPT !.callee = "over", !.last = "487"], <<s, t>>)
      BY <2>1, <3>2, <3>3, <3>4
    <3> QED
      BY <3>1, <3>5
  <2>3. CASE d.callee # "ringing"
    <3>1. took = <<d, <<s>>>>
      BY <1>6, <2>3 DEF CalleeTakes
    <3> HIDE DEF s
    <3> QED
      BY <1>2, <2>1, <3>1
  <2> QED
    BY <2>2, <2>3
<1>7. CASE m.kind = "ACK"
  <2>1. took = <<[d EXCEPT !.acked = TRUE], << >>>>
    BY <1>7 DEF CalleeTakes
  <2>2. Good([d EXCEPT !.acked = TRUE], << >>)
    BY <1>1, <1>2 DEF Views, Follows, ViewOK
  <2> QED
    BY <2>1, <2>2
<1>8. CASE m.kind = "BYE"
  <2> DEFINE s == Status("200", m, allow)
  <2>0. IsRequest(m) /\ "200" \in Statuses \ {"404"}
    BY <1>8 DEF IsRequest, Methods, Statuses
  <2>1. took = <<[d EXCEPT !.callee = IF @ = "up" THEN "over" ELSE @], <<s>>>>
    BY <1>8 DEF CalleeTakes
  <2>2. InUp(p, s) /\ s \in Datagrams /\ <<s>> \in Seq(Datagrams) /\ Range(<<s>>) = {s}
    <3> HIDE DEF allow, d
    <3> QED
      BY <1>3, <1>4, <1>8, <2>0
  <2> HIDE DEF s
  <2>3. LET e == [d EXCEPT !.callee = IF @ = "up" THEN "over" ELSE @]
        IN e \in Views /\ Follows(d, e) /\ ViewOK(c, e)
    BY <1>1 DEF Views, Follows, ViewOK
  <2>4. Good([d EXCEPT !.callee = IF @ = "up" THEN "over" ELSE @], <<s>>)
    BY <2>2, <2>3
  <2> QED
    BY <2>1, <2>4
<1>9. CASE m.kind = "200" /\ m.of = "BYE"
  <2>1. took = <<[d EXCEPT !.callee = "over"], << >>>>
    BY <1>9 DEF CalleeTakes
  <2>2. d.last = "200" /\ d.callee # "idle"
    BY <1>1, <1>9 DEF InDown, Means, ViewOK
  <2>3. Good([d EXCEPT !.callee = "over"], << >>)
    BY <1>1, <1>2, <2>2 DEF Views, Follows, ViewOK
  <2> QED
    BY <2>1, <2>3
<1>10. CASE /\ m.kind \notin {"INVITE", "CANCEL", "ACK", "BYE"}
            /\ ~(m.kind = "200" /\ m.of = "BYE")
  <2>1. took = <<d, << >>>>
    BY <1>10 DEF CalleeTakes
  <2> QED
    BY <1>2, <2>1
<1> QED
  BY <1>5, <1>6, <1>7, <1>8, <1>9, <1>10

LEMMA PhoneInv ==
    ASSUME IInv, NEW p \in Phones, Phone(p)
    PROVE  IInv'
<1>1. PICK i \in DOMAIN down[p] :
        LET m == down[p][i]
            took == IF p = call[m.call].from THEN CallerTakes(m.call, m)
                    ELSE IF p = call[m.call].to THEN CalleeTakes(m.call, m)
                    ELSE <<call[m.call], << >>>>
        IN /\ down' = [down EXCEPT ![p] = RemoveAt(@, i)]
           /\ call' = [call EXCEPT ![m.call] = took[1]]
           /\ up' = Sends(up, p, took[2])
           /\ UNCHANGED <<places, tables, dups>>
  BY DEF Phone
<1> DEFINE m == down[p][i]
           c == m.call
           took == IF p = call[m.call].from THEN CallerTakes(m.call, m)
                   ELSE IF p = call[m.call].to THEN CalleeTakes(m.call, m)
                   ELSE <<call[m.call], << >>>>
<1>2. m \in Range(down[p])
  BY DEF Range
<1>3. InDown(p, m)
  BY <1>2 DEF IInv, WayInv
<1>4. c \in Calls /\ call[c] \in Views /\ ViewOK(c, call[c])
  BY <1>3 DEF InDown, Datagrams, IInv, TypeOK
<1>5. /\ took[1] \in Views /\ Follows(call[c], took[1]) /\ ViewOK(c, took[1])
      /\ took[2] \in Seq(Datagrams) /\ \A x \in Range(took[2]) : InUp(p, x)
  <2> HIDE DEF m
  <2>1. CASE p = call[c].from
    <3>1. took = CallerTakes(c, m)
      BY <2>1
    <3> HIDE DEF took
    <3> QED
      BY <1>3, <2>1, <3>1, CallerTook
  <2>2. CASE p # call[c].from /\ p = call[c].to
    <3>1. took = CalleeTakes(c, m)
      BY <2>2
    <3> HIDE DEF took
    <3> QED
      BY <1>3, <2>2, <3>1, CalleeTook
  <2>3. CASE p # call[c].from /\ p # call[c].to
    <3>1. took = <<call[c], << >>>>
      BY <2>3
    <3>2. Follows(call[c], call[c])
      BY DEF Follows
    <3>3. << >> \in Seq(Datagrams) /\ Range(<< >>) = {}
      BY NoneSent
    <3>4. took[1] = call[c] /\ took[2] = << >>
      BY <3>1
    <3> HIDE DEF took, c
    <3> QED
      BY <1>4, <3>2, <3>3, <3>4
  <2> QED
    BY <2>1, <2>2, <2>3
<1>6. /\ down' = [down EXCEPT ![p] = RemoveAt(@, i)] /\ call' = [call EXCEPT ![c] = took[1]]
      /\ up' = Sends(up, p, took[2]) /\ UNCHANGED <<places, tables>>
  BY <1>1
<1>7. /\ down' \in [Phones -> Seq(Datagrams)]
      /\ \A q \in Phones : Range(down'[q]) \subseteq Range(down[q])
  <2>1. RemoveAt(down[p], i) \in Seq(Datagrams) /\ Range(RemoveAt(down[p], i)) \subseteq Range(down[p])
    BY RangeRemoveAt DEF IInv, TypeOK
  <2> HIDE DEF m, took
  <2> QED
    BY <1>6, <2>1 DEF IInv, TypeOK
<1> HIDE DEF c, took
<1>8. \A x \in Range(took[2]) : InUp(p, x)'
  BY <1>4, <1>5, <1>6, SameRows
<1> QED
  BY <1>4, <1>5, <1>6, <1>7, <1>8, PhoneStep

LEMMA DialInv ==
    ASSUME IInv, NEW c \in Calls, NEW p \in Phones, NEW q \in Phones, Dial(c, p, q)
    PROVE  IInv'
<1> DEFINE m == Request("INVITE", c, p, q, 1)
           e == [call[c] EXCEPT !.from = p, !.to = q, !.caller = "calling"]
<1>1. /\ call[c].caller = "idle" /\ p # q /\ call' = [call EXCEPT ![c] = e]
      /\ up' = Sends(up, p, <<m>>) /\ UNCHANGED <<places, tables, down>>
  BY DEF Dial, Keeps, IInv, TypeOK
<1>2. call[c] \in Views /\ ViewOK(c, call[c])
  BY DEF IInv, TypeOK
<1>3. e \in Views /\ Follows(call[c], e) /\ ViewOK(c, e)
  BY <1>1, <1>2 DEF Views, Follows, ViewOK
<1>4. m \in Datagrams
  BY DEF Request, Datagrams, Methods
<1>5. InUp(p, m)'
  <2>1. call'[c] = e /\ e.from = p /\ e.to = q /\ e.caller = "calling"
    BY <1>1, <1>2 DEF IInv, TypeOK, Views
  <2> HIDE DEF e
  <2>2. /\ m.kind = "INVITE" /\ m.of = "INVITE" /\ m.call = c /\ m.from = p /\ m.uri = q
        /\ m.cseq = 1 /\ m.allow = FALSE
    BY DEF Request
  <2> HIDE DEF m
  <2> QED
    BY <1>4, <2>1, <2>2 DEF InUp, Means, IsRequest, Methods, Statuses, Datagrams
<1>6. <<m>> \in Seq(Datagrams) /\ Range(<<m>>) = {m}
  BY <1>4, OneSent
<1> HIDE DEF m, e
<1>7. down' \in [Phones -> Seq(Datagrams)] /\ \A r \in Phones : Range(down'[r]) \subseteq Range(down[r])
  BY <1>1 DEF IInv, TypeOK
<1> QED
  BY <1>1, <1>3, <1>5, <1>6, <1>7, PhoneStep

(* A step of a call that sends one datagram. *)
LEMMA OneStep ==
    ASSUME IInv, UNCHANGED <<places, tables, down>>, NEW c \in Calls, NEW e \in Views,
           call' = [call EXCEPT ![c] = e], Follows(call[c], e), ViewOK(c, e),
           NEW p \in Phones, NEW m \in Datagrams, InUp(p, m)', up' = Sends(up, p, <<m>>)
    PROVE  IInv'
<1>1. <<m>> \in Seq(Datagrams) /\ Range(<<m>>) = {m}
  BY OneSent
<1>2. down' \in [Phones -> Seq(Datagrams)] /\ \A r \in Phones : Range(down'[r]) \subseteq Range(down[r])
  BY DEF IInv, TypeOK
<1> QED
  BY <1>1, <1>2, PhoneStep

LEMMA RedialInv ==
    ASSUME IInv, NEW c \in Calls, Redial(c)
    PROVE  IInv'
<1>1. PICK d : d = call[c]
  OBVIOUS
<1>2. /\ d.caller = "calling" /\ call' = call /\ up' = Sends(up, d.from, <<Invite(c)>>)
      /\ UNCHANGED <<places, tables, down>>
  BY <1>1 DEF Redial
<1>3. d \in Views /\ ViewOK(c, d) /\ d.from \in Phones /\ d.to \in Phones /\ d.from # d.to
  BY <1>1, <1>2 DEF IInv, TypeOK, ViewOK
<1>4. PICK m \in Datagrams : m = Invite(c)
  BY <1>1, <1>3 DEF Invite, Request, Datagrams, Methods
<1>5. InUp(d.from, m)
  BY <1>1, <1>2, <1>3, <1>4 DEF Invite, Request, Methods, InUp, Means, IsRequest, Statuses
<1>6. call' = [call EXCEPT ![c] = d] /\ Follows(call[c], d)
  BY <1>1, <1>2 DEF IInv, TypeOK, Follows
<1>7. InUp(d.from, m)'
  BY <1>2, <1>3, <1>5, <1>6, SameRows
<1> QED
  BY <1>2, <1>3, <1>4, <1>6, <1>7, OneStep

LEMMA GiveUpInv ==
    ASSUME IInv, NEW c \in Calls, GiveUp(c)
    PROVE  IInv'
<1>1. PICK d : d = call[c]
  OBVIOUS
<1>2. PICK e : e = [d EXCEPT !.cancelled = TRUE]
  OBVIOUS
<1>3. /\ d.caller = "proceeding" /\ call' = [call EXCEPT ![c] = e]
      /\ up' = Sends(up, d.from, <<Cancel(c)>>) /\ UNCHANGED <<places, tables, down>>
  BY <1>1, <1>2 DEF GiveUp, Keeps, IInv, TypeOK
<1>4. d \in Views /\ ViewOK(c, d) /\ d.from \in Phones /\ d.to \in Phones /\ d.from # d.to
  BY <1>1, <1>3 DEF IInv, TypeOK, ViewOK
<1>5. e \in Views /\ Follows(d, e) /\ ViewOK(c, e)
  BY <1>2, <1>4 DEF Views, Follows, ViewOK
<1>6. PICK m \in Datagrams : m = Request("CANCEL", c, d.from, d.to, 1)
  BY <1>4 DEF Request, Datagrams, Methods
<1>7. InUp(d.from, m)'
  <2>1. call'[c] = e /\ e.from = d.from /\ e.to = d.to /\ e.caller = "proceeding" /\ e.cancelled
    BY <1>2, <1>3, <1>4 DEF IInv, TypeOK, Views
  <2>2. RowsOf(<<d.from, 1, c>>)' # {}
    BY <1>3, <1>4 DEF ViewOK, RowsOf, tables
  <2> QED
    BY <1>6, <2>1, <2>2 DEF Request, Methods, InUp, Means, IsRequest, Statuses, InviteKey
<1>8. m = Cancel(c)
  BY <1>1, <1>6 DEF Cancel
<1> QED
  BY <1>1, <1>3, <1>4, <1>5, <1>7, <1>8, OneStep

LEMMA AnswerInv ==
    ASSUME IInv, NEW c \in Calls, Answer(c)
    PROVE  IInv'
<1>1. PICK d : d = call[c]
  OBVIOUS
<1>2. PICK e : e = [d EXCEPT !.callee = "up", !.last = "200"]
  OBVIOUS
<1>3. /\ d.callee = "ringing" /\ call' = [call EXCEPT ![c] = e]
      /\ up' = Sends(up, d.to, <<Status("200", Invite(c), d.to \in Listing)>>)
      /\ UNCHANGED <<places, tables, down>>
  BY <1>1, <1>2 DEF Answer, Keeps, IInv, TypeOK
<1>4. d \in Views /\ ViewOK(c, d) /\ d.from \in Phones /\ d.to \in Phones /\ d.from # d.to
  BY <1>1, <1>3 DEF IInv, TypeOK, ViewOK
<1>5. e \in Views /\ Follows(d, e) /\ ViewOK(c, e)
  BY <1>2, <1>3, <1>4 DEF Views, Follows, ViewOK
<1>6. PICK list \in BOOLEAN : list = (d.to \in Listing)
  <2>1. CASE d.to \in Listing
    <3>1. TRUE = (d.to \in Listing)
      BY <2>1
    <3> QED
      BY <3>1
  <2>2. CASE d.to \notin Listing
    <3>1. FALSE = (d.to \in Listing)
      BY <2>2
    <3> QED
      BY <3>1
  <2> QED
    BY <2>1, <2>2
<1>7. PICK m \in Datagrams : m = Status("200", Request("INVITE", c, d.from, d.to, 1), list)
  BY <1>4, <1>6 DEF Status, Request, Datagrams, Methods, Statuses
<1>8. InUp(d.to, m)'
  <2>1. call'[c] = e /\ e.from = d.from /\ e.to = d.to /\ e.caller = d.caller /\ e.last = "200"
    BY <1>2, <1>3, <1>4 DEF IInv, TypeOK, Views
  <2>2. RowsOf(<<d.from, 1, c>>)' # {} /\ d.to \in Located /\ d.caller # "idle"
    BY <1>3, <1>4 DEF ViewOK, RowsOf, tables
  <2>3. /\ m.kind = "200" /\ m.of = "INVITE" /\ m.call = c /\ m.from = d.from /\ m.uri = d.to
        /\ m.cseq = 1 /\ m.allow = list
    BY <1>7 DEF Status, Request
  <2> QED
    BY <1>6, <1>7, <2>1, <2>2, <2>3 DEF Methods, InUp, Means, IsRequest, Statuses, InviteKey,
                                       Key, CancelFiled, RowsOf
<1>9. m = Status("200", Invite(c), d.to \in Listing)
  BY <1>1, <1>6, <1>7 DEF Invite
<1> QED
  BY <1>1, <1>3, <1>4, <1>5, <1>8, <1>9, OneStep

LEMMA RefuseInv ==
    ASSUME IInv, NEW c \in Calls, Refuse(c)
    PROVE  IInv'
<1>1. PICK d : d = call[c]
  OBVIOUS
<1>2. PICK kind \in Refusals :
        /\ call' = [call EXCEPT ![c].callee = "over", ![c].last = kind]
        /\ up' = Sends(up, call[c].to, <<Status(kind, Invite(c), FALSE)>>)
  BY DEF Refuse
<1>3. PICK e : e = [d EXCEPT !.callee = "over", !.last = kind]
  OBVIOUS
<1>4. /\ d.callee = "ringing" /\ call' = [call EXCEPT ![c] = e]
      /\ UNCHANGED <<places, tables, down>>
  BY <1>1, <1>2, <1>3 DEF Refuse, Keeps, IInv, TypeOK
<1>5. kind \in {"603", "486"} /\ kind \in Statuses \ {"404", "200"}
  BY RefusalsAssumption DEF Statuses
<1>6. d \in Views /\ ViewOK(c, d) /\ d.from \in Phones /\ d.to \in Phones
  BY <1>1, <1>4 DEF IInv, TypeOK, ViewOK
<1>7. e \in Views /\ Follows(d, e) /\ ViewOK(c, e)
  BY <1>3, <1>4, <1>5, <1>6 DEF Views, Follows, ViewOK
<1>8. PICK m : m = Status(kind, Invite(c), FALSE)
  OBVIOUS
<1>9. InUp(d.to, m) /\ m \in Datagrams
  BY <1>1, <1>4, <1>5, <1>8, InviteResponse DEF InUp
<1>10. InUp(d.to, m)'
  BY <1>1, <1>4, <1>7, <1>9, SameRows
<1> QED
  BY <1>1, <1>2, <1>4, <1>6, <1>7, <1>8, <1>9, <1>10, OneStep

LEMMA HangUpInv ==
    ASSUME IInv, NEW c \in Calls, HangUp(c)
    PROVE  IInv'
<1>1. PICK d : d = call[c]
  OBVIOUS
<1>2. CASE /\ d.caller = "up" /\ call' = [call EXCEPT ![c].caller = "bye"]
           /\ up' = Sends(up, d.from, <<CallerBye(c)>>)
  <2>1. PICK e : e = [d EXCEPT !.caller = "bye"]
    OBVIOUS
  <2>2. call' = [call EXCEPT ![c] = e] /\ UNCHANGED <<places, tables, down>>
    BY <1>1, <1>2, <2>1 DEF HangUp, Keeps, IInv, TypeOK
  <2>3. d \in Views /\ ViewOK(c, d) /\ d.from \in Phones /\ d.last = "200"
    BY <1>1, <1>2 DEF IInv, TypeOK, ViewOK
  <2>4. e \in Views /\ Follows(d, e) /\ ViewOK(c, e)
    BY <1>2, <2>1, <2>3 DEF Views, Follows, ViewOK
  <2>5. PICK m : m = CallerBye(c)
    OBVIOUS
  <2>6. InUp(d.from, m) /\ m \in Datagrams
    BY <1>1, <1>2, <2>3, <2>5, CallersRequests DEF InUp, ViewOK
  <2>7. InUp(d.from, m)'
    BY <1>1, <2>2, <2>4, <2>6, SameRows
  <2> QED
    BY <1>1, <1>2, <2>2, <2>3, <2>4, <2>5, <2>6, <2>7, OneStep
<1>3. CASE /\ d.callee = "up" /\ call' = [call EXCEPT ![c].callee = "bye"]
           /\ up' = Sends(up, d.to, <<CalleeBye(c)>>)
  <2>1. PICK e : e = [d EXCEPT !.callee = "bye"]
    OBVIOUS
  <2>2. call' = [call EXCEPT ![c] = e] /\ UNCHANGED <<places, tables, down>>
    BY <1>1, <1>3, <2>1 DEF HangUp, Keeps, IInv, TypeOK
  <2>3. /\ d \in Views /\ ViewOK(c, d) /\ d.from \in Phones /\ d.to \in Phones /\ d.last = "200"
        /\ d.caller # "idle" /\ d.to \in Located /\ RowsOf(<<d.from, 1, c>>) # {}
    BY <1>1, <1>3 DEF IInv, TypeOK, ViewOK
  <2>4. e \in Views /\ Follows(d, e) /\ ViewOK(c, e)
    BY <1>3, <2>1, <2>3 DEF Views, Follows, ViewOK
  <2>5. PICK m : m = CalleeBye(c)
    OBVIOUS
  <2>6. InUp(d.to, m) /\ m \in Datagrams
    BY <1>1, <2>3, <2>5 DEF InUp, Datagrams, Methods, Statuses, Means, IsRequest, InviteKey,
                            CalleeBye, Request
  <2>7. InUp(d.to, m)'
    BY <1>1, <2>2, <2>4, <2>6, SameRows
  <2> QED
    BY <1>1, <1>3, <2>2, <2>3, <2>4, <2>5, <2>6, <2>7, OneStep
<1> QED
  BY <1>1, <1>2, <1>3 DEF HangUp

-----------------------------------------------------------------------------
(* The proxy. *)

(* Who is at an address, and where an extension is. *)
LEMMA Places ==
    ASSUME PlacesInv, NEW p \in Phones
    PROVE  /\ find_extension_by_location(at[p]) = IF p \in Located THEN {p} ELSE {}
           /\ find_registered_client(p) <=> p \in Located
           /\ \A q \in Phones : at[q] = registered_users[p] <=> q = p /\ p \in Located
  BY LocatedAssumption DEF PlacesInv, find_extension_by_location, find_registered_client

(* The table of transactions after a datagram, and the row it is filed under: the first one
   with its key unless it makes one. *)
LEMMA Transaction ==
    ASSUME IInv, NEW p, NEW m, InUp(p, m), sip_transactions' = Transactions(m),
           m.kind # "404", m.kind # "486", NEW k, k = Key(m)
    PROVE  /\ k \in Rows /\ RowsOf(k)' # {} /\ TransactionId(m) # 0
           /\ ~CreatesTransaction(m) => /\ RowsOf(k) # {} /\ sip_transactions' = sip_transactions
                                        /\ TransactionId(m) = First(k)
           /\ CreatesTransaction(m) => /\ sip_transactions' = Append(sip_transactions, k)
                                       /\ RowsOf(k) = {} => First(k)' = TransactionId(m)
           /\ m.kind = "INVITE" => k = InviteKey(m.call)
<1>1. m \in Datagrams /\ k \in Rows
  BY DEF InUp, Datagrams, Key, Rows
<1>2. sip_transactions \in Seq(Rows) /\ Len(sip_transactions) \in Nat
  BY LenProperties DEF IInv, TypeOK
<1>3. m.kind = "INVITE" => k = InviteKey(m.call)
  BY DEF InUp, Means, IsRequest, Methods, Key, InviteKey
<1>4. CASE CreatesTransaction(m)
  <2>1. sip_transactions' = Append(sip_transactions, k)
        /\ TransactionId(m) = Len(sip_transactions) + 1
    BY <1>4 DEF Transactions, TransactionId, Key
  <2>2. RowsOf(k)' = RowsOf(k) \cup {Len(sip_transactions) + 1}
    BY <1>1, <2>1, NewRow DEF IInv
  <2>3. ASSUME RowsOf(k) = {}
        PROVE  First(k)' = TransactionId(m)
    <3>1. RowsOf(k)' = {Len(sip_transactions) + 1}
      BY <2>2, <2>3
    <3>2. \A x \in Nat : Min({x}) = x
      BY LeastIsMin
    <3> QED
      BY <1>2, <2>1, <3>1, <3>2 DEF First
  <2> QED
    BY <1>1, <1>2, <1>3, <1>4, <2>1, <2>2, <2>3
<1>5. CASE ~CreatesTransaction(m)
  <2>1. m.kind \notin {"INVITE", "BYE"}
    BY <1>5 DEF CreatesTransaction
  <2>2. RowsOf(k) # {}
    <3>1. CASE IsRequest(m)
      <4>1. k = InviteKey(m.call)
        BY <1>1, <2>1, <3>1 DEF InUp, Means, Key, InviteKey
      <4> QED
        BY <2>1, <4>1 DEF InUp
    <3>2. CASE ~IsRequest(m)
      BY <2>1, <3>2 DEF InUp
    <3> QED
      BY <3>1, <3>2
  <2>3. sip_transactions' = sip_transactions /\ TransactionId(m) = First(k)
    BY <1>5, <2>2 DEF Transactions, TransactionId, find_sip_transaction, First, RowsOf, Key
  <2>4. First(k) # 0
    BY <2>2, FirstIsRow DEF IInv
  <2>5. RowsOf(k)' # {}
    BY <2>2, <2>3 DEF RowsOf
  <2> QED
    BY <1>1, <1>3, <1>5, <2>2, <2>3, <2>4, <2>5
<1> QED
  BY <1>4, <1>5

(* What the proxy files and passes on is the datagram, or that there is nobody to pass its
   INVITE to; what it notes as answered is an OK to the INVITE or one that lists it. *)
Reply(m) == Status("404", m, FALSE)
Unanswerable(m) == m.kind = "INVITE" /\ m.uri \notin Located
Receiver(m) == IF IsRequest(m) THEN m.uri ELSE m.from
Files(m) ==
    /\ sip_messages \subseteq sip_messages'
    /\ \A b \in sip_messages' \ sip_messages :
        /\ b.tid = TransactionId(m)
        /\ b.msg = m \/ (b.msg = Reply(m) /\ Unanswerable(m))
    /\ \E b \in sip_messages' : b.msg = m /\ b.tid = TransactionId(m)
PassesOn(p, m) ==
    /\ down' \in [Phones -> Seq(Datagrams)]
    /\ \A q \in Phones : \A x \in Range(down'[q]) :
        \/ x \in Range(down[q])
        \/ x = m /\ q = Receiver(m) /\ q \in Located
        \/ x = Reply(m) /\ q = p /\ Unanswerable(m)
Notes(m) ==
    /\ DOMAIN sip_calls' \subseteq DOMAIN sip_calls \cup {m.call}
    /\ \A c \in DOMAIN sip_calls' : "answered" \in sip_calls'[c].stamps =>
        \/ c \in DOMAIN sip_calls /\ "answered" \in sip_calls[c].stamps
        \/ c = m.call /\ m.kind = "200" /\ (m.of = "INVITE" \/ m.allow)
Takes(p) ==
    /\ up' \in [Phones -> Seq(Datagrams)]
    /\ \A q \in Phones : Range(up'[q]) \subseteq Range(up[q])

LEMMA ProxyStep ==
    ASSUME IInv, UNCHANGED <<places, call, exited>>, NEW p \in Phones, NEW m, InUp(p, m),
           IsRequest(m) \/ is_message_a_status(m), Takes(p),
           sip_transactions' = Transactions(m), Files(m), PassesOn(p, m), Notes(m)
    PROVE  IInv'
<1>1. /\ m \in Datagrams /\ Means(m) /\ m.call \in Calls /\ m.kind # "404" /\ m.kind # "486"
      /\ IsRequest(m) => p = m.from
  BY DEF InUp, Datagrams, IsRequest, Methods, is_message_a_status
<1>2. PICK c \in Calls : c = m.call
  BY <1>1
<1>3. PICK k : k = Key(m)
  OBVIOUS
<1>4. PICK l : l = InviteKey(c)
  OBVIOUS
<1>5. PICK tid : tid = TransactionId(m)
  OBVIOUS
<1>6. /\ k \in Rows /\ RowsOf(k)' # {} /\ tid # 0
      /\ ~CreatesTransaction(m) => /\ RowsOf(k) # {} /\ sip_transactions' = sip_transactions
                                   /\ tid = First(k)
      /\ CreatesTransaction(m) => /\ sip_transactions' = Append(sip_transactions, k)
                                  /\ RowsOf(k) = {} => First(k)' = tid
      /\ m.kind = "INVITE" => k = l
  BY <1>1, <1>2, <1>3, <1>4, <1>5, Transaction
<1>7. Grows
  BY <1>6 DEF Grows, Follows, Files
<1>8. RowsOf(l)' # {}
  <2>1. CASE m.kind # "INVITE"
    BY <1>2, <1>4, <1>7, <2>1, RowsStay DEF InUp, IInv
  <2> QED
    BY <1>6, <2>1
<1>9. InviteKey(c)' = l
  BY <1>4 DEF InviteKey
(* It is filed. *)
<1>10. Filed(m.kind, k, tid)'
  BY <1>3, <1>5 DEF Files, Filed, Key
<1>11. CancelFiled(m)' /\ (~IsRequest(m) => RowsOf(k) # {} /\ tid = First(k)')
  <2>1. CASE IsRequest(m) /\ m.of = "CANCEL"
    <3>1. m.kind = "CANCEL" /\ ~CreatesTransaction(m)
      BY <1>1, <2>1 DEF Means, CreatesTransaction
    <3>2. tid = First(k)'
      BY <1>6, <1>7, <3>1, RowsStay DEF IInv
    <3> QED
      BY <1>3, <1>10, <2>1, <3>1, <3>2 DEF CancelFiled, Key
  <2>2. CASE IsRequest(m) /\ m.of # "CANCEL"
    BY <2>2 DEF CancelFiled
  <2>3. CASE ~IsRequest(m)
    <3>1. ~CreatesTransaction(m)
      BY <2>3 DEF IsRequest, Methods, CreatesTransaction
    <3>2. tid = First(k)'
      BY <1>6, <1>7, <3>1, RowsStay DEF IInv
    <3>3. CancelFiled(m)'
      BY <1>7, <2>3, CancelFiledStays DEF InUp, IInv
    <3> QED
      BY <1>6, <3>1, <3>2, <3>3
  <2> QED
    BY <2>1, <2>2, <2>3
<1>12. Means(m)'
  BY <1>1, <1>7, MeansStays
(* What is passed on. *)
<1>13. ASSUME NEW q \in Phones, q = Receiver(m), q \in Located
       PROVE  InDown(q, m)'
  BY <1>1, <1>2, <1>3, <1>6, <1>8, <1>9, <1>11, <1>12, <1>13
     DEF InDown, Receiver, IsRequest, Key, Datagrams
<1>14. ASSUME NEW n, n = Reply(m), Unanswerable(m)
       PROVE  InDown(p, n)' /\ Means(n)'
  <2>1. /\ m.kind = "INVITE" /\ m.uri \notin Located /\ m.of = "INVITE" /\ IsRequest(m)
        /\ m.allow \in BOOLEAN
    BY <1>1, <1>14 DEF Unanswerable, Means, IsRequest, Methods, Datagrams
  <2>2. /\ n.kind = "404" /\ n.of = "INVITE" /\ n.call = c /\ n.from = m.from /\ n.uri = m.uri
        /\ n.cseq = m.cseq /\ n.allow = FALSE /\ n \in Datagrams /\ ~IsRequest(n) /\ Key(n) = k
    BY <1>1, <1>2, <1>3, <1>14, <2>1
       DEF Reply, Status, Datagrams, Statuses, IsRequest, Methods, Key
  <2>3. Means(n)'
    BY <1>1, <1>2, <1>12, <2>1, <2>2 DEF Means, Statuses, IsRequest
  <2>4. CancelFiled(n)'
    BY <2>2 DEF CancelFiled
  <2> QED
    BY <1>1, <1>3, <1>6, <1>8, <1>9, <2>1, <2>2, <2>3, <2>4 DEF InDown, IsRequest, Key
<1>15. WayInv'
  <2>1. ASSUME NEW q \in Phones, NEW x, x \in Range(up'[q])
        PROVE  InUp(q, x)'
    <3>1. InUp(q, x)
      BY <2>1 DEF Takes, IInv, WayInv
    <3> QED
      BY <1>7, <3>1, InUpStays DEF IInv
  <2>2. ASSUME NEW q \in Phones, NEW x, x \in Range(down'[q])
        PROVE  InDown(q, x)'
    <3>1. CASE x \in Range(down[q])
      BY <1>7, <3>1, InDownStays DEF IInv, WayInv
    <3>2. CASE x \notin Range(down[q])
      BY <1>13, <1>14, <2>2, <3>2 DEF PassesOn
    <3> QED
      BY <3>1, <3>2
  <2> QED
    BY <2>1, <2>2 DEF WayInv
(* The tables. *)
<1>16. ASSUME NEW j \in Range(sip_transactions)
       PROVE  RowOK(j)'
  <2>1. j \in Rows /\ RowsOf(j) # {}
    BY RangeOfSeq DEF IInv, TypeOK, Range, RowsOf
  <2> QED
    BY <1>7, <2>1, RowStays DEF IInv, TablesInv
<1>17. ASSUME CreatesTransaction(m), RowsOf(k) = {}
       PROVE  RowOK(k)'
  <2>1. k[1] = m.from /\ k[2] = m.cseq /\ k[3] = c
    BY <1>2, <1>3 DEF Key
  <2>2. m.kind \in {"INVITE", "BYE"} /\ m.of = m.kind
    <3>1. CASE m.kind = "ACK"
      <4>1. k = l /\ RowsOf(l) # {}
        BY <1>1, <1>2, <1>3, <1>4, <3>1 DEF InUp, Means, IsRequest, Methods, Key, InviteKey
      <4> QED
        BY <1>17, <4>1
    <3>2. m.kind \in {"INVITE", "BYE", "ACK"}
      BY <1>17 DEF CreatesTransaction
    <3> QED
      BY <1>1, <3>1, <3>2 DEF Means, IsRequest, Methods
  <2>3. call[c].from # call[c].to
    BY <1>1, <1>2 DEF IInv, ViewOK, Means
  <2>4. m.kind = IF k = l THEN "INVITE" ELSE "BYE"
    BY <1>1, <1>2, <1>3, <1>4, <1>6, <2>2, <2>3 DEF Means, Key, InviteKey
  <2>5. call[c].caller # "idle"
        /\ k \in {<<call[c].from, 1, c>>, <<call[c].from, 2, c>>, <<call[c].to, 1, c>>}
    BY <1>1, <1>2, <1>3, <2>2 DEF Means, Key
  <2>6. First(k)' = tid
    BY <1>6, <1>17
  <2> QED
    BY <1>9, <1>10, <2>1, <2>4, <2>5, <2>6 DEF RowOK
<1>18. ASSUME NEW j \in Range(sip_transactions')
       PROVE  RowOK(j)'
  <2>1. j \in Range(sip_transactions) \/ (j = k /\ CreatesTransaction(m))
    BY <1>6, NewRow DEF IInv
  <2>2. CASE j = k /\ CreatesTransaction(m) /\ j \notin Range(sip_transactions)
    <3>1. RowsOf(k) = {}
      BY <2>2 DEF RowsOf, Range
    <3> QED
      BY <1>17, <2>2, <3>1
  <2> QED
    BY <1>16, <2>1, <2>2
<1>19. ASSUME NEW b \in sip_messages'
       PROVE  ArchiveOK(b)' /\ b.msg \in Datagrams
  <2>1. CASE b \in sip_messages
    BY <1>7, <2>1, ArchiveStays DEF IInv, TablesInv, TypeOK
  <2>2. CASE b \notin sip_messages /\ b.msg = m
    <3>1. m.kind \in Statuses \ {"404"} => ~IsRequest(m)
      BY DEF Statuses, IsRequest, Methods
    <3>2. b.tid = tid
      BY <1>5, <2>2 DEF Files
    <3> QED
      BY <1>1, <1>3, <1>6, <1>11, <1>12, <2>2, <3>1, <3>2 DEF ArchiveOK, Key
  <2>3. CASE b \notin sip_messages /\ b.msg = Reply(m) /\ Unanswerable(m)
    <3>1. PICK n : n = Reply(m)
      OBVIOUS
    <3>2. InDown(p, n)' /\ Means(n)'
      BY <1>14, <2>3, <3>1
    <3>3. n.kind = "404" /\ Key(n) = k /\ m.kind = "INVITE" /\ n \in Datagrams
      BY <1>1, <1>3, <2>3, <3>1
         DEF Reply, Status, Key, Unanswerable, Datagrams, Statuses
    <3>4. b.tid = tid
      BY <1>5, <2>3 DEF Files
    <3>5. Filed("INVITE", k, b.tid)'
      BY <1>10, <3>3, <3>4
    <3> QED
      BY <2>3, <3>1, <3>2, <3>3, <3>5 DEF ArchiveOK, Key
  <2> QED
    BY <2>1, <2>2, <2>3 DEF Files
<1>20. ASSUME NEW b \in DOMAIN sip_calls'
       PROVE  call'[b].caller # "idle" /\ RecordOK(b)'
  <2>1. call[b].caller # "idle"
    BY <1>1 DEF Notes, IInv, TablesInv, Means
  <2>2. ASSUME "answered" \in sip_calls'[b].stamps
        PROVE  call[b].last = "200" \/ (call[b].cancelled /\ call[b].to \in Listing)
    <3>1. CASE b \in DOMAIN sip_calls /\ "answered" \in sip_calls[b].stamps
      BY <3>1 DEF IInv, TablesInv, RecordOK
    <3>2. CASE b = m.call /\ m.kind = "200" /\ m.of = "INVITE"
      BY <1>1, <3>2 DEF Means
    <3>3. CASE b = m.call /\ m.kind = "200" /\ m.of # "INVITE" /\ m.allow
      <4>1. m.of \in {"CANCEL", "BYE"}
        BY <1>1, <3>3 DEF Means, Datagrams, Methods, IsRequest
      <4>2. m.of = "CANCEL" => m.uri = call[b].to
        BY <1>1, <3>3 DEF Means
      <4> QED
        BY <1>1, <3>3, <4>1, <4>2 DEF Means
    <3> QED
      BY <2>2, <3>1, <3>2, <3>3 DEF Notes
  <2> QED
    BY <2>1, <2>2 DEF RecordOK
<1>21. TablesInv'
  BY <1>18, <1>19, <1>20 DEF TablesInv
<1>22. TypeOK'
  <2>1. sip_transactions' \in Seq(Rows)
    BY <1>6, NewRow DEF IInv, TypeOK
  <2>2. DOMAIN sip_calls' \subseteq Calls
    BY <1>1 DEF Notes, IInv, TypeOK
  <2> QED
    BY <1>19, <2>1, <2>2 DEF TypeOK, IInv, Takes, PassesOn
<1>23. ASSUME NEW b \in Calls
       PROVE  ViewOK(b, call[b])'
  <2>1. \A j : RowsOf(j) # {} => RowsOf(j)' # {}
    BY <1>7, RowsStay DEF IInv
  <2>2. ViewOK(b, call'[b])
    BY DEF IInv
  <2> QED
    BY <2>1, <2>2 DEF ViewOK
<1>24. PlacesInv' /\ ExitInv'
  BY <1>7, ExitStays DEF IInv, PlacesInv, places
<1> QED
  BY <1>15, <1>21, <1>22, <1>23, <1>24 DEF IInv

LEMMA Columns ==
    ASSUME NEW src, NEW dst, NEW m, NEW tid
    PROVE  Archived(src, dst, m, tid).msg = m /\ Archived(src, dst, m, tid).tid = tid
  BY DEF Archived

(* Passing on: what Forward files and sends. *)
LEMMA Forwards ==
    ASSUME IInv, NEW p \in Phones, NEW m, InUp(p, m), NEW dst \in Phones, dst = Receiver(m),
           p \in Located, Forward(p, m, dst)
    PROVE  Files(m) /\ PassesOn(p, m)
<1>1. PICK tid : tid = TransactionId(m)
  OBVIOUS
<1>2. PICK src \in find_extension_by_location(at[p]) :
         sip_messages' = sip_messages \cup {Archived(src, "PS", m, tid)}
                \cup (IF find_registered_client(dst) THEN {Archived("PS", dst, m, tid)} ELSE {})
  BY <1>1 DEF Forward
<1>3. Files(m)
  BY <1>1, <1>2, Columns DEF Files
<1>4. down' = [q \in Phones |-> IF at[q] = registered_users[dst] THEN Append(down[q], m) ELSE down[q]]
  BY DEF Forward
<1>5. \A q \in Phones : at[q] = registered_users[dst] => q = dst /\ dst \in Located
  BY Places DEF IInv
<1>6. ASSUME NEW q \in Phones
      PROVE  /\ down'[q] \in Seq(Datagrams)
             /\ \A x \in Range(down'[q]) :
                    x \in Range(down[q]) \/ (x = m /\ q = dst /\ dst \in Located)
  <2>1. down[q] \in Seq(Datagrams) /\ m \in Datagrams
    BY DEF IInv, TypeOK, InUp
  <2>2. Append(down[q], m) \in Seq(Datagrams) /\ Range(Append(down[q], m)) = Range(down[q]) \cup {m}
    BY <2>1, RangeAppend
  <2> QED
    BY <1>4, <1>5, <2>1, <2>2
<1>7. down' \in [Phones -> Seq(Datagrams)]
  BY <1>4, <1>6
<1> QED
  BY <1>3, <1>6, <1>7 DEF PassesOn

LEMMA Records ==
    ASSUME NEW calls, NEW c, NEW state
    PROVE  /\ DOMAIN update_call_state(calls, c, state) = DOMAIN calls
           /\ \A b \in DOMAIN calls : b # c => update_call_state(calls, c, state)[b] = calls[b]
           /\ c \in DOMAIN calls => update_call_state(calls, c, state)[c].stamps
                                        = calls[c].stamps \cup {Timestamp(state)}
  BY DEF update_call_state

LEMMA InviteTaken ==
    ASSUME IInv, NEW p \in Phones, NEW m, InUp(p, m), p \in Located,
           process_invitation_request(p, m)
    PROVE  /\ sip_transactions' = Transactions(m)
           /\ Files(m) /\ PassesOn(p, m) /\ Notes(m)
<1>1. /\ m \in Datagrams /\ m.kind = "INVITE" /\ m.uri \in Phones /\ IsRequest(m)
      /\ sip_transactions' = Transactions(m)
  BY DEF process_invitation_request, InUp, Datagrams, IsRequest, Methods
<1>2. CASE NotFound(p, m)
  <2>1. PICK tid : tid = TransactionId(m)
    OBVIOUS
  <2>2. PICK n : n = Reply(m)
    OBVIOUS
  <2>3. /\ ~find_registered_client(m.uri)
        /\ sip_calls' = update_call_state(create_new_call(sip_calls, m.call), m.call, "failed")
        /\ \E src \in find_extension_by_location(at[p]) :
               sip_messages' = sip_messages \cup {Archived(src, "PS", m, tid),
                                                   Archived("PS", src, n, tid)}
        /\ down' = [down EXCEPT ![p] = Append(@, n)]
    BY <1>2, <2>1, <2>2 DEF NotFound, Reply
  <2>4. Unanswerable(m)
    BY <1>1, <2>3, Places DEF IInv, Unanswerable
  <2>5. Files(m)
    BY <2>1, <2>2, <2>3, <2>4, Columns DEF Files
  <2>6. n \in Datagrams
    BY <1>1, <2>2 DEF Reply, Status, Datagrams, Statuses
  <2>7. PassesOn(p, m)
    <3>1. down[p] \in Seq(Datagrams)
      BY DEF IInv, TypeOK
    <3>2. /\ Append(down[p], n) \in Seq(Datagrams)
          /\ Range(Append(down[p], n)) = Range(down[p]) \cup {n}
      BY <2>6, <3>1, RangeAppend
    <3> QED
      BY <2>2, <2>3, <2>4, <3>2 DEF PassesOn, IInv, TypeOK
  <2>8. Notes(m)
    <3>1. PICK c : c = m.call
      OBVIOUS
    <3>2. PICK calls : calls = create_new_call(sip_calls, c)
      OBVIOUS
    <3>3. sip_calls' = update_call_state(calls, c, "failed")
      BY <2>3, <3>1, <3>2
    <3>4. /\ DOMAIN calls = DOMAIN sip_calls \cup {c}
          /\ \A b \in DOMAIN sip_calls : calls[b] = sip_calls[b]
          /\ c \notin DOMAIN sip_calls => calls[c].stamps = {"dialed"}
      BY <3>2 DEF create_new_call, Dialed
    <3>5. /\ DOMAIN sip_calls' = DOMAIN calls
          /\ \A b \in DOMAIN calls : b # c => sip_calls'[b] = calls[b]
          /\ sip_calls'[c].stamps = calls[c].stamps \cup {"ended"}
      BY <3>3, <3>4, Records DEF Timestamp
    <3> QED
      BY <3>1, <3>4, <3>5 DEF Notes
  <2> QED
    BY <1>1, <2>5, <2>7, <2>8
<1>3. CASE sip_calls' = create_new_call(sip_calls, m.call) /\ Forward(p, m, m.uri)
  <2>1. Files(m) /\ PassesOn(p, m)
    BY <1>1, <1>3, Forwards DEF Receiver
  <2>2. Notes(m)
    <3>1. PICK c : c = m.call
      OBVIOUS
    <3>2. /\ DOMAIN sip_calls' = DOMAIN sip_calls \cup {c}
          /\ \A b \in DOMAIN sip_calls : sip_calls'[b] = sip_calls[b]
          /\ c \notin DOMAIN sip_calls => sip_calls'[c].stamps = {"dialed"}
      BY <1>3, <3>1 DEF create_new_call, Dialed
    <3> QED
      BY <3>1, <3>2 DEF Notes
  <2> QED
    BY <1>1, <2>1, <2>2
<1> QED
  BY <1>2, <1>3 DEF process_invitation_request

LEMMA RequestTaken ==
    ASSUME IInv, NEW p \in Phones, NEW m, InUp(p, m), p \in Located, process_request(p, m)
    PROVE  /\ sip_transactions' = Transactions(m)
           /\ Files(m) /\ PassesOn(p, m) /\ Notes(m)
<1>1. /\ m.uri \in Phones /\ IsRequest(m) /\ Forward(p, m, m.uri)
      /\ sip_transactions' = Transactions(m) /\ sip_calls' = sip_calls
  BY DEF process_request, InUp, Datagrams, IsRequest, Methods
<1>2. Files(m) /\ PassesOn(p, m)
  BY <1>1, Forwards DEF Receiver
<1>3. Notes(m)
  BY <1>1 DEF Notes
<1> QED
  BY <1>1, <1>2, <1>3

LEMMA StatusTaken ==
    ASSUME IInv, NEW p \in Phones, NEW m, InUp(p, m), p \in Located, process_status(p, m)
    PROVE  /\ sip_transactions' = Transactions(m)
           /\ Files(m) /\ PassesOn(p, m) /\ Notes(m)
<1>1. /\ m.from \in Phones /\ m.kind \in {"100", "180", "200", "487", "603"} /\ Forward(p, m, m.from)
      /\ sip_transactions' = sip_transactions
      /\ sip_calls' = IF NewState(m) = "none" THEN sip_calls
                      ELSE update_call_state(sip_calls, m.call, NewState(m))
  BY DEF process_status, is_message_a_status, InUp, Datagrams
<1>2. ~IsRequest(m) /\ Transactions(m) = sip_transactions
  BY <1>1 DEF IsRequest, Methods, Transactions, CreatesTransaction
<1>3. Files(m) /\ PassesOn(p, m)
  BY <1>1, <1>2, Forwards DEF Receiver
<1>4. /\ Timestamp(NewState(m)) = "answered" => m.kind = "200" /\ (m.of = "INVITE" \/ m.allow)
  BY <1>1 DEF NewState, Timestamp
<1>5. Notes(m)
  <2>1. CASE sip_calls' = sip_calls
    BY <2>1 DEF Notes
  <2>2. CASE sip_calls' = update_call_state(sip_calls, m.call, NewState(m))
    <3>1. /\ DOMAIN sip_calls' = DOMAIN sip_calls
          /\ \A b \in DOMAIN sip_calls : b # m.call => sip_calls'[b] = sip_calls[b]
          /\ m.call \in DOMAIN sip_calls =>
                sip_calls'[m.call].stamps = sip_calls[m.call].stamps \cup {Timestamp(NewState(m))}
      BY <2>2, Records
    <3> QED
      BY <1>4, <3>1 DEF Notes
  <2> QED
    BY <1>1, <2>1, <2>2
<1> QED
  BY <1>1, <1>2, <1>3, <1>5

(* The proxy stops only for who is not in the location table: it finds a transaction. *)
LEMMA Stops ==
    ASSUME IInv, NEW p \in Phones, NEW m, InUp(p, m), IsRequest(m) \/ is_message_a_status(m),
           Fails(p, m)
    PROVE  \E c \in Calls : call[c].caller # "idle" /\ call[c].from \in Phones \ Located
<1>1. /\ m \in Datagrams /\ Means(m) /\ m.kind # "404" /\ m.kind # "486" /\ m.call \in Calls
      /\ m.from \in Phones
  BY DEF InUp, Datagrams, IsRequest, Methods, is_message_a_status
<1>2. p \notin Located
  <2>1. TransactionId(m) # 0
    <3>1. CASE CreatesTransaction(m)
      <4>1. Len(sip_transactions) \in Nat
        BY LenProperties DEF IInv, TypeOK
      <4> QED
        BY <3>1, <4>1 DEF TransactionId
    <3>2. CASE ~CreatesTransaction(m)
      <4>1. m.kind \notin {"INVITE", "BYE"}
        BY <3>2 DEF CreatesTransaction
      <4>2. IsRequest(m) => Key(m) = InviteKey(m.call)
        BY <1>1, <4>1 DEF Means, Key, InviteKey
      <4>3. RowsOf(Key(m)) # {}
        BY <4>1, <4>2 DEF InUp
      <4>4. TransactionId(m) = First(Key(m))
        BY <3>2, <4>3 DEF TransactionId, find_sip_transaction, First, RowsOf, Key
      <4> QED
        BY <4>3, <4>4, FirstIsRow DEF IInv
    <3> QED
      BY <3>1, <3>2
  <2> QED
    BY <2>1, Places DEF Fails, IInv
<1>3. m.from = p /\ m.from = call[m.call].from
  BY <1>1, <1>2 DEF InUp, Means, Datagrams, Statuses, IsRequest
<1> QED
  BY <1>1, <1>2, <1>3 DEF Means

(* Datagrams that are taken and change nothing but perhaps stop the proxy. *)
LEMMA OnlyTaken ==
    ASSUME IInv, UNCHANGED <<places, call, sip_calls, sip_transactions, sip_messages, down>>,
           NEW p, Takes(p), ExitInv'
    PROVE  IInv'
<1>1. Grows
  BY DEF Grows, Follows
<1>2. TypeOK' /\ PlacesInv'
  BY DEF IInv, TypeOK, PlacesInv, Takes, places
<1>3. WayInv'
  <2>1. ASSUME NEW q \in Phones, NEW x, x \in Range(up'[q])
        PROVE  InUp(q, x)'
    BY <1>1, <2>1, InUpStays DEF Takes, IInv, WayInv
  <2>2. ASSUME NEW q \in Phones, NEW x, x \in Range(down'[q])
        PROVE  InDown(q, x)'
    BY <1>1, <2>2, InDownStays DEF IInv, WayInv
  <2> QED
    BY <2>1, <2>2 DEF WayInv
<1>4. TablesInv'
  <2>1. ASSUME NEW k \in Range(sip_transactions)
        PROVE  RowOK(k)'
    <3>1. k \in Rows /\ RowsOf(k) # {}
      BY RangeOfSeq DEF IInv, TypeOK, Range, RowsOf
    <3> QED
      BY <1>1, <3>1, RowStays DEF IInv, TablesInv
  <2>2. \A a \in sip_messages : ArchiveOK(a)'
    BY <1>1, ArchiveStays DEF IInv, TablesInv
  <2>3. \A b \in DOMAIN sip_calls : call'[b].caller # "idle" /\ RecordOK(b)'
    BY DEF IInv, TablesInv, RecordOK
  <2> QED
    BY <2>1, <2>2, <2>3 DEF TablesInv
<1>5. \A c \in Calls : ViewOK(c, call[c])'
  BY DEF IInv, ViewOK, RowsOf
<1> QED
  BY <1>2, <1>3, <1>4, <1>5 DEF IInv

LEMMA ProxyInv ==
    ASSUME IInv, NEW p \in Phones, Proxy(p)
    PROVE  IInv'
<1>1. PICK i \in DOMAIN up[p] :
        LET m == up[p][i]
        IN /\ Arrives(p, i)
           /\ \/ Ignore(m)
              \/ (IsRequest(m) \/ is_message_a_status(m)) /\ Exit(p, m)
              \/ /\ ~Fails(p, m)
                 /\ UNCHANGED exited
                 /\ process_invitation_request(p, m) \/ process_request(p, m) \/ process_status(p, m)
  BY DEF Proxy
<1>2. PICK m : m = up[p][i]
  OBVIOUS
<1>3. InUp(p, m) /\ UNCHANGED <<places, call>> /\ Arrives(p, i)
  BY <1>1, <1>2 DEF Proxy, IInv, WayInv, Range
<1>4. Takes(p)
  <2>1. RemoveAt(up[p], i) \in Seq(Datagrams) /\ Range(RemoveAt(up[p], i)) \subseteq Range(up[p])
    BY RangeRemoveAt DEF IInv, TypeOK
  <2> QED
    BY <1>3, <2>1 DEF Arrives, Takes, IInv, TypeOK
<1>5. ASSUME UNCHANGED <<sip_calls, sip_transactions, sip_messages, down>>, ExitInv'
      PROVE  IInv'
  BY <1>3, <1>4, <1>5, OnlyTaken
<1>6. CASE Ignore(m)
  BY <1>3, <1>5, <1>6 DEF Ignore, tables, ExitInv, IInv
<1>7. CASE (IsRequest(m) \/ is_message_a_status(m)) /\ Exit(p, m)
  <2>1. ExitInv'
    BY <1>3, <1>7, Stops DEF Exit, ExitInv
  <2> QED
    BY <1>5, <1>7, <2>1 DEF Exit
<1>8. CASE /\ ~Fails(p, m) /\ UNCHANGED exited
           /\ process_invitation_request(p, m) \/ process_request(p, m) \/ process_status(p, m)
  <2>1. p \in Located
    BY <1>8, Places DEF Fails, IInv
  <2>2. IsRequest(m) \/ is_message_a_status(m)
    BY <1>8 DEF process_invitation_request, process_request, process_status, IsRequest, Methods
  <2>3. sip_transactions' = Transactions(m) /\ Files(m) /\ PassesOn(p, m) /\ Notes(m)
    BY <1>3, <1>8, <2>1, InviteTaken, RequestTaken, StatusTaken
  <2> QED
    BY <1>3, <1>4, <1>8, <2>2, <2>3, ProxyStep
<1> QED
  BY <1>1, <1>2, <1>6, <1>7, <1>8

-----------------------------------------------------------------------------
(* The theorems. *)

LEMMA InitIInv == Init => IInv
<1> SUFFICES ASSUME Init PROVE IInv
  OBVIOUS
<1>1. Unused \in Views
  BY DEF Unused, Views
<1>2. /\ sip_calls = << >> /\ sip_transactions = << >> /\ sip_messages = {} /\ exited = FALSE
      /\ up = [p \in Phones |-> << >>] /\ down = [p \in Phones |-> << >>]
      /\ call = [c \in Calls |-> Unused]
  BY DEF Init, TalkInit
<1>3. << >> \in Seq(Datagrams) /\ << >> \in Seq(Rows) /\ Range(<< >>) = {} /\ DOMAIN << >> = {}
  BY NoneSent
<1>4. TypeOK
  BY <1>1, <1>2, <1>3 DEF TypeOK
<1>5. PlacesInv
  BY DEF PlacesInv, Init
<1>6. WayInv
  BY <1>2, <1>3 DEF WayInv
<1>7. \A c \in Calls : ViewOK(c, call[c])
  BY <1>2 DEF ViewOK, Unused
<1>8. TablesInv /\ ExitInv
  BY <1>2, <1>3 DEF TablesInv, ExitInv
<1> QED
  BY <1>4, <1>5, <1>6, <1>7, <1>8 DEF IInv

LEMMA StepIInv == IInv /\ [Next]_vars => IInv'
<1> SUFFICES ASSUME IInv, [Next]_vars PROVE IInv'
  OBVIOUS
<1>1. CASE \E p \in Phones : Proxy(p)
  BY <1>1, ProxyInv
<1>2. CASE \E p \in Phones : Phone(p)
  BY <1>2, PhoneInv
<1>3. CASE \E c \in Calls : \E p, q \in Phones : Dial(c, p, q)
  BY <1>3, DialInv
<1>4. CASE \E c \in Calls : Redial(c) \/ GiveUp(c) \/ Answer(c) \/ Refuse(c) \/ HangUp(c)
  BY <1>4, RedialInv, GiveUpInv, AnswerInv, RefuseInv, HangUpInv
<1>5. CASE UNCHANGED vars
  <2>1. /\ UNCHANGED <<places, call, sip_calls, sip_transactions, sip_messages, down>>
        /\ up' = up /\ exited' = exited
    BY <1>5 DEF vars, talk, tables
  <2>2. ExitInv' /\ \A p : Takes(p)
    BY <2>1 DEF IInv, TypeOK, ExitInv, Takes
  <2> QED
    BY <2>1, <2>2, OnlyTaken
<1> QED
  BY <1>1, <1>2, <1>3, <1>4, <1>5 DEF Next

LEMMA Invariance == Spec => []IInv
  BY InitIInv, StepIInv, PTL DEF Spec

(* The state has its type. *)
THEOREM CallsTypeCorrect == Spec => []TypeOK
<1>1. IInv => TypeOK
  BY DEF IInv
<1> QED
  BY <1>1, Invariance, PTL

(* However datagrams overtake each other and repeat, the proxy finds the transaction of what
   it passes on; it stops only when a phone without a row in the location table calls. *)
THEOREM FindsTransactions == Spec => []ExitsOnlyForUnlocated
<1>1. IInv => ExitsOnlyForUnlocated
  BY DEF IInv, ExitInv, ExitsOnlyForUnlocated
<1> QED
  BY <1>1, Invariance, PTL

(* A call is recorded as answered only if the callee took it, or if the OK to a CANCEL listed
   INVITE. *)
THEOREM OnlyAnswersCount == Spec => []AnsweredMeansAnswered
<1>1. IInv => AnsweredMeansAnswered
  BY DEF IInv, TablesInv, RecordOK, AnsweredMeansAnswered
<1> QED
  BY <1>1, Invariance, PTL

(* Responses are filed together, and with their request. *)
THEOREM ResponsesFiledTogether == Spec => []FiledTogether
<1>1. ASSUME IInv, NEW a \in sip_messages, ~IsRequest(a.msg)
      PROVE  /\ \E b \in sip_messages : /\ b.tid = a.tid /\ b.msg.kind = a.msg.of
                                        /\ b.msg.call = a.msg.call /\ b.msg.from = a.msg.from
             /\ \A b \in sip_messages :
                    (~IsRequest(b.msg) /\ b.msg.call = a.msg.call /\ b.msg.of = a.msg.of
                     /\ b.msg.from = a.msg.from /\ b.msg.kind # "404") => b.tid = a.tid
  <2>1. PICK m : m = a.msg
    OBVIOUS
  <2>2. PICK d : d = call[m.call]
    OBVIOUS
  <2>3. /\ m \in Datagrams /\ Means(m) /\ ArchiveOK(a) /\ m.kind \in Statuses /\ m.of # "ACK"
        /\ m.call \in Calls /\ d.from # d.to
    <3>1. m \in Datagrams /\ Means(m) /\ ArchiveOK(a)
      BY <1>1, <2>1 DEF IInv, TypeOK, TablesInv, ArchiveOK
    <3>2. m.call \in Calls /\ m.kind \in Statuses
      BY <1>1, <2>1, <3>1 DEF Datagrams, IsRequest
    <3> QED
      BY <1>1, <2>1, <2>2, <3>1, <3>2 DEF Means, IInv, ViewOK
  <2>4. CASE m.kind = "404"
    <3>1. m.of = "INVITE" /\ d.to \notin Located
      BY <2>2, <2>3, <2>4 DEF Means
    <3>2. Filed("INVITE", Key(m), a.tid)
      BY <2>1, <2>3, <2>4 DEF ArchiveOK
    <3>3. \E b \in sip_messages : /\ b.tid = a.tid /\ b.msg.kind = m.of
                                  /\ b.msg.call = m.call /\ b.msg.from = m.from
      BY <3>1, <3>2 DEF Filed, Key
    <3>4. ASSUME NEW b \in sip_messages, ~IsRequest(b.msg), b.msg.call = m.call,
                 b.msg.of = m.of, b.msg.kind # "404"
          PROVE  FALSE
      <4>1. b.msg \in Datagrams /\ Means(b.msg)
        BY <1>1 DEF IInv, TypeOK, TablesInv, ArchiveOK
      <4>2. b.msg.kind \in Statuses \ {"404"}
        BY <3>4, <4>1 DEF Datagrams, IsRequest
      <4>3. b.msg.uri \in Located /\ b.msg.uri = d.to
        BY <2>2, <3>1, <3>4, <4>1, <4>2 DEF Means
      <4> QED
        BY <3>1, <4>3
    <3> QED
      BY <2>1, <3>3, <3>4
  <2>5. CASE m.kind # "404"
    <3>1. RowsOf(Key(m)) # {} /\ a.tid = First(Key(m)) /\ CancelFiled(m)
      BY <2>1, <2>3, <2>5 DEF ArchiveOK
    <3>2. Filed(m.of, Key(m), a.tid)
      <4>1. CASE m.of = "CANCEL"
        BY <3>1, <4>1 DEF CancelFiled
      <4>2. CASE m.of \in {"INVITE", "BYE"}
        <5>1. PICK k : k = Key(m)
          OBVIOUS
        <5>2. RowOK(k) /\ k[3] = m.call
          BY <1>1, <3>1, <5>1 DEF IInv, TablesInv, RowsOf, Range, Key
        <5>3. m.of = IF k = InviteKey(m.call) THEN "INVITE" ELSE "BYE"
          BY <2>2, <2>3, <4>2, <5>1 DEF Means, Key, InviteKey
        <5> QED
          BY <3>1, <5>1, <5>2, <5>3 DEF RowOK
      <4> QED
        BY <2>3, <4>1, <4>2 DEF Datagrams, Methods
    <3>3. \E b \in sip_messages : /\ b.tid = a.tid /\ b.msg.kind = m.of
                                  /\ b.msg.call = m.call /\ b.msg.from = m.from
      BY <3>2 DEF Filed, Key
    <3>4. ASSUME NEW b \in sip_messages, ~IsRequest(b.msg), b.msg.call = m.call,
                 b.msg.of = m.of, b.msg.from = m.from, b.msg.kind # "404"
          PROVE  b.tid = a.tid
      <4>1. b.msg \in Datagrams /\ Means(b.msg) /\ ArchiveOK(b)
        BY <1>1 DEF IInv, TypeOK, TablesInv, ArchiveOK
      <4>2. b.msg.kind \in Statuses \ {"404"}
        BY <3>4, <4>1 DEF Datagrams, IsRequest
      <4>3. b.msg.cseq = m.cseq
        BY <2>2, <2>3, <3>4, <4>1 DEF Means
      <4>4. Key(b.msg) = Key(m)
        BY <3>4, <4>3 DEF Key
      <4> QED
        BY <3>1, <4>1, <4>2, <4>4 DEF ArchiveOK
    <3> QED
      BY <2>1, <3>3, <3>4
  <2> QED
    BY <2>4, <2>5
<1>2. IInv => FiledTogether
  BY <1>1 DEF FiledTogether
<1> QED
  BY <1>2, Invariance, PTL

-----------------------------------------------------------------------------
(* The record of a call whose datagrams keep their order.

   First, what holds in any order: what phones have said and heard. *)

Past == {"up", "bye", "over"}
Closed == {"200", "486", "487", "603"}
Said(d, m) ==
    /\ m.kind \in Statuses \ {"200"} => m.of = "INVITE"
    /\ m.kind \in {"486", "487", "603"} => d.last = m.kind
    /\ m.kind = "200" /\ m.of = "CANCEL" => d.last \in Closed
    /\ m.kind \in Statuses \ {"404"} \/ m.kind = "CANCEL" => d.callee # "idle"
    /\ m.kind = "ACK" \/ m.of = "BYE" => d.caller \in Past
    /\ m.of = "BYE" /\ m.from = d.from => d.caller # "up"
Heard(d) ==
    /\ d.last = "180" => d.callee = "ringing"
    /\ d.caller \notin Past => d.outcome = "none" /\ ~d.acked
    /\ d.caller = "proceeding" => d.callee # "idle"
    /\ d.caller \in {"up", "bye"} => d.outcome = "completed"
    /\ d.caller = "over" => d.outcome # "none"
    /\ d.outcome = "completed" => d.last = "200"
    /\ d.outcome = "declined" => d.last = "603"
    /\ d.outcome = "cancelled" => d.last = "487"
    /\ d.outcome = "failed" => d.to \notin Located
TalkInv ==
    /\ \A p \in Phones : /\ \A m \in Range(up[p]) : Said(call[m.call], m)
                         /\ \A m \in Range(down[p]) : Said(call[m.call], m)
    /\ \A c \in Calls : Heard(call[c])
    /\ \A k \in Range(sip_transactions) : k[3] \in DOMAIN sip_calls

(* Second, the order on the links: of one link, and of one that got a datagram m or from
   which m was taken, being the first there (it may come again and is then still there). *)
Has(q, A) == \E m \in Range(q) : m \in A
NoneAfter(q, A, B) == \A i, j \in DOMAIN q : i < j /\ q[i] \in A => q[j] \notin B
Led(q, A, B) == \A j \in DOMAIN q : q[j] \in B => \E i \in DOMAIN q : i < j /\ q[i] \in A

Gained(q, r, m) ==
    /\ \A A : Has(r, A) <=> Has(q, A) \/ m \in A
    /\ \A A, B : NoneAfter(r, A, B) <=> NoneAfter(q, A, B) /\ (m \in B => ~Has(q, A))
    /\ \A A, B : Led(r, A, B) <=> Led(q, A, B) /\ (m \in B => Has(q, A))
Taken(q, r, m) ==
    /\ \A A : Has(q, A) <=> Has(r, A) \/ m \in A
    /\ \A A, B : NoneAfter(q, A, B) => /\ NoneAfter(r, A, B)
                                       /\ m \in A /\ m \notin B => ~Has(r, B)
    /\ \A A, B : Led(q, A, B) => m \notin B /\ (m \in A \/ Led(r, A, B))

(* Datagrams of a call by what they say. *)
Of(c, kinds) == {m \in Datagrams : m.call = c /\ m.kind \in kinds}
OkTo(c, method) == {m \in Datagrams : m.call = c /\ m.kind = "200" /\ m.of = method}
Early(c) == Of(c, {"INVITE", "CANCEL"})
Late(c) == Of(c, {"ACK", "BYE"})
Byes(c) == Of(c, {"BYE"})
Rings(c) == Of(c, {"180"})
Finals(c) == Of(c, Closed)
Answers(c) == OkTo(c, "INVITE")
CancelOks(c) == OkTo(c, "CANCEL")
Cancelled(c) == Of(c, {"487"})
Declines(c) == Of(c, {"603"})
NotFounds(c) == Of(c, {"404"})
Ended(c) == OkTo(c, "BYE")
ByeOrEnded(c) == Byes(c) \cup Ended(c)
Other(c) == (Rings(c) \cup Finals(c)) \ Ended(c)

(* The callee has seen all that comes before a BYE, and its answers are through. *)
Over(d) == d.caller = "over" /\ d.outcome = "completed"
Settled(c, d, uf, ut, df, dt) ==
    \/ d.acked \/ Over(d)
    \/ Has(ut, ByeOrEnded(c)) \/ Has(df, ByeOrEnded(c)) \/ Has(uf, Ended(c)) \/ Has(dt, Ended(c))
Ending(c, d, uf, df, dt) ==
    Over(d) \/ Has(df, ByeOrEnded(c)) \/ Has(uf, Ended(c)) \/ Has(dt, Ended(c))
RequestsInOrder(c, d, uf, ut, df, dt) ==
    /\ NoneAfter(uf, Late(c), Early(c)) /\ NoneAfter(dt, Late(c), Early(c))
    /\ Has(dt, Late(c)) => ~Has(uf, Early(c))
    /\ Settled(c, d, uf, ut, df, dt) => ~Has(uf, Early(c)) /\ ~Has(dt, Early(c))
ResponsesInOrder(c, d, uf, ut, df, dt) ==
    /\ NoneAfter(ut, ByeOrEnded(c), Other(c)) /\ NoneAfter(ut, Finals(c), Rings(c))
    /\ Ending(c, d, uf, df, dt) => ~Has(ut, Other(c))

(* Third, what is recorded, or will be by what is on its way. *)
States == {"dialed", "ringing", "answered", "ended", "cancelled", "declined", "failed"}
RecordTyped(rec) == /\ rec \in [state : States, stamps : SUBSET Stamps]
                    /\ "dialed" \in rec.stamps /\ Timestamp(rec.state) \in rec.stamps
Rang(rec) == "ringing" \in rec.stamps
Answered(rec) == "answered" \in rec.stamps
Lists(d) == {d.from, d.to} \cap Listing # {}
ListsAnswered(d, rec) == rec.state = "answered" /\ Lists(d)
EndNoted(d, rec) == rec.state = "ended" \/ ListsAnswered(d, rec)
CancelNoted(d, rec) == rec.state = "cancelled" \/ ListsAnswered(d, rec)
DeclineNoted(d, rec) == \/ rec.state = "declined" \/ (rec.state = "cancelled" /\ d.cancelled)
                        \/ ListsAnswered(d, rec)
Recorded(c, d, rec, uf, ut, df, dt) ==
    /\ Rang(rec) \/ Led(ut, Rings(c), Finals(c))
    /\ d.callee # "idle" => Rang(rec) \/ Has(ut, Rings(c))
    /\ Has(ut, Rings(c)) => rec.state \in {"dialed", "ringing"}
    /\ d.last \in {"none", "180"} /\ d.to \in Located => rec.state \in {"dialed", "ringing"}
    /\ Has(df, Answers(c)) \/ d.outcome = "completed" => Rang(rec) /\ Answered(rec)
    /\ Has(df, Ended(c)) \/ Has(dt, Ended(c)) \/ Over(d)
       => EndNoted(d, rec) \/ Has(ut, Ended(c)) \/ Has(uf, Ended(c))
    /\ Has(df, Declines(c)) \/ d.outcome = "declined" => DeclineNoted(d, rec)
    /\ d.last = "487" => \/ CancelNoted(d, rec)
                         \/ Led(ut, CancelOks(c), Cancelled(c)) /\ Has(ut, CancelOks(c))
    /\ Has(df, Cancelled(c)) \/ d.outcome = "cancelled" => CancelNoted(d, rec)
    /\ Has(df, NotFounds(c)) \/ d.outcome = "failed" => rec.state = "failed"

CallInOrder(c, d, rec, uf, ut, df, dt) ==
    /\ RequestsInOrder(c, d, uf, ut, df, dt) /\ ResponsesInOrder(c, d, uf, ut, df, dt)
    /\ RecordTyped(rec) /\ Recorded(c, d, rec, uf, ut, df, dt)
OrderAs(c, rec) == LET d == call[c] IN
    CallInOrder(c, d, rec, up[d.from], up[d.to], down[d.from], down[d.to])
OrderInv == ~overtaken /\ ~exited => \A c \in DOMAIN sip_calls : OrderAs(c, sip_calls[c])

(* What a datagram of the call c is. *)
Sorted(c, m) ==
    /\ m \in Early(c) <=> m.call = c /\ m.kind \in {"INVITE", "CANCEL"}
    /\ m \in Late(c) <=> m.call = c /\ m.kind \in {"ACK", "BYE"}
    /\ m \in Byes(c) <=> m.call = c /\ m.kind = "BYE"
    /\ m \in Rings(c) <=> m.call = c /\ m.kind = "180"
    /\ m \in Finals(c) <=> m.call = c /\ m.kind \in Closed
    /\ m \in Answers(c) <=> m.call = c /\ m.kind = "200" /\ m.of = "INVITE"
    /\ m \in CancelOks(c) <=> m.call = c /\ m.kind = "200" /\ m.of = "CANCEL"
    /\ m \in Cancelled(c) <=> m.call = c /\ m.kind = "487"
    /\ m \in Declines(c) <=> m.call = c /\ m.kind = "603"
    /\ m \in NotFounds(c) <=> m.call = c /\ m.kind = "404"
    /\ m \in Ended(c) <=> m.call = c /\ m.kind = "200" /\ m.of = "BYE"
    /\ m \in ByeOrEnded(c) <=> m \in Byes(c) \/ m \in Ended(c)
    /\ m \in Other(c) <=> (m \in Rings(c) \/ m \in Finals(c)) /\ m \notin Ended(c)

LEMMA DatagramsSorted ==
    ASSUME NEW c, NEW m \in Datagrams
    PROVE  Sorted(c, m)
  BY DEF Sorted, Of, OkTo, Early, Late, Byes, Rings, Finals, Answers, CancelOks, Cancelled,
         Declines, NotFounds, Ended, ByeOrEnded, Other

(* What a datagram on a link tells of its call. *)
Tells(c, d, q) ==
    /\ Has(q, ByeOrEnded(c)) => d.last = "200" /\ d.caller \in Past
    /\ Has(q, Late(c)) => d.caller \in Past
    /\ Has(q, Rings(c)) \/ Has(q, Finals(c)) => d.callee # "idle"
    /\ Has(q, Finals(c)) \/ Has(q, CancelOks(c)) => d.last \in Closed
    /\ Has(q, Answers(c)) => d.last = "200"
    /\ Has(q, Declines(c)) => d.last = "603"
    /\ Has(q, Cancelled(c)) => d.last = "487"
    /\ Has(q, NotFounds(c)) => d.to \notin Located
    /\ Has(q, Byes(c)) \/ Has(q, Ended(c)) => Has(q, ByeOrEnded(c))
    /\ Has(q, ByeOrEnded(c)) => Has(q, Byes(c)) \/ Has(q, Ended(c))
    /\ Has(q, Byes(c)) => Has(q, Late(c))
    /\ Has(q, Ended(c)) => Has(q, Finals(c))
    /\ Has(q, Rings(c)) => Has(q, Other(c))
    /\ Has(q, Other(c)) => Has(q, Rings(c)) \/ Has(q, Finals(c))
    /\ ~Has(q, Finals(c)) => Led(q, Rings(c), Finals(c))
    /\ ~Has(q, Cancelled(c)) => Led(q, CancelOks(c), Cancelled(c))

(* What the phones know of a call, as far as it is needed here. *)
Viewed(d) ==
    /\ d \in Views
    /\ d.callee = "idle" <=> d.last = "none"
    /\ d.callee # "idle" => d.to \in Located
    /\ d.callee \in {"up", "bye"} => d.last = "200"
    /\ d.callee = "ringing" => d.last = "180"
Before(c, d, rec, uf, ut, df, dt) ==
    /\ Viewed(d) /\ Heard(d)
    /\ Tells(c, d, uf) /\ Tells(c, d, ut) /\ Tells(c, d, df) /\ Tells(c, d, dt)
    /\ CallInOrder(c, d, rec, uf, ut, df, dt)

-----------------------------------------------------------------------------
(* Links. *)

LEMMA GainedByAppend ==
    ASSUME NEW S, NEW q \in Seq(S), NEW m \in S
    PROVE  Append(q, m) \in Seq(S) /\ Gained(q, Append(q, m), m)
<1> DEFINE r == Append(q, m)
           n == Len(q)
<1>1. /\ r \in Seq(S) /\ Len(r) = n + 1 /\ r[n + 1] = m
      /\ \A i \in 1 .. n : r[i] = q[i]
  BY AppendProperties
<1>2. n \in Nat /\ DOMAIN q = 1 .. n /\ DOMAIN r = 1 .. n + 1
  BY <1>1, LenProperties
<1>3. Range(r) = Range(q) \cup {m}
  BY RangeAppend
<1> HIDE DEF r, n
<1>4. ASSUME NEW A PROVE Has(r, A) <=> Has(q, A) \/ m \in A
  BY <1>3 DEF Has
<1>5. ASSUME NEW A PROVE Has(q, A) <=> \E i \in 1 .. n : q[i] \in A
  BY <1>2 DEF Has, Range
<1>6. ASSUME NEW A, NEW B
      PROVE  NoneAfter(r, A, B) <=> NoneAfter(q, A, B) /\ (m \in B => ~Has(q, A))
  <2>1. ASSUME NoneAfter(r, A, B) PROVE NoneAfter(q, A, B) /\ (m \in B => ~Has(q, A))
    BY <1>1, <1>2, <1>5, <2>1 DEF NoneAfter
  <2>2. ASSUME NoneAfter(q, A, B), m \in B => ~Has(q, A),
               NEW i \in 1 .. n + 1, NEW j \in 1 .. n + 1, i < j, r[i] \in A
        PROVE  r[j] \notin B
    <3>1. i \in 1 .. n /\ q[i] \in A
      BY <1>1, <1>2, <2>2
    <3>2. CASE j = n + 1
      BY <1>1, <1>5, <2>2, <3>1, <3>2
    <3>3. CASE j # n + 1
      BY <1>1, <1>2, <2>2, <3>1, <3>3 DEF NoneAfter
    <3> QED
      BY <3>2, <3>3
  <2>3. ASSUME NoneAfter(q, A, B), m \in B => ~Has(q, A) PROVE NoneAfter(r, A, B)
    BY <1>2, <2>2, <2>3 DEF NoneAfter
  <2> QED
    BY <2>1, <2>3
<1>7. ASSUME NEW A, NEW B
      PROVE  Led(r, A, B) <=> Led(q, A, B) /\ (m \in B => Has(q, A))
  <2>1. ASSUME Led(r, A, B) PROVE Led(q, A, B) /\ (m \in B => Has(q, A))
    <3>1. ASSUME NEW j \in 1 .. n, q[j] \in B PROVE \E i \in 1 .. n : i < j /\ q[i] \in A
      BY <1>1, <1>2, <2>1, <3>1 DEF Led
    <3>2. ASSUME m \in B PROVE Has(q, A)
      <4>1. n + 1 \in DOMAIN r /\ r[n + 1] \in B
        BY <1>1, <1>2, <3>2
      <4>2. PICK i \in DOMAIN r : i < n + 1 /\ r[i] \in A
        BY <2>1, <4>1 DEF Led
      <4>3. i \in 1 .. n /\ q[i] \in A
        BY <1>1, <1>2, <4>2
      <4> QED
        BY <1>5, <4>3
    <3> QED
      BY <1>2, <3>1, <3>2 DEF Led
  <2>2. ASSUME Led(q, A, B), m \in B => Has(q, A), NEW j \in 1 .. n + 1, r[j] \in B
        PROVE  \E i \in 1 .. n + 1 : i < j /\ r[i] \in A
    <3>1. CASE j = n + 1
      <4>1. PICK i \in 1 .. n : q[i] \in A
        BY <1>1, <1>5, <2>2, <3>1
      <4> QED
        BY <1>1, <1>2, <3>1, <4>1
    <3>2. CASE j # n + 1
      <4>1. j \in 1 .. n /\ q[j] \in B
        BY <1>1, <1>2, <2>2, <3>2
      <4>2. PICK i \in 1 .. n : i < j /\ q[i] \in A
        BY <1>2, <2>2, <4>1 DEF Led
      <4> QED
        BY <1>1, <1>2, <4>1, <4>2
    <3> QED
      BY <3>1, <3>2
  <2>3. ASSUME Led(q, A, B), m \in B => Has(q, A) PROVE Led(r, A, B)
    BY <1>2, <2>2, <2>3 DEF Led
  <2> QED
    BY <2>1, <2>3
<1>8. Gained(q, r, m)
  BY <1>4, <1>6, <1>7 DEF Gained
<1> QED
  BY <1>1, <1>8 DEF r

LEMMA TakenFirst ==
    ASSUME NEW S, NEW q \in Seq(S), 1 \in DOMAIN q,
           NEW r, r = q \/ r = RemoveAt(q, 1)
    PROVE  Taken(q, r, q[1])
<1> DEFINE n == Len(q)
           m == q[1]
<1>1. n \in Nat \ {0} /\ DOMAIN q = 1 .. n /\ 1 \in 1 .. n
  BY LenProperties
<1> HIDE DEF n
<1>2. CASE r = q
  <2>1. ASSUME NEW A PROVE Has(q, A) <=> Has(r, A) \/ m \in A
    BY <1>1, <1>2 DEF Has, Range
  <2>2. ASSUME NEW A, NEW B, NoneAfter(q, A, B)
        PROVE  NoneAfter(r, A, B) /\ (m \in A /\ m \notin B => ~Has(r, B))
    <3>1. ASSUME m \in A, m \notin B, NEW j \in 1 .. n, q[j] \in B PROVE FALSE
      <4>1. 1 < j
        BY <1>1, <3>1
      <4> QED
        BY <1>1, <2>2, <3>1, <4>1 DEF NoneAfter
    <3> QED
      BY <1>1, <1>2, <2>2, <3>1 DEF Has, Range
  <2>3. ASSUME NEW A, NEW B, Led(q, A, B)
        PROVE  m \notin B /\ (m \in A \/ Led(r, A, B))
    BY <1>1, <1>2, <2>3 DEF Led
  <2> QED
    BY <2>1, <2>2, <2>3 DEF Taken
<1>3. CASE r = RemoveAt(q, 1)
  <2>1. /\ r \in Seq(S) /\ Len(r) = n - 1
        /\ \A j \in DOMAIN r : r[j] = IF j < 1 THEN q[j] ELSE q[j + 1]
    BY <1>3, RemoveAtProperties DEF n
  <2>2. DOMAIN r = 1 .. n - 1
    BY <2>1, LenProperties
  <2>3. \A j \in 1 .. n - 1 : r[j] = q[j + 1]
    BY <1>1, <2>1, <2>2
  <2>4. \A j \in 2 .. n : j - 1 \in 1 .. n - 1 /\ r[j - 1] = q[j]
    BY <1>1, <2>3
  <2>5. ASSUME NEW A PROVE Has(q, A) <=> Has(r, A) \/ m \in A
    <3>1. ASSUME NEW j \in 1 .. n, q[j] \in A PROVE Has(r, A) \/ m \in A
      <4>1. CASE j = 1
        BY <3>1, <4>1
      <4>2. CASE j # 1
        <5>1. j \in 2 .. n
          BY <1>1, <4>2
        <5> QED
          BY <2>2, <2>4, <3>1, <5>1 DEF Has, Range
      <4> QED
        BY <4>1, <4>2
    <3>2. ASSUME NEW j \in 1 .. n - 1, r[j] \in A PROVE Has(q, A)
      <4>1. j + 1 \in 1 .. n
        BY <1>1
      <4> QED
        BY <1>1, <2>3, <3>2, <4>1 DEF Has, Range
    <3> QED
      BY <1>1, <2>2, <3>1, <3>2 DEF Has, Range
  <2>6. ASSUME NEW A, NEW B, NoneAfter(q, A, B)
        PROVE  NoneAfter(r, A, B) /\ (m \in A /\ m \notin B => ~Has(r, B))
    <3>1. ASSUME NEW i \in 1 .. n - 1, NEW j \in 1 .. n - 1, i < j, r[i] \in A PROVE r[j] \notin B
      <4>1. i + 1 \in 1 .. n /\ j + 1 \in 1 .. n /\ i + 1 < j + 1
        BY <1>1, <3>1
      <4> QED
        BY <1>1, <2>3, <2>6, <3>1, <4>1 DEF NoneAfter
    <3>2. ASSUME m \in A, NEW j \in 1 .. n - 1, r[j] \in B PROVE FALSE
      <4>1. j + 1 \in 1 .. n /\ 1 < j + 1
        BY <1>1
      <4> QED
        BY <1>1, <2>3, <2>6, <3>2, <4>1 DEF NoneAfter
    <3> QED
      BY <2>2, <3>1, <3>2 DEF NoneAfter, Has, Range
  <2>7. ASSUME NEW A, NEW B, Led(q, A, B)
        PROVE  m \notin B /\ (m \in A \/ Led(r, A, B))
    <3>1. m \notin B
      BY <1>1, <2>7 DEF Led
    <3>2. ASSUME m \notin A, NEW j \in 1 .. n - 1, r[j] \in B
          PROVE  \E i \in 1 .. n - 1 : i < j /\ r[i] \in A
      <4>1. j + 1 \in 1 .. n /\ q[j + 1] \in B
        BY <1>1, <2>3, <3>2
      <4>2. PICK i \in 1 .. n : i < j + 1 /\ q[i] \in A
        BY <1>1, <2>7, <4>1 DEF Led
      <4>3. i \in 2 .. n
        BY <1>1, <3>2, <4>2
      <4>4. i - 1 \in 1 .. n - 1 /\ r[i - 1] \in A /\ i - 1 < j
        BY <1>1, <2>4, <4>2, <4>3
      <4> QED
        BY <4>4
    <3> QED
      BY <2>2, <3>1, <3>2 DEF Led
  <2> QED
    BY <2>5, <2>6, <2>7 DEF Taken
<1> QED
  BY <1>2, <1>3

(* A link on which m was put, if whom it is for is in the location table. *)
Passed(q, r, m) ==
    /\ \A A : Has(r, A) => Has(q, A) \/ m \in A
    /\ \A A, B : NoneAfter(q, A, B) /\ (m \in B => ~Has(q, A)) => NoneAfter(r, A, B)
Stamped(rec, s) == [state |-> s, stamps |-> rec.stamps \cup {Timestamp(s)}]

LEMMA PassedOn ==
    ASSUME NEW S, NEW q \in Seq(S), NEW m \in S, NEW r, r = q \/ r = Append(q, m)
    PROVE  Passed(q, r, m)
<1>1. CASE r = q
  BY <1>1 DEF Passed
<1>2. CASE r = Append(q, m)
  <2>1. Gained(q, r, m)
    BY <1>2, GainedByAppend
  <2> QED
    BY <2>1 DEF Gained, Passed
<1> QED
  BY <1>1, <1>2

LEMMA RecordStamped ==
    ASSUME NEW rec, RecordTyped(rec), NEW s \in States \ {"dialed"}
    PROVE  LET r == Stamped(rec, s)
           IN /\ RecordTyped(r) /\ r.state = s
              /\ Rang(rec) \/ s = "ringing" => Rang(r)
              /\ Answered(rec) \/ s = "answered" => Answered(r)
  BY DEF RecordTyped, Stamped, Rang, Answered, States, Stamps, Timestamp

LEMMA LinkTells ==
    ASSUME NEW c \in Calls, NEW d, NEW q \in Seq(Datagrams),
           \A m \in Range(q) : m.call = c => m \in Datagrams /\ Said(d, m)
              /\ (m.kind = "200" /\ m.of = "INVITE" => d.last = "200")
              /\ (m.of = "BYE" => d.last = "200") /\ (m.kind = "404" => d.to \notin Located)
              /\ IF IsRequest(m) THEN m.of = m.kind ELSE m.of # "ACK",
           \A m \in Range(q) : m \in Datagrams
    PROVE  Tells(c, d, q)
<1>1. \A m \in Range(q) : Sorted(c, m)
  BY DatagramsSorted
<1>2. /\ Has(q, ByeOrEnded(c)) => d.last = "200" /\ d.caller \in Past
      /\ Has(q, Late(c)) => d.caller \in Past
  BY <1>1 DEF Has, Sorted, Said, IsRequest, Methods
<1>3. /\ Has(q, Rings(c)) \/ Has(q, Finals(c)) => d.callee # "idle"
      /\ Has(q, NotFounds(c)) => d.to \notin Located
  BY <1>1 DEF Has, Sorted, Said, Statuses, Closed
<1>4. /\ Has(q, Finals(c)) \/ Has(q, CancelOks(c)) => d.last \in Closed
      /\ Has(q, Answers(c)) => d.last = "200"
      /\ Has(q, Declines(c)) => d.last = "603"
      /\ Has(q, Cancelled(c)) => d.last = "487"
  <2>1. \A m \in Range(q) : m \in Finals(c) =>
            m.of \in {"INVITE", "CANCEL", "BYE"}
    BY <1>1 DEF Sorted, IsRequest, Methods, Closed, Datagrams
  <2> QED
    BY <1>1, <2>1 DEF Has, Sorted, Said, Closed
<1>5. /\ Has(q, Byes(c)) \/ Has(q, Ended(c)) => Has(q, ByeOrEnded(c))
      /\ Has(q, ByeOrEnded(c)) => Has(q, Byes(c)) \/ Has(q, Ended(c))
      /\ Has(q, Byes(c)) => Has(q, Late(c))
      /\ Has(q, Ended(c)) => Has(q, Finals(c))
      /\ Has(q, Rings(c)) => Has(q, Other(c))
      /\ Has(q, Other(c)) => Has(q, Rings(c)) \/ Has(q, Finals(c))
  BY <1>1 DEF Has, Sorted, Closed
<1>6. /\ ~Has(q, Finals(c)) => Led(q, Rings(c), Finals(c))
      /\ ~Has(q, Cancelled(c)) => Led(q, CancelOks(c), Cancelled(c))
  BY DEF Has, Led, Range
<1> QED
  BY <1>2, <1>3, <1>4, <1>5, <1>6 DEF Tells

LEMMA SendsEarly ==
    ASSUME NEW c, NEW d, NEW rec, NEW uf, NEW ut, NEW df, NEW dt,
           Before(c, d, rec, uf, ut, df, dt),
           NEW m, Sorted(c, m), m.call = c, m.kind \in {"INVITE", "CANCEL"},
           NEW ufn, Gained(uf, ufn, m),
           d.caller \notin Past, NEW e, e = d \/ e = [d EXCEPT !.cancelled = TRUE]
    PROVE  CallInOrder(c, e, rec, ufn, ut, df, dt)
<1>0. /\ e.from = d.from /\ e.to = d.to /\ e.caller = d.caller /\ e.callee = d.callee
      /\ e.last = d.last /\ e.acked = d.acked /\ e.outcome = d.outcome /\ (d.cancelled => e.cancelled)
  BY DEF Before, Viewed, Views
<1>1. /\ Has(ufn, Late(c)) <=> Has(uf, Late(c))
      /\ Has(ufn, Ended(c)) <=> Has(uf, Ended(c))
      /\ NoneAfter(ufn, Late(c), Early(c)) <=> NoneAfter(uf, Late(c), Early(c)) /\ ~Has(uf, Late(c))
  BY DEF Gained, Sorted
<1>2. RequestsInOrder(c, e, ufn, ut, df, dt)
  BY <1>0, <1>1 DEF RequestsInOrder, Before, CallInOrder, Tells, Settled, Over, Heard
<1>3. ResponsesInOrder(c, e, ufn, ut, df, dt)
  BY <1>0, <1>1 DEF ResponsesInOrder, Before, CallInOrder, Ending, Over
<1>4. Recorded(c, e, rec, ufn, ut, df, dt)
  BY <1>0, <1>1
     DEF Recorded, Before, CallInOrder, Over, EndNoted, CancelNoted, DeclineNoted, ListsAnswered,
        Lists
<1> QED
  BY <1>2, <1>3, <1>4 DEF CallInOrder, Before

(* The callee answers, or refuses. *)
LEMMA CalleeDecides ==
    ASSUME NEW c, NEW d, NEW rec, NEW uf, NEW ut, NEW df, NEW dt,
           Before(c, d, rec, uf, ut, df, dt),
           d.callee = "ringing", NEW kind \in {"200", "486", "603"}, NEW s \in {"up", "over"},
           NEW e, e = [d EXCEPT !.callee = s, !.last = kind],
           NEW m, Sorted(c, m), m.call = c, m.kind = kind, m.of = "INVITE",
           NEW utn, Gained(ut, utn, m)
    PROVE  CallInOrder(c, e, rec, uf, utn, df, dt)
<1>0. /\ e.from = d.from /\ e.to = d.to /\ e.caller = d.caller /\ e.callee = s /\ e.callee # "idle"
      /\ e.last = kind /\ e.acked = d.acked /\ e.outcome = d.outcome /\ e.cancelled = d.cancelled
  BY DEF Before, Viewed, Views
<1>1. /\ Has(utn, ByeOrEnded(c)) <=> Has(ut, ByeOrEnded(c))
      /\ Has(utn, Rings(c)) <=> Has(ut, Rings(c))
      /\ Has(utn, Ended(c)) <=> Has(ut, Ended(c))
      /\ NoneAfter(utn, ByeOrEnded(c), Other(c)) <=> NoneAfter(ut, ByeOrEnded(c), Other(c)) /\ ~Has(ut, ByeOrEnded(c))
      /\ NoneAfter(utn, Finals(c), Rings(c)) <=> NoneAfter(ut, Finals(c), Rings(c))
      /\ Led(utn, Rings(c), Finals(c)) <=> Led(ut, Rings(c), Finals(c)) /\ Has(ut, Rings(c))
  BY DEF Gained, Sorted, Closed
<1>2. RequestsInOrder(c, e, uf, utn, df, dt)
  BY <1>1 DEF RequestsInOrder, Before, CallInOrder, Settled, Over
<1>3. ResponsesInOrder(c, e, uf, utn, df, dt)
  BY <1>1 DEF ResponsesInOrder, Before, CallInOrder, Tells, Ending, Over, Heard, Viewed
<1>4. Recorded(c, e, rec, uf, utn, df, dt)
  BY <1>1 DEF Recorded, Before, CallInOrder, Tells, Over, Heard, Viewed
<1> QED
  BY <1>2, <1>3, <1>4 DEF CallInOrder, Before

(* The callee hangs up. *)
LEMMA CalleeHangsUp ==
    ASSUME NEW c, NEW d, NEW rec, NEW uf, NEW ut, NEW df, NEW dt,
           Before(c, d, rec, uf, ut, df, dt),
           d.callee = "up", d.acked, NEW e, e = [d EXCEPT !.callee = "bye"],
           NEW m, Sorted(c, m), m.call = c, m.kind = "BYE",
           NEW utn, Gained(ut, utn, m)
    PROVE  CallInOrder(c, e, rec, uf, utn, df, dt)
<1>0. /\ e.from = d.from /\ e.to = d.to /\ e.caller = d.caller /\ e.callee = "bye"
      /\ e.last = d.last /\ e.acked = d.acked /\ e.outcome = d.outcome /\ e.cancelled = d.cancelled
  BY DEF Before, Viewed, Views
<1>1. /\ \A A \in {Rings(c), Ended(c), Other(c), CancelOks(c)} : Has(utn, A) <=> Has(ut, A)
      /\ NoneAfter(utn, ByeOrEnded(c), Other(c)) <=> NoneAfter(ut, ByeOrEnded(c), Other(c))
      /\ NoneAfter(utn, Finals(c), Rings(c)) <=> NoneAfter(ut, Finals(c), Rings(c))
      /\ Led(utn, Rings(c), Finals(c)) <=> Led(ut, Rings(c), Finals(c))
  BY DEF Gained, Sorted, Closed
<1>2. RequestsInOrder(c, e, uf, utn, df, dt)
  BY DEF RequestsInOrder, Before, CallInOrder, Settled
<1>3. ResponsesInOrder(c, e, uf, utn, df, dt)
  BY <1>1 DEF ResponsesInOrder, Before, CallInOrder, Ending, Over
<1>4. Recorded(c, e, rec, uf, utn, df, dt)
  BY <1>1
     DEF Recorded, Before, CallInOrder, Tells, Over, Heard, Viewed, EndNoted, ListsAnswered, Lists
<1> QED
  BY <1>2, <1>3, <1>4 DEF CallInOrder, Before

LEMMA SendsLate ==
    ASSUME NEW c, NEW d, NEW rec, NEW uf, NEW ut, NEW df, NEW dt,
           CallInOrder(c, d, rec, uf, ut, df, dt),
           NEW m, Sorted(c, m), m.call = c, m.kind \in {"ACK", "BYE"},
           NEW ufn, Gained(uf, ufn, m)
    PROVE  CallInOrder(c, d, rec, ufn, ut, df, dt)
<1>0. TRUE
  OBVIOUS
<1>1. /\ Has(ufn, Early(c)) <=> Has(uf, Early(c))
      /\ Has(ufn, Ended(c)) <=> Has(uf, Ended(c))
      /\ NoneAfter(ufn, Late(c), Early(c)) <=> NoneAfter(uf, Late(c), Early(c))
  BY DEF Gained, Sorted
<1>2. RequestsInOrder(c, d, ufn, ut, df, dt)
  BY <1>1 DEF RequestsInOrder, CallInOrder, Settled
<1>3. ResponsesInOrder(c, d, ufn, ut, df, dt)
  BY <1>1 DEF ResponsesInOrder, CallInOrder, Ending
<1>4. Recorded(c, d, rec, ufn, ut, df, dt)
  BY <1>1 DEF Recorded, CallInOrder
<1> QED
  BY <1>2, <1>3, <1>4 DEF CallInOrder

(* The caller takes a datagram that changes nothing but what it waits for. *)
LEMMA CallerTells ==
    ASSUME NEW c, NEW d, NEW rec, NEW uf, NEW ut, NEW df, NEW dt,
           Before(c, d, rec, uf, ut, df, dt),
           NEW x, NEW dfn, Taken(df, dfn, x),
           NEW e, \/ e = d
                  \/ d.caller = "calling" /\ e = [d EXCEPT !.caller = "proceeding"]
    PROVE  CallInOrder(c, e, rec, uf, ut, dfn, dt)
<1>0. /\ e.from = d.from /\ e.to = d.to /\ (e.caller = "over" <=> d.caller = "over") /\ e.callee = d.callee
      /\ e.last = d.last /\ e.acked = d.acked /\ e.cancelled = d.cancelled /\ e.outcome = d.outcome
  BY DEF Before, Viewed, Views
<1>1. \A A : Has(dfn, A) => Has(df, A)
  BY DEF Taken
<1>2. RequestsInOrder(c, e, uf, ut, dfn, dt)
  BY <1>0, <1>1 DEF RequestsInOrder, Before, CallInOrder, Settled, Over
<1>3. ResponsesInOrder(c, e, uf, ut, dfn, dt)
  BY <1>0, <1>1 DEF ResponsesInOrder, Before, CallInOrder, Ending, Over
<1>4. Recorded(c, e, rec, uf, ut, dfn, dt)
  BY <1>0, <1>1
     DEF Recorded, Before, CallInOrder, Tells, Over, Past, CancelNoted, DeclineNoted,
        ListsAnswered, Lists
<1> QED
  BY <1>2, <1>3, <1>4 DEF CallInOrder, Before

(* It takes the OK to its INVITE. *)
LEMMA CallerAnswered ==
    ASSUME NEW c, NEW d, NEW rec, NEW uf, NEW ut, NEW df, NEW dt,
           Before(c, d, rec, uf, ut, df, dt),
           d.caller \in {"calling", "proceeding"},
           NEW x, Sorted(c, x), x.call = c, x.kind = "200", x.of = "INVITE", NEW dfn, Taken(df, dfn, x),
           NEW s \in {"up", "bye"}, NEW e, e = [d EXCEPT !.caller = s, !.outcome = "completed"]
    PROVE  CallInOrder(c, e, rec, uf, ut, dfn, dt)
<1>0. /\ e.from = d.from /\ e.to = d.to /\ e.caller = s /\ e.callee = d.callee
      /\ e.last = d.last /\ e.acked = d.acked /\ e.cancelled = d.cancelled /\ e.outcome = "completed"
  BY DEF Before, Viewed, Views
<1>1. Has(df, Answers(c)) /\ \A A : Has(dfn, A) => Has(df, A)
  BY DEF Taken, Sorted
<1>2. RequestsInOrder(c, e, uf, ut, dfn, dt)
  BY <1>1 DEF RequestsInOrder, Before, CallInOrder, Settled, Over
<1>3. ResponsesInOrder(c, e, uf, ut, dfn, dt)
  BY <1>1 DEF ResponsesInOrder, Before, CallInOrder, Ending, Over
<1>4. Recorded(c, e, rec, uf, ut, dfn, dt)
  BY <1>1 DEF Recorded, Before, CallInOrder, Tells, Over, Past
<1> QED
  BY <1>2, <1>3, <1>4 DEF CallInOrder, Before

(* It takes a final response that is no OK. *)
LEMMA CallerRefused ==
    ASSUME NEW c, NEW d, NEW rec, NEW uf, NEW ut, NEW df, NEW dt,
           Before(c, d, rec, uf, ut, df, dt),
           d.caller \in {"calling", "proceeding"},
           NEW x, Sorted(c, x), x.call = c, x.kind \in {"404", "487", "603"}, NEW dfn, Taken(df, dfn, x),
           NEW e, e = [d EXCEPT !.caller = "over", !.outcome = Final[x.kind]]
    PROVE  CallInOrder(c, e, rec, uf, ut, dfn, dt)
<1>0. /\ e.from = d.from /\ e.to = d.to /\ e.caller = "over" /\ e.callee = d.callee
      /\ e.last = d.last /\ e.acked = d.acked /\ e.cancelled = d.cancelled /\ e.outcome = Final[x.kind]
  BY DEF Before, Viewed, Views
<1>1. /\ \A A : Has(dfn, A) => Has(df, A)
      /\ \/ Has(df, NotFounds(c)) /\ Final[x.kind] = "failed"
         \/ Has(df, Cancelled(c)) /\ Final[x.kind] = "cancelled"
         \/ Has(df, Declines(c)) /\ Final[x.kind] = "declined"
  BY DEF Taken, Sorted, Final
<1>2. RequestsInOrder(c, e, uf, ut, dfn, dt)
  BY <1>1 DEF RequestsInOrder, Before, CallInOrder, Settled, Over
<1>3. ResponsesInOrder(c, e, uf, ut, dfn, dt)
  BY <1>1 DEF ResponsesInOrder, Before, CallInOrder, Ending, Over
<1>4. Recorded(c, e, rec, uf, ut, dfn, dt)
  BY <1>1
     DEF Recorded, Before, CallInOrder, Tells, Over, Viewed, CancelNoted, DeclineNoted,
        ListsAnswered, Lists
<1> QED
  BY <1>2, <1>3, <1>4 DEF CallInOrder, Before

(* It takes the OK to its BYE. *)
LEMMA CallerEnded ==
    ASSUME NEW c, NEW d, NEW rec, NEW uf, NEW ut, NEW df, NEW dt,
           Before(c, d, rec, uf, ut, df, dt),
           NEW x, Sorted(c, x), x.call = c, x.kind = "200", x.of = "BYE", NEW dfn, Taken(df, dfn, x),
           NEW e, e = [d EXCEPT !.caller = "over"]
    PROVE  CallInOrder(c, e, rec, uf, ut, dfn, dt)
<1>0. /\ e.from = d.from /\ e.to = d.to /\ e.caller = "over" /\ e.callee = d.callee
      /\ e.last = d.last /\ e.acked = d.acked /\ e.cancelled = d.cancelled /\ e.outcome = d.outcome
  BY DEF Before, Viewed, Views
<1>1. Has(df, Ended(c)) /\ Has(df, ByeOrEnded(c)) /\ \A A : Has(dfn, A) => Has(df, A)
  BY DEF Taken, Sorted
<1>2. RequestsInOrder(c, e, uf, ut, dfn, dt)
  BY <1>1 DEF RequestsInOrder, Before, CallInOrder, Settled
<1>3. ResponsesInOrder(c, e, uf, ut, dfn, dt)
  BY <1>1 DEF ResponsesInOrder, Before, CallInOrder, Ending
<1>4. Recorded(c, e, rec, uf, ut, dfn, dt)
  BY <1>1 DEF Recorded, Before, CallInOrder, Tells, Heard, EndNoted, ListsAnswered, Lists
<1> QED
  BY <1>2, <1>3, <1>4 DEF CallInOrder, Before

(* It takes a BYE. *)
LEMMA CallerHungUpOn ==
    ASSUME NEW c, NEW d, NEW rec, NEW uf, NEW ut, NEW df, NEW dt,
           Before(c, d, rec, uf, ut, df, dt),
           NEW x, Sorted(c, x), x.call = c, x.kind = "BYE", NEW dfn, Taken(df, dfn, x),
           NEW e, e = [d EXCEPT !.caller = IF @ = "up" THEN "over" ELSE @],
           NEW m, Sorted(c, m), m.call = c, m.kind = "200", m.of = "BYE", NEW ufn, Gained(uf, ufn, m)
    PROVE  CallInOrder(c, e, rec, ufn, ut, dfn, dt)
<1>0. /\ e.from = d.from /\ e.to = d.to /\ e.callee = d.callee /\ e.last = d.last /\ e.acked = d.acked
      /\ e.cancelled = d.cancelled /\ e.outcome = d.outcome
  BY DEF Before, Viewed, Views
<1>1. /\ Has(df, ByeOrEnded(c)) /\ Has(ufn, Ended(c)) /\ \A A : Has(dfn, A) => Has(df, A)
      /\ Has(ufn, Early(c)) <=> Has(uf, Early(c))
      /\ NoneAfter(ufn, Late(c), Early(c)) <=> NoneAfter(uf, Late(c), Early(c))
  BY DEF Taken, Gained, Sorted
<1>2. RequestsInOrder(c, e, ufn, ut, dfn, dt)
  BY <1>1 DEF RequestsInOrder, Before, CallInOrder, Settled
<1>3. ResponsesInOrder(c, e, ufn, ut, dfn, dt)
  BY <1>1 DEF ResponsesInOrder, Before, CallInOrder, Ending
<1>4. Recorded(c, e, rec, ufn, ut, dfn, dt)
  BY <1>1 DEF Recorded, Before, CallInOrder, Tells, Heard
<1> QED
  BY <1>2, <1>3, <1>4 DEF CallInOrder, Before

(* The callee takes a datagram that means nothing to it. *)
LEMMA CalleeIgnores ==
    ASSUME NEW c, NEW d, NEW rec, NEW uf, NEW ut, NEW df, NEW dt,
           Before(c, d, rec, uf, ut, df, dt),
           NEW x, NEW dtn, Taken(dt, dtn, x)
    PROVE  CallInOrder(c, d, rec, uf, ut, df, dtn)
<1>0. TRUE
  OBVIOUS
<1>1. /\ \A A : Has(dtn, A) => Has(dt, A)
      /\ NoneAfter(dt, Late(c), Early(c)) => NoneAfter(dtn, Late(c), Early(c))
  BY DEF Taken
<1>2. RequestsInOrder(c, d, uf, ut, df, dtn)
  BY <1>1 DEF RequestsInOrder, Before, CallInOrder, Settled
<1>3. ResponsesInOrder(c, d, uf, ut, df, dtn)
  BY <1>1 DEF ResponsesInOrder, Before, CallInOrder, Ending
<1>4. Recorded(c, d, rec, uf, ut, df, dtn)
  BY <1>1 DEF Recorded, Before, CallInOrder
<1> QED
  BY <1>2, <1>3, <1>4 DEF CallInOrder, Before

(* The first INVITE makes it ring. *)
LEMMA CalleeRings ==
    ASSUME NEW c, NEW d, NEW rec, NEW uf, NEW ut, NEW df, NEW dt,
           Before(c, d, rec, uf, ut, df, dt),
           d.callee = "idle", d.to \in Located,
           NEW x, NEW dtn, Taken(dt, dtn, x), NEW e, e = [d EXCEPT !.callee = "ringing", !.last = "180"],
           NEW m, Sorted(c, m), m.call = c, m.kind = "180", NEW utn, Gained(ut, utn, m)
    PROVE  CallInOrder(c, e, rec, uf, utn, df, dtn)
<1>0. /\ e.from = d.from /\ e.to = d.to /\ e.caller = d.caller /\ e.callee = "ringing"
      /\ e.last = "180" /\ e.acked = d.acked /\ e.cancelled = d.cancelled /\ e.outcome = d.outcome
  BY DEF Before, Viewed, Views
<1>1. /\ \A A : Has(dtn, A) => Has(dt, A)
      /\ NoneAfter(dt, Late(c), Early(c)) => NoneAfter(dtn, Late(c), Early(c))
      /\ \A A \in {ByeOrEnded(c), Finals(c), Ended(c)} : Has(utn, A) <=> Has(ut, A)
      /\ Has(utn, Rings(c))
      /\ NoneAfter(utn, ByeOrEnded(c), Other(c)) <=> NoneAfter(ut, ByeOrEnded(c), Other(c)) /\ ~Has(ut, ByeOrEnded(c))
      /\ NoneAfter(utn, Finals(c), Rings(c)) <=> NoneAfter(ut, Finals(c), Rings(c)) /\ ~Has(ut, Finals(c))
      /\ Led(utn, Rings(c), Finals(c)) <=> Led(ut, Rings(c), Finals(c))
  BY DEF Taken, Gained, Sorted, Closed
<1>2. RequestsInOrder(c, e, uf, utn, df, dtn)
  BY <1>1 DEF RequestsInOrder, Before, CallInOrder, Settled, Over
<1>3. ResponsesInOrder(c, e, uf, utn, df, dtn)
  BY <1>1 DEF ResponsesInOrder, Before, CallInOrder, Tells, Ending, Over, Heard, Viewed
<1>4. Recorded(c, e, rec, uf, utn, df, dtn)
  BY <1>1 DEF Recorded, Before, CallInOrder, Tells, Over, Heard, Viewed
<1> QED
  BY <1>2, <1>3, <1>4 DEF CallInOrder, Before

(* A repeated INVITE gets the last response again. *)
LEMMA CalleeRepeats ==
    ASSUME NEW c, NEW d, NEW rec, NEW uf, NEW ut, NEW df, NEW dt,
           Before(c, d, rec, uf, ut, df, dt),
           d.callee # "idle",
           NEW x, Sorted(c, x), x.call = c, x.kind = "INVITE", NEW dtn, Taken(dt, dtn, x),
           NEW m, Sorted(c, m), m.call = c, m.kind = d.last, m.of = "INVITE", NEW utn, Gained(ut, utn, m)
    PROVE  CallInOrder(c, d, rec, uf, utn, df, dtn)
<1>0. d.last \in {"180", "200", "486", "487", "603"}
  BY DEF Before, Viewed, Views
<1>1. /\ \A A : Has(dtn, A) => Has(dt, A)
      /\ NoneAfter(dt, Late(c), Early(c)) => NoneAfter(dtn, Late(c), Early(c))
      /\ \A A \in {ByeOrEnded(c), Ended(c), CancelOks(c)} : Has(utn, A) <=> Has(ut, A)
      /\ Has(dt, Early(c))
      /\ NoneAfter(utn, ByeOrEnded(c), Other(c)) <=> NoneAfter(ut, ByeOrEnded(c), Other(c)) /\ ~Has(ut, ByeOrEnded(c))
      /\ IF d.last = "180"
         THEN /\ Has(utn, Rings(c))
              /\ NoneAfter(utn, Finals(c), Rings(c)) <=> NoneAfter(ut, Finals(c), Rings(c)) /\ ~Has(ut, Finals(c))
              /\ Led(utn, Rings(c), Finals(c)) <=> Led(ut, Rings(c), Finals(c))
         ELSE /\ Has(utn, Rings(c)) <=> Has(ut, Rings(c))
              /\ NoneAfter(utn, Finals(c), Rings(c)) <=> NoneAfter(ut, Finals(c), Rings(c))
              /\ Led(utn, Rings(c), Finals(c)) <=> Led(ut, Rings(c), Finals(c)) /\ Has(ut, Rings(c))
      /\ Led(utn, CancelOks(c), Cancelled(c)) <=>
            Led(ut, CancelOks(c), Cancelled(c)) /\ (d.last = "487" => Has(ut, CancelOks(c)))
  BY <1>0 DEF Taken, Gained, Sorted, Closed
<1>2. RequestsInOrder(c, d, uf, utn, df, dtn)
  BY <1>1 DEF RequestsInOrder, Before, CallInOrder, Settled
<1>3. ResponsesInOrder(c, d, uf, utn, df, dtn)
  BY <1>1
     DEF ResponsesInOrder, RequestsInOrder, Settled, Before, CallInOrder, Tells, Ending, Closed
<1>4. Recorded(c, d, rec, uf, utn, df, dtn)
  BY <1>1 DEF Recorded, Before, CallInOrder, Viewed
<1> QED
  BY <1>2, <1>3, <1>4 DEF CallInOrder, Before

(* A CANCEL that is too late only gets an OK. *)
LEMMA CalleeTooLate ==
    ASSUME NEW c, NEW d, NEW rec, NEW uf, NEW ut, NEW df, NEW dt,
           Before(c, d, rec, uf, ut, df, dt),
           d.callee \notin {"idle", "ringing"}, d.last \in Closed,
           NEW x, Sorted(c, x), x.call = c, x.kind = "CANCEL", NEW dtn, Taken(dt, dtn, x),
           NEW m, Sorted(c, m), m.call = c, m.kind = "200", m.of = "CANCEL", NEW utn, Gained(ut, utn, m)
    PROVE  CallInOrder(c, d, rec, uf, utn, df, dtn)
<1>0. d.last \in Closed
  OBVIOUS
<1>1. /\ \A A : Has(dtn, A) => Has(dt, A)
      /\ NoneAfter(dt, Late(c), Early(c)) => NoneAfter(dtn, Late(c), Early(c))
      /\ \A A \in {ByeOrEnded(c), Ended(c), Rings(c)} : Has(utn, A) <=> Has(ut, A)
      /\ Has(dt, Early(c)) /\ Has(utn, CancelOks(c))
      /\ NoneAfter(utn, ByeOrEnded(c), Other(c)) <=> NoneAfter(ut, ByeOrEnded(c), Other(c)) /\ ~Has(ut, ByeOrEnded(c))
      /\ NoneAfter(utn, Finals(c), Rings(c)) <=> NoneAfter(ut, Finals(c), Rings(c))
      /\ Led(utn, Rings(c), Finals(c)) <=> Led(ut, Rings(c), Finals(c)) /\ Has(ut, Rings(c))
      /\ Led(utn, CancelOks(c), Cancelled(c)) <=> Led(ut, CancelOks(c), Cancelled(c))
  BY DEF Taken, Gained, Sorted, Closed
<1>2. RequestsInOrder(c, d, uf, utn, df, dtn)
  BY <1>1 DEF RequestsInOrder, Before, CallInOrder, Settled
<1>3. ResponsesInOrder(c, d, uf, utn, df, dtn)
  BY <1>1 DEF ResponsesInOrder, RequestsInOrder, Settled, Before, CallInOrder, Ending
<1>4. Recorded(c, d, rec, uf, utn, df, dtn)
  BY <1>1 DEF Recorded, Before, CallInOrder
<1> QED
  BY <1>2, <1>3, <1>4 DEF CallInOrder, Before

(* A CANCEL in time gets an OK and ends the INVITE. *)
LEMMA CalleeCancelled ==
    ASSUME NEW c, NEW d, NEW rec, NEW uf, NEW ut, NEW df, NEW dt,
           Before(c, d, rec, uf, ut, df, dt),
           d.callee = "ringing", NEW e, e = [d EXCEPT !.callee = "over", !.last = "487"],
           NEW x, Sorted(c, x), x.call = c, x.kind = "CANCEL", NEW dtn, Taken(dt, dtn, x),
           NEW m, Sorted(c, m), m.call = c, m.kind = "200", m.of = "CANCEL", NEW utn, Gained(ut, utn, m),
           NEW n, Sorted(c, n), n.call = c, n.kind = "487", NEW utx, Gained(utn, utx, n)
    PROVE  CallInOrder(c, e, rec, uf, utx, df, dtn)
<1>0. /\ e.from = d.from /\ e.to = d.to /\ e.caller = d.caller /\ e.callee = "over"
      /\ e.last = "487" /\ e.acked = d.acked /\ e.cancelled = d.cancelled /\ e.outcome = d.outcome
  BY DEF Before, Viewed, Views
<1>a. /\ \A A : Has(dtn, A) => Has(dt, A)
      /\ NoneAfter(dt, Late(c), Early(c)) => NoneAfter(dtn, Late(c), Early(c))
      /\ \A A \in {ByeOrEnded(c), Ended(c), Rings(c)} : Has(utn, A) <=> Has(ut, A)
      /\ Has(dt, Early(c)) /\ Has(utn, CancelOks(c))
      /\ NoneAfter(utn, ByeOrEnded(c), Other(c)) <=> NoneAfter(ut, ByeOrEnded(c), Other(c)) /\ ~Has(ut, ByeOrEnded(c))
      /\ NoneAfter(utn, Finals(c), Rings(c)) <=> NoneAfter(ut, Finals(c), Rings(c))
      /\ Led(utn, Rings(c), Finals(c)) <=> Led(ut, Rings(c), Finals(c)) /\ Has(ut, Rings(c))
      /\ Led(utn, CancelOks(c), Cancelled(c)) <=> Led(ut, CancelOks(c), Cancelled(c))
  BY DEF Taken, Gained, Sorted, Closed
<1>b. /\ \A A \in {ByeOrEnded(c), Ended(c), Rings(c), CancelOks(c)} : Has(utx, A) <=> Has(utn, A)
      /\ NoneAfter(utx, ByeOrEnded(c), Other(c)) <=> NoneAfter(utn, ByeOrEnded(c), Other(c)) /\ ~Has(utn, ByeOrEnded(c))
      /\ NoneAfter(utx, Finals(c), Rings(c)) <=> NoneAfter(utn, Finals(c), Rings(c))
      /\ Led(utx, Rings(c), Finals(c)) <=> Led(utn, Rings(c), Finals(c)) /\ Has(utn, Rings(c))
      /\ Led(utx, CancelOks(c), Cancelled(c)) <=> Led(utn, CancelOks(c), Cancelled(c)) /\ Has(utn, CancelOks(c))
  BY DEF Gained, Sorted, Closed
<1>2. RequestsInOrder(c, e, uf, utx, df, dtn)
  BY <1>a, <1>b DEF RequestsInOrder, Before, CallInOrder, Settled, Over
<1>3. ResponsesInOrder(c, e, uf, utx, df, dtn)
  BY <1>a, <1>b DEF ResponsesInOrder, RequestsInOrder, Settled, Before, CallInOrder, Ending, Over
<1>4. Recorded(c, e, rec, uf, utx, df, dtn)
  BY <1>a, <1>b DEF Recorded, Before, CallInOrder, Tells, Over, Heard, Viewed
<1> QED
  BY <1>2, <1>3, <1>4 DEF CallInOrder, Before

(* An ACK comes after everything before it. *)
LEMMA CalleeAcked ==
    ASSUME NEW c, NEW d, NEW rec, NEW uf, NEW ut, NEW df, NEW dt,
           Before(c, d, rec, uf, ut, df, dt),
           NEW x, Sorted(c, x), x.call = c, x.kind = "ACK", NEW dtn, Taken(dt, dtn, x),
           NEW e, e = [d EXCEPT !.acked = TRUE]
    PROVE  CallInOrder(c, e, rec, uf, ut, df, dtn)
<1>0. /\ e.from = d.from /\ e.to = d.to /\ e.caller = d.caller /\ e.callee = d.callee
      /\ e.last = d.last /\ e.acked = TRUE /\ e.cancelled = d.cancelled /\ e.outcome = d.outcome
  BY DEF Before, Viewed, Views
<1>1. /\ \A A : Has(dtn, A) => Has(dt, A)
      /\ NoneAfter(dt, Late(c), Early(c)) => NoneAfter(dtn, Late(c), Early(c))
      /\ Has(dt, Late(c)) /\ (NoneAfter(dt, Late(c), Early(c)) => ~Has(dtn, Early(c)))
  BY DEF Taken, Sorted
<1>2. RequestsInOrder(c, e, uf, ut, df, dtn)
  BY <1>1 DEF RequestsInOrder, Before, CallInOrder
<1>3. ResponsesInOrder(c, e, uf, ut, df, dtn)
  BY <1>1 DEF ResponsesInOrder, Before, CallInOrder, Ending, Over
<1>4. Recorded(c, e, rec, uf, ut, df, dtn)
  BY <1>1
     DEF Recorded, Before, CallInOrder, Over, EndNoted, CancelNoted, DeclineNoted, ListsAnswered,
        Lists
<1> QED
  BY <1>2, <1>3, <1>4 DEF CallInOrder, Before

(* A BYE, too. *)
LEMMA CalleeHungUpOn ==
    ASSUME NEW c, NEW d, NEW rec, NEW uf, NEW ut, NEW df, NEW dt,
           Before(c, d, rec, uf, ut, df, dt),
           NEW x, Sorted(c, x), x.call = c, x.kind = "BYE", NEW dtn, Taken(dt, dtn, x),
           NEW e, e = [d EXCEPT !.callee = IF @ = "up" THEN "over" ELSE @],
           NEW m, Sorted(c, m), m.call = c, m.kind = "200", m.of = "BYE", NEW utn, Gained(ut, utn, m)
    PROVE  CallInOrder(c, e, rec, uf, utn, df, dtn)
<1>0. /\ e.from = d.from /\ e.to = d.to /\ e.caller = d.caller /\ (e.callee = "idle" <=> d.callee = "idle")
      /\ e.last = d.last /\ e.acked = d.acked /\ e.cancelled = d.cancelled /\ e.outcome = d.outcome
  BY DEF Before, Viewed, Views
<1>1. /\ \A A : Has(dtn, A) => Has(dt, A)
      /\ NoneAfter(dt, Late(c), Early(c)) => NoneAfter(dtn, Late(c), Early(c))
      /\ \A A \in {Rings(c), Other(c), CancelOks(c)} : Has(utn, A) <=> Has(ut, A)
      /\ Has(dt, Late(c)) /\ (NoneAfter(dt, Late(c), Early(c)) => ~Has(dtn, Early(c)))
      /\ Has(utn, Ended(c)) /\ Has(dt, ByeOrEnded(c))
      /\ NoneAfter(utn, ByeOrEnded(c), Other(c)) <=> NoneAfter(ut, ByeOrEnded(c), Other(c))
      /\ NoneAfter(utn, Finals(c), Rings(c)) <=> NoneAfter(ut, Finals(c), Rings(c))
      /\ Led(utn, Rings(c), Finals(c)) <=> Led(ut, Rings(c), Finals(c)) /\ Has(ut, Rings(c))
      /\ Led(utn, CancelOks(c), Cancelled(c)) <=> Led(ut, CancelOks(c), Cancelled(c))
  BY DEF Taken, Gained, Sorted, Closed
<1>2. RequestsInOrder(c, e, uf, utn, df, dtn)
  BY <1>1 DEF RequestsInOrder, Before, CallInOrder
<1>3. ResponsesInOrder(c, e, uf, utn, df, dtn)
  BY <1>1 DEF ResponsesInOrder, Before, CallInOrder, Ending, Over
<1>4. Recorded(c, e, rec, uf, utn, df, dtn)
  BY <1>1 DEF Recorded, Before, CallInOrder, Tells, Heard, Viewed
<1> QED
  BY <1>2, <1>3, <1>4 DEF CallInOrder, Before

(* It takes the OK to its BYE. *)
LEMMA CalleeEnded ==
    ASSUME NEW c, NEW d, NEW rec, NEW uf, NEW ut, NEW df, NEW dt,
           Before(c, d, rec, uf, ut, df, dt),
           d.callee # "idle", NEW x, Sorted(c, x), x.call = c, x.kind = "200", x.of = "BYE", NEW dtn, Taken(dt, dtn, x),
           NEW e, e = [d EXCEPT !.callee = "over"]
    PROVE  CallInOrder(c, e, rec, uf, ut, df, dtn)
<1>0. /\ e.from = d.from /\ e.to = d.to /\ e.caller = d.caller /\ e.callee = "over"
      /\ e.last = d.last /\ e.acked = d.acked /\ e.cancelled = d.cancelled /\ e.outcome = d.outcome
  BY DEF Before, Viewed, Views
<1>1. /\ \A A : Has(dtn, A) => Has(dt, A)
      /\ NoneAfter(dt, Late(c), Early(c)) => NoneAfter(dtn, Late(c), Early(c))
  BY DEF Taken
<1>2. RequestsInOrder(c, e, uf, ut, df, dtn)
  BY <1>1 DEF RequestsInOrder, Before, CallInOrder, Settled, Over
<1>3. ResponsesInOrder(c, e, uf, ut, df, dtn)
  BY <1>1 DEF ResponsesInOrder, Before, CallInOrder, Ending, Over
<1>4. Recorded(c, e, rec, uf, ut, df, dtn)
  BY <1>1
     DEF Recorded, Before, CallInOrder, Over, EndNoted, CancelNoted, DeclineNoted, ListsAnswered,
        Lists
<1> QED
  BY <1>2, <1>3, <1>4 DEF CallInOrder, Before

(* The proxy passes on an INVITE or a CANCEL. *)
LEMMA EarlyPasses ==
    ASSUME NEW c, NEW d, NEW rec, NEW uf, NEW ut, NEW df, NEW dt,
           Before(c, d, rec, uf, ut, df, dt),
           NEW m, Sorted(c, m), m.call = c, m.kind \in {"INVITE", "CANCEL"},
           NEW ufn, Taken(uf, ufn, m), NEW dtn, Passed(dt, dtn, m)
    PROVE  CallInOrder(c, d, rec, ufn, ut, df, dtn)
<1>0. Has(uf, Early(c)) /\ (Has(uf, Ended(c)) <=> Has(ufn, Ended(c)))
  BY DEF Taken, Sorted
<1>1. /\ \A A : Has(ufn, A) => Has(uf, A)
      /\ NoneAfter(uf, Late(c), Early(c)) => NoneAfter(ufn, Late(c), Early(c))
      /\ NoneAfter(dt, Late(c), Early(c)) /\ ~Has(dt, Late(c)) => NoneAfter(dtn, Late(c), Early(c))
      /\ Has(dtn, Late(c)) => Has(dt, Late(c))
      /\ Has(dtn, Ended(c)) => Has(dt, Ended(c))
  BY DEF Taken, Passed, Sorted
<1>2. RequestsInOrder(c, d, ufn, ut, df, dtn)
  BY <1>0, <1>1 DEF RequestsInOrder, Before, CallInOrder, Settled
<1>3. ResponsesInOrder(c, d, ufn, ut, df, dtn)
  BY <1>1 DEF ResponsesInOrder, Before, CallInOrder, Ending
<1>4. Recorded(c, d, rec, ufn, ut, df, dtn)
  BY <1>0, <1>1 DEF Recorded, Before, CallInOrder
<1> QED
  BY <1>2, <1>3, <1>4 DEF CallInOrder, Before

(* It passes on an ACK or a BYE of the caller. *)
LEMMA LatePasses ==
    ASSUME NEW c, NEW d, NEW rec, NEW uf, NEW ut, NEW df, NEW dt,
           Before(c, d, rec, uf, ut, df, dt),
           NEW m, Sorted(c, m), m.call = c, m.kind \in {"ACK", "BYE"},
           NEW ufn, Taken(uf, ufn, m), NEW dtn, Passed(dt, dtn, m)
    PROVE  CallInOrder(c, d, rec, ufn, ut, df, dtn)
<1>0. Has(uf, Ended(c)) <=> Has(ufn, Ended(c))
  BY DEF Taken, Sorted
<1>1. /\ \A A : Has(ufn, A) => Has(uf, A)
      /\ NoneAfter(uf, Late(c), Early(c)) => NoneAfter(ufn, Late(c), Early(c)) /\ ~Has(ufn, Early(c))
      /\ NoneAfter(dt, Late(c), Early(c)) => NoneAfter(dtn, Late(c), Early(c))
      /\ Has(dtn, Early(c)) => Has(dt, Early(c))
      /\ Has(dtn, Ended(c)) => Has(dt, Ended(c))
  BY DEF Taken, Passed, Sorted
<1>2. RequestsInOrder(c, d, ufn, ut, df, dtn)
  BY <1>1 DEF RequestsInOrder, Before, CallInOrder, Settled
<1>3. ResponsesInOrder(c, d, ufn, ut, df, dtn)
  BY <1>1 DEF ResponsesInOrder, Before, CallInOrder, Ending
<1>4. Recorded(c, d, rec, ufn, ut, df, dtn)
  BY <1>0, <1>1 DEF Recorded, Before, CallInOrder
<1> QED
  BY <1>2, <1>3, <1>4 DEF CallInOrder, Before

(* The callee is not in the location table. *)
LEMMA NotFoundTold ==
    ASSUME NEW c, NEW d, NEW rec, NEW uf, NEW ut, NEW df, NEW dt,
           Before(c, d, rec, uf, ut, df, dt),
           d.to \notin Located, RecordTyped(rec),
           NEW m, Sorted(c, m), m.call = c, m.kind = "INVITE", NEW ufn, Taken(uf, ufn, m),
           NEW n, Sorted(c, n), n.call = c, n.kind = "404", NEW dfn, Gained(df, dfn, n),
           NEW rec2, rec2 = Stamped(rec, "failed")
    PROVE  CallInOrder(c, d, rec2, ufn, ut, dfn, dt)
<1>0. RecordTyped(rec2) /\ rec2.state = "failed" /\ (Rang(rec) => Rang(rec2)) /\ (Answered(rec) => Answered(rec2))
  BY RecordStamped DEF States
<1>1. /\ \A A : Has(ufn, A) => Has(uf, A)
      /\ Has(uf, Ended(c)) <=> Has(ufn, Ended(c))
      /\ NoneAfter(uf, Late(c), Early(c)) => NoneAfter(ufn, Late(c), Early(c))
      /\ \A A \in {ByeOrEnded(c), Ended(c), Answers(c), Declines(c), Cancelled(c)} : Has(dfn, A) <=> Has(df, A)
  BY DEF Taken, Gained, Sorted
<1>2. RequestsInOrder(c, d, ufn, ut, dfn, dt)
  BY <1>1 DEF RequestsInOrder, Before, CallInOrder, Settled
<1>3. ResponsesInOrder(c, d, ufn, ut, dfn, dt)
  BY <1>1 DEF ResponsesInOrder, Before, CallInOrder, Ending
<1>4. Recorded(c, d, rec2, ufn, ut, dfn, dt)
  BY <1>0, <1>1 DEF Recorded, Before, Tells, Over, Heard, Viewed
<1> QED
  BY <1>0, <1>2, <1>3, <1>4 DEF CallInOrder

(* A BYE of the callee. *)
LEMMA CalleesByePasses ==
    ASSUME NEW c, NEW d, NEW rec, NEW uf, NEW ut, NEW df, NEW dt,
           Before(c, d, rec, uf, ut, df, dt),
           NEW m, Sorted(c, m), m.call = c, m.kind = "BYE",
           NEW utn, Taken(ut, utn, m), NEW dfn, Passed(df, dfn, m)
    PROVE  CallInOrder(c, d, rec, uf, utn, dfn, dt)
<1>0. Has(ut, ByeOrEnded(c)) /\ (NoneAfter(ut, ByeOrEnded(c), Other(c)) => ~Has(utn, Other(c)))
  BY DEF Taken, Sorted, Closed
<1>1. /\ \A A : Has(utn, A) => Has(ut, A)
      /\ NoneAfter(ut, ByeOrEnded(c), Other(c)) => NoneAfter(utn, ByeOrEnded(c), Other(c))
      /\ NoneAfter(ut, Finals(c), Rings(c)) => NoneAfter(utn, Finals(c), Rings(c))
      /\ \A A \in {Ended(c), Answers(c), Declines(c), Cancelled(c), NotFounds(c)} : Has(dfn, A) => Has(df, A)
      /\ \A A \in {Rings(c), Ended(c), CancelOks(c)} : Has(utn, A) <=> Has(ut, A)
      /\ Led(ut, Rings(c), Finals(c)) => Led(utn, Rings(c), Finals(c))
      /\ Led(ut, CancelOks(c), Cancelled(c)) => Led(utn, CancelOks(c), Cancelled(c))
  BY DEF Taken, Passed, Sorted
<1>2. RequestsInOrder(c, d, uf, utn, dfn, dt)
  BY <1>0 DEF RequestsInOrder, Before, CallInOrder, Settled
<1>3. ResponsesInOrder(c, d, uf, utn, dfn, dt)
  BY <1>0, <1>1 DEF ResponsesInOrder, Before, CallInOrder
<1>4. Recorded(c, d, rec, uf, utn, dfn, dt)
  BY <1>1 DEF Recorded, Before, CallInOrder
<1> QED
  BY <1>2, <1>3, <1>4 DEF CallInOrder, Before

(* A 180, after which the call is ringing. *)
LEMMA RingsPasses ==
    ASSUME NEW c, NEW d, NEW rec, NEW uf, NEW ut, NEW df, NEW dt,
           Before(c, d, rec, uf, ut, df, dt),
           NEW m, Sorted(c, m), m.call = c, m.kind = "180",
           NEW utn, Taken(ut, utn, m), NEW dfn, Passed(df, dfn, m),
           NEW rec2, rec2 = Stamped(rec, "ringing")
    PROVE  CallInOrder(c, d, rec2, uf, utn, dfn, dt)
<1>0. RecordTyped(rec2) /\ rec2.state = "ringing" /\ (Rang(rec) \/ TRUE => Rang(rec2)) /\ (Answered(rec) => Answered(rec2))
  BY RecordStamped DEF States, Before, CallInOrder
<1>1. /\ \A A : Has(utn, A) => Has(ut, A)
      /\ NoneAfter(ut, ByeOrEnded(c), Other(c)) => NoneAfter(utn, ByeOrEnded(c), Other(c))
      /\ NoneAfter(ut, Finals(c), Rings(c)) => NoneAfter(utn, Finals(c), Rings(c))
      /\ \A A \in {ByeOrEnded(c), Ended(c), Answers(c), Declines(c), Cancelled(c), NotFounds(c)} : Has(dfn, A) => Has(df, A)
      /\ Has(ut, Rings(c))
      /\ \A A \in {ByeOrEnded(c), Ended(c), CancelOks(c), Finals(c)} : Has(utn, A) <=> Has(ut, A)
      /\ Led(ut, CancelOks(c), Cancelled(c)) => Led(utn, CancelOks(c), Cancelled(c))
  BY DEF Taken, Passed, Sorted, Closed
<1>2. RequestsInOrder(c, d, uf, utn, dfn, dt)
  BY <1>1 DEF RequestsInOrder, Before, CallInOrder, Settled
<1>3. ResponsesInOrder(c, d, uf, utn, dfn, dt)
  BY <1>1 DEF ResponsesInOrder, Before, CallInOrder, Ending
<1>4. Recorded(c, d, rec2, uf, utn, dfn, dt)
  BY <1>0, <1>1
     DEF Recorded, ResponsesInOrder, Ending, Before, CallInOrder, Tells, CancelNoted,
        DeclineNoted, ListsAnswered
<1> QED
  BY <1>0, <1>2, <1>3, <1>4 DEF CallInOrder

(* The OK to an INVITE, after which it is answered. *)
LEMMA AnswerPasses ==
    ASSUME NEW c, NEW d, NEW rec, NEW uf, NEW ut, NEW df, NEW dt,
           Before(c, d, rec, uf, ut, df, dt),
           NEW m, Sorted(c, m), m.call = c, m.kind = "200", m.of = "INVITE",
           NEW utn, Taken(ut, utn, m), NEW dfn, Passed(df, dfn, m),
           NEW rec2, rec2 = Stamped(rec, "answered")
    PROVE  CallInOrder(c, d, rec2, uf, utn, dfn, dt)
<1>0. RecordTyped(rec2) /\ rec2.state = "answered" /\ (Rang(rec) => Rang(rec2)) /\ (Answered(rec) \/ TRUE => Answered(rec2))
  BY RecordStamped DEF States, Before, CallInOrder
<1>1. /\ \A A : Has(utn, A) => Has(ut, A)
      /\ NoneAfter(ut, ByeOrEnded(c), Other(c)) => NoneAfter(utn, ByeOrEnded(c), Other(c))
      /\ NoneAfter(ut, Finals(c), Rings(c)) => NoneAfter(utn, Finals(c), Rings(c))
      /\ \A A \in {ByeOrEnded(c), Ended(c), Declines(c), Cancelled(c), NotFounds(c)} : Has(dfn, A) => Has(df, A)
      /\ Has(ut, Finals(c)) /\ (NoneAfter(ut, Finals(c), Rings(c)) => ~Has(utn, Rings(c))) /\ ~Led(ut, Rings(c), Finals(c))
      /\ Has(ut, Other(c)) /\ \A A \in {ByeOrEnded(c), Ended(c)} : Has(utn, A) <=> Has(ut, A)
      /\ Has(ut, Answers(c))
  BY DEF Taken, Passed, Sorted, Closed
<1>2. RequestsInOrder(c, d, uf, utn, dfn, dt)
  BY <1>1 DEF RequestsInOrder, Before, CallInOrder, Settled
<1>3. ResponsesInOrder(c, d, uf, utn, dfn, dt)
  BY <1>1 DEF ResponsesInOrder, Before, CallInOrder, Ending
<1>4. Recorded(c, d, rec2, uf, utn, dfn, dt)
  BY <1>0, <1>1 DEF Recorded, ResponsesInOrder, Ending, Before, CallInOrder, Tells, Heard, Viewed
<1> QED
  BY <1>0, <1>2, <1>3, <1>4 DEF CallInOrder

(* A 603, after which it is declined. *)
LEMMA DeclinePasses ==
    ASSUME NEW c, NEW d, NEW rec, NEW uf, NEW ut, NEW df, NEW dt,
           Before(c, d, rec, uf, ut, df, dt),
           NEW m, Sorted(c, m), m.call = c, m.kind = "603",
           NEW utn, Taken(ut, utn, m), NEW dfn, Passed(df, dfn, m),
           NEW rec2, rec2 = Stamped(rec, "declined")
    PROVE  CallInOrder(c, d, rec2, uf, utn, dfn, dt)
<1>0. RecordTyped(rec2) /\ rec2.state = "declined" /\ (Rang(rec) => Rang(rec2)) /\ (Answered(rec) => Answered(rec2))
  BY RecordStamped DEF States, Before, CallInOrder
<1>1. /\ \A A : Has(utn, A) => Has(ut, A)
      /\ NoneAfter(ut, ByeOrEnded(c), Other(c)) => NoneAfter(utn, ByeOrEnded(c), Other(c))
      /\ NoneAfter(ut, Finals(c), Rings(c)) => NoneAfter(utn, Finals(c), Rings(c))
      /\ \A A \in {ByeOrEnded(c), Ended(c), Answers(c), Cancelled(c), NotFounds(c)} : Has(dfn, A) => Has(df, A)
      /\ Has(ut, Finals(c)) /\ (NoneAfter(ut, Finals(c), Rings(c)) => ~Has(utn, Rings(c))) /\ ~Led(ut, Rings(c), Finals(c))
      /\ Has(ut, Other(c)) /\ \A A \in {ByeOrEnded(c), Ended(c)} : Has(utn, A) <=> Has(ut, A)
      /\ Has(ut, Declines(c))
  BY DEF Taken, Passed, Sorted, Closed
<1>2. RequestsInOrder(c, d, uf, utn, dfn, dt)
  BY <1>1 DEF RequestsInOrder, Before, CallInOrder, Settled
<1>3. ResponsesInOrder(c, d, uf, utn, dfn, dt)
  BY <1>1 DEF ResponsesInOrder, Before, CallInOrder, Ending
<1>4. Recorded(c, d, rec2, uf, utn, dfn, dt)
  BY <1>0, <1>1
     DEF Recorded, ResponsesInOrder, Ending, Before, CallInOrder, Tells, Heard, Viewed,
        DeclineNoted
<1> QED
  BY <1>0, <1>2, <1>3, <1>4 DEF CallInOrder

(* A 487, which is not recorded: the OK to the CANCEL was. *)
LEMMA CancelledPasses ==
    ASSUME NEW c, NEW d, NEW rec, NEW uf, NEW ut, NEW df, NEW dt,
           Before(c, d, rec, uf, ut, df, dt),
           NEW m, Sorted(c, m), m.call = c, m.kind = "487",
           NEW utn, Taken(ut, utn, m), NEW dfn, Passed(df, dfn, m)
    PROVE  CallInOrder(c, d, rec, uf, utn, dfn, dt)
<1>0. TRUE
  OBVIOUS
<1>1. /\ \A A : Has(utn, A) => Has(ut, A)
      /\ NoneAfter(ut, ByeOrEnded(c), Other(c)) => NoneAfter(utn, ByeOrEnded(c), Other(c))
      /\ NoneAfter(ut, Finals(c), Rings(c)) => NoneAfter(utn, Finals(c), Rings(c))
      /\ \A A \in {ByeOrEnded(c), Ended(c), Answers(c), Declines(c), NotFounds(c)} : Has(dfn, A) => Has(df, A)
      /\ Has(ut, Finals(c)) /\ (NoneAfter(ut, Finals(c), Rings(c)) => ~Has(utn, Rings(c))) /\ ~Led(ut, Rings(c), Finals(c))
      /\ Has(ut, Other(c)) /\ \A A \in {ByeOrEnded(c), Ended(c)} : Has(utn, A) <=> Has(ut, A)
      /\ Has(ut, Cancelled(c)) /\ ~Led(ut, CancelOks(c), Cancelled(c))
  BY DEF Taken, Passed, Sorted, Closed
<1>2. RequestsInOrder(c, d, uf, utn, dfn, dt)
  BY <1>1 DEF RequestsInOrder, Before, CallInOrder, Settled
<1>3. ResponsesInOrder(c, d, uf, utn, dfn, dt)
  BY <1>1 DEF ResponsesInOrder, Before, CallInOrder, Ending
<1>4. Recorded(c, d, rec, uf, utn, dfn, dt)
  BY <1>1 DEF Recorded, Before, CallInOrder, Tells
<1> QED
  BY <1>2, <1>3, <1>4 DEF CallInOrder, Before

(* The OK to a CANCEL, after which it is cancelled, or answered if it lists INVITE. *)
LEMMA CancelOkPasses ==
    ASSUME NEW c, NEW d, NEW rec, NEW uf, NEW ut, NEW df, NEW dt,
           Before(c, d, rec, uf, ut, df, dt),
           NEW m, Sorted(c, m), m.call = c, m.kind = "200", m.of = "CANCEL",
           NEW utn, Taken(ut, utn, m), NEW dfn, Passed(df, dfn, m),
           d.cancelled, NEW s, s = "cancelled" \/ (s = "answered" /\ Lists(d)),
           NEW rec2, rec2 = Stamped(rec, s)
    PROVE  CallInOrder(c, d, rec2, uf, utn, dfn, dt)
<1>0. /\ RecordTyped(rec2) /\ rec2.state = s /\ (Rang(rec) => Rang(rec2)) /\ (Answered(rec) => Answered(rec2))
      /\ rec2.state = "cancelled" \/ (rec2.state = "answered" /\ Lists(d))
  BY RecordStamped DEF States, Before, CallInOrder
<1>1. /\ \A A : Has(utn, A) => Has(ut, A)
      /\ NoneAfter(ut, ByeOrEnded(c), Other(c)) => NoneAfter(utn, ByeOrEnded(c), Other(c))
      /\ NoneAfter(ut, Finals(c), Rings(c)) => NoneAfter(utn, Finals(c), Rings(c))
      /\ \A A \in {ByeOrEnded(c), Ended(c), Answers(c), Declines(c), Cancelled(c), NotFounds(c)} : Has(dfn, A) => Has(df, A)
      /\ Has(ut, Finals(c)) /\ (NoneAfter(ut, Finals(c), Rings(c)) => ~Has(utn, Rings(c))) /\ ~Led(ut, Rings(c), Finals(c))
      /\ Has(ut, Other(c)) /\ \A A \in {ByeOrEnded(c), Ended(c)} : Has(utn, A) <=> Has(ut, A)
  BY DEF Taken, Passed, Sorted, Closed
<1>2. RequestsInOrder(c, d, uf, utn, dfn, dt)
  BY <1>1 DEF RequestsInOrder, Before, CallInOrder, Settled
<1>3. ResponsesInOrder(c, d, uf, utn, dfn, dt)
  BY <1>1 DEF ResponsesInOrder, Before, CallInOrder, Ending
<1>4. Recorded(c, d, rec2, uf, utn, dfn, dt)
  BY <1>0, <1>1
     DEF Recorded, ResponsesInOrder, Ending, Before, CallInOrder, Tells, Heard, Viewed, Closed,
        CancelNoted, DeclineNoted, ListsAnswered
<1> QED
  BY <1>0, <1>2, <1>3, <1>4 DEF CallInOrder

(* The OK to a BYE of the caller, after which it is ended, or answered if it lists INVITE. *)
LEMMA EndedPasses ==
    ASSUME NEW c, NEW d, NEW rec, NEW uf, NEW ut, NEW df, NEW dt,
           Before(c, d, rec, uf, ut, df, dt),
           NEW m, Sorted(c, m), m.call = c, m.kind = "200", m.of = "BYE",
           NEW utn, Taken(ut, utn, m), NEW dfn, Passed(df, dfn, m),
           NEW s, s = "ended" \/ (s = "answered" /\ Lists(d)),
           NEW rec2, rec2 = Stamped(rec, s)
    PROVE  CallInOrder(c, d, rec2, uf, utn, dfn, dt)
<1>0. /\ RecordTyped(rec2) /\ rec2.state = s /\ (Rang(rec) => Rang(rec2)) /\ (Answered(rec) => Answered(rec2))
      /\ rec2.state = "ended" \/ (rec2.state = "answered" /\ Lists(d))
  BY RecordStamped DEF States, Before, CallInOrder
<1>1. /\ \A A : Has(utn, A) => Has(ut, A)
      /\ NoneAfter(ut, ByeOrEnded(c), Other(c)) => NoneAfter(utn, ByeOrEnded(c), Other(c))
      /\ NoneAfter(ut, Finals(c), Rings(c)) => NoneAfter(utn, Finals(c), Rings(c))
      /\ \A A \in {Answers(c), Declines(c), Cancelled(c), NotFounds(c)} : Has(dfn, A) => Has(df, A)
      /\ Has(ut, Finals(c)) /\ (NoneAfter(ut, Finals(c), Rings(c)) => ~Has(utn, Rings(c))) /\ ~Led(ut, Rings(c), Finals(c))
      /\ Has(ut, ByeOrEnded(c)) /\ (NoneAfter(ut, ByeOrEnded(c), Other(c)) => ~Has(utn, Other(c)))
  BY DEF Taken, Passed, Sorted, Closed
<1>2. RequestsInOrder(c, d, uf, utn, dfn, dt)
  BY <1>1 DEF RequestsInOrder, Before, CallInOrder, Settled
<1>3. ResponsesInOrder(c, d, uf, utn, dfn, dt)
  BY <1>1 DEF ResponsesInOrder, Before, CallInOrder
<1>4. Recorded(c, d, rec2, uf, utn, dfn, dt)
  BY <1>0, <1>1
     DEF Recorded, ResponsesInOrder, Before, CallInOrder, Tells, Heard, Viewed, EndNoted,
        ListsAnswered
<1> QED
  BY <1>0, <1>2, <1>3, <1>4 DEF CallInOrder

(* And to one of the callee. *)
LEMMA CallersEndedPasses ==
    ASSUME NEW c, NEW d, NEW rec, NEW uf, NEW ut, NEW df, NEW dt,
           Before(c, d, rec, uf, ut, df, dt),
           NEW m, Sorted(c, m), m.call = c, m.kind = "200", m.of = "BYE",
           NEW ufn, Taken(uf, ufn, m), NEW dtn, Passed(dt, dtn, m),
           NEW s, s = "ended" \/ (s = "answered" /\ Lists(d)),
           NEW rec2, rec2 = Stamped(rec, s)
    PROVE  CallInOrder(c, d, rec2, ufn, ut, df, dtn)
<1>0. /\ RecordTyped(rec2) /\ rec2.state = s /\ (Rang(rec) => Rang(rec2)) /\ (Answered(rec) => Answered(rec2))
      /\ rec2.state = "ended" \/ (rec2.state = "answered" /\ Lists(d))
  BY RecordStamped DEF States, Before, CallInOrder
<1>1. /\ \A A : Has(ufn, A) => Has(uf, A)
      /\ Has(uf, Ended(c))
      /\ NoneAfter(uf, Late(c), Early(c)) => NoneAfter(ufn, Late(c), Early(c))
      /\ NoneAfter(dt, Late(c), Early(c)) => NoneAfter(dtn, Late(c), Early(c))
      /\ \A A \in {Early(c), Late(c)} : Has(dtn, A) => Has(dt, A)
  BY DEF Taken, Passed, Sorted
<1>2. RequestsInOrder(c, d, ufn, ut, df, dtn)
  BY <1>1 DEF RequestsInOrder, Before, CallInOrder, Settled
<1>3. ResponsesInOrder(c, d, ufn, ut, df, dtn)
  BY <1>1 DEF ResponsesInOrder, Before, CallInOrder, Ending
<1>4. Recorded(c, d, rec2, ufn, ut, df, dtn)
  BY <1>0, <1>1
     DEF Recorded, ResponsesInOrder, Ending, Before, CallInOrder, Tells, Heard, Viewed, EndNoted,
        ListsAnswered
<1> QED
  BY <1>0, <1>2, <1>3, <1>4 DEF CallInOrder

(* What the proxy does not know is dropped. *)
LEMMA IgnoredLost ==
    ASSUME NEW c, NEW d, NEW rec, NEW uf, NEW ut, NEW df, NEW dt,
           Before(c, d, rec, uf, ut, df, dt),
           NEW m, Sorted(c, m), m.call = c, m.kind \in {"404", "486"},
           NEW ufn, NEW utn, \/ Taken(uf, ufn, m) /\ utn = ut
                             \/ ufn = uf /\ Taken(ut, utn, m)
    PROVE  CallInOrder(c, d, rec, ufn, utn, df, dt)
<1>0. /\ \A A : Has(ufn, A) => Has(uf, A)
      /\ NoneAfter(uf, Late(c), Early(c)) => NoneAfter(ufn, Late(c), Early(c))
      /\ Has(ufn, Ended(c)) <=> Has(uf, Ended(c))
  BY DEF Taken, Sorted
<1>1. /\ \A A : Has(utn, A) => Has(ut, A)
      /\ NoneAfter(ut, ByeOrEnded(c), Other(c)) => NoneAfter(utn, ByeOrEnded(c), Other(c))
      /\ NoneAfter(ut, Finals(c), Rings(c)) => NoneAfter(utn, Finals(c), Rings(c))
      /\ \A A \in {Rings(c), Ended(c), ByeOrEnded(c), CancelOks(c)} : Has(utn, A) <=> Has(ut, A)
      /\ Led(ut, Rings(c), Finals(c)) => Led(utn, Rings(c), Finals(c))
      /\ Led(ut, CancelOks(c), Cancelled(c)) => Led(utn, CancelOks(c), Cancelled(c))
  BY DEF Taken, Sorted, Closed
<1>2. RequestsInOrder(c, d, ufn, utn, df, dt)
  BY <1>0, <1>1 DEF RequestsInOrder, Before, CallInOrder, Settled
<1>3. ResponsesInOrder(c, d, ufn, utn, df, dt)
  BY <1>0, <1>1 DEF ResponsesInOrder, Before, CallInOrder, Ending
<1>4. Recorded(c, d, rec, ufn, utn, df, dt)
  BY <1>0, <1>1 DEF Recorded, Before, CallInOrder
<1> QED
  BY <1>2, <1>3, <1>4 DEF CallInOrder, Before

LEMMA Listed ==
    ASSUME NEW x, NEW S
    PROVE  \E allow \in BOOLEAN : allow = (x \in S)
<1>1. CASE x \in S
  <2>1. TRUE = (x \in S)
    BY <1>1
  <2> QED
    BY <2>1
<1>2. CASE x \notin S
  <2>1. FALSE = (x \in S)
    BY <1>2
  <2> QED
    BY <2>1
<1> QED
  BY <1>1, <1>2

(* What a link gets that a phone sends at once. *)
LEMMA LinkSends ==
    ASSUME NEW S, NEW q \in Seq(S)
    PROVE  /\ q \o << >> = q
           /\ \A x \in S : q \o <<x>> \in Seq(S) /\ Gained(q, q \o <<x>>, x)
           /\ \A x, y \in S : Gained(q \o <<x>>, q \o <<x, y>>, y)
<1>1. q \o << >> = q
  BY ConcatEmptySeq
<1>2. ASSUME NEW x \in S
      PROVE  q \o <<x>> \in Seq(S) /\ Gained(q, q \o <<x>>, x)
  BY AppendIsConcat, GainedByAppend
<1>3. ASSUME NEW x \in S, NEW y \in S
      PROVE  Gained(q \o <<x>>, q \o <<x, y>>, y)
  <2>1. <<x>> \in Seq(S) /\ <<y>> \in Seq(S)
    BY OneSent
  <2>2. Append(q \o <<x>>, y) = (q \o <<x>>) \o <<y>>
    BY <1>2, AppendIsConcat
  <2>3. (q \o <<x>>) \o <<y>> = q \o (<<x>> \o <<y>>)
    BY <2>1, ConcatAssociative
  <2>4. <<x>> \o <<y>> = <<x, y>>
    <3>1. /\ <<x, y>> \in Seq(S) /\ Len(<<x, y>>) = 2 /\ <<x, y>>[1] = x /\ <<x, y>>[2] = y
          /\ Len(<<x>>) = 1 /\ <<x>>[1] = x /\ Len(<<y>>) = 1 /\ <<y>>[1] = y
      OBVIOUS
    <3> DEFINE u == <<x>>
               v == <<y>>
               w == <<x, y>>
    <3>2. u \in Seq(S) /\ v \in Seq(S) /\ w \in Seq(S)
      BY <2>1, <3>1
    <3> HIDE DEF u, v, w
    <3>3. /\ u \o v \in Seq(S) /\ Len(u \o v) = Len(u) + Len(v)
          /\ \A i \in 1 .. Len(u) + Len(v) : (u \o v)[i] = IF i <= Len(u) THEN u[i] ELSE v[i - Len(u)]
      BY <3>2, ConcatProperties
    <3>4. Len(u) = 1 /\ Len(v) = 1 /\ Len(w) = 2 /\ u[1] = w[1] /\ v[1] = w[2]
      BY DEF u, v, w
    <3>5. Len(u \o v) = Len(w) /\ \A i \in 1 .. Len(w) : (u \o v)[i] = w[i]
      BY <3>3, <3>4
    <3>6. u \o v = w
      BY <3>2, <3>3, <3>5, SeqEqual
    <3> QED
      BY <3>6 DEF u, v, w
  <2>5. Append(q \o <<x>>, y) = q \o <<x, y>>
    BY <2>2, <2>3, <2>4
  <2>6. Gained(q \o <<x>>, Append(q \o <<x>>, y), y)
    BY <1>2, GainedByAppend
  <2> QED
    BY <2>5, <2>6
<1> QED
  BY <1>1, <1>2, <1>3

(* What has been said or heard stays so. *)
Later(d, e) ==
    d.caller # "idle" =>
        /\ e.caller # "idle" /\ e.from = d.from /\ e.to = d.to
        /\ d.last \in {"486", "487", "603"} => e.last = d.last
        /\ d.last \in Closed => e.last \in Closed
        /\ d.callee # "idle" => e.callee # "idle"
        /\ d.caller \in Past => e.caller \in Past
        /\ d.caller \in Past /\ d.caller # "up" => e.caller # "up"

(* What a datagram says that a phone takes. *)
Plain(c, d, m) ==
    /\ m \in Datagrams /\ Sorted(c, m) /\ m.call = c /\ Said(d, m)
    /\ IF IsRequest(m) THEN m.of = m.kind ELSE m.of # "ACK"
    /\ m.kind = "404" => d.to \notin Located
    /\ m.kind = "200" /\ m.of = "INVITE" => d.last = "200"
    /\ m.of = "BYE" => d.last = "200"

(* How a call goes on with the view e of it and with what is sent then. *)
GoesOn(c, d, e, msgs) == Later(d, e) /\ Heard(e) /\ \A x \in Range(msgs) : x.call = c /\ Said(e, x)

LEMMA CallerGoesOn ==
    ASSUME NEW c \in Calls, Viewed(call[c]), Heard(call[c]), call[c].caller # "idle",
           NEW m, Plain(c, call[c], m),
           Ack(c) \in Datagrams, CallerBye(c) \in Datagrams,
           NEW rec, NEW uf \in Seq(Datagrams), NEW ut, NEW df, NEW dt, NEW dfn, Taken(df, dfn, m)
    PROVE  LET took == CallerTakes(c, m)
           IN /\ GoesOn(c, call[c], took[1], took[2])
              /\ Before(c, call[c], rec, uf, ut, df, dt)
                 => CallInOrder(c, took[1], rec, uf \o took[2], ut, dfn, dt)
<1> DEFINE d == call[c]
           took == CallerTakes(c, m)
           a == Ack(c)
           b == CallerBye(c)
           s == Status("200", m, d.from \in Listing)
           Good(e, msgs) == GoesOn(c, d, e, msgs)
           InOrder(e, msgs) == Before(c, d, rec, uf, ut, df, dt)
                            => CallInOrder(c, e, rec, uf \o msgs, ut, dfn, dt)
<1>1. /\ Sorted(c, a) /\ a.call = c /\ a.kind = "ACK" /\ a.of = "ACK"
      /\ Sorted(c, b) /\ b.call = c /\ b.kind = "BYE" /\ b.of = "BYE"
  BY DatagramsSorted DEF Ack, CallerBye, Request
<1>2. d \in Views /\ m \in Datagrams /\ Sorted(c, m) /\ m.call = c
  BY DEF Viewed, Plain
<1>3. /\ uf \o << >> = uf
      /\ uf \o <<a>> \in Seq(Datagrams) /\ Gained(uf, uf \o <<a>>, a)
      /\ Gained(uf \o <<a>>, uf \o <<a, b>>, b)
  BY LinkSends
<1> HIDE DEF d, a, b
<1>4. /\ Range(<< >>) = {} /\ Range(<<a>>) = {a} /\ Range(<<a, b>>) = {a, b}
  BY DEF Range
<1>5. ASSUME NEW e, CallInOrder(c, e, rec, uf, ut, dfn, dt)
      PROVE  /\ CallInOrder(c, e, rec, uf \o << >>, ut, dfn, dt)
             /\ CallInOrder(c, e, rec, uf \o <<a>>, ut, dfn, dt)
             /\ CallInOrder(c, e, rec, uf \o <<a, b>>, ut, dfn, dt)
  BY <1>1, <1>3, <1>5, SendsLate
<1>6. /\ InOrder(d, << >>) /\ InOrder(d, <<a>>)
      /\ d.caller = "calling" => InOrder([d EXCEPT !.caller = "proceeding"], << >>)
  BY <1>5, CallerTells
<1>7. Later(d, d) /\ Heard(d)
  BY DEF Later, d
<1>8. Good(d, << >>) /\ (d.caller \in Past => Good(d, <<a>>))
  BY <1>1, <1>4, <1>7 DEF GoesOn, Said, Statuses
<1>9. d.caller \in {"calling", "proceeding"} \/ d.caller \in Past
  BY <1>2 DEF Views, Past, d
<1>10. CASE m.kind = "180"
  <2>1. took = <<IF d.caller = "calling" THEN [d EXCEPT !.caller = "proceeding"] ELSE d, << >>>>
    BY <1>10 DEF CallerTakes, Final, d
  <2>2. d.caller = "calling" => Good([d EXCEPT !.caller = "proceeding"], << >>)
    <3>1. d.callee # "idle"
      BY <1>10 DEF Plain, Said, Statuses, d
    <3> QED
      BY <1>4, <1>7, <3>1 DEF GoesOn, Later, Heard, Past
  <2> QED
    BY <1>6, <1>8, <2>1, <2>2 DEF d
<1>11. CASE m.kind = "200" /\ m.of = "INVITE"
  <2>1. took = IF d.caller \notin {"calling", "proceeding"} THEN <<d, <<a>>>>
               ELSE IF d.cancelled
               THEN <<[d EXCEPT !.caller = "bye", !.outcome = "completed"], <<a, b>>>>
               ELSE <<[d EXCEPT !.caller = "up", !.outcome = "completed"], <<a>>>>
    BY <1>11 DEF CallerTakes, Final, d, a, b
  <2>2. CASE d.caller \notin {"calling", "proceeding"}
    BY <1>6, <1>8, <1>9, <2>1, <2>2 DEF d
  <2>3. CASE d.caller \in {"calling", "proceeding"}
    <3> DEFINE e(t) == [d EXCEPT !.caller = t, !.outcome = "completed"]
    <3>1. InOrder(e("up"), <<a>>) /\ InOrder(e("bye"), <<a, b>>)
      BY <1>2, <1>5, <1>11, <2>3, CallerAnswered
    <3>2. d.last = "200"
      BY <1>11 DEF Plain, d
    <3>3. ASSUME NEW t \in {"up", "bye"}
          PROVE  Later(d, e(t)) /\ Heard(e(t)) /\ e(t).caller = t
      BY <2>3, <3>2 DEF Later, Heard, Past
    <3> HIDE DEF e
    <3>4. Good(e("up"), <<a>>) /\ Good(e("bye"), <<a, b>>)
      BY <1>1, <1>4, <3>3 DEF GoesOn, Said, Statuses, Past
    <3> QED
      BY <2>1, <2>3, <3>1, <3>4 DEF d, e
  <2> QED
    BY <2>2, <2>3
<1>12. CASE m.kind \in DOMAIN Final
  <2>1. m.kind \in {"404", "487", "603"}
    BY <1>12 DEF Final
  <2>2. took = <<IF d.caller \notin {"calling", "proceeding"} THEN d
                 ELSE [d EXCEPT !.caller = "over", !.outcome = Final[m.kind]], <<a>>>>
    BY <1>12, <2>1 DEF CallerTakes, d, a
  <2>3. CASE d.caller \notin {"calling", "proceeding"}
    BY <1>6, <1>8, <1>9, <2>2, <2>3 DEF d
  <2>4. CASE d.caller \in {"calling", "proceeding"}
    <3> DEFINE e == [d EXCEPT !.caller = "over", !.outcome = Final[m.kind]]
    <3>1. InOrder(e, <<a>>)
      BY <1>2, <1>5, <2>1, <2>4, CallerRefused
    <3>2. \/ m.kind = "404" /\ d.to \notin Located /\ Final[m.kind] = "failed"
          \/ m.kind = "487" /\ d.last = "487" /\ Final[m.kind] = "cancelled"
          \/ m.kind = "603" /\ d.last = "603" /\ Final[m.kind] = "declined"
      BY <2>1 DEF Final, Plain, Said, d
    <3>3. Later(d, e) /\ Heard(e) /\ e.caller = "over"
      BY <1>7, <3>2 DEF Later, Heard, Past
    <3> HIDE DEF e
    <3>4. Good(e, <<a>>)
      BY <1>1, <1>4, <3>3 DEF GoesOn, Said, Statuses, Past
    <3> QED
      BY <2>2, <2>4, <3>1, <3>4 DEF d, e
  <2> QED
    BY <2>3, <2>4
<1>13. CASE m.kind = "200" /\ m.of = "BYE"
  <2> DEFINE e == [d EXCEPT !.caller = "over"]
  <2>1. took = <<e, << >>>>
    BY <1>13 DEF CallerTakes, d
  <2>2. InOrder(e, << >>)
    BY <1>2, <1>13, CallerEnded
  <2>3. d.caller \in Past /\ d.outcome # "none"
    BY <1>13 DEF Plain, Said, Heard, Past, d
  <2>4. Later(d, e) /\ Heard(e)
    BY <1>7, <2>3 DEF Later, Heard, Past
  <2> HIDE DEF e
  <2>5. Good(e, << >>)
    BY <1>4, <2>4 DEF GoesOn
  <2> QED
    BY <2>1, <2>2, <2>5 DEF d
<1>14. CASE m.kind = "BYE"
  <2> DEFINE e == [d EXCEPT !.caller = IF @ = "up" THEN "over" ELSE @]
  <2>1. took = <<e, <<s>>>>
    BY <1>14 DEF CallerTakes, d
  <2>2. /\ s \in Datagrams /\ s.call = c /\ s.kind = "200" /\ s.of = "BYE" /\ s.from = m.from
        /\ m.of = "BYE"
    <3>1. PICK l \in BOOLEAN : l = (d.from \in Listing)
      BY Listed
    <3>2. s = [m EXCEPT !.kind = "200", !.allow = l]
      BY <3>1 DEF Status
    <3>3. m.of = "BYE"
      BY <1>14 DEF Plain, IsRequest, Methods
    <3> QED
      BY <1>2, <3>2, <3>3 DEF Datagrams, Statuses
  <2> HIDE DEF s
  <2>3. Sorted(c, s) /\ Gained(uf, uf \o <<s>>, s) /\ Range(<<s>>) = {s}
    BY <2>2, DatagramsSorted, LinkSends DEF Range
  <2>4. InOrder(e, <<s>>)
    BY <1>2, <1>14, <2>2, <2>3, CallerHungUpOn
  <2>5. d.caller \in Past /\ d.last = "200" /\ d.callee # "idle" /\ (s.from = d.from => d.caller # "up")
    BY <2>2 DEF Plain, Said, Viewed, d
  <2>6. Later(d, e) /\ Heard(e) /\ e.caller \in Past \ {"up"} /\ e.last = "200" /\ e.callee # "idle"
    BY <1>7, <2>5 DEF Later, Heard, Past
  <2> HIDE DEF e
  <2>7. Good(e, <<s>>)
    BY <2>2, <2>3, <2>6 DEF GoesOn, Said
  <2> QED
    BY <2>1, <2>4, <2>7 DEF d
<1>15. CASE /\ m.kind # "180" /\ ~(m.kind = "200" /\ m.of = "INVITE") /\ m.kind \notin DOMAIN Final
            /\ ~(m.kind = "200" /\ m.of = "BYE") /\ m.kind # "BYE"
  <2>1. took = <<d, << >>>>
    BY <1>15 DEF CallerTakes, d
  <2> QED
    BY <1>6, <1>8, <2>1 DEF d
<1> QED
  BY <1>10, <1>11, <1>12, <1>13, <1>14, <1>15

LEMMA CalleeGoesOn ==
    ASSUME NEW c \in Calls, Viewed(call[c]), Heard(call[c]), call[c].caller # "idle",
           NEW m, Plain(c, call[c], m), m.kind = "INVITE" => call[c].to \in Located,
           Invite(c) \in Datagrams,
           NEW rec, NEW uf, NEW ut \in Seq(Datagrams), NEW df, NEW dt, NEW dtn, Taken(dt, dtn, m)
    PROVE  LET took == CalleeTakes(c, m)
           IN /\ GoesOn(c, call[c], took[1], took[2])
              /\ Before(c, call[c], rec, uf, ut, df, dt)
                 => CallInOrder(c, took[1], rec, uf, ut \o took[2], df, dtn)
<1> DEFINE d == call[c]
           took == CalleeTakes(c, m)
           Good(e, msgs) == GoesOn(c, d, e, msgs)
           InOrder(e, msgs) == Before(c, d, rec, uf, ut, df, dt)
                               => CallInOrder(c, e, rec, uf, ut \o msgs, df, dtn)
<1>1. d \in Views /\ m \in Datagrams /\ Sorted(c, m) /\ m.call = c
  BY DEF Viewed, Plain
<1>2. PICK allow \in BOOLEAN : allow = (d.to \in Listing)
  BY Listed
<1>3. ut \o << >> = ut /\ Range(<< >>) = {}
  BY LinkSends DEF Range
<1>4. ASSUME NEW s \in Datagrams, s.call = c
      PROVE  Sorted(c, s) /\ Gained(ut, ut \o <<s>>, s) /\ Range(<<s>>) = {s}
  BY LinkSends, DatagramsSorted DEF Range
<1>5. ASSUME NEW kind \in Statuses, NEW list \in BOOLEAN
      PROVE  LET s == Status(kind, m, list)
             IN /\ s \in Datagrams /\ s.call = c /\ s.kind = kind /\ s.of = m.of /\ s.from = m.from
  BY <1>1 DEF Status, Datagrams
<1>6. Later(d, d) /\ Heard(d) /\ Viewed(d)
  BY DEF Later
<1> HIDE DEF d
<1>7. Good(d, << >>) /\ InOrder(d, << >>)
  <2>1. InOrder(d, << >>)
    BY <1>3, CalleeIgnores
  <2> QED
    BY <1>3, <1>6, <2>1 DEF GoesOn
<1>8. IsRequest(m) => m.of = m.kind
  BY DEF Plain
<1>9. CASE m.kind = "INVITE"
  <2>0. m.of = "INVITE"
    BY <1>8, <1>9 DEF IsRequest, Methods
  <2>1. CASE d.callee = "idle"
    <3>1. PICK s : s = Status("180", m, FALSE)
      OBVIOUS
    <3>2. PICK e : e = [d EXCEPT !.callee = "ringing", !.last = "180"]
      OBVIOUS
    <3>3. took = <<e, <<s>>>>
      BY <1>9, <2>1, <3>1, <3>2 DEF CalleeTakes, d
    <3>4. s \in Datagrams /\ s.call = c /\ s.kind = "180" /\ s.of = "INVITE"
      BY <1>5, <2>0, <3>1 DEF Statuses
    <3>5. InOrder(e, <<s>>)
      BY <1>4, <1>9, <2>1, <3>2, <3>4, CalleeRings DEF d
    <3>6. Later(d, e) /\ Heard(e) /\ e.callee = "ringing"
      BY <1>6, <2>1, <3>2 DEF Viewed, Later, Heard, Closed
    <3>7. Good(e, <<s>>)
      BY <1>4, <3>4, <3>6 DEF GoesOn, Said
    <3> QED
      BY <3>3, <3>5, <3>7 DEF d
  <2>2. CASE d.callee # "idle" /\ d.acked
    <3>1. took = <<d, << >>>>
      BY <1>9, <2>2 DEF CalleeTakes, d
    <3> QED
      BY <1>7, <3>1 DEF d
  <2>3. CASE d.callee # "idle" /\ ~d.acked
    <3>1. PICK list \in BOOLEAN : list = (d.last = "200" /\ allow)
      <4>1. CASE d.last = "200"
        <5>1. allow = (d.last = "200" /\ allow)
          BY <1>2, <4>1
        <5> QED
          BY <5>1
      <4>2. CASE d.last # "200"
        <5>1. FALSE = (d.last = "200" /\ allow)
          BY <4>2
        <5> QED
          BY <5>1
      <4> QED
        BY <4>1, <4>2
    <3>2. PICK s : s = Status(d.last, m, list)
      OBVIOUS
    <3>3. took = <<d, <<Status(d.last, m, d.last = "200" /\ d.to \in Listing)>>>>
      BY <1>9, <2>3 DEF CalleeTakes, d
    <3>4. list = (d.last = "200" /\ d.to \in Listing)
      BY <1>2, <3>1
    <3>5. took = <<d, <<s>>>>
      BY <3>2, <3>3, <3>4
    <3>6. d.last \in {"180", "200", "486", "487", "603"}
      BY <1>6, <2>3 DEF Viewed, Views
    <3>7. s \in Datagrams /\ s.call = c /\ s.kind = d.last /\ s.of = "INVITE"
      BY <1>5, <2>0, <3>2, <3>6 DEF Statuses
    <3>8. InOrder(d, <<s>>)
      BY <1>1, <1>4, <1>9, <2>3, <3>7, CalleeRepeats
    <3>9. Good(d, <<s>>)
      BY <1>4, <1>6, <2>3, <3>6, <3>7 DEF GoesOn, Said
    <3> QED
      BY <3>5, <3>8, <3>9 DEF d
  <2> QED
    BY <2>1, <2>2, <2>3
<1>10. CASE m.kind = "CANCEL"
  <2>0. m.of = "CANCEL" /\ d.callee # "idle"
    BY <1>10 DEF IsRequest, Methods, Plain, Said, d
  <2>1. PICK s : s = Status("200", m, allow)
    OBVIOUS
  <2>2. s \in Datagrams /\ s.call = c /\ s.kind = "200" /\ s.of = "CANCEL"
    BY <1>5, <2>0, <2>1 DEF Statuses
  <2>3. CASE d.callee = "ringing"
    <3>1. PICK t : t = Status("487", Invite(c), FALSE)
      OBVIOUS
    <3>2. PICK e : e = [d EXCEPT !.callee = "over", !.last = "487"]
      OBVIOUS
    <3>3. took = <<e, <<s, t>>>>
      BY <1>2, <1>10, <2>1, <2>3, <3>1, <3>2 DEF CalleeTakes, d
    <3>4. t \in Datagrams /\ t.call = c /\ t.kind = "487" /\ t.of = "INVITE"
      BY <3>1 DEF Status, Invite, Request, Datagrams, Statuses
    <3>5. Gained(ut \o <<s>>, ut \o <<s, t>>, t) /\ Sorted(c, t) /\ Range(<<s, t>>) = {s, t}
      BY <2>2, <3>4, LinkSends, DatagramsSorted DEF Range
    <3>6. InOrder(e, <<s, t>>)
      <4>1. Sorted(c, s) /\ Gained(ut, ut \o <<s>>, s)
        BY <1>4, <2>2
      <4>2. PICK u, v : u = ut \o <<s>> /\ v = ut \o <<s, t>>
        OBVIOUS
      <4>3. Gained(ut, u, s) /\ Gained(u, v, t)
        BY <3>5, <4>1, <4>2
      <4>4. Before(c, d, rec, uf, ut, df, dt) => CallInOrder(c, e, rec, uf, v, df, dtn)
        BY <1>1, <1>10, <2>2, <2>3, <3>2, <3>4, <3>5, <4>1, <4>3, CalleeCancelled
      <4> QED
        BY <4>2, <4>4
    <3>7. Later(d, e) /\ Heard(e) /\ e.callee = "over" /\ e.last = "487"
      BY <1>6, <2>3, <3>2 DEF Viewed, Later, Heard, Closed
    <3>8. Good(e, <<s, t>>)
      BY <2>2, <3>4, <3>5, <3>7 DEF GoesOn, Said, Closed
    <3> QED
      BY <3>3, <3>6, <3>8 DEF d
  <2>4. CASE d.callee # "ringing"
    <3>1. took = <<d, <<s>>>>
      BY <1>2, <1>10, <2>1, <2>4 DEF CalleeTakes, d
    <3>2. d.last \in Closed
      BY <1>6, <2>0, <2>4 DEF Viewed, Views, Heard, Closed
    <3>3. InOrder(d, <<s>>)
      BY <1>1, <1>4, <1>10, <2>0, <2>2, <2>4, <3>2, CalleeTooLate
    <3>4. Good(d, <<s>>)
      BY <1>4, <1>6, <2>0, <2>2, <3>2 DEF GoesOn, Said
    <3> QED
      BY <3>1, <3>3, <3>4 DEF d
  <2> QED
    BY <2>3, <2>4
<1>11. CASE m.kind = "ACK"
  <2>1. PICK e : e = [d EXCEPT !.acked = TRUE]
    OBVIOUS
  <2>2. took = <<e, << >>>>
    BY <1>11, <2>1 DEF CalleeTakes, d
  <2>3. InOrder(e, << >>)
    BY <1>1, <1>11, <2>1, CalleeAcked
  <2>4. d.caller \in Past
    BY <1>11 DEF Plain, Said, d
  <2>5. Later(d, e) /\ Heard(e)
    BY <1>6, <2>1, <2>4 DEF Later, Heard
  <2> QED
    BY <1>3, <2>2, <2>3, <2>5 DEF GoesOn, d
<1>12. CASE m.kind = "BYE"
  <2>0. m.of = "BYE" /\ d.last = "200" /\ d.caller \in Past /\ (m.from = d.from => d.caller # "up")
    BY <1>12 DEF IsRequest, Methods, Plain, Said, d
  <2>1. PICK s : s = Status("200", m, allow)
    OBVIOUS
  <2>2. s \in Datagrams /\ s.call = c /\ s.kind = "200" /\ s.of = "BYE" /\ s.from = m.from
    BY <1>5, <2>0, <2>1 DEF Statuses
  <2>3. PICK e : e = [d EXCEPT !.callee = IF @ = "up" THEN "over" ELSE @]
    OBVIOUS
  <2>4. took = <<e, <<s>>>>
    BY <1>2, <1>12, <2>1, <2>3 DEF CalleeTakes, d
  <2>5. InOrder(e, <<s>>)
    BY <1>1, <1>4, <1>12, <2>2, <2>3, CalleeHungUpOn
  <2>6. /\ Later(d, e) /\ Heard(e) /\ e.from = d.from /\ e.caller = d.caller /\ e.last = "200"
        /\ e.callee # "idle"
    BY <1>6, <2>0, <2>3 DEF Viewed, Later, Heard
  <2>7. Good(e, <<s>>)
    BY <1>4, <2>0, <2>2, <2>6 DEF GoesOn, Said
  <2> QED
    BY <2>4, <2>5, <2>7 DEF d
<1>13. CASE m.kind = "200" /\ m.of = "BYE"
  <2>1. PICK e : e = [d EXCEPT !.callee = "over"]
    OBVIOUS
  <2>2. took = <<e, << >>>>
    BY <1>13, <2>1 DEF CalleeTakes, d
  <2>3. d.last = "200" /\ d.callee # "idle"
    BY <1>13 DEF Plain, Viewed, d
  <2>4. InOrder(e, << >>)
    BY <1>1, <1>13, <2>1, <2>3, CalleeEnded
  <2>5. Later(d, e) /\ Heard(e)
    BY <1>6, <2>1, <2>3 DEF Later, Heard
  <2> QED
    BY <1>3, <2>2, <2>4, <2>5 DEF GoesOn, d
<1>14. CASE m.kind \notin {"INVITE", "CANCEL", "ACK", "BYE"} /\ ~(m.kind = "200" /\ m.of = "BYE")
  <2>1. took = <<d, << >>>>
    BY <1>14 DEF CalleeTakes, d
  <2> QED
    BY <1>7, <2>1 DEF d
<1> QED
  BY <1>9, <1>10, <1>11, <1>12, <1>13, <1>14

-----------------------------------------------------------------------------
(* The calls that a step does not concern. *)

InCall(c) == {m \in Datagrams : m.call = c}
Alike(c, q, r) ==
    /\ \A A \in SUBSET InCall(c) : Has(r, A) <=> Has(q, A)
    /\ \A A, B \in SUBSET InCall(c) : /\ NoneAfter(q, A, B) => NoneAfter(r, A, B)
                                      /\ Led(q, A, B) => Led(r, A, B)

LEMMA AlikeSame ==
    ASSUME NEW c, NEW q
    PROVE  Alike(c, q, q)
  BY DEF Alike

LEMMA AlikeGained ==
    ASSUME NEW c, NEW q, NEW r, NEW m, Gained(q, r, m), m.call # c
    PROVE  Alike(c, q, r)
<1>1. \A A \in SUBSET InCall(c) : m \notin A
  BY DEF InCall
<1> QED
  BY <1>1 DEF Gained, Alike

LEMMA AlikeTaken ==
    ASSUME NEW c, NEW q, NEW r, NEW m, Taken(q, r, m), m.call # c
    PROVE  Alike(c, q, r)
<1>1. \A A \in SUBSET InCall(c) : m \notin A
  BY DEF InCall
<1> QED
  BY <1>1 DEF Taken, Alike

LEMMA AlikeSent ==
    ASSUME NEW c, NEW q \in Seq(Datagrams), NEW r \in Seq(Datagrams), \A m \in Range(r) : m.call # c
    PROVE  Alike(c, q, q \o r)
<1> DEFINE s == q \o r
           n == Len(q)
           l == Len(q) + Len(r)
<1>1. /\ s \in Seq(Datagrams) /\ Len(s) = l
      /\ \A i \in 1 .. l : s[i] = IF i <= n THEN q[i] ELSE r[i - n]
  BY ConcatProperties
<1>2. /\ n \in Nat /\ Len(r) \in Nat /\ l = n + Len(r)
      /\ DOMAIN q = 1 .. n /\ DOMAIN r = 1 .. Len(r) /\ DOMAIN s = 1 .. l
  BY <1>1, LenProperties
<1> HIDE DEF s, n, l
<1>3. \A i \in 1 .. n : i \in 1 .. l /\ s[i] = q[i]
  BY <1>1, <1>2
<1>4. \A i \in 1 .. l : i \notin 1 .. n => s[i] \notin InCall(c)
  <2> SUFFICES ASSUME NEW i \in 1 .. l, i \notin 1 .. n PROVE s[i].call # c
    BY DEF InCall
  <2>1. i - n \in DOMAIN r /\ s[i] = r[i - n]
    BY <1>1, <1>2
  <2> QED
    BY <2>1 DEF Range
<1>5. ASSUME NEW A \in SUBSET InCall(c)
      PROVE  Has(s, A) <=> Has(q, A)
  <2>1. (\E i \in 1 .. l : s[i] \in A) <=> (\E i \in 1 .. n : q[i] \in A)
    BY <1>3, <1>4
  <2> QED
    BY <1>2, <2>1 DEF Has, Range
<1>6. ASSUME NEW A \in SUBSET InCall(c), NEW B \in SUBSET InCall(c)
      PROVE  /\ NoneAfter(q, A, B) => NoneAfter(s, A, B)
             /\ Led(q, A, B) => Led(s, A, B)
  <2>1. \A i \in 1 .. l : s[i] \in A \/ s[i] \in B => i \in 1 .. n /\ s[i] = q[i]
    BY <1>3, <1>4
  <2>2. ASSUME NoneAfter(q, A, B)
        PROVE  NoneAfter(s, A, B)
    BY <1>2, <2>1, <2>2 DEF NoneAfter
  <2>3. ASSUME Led(q, A, B), NEW j \in 1 .. l, s[j] \in B
        PROVE  \E i \in 1 .. l : i < j /\ s[i] \in A
    <3>1. j \in 1 .. n /\ q[j] \in B
      BY <2>1, <2>3
    <3>2. PICK i \in 1 .. n : i < j /\ q[i] \in A
      BY <1>2, <2>3, <3>1 DEF Led
    <3> QED
      BY <1>3, <3>2
  <2> QED
    BY <1>2, <2>2, <2>3 DEF Led
<1> QED
  BY <1>5, <1>6 DEF Alike, s

LEMMA CallStays ==
    ASSUME NEW c, NEW d, NEW rec, NEW uf, NEW ut, NEW df, NEW dt,
           CallInOrder(c, d, rec, uf, ut, df, dt),
           NEW ufn, Alike(c, uf, ufn), NEW utn, Alike(c, ut, utn),
           NEW dfn, Alike(c, df, dfn), NEW dtn, Alike(c, dt, dtn)
    PROVE  CallInOrder(c, d, rec, ufn, utn, dfn, dtn)
<1>1. /\ Early(c) \in SUBSET InCall(c) /\ Late(c) \in SUBSET InCall(c) /\ Byes(c) \in SUBSET InCall(c)
      /\ Rings(c) \in SUBSET InCall(c) /\ Finals(c) \in SUBSET InCall(c)
      /\ Answers(c) \in SUBSET InCall(c) /\ CancelOks(c) \in SUBSET InCall(c)
      /\ Cancelled(c) \in SUBSET InCall(c) /\ Declines(c) \in SUBSET InCall(c)
      /\ NotFounds(c) \in SUBSET InCall(c) /\ Ended(c) \in SUBSET InCall(c)
      /\ ByeOrEnded(c) \in SUBSET InCall(c) /\ Other(c) \in SUBSET InCall(c)
  BY DEF InCall, Of, OkTo, Early, Late, Byes, Rings, Finals, Answers, CancelOks, Cancelled,
         Declines, NotFounds, Ended, ByeOrEnded, Other
<1>2. RequestsInOrder(c, d, ufn, utn, dfn, dtn)
  BY <1>1 DEF RequestsInOrder, CallInOrder, Settled, Alike
<1>3. ResponsesInOrder(c, d, ufn, utn, dfn, dtn)
  BY <1>1 DEF ResponsesInOrder, CallInOrder, Ending, Alike
<1>4. Recorded(c, d, rec, ufn, utn, dfn, dtn)
  BY <1>1 DEF Recorded, CallInOrder, Alike
<1> QED
  BY <1>2, <1>3, <1>4 DEF CallInOrder

-----------------------------------------------------------------------------
(* What the invariants say of a call and of a datagram of it. *)

LEMMA CallKnown ==
    ASSUME IInv, TalkInv, NEW c \in Calls
    PROVE  /\ Viewed(call[c]) /\ Heard(call[c]) /\ Later(call[c], call[c])
           /\ call[c].caller # "idle" => /\ call[c].from \in Phones /\ call[c].to \in Phones
                                         /\ call[c].from # call[c].to
  BY DEF IInv, TypeOK, ViewOK, Viewed, TalkInv, Later

LEMMA DatagramKnown ==
    ASSUME IInv, TalkInv, NEW p \in Phones, NEW m, m \in Range(up[p]) \/ m \in Range(down[p])
    PROVE  /\ m \in Datagrams /\ m.call \in Calls /\ call[m.call].caller # "idle"
           /\ Plain(m.call, call[m.call], m) /\ Means(m)
<1>1. m \in Datagrams /\ Means(m) /\ Said(call[m.call], m)
  BY DEF IInv, WayInv, InUp, InDown, TalkInv
<1> QED
  BY <1>1, DatagramsSorted DEF Plain, Means, Datagrams

LEMMA CallBefore ==
    ASSUME IInv, TalkInv, NEW c \in Calls, call[c].caller # "idle", NEW rec, OrderAs(c, rec)
    PROVE  LET d == call[c]
           IN Before(c, d, rec, up[d.from], up[d.to], down[d.from], down[d.to])
<1> DEFINE d == call[c]
<1>1. ASSUME NEW p \in Phones
      PROVE  Tells(c, d, up[p]) /\ Tells(c, d, down[p])
  <2>1. up[p] \in Seq(Datagrams) /\ down[p] \in Seq(Datagrams)
    BY DEF IInv, TypeOK
  <2>2. \A m \in Range(up[p]) \cup Range(down[p]) : m \in Datagrams /\ (m.call = c => Plain(c, d, m))
    BY DatagramKnown
  <2> HIDE DEF d
  <2>3. Tells(c, d, up[p])
    BY <2>1, <2>2, LinkTells DEF Plain
  <2>4. Tells(c, d, down[p])
    BY <2>1, <2>2, LinkTells DEF Plain
  <2> QED
    BY <2>3, <2>4
<1> QED
  BY <1>1, CallKnown DEF Before, OrderAs

-----------------------------------------------------------------------------
(* The steps of the phones. *)

LEMMA SaidStays ==
    ASSUME NEW d, NEW e, Later(d, e), d.caller # "idle", NEW m, Said(d, m)
    PROVE  Said(e, m)
  BY DEF Later, Said, Past, Closed

(* What is new on the links, and the rest stays said. *)
LEMMA TalkStep ==
    ASSUME IInv, TalkInv, \A c \in Calls : Later(call[c], call'[c]) /\ Heard(call'[c]),
           \A p \in Phones : \A m \in Range(up'[p]) : m \in Range(up[p]) \/ Said(call'[m.call], m),
           \A p \in Phones : \A m \in Range(down'[p]) : m \in Range(down[p]) \/ Said(call'[m.call], m),
           \A k \in Range(sip_transactions') : k[3] \in DOMAIN sip_calls'
    PROVE  TalkInv'
<1>1. ASSUME NEW p \in Phones, NEW m, m \in Range(up[p]) \/ m \in Range(down[p])
      PROVE  Said(call'[m.call], m)
  BY <1>1, DatagramKnown, SaidStays DEF Plain
<1> QED
  BY <1>1 DEF TalkInv

(* A phone that sends one datagram of the call c, and whose view of it becomes e. *)
LEMMA PhoneSends ==
    ASSUME IInv, TalkInv, OrderInv, NEW c \in Calls, NEW e, call' = [call EXCEPT ![c] = e],
           Later(call[c], e), Heard(e), NEW p \in Phones, NEW m \in Datagrams, m.call = c,
           up' = Sends(up, p, <<m>>), Said(e, m), UNCHANGED <<tables, down, overtaken>>,
           \A ufn : Gained(up[call[c].from], ufn, m) /\ c \in DOMAIN sip_calls /\ p = call[c].from
                    /\ Before(c, call[c], sip_calls[c], up[call[c].from], up[call[c].to],
                              down[call[c].from], down[call[c].to])
                    => CallInOrder(c, e, sip_calls[c], ufn, up[call[c].to],
                                   down[call[c].from], down[call[c].to]),
           \A utn : Gained(up[call[c].to], utn, m) /\ c \in DOMAIN sip_calls /\ p = call[c].to
                    /\ Before(c, call[c], sip_calls[c], up[call[c].from], up[call[c].to],
                              down[call[c].from], down[call[c].to])
                    => CallInOrder(c, e, sip_calls[c], up[call[c].from], utn,
                                   down[call[c].from], down[call[c].to]),
           c \in DOMAIN sip_calls => p \in {call[c].from, call[c].to}
    PROVE  TalkInv' /\ OrderInv'
<1>1. /\ call'[c] = e /\ \A b \in Calls \ {c} : call'[b] = call[b]
      /\ sip_calls' = sip_calls /\ sip_transactions' = sip_transactions /\ down' = down
      /\ exited' = exited /\ overtaken' = overtaken
  BY DEF IInv, TypeOK, tables
<1>2. /\ up[p] \in Seq(Datagrams) /\ up'[p] = up[p] \o <<m>>
      /\ \A q \in Phones \ {p} : up'[q] = up[q]
  BY DEF IInv, TypeOK, Sends
<1>3. Gained(up[p], up'[p], m) /\ Range(up'[p]) = Range(up[p]) \cup {m}
  <2>1. Gained(up[p], up[p] \o <<m>>, m)
    BY <1>2, LinkSends
  <2>2. PICK r : r = <<m>>
    OBVIOUS
  <2>3. r \in Seq(Datagrams) /\ Range(r) = {m}
    BY <2>2, OneSent
  <2>4. Range(up[p] \o r) = Range(up[p]) \cup Range(r)
    BY <1>2, <2>3, RangeConcatenation
  <2> QED
    BY <1>2, <2>1, <2>2, <2>3, <2>4
<1>4. TalkInv'
  <2>1. \A b \in Calls : Later(call[b], call'[b]) /\ Heard(call'[b])
    BY <1>1, CallKnown
  <2>2. \A q \in Phones : \A x \in Range(up'[q]) : x \in Range(up[q]) \/ Said(call'[x.call], x)
    BY <1>1, <1>2, <1>3
  <2>3. \A k \in Range(sip_transactions') : k[3] \in DOMAIN sip_calls'
    BY <1>1 DEF TalkInv
  <2> QED
    BY <1>1, <2>1, <2>2, <2>3, TalkStep
<1>5. ASSUME ~overtaken', ~exited', NEW b \in DOMAIN sip_calls
      PROVE  OrderAs(b, sip_calls[b])'
  <2>1. b \in Calls /\ call[b].caller # "idle" /\ OrderAs(b, sip_calls[b])
    BY <1>1, <1>5 DEF IInv, TypeOK, TablesInv, OrderInv
  <2>2. call[b].from \in Phones /\ call[b].to \in Phones /\ call[b].from # call[b].to
    BY <2>1, CallKnown
  <2>3. CASE b = c
    <3>1. e.from = call[c].from /\ e.to = call[c].to
      BY <2>1, <2>3 DEF Later
    <3>2. Before(c, call[c], sip_calls[c], up[call[c].from], up[call[c].to],
                 down[call[c].from], down[call[c].to])
      BY <2>1, <2>3, CallBefore
    <3>3. CASE p = call[c].from
      <4>1. CallInOrder(c, e, sip_calls[c], up'[p], up[call[c].to], down[call[c].from], down[call[c].to])
        BY <1>3, <1>5, <2>3, <3>2, <3>3
      <4> QED
        BY <1>1, <1>2, <2>2, <2>3, <3>1, <3>3, <4>1 DEF OrderAs
    <3>4. CASE p = call[c].to
      <4>1. CallInOrder(c, e, sip_calls[c], up[call[c].from], up'[p], down[call[c].from], down[call[c].to])
        BY <1>3, <1>5, <2>3, <3>2, <3>4
      <4> QED
        BY <1>1, <1>2, <2>2, <2>3, <3>1, <3>4, <4>1 DEF OrderAs
    <3> QED
      BY <1>5, <2>3, <3>3, <3>4
  <2>4. CASE b # c
    <3>1. call'[b] = call[b]
      BY <1>1, <2>1, <2>4
    <3>2. \A q \in Phones : Alike(b, up[q], up'[q]) /\ Alike(b, down[q], down[q])
      BY <1>2, <1>3, <2>4, AlikeGained, AlikeSame
    <3> QED
      BY <1>1, <2>1, <2>2, <3>1, <3>2, CallStays DEF OrderAs
  <2> QED
    BY <2>3, <2>4
<1> QED
  BY <1>1, <1>4, <1>5 DEF OrderInv

LEMMA DialOrder ==
    ASSUME IInv, TalkInv, OrderInv, NEW c \in Calls, NEW p \in Phones, NEW q \in Phones, Dial(c, p, q)
    PROVE  TalkInv' /\ OrderInv'
<1> DEFINE m == Request("INVITE", c, p, q, 1)
           e == [call[c] EXCEPT !.from = p, !.to = q, !.caller = "calling"]
<1>1. /\ call[c].caller = "idle" /\ call' = [call EXCEPT ![c] = e]
      /\ up' = Sends(up, p, <<m>>) /\ UNCHANGED <<tables, down, overtaken>>
  BY DEF Dial, Keeps, IInv, TypeOK
<1>2. m \in Datagrams /\ m.call = c /\ m.kind = "INVITE" /\ m.of = "INVITE"
  BY DEF Request, Datagrams, Methods
<1>3. Later(call[c], e) /\ Heard(e)
  BY <1>1, CallKnown DEF Later, Heard, Viewed, Views, Past
<1>4. c \notin DOMAIN sip_calls
  BY <1>1 DEF IInv, TablesInv
<1>5. Said(e, m)
  BY <1>2 DEF Said, Statuses
<1> HIDE DEF m, e
<1> QED
  BY <1>1, <1>2, <1>3, <1>4, <1>5, PhoneSends

LEMMA RedialOrder ==
    ASSUME IInv, TalkInv, OrderInv, NEW c \in Calls, Redial(c)
    PROVE  TalkInv' /\ OrderInv'
<1> DEFINE m == Invite(c)
           d == call[c]
<1>1. /\ d.caller = "calling" /\ call' = [call EXCEPT ![c] = d]
      /\ up' = Sends(up, d.from, <<m>>) /\ UNCHANGED <<tables, down, overtaken>>
  BY DEF Redial, IInv, TypeOK
<1>2. Viewed(d) /\ Heard(d) /\ Later(d, d) /\ d.from \in Phones /\ d.to \in Phones /\ d.from # d.to
  BY <1>1, CallKnown
<1>3. m \in Datagrams /\ m.call = c /\ m.kind = "INVITE" /\ m.of = "INVITE" /\ Sorted(c, m)
  <2>1. m \in Datagrams /\ m.call = c /\ m.kind = "INVITE" /\ m.of = "INVITE"
    BY <1>2 DEF Invite, Request, Datagrams, Methods
  <2> QED
    BY <2>1, DatagramsSorted
<1>4. Said(d, m)
  BY <1>3 DEF Said, Statuses
<1> HIDE DEF m, d
<1>5. d.caller \notin Past
  BY <1>1 DEF Past
<1> QED
  BY <1>1, <1>2, <1>3, <1>4, <1>5, PhoneSends, SendsEarly DEF d

LEMMA GiveUpOrder ==
    ASSUME IInv, TalkInv, OrderInv, NEW c \in Calls, GiveUp(c)
    PROVE  TalkInv' /\ OrderInv'
<1> DEFINE m == Cancel(c)
           d == call[c]
           e == [d EXCEPT !.cancelled = TRUE]
<1>1. /\ d.caller = "proceeding" /\ call' = [call EXCEPT ![c] = e]
      /\ up' = Sends(up, d.from, <<m>>) /\ UNCHANGED <<tables, down, overtaken>>
  BY DEF GiveUp, Keeps, IInv, TypeOK
<1>2. Viewed(d) /\ Heard(d) /\ Later(d, d) /\ d.from \in Phones /\ d.to \in Phones /\ d.from # d.to
  BY <1>1, CallKnown
<1>3. m \in Datagrams /\ m.call = c /\ m.kind = "CANCEL" /\ m.of = "CANCEL" /\ Sorted(c, m)
  <2>1. m \in Datagrams /\ m.call = c /\ m.kind = "CANCEL" /\ m.of = "CANCEL"
    BY <1>2 DEF Cancel, Request, Datagrams, Methods
  <2> QED
    BY <2>1, DatagramsSorted
<1>4. Later(d, e) /\ Heard(e) /\ e.callee # "idle"
  BY <1>1, <1>2 DEF Later, Heard, Viewed, Views
<1>5. Said(e, m)
  BY <1>3, <1>4 DEF Said, Statuses
<1>6. d.caller \notin Past
  BY <1>1 DEF Past
<1> HIDE DEF m, d
<1>7. \A ufn : Gained(up[d.from], ufn, m)
               /\ Before(c, d, sip_calls[c], up[d.from], up[d.to], down[d.from], down[d.to])
               => CallInOrder(c, e, sip_calls[c], ufn, up[d.to], down[d.from], down[d.to])
  BY <1>3, <1>6, SendsEarly
<1> HIDE DEF e
<1> QED
  BY <1>1, <1>2, <1>3, <1>4, <1>5, <1>7, PhoneSends DEF d

LEMMA AnswerOrder ==
    ASSUME IInv, TalkInv, OrderInv, NEW c \in Calls, Answer(c)
    PROVE  TalkInv' /\ OrderInv'
<1>1. PICK d : d = call[c]
  OBVIOUS
<1>2. PICK e : e = [d EXCEPT !.callee = "up", !.last = "200"]
  OBVIOUS
<1>3. PICK allow \in BOOLEAN : allow = (d.to \in Listing)
  BY Listed
<1>4. PICK m : m = Status("200", Invite(c), allow)
  OBVIOUS
<1>5. /\ d.callee = "ringing" /\ call' = [call EXCEPT ![c] = e]
      /\ up' = Sends(up, d.to, <<m>>) /\ UNCHANGED <<tables, down, overtaken>>
  BY <1>1, <1>2, <1>3, <1>4 DEF Answer, Keeps, IInv, TypeOK
<1>6. d.caller # "idle"
  BY <1>1, <1>5 DEF IInv, ViewOK
<1>7. Viewed(d) /\ Heard(d) /\ d.from \in Phones /\ d.to \in Phones /\ d.from # d.to
  BY <1>1, <1>6, CallKnown
<1>8. m \in Datagrams /\ m.call = c /\ m.kind = "200" /\ m.of = "INVITE" /\ Sorted(c, m)
  <2>1. m \in Datagrams /\ m.call = c /\ m.kind = "200" /\ m.of = "INVITE"
    BY <1>1, <1>4, <1>7 DEF Invite, Request, Status, Datagrams, Methods, Statuses
  <2> QED
    BY <2>1, DatagramsSorted
<1>9. Later(d, e) /\ Heard(e) /\ Said(e, m)
  BY <1>2, <1>5, <1>7, <1>8 DEF Later, Heard, Viewed, Views, Said, Statuses, Past, Closed
<1>10. \A utn : Gained(up[d.to], utn, m)
                /\ Before(c, d, sip_calls[c], up[d.from], up[d.to], down[d.from], down[d.to])
                => CallInOrder(c, e, sip_calls[c], up[d.from], utn, down[d.from], down[d.to])
  BY <1>2, <1>5, <1>8, CalleeDecides
<1> QED
  BY <1>1, <1>5, <1>7, <1>8, <1>9, <1>10, PhoneSends

LEMMA RefuseOrder ==
    ASSUME IInv, TalkInv, OrderInv, NEW c \in Calls, Refuse(c)
    PROVE  TalkInv' /\ OrderInv'
<1>1. PICK d : d = call[c]
  OBVIOUS
<1>2. PICK kind \in Refusals :
        /\ call' = [call EXCEPT ![c] = [d EXCEPT !.callee = "over", !.last = kind]]
        /\ up' = Sends(up, d.to, <<Status(kind, Invite(c), FALSE)>>)
  BY <1>1 DEF Refuse, IInv, TypeOK
<1>3. kind \in {"486", "603"}
  BY RefusalsAssumption
<1>4. PICK e : e = [d EXCEPT !.callee = "over", !.last = kind]
  OBVIOUS
<1>5. PICK m : m = Status(kind, Invite(c), FALSE)
  OBVIOUS
<1>6. /\ d.callee = "ringing" /\ call' = [call EXCEPT ![c] = e]
      /\ up' = Sends(up, d.to, <<m>>) /\ UNCHANGED <<tables, down, overtaken>>
  BY <1>1, <1>2, <1>4, <1>5 DEF Refuse, Keeps
<1>7. d.caller # "idle"
  BY <1>1, <1>6 DEF IInv, ViewOK
<1>8. Viewed(d) /\ Heard(d) /\ d.from \in Phones /\ d.to \in Phones /\ d.from # d.to
  BY <1>1, <1>7, CallKnown
<1>9. m \in Datagrams /\ m.call = c /\ m.kind = kind /\ m.of = "INVITE" /\ Sorted(c, m)
  <2>1. m \in Datagrams /\ m.call = c /\ m.kind = kind /\ m.of = "INVITE"
    BY <1>1, <1>3, <1>5, <1>8 DEF Invite, Request, Status, Datagrams, Methods, Statuses
  <2> QED
    BY <2>1, DatagramsSorted
<1>10. Later(d, e) /\ Heard(e) /\ Said(e, m)
  BY <1>3, <1>4, <1>6, <1>8, <1>9 DEF Later, Heard, Viewed, Views, Said, Statuses, Past, Closed
<1>11. \A utn : Gained(up[d.to], utn, m)
                /\ Before(c, d, sip_calls[c], up[d.from], up[d.to], down[d.from], down[d.to])
                => CallInOrder(c, e, sip_calls[c], up[d.from], utn, down[d.from], down[d.to])
  BY <1>3, <1>4, <1>6, <1>9, CalleeDecides
<1> QED
  BY <1>1, <1>6, <1>8, <1>9, <1>10, <1>11, PhoneSends

LEMMA HangUpOrder ==
    ASSUME IInv, TalkInv, OrderInv, NEW c \in Calls, HangUp(c)
    PROVE  TalkInv' /\ OrderInv'
<1>1. PICK d : d = call[c]
  OBVIOUS
<1>2. ASSUME d.caller # "idle"
      PROVE  Viewed(d) /\ Heard(d) /\ d.from \in Phones /\ d.to \in Phones /\ d.from # d.to
  BY <1>1, <1>2, CallKnown
<1>3. ASSUME d.caller = "up", call' = [call EXCEPT ![c].caller = "bye"],
             up' = Sends(up, d.from, <<CallerBye(c)>>), UNCHANGED <<tables, down, overtaken>>
      PROVE  TalkInv' /\ OrderInv'
  <2>1. PICK e : e = [d EXCEPT !.caller = "bye"]
    OBVIOUS
  <2>2. PICK m : m = CallerBye(c)
    OBVIOUS
  <2>3. call' = [call EXCEPT ![c] = e] /\ up' = Sends(up, d.from, <<m>>)
    BY <1>1, <1>3, <2>1, <2>2 DEF IInv, TypeOK
  <2>4. m \in Datagrams /\ m.call = c /\ m.kind = "BYE" /\ m.of = "BYE" /\ Sorted(c, m)
    <3>1. m \in Datagrams /\ m.call = c /\ m.kind = "BYE" /\ m.of = "BYE"
      BY <1>1, <1>2, <1>3, <2>2 DEF CallerBye, Request, Datagrams, Methods
    <3> QED
      BY <3>1, DatagramsSorted
  <2>5. /\ e.from = d.from /\ e.to = d.to /\ e.caller = "bye" /\ e.callee = d.callee
        /\ e.last = d.last /\ e.acked = d.acked /\ e.outcome = d.outcome /\ e.cancelled = d.cancelled
    BY <1>2, <1>3, <2>1 DEF Viewed, Views
  <2>6. Later(d, e) /\ Heard(e) /\ Said(e, m)
    BY <1>2, <1>3, <2>4, <2>5 DEF Later, Heard, Said, Statuses, Past
  <2>7. ASSUME NEW uf, NEW ut, NEW df, NEW dt, NEW rec, CallInOrder(c, d, rec, uf, ut, df, dt)
        PROVE  CallInOrder(c, e, rec, uf, ut, df, dt)
    <3>1. RequestsInOrder(c, e, uf, ut, df, dt) /\ ResponsesInOrder(c, e, uf, ut, df, dt)
      BY <1>3, <2>5, <2>7 DEF CallInOrder, RequestsInOrder, ResponsesInOrder, Settled, Ending, Over
    <3>2. Recorded(c, e, rec, uf, ut, df, dt)
      BY <1>3, <2>5, <2>7 DEF CallInOrder, Recorded, Over, EndNoted, CancelNoted, DeclineNoted,
                              ListsAnswered, Lists
    <3> QED
      BY <2>7, <3>1, <3>2 DEF CallInOrder
  <2>8. \A ufn : Gained(up[d.from], ufn, m)
                 /\ Before(c, d, sip_calls[c], up[d.from], up[d.to], down[d.from], down[d.to])
                 => CallInOrder(c, e, sip_calls[c], ufn, up[d.to], down[d.from], down[d.to])
    BY <2>4, <2>7, SendsLate DEF Before
  <2> QED
    BY <1>1, <1>2, <1>3, <2>3, <2>4, <2>6, <2>8, PhoneSends
<1>4. ASSUME d.callee = "up", d.acked, call' = [call EXCEPT ![c].callee = "bye"],
             up' = Sends(up, d.to, <<CalleeBye(c)>>), UNCHANGED <<tables, down, overtaken>>
      PROVE  TalkInv' /\ OrderInv'
  <2>1. PICK e : e = [d EXCEPT !.callee = "bye"]
    OBVIOUS
  <2>2. PICK m : m = CalleeBye(c)
    OBVIOUS
  <2>3. call' = [call EXCEPT ![c] = e] /\ up' = Sends(up, d.to, <<m>>)
    BY <1>1, <1>4, <2>1, <2>2 DEF IInv, TypeOK
  <2>4. d.caller # "idle"
    BY <1>1, <1>4 DEF IInv, ViewOK
  <2>5. m \in Datagrams /\ m.call = c /\ m.kind = "BYE" /\ m.of = "BYE" /\ m.from = d.to /\ Sorted(c, m)
    <3>1. m \in Datagrams /\ m.call = c /\ m.kind = "BYE" /\ m.of = "BYE" /\ m.from = d.to
      BY <1>1, <1>2, <2>2, <2>4 DEF CalleeBye, Request, Datagrams, Methods
    <3> QED
      BY <3>1, DatagramsSorted
  <2>6. /\ e.from = d.from /\ e.to = d.to /\ e.caller = d.caller /\ e.callee = "bye"
        /\ e.last = d.last /\ e.acked = d.acked /\ e.outcome = d.outcome /\ e.cancelled = d.cancelled
    BY <1>2, <2>1, <2>4 DEF Viewed, Views
  <2>7. d.caller \in Past /\ d.last = "200"
    BY <1>2, <1>4, <2>4 DEF Heard, Viewed
  <2>8. Later(d, e) /\ Heard(e) /\ Said(e, m)
    BY <1>2, <1>4, <2>4, <2>5, <2>6, <2>7 DEF Later, Heard, Said, Statuses, Past
  <2>9. \A utn : Gained(up[d.to], utn, m)
                 /\ Before(c, d, sip_calls[c], up[d.from], up[d.to], down[d.from], down[d.to])
                 => CallInOrder(c, e, sip_calls[c], up[d.from], utn, down[d.from], down[d.to])
    BY <1>4, <2>1, <2>5, CalleeHangsUp
  <2> QED
    BY <1>1, <1>2, <1>4, <2>3, <2>4, <2>5, <2>8, <2>9, PhoneSends
<1> QED
  BY <1>1, <1>3, <1>4 DEF HangUp, Keeps

LEMMA NotBehind ==
    ASSUME NEW S, NEW q \in Seq(S), NEW i \in DOMAIN q, ~(i > 1)
    PROVE  i = 1
<1>1. Len(q) \in Nat /\ DOMAIN q = 1 .. Len(q)
  BY LenProperties
<1> QED
  BY <1>1

(* What a link holds after more was sent on it. *)
LEMMA DatagramsSent ==
    \A s, t \in Seq(Datagrams) : Range(s \o t) = Range(s) \cup Range(t)
BY RangeConcatenation

(* A phone that takes datagram i of its link, m of the call c, whose view of the call becomes e
   and that sends msgs. *)
LEMMA PhoneTakes ==
    ASSUME IInv, TalkInv, OrderInv, NEW p \in Phones, NEW i \in DOMAIN down[p],
           NEW m, m = down[p][i], NEW c \in Calls, c = m.call,
           NEW d, d = call[c], d.caller # "idle",
           NEW e, NEW msgs \in Seq(Datagrams), GoesOn(c, d, e, msgs),
           call' = [call EXCEPT ![c] = e], up' = Sends(up, p, msgs),
           down' = [down EXCEPT ![p] = RemoveAt(@, i)],
           overtaken' = (overtaken \/ i > 1), UNCHANGED tables,
           p = d.from => \A rec, dfn :
                Taken(down[p], dfn, m)
                /\ Before(c, d, rec, up[d.from], up[d.to], down[d.from], down[d.to])
                => CallInOrder(c, e, rec, up[p] \o msgs, up[d.to], dfn, down[d.to]),
           p # d.from => p = d.to /\ \A rec, dtn :
                Taken(down[p], dtn, m)
                /\ Before(c, d, rec, up[d.from], up[d.to], down[d.from], down[d.to])
                => CallInOrder(c, e, rec, up[d.from], up[p] \o msgs, down[d.from], dtn)
    PROVE  TalkInv' /\ OrderInv'
<1>1. /\ call'[c] = e /\ \A b \in Calls \ {c} : call'[b] = call[b]
      /\ sip_calls' = sip_calls /\ sip_transactions' = sip_transactions /\ exited' = exited
  BY DEF IInv, TypeOK, tables
<1>2. /\ up[p] \in Seq(Datagrams) /\ up'[p] = up[p] \o msgs
      /\ \A q \in Phones \ {p} : up'[q] = up[q]
      /\ down[p] \in Seq(Datagrams) /\ down'[p] = RemoveAt(down[p], i)
      /\ \A q \in Phones \ {p} : down'[q] = down[q]
  BY DEF IInv, TypeOK, Sends
<1>3. /\ Range(up'[p]) = Range(up[p]) \cup Range(msgs)
      /\ Range(down'[p]) \subseteq Range(down[p])
  <2>1. Range(up[p] \o msgs) = Range(up[p]) \cup Range(msgs)
    BY <1>2, DatagramsSent
  <2>2. Range(RemoveAt(down[p], i)) \subseteq Range(down[p])
    BY <1>2, RangeRemoveAt
  <2> QED
    BY <1>2, <2>1, <2>2
<1>4. Later(d, e) /\ Heard(e) /\ \A x \in Range(msgs) : x.call = c /\ Said(e, x)
  BY DEF GoesOn
<1>5. TalkInv'
  <2>1. \A b \in Calls : Later(call[b], call'[b]) /\ Heard(call'[b])
    BY <1>1, <1>4, CallKnown
  <2>2. \A q \in Phones : \A x \in Range(up'[q]) : x \in Range(up[q]) \/ Said(call'[x.call], x)
    BY <1>1, <1>2, <1>3, <1>4
  <2>3. \A q \in Phones : \A x \in Range(down'[q]) : x \in Range(down[q])
    BY <1>2, <1>3
  <2>4. \A k \in Range(sip_transactions') : k[3] \in DOMAIN sip_calls'
    BY <1>1 DEF TalkInv
  <2> QED
    BY <2>1, <2>2, <2>3, <2>4, TalkStep
<1>6. ASSUME ~overtaken', ~exited', NEW b \in DOMAIN sip_calls
      PROVE  OrderAs(b, sip_calls[b])'
  <2>1. ~overtaken /\ ~exited /\ ~(i > 1)
    BY <1>1, <1>6
  <2>2. b \in Calls /\ call[b].caller # "idle" /\ OrderAs(b, sip_calls[b])
    BY <1>6, <2>1 DEF IInv, TypeOK, TablesInv, OrderInv
  <2>3. call[b].from \in Phones /\ call[b].to \in Phones /\ call[b].from # call[b].to
    BY <2>2, CallKnown
  <2>4. i = 1
    BY <1>2, <2>1, NotBehind
  <2>5. Taken(down[p], down'[p], m)
    BY <1>2, <2>4, TakenFirst
  <2>a. OrderAs(b, sip_calls[b])' <=>
            CallInOrder(b, call'[b], sip_calls[b], up'[call'[b].from], up'[call'[b].to],
                        down'[call'[b].from], down'[call'[b].to])
    BY <1>1 DEF OrderAs
  <2>6. CASE b = c
    <3>1. e.from = d.from /\ e.to = d.to
      BY <1>4 DEF Later
    <3>2. Before(c, d, sip_calls[c], up[d.from], up[d.to], down[d.from], down[d.to])
      BY <2>2, <2>6, CallBefore
    <3>3. CASE p = d.from
      <4>1. CallInOrder(c, e, sip_calls[c], up[p] \o msgs, up[d.to], down'[p], down[d.to])
        BY <2>5, <3>2, <3>3
      <4>2. up'[e.from] = up[p] \o msgs /\ up'[e.to] = up[d.to]
            /\ down'[e.from] = down'[p] /\ down'[e.to] = down[d.to]
        BY <1>2, <2>3, <2>6, <3>1, <3>3
      <4>3. CallInOrder(c, e, sip_calls[c], up'[e.from], up'[e.to], down'[e.from], down'[e.to])
        BY <4>1, <4>2
      <4>4. call'[b] = e
        BY <1>1, <2>6
      <4> QED
        BY <2>a, <2>6, <4>3, <4>4
    <3>4. CASE p # d.from
      <4>1. CallInOrder(c, e, sip_calls[c], up[d.from], up[p] \o msgs, down[d.from], down'[p])
        BY <2>5, <3>2, <3>4
      <4>2. up'[e.from] = up[d.from] /\ up'[e.to] = up[p] \o msgs
            /\ down'[e.from] = down[d.from] /\ down'[e.to] = down'[p]
        BY <1>2, <2>3, <2>6, <3>1, <3>4
      <4>3. CallInOrder(c, e, sip_calls[c], up'[e.from], up'[e.to], down'[e.from], down'[e.to])
        BY <4>1, <4>2
      <4>4. call'[b] = e
        BY <1>1, <2>6
      <4> QED
        BY <2>a, <2>6, <4>3, <4>4
    <3> QED
      BY <3>3, <3>4
  <2>7. CASE b # c
    <3>1. call'[b] = call[b]
      BY <1>1, <2>2, <2>7
    <3>2. Alike(b, up[p], up'[p]) /\ Alike(b, down[p], down'[p])
      <4>1. \A x \in Range(msgs) : x.call # b
        BY <1>4, <2>7
      <4>2. Alike(b, up[p], up[p] \o msgs)
        BY <1>2, <4>1, AlikeSent
      <4>3. Alike(b, down[p], down'[p])
        BY <2>5, <2>7, AlikeTaken
      <4> QED
        BY <1>2, <4>2, <4>3
    <3>3. \A q \in Phones : Alike(b, up[q], up'[q]) /\ Alike(b, down[q], down'[q])
      BY <1>2, <3>2, AlikeSame
    <3>4. CallInOrder(b, call[b], sip_calls[b], up[call[b].from], up[call[b].to],
                      down[call[b].from], down[call[b].to])
      BY <2>2 DEF OrderAs
    <3>5. CallInOrder(b, call[b], sip_calls[b], up'[call[b].from], up'[call[b].to],
                      down'[call[b].from], down'[call[b].to])
      BY <2>3, <3>3, <3>4, CallStays
    <3> QED
      BY <2>a, <3>1, <3>5
  <2> QED
    BY <2>6, <2>7
<1> QED
  BY <1>1, <1>5, <1>6 DEF OrderInv

LEMMA PhoneOrder ==
    ASSUME IInv, TalkInv, OrderInv, NEW p \in Phones, Phone(p)
    PROVE  TalkInv' /\ OrderInv'
<1>1. PICK i \in DOMAIN down[p] :
        LET m == down[p][i]
            took == IF p = call[m.call].from THEN CallerTakes(m.call, m)
                    ELSE IF p = call[m.call].to THEN CalleeTakes(m.call, m)
                    ELSE <<call[m.call], << >>>>
        IN /\ down' = [down EXCEPT ![p] = RemoveAt(@, i)]
           /\ call' = [call EXCEPT ![m.call] = took[1]]
           /\ up' = Sends(up, p, took[2])
           /\ overtaken' = (overtaken \/ i > 1)
           /\ UNCHANGED <<places, tables, dups>>
  BY DEF Phone
<1>2. PICK m : m = down[p][i]
  OBVIOUS
<1>3. PICK c : c = m.call
  OBVIOUS
<1>4. PICK d : d = call[c]
  OBVIOUS
<1>5. m \in Range(down[p])
  BY <1>2 DEF Range
<1>6. InDown(p, m)
  BY <1>5 DEF IInv, WayInv
<1>7. c \in Calls /\ d.caller # "idle" /\ Plain(c, d, m) /\ Means(m) /\ m \in Datagrams
  BY <1>3, <1>4, <1>5, DatagramKnown
<1>8. Viewed(d) /\ Heard(d) /\ d.from \in Phones /\ d.to \in Phones /\ d.from # d.to
  BY <1>4, <1>7, CallKnown
<1>9. Taken(<<m>>, <<m>>, m)
  <2>1. PICK r : r = <<m>>
    OBVIOUS
  <2>2. r \in Seq(Datagrams) /\ 1 \in DOMAIN r /\ r[1] = m
    BY <1>7, <2>1
  <2>3. Taken(r, r, r[1])
    BY <2>2, TakenFirst
  <2> QED
    BY <2>1, <2>2, <2>3
<1>10. up[p] \in Seq(Datagrams)
  BY DEF IInv, TypeOK
<1>11. CASE p = d.from
  <2>1. PICK took : took = CallerTakes(c, m)
    OBVIOUS
  <2>2. /\ down' = [down EXCEPT ![p] = RemoveAt(@, i)] /\ call' = [call EXCEPT ![c] = took[1]]
        /\ up' = Sends(up, p, took[2]) /\ overtaken' = (overtaken \/ i > 1) /\ UNCHANGED tables
    BY <1>1, <1>2, <1>3, <1>4, <1>11, <2>1
  <2>3. took[2] \in Seq(Datagrams)
    BY <1>3, <1>4, <1>6, <1>11, <2>1, CallerTook
  <2>4. Ack(c) \in Datagrams /\ CallerBye(c) \in Datagrams
    BY <1>4, <1>7, <1>8 DEF Ack, CallerBye, Request, Datagrams, Methods
  <2>5. ASSUME NEW rec, NEW df, NEW dfn, Taken(df, dfn, m)
        PROVE  /\ GoesOn(c, d, took[1], took[2])
               /\ Before(c, d, rec, up[d.from], up[d.to], df, down[d.to])
                  => CallInOrder(c, took[1], rec, up[p] \o took[2], up[d.to], dfn, down[d.to])
    BY <1>4, <1>7, <1>8, <1>10, <1>11, <2>1, <2>4, <2>5, CallerGoesOn
  <2>6. GoesOn(c, d, took[1], took[2])
    BY <1>9, <2>5
  <2>7. \A rec, dfn : Taken(down[p], dfn, m)
                      /\ Before(c, d, rec, up[d.from], up[d.to], down[d.from], down[d.to])
                      => CallInOrder(c, took[1], rec, up[p] \o took[2], up[d.to], dfn, down[d.to])
    BY <1>11, <2>5
  <2> QED
    BY <1>2, <1>3, <1>4, <1>7, <1>11, <2>2, <2>3, <2>6, <2>7, PhoneTakes
<1>12. CASE p # d.from
  <2>0. p = d.to
    BY <1>3, <1>4, <1>6, <1>7, <1>12 DEF InDown, Means
  <2>1. PICK took : took = CalleeTakes(c, m)
    OBVIOUS
  <2>2. /\ down' = [down EXCEPT ![p] = RemoveAt(@, i)] /\ call' = [call EXCEPT ![c] = took[1]]
        /\ up' = Sends(up, p, took[2]) /\ overtaken' = (overtaken \/ i > 1) /\ UNCHANGED tables
    BY <1>1, <1>2, <1>3, <1>4, <1>12, <2>0, <2>1
  <2>3. took[2] \in Seq(Datagrams)
    BY <1>3, <1>4, <1>6, <1>12, <2>0, <2>1, CalleeTook
  <2>4. Invite(c) \in Datagrams /\ (m.kind = "INVITE" => d.to \in Located)
    BY <1>4, <1>6, <1>7, <1>8, <2>0 DEF Invite, Request, Datagrams, Methods, InDown, IsRequest
  <2>5. ASSUME NEW rec, NEW dt, NEW dtn, Taken(dt, dtn, m)
        PROVE  /\ GoesOn(c, d, took[1], took[2])
               /\ Before(c, d, rec, up[d.from], up[d.to], down[d.from], dt)
                  => CallInOrder(c, took[1], rec, up[d.from], up[p] \o took[2], down[d.from], dtn)
    BY <1>4, <1>7, <1>8, <1>10, <2>0, <2>1, <2>4, <2>5, CalleeGoesOn
  <2>6. GoesOn(c, d, took[1], took[2])
    BY <1>9, <2>5
  <2>7. \A rec, dtn : Taken(down[p], dtn, m)
                      /\ Before(c, d, rec, up[d.from], up[d.to], down[d.from], down[d.to])
                      => CallInOrder(c, took[1], rec, up[d.from], up[p] \o took[2], down[d.from], dtn)
    BY <2>0, <2>5
  <2> QED
    BY <1>2, <1>3, <1>4, <1>7, <1>12, <2>0, <2>2, <2>3, <2>6, <2>7, PhoneTakes
<1> QED
  BY <1>11, <1>12

-----------------------------------------------------------------------------
(* The steps of the proxy. *)

(* On which link a datagram comes, and on which it goes on. *)
LEMMA Routes ==
    ASSUME IInv, TalkInv, NEW p \in Phones, NEW m \in Range(up[p]),
           NEW c, c = m.call, NEW d, d = call[c]
    PROVE  /\ p = d.from \/ p = d.to
           /\ m.kind \in {"INVITE", "CANCEL", "ACK"} => p = d.from /\ Receiver(m) = d.to
           /\ m.kind = "BYE" \/ m.of = "BYE" => \/ p = d.from /\ Receiver(m) = d.to
                                                \/ p = d.to /\ Receiver(m) = d.from
           /\ ~IsRequest(m) /\ m.of # "BYE" => p = d.to /\ Receiver(m) = d.from
           /\ m.kind \in {"180", "487", "603"} => m.of = "INVITE"
           /\ m.kind = "200" => m.of \in {"INVITE", "CANCEL", "BYE"}
           /\ m.of = "CANCEL" => d.cancelled
           /\ m.allow => IsRequest(m) \/ p \in Listing
<1>1. /\ InUp(p, m) /\ m \in Datagrams /\ Means(m) /\ Said(d, m)
      /\ Receiver(m) = IF IsRequest(m) THEN m.uri ELSE m.from
  BY DEF IInv, WayInv, InUp, TalkInv, Receiver
<1> QED
  BY <1>1 DEF InUp, Means, Said, IsRequest, Methods, Statuses, Datagrams

(* The proxy's datagram goes on, and its record with it. *)
LEMMA GoesThrough ==
    ASSUME IInv, TalkInv, NEW p \in Phones, NEW m \in Range(up[p]),
           IsRequest(m) \/ is_message_a_status(m),
           NEW c \in Calls, c = m.call, NEW d, d = call[c], NEW rec, OrderAs(c, rec),
           NEW upn, Taken(up[p], upn, m), NEW dn, Passed(down[Receiver(m)], dn, m),
           NEW rec2, rec2 = IF NewState(m) = "none" THEN rec ELSE Stamped(rec, NewState(m))
    PROVE  CallInOrder(c, d, rec2,
                       IF p = d.from THEN upn ELSE up[d.from], IF p = d.to THEN upn ELSE up[d.to],
                       IF Receiver(m) = d.from THEN dn ELSE down[d.from],
                       IF Receiver(m) = d.to THEN dn ELSE down[d.to])
<1>1. m \in Datagrams /\ d.caller # "idle" /\ Sorted(c, m) /\ m.call = c
  BY DatagramKnown DEF Plain
<1>2. d.from \in Phones /\ d.to \in Phones /\ d.from # d.to
  BY <1>1, CallKnown
<1>3. Before(c, d, rec, up[d.from], up[d.to], down[d.from], down[d.to])
  BY <1>1, CallBefore
<1>4. /\ p = d.from \/ p = d.to
      /\ m.kind \in {"INVITE", "CANCEL", "ACK"} => p = d.from /\ Receiver(m) = d.to
      /\ m.kind = "BYE" \/ m.of = "BYE" => \/ p = d.from /\ Receiver(m) = d.to
                                           \/ p = d.to /\ Receiver(m) = d.from
      /\ ~IsRequest(m) /\ m.of # "BYE" => p = d.to /\ Receiver(m) = d.from
      /\ m.kind \in {"180", "487", "603"} => m.of = "INVITE"
      /\ m.kind = "200" => m.of \in {"INVITE", "CANCEL", "BYE"}
      /\ m.of = "CANCEL" => d.cancelled
      /\ m.allow => IsRequest(m) \/ p \in Listing
  BY Routes
<1>5. m.kind \in {"INVITE", "CANCEL", "ACK", "BYE", "180", "200", "487", "603"}
  BY <1>1 DEF IsRequest, Methods, is_message_a_status, Datagrams, Statuses
<1>6. m.kind \in {"INVITE", "CANCEL", "ACK", "BYE"} \/ m.kind = "487" => rec2 = rec
  BY DEF NewState
<1>7. CASE p = d.from
  <2>1. Receiver(m) = d.to /\ (IsRequest(m) \/ (m.kind = "200" /\ m.of = "BYE"))
    <3>1. IsRequest(m) \/ m.of = "BYE"
      BY <1>2, <1>4, <1>7
    <3>2. m.of = "BYE" /\ m.kind \in {"180", "487", "603"} => FALSE
      BY <1>4
    <3>3. m.kind \in {"INVITE", "CANCEL", "ACK", "BYE"} \/ m.of = "BYE"
      BY <3>1 DEF IsRequest, Methods
    <3>4. Receiver(m) = d.to
      BY <1>2, <1>4, <1>7, <3>3
    <3> QED
      BY <1>5, <3>1, <3>2, <3>4 DEF IsRequest, Methods
  <2>2. CallInOrder(c, d, rec2, upn, up[d.to], down[d.from], dn)
    <3>1. Taken(up[d.from], upn, m) /\ Passed(down[d.to], dn, m)
      BY <1>7, <2>1
    <3>2. CASE m.kind \in {"INVITE", "CANCEL"}
      BY <1>1, <1>3, <1>6, <3>1, <3>2, EarlyPasses
    <3>3. CASE m.kind \in {"ACK", "BYE"}
      BY <1>1, <1>3, <1>6, <3>1, <3>3, LatePasses
    <3>4. CASE m.kind = "200" /\ m.of = "BYE"
      <4>1. PICK s : s = NewState(m)
        OBVIOUS
      <4>2. s = IF m.allow THEN "answered" ELSE "ended"
        BY <3>4, <4>1 DEF NewState
      <4>3. s = "ended" \/ (s = "answered" /\ Lists(d))
        BY <1>4, <1>7, <3>4, <4>2 DEF Lists, IsRequest, Methods
      <4>4. rec2 = Stamped(rec, s)
        BY <4>1, <4>2
      <4> QED
        BY <1>1, <1>3, <3>1, <3>4, <4>3, <4>4, CallersEndedPasses
    <3> QED
      BY <2>1, <3>2, <3>3, <3>4 DEF IsRequest, Methods
  <2> QED
    BY <1>2, <1>7, <2>1, <2>2
<1>8. CASE p = d.to
  <2>1. Receiver(m) = d.from /\ m.kind \in {"BYE", "180", "200", "487", "603"}
    BY <1>2, <1>4, <1>5, <1>8 DEF IsRequest, Methods
  <2>2. CallInOrder(c, d, rec2, up[d.from], upn, dn, down[d.to])
    <3>1. Taken(up[d.to], upn, m) /\ Passed(down[d.from], dn, m)
      BY <1>8, <2>1
    <3>2. CASE m.kind = "BYE"
      BY <1>1, <1>3, <1>6, <3>1, <3>2, CalleesByePasses
    <3>3. CASE m.kind = "180"
      <4>1. rec2 = Stamped(rec, "ringing")
        BY <3>3 DEF NewState
      <4> QED
        BY <1>1, <1>3, <3>1, <3>3, <4>1, RingsPasses
    <3>4. CASE m.kind = "200" /\ m.of = "INVITE"
      <4>1. rec2 = Stamped(rec, "answered")
        BY <3>4 DEF NewState
      <4> QED
        BY <1>1, <1>3, <3>1, <3>4, <4>1, AnswerPasses
    <3>5. CASE m.kind = "200" /\ m.of # "INVITE"
      <4>1. PICK s : s = NewState(m)
        OBVIOUS
      <4>2. s = IF m.allow THEN "answered" ELSE IF m.of = "BYE" THEN "ended" ELSE "cancelled"
        BY <3>5, <4>1 DEF NewState
      <4>3. s = "answered" => Lists(d)
        BY <1>4, <1>8, <3>5, <4>2 DEF Lists, IsRequest, Methods
      <4>4. rec2 = Stamped(rec, s)
        BY <4>1, <4>2
      <4>5. CASE m.of = "CANCEL"
        BY <1>1, <1>3, <1>4, <3>1, <3>5, <4>2, <4>3, <4>4, <4>5, CancelOkPasses
      <4>6. CASE m.of = "BYE"
        BY <1>1, <1>3, <3>1, <3>5, <4>2, <4>3, <4>4, <4>6, EndedPasses
      <4> QED
        BY <1>4, <3>5, <4>5, <4>6
    <3>6. CASE m.kind = "487"
      BY <1>1, <1>3, <1>6, <3>1, <3>6, CancelledPasses
    <3>7. CASE m.kind = "603"
      <4>1. rec2 = Stamped(rec, "declined")
        BY <3>7 DEF NewState
      <4> QED
        BY <1>1, <1>3, <3>1, <3>7, <4>1, DeclinePasses
    <3> QED
      BY <2>1, <3>2, <3>3, <3>4, <3>5, <3>6, <3>7
  <2> QED
    BY <1>2, <1>8, <2>1, <2>2
<1> QED
  BY <1>4, <1>7, <1>8

(* The record of a call whose INVITE is still on its way to the proxy would be in order. *)
LEMMA FreshCall ==
    ASSUME IInv, TalkInv, NEW c \in Calls, call[c].caller # "idle", c \notin DOMAIN sip_calls
    PROVE  OrderAs(c, Dialed)
<1>1. PICK d : d = call[c]
  OBVIOUS
<1>2. d.from \in Phones /\ d.to \in Phones /\ Viewed(d) /\ Heard(d)
  BY <1>1, CallKnown
<1>3. RowsOf(InviteKey(c)) = {}
  <2>1. ASSUME NEW t \in RowsOf(InviteKey(c)) PROVE FALSE
    <3>1. PICK k : k = InviteKey(c)
      OBVIOUS
    <3>2. k[3] = c
      BY <3>1 DEF InviteKey
    <3>3. k \in Range(sip_transactions)
      BY <2>1, <3>1 DEF RowsOf, Range
    <3> QED
      BY <3>2, <3>3 DEF TalkInv
  <2> QED
    BY <2>1
<1>4. d.callee = "idle" /\ d.caller = "calling" /\ d.last = "none"
  BY <1>1, <1>2, <1>3 DEF IInv, ViewOK, InviteKey, Viewed, Views
<1>5. /\ \A p \in Phones : \A m \in Range(up[p]) : Sorted(c, m) /\ (m.call = c => m.kind = "INVITE")
      /\ \A p \in Phones : \A m \in Range(down[p]) : Sorted(c, m) /\ m.call # c
  BY <1>3, DatagramsSorted DEF IInv, WayInv, InUp, InDown
<1>6. ASSUME NEW p \in Phones, NEW A \in {Late(c), Byes(c), Rings(c), Finals(c), Answers(c), CancelOks(c),
                Cancelled(c), Declines(c), NotFounds(c), Ended(c), ByeOrEnded(c), Other(c)}
      PROVE  ~Has(up[p], A) /\ ~Has(down[p], A)
  BY <1>5 DEF Has, Sorted, Closed
<1>7. ASSUME NEW q, NEW A, ~Has(q, A)
      PROVE  /\ \A B : NoneAfter(q, A, B) /\ NoneAfter(q, B, A) /\ Led(q, B, A)
  BY <1>7 DEF Has, NoneAfter, Led, Range
<1>8. d.outcome = "none" /\ ~d.acked /\ ~Over(d)
  BY <1>2, <1>4 DEF Heard, Past, Over
<1>9. RequestsInOrder(c, d, up[d.from], up[d.to], down[d.from], down[d.to])
  BY <1>2, <1>6, <1>7, <1>8 DEF RequestsInOrder, Settled
<1>10. ResponsesInOrder(c, d, up[d.from], up[d.to], down[d.from], down[d.to])
  BY <1>2, <1>6, <1>7, <1>8 DEF ResponsesInOrder, Ending
<1>11. /\ RecordTyped(Dialed) /\ Dialed.state = "dialed"
  BY DEF RecordTyped, Dialed, States, Stamps, Timestamp
<1>12. Recorded(c, d, Dialed, up[d.from], up[d.to], down[d.from], down[d.to])
  BY <1>2, <1>4, <1>6, <1>7, <1>8, <1>11 DEF Recorded
<1> QED
  BY <1>1, <1>9, <1>10, <1>11, <1>12 DEF OrderAs, CallInOrder

(* What the proxy takes, and what its step does to a link and to the record of the call. *)
LEMMA ProxyTakes ==
    ASSUME IInv, TalkInv, OrderInv, NEW p \in Phones, NEW i \in DOMAIN up[p], Arrives(p, i),
           NEW m, m = up[p][i], NEW c \in Calls, c = m.call, NEW d, d = call[c],
           call' = call, exited' = exited,
           NEW n \in Datagrams, n.call = c, Said(d, n), NEW q \in Phones,
           down'[q] = down[q] \/ down'[q] = Append(down[q], n),
           \A r \in Phones \ {q} : down'[r] = down[r],
           DOMAIN sip_calls' = DOMAIN sip_calls \cup {c},
           \A b \in DOMAIN sip_calls \ {c} : sip_calls'[b] = sip_calls[b],
           Range(sip_transactions') \subseteq Range(sip_transactions) \cup {Key(m)},
           \A rec, upn :
              (OrderAs(c, rec) /\ Taken(up[p], upn, m)
               /\ (IF c \in DOMAIN sip_calls THEN rec = sip_calls[c] ELSE rec = Dialed))
              => CallInOrder(c, d, sip_calls'[c],
                             IF p = d.from THEN upn ELSE up[d.from], IF p = d.to THEN upn ELSE up[d.to],
                             down'[d.from], down'[d.to])
    PROVE  TalkInv' /\ OrderInv'
<1>1. /\ up[p] \in Seq(Datagrams) /\ (up'[p] = up[p] \/ up'[p] = RemoveAt(up[p], i))
      /\ \A r \in Phones \ {p} : up'[r] = up[r]
      /\ overtaken' = (overtaken \/ i > 1) /\ down[q] \in Seq(Datagrams)
  BY DEF Arrives, IInv, TypeOK
<1>2. Range(up'[p]) \subseteq Range(up[p])
  BY <1>1, RangeRemoveAt
<1>3. m \in Range(up[p])
  BY DEF Range
<1>4. d.caller # "idle"
  BY <1>3, DatagramKnown
<1>5. TalkInv'
  <2>1. \A b \in Calls : Later(call[b], call'[b]) /\ Heard(call'[b])
    BY CallKnown
  <2>2. \A r \in Phones : \A x \in Range(up'[r]) : x \in Range(up[r])
    BY <1>1, <1>2
  <2>3. \A r \in Phones : \A x \in Range(down'[r]) : x \in Range(down[r]) \/ Said(call'[x.call], x)
    <3>1. Range(Append(down[q], n)) = Range(down[q]) \cup {n}
      BY <1>1, RangeAppend
    <3>2. \A x \in Range(down'[q]) : x \in Range(down[q]) \/ Said(call'[x.call], x)
      BY <3>1
    <3> QED
      BY <3>2
  <2>4. \A k \in Range(sip_transactions') : k[3] \in DOMAIN sip_calls'
    <3>1. Key(m)[3] = c
      BY DEF Key
    <3> QED
      BY <3>1 DEF TalkInv
  <2> QED
    BY <2>1, <2>2, <2>3, <2>4, TalkStep
<1>6. ASSUME ~overtaken', ~exited', NEW b \in DOMAIN sip_calls'
      PROVE  CallInOrder(b, call[b], sip_calls'[b], up'[call[b].from], up'[call[b].to],
                         down'[call[b].from], down'[call[b].to])
  <2>1. ~overtaken /\ ~exited /\ ~(i > 1)
    BY <1>1, <1>6
  <2>2. i = 1
    BY <1>1, <2>1, NotBehind
  <2>3. Taken(up[p], up'[p], m)
    BY <1>1, <2>2, TakenFirst
  <2>4. b \in Calls /\ call[b].caller # "idle"
    BY <1>4, <1>6 DEF IInv, TypeOK, TablesInv
  <2>5. call[b].from \in Phones /\ call[b].to \in Phones /\ call[b].from # call[b].to
    BY <2>4, CallKnown
  <2>6. CASE b = c
    <3>1. PICK rec : rec = IF c \in DOMAIN sip_calls THEN sip_calls[c] ELSE Dialed
      OBVIOUS
    <3>2. OrderAs(c, rec)
      <4>1. CASE c \in DOMAIN sip_calls
        BY <2>1, <3>1, <4>1 DEF OrderInv
      <4>2. CASE c \notin DOMAIN sip_calls
        BY <1>4, <3>1, <4>2, FreshCall
      <4> QED
        BY <4>1, <4>2
    <3>3. CallInOrder(c, d, sip_calls'[c],
                      IF p = d.from THEN up'[p] ELSE up[d.from], IF p = d.to THEN up'[p] ELSE up[d.to],
                      down'[d.from], down'[d.to])
      BY <2>3, <3>1, <3>2
    <3>4. /\ up'[d.from] = IF p = d.from THEN up'[p] ELSE up[d.from]
          /\ up'[d.to] = IF p = d.to THEN up'[p] ELSE up[d.to]
      BY <1>1, <2>5, <2>6
    <3> QED
      BY <2>6, <3>3, <3>4
  <2>7. CASE b # c
    <3>1. b \in DOMAIN sip_calls /\ sip_calls'[b] = sip_calls[b]
      BY <1>6, <2>7
    <3>2. CallInOrder(b, call[b], sip_calls[b], up[call[b].from], up[call[b].to],
                      down[call[b].from], down[call[b].to])
      BY <2>1, <3>1 DEF OrderInv, OrderAs
    <3>3. Alike(b, up[p], up'[p])
      BY <2>3, <2>7, AlikeTaken
    <3>4. Alike(b, down[q], down'[q])
      <4>1. Alike(b, down[q], Append(down[q], n))
        <5>1. Gained(down[q], Append(down[q], n), n)
          BY <1>1, GainedByAppend
        <5> QED
          BY <2>7, <5>1, AlikeGained
      <4> QED
        BY <4>1, AlikeSame
    <3>5. \A r \in Phones : Alike(b, up[r], up'[r]) /\ Alike(b, down[r], down'[r])
      BY <1>1, <3>3, <3>4, AlikeSame
    <3>6. CallInOrder(b, call[b], sip_calls[b], up'[call[b].from], up'[call[b].to],
                      down'[call[b].from], down'[call[b].to])
      BY <2>5, <3>2, <3>5, CallStays
    <3> QED
      BY <3>1, <3>6
  <2> QED
    BY <2>6, <2>7
<1> QED
  BY <1>5, <1>6 DEF OrderInv, OrderAs

LEMMA CallFiled ==
    ASSUME IInv, TalkInv, NEW p \in Phones, NEW m \in Range(up[p]), m.kind # "INVITE"
    PROVE  m.call \in DOMAIN sip_calls
<1>1. PICK k : k = InviteKey(m.call)
  OBVIOUS
<1>2. RowsOf(k) # {} /\ k[3] = m.call
  BY <1>1 DEF IInv, WayInv, InUp, InviteKey
<1>3. k \in Range(sip_transactions)
  BY <1>2 DEF RowsOf, Range
<1> QED
  BY <1>2, <1>3 DEF TalkInv

LEMMA ForwardEffect ==
    ASSUME IInv, NEW p, NEW m, NEW dst \in Phones, Forward(p, m, dst)
    PROVE  /\ down'[dst] = down[dst] \/ down'[dst] = Append(down[dst], m)
           /\ \A r \in Phones \ {dst} : down'[r] = down[r]
<1>1. down' = [q \in Phones |-> IF at[q] = registered_users[dst] THEN Append(down[q], m) ELSE down[q]]
  BY DEF Forward
<1>2. \A q \in Phones : at[q] = registered_users[dst] => q = dst
  BY Places DEF IInv
<1> QED
  BY <1>1, <1>2

(* Whatever the proxy forwards, if the record follows. *)
LEMMA ForwardOrder ==
    ASSUME IInv, TalkInv, OrderInv, NEW p \in Phones, NEW i \in DOMAIN up[p], Arrives(p, i),
           NEW m, m = up[p][i], call' = call, exited' = exited,
           IsRequest(m) \/ is_message_a_status(m), Forward(p, m, Receiver(m)),
           sip_transactions' = Transactions(m),
           DOMAIN sip_calls' = DOMAIN sip_calls \cup {m.call},
           \A b \in DOMAIN sip_calls \ {m.call} : sip_calls'[b] = sip_calls[b],
           \A rec : (IF m.call \in DOMAIN sip_calls THEN rec = sip_calls[m.call] ELSE rec = Dialed)
                    => sip_calls'[m.call] = IF NewState(m) = "none" THEN rec
                                            ELSE Stamped(rec, NewState(m))
    PROVE  TalkInv' /\ OrderInv'
<1>1. PICK c : c = m.call
  OBVIOUS
<1>2. PICK d : d = call[c]
  OBVIOUS
<1>3. PICK q : q = Receiver(m)
  OBVIOUS
<1>4. m \in Range(up[p])
  BY DEF Range
<1>5. m \in Datagrams /\ c \in Calls /\ d.caller # "idle" /\ Said(d, m)
  BY <1>1, <1>2, <1>4, DatagramKnown DEF Plain
<1>6. q \in Phones
  BY <1>3, <1>5 DEF Receiver, Datagrams
<1>7. /\ down'[q] = down[q] \/ down'[q] = Append(down[q], m)
      /\ \A r \in Phones \ {q} : down'[r] = down[r]
  BY <1>3, <1>6, ForwardEffect
<1>8. Range(sip_transactions') \subseteq Range(sip_transactions) \cup {Key(m)}
  <2>1. PICK k : k = Key(m)
    OBVIOUS
  <2>2. sip_transactions' = sip_transactions \/ sip_transactions' = Append(sip_transactions, k)
    BY <2>1 DEF Transactions, Key
  <2>3. sip_transactions \in Seq(Rows) /\ k \in Rows
    BY <1>5, <2>1 DEF IInv, TypeOK, Key, Rows, Datagrams
  <2>4. Range(Append(sip_transactions, k)) = Range(sip_transactions) \cup {k}
    BY <2>3, RangeAppend
  <2> QED
    BY <2>1, <2>2, <2>4
<1>9. Passed(down[q], down'[q], m)
  <2>1. down[q] \in Seq(Datagrams)
    BY <1>6 DEF IInv, TypeOK
  <2> QED
    BY <1>5, <1>7, <2>1, PassedOn
<1>10. d.from \in Phones /\ d.to \in Phones
  BY <1>2, <1>5, CallKnown
<1>11. ASSUME NEW rec, NEW upn, OrderAs(c, rec), Taken(up[p], upn, m),
              IF c \in DOMAIN sip_calls THEN rec = sip_calls[c] ELSE rec = Dialed
       PROVE  CallInOrder(c, d, sip_calls'[c],
                          IF p = d.from THEN upn ELSE up[d.from], IF p = d.to THEN upn ELSE up[d.to],
                          down'[d.from], down'[d.to])
  <2>1. PICK rec2 : rec2 = IF NewState(m) = "none" THEN rec ELSE Stamped(rec, NewState(m))
    OBVIOUS
  <2>2. sip_calls'[c] = rec2
    BY <1>1, <1>11, <2>1
  <2>3. CallInOrder(c, d, rec2,
                    IF p = d.from THEN upn ELSE up[d.from], IF p = d.to THEN upn ELSE up[d.to],
                    IF q = d.from THEN down'[q] ELSE down[d.from],
                    IF q = d.to THEN down'[q] ELSE down[d.to])
    BY <1>1, <1>2, <1>3, <1>4, <1>5, <1>9, <1>11, <2>1, GoesThrough
  <2>4. /\ down'[d.from] = IF q = d.from THEN down'[q] ELSE down[d.from]
        /\ down'[d.to] = IF q = d.to THEN down'[q] ELSE down[d.to]
    BY <1>7, <1>10
  <2> QED
    BY <2>2, <2>3, <2>4
<1> QED
  BY <1>1, <1>2, <1>5, <1>6, <1>7, <1>8, <1>11, ProxyTakes

LEMMA RequestOrder ==
    ASSUME IInv, TalkInv, OrderInv, NEW p \in Phones, NEW i \in DOMAIN up[p], Arrives(p, i),
           NEW m, m = up[p][i], call' = call, exited' = exited, process_request(p, m)
    PROVE  TalkInv' /\ OrderInv'
<1>1. /\ m.kind \in {"BYE", "CANCEL", "ACK"} /\ sip_transactions' = Transactions(m)
      /\ Forward(p, m, m.uri) /\ sip_calls' = sip_calls
  BY DEF process_request
<1>2. m \in Range(up[p])
  BY DEF Range
<1>3. m.call \in DOMAIN sip_calls
  BY <1>1, <1>2, CallFiled
<1>4. IsRequest(m) /\ Receiver(m) = m.uri /\ NewState(m) = "none"
  BY <1>1 DEF IsRequest, Methods, Receiver, NewState
<1>5. /\ DOMAIN sip_calls' = DOMAIN sip_calls \cup {m.call}
      /\ \A b \in DOMAIN sip_calls \ {m.call} : sip_calls'[b] = sip_calls[b]
  BY <1>1, <1>3
<1> QED
  BY <1>1, <1>3, <1>4, <1>5, ForwardOrder

LEMMA StatusOrder ==
    ASSUME IInv, TalkInv, OrderInv, NEW p \in Phones, NEW i \in DOMAIN up[p], Arrives(p, i),
           NEW m, m = up[p][i], call' = call, exited' = exited, process_status(p, m)
    PROVE  TalkInv' /\ OrderInv'
<1>1. /\ is_message_a_status(m) /\ sip_transactions' = sip_transactions /\ Forward(p, m, m.from)
      /\ sip_calls' = IF NewState(m) = "none" THEN sip_calls
                      ELSE update_call_state(sip_calls, m.call, NewState(m))
  BY DEF process_status
<1>2. m \in Range(up[p])
  BY DEF Range
<1>3. ~IsRequest(m) /\ Receiver(m) = m.from /\ Transactions(m) = sip_transactions
  BY <1>1 DEF is_message_a_status, IsRequest, Methods, Receiver, Transactions, CreatesTransaction
<1>4. m.call \in DOMAIN sip_calls
  BY <1>2, <1>3, CallFiled DEF IsRequest, Methods
<1>5. /\ DOMAIN sip_calls' = DOMAIN sip_calls
      /\ \A b \in DOMAIN sip_calls \ {m.call} : sip_calls'[b] = sip_calls[b]
      /\ sip_calls'[m.call] = IF NewState(m) = "none" THEN sip_calls[m.call]
                              ELSE Stamped(sip_calls[m.call], NewState(m))
  BY <1>1, <1>4 DEF update_call_state, Stamped
<1>6. DOMAIN sip_calls' = DOMAIN sip_calls \cup {m.call}
  BY <1>4, <1>5
<1> QED
  BY <1>1, <1>3, <1>4, <1>5, <1>6, ForwardOrder

LEMMA InvitationOrder ==
    ASSUME IInv, TalkInv, OrderInv, NEW p \in Phones, NEW i \in DOMAIN up[p], Arrives(p, i),
           NEW m, m = up[p][i], call' = call, exited' = exited, process_invitation_request(p, m)
    PROVE  TalkInv' /\ OrderInv'
<1>1. PICK c : c = m.call
  OBVIOUS
<1>2. PICK d : d = call[c]
  OBVIOUS
<1>3. PICK calls : calls = create_new_call(sip_calls, c)
  OBVIOUS
<1>4. /\ DOMAIN calls = DOMAIN sip_calls \cup {c}
      /\ \A b \in DOMAIN sip_calls : calls[b] = sip_calls[b]
      /\ c \notin DOMAIN sip_calls => calls[c] = Dialed
  BY <1>3 DEF create_new_call
<1>5. m.kind = "INVITE" /\ sip_transactions' = Transactions(m)
  BY DEF process_invitation_request
<1>6. IsRequest(m) /\ Receiver(m) = m.uri /\ NewState(m) = "none"
  BY <1>5 DEF IsRequest, Methods, Receiver, NewState
<1>7. m \in Range(up[p])
  BY DEF Range
<1>8. CASE sip_calls' = calls /\ Forward(p, m, m.uri)
  <2>1. /\ DOMAIN sip_calls' = DOMAIN sip_calls \cup {m.call}
        /\ \A b \in DOMAIN sip_calls \ {m.call} : sip_calls'[b] = sip_calls[b]
        /\ \A rec : (IF m.call \in DOMAIN sip_calls THEN rec = sip_calls[m.call] ELSE rec = Dialed)
                    => sip_calls'[m.call] = rec
    BY <1>1, <1>4, <1>8
  <2> QED
    BY <1>5, <1>6, <1>8, <2>1, ForwardOrder
<1>9. CASE NotFound(p, m)
  <2>1. PICK n : n = Reply(m)
    OBVIOUS
  <2>2. /\ ~find_registered_client(m.uri)
        /\ sip_calls' = update_call_state(calls, c, "failed")
        /\ down' = [down EXCEPT ![p] = Append(@, n)]
    BY <1>1, <1>3, <1>9, <2>1 DEF NotFound, Reply
  <2>3. /\ m \in Datagrams /\ c \in Calls /\ d.caller # "idle" /\ Sorted(c, m) /\ m.of = "INVITE"
    BY <1>1, <1>2, <1>5, <1>6, <1>7, DatagramKnown DEF Plain
  <2>4. p = d.from /\ m.uri = d.to
    BY <1>1, <1>2, <1>5, <1>6, <1>7, Routes
  <2>5. d.from \in Phones /\ d.to \in Phones /\ d.from # d.to
    BY <1>2, <2>3, CallKnown
  <2>6. d.to \notin Located
    BY <2>2, <2>4, <2>5, Places DEF IInv
  <2>7. n \in Datagrams /\ n.call = c /\ n.kind = "404" /\ n.of = "INVITE"
    BY <1>1, <2>1, <2>3 DEF Reply, Status, Datagrams, Statuses
  <2>8. Said(d, n) /\ Sorted(c, n)
    BY <2>7, DatagramsSorted DEF Said
  <2>9. down[p] \in Seq(Datagrams)
    BY DEF IInv, TypeOK
  <2>10. down'[p] = Append(down[p], n) /\ \A r \in Phones \ {p} : down'[r] = down[r]
    BY <2>2 DEF IInv, TypeOK
  <2>11. /\ DOMAIN sip_calls' = DOMAIN sip_calls \cup {c}
         /\ \A b \in DOMAIN sip_calls \ {c} : sip_calls'[b] = sip_calls[b]
         /\ sip_calls'[c] = Stamped(calls[c], "failed")
    BY <1>4, <2>2 DEF update_call_state, Stamped
  <2>12. Gained(down[p], down'[p], n)
    BY <2>7, <2>9, <2>10, GainedByAppend
  <2>13. ASSUME NEW rec, NEW upn, OrderAs(c, rec), Taken(up[p], upn, m),
                IF c \in DOMAIN sip_calls THEN rec = sip_calls[c] ELSE rec = Dialed
         PROVE  CallInOrder(c, d, sip_calls'[c],
                            IF p = d.from THEN upn ELSE up[d.from], IF p = d.to THEN upn ELSE up[d.to],
                            down'[d.from], down'[d.to])
    <3>1. PICK rec2 : rec2 = Stamped(rec, "failed")
      OBVIOUS
    <3>2. sip_calls'[c] = rec2
      BY <1>4, <2>11, <2>13, <3>1
    <3>3. Before(c, d, rec, up[d.from], up[d.to], down[d.from], down[d.to])
      BY <1>2, <2>3, <2>13, CallBefore
    <3>4. RecordTyped(rec)
      BY <3>3 DEF Before, CallInOrder
    <3>5. CallInOrder(c, d, rec2, upn, up[d.to], down'[d.from], down[d.to])
      <4>1. Taken(up[d.from], upn, m) /\ Gained(down[d.from], down'[d.from], n)
        BY <2>4, <2>12, <2>13
      <4> QED
        BY <1>1, <1>5, <2>3, <2>6, <2>7, <2>8, <3>1, <3>3, <3>4, <4>1, NotFoundTold
    <3> QED
      BY <2>4, <2>5, <2>10, <3>2, <3>5
  <2>14. Range(sip_transactions') \subseteq Range(sip_transactions) \cup {Key(m)}
    <3>1. PICK k : k = Key(m)
      OBVIOUS
    <3>2. sip_transactions' = sip_transactions \/ sip_transactions' = Append(sip_transactions, k)
      BY <1>5, <3>1 DEF Transactions, Key
    <3>3. sip_transactions \in Seq(Rows) /\ k \in Rows
      BY <2>3, <3>1 DEF IInv, TypeOK, Key, Rows, Datagrams
    <3>4. Range(Append(sip_transactions, k)) = Range(sip_transactions) \cup {k}
      BY <3>3, RangeAppend
    <3> QED
      BY <3>1, <3>2, <3>4
  <2> QED
    BY <1>1, <1>2, <2>3, <2>7, <2>8, <2>10, <2>11, <2>13, <2>14, ProxyTakes
<1> QED
  BY <1>1, <1>3, <1>8, <1>9 DEF process_invitation_request

LEMMA IgnoreOrder ==
    ASSUME IInv, TalkInv, OrderInv, NEW p \in Phones, NEW i \in DOMAIN up[p], Arrives(p, i),
           NEW m, m = up[p][i], call' = call, Ignore(m)
    PROVE  TalkInv' /\ OrderInv'
<1>1. PICK c : c = m.call
  OBVIOUS
<1>2. PICK d : d = call[c]
  OBVIOUS
<1>3. /\ ~IsRequest(m) /\ ~is_message_a_status(m)
      /\ sip_calls' = sip_calls /\ sip_transactions' = sip_transactions /\ exited' = exited /\ down' = down
  BY DEF Ignore, tables
<1>4. m \in Range(up[p])
  BY DEF Range
<1>5. /\ m \in Datagrams /\ c \in Calls /\ d.caller # "idle" /\ Sorted(c, m) /\ Said(d, m)
  BY <1>1, <1>2, <1>4, DatagramKnown DEF Plain
<1>6. m.kind \in {"404", "486"}
  BY <1>3, <1>5 DEF Datagrams, IsRequest, is_message_a_status, Statuses
<1>7. c \in DOMAIN sip_calls
  BY <1>1, <1>4, <1>6, CallFiled
<1>8. p = d.from \/ p = d.to
  BY <1>1, <1>2, <1>4, Routes
<1>9. d.from # d.to
  BY <1>2, <1>5, CallKnown
<1>10. ASSUME NEW rec, NEW upn, OrderAs(c, rec), Taken(up[p], upn, m),
              IF c \in DOMAIN sip_calls THEN rec = sip_calls[c] ELSE rec = Dialed
       PROVE  CallInOrder(c, d, sip_calls'[c],
                          IF p = d.from THEN upn ELSE up[d.from], IF p = d.to THEN upn ELSE up[d.to],
                          down'[d.from], down'[d.to])
  <2>1. Before(c, d, rec, up[d.from], up[d.to], down[d.from], down[d.to])
    BY <1>2, <1>5, <1>10, CallBefore
  <2>2. PICK ufn : ufn = IF p = d.from THEN upn ELSE up[d.from]
    OBVIOUS
  <2>3. PICK utn : utn = IF p = d.to THEN upn ELSE up[d.to]
    OBVIOUS
  <2>4. \/ Taken(up[d.from], ufn, m) /\ utn = up[d.to]
        \/ ufn = up[d.from] /\ Taken(up[d.to], utn, m)
    BY <1>8, <1>9, <1>10, <2>2, <2>3
  <2>5. CallInOrder(c, d, rec, ufn, utn, down[d.from], down[d.to])
    BY <1>1, <1>5, <1>6, <2>1, <2>4, IgnoredLost
  <2> QED
    BY <1>3, <1>7, <1>10, <2>2, <2>3, <2>5
<1>11. /\ DOMAIN sip_calls' = DOMAIN sip_calls \cup {c}
       /\ \A b \in DOMAIN sip_calls \ {c} : sip_calls'[b] = sip_calls[b]
       /\ down'[p] = down[p] \/ down'[p] = Append(down[p], m)
       /\ \A r \in Phones \ {p} : down'[r] = down[r]
       /\ Range(sip_transactions') \subseteq Range(sip_transactions) \cup {Key(m)}
  BY <1>3, <1>7
<1> QED
  BY <1>1, <1>2, <1>3, <1>5, <1>10, <1>11, ProxyTakes

LEMMA ExitOrder ==
    ASSUME IInv, TalkInv, NEW p \in Phones, NEW i \in DOMAIN up[p], Arrives(p, i),
           NEW m, call' = call, Exit(p, m)
    PROVE  TalkInv' /\ OrderInv'
<1>1. /\ exited' = TRUE /\ sip_calls' = sip_calls /\ sip_transactions' = sip_transactions
      /\ down' = down
  BY DEF Exit
<1>2. /\ up[p] \in Seq(Datagrams) /\ (up'[p] = up[p] \/ up'[p] = RemoveAt(up[p], i))
      /\ \A r \in Phones \ {p} : up'[r] = up[r]
  BY DEF Arrives, IInv, TypeOK
<1>3. \A r \in Phones : Range(up'[r]) \subseteq Range(up[r])
  BY <1>2, RangeRemoveAt
<1>4. \A b \in Calls : Later(call[b], call'[b]) /\ Heard(call'[b])
  BY CallKnown
<1>5. \A k \in Range(sip_transactions') : k[3] \in DOMAIN sip_calls'
  BY <1>1 DEF TalkInv
<1>6. TalkInv'
  BY <1>1, <1>3, <1>4, <1>5, TalkStep
<1> QED
  BY <1>1, <1>6 DEF OrderInv

LEMMA ProxyOrder ==
    ASSUME IInv, TalkInv, OrderInv, NEW p \in Phones, Proxy(p)
    PROVE  TalkInv' /\ OrderInv'
<1>1. PICK i \in DOMAIN up[p] :
        LET m == up[p][i]
        IN /\ Arrives(p, i)
           /\ \/ Ignore(m)
              \/ (IsRequest(m) \/ is_message_a_status(m)) /\ Exit(p, m)
              \/ /\ ~Fails(p, m)
                 /\ UNCHANGED exited
                 /\ process_invitation_request(p, m) \/ process_request(p, m) \/ process_status(p, m)
  BY DEF Proxy
<1>2. PICK m : m = up[p][i]
  OBVIOUS
<1>3. call' = call /\ Arrives(p, i)
  BY <1>1 DEF Proxy
<1>4. CASE Ignore(m)
  BY <1>2, <1>3, <1>4, IgnoreOrder
<1>5. CASE Exit(p, m)
  BY <1>3, <1>5, ExitOrder
<1>6. CASE exited' = exited /\ process_invitation_request(p, m)
  BY <1>2, <1>3, <1>6, InvitationOrder
<1>7. CASE exited' = exited /\ process_request(p, m)
  BY <1>2, <1>3, <1>7, RequestOrder
<1>8. CASE exited' = exited /\ process_status(p, m)
  BY <1>2, <1>3, <1>8, StatusOrder
<1> QED
  BY <1>1, <1>2, <1>4, <1>5, <1>6, <1>7, <1>8

-----------------------------------------------------------------------------
LEMMA InitTalk == Init => TalkInv /\ OrderInv
<1> SUFFICES ASSUME Init PROVE TalkInv /\ OrderInv
  OBVIOUS
<1>1. /\ sip_calls = << >> /\ sip_transactions = << >>
      /\ up = [p \in Phones |-> << >>] /\ down = [p \in Phones |-> << >>]
      /\ call = [c \in Calls |-> Unused]
  BY DEF Init, TalkInit
<1>2. Range(<< >>) = {} /\ DOMAIN << >> = {}
  BY NoneSent
<1>3. \A c \in Calls : Heard(call[c])
  BY <1>1 DEF Heard, Unused, Past
<1>4. TalkInv
  BY <1>1, <1>2, <1>3 DEF TalkInv
<1>5. OrderInv
  BY <1>1, <1>2 DEF OrderInv
<1> QED
  BY <1>4, <1>5

LEMMA StepTalk == IInv /\ TalkInv /\ OrderInv /\ [Next]_vars => (TalkInv /\ OrderInv)'
<1> SUFFICES ASSUME IInv, TalkInv, OrderInv, [Next]_vars PROVE TalkInv' /\ OrderInv'
  OBVIOUS
<1>1. CASE \E p \in Phones : Proxy(p)
  BY <1>1, ProxyOrder
<1>2. CASE \E p \in Phones : Phone(p)
  BY <1>2, PhoneOrder
<1>3. CASE \E c \in Calls : \E p, q \in Phones : Dial(c, p, q)
  BY <1>3, DialOrder
<1>4. CASE \E c \in Calls : Redial(c) \/ GiveUp(c) \/ Answer(c) \/ Refuse(c) \/ HangUp(c)
  BY <1>4, RedialOrder, GiveUpOrder, AnswerOrder, RefuseOrder, HangUpOrder
<1>5. CASE UNCHANGED vars
  <2>1. /\ call' = call /\ up' = up /\ down' = down /\ overtaken' = overtaken /\ exited' = exited
        /\ sip_calls' = sip_calls /\ sip_transactions' = sip_transactions
    BY <1>5 DEF vars, talk, tables
  <2> QED
    BY <2>1 DEF TalkInv, OrderInv, OrderAs
<1> QED
  BY <1>1, <1>2, <1>3, <1>4, <1>5 DEF Next

LEMMA TalkInvariance == Spec => [](IInv /\ TalkInv /\ OrderInv)
<1>1. Init => TalkInv /\ OrderInv
  BY InitTalk
<1>2. IInv /\ (TalkInv /\ OrderInv) /\ [Next]_vars => (TalkInv /\ OrderInv)'
  BY StepTalk
<1> QED
  BY <1>1, <1>2, Invariance, PTL DEF Spec

(* If no datagram overtook another, the record of a call that is over says how it went, once
   nothing is on its way, whatever was repeated, given up late or refused. *)
THEOREM RecordsTellOutcome == Spec => []RecordMatchesOutcome
<1>1. ASSUME IInv, TalkInv, OrderInv, NEW c \in Calls, Quiet, ~exited, ~overtaken,
             call[c].caller = "over", ~Misread(c)
      PROVE  CASE call[c].outcome = "completed" ->
                    sip_calls[c] = [state |-> "ended", stamps |-> Stamps]
               [] call[c].outcome = "declined" ->
                    sip_calls[c].state \in {"declined"} \cup
                        (IF call[c].cancelled THEN {"cancelled"} ELSE {})
               [] OTHER -> sip_calls[c].state = call[c].outcome
  <2>1. PICK d : d = call[c]
    OBVIOUS
  <2>2. PICK rec : rec = sip_calls[c]
    OBVIOUS
  <2>3. d.from \in Phones /\ d.to \in Phones /\ Viewed(d) /\ Heard(d)
    BY <1>1, <2>1, CallKnown
  <2>4. c \in DOMAIN sip_calls
    <3>1. PICK k : k = InviteKey(c)
      OBVIOUS
    <3>2. RowsOf(k) # {} /\ k[3] = c
      BY <1>1, <3>1 DEF IInv, ViewOK, InviteKey
    <3>3. k \in Range(sip_transactions)
      BY <3>2 DEF RowsOf, Range
    <3> QED
      BY <1>1, <3>2, <3>3 DEF TalkInv
  <2>5. RecordTyped(rec) /\ Recorded(c, d, rec, up[d.from], up[d.to], down[d.from], down[d.to])
    BY <1>1, <2>1, <2>2, <2>4 DEF OrderInv, OrderAs, CallInOrder
  <2>6. \A p \in Phones : \A A : ~Has(up[p], A) /\ ~Has(down[p], A)
    BY <1>1, NoneSent DEF Quiet, Has
  <2>7. ~ListsAnswered(d, rec)
    BY <1>1, <2>1, <2>2 DEF Misread, ListsAnswered, Lists
  <2>8. CASE d.outcome = "completed"
    <3>1. Over(d) /\ EndNoted(d, rec)
      BY <1>1, <2>1, <2>3, <2>5, <2>6, <2>8 DEF Over, Recorded
    <3>2. rec.state = "ended" /\ Rang(rec) /\ Answered(rec)
      BY <2>5, <2>7, <2>8, <3>1 DEF EndNoted, Recorded
    <3>3. rec.stamps = Stamps
      BY <2>5, <3>2 DEF RecordTyped, Rang, Answered, Timestamp, Stamps
    <3> QED
      BY <2>1, <2>2, <2>5, <2>8, <3>2, <3>3 DEF RecordTyped
  <2>9. CASE d.outcome = "declined"
    <3>1. DeclineNoted(d, rec)
      BY <2>5, <2>9 DEF Recorded
    <3> QED
      BY <2>1, <2>2, <2>7, <2>9, <3>1 DEF DeclineNoted
  <2>10. CASE d.outcome = "cancelled"
    <3>1. CancelNoted(d, rec)
      BY <2>5, <2>10 DEF Recorded
    <3> QED
      BY <2>1, <2>2, <2>7, <2>10, <3>1 DEF CancelNoted
  <2>11. CASE d.outcome = "failed"
    BY <2>1, <2>2, <2>5, <2>11 DEF Recorded
  <2> QED
    BY <1>1, <2>1, <2>3, <2>8, <2>9, <2>10, <2>11 DEF Viewed, Views, Heard
<1>2. IInv /\ (TalkInv /\ OrderInv) => RecordMatchesOutcome
  BY <1>1 DEF RecordMatchesOutcome
<1> QED
  BY <1>2, TalkInvariance, PTL

=============================================================================
