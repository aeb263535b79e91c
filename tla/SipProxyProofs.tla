--------------------------- MODULE SipProxyProofs ---------------------------
(* Theorems about SipRegistrar, and about SipProxy, which puts SipRegistrar and SipCalls
   together, for any phones, calls, addresses, size of the ring and bounds on what goes
   wrong. *)
EXTENDS SipProxy, CommonLemmas

(* The number of responses accepted for a challenge goes up by one. *)
LEMMA CountUp ==
    ASSUME NEW s \in Seq(Nat), NEW n
    PROVE  LET t == [s EXCEPT ![n] = @ + 1] IN
           /\ t \in Seq(Nat)
           /\ Len(t) = Len(s) /\ DOMAIN t = DOMAIN s
           /\ \A k \in DOMAIN s : t[k] = IF k = n THEN s[k] + 1 ELSE s[k]
<1> DEFINE t == [s EXCEPT ![n] = @ + 1]
<1>1. Len(s) \in Nat /\ DOMAIN s = 1 .. Len(s) /\ \A k \in 1 .. Len(s) : s[k] \in Nat
  BY LenProperties, ElementOfSeq
<1>2. DOMAIN t = 1 .. Len(s) /\ \A k \in 1 .. Len(s) : t[k] = IF k = n THEN s[k] + 1 ELSE s[k]
  BY <1>1
<1>3. \A k \in 1 .. Len(s) : t[k] \in Nat
  BY <1>1, <1>2
<1>4. t = [k \in 1 .. Len(s) |-> t[k]]
  BY <1>2
<1>5. t \in Seq(Nat) /\ Len(t) = Len(s)
  <2> HIDE DEF t
  <2> QED
    BY <1>1, <1>3, <1>4, IsASeq
<1> QED
  BY <1>1, <1>2, <1>5

-----------------------------------------------------------------------------
(* Types. *)

LEMMA NextSlotType ==
    ASSUME NEW i \in Slots
    PROVE  NextSlot(i) \in Slots
BY RingAssumption DEF Slots, NextSlot

LEMMA HappensType ==
    ASSUME TypeOK, NEW max, NEW what \in DOMAIN count, Happens(what, max)
    PROVE  count' \in [Bounded -> Nat]
BY DEF TypeOK, Happens

(* The network hands m over and takes r. *)
HandsOver(m, r) == net' \in {(net \ {m}) \cup {r}, net \cup {r}}

LEMMA HandleType ==
    ASSUME TypeOK, NEW m, NEW r \in ResponseMsgs,
           Handle(m, {r}) \/ HandleUnterminated(m, {r})
    PROVE  /\ net' \subseteq REGISTERs \cup ResponseMsgs
           /\ net' \subseteq net \cup {r}
           /\ count' \in [Bounded -> Nat]
<1>1. net \subseteq REGISTERs \cup ResponseMsgs
  BY DEF TypeOK
<1>2. net' \subseteq net \cup {r}
  BY DEF Handle, HandleUnterminated
<1>3. CASE Happens("dups", MaxDups)
  BY <1>1, <1>2, <1>3, HappensType DEF TypeOK, Bounded
<1>4. CASE UNCHANGED count
  BY <1>1, <1>2, <1>4 DEF TypeOK
<1>5. CASE HandleUnterminated(m, {r})
  BY <1>1, <1>2, <1>5 DEF HandleUnterminated, TypeOK, Bounded
<1> QED
  BY <1>3, <1>4, <1>5 DEF Handle

LEMMA RequestType ==
    ASSUME TypeOK, NEW p \in Phones, NEW m \in Requests(p)
    PROVE  m \in REGISTERs /\ m \in net /\ m.from = p
BY DEF TypeOK, Requests, ResponseMsgs

LEMMA ResponseType ==
    ASSUME NEW m \in REGISTERs, NEW kind \in {"200", "401", "403"}, NEW nonce \in Nat
    PROVE  Response(m, kind, nonce) \in ResponseMsgs
BY DEF REGISTERs, ResponseMsgs, Response

LEMMA RegisterType ==
    ASSUME TypeOK, NEW p \in Phones, NEW cseq \in Nat,
           NEW expires \in {"positive", "zero"}, NEW auth \in Digests
    PROVE  Register(p, cseq, expires, auth) \in REGISTERs
BY DEF TypeOK, Register, REGISTERs

LEMMA LookUpType ==
    ASSUME TypeOK, NEW p \in Phones
    PROVE  LookUp(p) \in Accounts \cup {None}
BY DEF TypeOK, LookUp

LEMMA DigestType ==
    ASSUME NEW h \in Phones \cup {None}, NEW n \in Nat \cup {-1}
    PROVE  Digest(h, n) \in Digests
BY DEF Digest, Digests

LEMMA BlankType == Blank \in Digests /\ NoAuth \in Digests
BY DEF Blank, NoAuth, Digest, Digests

(* The initial state is well typed. *)
LEMMA TypeInit == Init => TypeOK
<1> SUFFICES ASSUME Init PROVE TypeOK
  OBVIOUS
<1>1. cur_challenge_index \in Slots
  BY RingAssumption DEF Init, Slots
<1>2. open_challenges \in [Slots -> Digests]
  BY BlankType DEF Init
<1>3. granted \in Seq(Nat) /\ born \in 0 .. Len(granted)
  BY DEF Init
<1>4. phone \in [Phones -> [at : Addresses, state : Waiting \cup {"rest"},
                            reg : BOOLEAN, cseq : Nat, auth : Digests]]
  <2>1. phone \in [Phones -> [at : Addresses, state : {"rest"}, reg : {FALSE},
                              cseq : {0}, auth : {NoAuth}]]
    BY DEF Init
  <2>2. ASSUME NEW p \in Phones
        PROVE  phone[p] \in [at : Addresses, state : Waiting \cup {"rest"},
                             reg : BOOLEAN, cseq : Nat, auth : Digests]
    <3>1. phone[p] \in [at : Addresses, state : {"rest"}, reg : {FALSE},
                        cseq : {0}, auth : {NoAuth}]
      BY <2>1
    <3>2. NoAuth \in Digests /\ FALSE \in BOOLEAN /\ 0 \in Nat
      BY BlankType
    <3> QED
      BY <3>1, <3>2
  <2> QED
    BY <2>1, <2>2
<1> QED
  BY <1>1, <1>2, <1>3, <1>4 DEF Init, TypeOK

LEMMA RebornType ==
    ASSUME Reborn, granted' \in Seq(Nat)
    PROVE  /\ open_challenges' \in [Slots -> Digests]
           /\ cur_challenge_index' \in Slots
           /\ HA1' \in Accounts \cup {None}
           /\ born' \in 0 .. Len(granted')
<1>1. Len(granted') \in Nat
  BY LenProperties
<1> QED
  BY <1>1, BlankType, RingAssumption DEF Reborn, Slots

(* The proxy handles a request. *)
LEMMA TypeServe ==
    ASSUME TypeOK, NEW p \in Phones, NEW m \in Requests(p),
           process_registration_request(m)
    PROVE  TypeOK'
<1>1. /\ m \in REGISTERs /\ m.from = p
      /\ m.from \in Phones /\ m.src \in Addresses /\ m.auth \in Digests
  BY RequestType DEF REGISTERs
<1>2. LookUp(m.from) \in Accounts \cup {None}
  BY <1>1, LookUpType
<1>3. Len(granted) \in Nat /\ granted \in Seq(Nat)
  BY LenProperties DEF TypeOK
<1>4. CASE deregister_client(m)
  <2>1. Handle(m, {Response(m, "200", 0)})
    BY <1>4 DEF deregister_client
  <2>2. /\ net' \subseteq REGISTERs \cup ResponseMsgs
        /\ count' \in [Bounded -> Nat]
    BY <1>1, <2>1, ResponseType, HandleType
  <2>3. registered_users' \in [Phones -> Addresses \cup {None}]
    BY <1>1, <1>4 DEF deregister_client, Deleted, TypeOK
  <2> QED
    BY <1>2, <1>4, <2>2, <2>3 DEF deregister_client, TypeOK
<1>5. CASE challenge_client(m)
  <2>1. granted' \in Seq(Nat) /\ Len(granted') = Len(granted) + 1
    BY <1>3, <1>5, AppendProperties DEF challenge_client
  <2>2. /\ net' \subseteq REGISTERs \cup ResponseMsgs
        /\ count' \in [Bounded -> Nat]
    BY <1>1, <1>3, <1>5, <2>1, ResponseType, HandleType DEF challenge_client
  <2>3. Digest(LookUp(m.from), Len(granted')) \in Digests
    <3>1. LookUp(m.from) \in Phones \cup {None}
      BY <1>2 DEF Phones
    <3>2. Len(granted') \in Nat \cup {-1}
      BY <1>3, <2>1
    <3> QED
      BY <3>1, <3>2, DigestType
  <2>4. open_challenges' \in [Slots -> Digests]
    BY <1>5, <2>3 DEF challenge_client, TypeOK
  <2>5. cur_challenge_index' \in Slots
    BY <1>5, NextSlotType DEF challenge_client, TypeOK
  <2>6. born' \in 0 .. Len(granted')
    BY <1>3, <1>5, <2>1 DEF challenge_client, TypeOK
  <2> QED
    BY <1>2, <1>5, <2>1, <2>2, <2>4, <2>5, <2>6 DEF challenge_client, TypeOK
<1>6. CASE challenge_without_nonce(m)
  <2>1. /\ net' \subseteq REGISTERs \cup ResponseMsgs
        /\ count' \in [Bounded -> Nat]
    BY <1>1, <1>6, ResponseType, HandleType DEF challenge_without_nonce
  <2> QED
    BY <1>2, <1>6, <2>1 DEF challenge_without_nonce, TypeOK
<1>7. CASE accept_client(m)
  <2>1. /\ net' \subseteq REGISTERs \cup ResponseMsgs
        /\ count' \in [Bounded -> Nat]
    BY <1>1, <1>7, ResponseType, HandleType DEF accept_client
  <2>2. granted' \in Seq(Nat) /\ Len(granted') = Len(granted)
    BY <1>3, <1>7, CountUp DEF accept_client
  <2>3. open_challenges' \in [Slots -> Digests]
    BY <1>7, BlankType DEF accept_client, Wiped, TypeOK
  <2>4. registered_users' \in [Phones -> Addresses \cup {None}]
    BY <1>1, <1>7 DEF accept_client, Inserted, TypeOK
  <2> QED
    BY <1>2, <1>7, <2>1, <2>2, <2>3, <2>4 DEF accept_client, TypeOK
<1>8. CASE forbid_client(m)
  <2>1. /\ net' \subseteq REGISTERs \cup ResponseMsgs
        /\ count' \in [Bounded -> Nat]
    BY <1>1, <1>8, ResponseType, HandleType DEF forbid_client
  <2> QED
    BY <1>2, <1>8, <2>1 DEF forbid_client, TypeOK
<1> QED
  BY <1>4, <1>5, <1>6, <1>7, <1>8 DEF process_registration_request

LEMMA TypeCrash ==
    ASSUME TypeOK, NEW p \in Phones, NEW m \in Requests(p), CrashBeforeWrite(m)
    PROVE  TypeOK'
<1>1. m \in REGISTERs
  BY RequestType
<1>2. Response(m, "200", 0) \in ResponseMsgs
  BY <1>1, ResponseType
<1>3. granted' \in Seq(Nat)
  BY CountUp DEF CrashBeforeWrite, TypeOK
<1>4. net' \subseteq REGISTERs \cup ResponseMsgs
  BY <1>2 DEF CrashBeforeWrite, TypeOK
<1>5. count' \in [Bounded -> Nat]
  BY HappensType DEF CrashBeforeWrite, TypeOK, Bounded
<1>6. Reborn
  BY DEF CrashBeforeWrite
<1> QED
  BY <1>3, <1>4, <1>5, <1>6, RebornType DEF CrashBeforeWrite, TypeOK

LEMMA TypeRestart ==
    ASSUME TypeOK, Restart
    PROVE  TypeOK'
<1>1. count' \in [Bounded -> Nat]
  BY HappensType DEF Restart, TypeOK, Bounded
<1>2. granted' \in Seq(Nat) /\ Reborn
  BY DEF Restart, TypeOK
<1> QED
  BY <1>1, <1>2, RebornType DEF Restart, TypeOK

LEMMA SendType ==
    ASSUME TypeOK, NEW p \in Phones, NEW state \in Waiting, NEW auth \in Digests,
           Send(p, state, auth)
    PROVE  /\ phone' \in [Phones -> [at : Addresses, state : Waiting \cup {"rest"},
                                     reg : BOOLEAN, cseq : Nat, auth : Digests]]
           /\ net' \subseteq REGISTERs \cup ResponseMsgs
<1>1. phone[p].cseq + 1 \in Nat
  BY DEF TypeOK
<1>2. Register(p, phone[p].cseq + 1, IF state = "leaving" THEN "zero" ELSE "positive", auth)
        \in REGISTERs
  BY <1>1, RegisterType
<1>3. net' \subseteq REGISTERs \cup ResponseMsgs
  BY <1>2 DEF Send, TypeOK
<1> QED
  BY <1>1, <1>3 DEF Send, TypeOK

(* A phone starts something. *)
LEMMA TypePhone ==
    ASSUME TypeOK, NEW p \in Phones,
           Ask(p) \/ Renew(p) \/ Leave(p) \/ Move(p) \/ Retransmit(p)
    PROVE  TypeOK'
<1> DEFINE PhoneType == [Phones -> [at : Addresses, state : Waiting \cup {"rest"},
                                    reg : BOOLEAN, cseq : Nat, auth : Digests]]
           Net == REGISTERs \cup ResponseMsgs
           Count == [Bounded -> Nat]
<1>1. NoAuth \in Digests
  BY BlankType
<1>2. CASE Ask(p)
  <2>1. phone' \in PhoneType /\ net' \subseteq Net
    BY <1>1, <1>2, SendType DEF Ask, Waiting
  <2> QED
    BY <1>2, <2>1 DEF Ask, TypeOK, proxy
<1>3. CASE Renew(p)
  <2>1. phone' \in PhoneType /\ net' \subseteq Net
    BY <1>1, <1>3, SendType DEF Renew, Waiting
  <2>2. count' \in Count
    BY <1>3, HappensType DEF Renew, TypeOK, Bounded
  <2> QED
    BY <1>3, <2>1, <2>2 DEF Renew, TypeOK, proxy
<1>4. CASE Leave(p)
  <2>1. phone' \in PhoneType /\ net' \subseteq Net
    BY <1>1, <1>4, SendType DEF Leave, Waiting
  <2>2. count' \in Count
    BY <1>4, HappensType DEF Leave, TypeOK, Bounded
  <2> QED
    BY <1>4, <2>1, <2>2 DEF Leave, TypeOK, proxy
<1>5. CASE Move(p)
  <2>1. phone' \in PhoneType
    <3>1. PICK a \in Addresses : phone' = [phone EXCEPT ![p].at = a, ![p].reg = FALSE]
      BY <1>5 DEF Move
    <3>2. phone[p] \in [at : Addresses, state : Waiting \cup {"rest"}, reg : BOOLEAN,
                        cseq : Nat, auth : Digests]
      BY DEF TypeOK
    <3>3. [phone[p] EXCEPT !.at = a, !.reg = FALSE] \in
              [at : Addresses, state : Waiting \cup {"rest"}, reg : BOOLEAN,
               cseq : Nat, auth : Digests]
      BY <3>2
    <3> QED
      BY <3>1, <3>3 DEF TypeOK
  <2>2. count' \in Count
    BY <1>5, HappensType DEF Move, TypeOK, Bounded
  <2> QED
    BY <1>5, <2>1, <2>2 DEF Move, TypeOK, proxy
<1>6. CASE Retransmit(p)
  <2>1. phone[p].cseq \in Nat /\ phone[p].auth \in Digests
    BY DEF TypeOK
  <2>2. Current(p) \in REGISTERs
    BY <2>1, RegisterType DEF Current
  <2> QED
    BY <1>6, <2>2 DEF Retransmit, TypeOK, proxy
<1> QED
  BY <1>2, <1>3, <1>4, <1>5, <1>6

(* A phone takes a response. *)
LEMMA TypeReceive ==
    ASSUME TypeOK, NEW p \in Phones, NEW r \in Responses(p), PhoneReceives(r)
    PROVE  TypeOK'
<1>1. r \in ResponseMsgs /\ r \in net /\ r.to \in Phones /\ r.cseq \in Nat /\ r.nonce \in Nat
  BY DEF TypeOK, Responses, REGISTERs, ResponseMsgs
<1>2. r.cseq + 1 \in Nat
  BY <1>1
<1>3. Digest(r.to, r.nonce) \in Digests
  BY <1>1, DigestType
<1>4. Register(r.to, r.cseq + 1, "positive", Digest(r.to, r.nonce)) \in REGISTERs
  BY <1>1, <1>2, <1>3, RegisterType
<1>5. net' \subseteq REGISTERs \cup ResponseMsgs
  BY <1>4 DEF PhoneReceives, TypeOK
<1>6. phone' \in [Phones -> [at : Addresses, state : Waiting \cup {"rest"},
                            reg : BOOLEAN, cseq : Nat, auth : Digests]]
  <2> DEFINE old == phone[r.to]
  <2>0. old \in [at : Addresses, state : Waiting \cup {"rest"}, reg : BOOLEAN,
                 cseq : Nat, auth : Digests]
    BY <1>1 DEF TypeOK
  <2>1. CASE ~Expected(r)
    BY <2>1 DEF PhoneReceives, TypeOK
  <2>2. CASE phone' = [phone EXCEPT ![r.to] =
                  [@ EXCEPT !.state = "answering", !.cseq = r.cseq + 1,
                            !.auth = Digest(r.to, r.nonce)]]
    <3>1. [old EXCEPT !.state = "answering", !.cseq = r.cseq + 1,
                      !.auth = Digest(r.to, r.nonce)]
            \in [at : Addresses, state : Waiting \cup {"rest"}, reg : BOOLEAN,
                 cseq : Nat, auth : Digests]
      BY <1>2, <1>3, <2>0 DEF Waiting
    <3> QED
      BY <1>1, <2>2, <3>1 DEF TypeOK
  <2>3. CASE phone' = [phone EXCEPT ![r.to].state = "rest",
                                    ![r.to].reg = (phone[r.to].state # "leaving")]
    BY <1>1, <2>0, <2>3 DEF TypeOK
  <2>4. CASE phone' = [phone EXCEPT ![r.to].state = "rest", ![r.to].reg = FALSE]
    BY <1>1, <2>0, <2>4 DEF TypeOK
  <2> QED
    BY <2>1, <2>2, <2>3, <2>4 DEF PhoneReceives
<1> QED
  BY <1>5, <1>6 DEF PhoneReceives, TypeOK, proxy

LEMMA TypeLose ==
    ASSUME TypeOK, NEW m \in net, Lose(m)
    PROVE  TypeOK'
<1>1. count' \in [Bounded -> Nat]
  BY HappensType DEF Lose, TypeOK, Bounded
<1> QED
  BY <1>1 DEF Lose, TypeOK, proxy

LEMMA TypeNext == TypeOK /\ [Next]_vars => TypeOK'
<1> SUFFICES ASSUME TypeOK, [Next]_vars PROVE TypeOK'
  OBVIOUS
<1>1. CASE UNCHANGED vars
  BY <1>1 DEF vars, proxy, TypeOK
<1>2. CASE \E p \in Phones : Serve(p)
  BY <1>2, TypeServe DEF Serve
<1>3. CASE \E p \in Phones : Receive(p)
  BY <1>3, TypeReceive DEF Receive
<1>4. CASE \E p \in Phones : Ask(p) \/ Renew(p) \/ Leave(p) \/ Move(p) \/ Retransmit(p)
  BY <1>4, TypePhone
<1>5. CASE \E p \in Phones : \E m \in Requests(p) : CrashBeforeWrite(m)
  BY <1>5, TypeCrash
<1>6. CASE \E m \in net : Lose(m)
  BY <1>6, TypeLose
<1>7. CASE Restart
  BY <1>7, TypeRestart
<1> QED
  BY <1>1, <1>2, <1>3, <1>4, <1>5, <1>6, <1>7 DEF Next

(* Every variable of the registrar keeps its type, for any phones, ring and
   faults; in particular the index stays within the ring. *)
THEOREM RegistrarTypes == Spec => []TypeOK
  BY TypeInit, TypeNext, PTL DEF Spec

-----------------------------------------------------------------------------
(* No challenge is accepted twice. *)

(* A slot of the ring is blank or expects the response to a challenge that was
   made and not accepted. *)
RingFresh ==
    \A i \in Slots :
        /\ open_challenges[i].nonce \in {0} \cup DOMAIN granted
        /\ open_challenges[i].nonce # 0 => granted[open_challenges[i].nonce] = 0

(* No challenge has two slots: wiping one is enough. *)
SlotsDiffer ==
    \A i, j \in Slots : open_challenges[i].nonce = open_challenges[j].nonce
                            => i = j \/ open_challenges[i].nonce = 0

(* No request presents the response that a blank slot would match. *)
AuthNotBlank ==
    /\ \A m \in net : m.kind = "REGISTER" => m.auth.nonce # 0
    /\ \A p \in Phones : phone[p].auth.nonce # 0

OnceInv == AcceptedOnce /\ RingFresh /\ SlotsDiffer /\ AuthNotBlank

LEMMA AtFirst ==
    ASSUME Init \/ ProxyInit
    PROVE  /\ open_challenges = [i \in Slots |-> Blank] /\ granted = << >> /\ net = {}
           /\ \A p \in Phones : phone[p].auth = NoAuth
<1>1. CASE Init
  BY <1>1 DEF Init
<1>2. CASE ProxyInit
  <2>1. phone \in [Phones -> [at : Addresses, state : {"rest"}, reg : BOOLEAN, cseq : {0},
                             auth : {NoAuth}]]
    BY <1>2 DEF ProxyInit
  <2> QED
    BY <1>2, <2>1 DEF ProxyInit
<1> QED
  BY <1>1, <1>2

LEMMA OnceInit == Init \/ ProxyInit => OnceInv
<1> SUFFICES ASSUME Init \/ ProxyInit PROVE OnceInv
  OBVIOUS
<1>1. AcceptedOnce
  BY AtFirst DEF AcceptedOnce
<1>2. RingFresh /\ SlotsDiffer
  BY AtFirst DEF RingFresh, SlotsDiffer, Blank, Digest
<1>3. ASSUME NEW p \in Phones
      PROVE  phone[p].auth.nonce # 0
  <2>1. phone[p].auth = NoAuth
    BY AtFirst
  <2> QED
    BY <2>1 DEF NoAuth, Digest
<1>4. AuthNotBlank
  BY <1>3, AtFirst DEF AuthNotBlank
<1> QED
  BY <1>1, <1>2, <1>4 DEF OnceInv

(* What a valid response says about the ring. *)
LEMMA ValidMatches ==
    ASSUME TypeOK, OnceInv, NEW p \in Phones, NEW m \in Requests(p), ValidResponse(m)
    PROVE  /\ Min(Matching(m.auth)) \in Slots
           /\ open_challenges[Min(Matching(m.auth))] = m.auth
           /\ m.auth.nonce # 0
           /\ m.auth.nonce \in DOMAIN granted
           /\ granted[m.auth.nonce] = 0
<1>1. Matching(m.auth) # {} /\ Matching(m.auth) \subseteq Slots
  BY DEF ValidResponse, Matching
<1>2. Slots \subseteq Nat
  BY RingAssumption DEF Slots
<1>3. Min(Matching(m.auth)) \in Matching(m.auth)
  BY <1>1, <1>2, MinIsLeast
<1>4. Min(Matching(m.auth)) \in Slots /\ open_challenges[Min(Matching(m.auth))] = m.auth
  BY <1>3 DEF Matching
<1>5. m.auth.nonce # 0
  BY DEF Requests, OnceInv, AuthNotBlank
<1> QED
  BY <1>4, <1>5 DEF OnceInv, RingFresh

(* A challenge that was open is accepted, and no slot expects it any more. *)
LEMMA OnceAccept ==
    ASSUME TypeOK, OnceInv, NEW p \in Phones, NEW m \in Requests(p), ValidResponse(m),
           granted' = [granted EXCEPT ![m.auth.nonce] = @ + 1],
           open_challenges' = Wiped(m.auth) \/ Reborn
    PROVE  (AcceptedOnce /\ RingFresh /\ SlotsDiffer)'
<1> DEFINE n == m.auth.nonce
           k == Min(Matching(m.auth))
<1>1. /\ k \in Slots /\ open_challenges[k] = m.auth
      /\ n # 0 /\ n \in DOMAIN granted /\ granted[n] = 0
  BY ValidMatches
<1>2. /\ DOMAIN granted' = DOMAIN granted
      /\ \A x \in DOMAIN granted : granted'[x] = IF x = n THEN granted[x] + 1 ELSE granted[x]
  BY CountUp DEF TypeOK
<1>3. \A x \in DOMAIN granted : granted[x] \in Nat
  BY LenProperties, ElementOfSeq DEF TypeOK
<1>4. AcceptedOnce'
  BY <1>1, <1>2, <1>3 DEF OnceInv, AcceptedOnce
<1>5. CASE open_challenges' = Wiped(m.auth)
  <2>1. \A i \in Slots : open_challenges'[i] = IF i = k THEN Blank ELSE open_challenges[i]
    BY <1>1, <1>5 DEF Wiped, TypeOK
  <2>2. Blank.nonce = 0
    BY DEF Blank, Digest
  <2>3. \A i \in Slots : i # k => open_challenges[i].nonce # n
    BY <1>1 DEF OnceInv, SlotsDiffer
  <2> HIDE DEF n, k
  <2>4. RingFresh'
    <3> SUFFICES ASSUME NEW i \in Slots
                 PROVE  /\ open_challenges'[i].nonce \in {0} \cup DOMAIN granted'
                        /\ open_challenges'[i].nonce # 0
                                => granted'[open_challenges'[i].nonce] = 0
      BY DEF RingFresh
    <3>1. CASE i = k
      BY <2>1, <2>2, <3>1
    <3>2. CASE i # k
      BY <1>2, <2>1, <2>3, <3>2 DEF OnceInv, RingFresh
    <3> QED
      BY <3>1, <3>2
  <2>5. SlotsDiffer'
    BY <2>1, <2>2 DEF OnceInv, SlotsDiffer
  <2> QED
    BY <1>4, <2>4, <2>5
<1>6. CASE Reborn
  <2>1. \A i \in Slots : open_challenges'[i].nonce = 0
    BY <1>6 DEF Reborn, Blank, Digest
  <2> QED
    BY <1>4, <2>1 DEF RingFresh, SlotsDiffer
<1> QED
  BY <1>5, <1>6

(* A new challenge takes a slot; its nonce is in no other. *)
LEMMA OnceChallenge ==
    ASSUME TypeOK, OnceInv, NEW p \in Phones, NEW m \in Requests(p), challenge_client(m)
    PROVE  (AcceptedOnce /\ RingFresh /\ SlotsDiffer)'
<1> DEFINE n == Len(granted) + 1
<1>1. granted \in Seq(Nat) /\ Len(granted) \in Nat /\ DOMAIN granted = 1 .. Len(granted)
  BY LenProperties DEF TypeOK
<1>2. /\ Len(granted') = n /\ DOMAIN granted' = 1 .. n
      /\ granted'[n] = 0
      /\ \A x \in DOMAIN granted : granted'[x] = granted[x]
  <2>1. /\ Append(granted, 0) \in Seq(Nat) /\ Len(Append(granted, 0)) = n
        /\ \A x \in 1 .. Len(granted) : Append(granted, 0)[x] = granted[x]
        /\ Append(granted, 0)[n] = 0
    BY <1>1, AppendProperties
  <2>2. DOMAIN Append(granted, 0) = 1 .. n
    BY <2>1, LenProperties
  <2> QED
    BY <1>1, <2>1, <2>2 DEF challenge_client
<1>3. \A i \in Slots : open_challenges'[i].nonce =
            IF i = cur_challenge_index THEN n ELSE open_challenges[i].nonce
  <2>1. open_challenges' = [open_challenges EXCEPT ![cur_challenge_index] =
                                Digest(LookUp(m.from), n)]
    BY <1>2 DEF challenge_client
  <2>2. Digest(LookUp(m.from), n).nonce = n
    BY DEF Digest
  <2> HIDE DEF n
  <2> QED
    BY <2>1, <2>2 DEF TypeOK
<1>4. \A i \in Slots : open_challenges[i].nonce \in {0} \cup DOMAIN granted
  BY DEF OnceInv, RingFresh
<1>5. n \in Nat /\ n # 0 /\ n \notin DOMAIN granted /\ DOMAIN granted' = DOMAIN granted \cup {n}
  BY <1>1, <1>2
<1> HIDE DEF n
<1>6. AcceptedOnce'
  BY <1>2, <1>5 DEF OnceInv, AcceptedOnce
<1>7. RingFresh'
  BY <1>2, <1>3, <1>4, <1>5 DEF OnceInv, RingFresh
<1>8. SlotsDiffer'
  BY <1>3, <1>4, <1>5 DEF OnceInv, SlotsDiffer
<1> QED
  BY <1>6, <1>7, <1>8

(* Phones present what they were given. *)
LEMMA AuthNotBlankNext ==
    ASSUME TypeOK, AuthNotBlank, Next
    PROVE  AuthNotBlank'
<1>1. NoAuth.nonce # 0
  BY DEF NoAuth, Digest
<1>2. ASSUME NEW m, NEW kind \in {"200", "401", "403"}, NEW nonce
      PROVE  Response(m, kind, nonce).kind # "REGISTER"
  BY DEF Response
<1>3. CASE \E p \in Phones : Serve(p)
  <2>0. PICK p \in Phones : Serve(p)
    BY <1>3
  <2>1. PICK m \in Requests(p) : process_registration_request(m)
    BY <2>0 DEF Serve
  <2>2. PICK kind \in {"200", "401", "403"}, nonce \in Nat \cup {Len(granted')} :
            HandsOver(m, Response(m, kind, nonce))
    BY <2>1 DEF process_registration_request, deregister_client, challenge_client,
                challenge_without_nonce, accept_client, forbid_client, Handle,
                HandleUnterminated, HandsOver
  <2>3. \A x \in net' : x \in net \/ x.kind # "REGISTER"
    BY <1>2, <2>2 DEF HandsOver
  <2>4. phone' = phone
    BY <2>1 DEF process_registration_request, deregister_client, challenge_client,
                challenge_without_nonce, accept_client, forbid_client
  <2> QED
    BY <2>3, <2>4 DEF AuthNotBlank
<1>4. CASE \E p \in Phones : \E m \in Requests(p) : CrashBeforeWrite(m)
  <2>0. PICK p \in Phones : \E m \in Requests(p) : CrashBeforeWrite(m)
    BY <1>4
  <2>1. PICK m \in Requests(p) : CrashBeforeWrite(m)
    BY <2>0
  <2>2. \A x \in net' : x \in net \/ x.kind # "REGISTER"
    BY <1>2, <2>1 DEF CrashBeforeWrite
  <2> QED
    BY <2>1, <2>2 DEF CrashBeforeWrite, AuthNotBlank
<1>5. ASSUME NEW p \in Phones, NEW state, NEW auth, auth.nonce # 0, Send(p, state, auth)
      PROVE  AuthNotBlank'
  <2>1. \A x \in net' : x \in net \/ x.auth = auth
    BY <1>5 DEF Send, Register
  <2>2. \A q \in Phones : phone'[q].auth = IF q = p THEN auth ELSE phone[q].auth
    BY <1>5 DEF Send, TypeOK
  <2> QED
    BY <1>5, <2>1, <2>2 DEF AuthNotBlank
<1>6. CASE \E p \in Phones : Ask(p) \/ Renew(p) \/ Leave(p)
  BY <1>1, <1>5, <1>6 DEF Ask, Renew, Leave
<1>7. CASE \E p \in Phones : Move(p)
  <2>1. PICK p \in Phones, a \in Addresses :
            net' = net /\ phone' = [phone EXCEPT ![p].at = a, ![p].reg = FALSE]
    BY <1>7 DEF Move
  <2>2. \A q \in Phones : phone'[q].auth = phone[q].auth
    BY <2>1 DEF TypeOK
  <2> QED
    BY <2>1, <2>2 DEF AuthNotBlank
<1>8. CASE \E p \in Phones : Retransmit(p)
  <2>1. PICK p \in Phones : net' = net \cup {Current(p)} /\ phone' = phone
    BY <1>8 DEF Retransmit
  <2>2. Current(p).auth = phone[p].auth
    BY DEF Current, Register
  <2> QED
    BY <2>1, <2>2 DEF AuthNotBlank
<1>9. CASE \E p \in Phones : Receive(p)
  <2>0. PICK p \in Phones : Receive(p)
    BY <1>9
  <2>1. PICK r \in Responses(p) : PhoneReceives(r)
    BY <2>0 DEF Receive
  <2>2. r.to \in Phones
    BY DEF Responses
  <2>4. CASE /\ r.nonce # 0
             /\ net' = (net \ {r}) \cup
                     {Register(r.to, r.cseq + 1, "positive", Digest(r.to, r.nonce))}
             /\ phone' = [phone EXCEPT ![r.to] =
                     [@ EXCEPT !.state = "answering", !.cseq = r.cseq + 1,
                               !.auth = Digest(r.to, r.nonce)]]
    <3>1. Digest(r.to, r.nonce).nonce # 0
      BY <2>4 DEF Digest
    <3>2. \A x \in net' : x \in net \/ x.auth = Digest(r.to, r.nonce)
      BY <2>4 DEF Register
    <3>3. \A q \in Phones : phone'[q].auth = IF q = r.to THEN Digest(r.to, r.nonce)
                                            ELSE phone[q].auth
      BY <2>2, <2>4 DEF TypeOK
    <3> QED
      BY <3>1, <3>2, <3>3 DEF AuthNotBlank
  <2>5. CASE net' \subseteq net /\ phone' = phone
    BY <2>5 DEF AuthNotBlank
  <2>6. CASE net' \subseteq net /\ \E b \in BOOLEAN :
                phone' = [phone EXCEPT ![r.to].state = "rest", ![r.to].reg = b]
    <3>1. \A q \in Phones : phone'[q].auth = phone[q].auth
      BY <2>2, <2>6 DEF TypeOK
    <3> QED
      BY <2>6, <3>1 DEF AuthNotBlank
  <2> QED
    BY <2>1, <2>4, <2>5, <2>6 DEF PhoneReceives
<1>10. CASE (\E m \in net : Lose(m)) \/ Restart
  BY <1>10 DEF Lose, Restart, AuthNotBlank
<1> QED
  BY <1>3, <1>4, <1>6, <1>7, <1>8, <1>9, <1>10 DEF Next

LEMMA OnceNext ==
    ASSUME TypeOK, OnceInv, [Next]_vars
    PROVE  OnceInv'
<1>1. CASE UNCHANGED vars
  BY <1>1 DEF vars, proxy, OnceInv, AcceptedOnce, RingFresh, SlotsDiffer, AuthNotBlank
<1>2. ASSUME Next
      PROVE  AuthNotBlank'
  BY <1>2, AuthNotBlankNext DEF OnceInv
<1>3. ASSUME UNCHANGED <<open_challenges, granted>>
      PROVE  (AcceptedOnce /\ RingFresh /\ SlotsDiffer)'
  BY <1>3 DEF OnceInv, AcceptedOnce, RingFresh, SlotsDiffer
<1>4. ASSUME \E p \in Phones : Serve(p)
      PROVE  (AcceptedOnce /\ RingFresh /\ SlotsDiffer)'
  <2>0. PICK p \in Phones : Serve(p)
    BY <1>4
  <2>1. PICK m \in Requests(p) : process_registration_request(m)
    BY <2>0 DEF Serve
  <2>2. CASE challenge_client(m)
    BY <2>2, OnceChallenge
  <2>3. CASE accept_client(m)
    BY <2>3, OnceAccept DEF accept_client
  <2>4. CASE deregister_client(m) \/ challenge_without_nonce(m) \/ forbid_client(m)
    BY <1>3, <2>4 DEF deregister_client, challenge_without_nonce, forbid_client
  <2> QED
    BY <2>1, <2>2, <2>3, <2>4 DEF process_registration_request
<1>5. ASSUME \E p \in Phones : \E m \in Requests(p) : CrashBeforeWrite(m)
      PROVE  (AcceptedOnce /\ RingFresh /\ SlotsDiffer)'
  BY <1>5, OnceAccept DEF CrashBeforeWrite
<1>6. ASSUME Restart
      PROVE  (AcceptedOnce /\ RingFresh /\ SlotsDiffer)'
  <2>1. granted' = granted /\ \A i \in Slots : open_challenges'[i].nonce = 0
    BY <1>6 DEF Restart, Reborn, Blank, Digest
  <2> QED
    BY <2>1 DEF OnceInv, AcceptedOnce, RingFresh, SlotsDiffer
<1>7. ASSUME \/ \E p \in Phones : \/ Receive(p) \/ Ask(p) \/ Renew(p) \/ Leave(p)
                                   \/ Move(p) \/ Retransmit(p)
             \/ \E m \in net : Lose(m)
      PROVE  (AcceptedOnce /\ RingFresh /\ SlotsDiffer)'
  BY <1>3, <1>7 DEF Receive, PhoneReceives, Ask, Renew, Leave, Move, Retransmit, Lose, proxy
<1>8. CASE Next
  <2>1. (AcceptedOnce /\ RingFresh /\ SlotsDiffer)'
    BY <1>4, <1>5, <1>6, <1>7, <1>8 DEF Next
  <2> QED
    BY <1>2, <1>8, <2>1 DEF OnceInv
<1> QED
  BY <1>1, <1>8

(* However answers are duplicated, the ring is overwritten and the proxy dies,
   no challenge admits two registrations: the slot that matched is wiped, and no
   other expects the same response. *)
THEOREM OnceEach == Spec => []AcceptedOnce
<1>1. OnceInv => AcceptedOnce
  BY DEF OnceInv
<1> QED
  BY <1>1, OnceInit, OnceNext, RegistrarTypes, PTL DEF Spec
-----------------------------------------------------------------------------
(* No fresh answer is forbidden. *)

(* How many challenges ago slot i was written, or would have been. *)
Age(i) == IF i < cur_challenge_index THEN cur_challenge_index - i
          ELSE cur_challenge_index - i + MAX_CHALLENGES
RingInOrder == \A i \in Slots : open_challenges[i].nonce # 0 =>
                    open_challenges[i].nonce = Len(granted) + 1 - Age(i)

(* p's answer to the challenge n would be found in the ring. *)
Expects(p, n) == (p \in Accounts /\ n \in Unspent)
                    => \E i \in Slots : open_challenges[i] = Digest(p, n)
Challenged(p, n) == n \in DOMAIN granted /\ Expects(p, n)
Credentials(p, auth) ==
    auth = NoAuth \/ (auth = Digest(p, auth.nonce) /\ Challenged(p, auth.nonce))

AnswersExpected ==
    /\ \A m \in net : m.kind = "REGISTER" => Credentials(m.from, m.auth)
    /\ \A p \in Phones : Credentials(p, phone[p].auth)
    /\ \A r \in net : (r.kind # "REGISTER" /\ r.nonce # 0) => Challenged(r.to, r.nonce)

(* A phone's requests with the same CSeq are one and the same: a 403 to one cannot be
   mistaken for a 403 to the other. *)
SameRequest ==
    /\ \A m \in net : m.kind = "REGISTER" =>
            /\ m.cseq <= phone[m.from].cseq
            /\ (m.cseq = phone[m.from].cseq /\ phone[m.from].state \in Waiting)
                    => m = Current(m.from)
    /\ \A m, q \in net : (/\ m.kind = "REGISTER" /\ q.kind = "REGISTER"
                          /\ m.from = q.from /\ m.cseq = q.cseq) => m = q

FreshInv == RingInOrder /\ AnswersExpected /\ SameRequest

LEMMA FreshInit == Init \/ ProxyInit => FreshInv
<1> SUFFICES ASSUME Init \/ ProxyInit PROVE FreshInv
  OBVIOUS
<1>1. RingInOrder
  BY AtFirst DEF RingInOrder, Blank, Digest
<1>2. AnswersExpected
  BY AtFirst DEF AnswersExpected, Credentials
<1>3. SameRequest
  BY AtFirst DEF SameRequest
<1> QED
  BY <1>1, <1>2, <1>3 DEF FreshInv

(* What the proxy does to the datagrams. *)
LEMMA ServeNet ==
    ASSUME TypeOK, NEW p \in Phones, NEW m \in Requests(p),
           process_registration_request(m) \/ CrashBeforeWrite(m)
    PROVE  /\ phone' = phone
           /\ \E kind \in {"200", "401", "403"}, nonce \in Nat :
                /\ HandsOver(m, Response(m, kind, nonce))
                /\ kind = "403" => forbid_client(m)
                /\ nonce # 0 => challenge_client(m) /\ nonce = Len(granted')
<1>1. CASE challenge_client(m)
  <2>1. Len(granted') \in Nat
    BY <1>1, LenProperties, AppendProperties DEF challenge_client, TypeOK
  <2> QED
    BY <1>1, <2>1 DEF challenge_client, Handle, HandsOver
<1>2. CASE deregister_client(m)
  BY <1>2 DEF deregister_client, Handle, HandsOver
<1>3. CASE challenge_without_nonce(m)
  BY <1>3 DEF challenge_without_nonce, Handle, HandsOver
<1>4. CASE accept_client(m)
  BY <1>4 DEF accept_client, Handle, HandsOver
<1>5. CASE forbid_client(m)
  BY <1>5 DEF forbid_client, Handle, HandleUnterminated, HandsOver
<1>6. CASE CrashBeforeWrite(m)
  BY <1>6 DEF CrashBeforeWrite, HandsOver
<1> QED
  BY <1>1, <1>2, <1>3, <1>4, <1>5, <1>6 DEF process_registration_request

(* A new challenge takes the slot of the oldest, which is no longer one of the last
   MAX_CHALLENGES. *)
LEMMA RingChallenge ==
    ASSUME TypeOK, OnceInv, RingInOrder, NEW p \in Phones, NEW m \in Requests(p),
           challenge_client(m)
    PROVE  /\ RingInOrder'
           /\ \A q \in Phones, n \in DOMAIN granted : Challenged(q, n) => Challenged(q, n)'
           /\ \A n : n = Len(granted') => Challenged(p, n)'
<1> PICK l \in Nat : l = Len(granted) + 1
  BY LenProperties DEF TypeOK
<1> PICK c \in Slots : c = cur_challenge_index
  BY DEF TypeOK
<1>1. granted \in Seq(Nat) /\ DOMAIN granted = 1 .. l - 1
  BY LenProperties DEF TypeOK
<1>2. \A i \in Slots : Age(i) \in Int
  BY RingAssumption DEF Age, Slots
<1>3. \A i \in Slots : open_challenges[i].nonce # 0 => open_challenges[i].nonce = l - Age(i)
  <2>1. Len(granted) \in Nat
    BY LenProperties DEF TypeOK
  <2> QED
    BY <1>2, <2>1 DEF RingInOrder
<1>4. /\ Len(granted') = l /\ DOMAIN granted' = 1 .. l
      /\ \A x \in DOMAIN granted : granted'[x] = granted[x]
  <2>1. /\ Append(granted, 0) \in Seq(Nat) /\ Len(Append(granted, 0)) = l
        /\ \A x \in 1 .. Len(granted) : Append(granted, 0)[x] = granted[x]
    BY <1>1, AppendProperties
  <2>2. DOMAIN Append(granted, 0) = 1 .. l
    BY <2>1, LenProperties
  <2> QED
    BY <1>1, <2>1, <2>2 DEF challenge_client
<1>5. /\ \A i \in Slots : open_challenges'[i] = IF i = c THEN Digest(LookUp(m.from), l)
                                                ELSE open_challenges[i]
      /\ cur_challenge_index' = NextSlot(c) /\ born' = born
  BY <1>4 DEF challenge_client, TypeOK
<1>6. Digest(LookUp(m.from), l).nonce = l
  BY DEF Digest
<1>7. NextSlot(c) = IF c = MAX_CHALLENGES - 1 THEN 0 ELSE c + 1
  BY RingAssumption DEF NextSlot, Slots
<1>8. Age(c)' = 1 /\ \A i \in Slots : i # c => Age(i)' = Age(i) + 1
  BY <1>5, <1>7, RingAssumption DEF Age, Slots
<1>9. RingInOrder'
  <2> SUFFICES ASSUME NEW i \in Slots, open_challenges'[i].nonce # 0
               PROVE  open_challenges'[i].nonce = l + 1 - Age(i)'
    BY <1>4 DEF RingInOrder
  <2>1. CASE i = c
    BY <1>5, <1>6, <1>8, <2>1
  <2>2. CASE i # c
    <3>1. open_challenges[i].nonce = l - Age(i)
      BY <1>3, <1>5, <2>2
    <3> QED
      BY <1>5, <1>8, <1>2, <2>2, <3>1
  <2> QED
    BY <2>1, <2>2
<1>10. ASSUME NEW q \in Phones, NEW n \in DOMAIN granted, Challenged(q, n)
      PROVE  Challenged(q, n)'
  <2>1. n \in DOMAIN granted'
    BY <1>1, <1>4
  <2>2. ASSUME q \in Accounts, n \in Unspent'
        PROVE  \E i \in Slots : open_challenges'[i] = Digest(q, n)
    <3>1. n \in Nat /\ n > l - MAX_CHALLENGES
      BY <1>1, <1>4, <2>2 DEF Unspent
    <3>2. n \in Unspent
      BY <1>1, <1>4, <1>5, <2>2, RingAssumption DEF Unspent
    <3>3. PICK i \in Slots : open_challenges[i] = Digest(q, n)
      BY <1>10, <2>2, <3>2 DEF Challenged, Expects
    <3>4. open_challenges[i].nonce = n /\ n # 0
      BY <1>1, <3>3 DEF Digest
    <3>5. i # c
      <4>1. n = l - Age(i)
        BY <1>3, <3>4
      <4>2. Age(c) = MAX_CHALLENGES
        BY RingAssumption DEF Age, Slots
      <4> QED
        BY <3>1, <4>1, <4>2, RingAssumption
    <3> QED
      BY <1>5, <3>3, <3>5
  <2> QED
    BY <2>1, <2>2 DEF Challenged, Expects
<1>11. Challenged(p, l)'
  <2>1. l \in DOMAIN granted'
    BY <1>1, <1>4
  <2>2. p \in Accounts => open_challenges'[c] = Digest(p, l)
    BY <1>5 DEF LookUp, Requests
  <2> QED
    BY <2>1, <2>2 DEF Challenged, Expects
<1>12. \A n : n = Len(granted') => Challenged(p, n)'
  BY <1>4, <1>11
<1> QED
  BY <1>9, <1>10, <1>12

(* An answer that is accepted is wiped; the others stay. *)
LEMMA RingAccept ==
    ASSUME TypeOK, OnceInv, RingInOrder, NEW p \in Phones, NEW m \in Requests(p),
           accept_client(m)
    PROVE  /\ RingInOrder'
           /\ \A q \in Phones, n \in DOMAIN granted : Challenged(q, n) => Challenged(q, n)'
<1> PICK k \in Slots : k = Min(Matching(m.auth))
  BY ValidMatches DEF accept_client
<1>1. open_challenges[k] = m.auth /\ m.auth.nonce \in DOMAIN granted
  BY ValidMatches DEF accept_client
<1>2. /\ \A i \in Slots : open_challenges'[i] = IF i = k THEN Blank ELSE open_challenges[i]
      /\ cur_challenge_index' = cur_challenge_index /\ born' = born
  BY DEF accept_client, Wiped, TypeOK
<1>3. /\ Len(granted') = Len(granted) /\ DOMAIN granted' = DOMAIN granted
      /\ \A x \in DOMAIN granted :
            granted'[x] = IF x = m.auth.nonce THEN granted[x] + 1 ELSE granted[x]
  BY CountUp DEF accept_client, TypeOK
<1>4. \A x \in DOMAIN granted : granted[x] \in Nat
  BY LenProperties, ElementOfSeq DEF TypeOK
<1>5. RingInOrder'
  <2>1. \A i \in Slots : Age(i)' = Age(i)
    BY <1>2 DEF Age
  <2>2. Blank.nonce = 0
    BY DEF Blank, Digest
  <2> QED
    BY <1>2, <1>3, <2>1, <2>2 DEF RingInOrder
<1>6. ASSUME NEW q \in Phones, NEW n \in DOMAIN granted, Challenged(q, n)
      PROVE  Challenged(q, n)'
  <2>1. ASSUME q \in Accounts, n \in Unspent'
        PROVE  \E i \in Slots : open_challenges'[i] = Digest(q, n)
    <3>1. n # m.auth.nonce /\ granted[n] = 0
      BY <1>3, <1>4, <2>1 DEF Unspent
    <3>2. n \in Unspent
      BY <1>2, <1>3, <2>1, <3>1 DEF Unspent
    <3>3. PICK i \in Slots : open_challenges[i] = Digest(q, n)
      BY <1>6, <2>1, <3>2 DEF Challenged, Expects
    <3>4. i # k
      BY <1>1, <3>1, <3>3 DEF Digest
    <3> QED
      BY <1>2, <3>3, <3>4
  <2> QED
    BY <1>3, <2>1 DEF Challenged, Expects
<1> QED
  BY <1>5, <1>6

(* After a start of the proxy nothing is expected. *)
LEMMA RingReborn ==
    ASSUME TypeOK, Reborn, DOMAIN granted' = DOMAIN granted, granted' \in Seq(Nat)
    PROVE  /\ RingInOrder'
           /\ \A q \in Phones, n \in DOMAIN granted : Challenged(q, n)'
<1>1. \A i \in Slots : open_challenges'[i].nonce = 0
  BY DEF Reborn, Blank, Digest
<1>2. RingInOrder'
  BY <1>1 DEF RingInOrder
<1>3. DOMAIN granted' = 1 .. Len(granted') /\ Len(granted') \in Nat /\ born' = Len(granted')
  BY LenProperties DEF Reborn
<1>4. Unspent' = {}
  BY <1>3 DEF Unspent
<1> QED
  BY <1>2, <1>4 DEF Challenged, Expects

LEMMA RingNext ==
    ASSUME TypeOK, OnceInv, RingInOrder, Next
    PROVE  /\ RingInOrder'
           /\ \A q \in Phones, n \in DOMAIN granted : Challenged(q, n) => Challenged(q, n)'
<1>1. ASSUME UNCHANGED <<open_challenges, cur_challenge_index, granted, born>>
      PROVE  /\ RingInOrder'
             /\ \A q \in Phones, n \in DOMAIN granted : Challenged(q, n) => Challenged(q, n)'
  BY <1>1 DEF RingInOrder, Age, Challenged, Expects, Unspent
<1>2. CASE \E p \in Phones : Serve(p)
  <2>0. PICK p \in Phones : Serve(p)
    BY <1>2
  <2>1. PICK m \in Requests(p) : process_registration_request(m)
    BY <2>0 DEF Serve
  <2>2. CASE challenge_client(m)
    BY <2>2, RingChallenge
  <2>3. CASE accept_client(m)
    BY <2>3, RingAccept
  <2>4. CASE deregister_client(m) \/ challenge_without_nonce(m) \/ forbid_client(m)
    BY <1>1, <2>4 DEF deregister_client, challenge_without_nonce, forbid_client
  <2> QED
    BY <2>1, <2>2, <2>3, <2>4 DEF process_registration_request
<1>3. CASE \E p \in Phones : \E m \in Requests(p) : CrashBeforeWrite(m)
  <2>0. PICK p \in Phones : \E m \in Requests(p) : CrashBeforeWrite(m)
    BY <1>3
  <2>1. PICK m \in Requests(p) : CrashBeforeWrite(m)
    BY <2>0
  <2>2. granted' \in Seq(Nat) /\ DOMAIN granted' = DOMAIN granted
    BY <2>1, CountUp DEF CrashBeforeWrite, TypeOK
  <2> QED
    BY <2>1, <2>2, RingReborn DEF CrashBeforeWrite
<1>4. CASE Restart
  BY <1>4, RingReborn DEF Restart, TypeOK
<1>5. CASE \/ \E p \in Phones : \/ Receive(p) \/ Ask(p) \/ Renew(p) \/ Leave(p)
                                 \/ Move(p) \/ Retransmit(p)
           \/ \E m \in net : Lose(m)
  BY <1>1, <1>5 DEF Receive, PhoneReceives, Ask, Renew, Leave, Move, Retransmit, Lose, proxy
<1> QED
  BY <1>2, <1>3, <1>4, <1>5 DEF Next

(* Phones present what they were given, and what they were given is expected. *)
LEMMA AnswersNext ==
    ASSUME TypeOK, OnceInv, RingInOrder, AnswersExpected, Next
    PROVE  AnswersExpected'
<1>0. \A q \in Phones, n \in DOMAIN granted : Challenged(q, n) => Challenged(q, n)'
  BY RingNext
<1>1. \A q \in Phones : \A n : Challenged(q, n) => Challenged(q, n)'
  BY <1>0 DEF Challenged
<1>2. \A q \in Phones : \A a : Credentials(q, a) => Credentials(q, a)'
  BY <1>1 DEF Credentials
<1>3. \A q \in Phones : Credentials(q, NoAuth)'
  BY DEF Credentials
<1>4. \A x \in net : x.kind = "REGISTER" => x.from \in Phones
  BY DEF TypeOK, REGISTERs, ResponseMsgs
<1>5. \A x \in net : x.kind # "REGISTER" => x.to \in Phones
  BY DEF TypeOK, REGISTERs, ResponseMsgs
<1>6. ASSUME NEW p \in Phones, NEW auth, Credentials(p, auth)',
             \A x \in net' : x \in net \/ (x.kind = "REGISTER" /\ x.from = p /\ x.auth = auth),
             \A q \in Phones : phone'[q].auth = IF q = p THEN auth ELSE phone[q].auth
      PROVE  AnswersExpected'
  <2>1. ASSUME NEW x \in net', x.kind = "REGISTER"
        PROVE  Credentials(x.from, x.auth)'
    <3>1. CASE x \in net
      BY <1>2, <1>4, <2>1, <3>1 DEF AnswersExpected
    <3>2. CASE x \notin net
      <4>1. x.from = p /\ x.auth = auth
        BY <1>6, <3>2
      <4> QED
        BY <1>6, <4>1
    <3> QED
      BY <3>1, <3>2
  <2>2. ASSUME NEW q \in Phones
        PROVE  \A a : a = phone'[q].auth => Credentials(q, a)'
    BY <1>2, <1>6 DEF AnswersExpected
  <2>3. ASSUME NEW x \in net', x.kind # "REGISTER", x.nonce # 0
        PROVE  Challenged(x.to, x.nonce)'
    BY <1>1, <1>5, <1>6, <2>3 DEF AnswersExpected
  <2>4. \A q \in Phones : Credentials(q, phone[q].auth)'
    BY <2>2 DEF Credentials
  <2> QED
    BY <2>1, <2>3, <2>4 DEF AnswersExpected
<1>7. ASSUME \A x \in net' : x \in net \/ (x.kind # "REGISTER" /\
                                (x.nonce # 0 => Challenged(x.to, x.nonce)')),
             \A q \in Phones : phone'[q].auth = phone[q].auth
      PROVE  AnswersExpected'
  <2>1. ASSUME NEW x \in net', x.kind = "REGISTER"
        PROVE  Credentials(x.from, x.auth)'
    BY <1>2, <1>4, <1>7, <2>1 DEF AnswersExpected
  <2>2. ASSUME NEW q \in Phones
        PROVE  \A a : a = phone'[q].auth => Credentials(q, a)'
    BY <1>2, <1>7 DEF AnswersExpected
  <2>3. ASSUME NEW x \in net', x.kind # "REGISTER", x.nonce # 0
        PROVE  Challenged(x.to, x.nonce)'
    BY <1>1, <1>5, <1>7, <2>3 DEF AnswersExpected
  <2>4. \A q \in Phones : Credentials(q, phone[q].auth)'
    BY <2>2 DEF Credentials
  <2> QED
    BY <2>1, <2>3, <2>4 DEF AnswersExpected
<1>8. ASSUME NEW p \in Phones, NEW m \in Requests(p),
             process_registration_request(m) \/ CrashBeforeWrite(m)
      PROVE  AnswersExpected'
  <2>1. PICK kind \in {"200", "401", "403"}, nonce \in Nat :
                /\ HandsOver(m, Response(m, kind, nonce))
                /\ nonce # 0 => challenge_client(m) /\ nonce = Len(granted')
    BY <1>8, ServeNet
  <2>2. \A n : n = nonce /\ n # 0 => Challenged(p, n)'
    BY <2>1, RingChallenge
  <2> DEFINE r == Response(m, kind, nonce)
  <2>3. r.kind # "REGISTER" /\ r.nonce = nonce /\ r.to = p
    BY DEF Response, Requests
  <2>4. \A x \in net' : x \in net \/ x = r
    BY <2>1 DEF HandsOver
  <2> HIDE DEF r
  <2>5. ASSUME NEW x \in net', x \notin net
        PROVE  x.kind # "REGISTER" /\ (x.nonce # 0 => Challenged(x.to, x.nonce)')
    <3>1. x.kind # "REGISTER" /\ x.nonce = nonce /\ x.to = p
      BY <2>3, <2>4, <2>5
    <3>2. x.nonce # 0 => \A q : q = p => Challenged(q, x.nonce)'
      BY <2>2, <3>1
    <3> QED
      BY <3>1, <3>2
  <2>6. phone' = phone
    BY <1>8, ServeNet
  <2> QED
    BY <1>7, <2>5, <2>6
<1>9. CASE \E p \in Phones : Serve(p) \/ \E m \in Requests(p) : CrashBeforeWrite(m)
  BY <1>8, <1>9 DEF Serve
<1>10. ASSUME NEW p \in Phones, NEW state, Send(p, state, NoAuth)
       PROVE  AnswersExpected'
  <2>1. \A x \in net' : x \in net \/ (x.kind = "REGISTER" /\ x.from = p /\ x.auth = NoAuth)
    BY <1>10 DEF Send, Register
  <2>2. \A q \in Phones : phone'[q].auth = IF q = p THEN NoAuth ELSE phone[q].auth
    BY <1>10 DEF Send, TypeOK
  <2> QED
    BY <1>3, <1>6, <2>1, <2>2
<1>11. CASE \E p \in Phones : Ask(p) \/ Renew(p) \/ Leave(p)
  BY <1>10, <1>11 DEF Ask, Renew, Leave
<1>12. CASE \E p \in Phones : Move(p)
  <2>1. PICK p \in Phones, a \in Addresses :
            net' = net /\ phone' = [phone EXCEPT ![p].at = a, ![p].reg = FALSE]
    BY <1>12 DEF Move
  <2>2. \A q \in Phones : phone'[q].auth = phone[q].auth
    BY <2>1 DEF TypeOK
  <2> QED
    BY <1>7, <2>1, <2>2
<1>13. CASE \E p \in Phones : Retransmit(p)
  <2>1. PICK p \in Phones : net' = net \cup {Current(p)} /\ phone' = phone
    BY <1>13 DEF Retransmit
  <2> PICK auth : auth = phone[p].auth
    OBVIOUS
  <2>2. /\ Current(p).kind = "REGISTER" /\ Current(p).from = p
        /\ Current(p).auth = auth
    BY DEF Current, Register
  <2>3. Credentials(p, auth)
    BY DEF AnswersExpected
  <2>4. Credentials(p, auth)'
    BY <1>2, <2>3
  <2> QED
    BY <1>6, <2>1, <2>2, <2>4
<1>14. CASE \E p \in Phones : Receive(p)
  <2>0. PICK p \in Phones : Receive(p)
    BY <1>14
  <2>1. PICK r \in Responses(p) : PhoneReceives(r)
    BY <2>0 DEF Receive
  <2>2. r.to = p /\ r \in net /\ r.kind # "REGISTER"
    BY DEF Responses
  <2>3. CASE /\ r.nonce # 0
             /\ net' = (net \ {r}) \cup
                     {Register(r.to, r.cseq + 1, "positive", Digest(r.to, r.nonce))}
             /\ phone' = [phone EXCEPT ![r.to] =
                     [@ EXCEPT !.state = "answering", !.cseq = r.cseq + 1,
                               !.auth = Digest(r.to, r.nonce)]]
    <3> DEFINE auth == Digest(p, r.nonce)
    <3>1. Challenged(p, r.nonce)
      BY <2>2, <2>3 DEF AnswersExpected
    <3>2. Challenged(p, r.nonce)'
      BY <1>1, <3>1
    <3>3. auth = Digest(p, auth.nonce) /\ auth.nonce = r.nonce
      BY DEF Digest
    <3>4. Credentials(p, auth)'
      BY <3>2, <3>3 DEF Credentials
    <3>5. \A x \in net' : x \in net \/ (x.kind = "REGISTER" /\ x.from = p /\ x.auth = auth)
      BY <2>2, <2>3 DEF Register
    <3>6. \A q \in Phones : phone'[q].auth = IF q = p THEN auth ELSE phone[q].auth
      BY <2>2, <2>3 DEF TypeOK
    <3> HIDE DEF auth
    <3> QED
      BY <1>6, <3>4, <3>5, <3>6
  <2>4. CASE net' \subseteq net /\ phone' = phone
    BY <1>7, <2>4
  <2>5. CASE net' \subseteq net /\ \E b \in BOOLEAN :
                phone' = [phone EXCEPT ![r.to].state = "rest", ![r.to].reg = b]
    <3>1. \A q \in Phones : phone'[q].auth = phone[q].auth
      BY <2>2, <2>5 DEF TypeOK
    <3> QED
      BY <1>7, <2>5, <3>1
  <2> QED
    BY <2>1, <2>3, <2>4, <2>5 DEF PhoneReceives
<1>15. CASE (\E m \in net : Lose(m)) \/ Restart
  BY <1>7, <1>15 DEF Lose, Restart
<1> QED
  BY <1>9, <1>11, <1>12, <1>13, <1>14, <1>15 DEF Next

(* A new request has a CSeq that no earlier one had. *)
LEMMA NewRequest ==
    ASSUME TypeOK, SameRequest, NEW p \in Phones, NEW new,
           \A x \in net' : x \in net \/ x = new \/ x.kind # "REGISTER",
           new.kind = "REGISTER", new.from = p, new.cseq = phone[p].cseq + 1,
           phone'[p].cseq = phone[p].cseq + 1, new = Current(p)',
           \A q \in Phones \ {p} : phone'[q] = phone[q]
    PROVE  SameRequest'
<1>1. \A x \in net : x.kind = "REGISTER" => x.from \in Phones /\ x.cseq \in Nat
  BY DEF TypeOK, REGISTERs, ResponseMsgs
<1>2. \A q \in Phones : phone[q].cseq \in Nat
  BY DEF TypeOK
<1>3. \A q \in Phones \ {p} : Current(q)' = Current(q)
  BY DEF Current, Register
<1>4. ASSUME NEW x \in net', x.kind = "REGISTER"
      PROVE  /\ x.cseq <= phone'[x.from].cseq
             /\ (x.cseq = phone'[x.from].cseq /\ phone'[x.from].state \in Waiting)
                    => x = Current(x.from)'
  <2>1. CASE x = new
    BY <1>2, <2>1
  <2>2. CASE x \in net /\ x.from = p
    BY <1>1, <1>2, <1>4, <2>2 DEF SameRequest
  <2>3. CASE x \in net /\ x.from # p
    <3>1. x.from \in Phones \ {p}
      BY <1>1, <1>4, <2>3
    <3>2. phone'[x.from] = phone[x.from] /\ Current(x.from)' = Current(x.from)
      BY <1>3, <3>1
    <3> QED
      BY <1>4, <2>3, <3>2 DEF SameRequest
  <2> QED
    BY <1>4, <2>1, <2>2, <2>3
<1>5. ASSUME NEW x \in net', NEW y \in net', x.kind = "REGISTER", y.kind = "REGISTER",
             x.from = y.from, x.cseq = y.cseq
      PROVE  x = y
  <2>1. \A z \in net : z.kind = "REGISTER" /\ z.from = p => z.cseq # new.cseq
    BY <1>1, <1>2 DEF SameRequest
  <2> QED
    BY <1>5, <2>1 DEF SameRequest
<1> QED
  BY <1>4, <1>5 DEF SameRequest

LEMMA SameNext ==
    ASSUME TypeOK, SameRequest, Next
    PROVE  SameRequest'
<1>1. \A x \in net : x.kind = "REGISTER" => x \in REGISTERs
  BY DEF TypeOK, ResponseMsgs
<1>2. ASSUME \A x \in net' : x \in net \/ x.kind # "REGISTER", NEW p \in Phones,
             phone'[p].cseq = phone[p].cseq, phone'[p].state \notin Waiting \/ phone'[p] = phone[p],
             \A q \in Phones \ {p} : phone'[q] = phone[q]
      PROVE  SameRequest'
  <2>1. \A q \in Phones : phone'[q].state \in Waiting => phone'[q] = phone[q]
    BY <1>2
  <2>2. \A q \in Phones : phone'[q].cseq = phone[q].cseq
    BY <1>2
  <2>3. \A q \in Phones : phone'[q] = phone[q] => Current(q)' = Current(q)
    BY DEF Current, Register
  <2>4. ASSUME NEW x \in net', x.kind = "REGISTER"
        PROVE  /\ x.cseq <= phone'[x.from].cseq
               /\ (x.cseq = phone'[x.from].cseq /\ phone'[x.from].state \in Waiting)
                    => x = Current(x.from)'
    <3>1. x \in net /\ x.from \in Phones
      BY <1>1, <1>2, <2>4 DEF REGISTERs
    <3> QED
      BY <2>1, <2>2, <2>3, <2>4, <3>1 DEF SameRequest
  <2>5. \A x, y \in net' : (/\ x.kind = "REGISTER" /\ y.kind = "REGISTER"
                            /\ x.from = y.from /\ x.cseq = y.cseq) => x = y
    BY <1>2 DEF SameRequest
  <2> QED
    BY <2>4, <2>5 DEF SameRequest
<1>3. ASSUME NEW p \in Phones, NEW m \in Requests(p),
             process_registration_request(m) \/ CrashBeforeWrite(m)
      PROVE  SameRequest'
  <2>1. PICK kind \in {"200", "401", "403"}, nonce \in Nat :
            HandsOver(m, Response(m, kind, nonce))
    BY <1>3, ServeNet
  <2>2. Response(m, kind, nonce).kind # "REGISTER"
    BY DEF Response
  <2>3. \A x \in net' : x \in net \/ x.kind # "REGISTER"
    BY <2>1, <2>2 DEF HandsOver
  <2>4. phone' = phone
    BY <1>3, ServeNet
  <2> QED
    BY <1>2, <2>3, <2>4
<1>4. CASE \E p \in Phones : Serve(p) \/ \E m \in Requests(p) : CrashBeforeWrite(m)
  BY <1>3, <1>4 DEF Serve
<1>5. ASSUME NEW p \in Phones, NEW state \in {"asking", "leaving"}, Send(p, state, NoAuth)
      PROVE  SameRequest'
  <2>0. /\ phone'[p].cseq = phone[p].cseq + 1 /\ phone'[p].at = phone[p].at
        /\ phone'[p].state = state /\ phone'[p].auth = NoAuth
        /\ \A q \in Phones \ {p} : phone'[q] = phone[q]
    BY <1>5 DEF Send, TypeOK
  <2> PICK new : new = Register(p, phone[p].cseq + 1,
                                IF state = "leaving" THEN "zero" ELSE "positive", NoAuth)
    OBVIOUS
  <2>1. new = Current(p)'
    BY <2>0 DEF Current, Register
  <2>2. new.kind = "REGISTER" /\ new.from = p /\ new.cseq = phone[p].cseq + 1
    BY DEF Register
  <2>3. \A x \in net' : x \in net \/ x = new
    BY <1>5 DEF Send
  <2> QED
    BY <2>0, <2>1, <2>2, <2>3, NewRequest
<1>6. CASE \E p \in Phones : Ask(p) \/ Renew(p) \/ Leave(p)
  BY <1>5, <1>6 DEF Ask, Renew, Leave
<1>7. CASE \E p \in Phones : Move(p)
  <2>1. PICK p \in Phones, a \in Addresses :
            /\ phone[p].state = "rest"
            /\ net' = net /\ phone' = [phone EXCEPT ![p].at = a, ![p].reg = FALSE]
    BY <1>7 DEF Move
  <2>2. /\ phone'[p].cseq = phone[p].cseq /\ phone'[p].state \notin Waiting
        /\ \A q \in Phones \ {p} : phone'[q] = phone[q]
    BY <2>1 DEF TypeOK, Waiting
  <2> QED
    BY <1>2, <2>1, <2>2
<1>8. CASE \E p \in Phones : Retransmit(p)
  <2>1. PICK p \in Phones : /\ phone[p].state \in Waiting
                            /\ net' = net \cup {Current(p)} /\ phone' = phone
    BY <1>8 DEF Retransmit
  <2> PICK c : c = Current(p)
    OBVIOUS
  <2>2. c.kind = "REGISTER" /\ c.from = p /\ c.cseq = phone[p].cseq /\ phone[p].cseq \in Nat
    BY DEF Current, Register, TypeOK
  <2>3. \A q \in Phones : Current(q)' = Current(q)
    BY <2>1 DEF Current, Register
  <2>4. \A x \in net : x.kind = "REGISTER" /\ x.from = p /\ x.cseq = c.cseq => x = c
    BY <2>1, <2>2 DEF SameRequest
  <2>5. \A x \in net' : x.kind = "REGISTER" => x.from \in Phones
    BY <1>1, <2>1, <2>2 DEF REGISTERs
  <2>6. ASSUME NEW x \in net', x.kind = "REGISTER"
        PROVE  /\ x.cseq <= phone'[x.from].cseq
               /\ (x.cseq = phone'[x.from].cseq /\ phone'[x.from].state \in Waiting)
                    => x = Current(x.from)'
    <3>1. CASE x = c
      BY <2>1, <2>2, <2>3, <3>1
    <3>2. CASE x \in net
      BY <2>1, <2>3, <2>5, <2>6, <3>2 DEF SameRequest
    <3> QED
      BY <2>1, <3>1, <3>2
  <2>7. \A x, y \in net' : (/\ x.kind = "REGISTER" /\ y.kind = "REGISTER"
                            /\ x.from = y.from /\ x.cseq = y.cseq) => x = y
    BY <2>1, <2>2, <2>4 DEF SameRequest
  <2> QED
    BY <2>6, <2>7 DEF SameRequest
<1>9. CASE \E p \in Phones : Receive(p)
  <2>0. PICK p \in Phones : Receive(p)
    BY <1>9
  <2>1. PICK r \in Responses(p) : PhoneReceives(r)
    BY <2>0 DEF Receive
  <2>2. r.to = p /\ r \in net /\ r.kind # "REGISTER"
    BY DEF Responses
  <2>3. CASE /\ Expected(r)
             /\ net' = (net \ {r}) \cup
                     {Register(r.to, r.cseq + 1, "positive", Digest(r.to, r.nonce))}
             /\ phone' = [phone EXCEPT ![r.to] =
                     [@ EXCEPT !.state = "answering", !.cseq = r.cseq + 1,
                               !.auth = Digest(r.to, r.nonce)]]
    <3> PICK auth : auth = Digest(p, r.nonce)
      OBVIOUS
    <3> PICK new : new = Register(p, phone[p].cseq + 1, "positive", auth)
      OBVIOUS
    <3>1. r.cseq = phone[p].cseq
      BY <2>2, <2>3 DEF Expected
    <3>2. /\ phone'[p].cseq = phone[p].cseq + 1 /\ phone'[p].at = phone[p].at
          /\ phone'[p].state = "answering" /\ phone'[p].auth = auth
          /\ \A q \in Phones \ {p} : phone'[q] = phone[q]
      BY <2>2, <2>3, <3>1 DEF TypeOK
    <3>3. new = Current(p)'
      BY <3>2 DEF Current, Register
    <3>4. new.kind = "REGISTER" /\ new.from = p /\ new.cseq = phone[p].cseq + 1
      BY DEF Register
    <3>5. \A x \in net' : x \in net \/ x = new
      BY <2>2, <2>3, <3>1
    <3> QED
      BY <3>2, <3>3, <3>4, <3>5, NewRequest
  <2>4. CASE net' \subseteq net /\ phone' = phone
    BY <1>2, <2>4
  <2>5. CASE net' \subseteq net /\ \E b \in BOOLEAN :
                phone' = [phone EXCEPT ![r.to].state = "rest", ![r.to].reg = b]
    <3>1. /\ phone'[p].cseq = phone[p].cseq /\ phone'[p].state \notin Waiting
          /\ \A q \in Phones \ {p} : phone'[q] = phone[q]
      BY <2>2, <2>5 DEF TypeOK, Waiting
    <3> QED
      BY <1>2, <2>5, <3>1
  <2> QED
    BY <2>1, <2>3, <2>4, <2>5 DEF PhoneReceives
<1>10. CASE (\E m \in net : Lose(m)) \/ Restart
  <2>1. net' \subseteq net /\ phone' = phone
    BY <1>10 DEF Lose, Restart
  <2>2. CASE Phones = {}
    BY <1>1, <2>1, <2>2 DEF SameRequest, REGISTERs
  <2>3. CASE Phones # {}
    BY <1>2, <2>1, <2>3
  <2> QED
    BY <2>2, <2>3
<1> QED
  BY <1>4, <1>6, <1>7, <1>8, <1>9, <1>10 DEF Next

LEMMA FreshNext ==
    ASSUME TypeOK, OnceInv, FreshInv, [Next]_vars
    PROVE  FreshInv'
<1>1. CASE UNCHANGED vars
  BY <1>1 DEF vars, proxy, FreshInv, RingInOrder, Age, AnswersExpected, Credentials,
              Challenged, Expects, Unspent, SameRequest, Current, Register
<1>2. CASE Next
  BY <1>2, RingNext, AnswersNext, SameNext DEF FreshInv
<1> QED
  BY <1>1, <1>2

LEMMA FreshStep ==
    TypeOK /\ OnceInv /\ FreshInv /\ [Next]_vars
        => [\A m \in {x \in net : x.kind = "REGISTER"} :
                (m.from \in Accounts /\ m.auth.nonce \in Unspent)
                    => (Response(m, "403", 0) \in net' \ net
                            => /\ count'["unterminated"] = count["unterminated"] + 1
                               /\ \E i \in Slots : open_challenges'[i] = m.auth)]_vars
<1> SUFFICES ASSUME TypeOK, OnceInv, FreshInv, Next, NEW m \in net, m.kind = "REGISTER",
                    m.from \in Accounts, m.auth.nonce \in Unspent,
                    Response(m, "403", 0) \in net' \ net
             PROVE  /\ count'["unterminated"] = count["unterminated"] + 1
                    /\ \E i \in Slots : open_challenges'[i] = m.auth
  OBVIOUS
<1>0. Response(m, "403", 0).kind = "403"
  BY DEF Response
<1>1. PICK p \in Phones : \E q \in Requests(p) :
          process_registration_request(q) \/ CrashBeforeWrite(q)
  <2>1. CASE \E p \in Phones : Ask(p) \/ Renew(p) \/ Leave(p) \/ Retransmit(p)
    BY <1>0, <2>1 DEF Ask, Renew, Leave, Retransmit, Send, Register, Current
  <2>2. CASE \E p \in Phones : Receive(p)
    BY <1>0, <2>2 DEF Receive, PhoneReceives, Register
  <2>3. CASE (\E p \in Phones : Move(p)) \/ (\E x \in net : Lose(x)) \/ Restart
    BY <2>3 DEF Move, Lose, Restart
  <2> QED
    BY <2>1, <2>2, <2>3 DEF Next, Serve
<1> PICK q \in Requests(p) : process_registration_request(q) \/ CrashBeforeWrite(q)
  BY <1>1
<1>2. PICK kind \in {"200", "401", "403"}, nonce \in Nat :
          /\ HandsOver(q, Response(q, kind, nonce))
          /\ kind = "403" => forbid_client(q)
  BY <1>1, ServeNet
<1>3. Response(m, "403", 0) = Response(q, kind, nonce)
  BY <1>2 DEF HandsOver
<1>4. kind = "403" /\ q.from = m.from /\ q.cseq = m.cseq
  BY <1>3 DEF Response
<1>5. q = m
  BY <1>4 DEF FreshInv, SameRequest, Requests
<1>6. forbid_client(m) /\ m.auth # NoAuth
  BY <1>2, <1>4, <1>5 DEF forbid_client
<1>7. Credentials(m.from, m.auth)
  BY DEF FreshInv, AnswersExpected
<1>8. \E i \in Slots : open_challenges[i] = m.auth
  BY <1>6, <1>7 DEF Credentials, Challenged, Expects
<1>9. HandleUnterminated(m, {Response(m, "403", 0)}) /\ open_challenges' = open_challenges
  BY <1>6, <1>8 DEF forbid_client, Matching
<1>10. count'["unterminated"] = count["unterminated"] + 1
  BY <1>9 DEF HandleUnterminated, TypeOK, Bounded
<1> QED
  BY <1>8, <1>9, <1>10

(* A right answer to one of the last MAX_CHALLENGES challenges that was not used yet is
   in the ring whatever else went through it, and a phone has one request of each CSeq:
   the proxy has a 403 for it only if strcmp reads beyond the 32 characters, and leaves it
   in the ring then. *)
THEOREM FreshNotForbidden == Spec => FreshAnswerAccepted
  BY OnceInit, OnceNext, RegistrarTypes, FreshInit, FreshNext, FreshStep, PTL
     DEF Spec, FreshAnswerAccepted
-----------------------------------------------------------------------------
(* A phone has one datagram on its way, its current request or the response to it,
   unless datagrams are duplicated. *)

OnItsWay(p) == Requests(p) \cup Responses(p)
OneOnItsWay ==
    \A p \in Phones :
        /\ \A x, y \in OnItsWay(p) : x = y
        /\ OnItsWay(p) # {} => phone[p].state \in Waiting
        /\ \A m \in Requests(p) : m = Current(p)
        /\ \A r \in Responses(p) : r.cseq = phone[p].cseq

(* What happens to one phone leaves the others as they are. *)
LEMMA OnlyOne ==
    ASSUME OneOnItsWay, NEW p \in Phones,
           \A q \in Phones \ {p} :
                phone'[q] = phone[q] /\ \A x \in OnItsWay(q)' : x \in OnItsWay(q),
           \A x, y \in OnItsWay(p)' : x = y,
           OnItsWay(p)' # {} => phone'[p].state \in Waiting,
           \A m \in Requests(p)' : m = Current(p)',
           \A r \in Responses(p)' : r.cseq = phone'[p].cseq
    PROVE  OneOnItsWay'
<1>1. ASSUME NEW q \in Phones \ {p}
      PROVE  /\ Requests(q)' \subseteq Requests(q) /\ Responses(q)' \subseteq Responses(q)
             /\ Current(q)' = Current(q)
  BY DEF OnItsWay, Requests, Responses, Current, Register
<1>2. ASSUME NEW q \in Phones
      PROVE  /\ \A x, y \in OnItsWay(q)' : x = y
             /\ OnItsWay(q)' # {} => phone'[q].state \in Waiting
             /\ \A m \in Requests(q)' : m = Current(q)'
             /\ \A r \in Responses(q)' : r.cseq = phone'[q].cseq
  BY <1>1 DEF OneOnItsWay
<1> QED
  BY <1>2 DEF OneOnItsWay

(* The proxy answers p's request: the response takes its place, and only p's row changes. *)
Answered(p, m, r) ==
    \/ r.kind = "200" /\ "zero" \in Expires(m) /\ registered_users'[p] = None
    \/ /\ r.kind = "200" /\ "positive" \in Expires(m)
       /\ registered_users'[p] = IF registered_users[p] = None THEN phone[p].at
                                 ELSE registered_users[p]
    \/ r.kind # "200" /\ "positive" \in Expires(m) /\ registered_users' = registered_users
LEMMA OneServe ==
    ASSUME MaxDups = 0, TypeOK, OneOnItsWay, NEW p \in Phones, NEW m \in Requests(p),
           process_registration_request(m)
    PROVE  /\ OneOnItsWay' /\ phone' = phone /\ m = Current(p)
           /\ \A q \in Phones \ {p} : /\ registered_users'[q] = registered_users[q]
                                      /\ Responses(q)' \subseteq Responses(q)
           /\ \E r : Responses(p)' = {r} /\ Answered(p, m, r)
<1>1. m \in REGISTERs /\ m \in net /\ m.from = p /\ m.kind = "REGISTER"
  BY RequestType DEF Requests
<1>2. /\ m = Current(p) /\ m.src = phone[p].at /\ m.cseq = phone[p].cseq
      /\ phone[p].state \in Waiting
  BY DEF OneOnItsWay, OnItsWay, Current, Register
<1>0. \A x : Handle(m, {x}) \/ HandleUnterminated(m, {x}) => net' = (net \ {m}) \cup {x}
  BY DEF Handle, HandleUnterminated, Happens, TypeOK, Bounded
<1>3. \E kind \in {"200", "401", "403"}, nonce \in Nat :
        /\ net' = (net \ {m}) \cup {Response(m, kind, nonce)}
        /\ \/ kind = "200" /\ deregister_client(m)
           \/ kind = "200" /\ accept_client(m)
           \/ /\ kind # "200" /\ "positive" \in Expires(m)
              /\ registered_users' = registered_users
  <2>1. CASE challenge_client(m)
    <3>1. Len(granted') \in Nat
      BY <2>1, LenProperties, AppendProperties DEF challenge_client, TypeOK
    <3> QED
      BY <1>0, <2>1, <3>1 DEF challenge_client
  <2>2. CASE deregister_client(m)
    BY <1>0, <2>2 DEF deregister_client
  <2>3. CASE accept_client(m)
    BY <1>0, <2>3 DEF accept_client
  <2>4. CASE challenge_without_nonce(m)
    BY <1>0, <2>4 DEF challenge_without_nonce
  <2>5. CASE forbid_client(m)
    BY <1>0, <2>5 DEF forbid_client
  <2> QED
    BY <2>1, <2>2, <2>3, <2>4, <2>5 DEF process_registration_request
<1> PICK kind \in {"200", "401", "403"}, nonce \in Nat :
        /\ net' = (net \ {m}) \cup {Response(m, kind, nonce)}
        /\ \/ kind = "200" /\ deregister_client(m)
           \/ kind = "200" /\ accept_client(m)
           \/ /\ kind # "200" /\ "positive" \in Expires(m)
              /\ registered_users' = registered_users
  BY <1>3
<1> PICK r : r = Response(m, kind, nonce)
  OBVIOUS
<1>4. r.kind = kind /\ r.to = p /\ r.cseq = phone[p].cseq /\ kind # "REGISTER"
  BY <1>1, <1>2 DEF Response
<1>5. net' = (net \ {m}) \cup {r}
  OBVIOUS
<1>6. phone' = phone
  BY DEF process_registration_request, deregister_client, challenge_client,
         challenge_without_nonce, accept_client, forbid_client
<1>7. Requests(p)' = {} /\ Responses(p)' = {r}
  <2>1. \A x \in OnItsWay(p) : x = m
    BY DEF OneOnItsWay, OnItsWay
  <2> QED
    BY <1>1, <1>4, <1>5, <2>1 DEF OnItsWay, Requests, Responses
<1>8. \A q \in Phones \ {p} : /\ registered_users'[q] = registered_users[q]
                              /\ Responses(q)' \subseteq Responses(q)
                              /\ \A x \in OnItsWay(q)' : x \in OnItsWay(q)
  <2>1. \A q \in Phones \ {p} : registered_users'[q] = registered_users[q]
    BY <1>1 DEF deregister_client, accept_client, Deleted, Inserted, TypeOK
  <2> QED
    BY <1>4, <1>5, <2>1 DEF OnItsWay, Requests, Responses
<1>9. Answered(p, m, r)
  <2>1. CASE kind = "200" /\ deregister_client(m)
    BY <1>1, <1>4, <2>1 DEF Answered, deregister_client, Deleted, TypeOK
  <2>2. CASE kind = "200" /\ accept_client(m)
    BY <1>1, <1>2, <1>4, <2>2 DEF Answered, accept_client, ValidResponse, Inserted, TypeOK
  <2> QED
    BY <1>4, <2>1, <2>2 DEF Answered
<1>10. /\ \A x, y \in OnItsWay(p)' : x = y
       /\ phone'[p].state \in Waiting
       /\ \A x \in Requests(p)' : x = Current(p)'
       /\ \A x \in Responses(p)' : x.cseq = phone'[p].cseq
  BY <1>2, <1>4, <1>6, <1>7 DEF OnItsWay
<1>11. OneOnItsWay'
  BY <1>6, <1>8, <1>10, OnlyOne
<1> QED
  BY <1>2, <1>6, <1>7, <1>8, <1>9, <1>11

(* A phone sends its new current request when nothing of it is on its way. *)
LEMMA OneSend ==
    ASSUME TypeOK, OneOnItsWay, NEW p \in Phones, NEW new, new = Current(p)',
           \A x \in net' : x = new \/ (x \in net /\ x \notin OnItsWay(p)),
           phone'[p].state \in Waiting,
           \A q \in Phones \ {p} : phone'[q] = phone[q]
    PROVE  /\ OneOnItsWay'
           /\ Responses(p)' = {} /\ \A q \in Phones : Responses(q)' \subseteq Responses(q)
<1>1. new.kind = "REGISTER" /\ new.from = p
  BY DEF Current, Register
<1>2. Requests(p)' \subseteq {new} /\ Responses(p)' = {}
  BY <1>1 DEF OnItsWay, Requests, Responses
<1>3. \A q \in Phones \ {p} : \A x \in OnItsWay(q)' : x \in OnItsWay(q)
  BY <1>1 DEF OnItsWay, Requests, Responses
<1>4. /\ \A x, y \in OnItsWay(p)' : x = y
      /\ \A x \in Requests(p)' : x = Current(p)'
      /\ \A x \in Responses(p)' : x.cseq = phone'[p].cseq
  BY <1>2 DEF OnItsWay
<1>5. OneOnItsWay'
  BY <1>3, <1>4, OnlyOne
<1>6. \A q \in Phones : Responses(q)' \subseteq Responses(q)
  BY <1>1 DEF Responses
<1> QED
  BY <1>2, <1>5, <1>6

(* So it does when it asks, renews, leaves or retransmits. *)
Sending(p, state) ==
    /\ phone'[p].state = state /\ phone'[p].reg = phone[p].reg /\ phone'[p].at = phone[p].at
    /\ \A q \in Phones \ {p} : phone'[q] = phone[q]
    /\ registered_users' = registered_users
    /\ Responses(p)' = {} /\ \A q \in Phones : Responses(q)' \subseteq Responses(q)
LEMMA OneNew ==
    ASSUME TypeOK, OneOnItsWay, NEW p \in Phones, NEW state \in {"asking", "leaving"},
           phone[p].state = "rest", Send(p, state, NoAuth), registered_users' = registered_users
    PROVE  OneOnItsWay' /\ Sending(p, state)
<1>1. /\ phone'[p].cseq = phone[p].cseq + 1 /\ phone'[p].at = phone[p].at
      /\ phone'[p].state = state /\ phone'[p].auth = NoAuth
      /\ phone'[p].reg = phone[p].reg
      /\ \A q \in Phones \ {p} : phone'[q] = phone[q]
  BY DEF Send, TypeOK
<1> PICK new : new = Register(p, phone[p].cseq + 1,
                              IF state = "leaving" THEN "zero" ELSE "positive", NoAuth)
  OBVIOUS
<1>2. new = Current(p)'
  BY <1>1 DEF Current, Register
<1>3. OnItsWay(p) = {}
  BY DEF OneOnItsWay, Waiting
<1>4. \A x \in net' : x = new \/ (x \in net /\ x \notin OnItsWay(p))
  BY <1>3 DEF Send
<1>5. /\ OneOnItsWay'
      /\ Responses(p)' = {} /\ \A q \in Phones : Responses(q)' \subseteq Responses(q)
  BY <1>1, <1>2, <1>4, OneSend DEF Waiting
<1> QED
  BY <1>1, <1>5 DEF Sending

LEMMA OneAgain ==
    ASSUME TypeOK, OneOnItsWay, NEW p \in Phones, Retransmit(p)
    PROVE  OneOnItsWay' /\ Sending(p, phone[p].state) /\ phone' = phone
<1>1. /\ phone[p].state \in Waiting /\ net' = net \cup {Current(p)}
      /\ phone' = phone /\ registered_users' = registered_users
  BY DEF Retransmit
<1>2. Requests(p) = {}
  BY DEF Retransmit, OneOnItsWay, Requests
<1>3. Responses(p) = {}
  BY DEF Retransmit, OneOnItsWay, Responses
<1> PICK new : new = Current(p)
  OBVIOUS
<1>4. new = Current(p)'
  BY <1>1 DEF Current, Register
<1>5. \A x \in net' : x = new \/ (x \in net /\ x \notin OnItsWay(p))
  BY <1>1, <1>2, <1>3 DEF OnItsWay
<1>6. /\ OneOnItsWay'
      /\ Responses(p)' = {} /\ \A q \in Phones : Responses(q)' \subseteq Responses(q)
  BY <1>1, <1>4, <1>5, OneSend
<1> QED
  BY <1>1, <1>6 DEF Sending

(* Nothing new is sent, and nothing changes for the phones. *)
LEMMA OneFewer ==
    ASSUME OneOnItsWay, net' \subseteq net, phone' = phone
    PROVE  OneOnItsWay' /\ \A q \in Phones : Responses(q)' \subseteq Responses(q)
<1>1. \A q \in Phones : /\ Requests(q)' \subseteq Requests(q)
                        /\ Responses(q)' \subseteq Responses(q)
                        /\ Current(q)' = Current(q)
  BY DEF Requests, Responses, Current, Register
<1>2. ASSUME NEW q \in Phones
      PROVE  /\ \A x, y \in OnItsWay(q)' : x = y
             /\ OnItsWay(q)' # {} => phone'[q].state \in Waiting
             /\ \A m \in Requests(q)' : m = Current(q)'
             /\ \A r \in Responses(q)' : r.cseq = phone'[q].cseq
  BY <1>1 DEF OneOnItsWay, OnItsWay
<1> QED
  BY <1>1, <1>2 DEF OneOnItsWay

(* A phone takes a response. *)
Taken(p, r) ==
    \/ phone' = phone
    \/ r.kind = "401" /\ phone'[p].state = "answering" /\ phone'[p].reg = phone[p].reg
    \/ /\ r.kind = "200" /\ phone'[p].state = "rest"
       /\ phone'[p].reg = (phone[p].state # "leaving")
    \/ r.kind # "200" /\ phone'[p].state = "rest" /\ phone'[p].reg = FALSE
LEMMA OneReceive ==
    ASSUME TypeOK, OneOnItsWay, NEW p \in Phones, NEW r \in Responses(p), PhoneReceives(r)
    PROVE  /\ OneOnItsWay' /\ registered_users' = registered_users
           /\ phone'[p].at = phone[p].at /\ \A q \in Phones \ {p} : phone'[q] = phone[q]
           /\ Responses(p)' = {} /\ \A q \in Phones : Responses(q)' \subseteq Responses(q)
           /\ Taken(p, r)
<1>1. r.to = p /\ r \in net /\ r.kind # "REGISTER" /\ registered_users' = registered_users
  BY DEF Responses, PhoneReceives
<1>2. \A x \in OnItsWay(p) : x = r
  BY DEF OneOnItsWay, OnItsWay
<1>3. ASSUME Expected(r),
             net' = (net \ {r}) \cup
                     {Register(r.to, r.cseq + 1, "positive", Digest(r.to, r.nonce))},
             phone' = [phone EXCEPT ![r.to] =
                     [@ EXCEPT !.state = "answering", !.cseq = r.cseq + 1,
                               !.auth = Digest(r.to, r.nonce)]],
             r.kind = "401"
      PROVE  /\ OneOnItsWay' /\ phone'[p].at = phone[p].at
             /\ \A q \in Phones \ {p} : phone'[q] = phone[q]
             /\ Responses(p)' = {} /\ \A q \in Phones : Responses(q)' \subseteq Responses(q)
             /\ Taken(p, r)
  <2> PICK auth : auth = Digest(p, r.nonce)
    OBVIOUS
  <2> PICK new : new = Register(p, r.cseq + 1, "positive", auth)
    OBVIOUS
  <2>1. /\ phone'[p].cseq = r.cseq + 1 /\ phone'[p].at = phone[p].at
        /\ phone'[p].state = "answering" /\ phone'[p].auth = auth
        /\ phone'[p].reg = phone[p].reg
        /\ \A q \in Phones \ {p} : phone'[q] = phone[q]
    BY <1>1, <1>3 DEF TypeOK
  <2>2. new = Current(p)'
    BY <2>1 DEF Current, Register
  <2>3. \A x \in net' : x = new \/ (x \in net /\ x \notin OnItsWay(p))
    BY <1>1, <1>2, <1>3
  <2>4. /\ OneOnItsWay'
        /\ Responses(p)' = {} /\ \A q \in Phones : Responses(q)' \subseteq Responses(q)
    BY <2>1, <2>2, <2>3, OneSend DEF Waiting
  <2> QED
    BY <1>3, <2>1, <2>4 DEF Taken
<1>4. ASSUME net' = net \ {r}, NEW reg \in BOOLEAN,
             phone' = [phone EXCEPT ![r.to].state = "rest", ![r.to].reg = reg]
      PROVE  /\ OneOnItsWay' /\ phone'[p].at = phone[p].at
             /\ phone'[p].state = "rest" /\ phone'[p].reg = reg
             /\ \A q \in Phones \ {p} : phone'[q] = phone[q]
             /\ Responses(p)' = {} /\ \A q \in Phones : Responses(q)' \subseteq Responses(q)
  <2>1. /\ phone'[p].at = phone[p].at /\ phone'[p].state = "rest" /\ phone'[p].reg = reg
        /\ \A q \in Phones \ {p} : phone'[q] = phone[q]
    BY <1>1, <1>4 DEF TypeOK
  <2>2. OnItsWay(p)' = {}
    BY <1>2, <1>4 DEF OnItsWay, Requests, Responses
  <2>3. \A q \in Phones \ {p} : \A x \in OnItsWay(q)' : x \in OnItsWay(q)
    BY <1>4 DEF OnItsWay, Requests, Responses
  <2>4. Requests(p)' = {} /\ Responses(p)' = {}
    BY <2>2 DEF OnItsWay
  <2>5. \A q \in Phones : Responses(q)' \subseteq Responses(q)
    BY <1>4 DEF Responses
  <2>6. OneOnItsWay'
    BY <2>1, <2>2, <2>3, <2>4, OnlyOne
  <2> QED
    BY <2>1, <2>4, <2>5, <2>6
<1>5. CASE net' = net \ {r} /\ UNCHANGED phone
  <2>1. OneOnItsWay' /\ \A q \in Phones : Responses(q)' \subseteq Responses(q)
    BY <1>5, OneFewer
  <2>2. Responses(p)' = {}
    BY <1>2, <1>5 DEF OnItsWay, Requests, Responses
  <2> QED
    BY <1>1, <1>5, <2>1, <2>2 DEF Taken
<1>6. CASE /\ net' = net \ {r} /\ r.kind = "200"
           /\ phone' = [phone EXCEPT ![r.to].state = "rest",
                                     ![r.to].reg = (phone[r.to].state # "leaving")]
  <2> PICK reg \in BOOLEAN : reg = (phone[p].state # "leaving")
    OBVIOUS
  <2> QED
    BY <1>1, <1>4, <1>6 DEF Taken
<1>7. CASE /\ net' = net \ {r} /\ r.kind # "200"
           /\ phone' = [phone EXCEPT ![r.to].state = "rest", ![r.to].reg = FALSE]
  BY <1>1, <1>4, <1>7 DEF Taken
<1> QED
  BY <1>1, <1>3, <1>5, <1>6, <1>7 DEF PhoneReceives

-----------------------------------------------------------------------------
(* Who was told 200 OK can be called. *)

(* The row of a phone that believes it is registered, or is being told so, is where
   the phone is, and nobody has another row. *)
RowRight(p) ==
    /\ registered_users[p] \in {None, phone[p].at}
    /\ (phone[p].reg /\ phone[p].state # "leaving") => registered_users[p] = phone[p].at
    /\ \A r \in Responses(p) :
            IF phone[p].state = "leaving" THEN r.kind = "200"
            ELSE r.kind = "200" => registered_users[p] = phone[p].at

RowInv == OneOnItsWay /\ \A p \in Phones \ NoExpires : RowRight(p)

LEMMA RowInit == Init => RowInv
<1> SUFFICES ASSUME Init PROVE RowInv
  OBVIOUS
<1>1. OneOnItsWay
  BY DEF Init, OneOnItsWay, OnItsWay, Requests, Responses
<1>2. \A p \in Phones : ~phone[p].reg
  BY DEF Init
<1> QED
  BY <1>1, <1>2 DEF Init, RowInv, RowRight, Responses

(* What the request of a phone says that sends an Expires header. *)
LEMMA SaysWhat ==
    ASSUME NEW p \in Phones \ NoExpires
    PROVE  Expires(Current(p)) = {IF phone[p].state = "leaving" THEN "zero" ELSE "positive"}
BY DEF Expires, Current, Register

LEMMA RowServe ==
    ASSUME MaxDups = 0, TypeOK, RowInv, NEW p \in Phones, NEW m \in Requests(p),
           process_registration_request(m)
    PROVE  RowInv'
<1>1. /\ OneOnItsWay' /\ phone' = phone /\ m = Current(p)
      /\ \A q \in Phones \ {p} : /\ registered_users'[q] = registered_users[q]
                                 /\ Responses(q)' \subseteq Responses(q)
      /\ \E r : Responses(p)' = {r} /\ Answered(p, m, r)
  BY OneServe DEF RowInv
<1>2. ASSUME NEW q \in Phones \ NoExpires
      PROVE  RowRight(q)'
  <2>1. CASE q # p
    BY <1>1, <2>1 DEF RowInv, RowRight
  <2>2. CASE q = p
    BY <1>1, <2>2, SaysWhat DEF RowInv, RowRight, Answered
  <2> QED
    BY <2>1, <2>2
<1> QED
  BY <1>1, <1>2 DEF RowInv

LEMMA RowSend ==
    ASSUME RowInv, OneOnItsWay', NEW p \in Phones, NEW state, Sending(p, state),
           phone[p].reg /\ phone[p].state = "leaving" => state = "leaving"
    PROVE  RowInv'
BY DEF RowInv, RowRight, Sending

LEMMA RowReceive ==
    ASSUME TypeOK, RowInv, NEW p \in Phones, NEW r \in Responses(p), PhoneReceives(r)
    PROVE  RowInv'
<1>1. /\ OneOnItsWay' /\ registered_users' = registered_users
      /\ phone'[p].at = phone[p].at /\ \A q \in Phones \ {p} : phone'[q] = phone[q]
      /\ Responses(p)' = {} /\ \A q \in Phones : Responses(q)' \subseteq Responses(q)
      /\ Taken(p, r)
  BY OneReceive DEF RowInv
<1>2. ASSUME NEW q \in Phones \ NoExpires
      PROVE  RowRight(q)'
  <2>1. CASE q # p
    BY <1>1, <2>1 DEF RowInv, RowRight
  <2>2. CASE q = p
    BY <1>1, <2>2 DEF RowInv, RowRight, Taken
  <2> QED
    BY <2>1, <2>2
<1> QED
  BY <1>1, <1>2 DEF RowInv

LEMMA RowFewer ==
    ASSUME RowInv, net' \subseteq net, phone' = phone, registered_users' = registered_users
    PROVE  RowInv'
BY OneFewer DEF RowInv, RowRight

LEMMA RowNext ==
    ASSUME MaxMoves = 0, MaxDups = 0, MaxCrashes = 0, TypeOK, RowInv, [Next]_vars
    PROVE  RowInv'
<1>1. CASE UNCHANGED vars
  BY <1>1, RowFewer DEF vars
<1>2. CASE \E p \in Phones : Serve(p)
  BY <1>2, RowServe DEF Serve
<1>3. CASE \E p \in Phones : Receive(p)
  BY <1>3, RowReceive DEF Receive
<1>4. ASSUME NEW p \in Phones, NEW state \in {"asking", "leaving"}, phone[p].state = "rest",
             Send(p, state, NoAuth), registered_users' = registered_users
      PROVE  RowInv'
  BY <1>4, OneNew, RowSend DEF RowInv
<1>5. CASE \E p \in Phones : Ask(p) \/ Renew(p) \/ Leave(p)
  BY <1>4, <1>5 DEF Ask, Renew, Leave
<1>6. CASE \E p \in Phones : Retransmit(p)
  BY <1>6, OneAgain, RowSend DEF RowInv
<1>7. CASE \E m \in net : Lose(m)
  BY <1>7, RowFewer DEF Lose
<1>8. CASE Restart
  BY <1>8, RowFewer DEF Restart
<1>9. CASE \/ \E p \in Phones : Move(p)
           \/ \E p \in Phones : \E m \in Requests(p) : CrashBeforeWrite(m)
  BY <1>9 DEF Move, CrashBeforeWrite, Happens, TypeOK, Bounded
<1> QED
  BY <1>1, <1>2, <1>3, <1>5, <1>6, <1>7, <1>8, <1>9 DEF Next

(* While no phone moves, no datagram is duplicated and the proxy does not die between
   its answer and its write, who was told 200 OK is in the location table where it is,
   whatever is lost and however often the proxy restarts.  Each condition is needed:
   without one of them the rows go wrong. *)
THEOREM SaidIsWritten ==
    ASSUME MaxMoves = 0, MaxDups = 0, MaxCrashes = 0
    PROVE  Spec => []RegisteredWhereSaid
<1>1. RowInv => RegisteredWhereSaid
  BY DEF RowInv, RowRight, RegisteredWhereSaid
<1>2. TypeOK /\ RowInv /\ [Next]_vars => RowInv'
  BY RowNext
<1> QED
  BY <1>1, <1>2, RowInit, RegistrarTypes, PTL DEF Spec

-----------------------------------------------------------------------------
(* The whole proxy: the inductive invariant. *)

(* The tables of locations: where phones are and were, and who has a row. *)
PlacesRight ==
    /\ gone \subseteq Phones /\ former \in [Phones -> SUBSET Addresses]
    /\ \A p, q \in Phones : phone[p].at = phone[q].at => p = q
    /\ \A p \in Phones :
        /\ registered_users[p] \in {None, phone[p].at} \cup former[p]
        /\ former[p] = {} => \A q \in Phones : phone[p].at \notin former[q]
        /\ phone[p].reg /\ p \notin gone => registered_users[p] # None
        /\ phone[p].state = "leaving" => p \in gone
        /\ \A r \in Responses(p) :
                IF phone[p].state = "leaving" THEN r.kind = "200"
                ELSE r.kind = "200" => registered_users[p] # None
RegistrationInv == TypeOK /\ OneOnItsWay /\ PlacesRight

(* The transactions there are, and those of datagrams and calls. *)
Known(k) == k \in Range(sip_transactions)
Key(m) == <<m.from, m.cseq, m.call>>
InviteKey(c) == <<call[c].from, 1, c>>

(* What must have happened for a datagram to be there; to be on its way to the proxy; and
   to have been there. *)
Sound(m) ==
    LET d == call[m.call]
    IN /\ m \in Talk!Datagrams
       /\ d.caller # "idle"
       /\ Talk!IsRequest(m) => m.of = m.kind
       /\ (m.of = "BYE" \/ (m.kind = "200" /\ m.of = "INVITE")) => d.callee # "idle"
Sent(m) ==
    /\ Sound(m)
    /\ m.kind # "404"
    /\ m.kind = "INVITE" => m.uri = call[m.call].to
    /\ m.kind # "INVITE" => Known(InviteKey(m.call))
    /\ (Talk!IsRequest(m) /\ m.kind # "BYE") => Key(m) = InviteKey(m.call)
    /\ ~Talk!IsRequest(m) => Known(Key(m))
Passed(m) == Sound(m) /\ Known(InviteKey(m.call)) /\ Known(Key(m))

(* How far a call is. *)
ViewRight(c, d) ==
    /\ IF d.caller = "idle" THEN d.outcome = "none" ELSE d.from \in Phones /\ d.to \in Phones
    /\ d.caller \in {"up", "bye"} => d.callee # "idle"
    /\ d.caller \notin {"idle", "calling"} => Known(<<d.from, 1, c>>)
    /\ d.callee # "idle" => d.caller # "idle" /\ d.last # "none" /\ Known(<<d.from, 1, c>>)
TalkInv ==
    /\ Talk!TypeOK
    /\ \A p \in Phones : /\ \A m \in Range(up[p]) : Sent(m)
                         /\ \A m \in Range(down[p]) : Passed(m)
    /\ \A c \in Calls : ViewRight(c, call[c])

(* Nobody is told that the callee of a reachable call is not there. *)
ReachInv ==
    /\ reachable \subseteq Calls
    /\ \A c \in reachable :
        /\ call[c].caller # "idle" /\ call[c].outcome # "failed"
        /\ call[c].to \notin gone /\ registered_users[call[c].to] # None
    /\ \A p \in Phones : \A m \in Range(down[p]) : m.kind = "404" => m.call \notin reachable

(* A phone that takes part in a call and has stayed has a row. *)
Involved(p) ==
    \/ Range(up[p]) # {} \/ Range(down[p]) # {}
    \/ \E c \in Calls : \/ call[c].caller # "idle" /\ call[c].from = p
                        \/ call[c].callee # "idle" /\ call[c].to = p
InvolvedInv == \A p \in Phones : Involved(p) /\ Settled(p) => registered_users[p] # None

(* Datagrams are with the phone that sends them or gets them. *)
OwnInv ==
    AddressesOwn =>
        /\ \A p \in Phones : /\ \A m \in Range(up[p]) : Sender(m) = p
                             /\ \A m \in Range(down[p]) : Receiver(m) = p
        /\ \A a \in sip_messages : a.dst = "PS" => a.src = Sender(a.msg)

WholeInv == RegistrationInv /\ TalkInv /\ ReachInv /\ InvolvedInv /\ OwnInv

-----------------------------------------------------------------------------
(* The whole proxy: the registrar's half. *)

(* The composition takes no steps of registration that the registrar does not. *)
LEMMA RegistrarStep == ProxyNext => [Next]_vars
<1> SUFFICES ASSUME ProxyNext PROVE [Next]_vars
  OBVIOUS
<1>1. CASE ServeRegistration \/ Registering \/ Leaving \/ Moving \/ Restarting
  BY <1>1 DEF ServeRegistration, Registering, Leaving, Moving, Restarting, Next
<1>2. CASE ServeCall \/ Dial \/ Converse
  BY <1>2 DEF ServeCall, Dial, Converse, registration
<1> QED
  BY <1>1, <1>2 DEF ProxyNext

(* A row stays unless its phone leaves. *)
RowsStay == \A q \in Phones \ gone : registered_users[q] # None => registered_users'[q] # None

LEMMA PlacesServe ==
    ASSUME MaxDups = 0, NoExpires = {}, RegistrationInv, TypeOK', ServeRegistration
    PROVE  RegistrationInv' /\ RowsStay
<1> PICK p \in Phones : Serve(p)
  BY DEF ServeRegistration
<1> PICK m \in Requests(p) : process_registration_request(m)
  BY DEF Serve
<1>1. /\ OneOnItsWay' /\ phone' = phone /\ m = Current(p)
      /\ \A q \in Phones \ {p} : /\ registered_users'[q] = registered_users[q]
                                 /\ Responses(q)' \subseteq Responses(q)
      /\ \E r : Responses(p)' = {r} /\ Answered(p, m, r)
  BY OneServe DEF RegistrationInv
<1>2. gone' = gone /\ former' = former
  BY DEF ServeRegistration, history
<1>3. phone[p].at # None
  BY NoneAssumption DEF RegistrationInv, TypeOK
<1>4. /\ registered_users'[p] \in {None, phone[p].at, registered_users[p]}
      /\ phone[p].state # "leaving" =>
            registered_users'[p] = registered_users[p] \/ registered_users'[p] # None
      /\ \A r \in Responses(p)' :
            IF phone[p].state = "leaving" THEN r.kind = "200"
            ELSE r.kind = "200" => registered_users'[p] # None
  BY <1>1, <1>3, SaysWhat DEF Answered
<1>5. ASSUME NEW q \in Phones
      PROVE  /\ registered_users'[q] \in {None, phone'[q].at} \cup former'[q]
             /\ former'[q] = {} => \A r \in Phones : phone'[q].at \notin former'[r]
             /\ phone'[q].reg /\ q \notin gone' => registered_users'[q] # None
             /\ phone'[q].state = "leaving" => q \in gone'
             /\ \A r \in Responses(q)' :
                    IF phone'[q].state = "leaving" THEN r.kind = "200"
                    ELSE r.kind = "200" => registered_users'[q] # None
             /\ q \notin gone /\ registered_users[q] # None => registered_users'[q] # None
  <2>1. CASE q # p
    BY <1>1, <1>2, <2>1 DEF RegistrationInv, PlacesRight
  <2>2. CASE q = p
    BY <1>1, <1>2, <1>4, <2>2 DEF RegistrationInv, PlacesRight
  <2> QED
    BY <2>1, <2>2
<1>6. PlacesRight'
  BY <1>1, <1>2, <1>5 DEF RegistrationInv, PlacesRight
<1> QED
  BY <1>1, <1>5, <1>6 DEF RegistrationInv, RowsStay

(* A phone sends, and nothing is on its way to it. *)
LEMMA PlacesSending ==
    ASSUME RegistrationInv, TypeOK', OneOnItsWay', NEW p \in Phones, NEW state,
           Sending(p, state), state = "leaving" => p \in gone', former' = former,
           gone \subseteq gone', gone' \subseteq gone \cup {p}
    PROVE  RegistrationInv' /\ RowsStay
<1>1. PlacesRight'
  BY DEF RegistrationInv, PlacesRight, Sending
<1> QED
  BY <1>1 DEF RegistrationInv, RowsStay, Sending

LEMMA PlacesReceive ==
    ASSUME RegistrationInv, TypeOK', NEW p \in Phones, NEW r \in Responses(p),
           PhoneReceives(r), former' = former, gone' = {q \in gone : ~Registered(q)}
    PROVE  RegistrationInv' /\ RowsStay
           /\ \A q \in gone \ gone' : registered_users'[q] # None
<1>1. /\ OneOnItsWay' /\ registered_users' = registered_users
      /\ phone'[p].at = phone[p].at /\ \A q \in Phones \ {p} : phone'[q] = phone[q]
      /\ Responses(p)' = {} /\ \A q \in Phones : Responses(q)' \subseteq Responses(q)
      /\ Taken(p, r)
  BY OneReceive DEF RegistrationInv
<1>2. \A q \in Phones \ {p} : q \in gone' <=> q \in gone
  BY <1>1 DEF Registered
<1>3. /\ p \in gone \ gone' => registered_users[p] # None
      /\ phone'[p].state = "leaving" => p \in gone'
      /\ phone'[p].reg /\ p \notin gone' => registered_users[p] # None
  BY <1>1 DEF Registered, Taken, RegistrationInv, PlacesRight
<1>4. ASSUME NEW q \in Phones
      PROVE  /\ phone'[q].at = phone[q].at
             /\ phone'[q].reg /\ q \notin gone' => registered_users'[q] # None
             /\ phone'[q].state = "leaving" => q \in gone'
             /\ \A x \in Responses(q)' :
                    IF phone'[q].state = "leaving" THEN x.kind = "200"
                    ELSE x.kind = "200" => registered_users'[q] # None
             /\ q \in gone \ gone' => registered_users'[q] # None
  BY <1>1, <1>2, <1>3 DEF RegistrationInv, PlacesRight
<1>5. PlacesRight'
  BY <1>1, <1>4 DEF RegistrationInv, PlacesRight
<1>6. \A q \in gone \ gone' : registered_users'[q] # None
  BY <1>4 DEF RegistrationInv, PlacesRight
<1> QED
  BY <1>1, <1>5, <1>6 DEF RegistrationInv, RowsStay

LEMMA SendKeeps ==
    ASSUME TypeOK, NEW p \in Phones, NEW state, Send(p, state, NoAuth)
    PROVE  /\ phone'[p].state = state
           /\ \A q \in Phones : phone'[q].at = phone[q].at
           /\ \A q \in Phones \ {p} : phone'[q] = phone[q]
<1>1. phone'[p].state = state /\ phone'[p].at = phone[p].at
      /\ \A q \in Phones \ {p} : phone'[q] = phone[q]
  BY DEF Send, TypeOK
<1> QED
  BY <1>1

(* Whoever asks, renews or leaves. *)
LEMMA NewSending ==
    ASSUME RegistrationInv, NEW p \in Phones, Ask(p) \/ Renew(p) \/ Leave(p)
    PROVE  /\ OneOnItsWay'
           /\ Leave(p) => Sending(p, "leaving")
           /\ ~Leave(p) => Sending(p, "asking")
<1>1. CASE Leave(p)
  BY <1>1, OneNew DEF Leave, RegistrationInv
<1>2. CASE ~Leave(p)
  BY <1>2, OneNew DEF Ask, Renew, RegistrationInv
<1> QED
  BY <1>1, <1>2

LEMMA PlacesRegistering ==
    ASSUME RegistrationInv, TypeOK', Registering
    PROVE  RegistrationInv' /\ RowsStay
           /\ gone' \subseteq gone /\ \A q \in gone \ gone' : registered_users'[q] # None
<1>1. former' = former /\ gone' = {q \in gone : ~Registered(q)}
  BY DEF Registering
<1>2. CASE \E p \in Phones : Receive(p)
  BY <1>1, <1>2, PlacesReceive DEF Receive
<1>3. ASSUME NEW p \in Phones, Ask(p) \/ Renew(p)
      PROVE  RegistrationInv' /\ RowsStay /\ gone' = gone
  <2>1. phone'[p].state = "asking" /\ \A q \in Phones \ {p} : phone'[q] = phone[q]
    BY <1>3, SendKeeps DEF Ask, Renew, RegistrationInv
  <2>2. \A q \in Phones : ~Registered(q)
    BY <2>1 DEF Registered
  <2>3. gone' = gone
    BY <1>1, <2>2 DEF RegistrationInv, PlacesRight
  <2>4. ~Leave(p)
    BY <2>1, SendKeeps DEF Leave, RegistrationInv
  <2> QED
    BY <1>1, <1>3, <2>3, <2>4, NewSending, PlacesSending
<1>4. ASSUME NEW p \in Phones, Retransmit(p)
      PROVE  RegistrationInv' /\ RowsStay /\ gone' = gone
  <2>1. OneOnItsWay' /\ Sending(p, phone[p].state) /\ phone' = phone
    BY <1>4, OneAgain DEF RegistrationInv
  <2>2. \A q \in Phones : ~Registered(q)
    BY <2>1 DEF Registered
  <2>3. gone' = gone
    BY <1>1, <2>2 DEF RegistrationInv, PlacesRight
  <2> QED
    BY <1>1, <2>1, <2>3, PlacesSending DEF RegistrationInv, PlacesRight
<1> QED
  BY <1>1, <1>2, <1>3, <1>4 DEF Registering

LEMMA PlacesLeaving ==
    ASSUME RegistrationInv, TypeOK', Leaving
    PROVE  /\ RegistrationInv' /\ RowsStay
           /\ former' = former /\ gone \subseteq gone'
           /\ \A c \in reachable' : c \in reachable /\ call[c].to \notin gone' \ gone
<1> PICK p \in Phones : /\ Leave(p) /\ gone' = gone \cup {p} /\ reachable' = NotTo(p)
                        /\ former' = former
  BY DEF Leaving
<1>1. RegistrationInv' /\ RowsStay
  BY NewSending, PlacesSending
<1> QED
  BY <1>1 DEF NotTo

(* p was at b, and is now at a. *)
LEMMA PlacesMoving ==
    ASSUME RegistrationInv, TypeOK', Moving
    PROVE  /\ RegistrationInv' /\ RowsStay
           /\ gone' = gone /\ reachable' \subseteq reachable
           /\ \A q \in Phones : former[q] \subseteq former'[q]
           /\ AddressesOwn' => AddressesOwn
<1> PICK p \in Phones : /\ Move(p) /\ reachable' = NotTo(p) /\ gone' = gone
                        /\ former' = [former EXCEPT ![p] = @ \cup {phone[p].at}]
  BY DEF Moving
<1> PICK a \in Addresses \ {phone[q].at : q \in Phones} :
        phone' = [phone EXCEPT ![p].at = a, ![p].reg = FALSE]
  BY DEF Move
<1>1. /\ phone'[p].at = a /\ ~phone'[p].reg /\ phone'[p].state = phone[p].state
      /\ phone'[p].cseq = phone[p].cseq
      /\ \A q \in Phones \ {p} : phone'[q] = phone[q]
      /\ phone[p].state = "rest" /\ net' = net /\ registered_users' = registered_users
      /\ \A q \in Phones : phone[q].at # a /\ phone[q].at \in Addresses
  BY DEF Move, RegistrationInv, TypeOK
<1>2. /\ former'[p] = former[p] \cup {phone[p].at}
      /\ \A q \in Phones \ {p} : former'[q] = former[q]
      /\ former' \in [Phones -> SUBSET Addresses]
  BY <1>1 DEF RegistrationInv, PlacesRight
<1>3. \A q \in Phones : Responses(q)' = Responses(q) /\ Requests(q)' = Requests(q)
  BY <1>1 DEF Responses, Requests
<1>4. OneOnItsWay'
  <2>1. OnItsWay(p) = {}
    BY <1>1 DEF RegistrationInv, OneOnItsWay, Waiting
  <2>2. Requests(p)' = {} /\ Responses(p)' = {} /\ OnItsWay(p)' = {}
    BY <1>3, <2>1 DEF OnItsWay
  <2>3. \A q \in Phones \ {p} : \A x \in OnItsWay(q)' : x \in OnItsWay(q)
    BY <1>3 DEF OnItsWay
  <2> QED
    BY <1>1, <2>2, <2>3, OnlyOne DEF RegistrationInv
<1>5. \A q, r \in Phones : phone'[q].at = phone'[r].at => q = r
  <2>1. \A q, r \in Phones : phone[q].at = phone[r].at => q = r
    BY DEF RegistrationInv, PlacesRight
  <2>2. \A q \in Phones \ {p} : phone'[q].at = phone[q].at /\ phone'[q].at # a
    BY <1>1
  <2>3. phone'[p].at = a
    BY <1>1
  <2> QED
    BY <2>1, <2>2, <2>3
<1>6. ASSUME NEW q \in Phones, former'[q] = {}, NEW r \in Phones
      PROVE  phone'[q].at \notin former'[r]
  <2>1. q # p /\ former[q] = {} /\ phone'[q].at = phone[q].at
    BY <1>1, <1>2, <1>6
  <2>2. phone[q].at # phone[p].at
    BY <2>1 DEF RegistrationInv, PlacesRight
  <2> QED
    BY <1>2, <2>1, <2>2 DEF RegistrationInv, PlacesRight
<1>7. PlacesRight'
  <2>1. ASSUME NEW q \in Phones
        PROVE  /\ registered_users'[q] \in {None, phone'[q].at} \cup former'[q]
               /\ phone'[q].reg /\ q \notin gone' => registered_users'[q] # None
               /\ phone'[q].state = "leaving" => q \in gone'
               /\ \A r \in Responses(q)' :
                    IF phone'[q].state = "leaving" THEN r.kind = "200"
                    ELSE r.kind = "200" => registered_users'[q] # None
    <3>1. /\ registered_users[q] \in {None, phone[q].at} \cup former[q]
          /\ phone[q].reg /\ q \notin gone => registered_users[q] # None
          /\ phone[q].state = "leaving" => q \in gone
          /\ \A r \in Responses(q) :
                IF phone[q].state = "leaving" THEN r.kind = "200"
                ELSE r.kind = "200" => registered_users[q] # None
      BY DEF RegistrationInv, PlacesRight
    <3>2. /\ phone'[q].state = phone[q].state /\ registered_users'[q] = registered_users[q]
          /\ phone'[q].reg => phone[q].reg
      BY <1>1
    <3>3. registered_users'[q] \in {None, phone'[q].at} \cup former'[q]
      <4>1. CASE q = p
        BY <1>2, <3>1, <3>2, <4>1
      <4>2. CASE q # p
        BY <1>1, <1>2, <3>1, <3>2, <4>2
      <4> QED
        BY <4>1, <4>2
    <3>4. Responses(q)' = Responses(q)
      BY <1>3
    <3> QED
      BY <3>1, <3>2, <3>3, <3>4
  <2>2. gone' \subseteq Phones
    BY DEF RegistrationInv, PlacesRight
  <2> QED
    BY <1>2, <1>5, <1>6, <2>1, <2>2 DEF PlacesRight
<1>8. AddressesOwn' => AddressesOwn
  <2> SUFFICES ASSUME AddressesOwn', NEW q \in Phones, NEW r \in Phones \ {q}
               PROVE  ({phone[q].at} \cup former[q]) \cap former[r] = {}
    BY DEF AddressesOwn
  <2>1. ({phone'[q].at} \cup former'[q]) \cap former'[r] = {}
    BY DEF AddressesOwn
  <2>2. {phone[q].at} \cup former[q] \subseteq {phone'[q].at} \cup former'[q]
    BY <1>1, <1>2
  <2>3. former[r] \subseteq former'[r]
    BY <1>2
  <2> QED
    BY <2>1, <2>2, <2>3
<1> QED
  BY <1>1, <1>2, <1>4, <1>7, <1>8 DEF RegistrationInv, RowsStay, NotTo

LEMMA PlacesRestarting ==
    ASSUME RegistrationInv, TypeOK', Restarting
    PROVE  RegistrationInv' /\ RowsStay
<1>1. /\ net' = net /\ phone' = phone /\ registered_users' = registered_users
      /\ gone' = gone /\ former' = former
  BY DEF Restarting, Restart, history
<1>2. OneOnItsWay' /\ \A q \in Phones : Responses(q)' \subseteq Responses(q)
  BY <1>1, OneFewer DEF RegistrationInv
<1>3. PlacesRight'
  BY <1>1, <1>2 DEF RegistrationInv, PlacesRight
<1> QED
  BY <1>1, <1>2, <1>3 DEF RegistrationInv, RowsStay

(* What the calls need of it stays. *)
LEMMA CallsStay ==
    ASSUME WholeInv, RegistrationInv', RowsStay,
           UNCHANGED <<sip_transactions, sip_messages, sip_calls, up, down, call>>,
           reachable' \subseteq reachable, \A c \in reachable' : call[c].to \notin gone',
           \A q \in gone \ gone' : registered_users'[q] # None,
           \A q \in Phones : former[q] \subseteq former'[q],
           AddressesOwn' => AddressesOwn
    PROVE  WholeInv'
<1>1. TalkInv'
  BY DEF WholeInv, TalkInv, Talk!TypeOK, Sent, Passed, Sound, ViewRight, Known, Key, InviteKey
<1>2. ReachInv'
  <2>1. ASSUME NEW c \in reachable'
        PROVE  registered_users'[call[c].to] # None
    BY <2>1 DEF WholeInv, ReachInv, TalkInv, ViewRight, RowsStay
  <2> QED
    BY <2>1 DEF WholeInv, ReachInv
<1>3. InvolvedInv'
  <2> SUFFICES ASSUME NEW p \in Phones, Involved(p)', Settled(p)'
               PROVE  registered_users'[p] # None
    BY DEF InvolvedInv
  <2>1. Involved(p) /\ p \notin gone' /\ former[p] = {}
    BY DEF Involved, Settled
  <2>2. CASE p \in gone
    BY <2>1, <2>2
  <2>3. CASE p \notin gone
    BY <2>1, <2>3 DEF Settled, WholeInv, InvolvedInv, RowsStay
  <2> QED
    BY <2>2, <2>3
<1>4. OwnInv'
  BY DEF WholeInv, OwnInv, Sender, Receiver
<1> QED
  BY <1>1, <1>2, <1>3, <1>4 DEF WholeInv

LEMMA RegistrationStep ==
    ASSUME MaxDups = 0, NoExpires = {}, WholeInv,
           ServeRegistration \/ Registering \/ Leaving \/ Moving \/ Restarting
    PROVE  WholeInv'
<1>1. TypeOK'
  BY RegistrarStep, TypeNext DEF WholeInv, RegistrationInv, ProxyNext
<1>2. UNCHANGED <<sip_transactions, sip_messages, sip_calls, up, down, call>>
  BY DEF ServeRegistration, Registering, Leaving, Moving, Restarting, talk
<1>3. \A c \in reachable : call[c].to \notin gone
  BY DEF WholeInv, ReachInv
<1>4. \A q \in Phones : former[q] \subseteq former[q]
  OBVIOUS
<1>5. phone' = phone /\ former' = former => (AddressesOwn' => AddressesOwn)
  BY DEF AddressesOwn
<1>6. CASE ServeRegistration
  <2>1. phone' = phone
    BY <1>6 DEF ServeRegistration, Serve, process_registration_request, deregister_client,
                challenge_client, challenge_without_nonce, accept_client, forbid_client
  <2>2. gone' = gone /\ former' = former /\ reachable' = reachable
    BY <1>6 DEF ServeRegistration, history
  <2> QED
    BY <1>1, <1>2, <1>3, <1>5, <1>6, <2>1, <2>2, PlacesServe, CallsStay DEF WholeInv
<1>7. CASE Registering
  <2>1. former' = former /\ reachable' = reachable
    BY <1>7 DEF Registering
  <2>2. /\ RegistrationInv' /\ RowsStay
        /\ gone' \subseteq gone /\ \A q \in gone \ gone' : registered_users'[q] # None
    BY <1>1, <1>7, PlacesRegistering DEF WholeInv
  <2>3. \A q \in Phones : phone'[q].at = phone[q].at
    <3>1. CASE \E p \in Phones : Receive(p)
      BY <3>1, OneReceive DEF Receive, WholeInv, RegistrationInv
    <3>2. CASE \E p \in Phones : Ask(p) \/ Renew(p)
      BY <3>2, SendKeeps DEF Ask, Renew, WholeInv, RegistrationInv
    <3>3. CASE \E p \in Phones : Retransmit(p)
      BY <3>3 DEF Retransmit
    <3> QED
      BY <1>7, <3>1, <3>2, <3>3 DEF Registering
  <2>4. AddressesOwn' => AddressesOwn
    BY <2>1, <2>3 DEF AddressesOwn
  <2> QED
    BY <1>2, <1>3, <2>1, <2>2, <2>4, CallsStay
<1>8. CASE Leaving
  <2>1. \A q \in Phones : phone'[q].at = phone[q].at
    BY <1>8, SendKeeps DEF Leaving, Leave, WholeInv, RegistrationInv
  <2>2. /\ RegistrationInv' /\ RowsStay
        /\ former' = former /\ gone \subseteq gone'
        /\ \A c \in reachable' : c \in reachable /\ call[c].to \notin gone' \ gone
    BY <1>1, <1>8, PlacesLeaving DEF WholeInv
  <2>3. AddressesOwn' => AddressesOwn
    BY <2>1, <2>2 DEF AddressesOwn
  <2> QED
    BY <1>2, <1>3, <2>2, <2>3, CallsStay
<1>9. CASE Moving
  <2>1. /\ RegistrationInv' /\ RowsStay
        /\ gone' = gone /\ reachable' \subseteq reachable
        /\ \A q \in Phones : former[q] \subseteq former'[q]
        /\ AddressesOwn' => AddressesOwn
    BY <1>1, <1>9, PlacesMoving DEF WholeInv
  <2> QED
    BY <1>2, <1>3, <2>1, CallsStay
<1>10. CASE Restarting
  <2>1. phone' = phone /\ gone' = gone /\ former' = former /\ reachable' = reachable
    BY <1>10 DEF Restarting, Restart, history
  <2> QED
    BY <1>1, <1>2, <1>3, <1>5, <1>10, <2>1, PlacesRestarting, CallsStay DEF WholeInv
<1> QED
  BY <1>6, <1>7, <1>8, <1>9, <1>10

-----------------------------------------------------------------------------
(* The whole proxy: the phones talk. *)

(* Who calls whom stays, nothing that happened is undone, and transactions stay. *)
Goes(d, e) ==
    /\ d.caller # "idle" => e.caller # "idle" /\ e.from = d.from /\ e.to = d.to
    /\ d.callee # "idle" => e.callee # "idle"
Grows == /\ \A c \in Calls : Goes(call[c], call'[c])
         /\ Range(sip_transactions) \subseteq Range(sip_transactions')

LEMMA SoundStays ==
    ASSUME Grows, NEW m, Sound(m)
    PROVE  Sound(m)' /\ InviteKey(m.call)' = InviteKey(m.call)
<1>1. m.call \in Calls
  BY DEF Sound, Talk!Datagrams
<1> QED
  BY <1>1 DEF Sound, Grows, Goes, InviteKey

LEMMA SentStays ==
    ASSUME Grows, NEW m, Sent(m)
    PROVE  Sent(m)'
<1>1. Sound(m)' /\ InviteKey(m.call)' = InviteKey(m.call)
  BY SoundStays DEF Sent
<1>2. m.call \in Calls /\ call'[m.call].to = call[m.call].to
  BY DEF Sent, Sound, Talk!Datagrams, Grows, Goes
<1> QED
  BY <1>1, <1>2 DEF Sent, Grows, Known, Key

LEMMA PassedStays ==
    ASSUME Grows, NEW m, Passed(m)
    PROVE  Passed(m)'
<1>1. Sound(m)' /\ InviteKey(m.call)' = InviteKey(m.call)
  BY SoundStays DEF Passed
<1> QED
  BY <1>1 DEF Passed, Grows, Known, Key

LEMMA OneSent ==
    ASSUME NEW S, NEW x \in S
    PROVE  <<x>> \in Seq(S) /\ Range(<<x>>) = {x}
  BY DEF Range

LEMMA TwoSent ==
    ASSUME NEW S, NEW x \in S, NEW y \in S
    PROVE  <<x, y>> \in Seq(S) /\ Range(<<x, y>>) = {x, y}
  BY DEF Range

LEMMA NoneSent ==
    ASSUME NEW S
    PROVE  << >> \in Seq(S) /\ Range(<< >>) = {}
  BY DEF Range

(* p may send m; the phone it says it is from is p unless p got what was not for it. *)
MaySend(p, m) ==
    /\ m \in Talk!Datagrams /\ Sent(m)
    /\ Sender(m) = p \/ \E x \in Range(down[p]) : Receiver(x) # p

(* p goes on with call c, which becomes e, and sends msgs. *)
Step(p, c, e, msgs) ==
    /\ e \in Talk!Views /\ Goes(call[c], e) /\ ViewRight(c, e)
    /\ e.outcome = "failed" => \/ call[c].outcome = "failed"
                               \/ \E x \in Range(down[p]) : x.kind = "404" /\ x.call = c
    /\ call[c].callee = "idle" /\ e.callee # "idle" => p = call[c].to
    /\ msgs \in Seq(Talk!Datagrams)
    /\ \A x \in Range(msgs) : MaySend(p, x)

(* What is on the links after p sent msgs. *)
LEMMA Links ==
    ASSUME Talk!TypeOK, NEW p \in Phones, NEW msgs \in Seq(Talk!Datagrams),
           up' = Talk!Sends(up, p, msgs)
    PROVE  /\ up' \in [Phones -> Seq(Talk!Datagrams)]
           /\ \A q \in Phones : Range(up'[q]) = IF q = p THEN Range(up[q]) \cup Range(msgs)
                                                ELSE Range(up[q])
<1>1. up[p] \in Seq(Talk!Datagrams)
  BY DEF Talk!TypeOK
<1>2. /\ up[p] \o msgs \in Seq(Talk!Datagrams)
      /\ Range(up[p] \o msgs) = Range(up[p]) \cup Range(msgs)
  BY <1>1, ConcatProperties, RangeConcatenation
<1> QED
  BY <1>2 DEF Talk!Sends, Talk!TypeOK

Quietly == UNCHANGED <<sip_calls, sip_transactions, sip_messages>>
Fewer == /\ down' \in [Phones -> Seq(Talk!Datagrams)]
         /\ \A q \in Phones : Range(down'[q]) \subseteq Range(down[q])
Elsewhere == UNCHANGED <<registration, gone, former>>

LEMMA TalkStep ==
    ASSUME TalkInv, Quietly, Fewer, NEW p \in Phones, NEW c \in Calls,
           NEW e \in Talk!Views, call' = [call EXCEPT ![c] = e], Goes(call[c], e),
           ViewRight(c, e), NEW msgs \in Seq(Talk!Datagrams), up' = Talk!Sends(up, p, msgs),
           \A x \in Range(msgs) : Sent(x)'
    PROVE  TalkInv' /\ Grows
<1>1. /\ call' \in [Calls -> Talk!Views] /\ call'[c] = e
      /\ \A b \in Calls \ {c} : call'[b] = call[b]
  BY DEF TalkInv, Talk!TypeOK
<1>2. Grows
  BY <1>1 DEF Grows, Goes, Quietly
<1>3. /\ up' \in [Phones -> Seq(Talk!Datagrams)]
      /\ \A q \in Phones : Range(up'[q]) = IF q = p THEN Range(up[q]) \cup Range(msgs)
                                           ELSE Range(up[q])
  BY Links DEF TalkInv
<1>4. Talk!TypeOK'
  BY <1>1, <1>3 DEF TalkInv, Talk!TypeOK, Quietly, Fewer
<1>5. ASSUME NEW q \in Phones
      PROVE  /\ \A m \in Range(up'[q]) : Sent(m)'
             /\ \A m \in Range(down'[q]) : Passed(m)'
  <2>1. \A m \in Range(up[q]) : Sent(m)'
    BY <1>2, SentStays DEF TalkInv
  <2>2. \A m \in Range(down[q]) : Passed(m)'
    BY <1>2, PassedStays DEF TalkInv
  <2> QED
    BY <1>3, <2>1, <2>2 DEF Fewer
<1>6. ASSUME NEW b \in Calls
      PROVE  ViewRight(b, call[b])'
  <2>1. ViewRight(b, call'[b])
    BY <1>1 DEF TalkInv
  <2> QED
    BY <2>1 DEF ViewRight, Known, Quietly
<1> QED
  BY <1>2, <1>4, <1>5, <1>6 DEF TalkInv

LEMMA OwnStep ==
    ASSUME TalkInv, OwnInv, Elsewhere, Quietly, Fewer, NEW p \in Phones,
           NEW msgs \in Seq(Talk!Datagrams), up' = Talk!Sends(up, p, msgs),
           \A x \in Range(msgs) : Sender(x) = p \/ \E y \in Range(down[p]) : Receiver(y) # p
    PROVE  OwnInv'
<1> SUFFICES ASSUME AddressesOwn'
             PROVE  /\ \A q \in Phones : /\ \A m \in Range(up'[q]) : Sender(m) = q
                                         /\ \A m \in Range(down'[q]) : Receiver(m) = q
                    /\ \A a \in sip_messages' : a.dst = "PS" => a.src = Sender(a.msg)
  BY DEF OwnInv, Sender, Receiver
<1>1. AddressesOwn
  BY DEF AddressesOwn, Elsewhere, registration, vars
<1>2. /\ \A q \in Phones : /\ \A m \in Range(up[q]) : Sender(m) = q
                           /\ \A m \in Range(down[q]) : Receiver(m) = q
      /\ \A a \in sip_messages : a.dst = "PS" => a.src = Sender(a.msg)
  BY <1>1 DEF OwnInv
<1>3. \A q \in Phones : Range(up'[q]) = IF q = p THEN Range(up[q]) \cup Range(msgs)
                                        ELSE Range(up[q])
  BY Links DEF TalkInv
<1> QED
  BY <1>2, <1>3 DEF Quietly, Fewer

LEMMA PlacesKept ==
    ASSUME RegistrationInv, Elsewhere
    PROVE  RegistrationInv'
<1>1. TypeOK' /\ OneOnItsWay'
  BY OneFewer DEF RegistrationInv, Elsewhere, registration, vars, proxy, TypeOK
<1>2. PlacesRight'
  BY DEF RegistrationInv, PlacesRight, Elsewhere, registration, vars, Responses
<1> QED
  BY <1>1, <1>2 DEF RegistrationInv

LEMMA StepInv ==
    ASSUME WholeInv, Elsewhere, reachable' = reachable, Quietly, Fewer,
           NEW p \in Phones, NEW c \in Calls, NEW e, NEW msgs, Step(p, c, e, msgs),
           call[c].caller # "idle", Involved(p),
           call' = [call EXCEPT ![c] = e], up' = Talk!Sends(up, p, msgs)
    PROVE  WholeInv'
<1>1. /\ e \in Talk!Views /\ Goes(call[c], e) /\ ViewRight(c, e)
      /\ msgs \in Seq(Talk!Datagrams) /\ \A x \in Range(msgs) : MaySend(p, x)
  BY DEF Step
<1>2. /\ call'[c] = e /\ \A b \in Calls \ {c} : call'[b] = call[b]
  BY DEF WholeInv, TalkInv, Talk!TypeOK
<1>3. Grows
  BY <1>1, <1>2 DEF Grows, Goes, Quietly
<1>4. \A x \in Range(msgs) : Sent(x)'
  BY <1>1, <1>3, SentStays DEF MaySend
<1>5. TalkInv'
  BY <1>1, <1>4, TalkStep DEF WholeInv
<1>6. OwnInv'
  BY <1>1, OwnStep DEF WholeInv, MaySend
<1>7. RegistrationInv'
  BY PlacesKept DEF WholeInv
<1>8. registered_users' = registered_users /\ gone' = gone /\ former' = former
  BY DEF Elsewhere, registration, vars
<1>9. ReachInv'
  <2>1. ASSUME NEW b \in reachable
        PROVE  /\ call'[b].caller # "idle" /\ call'[b].outcome # "failed"
               /\ call'[b].to = call[b].to
    <3>1. /\ b \in Calls /\ call[b].caller # "idle" /\ call[b].outcome # "failed"
          /\ \A x \in Range(down[p]) : x.kind = "404" => x.call # b
      BY DEF WholeInv, ReachInv
    <3>2. CASE b = c
      BY <1>1, <1>2, <3>1, <3>2 DEF Goes, Step
    <3> QED
      BY <1>2, <3>1, <3>2
  <2> QED
    BY <1>8, <2>1 DEF WholeInv, ReachInv, Fewer
<1>10. InvolvedInv'
  <2> SUFFICES ASSUME NEW q \in Phones, Involved(q)', Settled(q)'
               PROVE  registered_users'[q] # None
    BY DEF InvolvedInv
  <2>1. Settled(q)
    BY <1>8 DEF Settled
  <2>2. Involved(q)
    <3>1. CASE Range(up'[q]) # {}
      <4>1. q = p \/ Range(up[q]) # {}
        BY <1>1, <3>1, Links DEF WholeInv, TalkInv
      <4> QED
        BY <4>1 DEF Involved
    <3>2. CASE Range(down'[q]) # {}
      BY <3>2 DEF Involved, Fewer
    <3>3. ASSUME NEW b \in Calls, \/ call'[b].caller # "idle" /\ call'[b].from = q
                                  \/ call'[b].callee # "idle" /\ call'[b].to = q
          PROVE  Involved(q)
      <4>1. CASE b = c
        BY <1>1, <1>2, <3>3, <4>1 DEF Goes, Step, Involved
      <4>2. CASE b # c
        BY <1>2, <3>3, <4>2 DEF Involved
      <4> QED
        BY <4>1, <4>2
    <3> QED
      BY <3>1, <3>2, <3>3 DEF Involved
  <2> QED
    BY <1>8, <2>1, <2>2 DEF WholeInv, InvolvedInv
<1> QED
  BY <1>5, <1>6, <1>7, <1>9, <1>10 DEF WholeInv

(* The requests of the two phones of a call. *)
LEMMA OwnRequests ==
    ASSUME TalkInv, NEW c \in Calls, call[c].caller # "idle", Known(<<call[c].from, 1, c>>)
    PROVE  /\ MaySend(call[c].from, Talk!Ack(c)) /\ MaySend(call[c].from, Talk!Cancel(c))
           /\ call[c].callee # "idle" => /\ MaySend(call[c].from, Talk!CallerBye(c))
                                         /\ MaySend(call[c].to, Talk!CalleeBye(c))
<1> PICK d \in Talk!Views : d = call[c]
  BY DEF TalkInv, Talk!TypeOK
<1>1. d.from \in Phones /\ d.to \in Phones
  BY DEF TalkInv, ViewRight
<1>2. ASSUME NEW m, NEW kind \in {"ACK", "CANCEL", "BYE"},
             NEW from \in Phones, NEW uri \in Phones, NEW cseq \in {1, 2},
             m = Talk!Request(kind, c, from, uri, cseq),
             IF kind = "BYE" THEN d.callee # "idle" ELSE from = d.from /\ cseq = 1
      PROVE  MaySend(from, m)
  <2>1. /\ m.kind = kind /\ m.of = kind /\ m.call = c /\ m.from = from /\ m.uri = uri
        /\ m.cseq = cseq /\ m \in Talk!Datagrams /\ Talk!IsRequest(m)
    BY <1>2 DEF Talk!Request, Talk!Datagrams, Talk!Methods, Talk!Statuses, Talk!IsRequest
  <2> QED
    BY <1>2, <2>1 DEF MaySend, Sent, Sound, Sender, Key, InviteKey
<1> QED
  BY <1>1, <1>2 DEF Talk!Ack, Talk!Cancel, Talk!CallerBye, Talk!CalleeBye

(* What a phone says to a request. *)
LEMMA Reply ==
    ASSUME TalkInv, NEW p \in Phones, NEW m \in Range(down[p]), Talk!IsRequest(m),
           NEW kind \in Talk!Statuses \ {"404"}, NEW allow \in BOOLEAN,
           m.kind = "INVITE" /\ kind = "200" => call[m.call].callee # "idle"
    PROVE  MaySend(p, Talk!Status(kind, m, allow))
<1> PICK s : s = Talk!Status(kind, m, allow)
  OBVIOUS
<1>1. m \in Talk!Datagrams /\ Passed(m)
  BY DEF TalkInv, Passed, Sound
<1>2. /\ s \in Talk!Datagrams /\ s.kind = kind /\ s.of = m.of /\ s.call = m.call /\ s.from = m.from
      /\ s.uri = m.uri /\ s.cseq = m.cseq /\ ~Talk!IsRequest(s)
  BY <1>1 DEF Talk!Status, Talk!Datagrams, Talk!Methods, Talk!Statuses, Talk!IsRequest
<1>3. Sent(s)
  BY <1>1, <1>2 DEF Sent, Passed, Sound, Key, Talk!Statuses
<1>4. Sender(s) = p \/ Receiver(m) # p
  BY <1>2 DEF Sender, Receiver
<1> QED
  BY <1>2, <1>3, <1>4 DEF MaySend

(* What the callee says to the INVITE when it rang. *)
LEMMA InviteReply ==
    ASSUME TalkInv, NEW c \in Calls, call[c].callee # "idle",
           NEW kind \in Talk!Statuses \ {"404"}, NEW allow \in BOOLEAN
    PROVE  MaySend(call[c].to, Talk!Status(kind, Talk!Invite(c), allow))
<1> PICK s : s = Talk!Status(kind, Talk!Invite(c), allow)
  OBVIOUS
<1> PICK d \in Talk!Views : d = call[c]
  BY DEF TalkInv, Talk!TypeOK
<1>1. d.caller # "idle" /\ d.from \in Phones /\ d.to \in Phones /\ Known(<<d.from, 1, c>>)
  BY DEF TalkInv, ViewRight
<1>2. /\ s \in Talk!Datagrams /\ s.kind = kind /\ s.of = "INVITE" /\ s.call = c /\ s.from = d.from
      /\ s.uri = d.to /\ s.cseq = 1 /\ ~Talk!IsRequest(s)
  BY <1>1 DEF Talk!Status, Talk!Invite, Talk!Request, Talk!Datagrams, Talk!Methods, Talk!Statuses,
              Talk!IsRequest
<1>3. Sent(s)
  BY <1>1, <1>2 DEF Sent, Sound, Key, InviteKey, Talk!Statuses
<1> QED
  BY <1>2, <1>3 DEF MaySend, Sender

(* A step that sends one datagram, or none. *)
LEMMA SendsOne ==
    ASSUME NEW p, NEW c, NEW e, NEW m, Step(p, c, e, << >>), MaySend(p, m)
    PROVE  Step(p, c, e, <<m>>)
<1>1. m \in Talk!Datagrams
  BY DEF MaySend
<1>2. <<m>> \in Seq(Talk!Datagrams) /\ Range(<<m>>) = {m}
  BY <1>1, OneSent
<1> QED
  BY <1>2 DEF Step

LEMMA SendsTwo ==
    ASSUME NEW p, NEW c, NEW e, NEW m, NEW n, Step(p, c, e, << >>), MaySend(p, m), MaySend(p, n)
    PROVE  Step(p, c, e, <<m, n>>)
<1>1. m \in Talk!Datagrams /\ n \in Talk!Datagrams
  BY DEF MaySend
<1>2. <<m, n>> \in Seq(Talk!Datagrams) /\ Range(<<m, n>>) = {m, n}
  BY <1>1, TwoSent
<1> QED
  BY <1>2 DEF Step

LEMMA SendsNone ==
    ASSUME NEW p, NEW c, NEW e \in Talk!Views, Goes(call[c], e), ViewRight(c, e),
           e.outcome = "failed" => \/ call[c].outcome = "failed"
                                   \/ \E x \in Range(down[p]) : x.kind = "404" /\ x.call = c,
           call[c].callee = "idle" /\ e.callee # "idle" => p = call[c].to
    PROVE  Step(p, c, e, << >>)
<1>1. << >> \in Seq(Talk!Datagrams) /\ Range(<< >>) = {}
  BY NoneSent
<1> QED
  BY <1>1 DEF Step

LEMMA Stays ==
    ASSUME TalkInv, NEW p, NEW c \in Calls
    PROVE  Step(p, c, call[c], << >>)
<1>1. call[c] \in Talk!Views /\ Goes(call[c], call[c]) /\ ViewRight(c, call[c])
  BY DEF TalkInv, Talk!TypeOK, Goes
<1> PICK d : d = call[c]
  OBVIOUS
<1> QED
  BY <1>1, SendsNone

(* What changes in a call when its callee responds, or its caller hears how it went. *)
Responds(d, callee, last) == [d EXCEPT !.callee = callee, !.last = last]
LEMMA CalleeChanges ==
    ASSUME NEW d \in Talk!Views, NEW x \in {"ringing", "up", "over", "bye"},
           NEW y \in {"180", "200", "486", "487", "603"},
           NEW e, e = Responds(d, x, y)
    PROVE  /\ e \in Talk!Views /\ e.from = d.from /\ e.to = d.to /\ e.caller = d.caller
           /\ e.callee = x /\ e.last = y /\ e.outcome = d.outcome
  BY DEF Talk!Views, Responds

Hears(d, caller, outcome) == [d EXCEPT !.caller = caller, !.outcome = outcome]
LEMMA CallerChanges ==
    ASSUME NEW d \in Talk!Views, NEW x \in {"up", "over", "bye"},
           NEW y \in {"completed", "failed", "cancelled", "declined"},
           NEW e, e = Hears(d, x, y)
    PROVE  /\ e \in Talk!Views /\ e.from = d.from /\ e.to = d.to /\ e.caller = x
           /\ e.callee = d.callee /\ e.last = d.last /\ e.outcome = y
  BY DEF Talk!Views, Hears

LEMMA Listed ==
    ASSUME NEW x, NEW S
    PROVE  \E allow \in BOOLEAN : allow = (x \in S)
<1>1. CASE x \in S
  <2>1. TRUE = (x \in S)
    BY <1>1
  <2> QED
    BY <2>1
<1>2. CASE x \notin S
  <2>1. FALSE = (x \in S)
    BY <1>2
  <2> QED
    BY <2>1
<1> QED
  BY <1>1, <1>2

(* What the caller makes of a datagram. *)
LEMMA CallerTook ==
    ASSUME TalkInv, NEW p \in Phones, NEW m \in Range(down[p]), p = call[m.call].from
    PROVE  LET took == Talk!CallerTakes(m.call, m) IN Step(p, m.call, took[1], took[2])
<1> PICK c : c = m.call
  OBVIOUS
<1> PICK took : took = Talk!CallerTakes(c, m)
  OBVIOUS
<1> SUFFICES Step(p, c, took[1], took[2])
  OBVIOUS
<1>1. m \in Talk!Datagrams /\ Passed(m) /\ c \in Calls
  BY DEF TalkInv, Passed, Sound, Talk!Datagrams
<1> PICK d \in Talk!Views : d = call[c]
  BY <1>1 DEF TalkInv, Talk!TypeOK
<1>2. d.caller # "idle" /\ Known(<<d.from, 1, c>>) /\ ViewRight(c, d) /\ Step(p, c, d, << >>)
  BY <1>1, Stays DEF Passed, Sound, InviteKey, TalkInv
<1>3. MaySend(p, Talk!Ack(c)) /\ (d.callee # "idle" => MaySend(p, Talk!CallerBye(c)))
  BY <1>1, <1>2, OwnRequests
<1>4. CASE m.kind = "180"
  <2>1. took = <<IF d.caller = "calling" THEN [d EXCEPT !.caller = "proceeding"] ELSE d, << >>>>
    BY <1>4 DEF Talk!CallerTakes, Talk!Final
  <2>2. CASE d.caller = "calling"
    <3>1. PICK e : e = [d EXCEPT !.caller = "proceeding"]
      OBVIOUS
    <3>2. e \in Talk!Views /\ Goes(d, e) /\ ViewRight(c, e) /\ e.outcome = d.outcome
          /\ e.callee = d.callee
      BY <1>2, <2>2, <3>1 DEF Talk!Views, Goes, ViewRight
    <3>3. Step(p, c, e, << >>)
      BY <3>2, SendsNone
    <3> QED
      BY <2>1, <2>2, <3>1, <3>3
  <2> QED
    BY <1>2, <2>1, <2>2
<1>5. CASE m.kind = "200" /\ m.of = "INVITE"
  <2>1. d.callee # "idle"
    BY <1>1, <1>5 DEF Passed, Sound
  <2>2. took = IF d.caller \notin {"calling", "proceeding"} THEN <<d, <<Talk!Ack(c)>>>>
               ELSE IF d.cancelled
               THEN <<Hears(d, "bye", "completed"),
                      <<Talk!Ack(c), Talk!CallerBye(c)>>>>
               ELSE <<Hears(d, "up", "completed"), <<Talk!Ack(c)>>>>
    BY <1>5 DEF Talk!CallerTakes, Talk!Final, Hears
  <2>3. ASSUME NEW s \in {"bye", "up"}
        PROVE  Step(p, c, Hears(d, s, "completed"), << >>)
    <3>1. PICK e : e = Hears(d, s, "completed")
      OBVIOUS
    <3>2. /\ e \in Talk!Views /\ e.from = d.from /\ e.to = d.to /\ e.caller = s
          /\ e.callee = d.callee /\ e.last = d.last /\ e.outcome = "completed"
      BY <3>1, CallerChanges
    <3>3. Goes(d, e) /\ ViewRight(c, e)
      BY <1>2, <2>1, <3>2 DEF Goes, ViewRight
    <3> QED
      BY <3>1, <3>2, <3>3, SendsNone
  <2>4. CASE d.caller \notin {"calling", "proceeding"}
    BY <1>2, <1>3, <2>2, <2>4, SendsOne
  <2>5. CASE d.caller \in {"calling", "proceeding"} /\ d.cancelled
    BY <1>3, <2>1, <2>2, <2>3, <2>5, SendsTwo
  <2>6. CASE d.caller \in {"calling", "proceeding"} /\ ~d.cancelled
    BY <1>3, <2>2, <2>3, <2>6, SendsOne
  <2> QED
    BY <2>4, <2>5, <2>6
<1>6. CASE m.kind \in DOMAIN Talk!Final
  <2>1. /\ m.kind \in {"404", "487", "603"}
        /\ Talk!Final[m.kind] \in {"failed", "cancelled", "declined"}
        /\ Talk!Final[m.kind] = "failed" => m.kind = "404"
    BY <1>6 DEF Talk!Final
  <2>2. PICK o \in {"failed", "cancelled", "declined"} : o = Talk!Final[m.kind]
    BY <2>1
  <2>3. took = <<IF d.caller \notin {"calling", "proceeding"} THEN d
                 ELSE Hears(d, "over", o), <<Talk!Ack(c)>>>>
    BY <1>6, <2>1, <2>2 DEF Talk!CallerTakes, Hears
  <2>4. PICK e : e = Hears(d, "over", o)
    OBVIOUS
  <2>5. /\ e \in Talk!Views /\ e.from = d.from /\ e.to = d.to /\ e.caller = "over"
        /\ e.callee = d.callee /\ e.last = d.last /\ e.outcome = o
    BY <2>4, CallerChanges
  <2>6. Goes(d, e) /\ ViewRight(c, e)
    BY <1>2, <2>5 DEF Goes, ViewRight
  <2>7. Step(p, c, e, << >>)
    BY <2>1, <2>2, <2>5, <2>6, SendsNone
  <2> QED
    BY <1>2, <1>3, <2>3, <2>4, <2>7, SendsOne
<1>7. CASE m.kind = "200" /\ m.of = "BYE"
  <2>1. took = <<[d EXCEPT !.caller = "over"], << >>>>
    BY <1>7 DEF Talk!CallerTakes, Talk!Final
  <2>2. PICK e : e = [d EXCEPT !.caller = "over"]
    OBVIOUS
  <2>3. e \in Talk!Views /\ Goes(d, e) /\ ViewRight(c, e) /\ e.outcome = d.outcome
        /\ e.callee = d.callee
    BY <1>2, <2>2 DEF Talk!Views, Goes, ViewRight
  <2>4. Step(p, c, e, << >>)
    BY <2>3, SendsNone
  <2> QED
    BY <2>1, <2>2, <2>4
<1>8. CASE m.kind = "BYE"
  <2>1. PICK allow \in BOOLEAN : allow = (d.from \in Listing)
    BY Listed
  <2>2. PICK e : e = [d EXCEPT !.caller = IF @ = "up" THEN "over" ELSE @]
    OBVIOUS
  <2>3. took = <<e, <<Talk!Status("200", m, allow)>>>>
    BY <1>8, <2>1, <2>2 DEF Talk!CallerTakes, Talk!Final
  <2>4. e \in Talk!Views /\ Goes(d, e) /\ ViewRight(c, e) /\ e.outcome = d.outcome
        /\ e.callee = d.callee
    BY <1>2, <2>2 DEF Talk!Views, Goes, ViewRight
  <2>5. Talk!IsRequest(m) /\ "200" \in Talk!Statuses \ {"404"}
    BY <1>8 DEF Talk!IsRequest, Talk!Methods, Talk!Statuses
  <2>6. MaySend(p, Talk!Status("200", m, allow))
    BY <1>8, <2>5, Reply
  <2> QED
    BY <2>3, <2>4, <2>6, SendsNone, SendsOne
<1>9. CASE /\ m.kind # "180" /\ ~(m.kind = "200" /\ m.of = "INVITE") /\ m.kind \notin DOMAIN Talk!Final
           /\ ~(m.kind = "200" /\ m.of = "BYE") /\ m.kind # "BYE"
  <2>1. took = <<d, << >>>>
    BY <1>9 DEF Talk!CallerTakes
  <2> QED
    BY <1>2, <2>1
<1> QED
  BY <1>4, <1>5, <1>6, <1>7, <1>8, <1>9

(* What the callee makes of one. *)
LEMMA CalleeTook ==
    ASSUME TalkInv, NEW p \in Phones, NEW m \in Range(down[p]), p = call[m.call].to
    PROVE  LET took == Talk!CalleeTakes(m.call, m) IN Step(p, m.call, took[1], took[2])
<1> PICK c : c = m.call
  OBVIOUS
<1> PICK took : took = Talk!CalleeTakes(c, m)
  OBVIOUS
<1> SUFFICES Step(p, c, took[1], took[2])
  OBVIOUS
<1>1. m \in Talk!Datagrams /\ Passed(m) /\ c \in Calls
  BY DEF TalkInv, Passed, Sound, Talk!Datagrams
<1> PICK d \in Talk!Views : d = call[c]
  BY <1>1 DEF TalkInv, Talk!TypeOK
<1>2. d.caller # "idle" /\ Known(<<d.from, 1, c>>) /\ ViewRight(c, d) /\ Step(p, c, d, << >>)
  BY <1>1, Stays DEF Passed, Sound, InviteKey, TalkInv
<1> PICK allow \in BOOLEAN : allow = (d.to \in Listing)
  BY Listed
<1>3. ASSUME NEW e, e \in Talk!Views, Goes(d, e), ViewRight(c, e), e.outcome = d.outcome
      PROVE  Step(p, c, e, << >>)
  BY <1>3, SendsNone
<1>4. CASE m.kind = "INVITE"
  <2>1. Talk!IsRequest(m) /\ "180" \in Talk!Statuses \ {"404"}
    BY <1>4 DEF Talk!IsRequest, Talk!Methods, Talk!Statuses
  <2>2. CASE d.callee = "idle"
    <3>1. PICK e : e = Responds(d, "ringing", "180")
      OBVIOUS
    <3>2. took = <<e, <<Talk!Status("180", m, FALSE)>>>>
      BY <1>4, <2>2, <3>1 DEF Talk!CalleeTakes, Responds
    <3>3. /\ e \in Talk!Views /\ e.from = d.from /\ e.to = d.to /\ e.caller = d.caller
          /\ e.callee = "ringing" /\ e.last = "180" /\ e.outcome = d.outcome
      BY <3>1, CalleeChanges
    <3>4. Goes(d, e) /\ ViewRight(c, e)
      BY <1>2, <2>2, <3>3 DEF Goes, ViewRight
    <3>5. MaySend(p, Talk!Status("180", m, FALSE))
      BY <2>1, Reply
    <3>6. Step(p, c, e, << >>)
      BY <1>3, <3>3, <3>4
    <3>7. Step(p, c, e, <<Talk!Status("180", m, FALSE)>>)
      BY <3>5, <3>6, SendsOne
    <3> QED
      BY <3>2, <3>7
  <2>3. CASE d.callee # "idle" /\ d.acked
    <3>1. took = <<d, << >>>>
      BY <1>4, <2>3 DEF Talk!CalleeTakes
    <3> QED
      BY <1>2, <3>1
  <2>4. CASE d.callee # "idle" /\ ~d.acked
    <3>1. PICK list \in BOOLEAN : list = (d.last = "200" /\ allow)
      OBVIOUS
    <3>2. took = <<d, <<Talk!Status(d.last, m, list)>>>>
      BY <1>4, <2>4, <3>1 DEF Talk!CalleeTakes
    <3>3. d.last \in Talk!Statuses \ {"404"}
      BY <1>2, <2>4 DEF ViewRight, Talk!Views, Talk!Statuses
    <3>4. MaySend(p, Talk!Status(d.last, m, list))
      BY <2>1, <2>4, <3>3, Reply
    <3> QED
      BY <1>2, <3>2, <3>4, SendsOne
  <2> QED
    BY <2>2, <2>3, <2>4
<1>5. CASE m.kind = "CANCEL"
  <2>1. Talk!IsRequest(m) /\ "200" \in Talk!Statuses \ {"404"} /\ "487" \in Talk!Statuses \ {"404"}
    BY <1>5 DEF Talk!IsRequest, Talk!Methods, Talk!Statuses
  <2>2. MaySend(p, Talk!Status("200", m, allow))
    BY <1>5, <2>1, Reply
  <2>3. CASE d.callee = "ringing"
    <3>1. PICK e : e = Responds(d, "over", "487")
      OBVIOUS
    <3>2. took = <<e, <<Talk!Status("200", m, allow), Talk!Status("487", Talk!Invite(c), FALSE)>>>>
      BY <1>5, <2>3, <3>1 DEF Talk!CalleeTakes, Responds
    <3>3. /\ e \in Talk!Views /\ e.from = d.from /\ e.to = d.to /\ e.caller = d.caller
          /\ e.callee = "over" /\ e.last = "487" /\ e.outcome = d.outcome
      BY <3>1, CalleeChanges
    <3>4. Goes(d, e) /\ ViewRight(c, e)
      BY <1>2, <2>3, <3>3 DEF Goes, ViewRight
    <3>5. MaySend(p, Talk!Status("487", Talk!Invite(c), FALSE))
      BY <1>1, <2>1, <2>3, InviteReply
    <3>6. Step(p, c, e, << >>)
      BY <1>3, <3>3, <3>4
    <3>7. Step(p, c, e, <<Talk!Status("200", m, allow), Talk!Status("487", Talk!Invite(c), FALSE)>>)
      BY <2>2, <3>5, <3>6, SendsTwo
    <3> QED
      BY <3>2, <3>7
  <2>4. CASE d.callee # "ringing"
    <3>1. took = <<d, <<Talk!Status("200", m, allow)>>>>
      BY <1>5, <2>4 DEF Talk!CalleeTakes
    <3> QED
      BY <1>2, <2>2, <3>1, SendsOne
  <2> QED
    BY <2>3, <2>4
<1>6. CASE m.kind = "ACK"
  <2>1. PICK e : e = [d EXCEPT !.acked = TRUE]
    OBVIOUS
  <2>2. took = <<e, << >>>>
    BY <1>6, <2>1 DEF Talk!CalleeTakes
  <2>3. e \in Talk!Views /\ Goes(d, e) /\ ViewRight(c, e) /\ e.outcome = d.outcome
    BY <1>2, <2>1 DEF Talk!Views, Goes, ViewRight
  <2> QED
    BY <1>3, <2>2, <2>3
<1>7. CASE m.kind = "BYE"
  <2>1. PICK e : e = [d EXCEPT !.callee = IF @ = "up" THEN "over" ELSE @]
    OBVIOUS
  <2>2. took = <<e, <<Talk!Status("200", m, allow)>>>>
    BY <1>7, <2>1 DEF Talk!CalleeTakes
  <2>3. e \in Talk!Views /\ Goes(d, e) /\ ViewRight(c, e) /\ e.outcome = d.outcome
    BY <1>2, <2>1 DEF Talk!Views, Goes, ViewRight
  <2>4. Talk!IsRequest(m) /\ "200" \in Talk!Statuses \ {"404"}
    BY <1>7 DEF Talk!IsRequest, Talk!Methods, Talk!Statuses
  <2>5. MaySend(p, Talk!Status("200", m, allow))
    BY <1>7, <2>4, Reply
  <2> QED
    BY <1>3, <2>2, <2>3, <2>5, SendsOne
<1>8. CASE m.kind = "200" /\ m.of = "BYE"
  <2>1. PICK e : e = [d EXCEPT !.callee = "over"]
    OBVIOUS
  <2>2. took = <<e, << >>>>
    BY <1>8, <2>1 DEF Talk!CalleeTakes
  <2>3. d.callee # "idle"
    BY <1>1, <1>8 DEF Passed, Sound
  <2>4. e \in Talk!Views /\ Goes(d, e) /\ ViewRight(c, e) /\ e.outcome = d.outcome
    BY <1>2, <2>1, <2>3 DEF Talk!Views, Goes, ViewRight
  <2> QED
    BY <1>3, <2>2, <2>4
<1>9. CASE /\ m.kind \notin {"INVITE", "CANCEL", "ACK", "BYE"}
           /\ ~(m.kind = "200" /\ m.of = "BYE")
  <2>1. took = <<d, << >>>>
    BY <1>9 DEF Talk!CalleeTakes
  <2> QED
    BY <1>2, <2>1
<1> QED
  BY <1>4, <1>5, <1>6, <1>7, <1>8, <1>9

LEMMA PhoneStep ==
    ASSUME WholeInv, Elsewhere, reachable' = reachable, NEW p \in Phones, Talk!Phone(p)
    PROVE  WholeInv'
<1>0. PICK i \in DOMAIN down[p] :
        LET m == down[p][i]
            took == IF p = call[m.call].from THEN Talk!CallerTakes(m.call, m)
                    ELSE IF p = call[m.call].to THEN Talk!CalleeTakes(m.call, m)
                    ELSE <<call[m.call], << >>>>
        IN /\ down' = [down EXCEPT ![p] = Talk!RemoveAt(@, i)]
           /\ call' = [call EXCEPT ![m.call] = took[1]]
           /\ up' = Talk!Sends(up, p, took[2])
           /\ UNCHANGED Talk!tables
  BY DEF Talk!Phone
<1> PICK m : m = down[p][i]
  OBVIOUS
<1> PICK c : c = m.call
  OBVIOUS
<1>a. PICK took : took = IF p = call[c].from THEN Talk!CallerTakes(c, m)
                       ELSE IF p = call[c].to THEN Talk!CalleeTakes(c, m)
                       ELSE <<call[c], << >>>>
  OBVIOUS
<1>1. /\ down' = [down EXCEPT ![p] = Talk!RemoveAt(@, i)]
      /\ call' = [call EXCEPT ![c] = took[1]]
      /\ up' = Talk!Sends(up, p, took[2])
      /\ UNCHANGED Talk!tables
  BY <1>0, <1>a
<1>2. m \in Range(down[p]) /\ TalkInv
  BY DEF Range, WholeInv
<1>3. c \in Calls /\ call[c].caller # "idle"
  BY <1>2 DEF TalkInv, Passed, Sound, Talk!Datagrams
<1>4. Step(p, c, took[1], took[2])
  <2>1. CASE p = call[c].from
    BY <1>2, <1>a, <2>1, CallerTook
  <2>2. CASE p # call[c].from /\ p = call[c].to
    BY <1>2, <1>a, <2>2, CalleeTook
  <2>3. CASE p # call[c].from /\ p # call[c].to
    BY <1>2, <1>3, <1>a, <2>3, Stays
  <2> QED
    BY <2>1, <2>2, <2>3
<1>5. Fewer
  <2>1. Talk!RemoveAt(down[p], i) = RemoveAt(down[p], i)
    BY DEF Talk!RemoveAt, RemoveAt
  <2>2. down \in [Phones -> Seq(Talk!Datagrams)]
    BY <1>2 DEF TalkInv, Talk!TypeOK
  <2>3. /\ RemoveAt(down[p], i) \in Seq(Talk!Datagrams)
        /\ Range(RemoveAt(down[p], i)) \subseteq Range(down[p])
    BY <2>2, RangeRemoveAt
  <2> QED
    BY <1>1, <2>1, <2>2, <2>3 DEF Fewer
<1>6. Quietly /\ Involved(p)
  BY <1>1, <1>2 DEF Quietly, Talk!tables, Involved
<1> PICK e : e = took[1]
  OBVIOUS
<1> PICK msgs : msgs = took[2]
  OBVIOUS
<1>7. /\ Step(p, c, e, msgs) /\ call' = [call EXCEPT ![c] = e]
      /\ up' = Talk!Sends(up, p, msgs)
  BY <1>1, <1>4
<1> QED
  BY <1>3, <1>5, <1>6, <1>7, StepInv

(* A phone of a call sends one datagram. *)
LEMMA SingleStep ==
    ASSUME WholeInv, Elsewhere, reachable' = reachable, Talk!Keeps,
           NEW p \in Phones, NEW c \in Calls, NEW e \in Talk!Views, Goes(call[c], e),
           ViewRight(c, e), e.outcome = call[c].outcome,
           call[c].callee = "idle" => e.callee = "idle",
           call[c].caller # "idle",
           p = call[c].from \/ (call[c].callee # "idle" /\ p = call[c].to),
           NEW m, MaySend(p, m), call' = [call EXCEPT ![c] = e], up' = Talk!Sends(up, p, <<m>>)
    PROVE  WholeInv'
<1>1. Step(p, c, e, << >>)
  BY SendsNone
<1>2. Step(p, c, e, <<m>>)
  BY <1>1, SendsOne
<1>3. Involved(p)
  BY DEF Involved
<1>4. Quietly /\ Fewer
  BY DEF Talk!Keeps, Talk!tables, Quietly, Fewer, WholeInv, TalkInv, Talk!TypeOK
<1> QED
  BY <1>2, <1>3, <1>4, StepInv

LEMMA RedialStep ==
    ASSUME WholeInv, Elsewhere, reachable' = reachable, NEW c \in Calls, Talk!Redial(c)
    PROVE  WholeInv'
<1> PICK d : d = call[c]
  OBVIOUS
<1>1. /\ d.caller = "calling" /\ call' = call /\ up' = Talk!Sends(up, d.from, <<Talk!Invite(c)>>)
      /\ UNCHANGED <<down, Talk!tables>>
  BY DEF Talk!Redial
<1>2. TalkInv /\ d \in Talk!Views /\ d.from \in Phones /\ d.to \in Phones
  BY <1>1 DEF WholeInv, TalkInv, Talk!TypeOK, ViewRight
<1>3. PICK m : m = Talk!Request("INVITE", c, d.from, d.to, 1)
  OBVIOUS
<1>4. /\ m.kind = "INVITE" /\ m.of = "INVITE" /\ m.call = c /\ m.from = d.from /\ m.uri = d.to
      /\ m.cseq = 1 /\ m \in Talk!Datagrams /\ Talk!IsRequest(m)
  BY <1>2, <1>3 DEF Talk!Request, Talk!Datagrams, Talk!Methods, Talk!Statuses, Talk!IsRequest
<1>5. MaySend(d.from, m)
  BY <1>1, <1>4 DEF MaySend, Sent, Sound, Sender, Key, InviteKey
<1>6. Step(d.from, c, d, <<m>>)
  BY <1>2, <1>5, Stays, SendsOne
<1>7. Quietly /\ Fewer /\ Involved(d.from)
  BY <1>1, <1>2 DEF Talk!tables, Quietly, Fewer, TalkInv, Talk!TypeOK, Involved
<1>8. call' = [call EXCEPT ![c] = d] /\ up' = Talk!Sends(up, d.from, <<m>>)
  BY <1>1, <1>2, <1>3 DEF TalkInv, Talk!TypeOK, Talk!Invite
<1>9. call[c].caller # "idle" /\ d.from \in Phones
  BY <1>1, <1>2
<1> PICK msgs : msgs = <<m>>
  OBVIOUS
<1> PICK p : p = d.from
  OBVIOUS
<1> QED
  BY <1>6, <1>7, <1>8, <1>9, StepInv

LEMMA GiveUpStep ==
    ASSUME WholeInv, Elsewhere, reachable' = reachable, NEW c \in Calls, Talk!GiveUp(c)
    PROVE  WholeInv'
<1> PICK d : d = call[c]
  OBVIOUS
<1> PICK e : e = [d EXCEPT !.cancelled = TRUE]
  OBVIOUS
<1>1. /\ d.caller = "proceeding" /\ Talk!Keeps
      /\ up' = Talk!Sends(up, d.from, <<Talk!Cancel(c)>>)
  BY DEF Talk!GiveUp
<1>2. TalkInv /\ d \in Talk!Views /\ ViewRight(c, d)
  BY DEF WholeInv, TalkInv, Talk!TypeOK
<1>3. call' = [call EXCEPT ![c] = e]
  BY <1>2 DEF Talk!GiveUp, TalkInv, Talk!TypeOK
<1>4. /\ e \in Talk!Views /\ e.outcome = d.outcome /\ e.callee = d.callee
      /\ Goes(d, e) /\ ViewRight(c, e)
  BY <1>2 DEF Talk!Views, Goes, ViewRight
<1>5. d.from \in Phones /\ Known(<<d.from, 1, c>>)
  BY <1>1, <1>2 DEF ViewRight
<1>6. MaySend(d.from, Talk!Cancel(c))
  BY <1>1, <1>2, <1>5, OwnRequests
<1> QED
  BY <1>1, <1>3, <1>4, <1>5, <1>6, SingleStep

LEMMA AnswerStep ==
    ASSUME WholeInv, Elsewhere, reachable' = reachable, NEW c \in Calls, Talk!Answer(c)
    PROVE  WholeInv'
<1> PICK d : d = call[c]
  OBVIOUS
<1> PICK e : e = Responds(d, "up", "200")
  OBVIOUS
<1> PICK allow \in BOOLEAN : allow = (d.to \in Listing)
  BY Listed
<1>1. /\ d.callee = "ringing" /\ Talk!Keeps
      /\ up' = Talk!Sends(up, d.to, <<Talk!Status("200", Talk!Invite(c), allow)>>)
  BY DEF Talk!Answer
<1>2. TalkInv /\ d \in Talk!Views /\ ViewRight(c, d)
  BY DEF WholeInv, TalkInv, Talk!TypeOK
<1>3. call' = [call EXCEPT ![c] = e]
  BY <1>2 DEF Talk!Answer, TalkInv, Talk!TypeOK, Responds
<1>4. /\ e \in Talk!Views /\ e.from = d.from /\ e.to = d.to /\ e.caller = d.caller
      /\ e.callee = "up" /\ e.last = "200" /\ e.outcome = d.outcome
  BY <1>2, CalleeChanges
<1>5. Goes(d, e) /\ ViewRight(c, e) /\ d.caller # "idle" /\ d.to \in Phones
  BY <1>1, <1>2, <1>4 DEF Goes, ViewRight
<1>6. MaySend(d.to, Talk!Status("200", Talk!Invite(c), allow))
  <2>1. "200" \in Talk!Statuses \ {"404"}
    BY DEF Talk!Statuses
  <2> QED
    BY <1>1, <1>2, <2>1, InviteReply
<1> QED
  BY <1>1, <1>3, <1>4, <1>5, <1>6, SingleStep

LEMMA RefuseStep ==
    ASSUME WholeInv, Elsewhere, reachable' = reachable, NEW c \in Calls, Talk!Refuse(c)
    PROVE  WholeInv'
<1> PICK d : d = call[c]
  OBVIOUS
<1> PICK kind \in Refusals :
        /\ call' = [call EXCEPT ![c].callee = "over", ![c].last = kind]
        /\ up' = Talk!Sends(up, d.to, <<Talk!Status(kind, Talk!Invite(c), FALSE)>>)
  BY DEF Talk!Refuse
<1> PICK e : e = Responds(d, "over", kind)
  OBVIOUS
<1>1. d.callee = "ringing" /\ Talk!Keeps
  BY DEF Talk!Refuse
<1>2. TalkInv /\ d \in Talk!Views /\ ViewRight(c, d)
  BY DEF WholeInv, TalkInv, Talk!TypeOK
<1>3. call' = [call EXCEPT ![c] = e]
  BY <1>2 DEF TalkInv, Talk!TypeOK, Responds
<1>4. kind \in {"603", "486"} /\ kind \in Talk!Statuses \ {"404"}
  BY CallsAssumption DEF Talk!Statuses
<1>5. /\ e \in Talk!Views /\ e.from = d.from /\ e.to = d.to /\ e.caller = d.caller
      /\ e.callee = "over" /\ e.last = kind /\ e.outcome = d.outcome
  BY <1>2, <1>4, CalleeChanges
<1>6. Goes(d, e) /\ ViewRight(c, e) /\ d.caller # "idle" /\ d.to \in Phones
  BY <1>1, <1>2, <1>4, <1>5 DEF Goes, ViewRight
<1>7. MaySend(d.to, Talk!Status(kind, Talk!Invite(c), FALSE))
  BY <1>1, <1>2, <1>4, InviteReply
<1> QED
  BY <1>1, <1>3, <1>5, <1>6, <1>7, SingleStep

LEMMA HangUpStep ==
    ASSUME WholeInv, Elsewhere, reachable' = reachable, NEW c \in Calls, Talk!HangUp(c)
    PROVE  WholeInv'
<1> PICK d : d = call[c]
  OBVIOUS
<1>1. TalkInv /\ d \in Talk!Views /\ ViewRight(c, d) /\ Talk!Keeps
  BY DEF WholeInv, TalkInv, Talk!TypeOK, Talk!HangUp
<1>2. CASE /\ d.caller = "up" /\ call' = [call EXCEPT ![c].caller = "bye"]
           /\ up' = Talk!Sends(up, d.from, <<Talk!CallerBye(c)>>)
  <2>1. PICK e : e = [d EXCEPT !.caller = "bye"]
    OBVIOUS
  <2>2. call' = [call EXCEPT ![c] = e]
    BY <1>1, <1>2, <2>1 DEF TalkInv, Talk!TypeOK
  <2>3. d.callee # "idle" /\ d.from \in Phones /\ Known(<<d.from, 1, c>>)
    BY <1>1, <1>2 DEF ViewRight
  <2>4. /\ e \in Talk!Views /\ e.outcome = d.outcome /\ e.callee = d.callee
        /\ Goes(d, e) /\ ViewRight(c, e)
    BY <1>1, <1>2, <2>1 DEF Talk!Views, Goes, ViewRight
  <2>5. MaySend(d.from, Talk!CallerBye(c))
    BY <1>1, <1>2, <2>3, OwnRequests
  <2> QED
    BY <1>1, <1>2, <2>2, <2>3, <2>4, <2>5, SingleStep
<1>3. CASE /\ d.callee = "up" /\ call' = [call EXCEPT ![c].callee = "bye"]
           /\ up' = Talk!Sends(up, d.to, <<Talk!CalleeBye(c)>>)
  <2>1. PICK e : e = [d EXCEPT !.callee = "bye"]
    OBVIOUS
  <2>2. call' = [call EXCEPT ![c] = e]
    BY <1>1, <1>3, <2>1 DEF TalkInv, Talk!TypeOK
  <2>3. d.caller # "idle" /\ d.to \in Phones /\ Known(<<d.from, 1, c>>)
    BY <1>1, <1>3 DEF ViewRight
  <2>4. /\ e \in Talk!Views /\ e.outcome = d.outcome
        /\ Goes(d, e) /\ ViewRight(c, e)
    BY <1>1, <1>3, <2>1 DEF Talk!Views, Goes, ViewRight
  <2>5. MaySend(d.to, Talk!CalleeBye(c))
    BY <1>1, <1>3, <2>3, OwnRequests
  <2> QED
    BY <1>1, <1>3, <2>2, <2>3, <2>4, <2>5, SingleStep
<1> QED
  BY <1>2, <1>3 DEF Talk!HangUp

Dials(d, p, q) == [d EXCEPT !.from = p, !.to = q, !.caller = "calling"]
LEMMA DialChanges ==
    ASSUME NEW d \in Talk!Views, NEW p \in Phones, NEW q \in Phones, NEW e, e = Dials(d, p, q)
    PROVE  /\ e \in Talk!Views /\ e.from = p /\ e.to = q /\ e.caller = "calling"
           /\ e.callee = d.callee /\ e.outcome = d.outcome
  BY DEF Talk!Views, Dials

(* p dials q.  Only a phone that was told it is registered does. *)
LEMMA DialStep ==
    ASSUME WholeInv, Dial
    PROVE  WholeInv'
<1>1. Elsewhere /\ registered_users' = registered_users /\ gone' = gone /\ former' = former
      /\ phone' = phone
  BY DEF Dial, Elsewhere, registration, vars
<1> PICK c \in Calls, p \in Phones, q \in Phones :
        /\ phone[p].reg
        /\ Talk!Dial(c, p, q)
        /\ reachable' = IF Settled(q) /\ phone[q].reg THEN reachable \cup {c} ELSE reachable
  BY DEF Dial
<1> PICK d \in Talk!Views : d = call[c]
  BY DEF WholeInv, TalkInv, Talk!TypeOK
<1> PICK e : e = Dials(d, p, q)
  OBVIOUS
<1> PICK m : m = Talk!Request("INVITE", c, p, q, 1)
  OBVIOUS
<1>2. /\ d.caller = "idle" /\ UNCHANGED <<down, Talk!tables>> /\ up' = Talk!Sends(up, p, <<m>>)
  BY DEF Talk!Dial, Talk!Keeps
<1>3. call' = [call EXCEPT ![c] = e]
  BY DEF Talk!Dial, WholeInv, TalkInv, Talk!TypeOK, Dials
<1>4. /\ call'[c] = e /\ \A b \in Calls \ {c} : call'[b] = call[b]
  BY <1>3 DEF WholeInv, TalkInv, Talk!TypeOK
<1>5. e \in Talk!Views /\ e.from = p /\ e.to = q /\ e.caller = "calling" /\ e.callee = d.callee
      /\ e.outcome = d.outcome
  BY DialChanges
<1>6. ViewRight(c, d) /\ d.callee = "idle" /\ d.outcome = "none"
  BY <1>2 DEF WholeInv, TalkInv, ViewRight
<1>7. Goes(d, e) /\ ViewRight(c, e)
  BY <1>2, <1>5, <1>6 DEF Goes, ViewRight
<1>8. /\ m.kind = "INVITE" /\ m.of = "INVITE" /\ m.call = c /\ m.from = p /\ m.uri = q
      /\ m.cseq = 1 /\ m \in Talk!Datagrams /\ Talk!IsRequest(m)
  BY DEF Talk!Request, Talk!Datagrams, Talk!Methods, Talk!Statuses, Talk!IsRequest
<1>9. Sent(m)' /\ Sender(m) = p
  <2>1. Sound(m)'
    BY <1>4, <1>5, <1>8 DEF Sound
  <2>2. Key(m) = InviteKey(c)' /\ call'[c].to = q
    BY <1>4, <1>5, <1>8 DEF Key, InviteKey
  <2> QED
    BY <1>8, <2>1, <2>2 DEF Sent, Sender, Key
<1>10. <<m>> \in Seq(Talk!Datagrams) /\ Range(<<m>>) = {m}
  BY <1>8, OneSent
<1>11. Quietly /\ Fewer
  BY <1>2 DEF Quietly, Fewer, Talk!tables, WholeInv, TalkInv, Talk!TypeOK
<1>12. TalkInv'
  BY <1>3, <1>5, <1>7, <1>2, <1>9, <1>10, <1>11, TalkStep DEF WholeInv
<1>13. OwnInv'
  BY <1>1, <1>2, <1>9, <1>10, <1>11, OwnStep DEF WholeInv
<1>14. RegistrationInv'
  BY <1>1, PlacesKept DEF WholeInv
<1>15. \A r \in Phones : Settled(r) /\ phone[r].reg => r \notin gone /\ registered_users[r] # None
  BY DEF Settled, WholeInv, RegistrationInv, PlacesRight
<1>16. ReachInv'
  <2>1. ASSUME NEW b \in reachable'
        PROVE  /\ b \in Calls /\ call'[b].caller # "idle" /\ call'[b].outcome # "failed"
               /\ call'[b].to \notin gone' /\ registered_users'[call'[b].to] # None
    <3>1. CASE b = c
      <4>1. c \notin reachable
        BY <1>2 DEF WholeInv, ReachInv
      <4> QED
        BY <1>1, <1>4, <1>5, <1>6, <1>15, <2>1, <3>1, <4>1
    <3>2. CASE b # c
      BY <1>1, <1>4, <2>1, <3>2 DEF WholeInv, ReachInv
    <3> QED
      BY <3>1, <3>2
  <2>2. ASSUME NEW r \in Phones, NEW x \in Range(down'[r]), x.kind = "404"
        PROVE  x.call \notin reachable'
    <3>1. x \in Range(down[r]) /\ x.call # c
      BY <1>2, <2>2 DEF WholeInv, TalkInv, Passed, Sound
    <3> QED
      BY <2>2, <3>1 DEF WholeInv, ReachInv
  <2> QED
    BY <2>1, <2>2 DEF ReachInv
<1>17. InvolvedInv'
  <2> SUFFICES ASSUME NEW r \in Phones, Involved(r)', Settled(r)'
               PROVE  registered_users'[r] # None
    BY DEF InvolvedInv
  <2>1. Settled(r)
    BY <1>1 DEF Settled
  <2>2. Involved(r) \/ r = p
    <3>1. Range(up'[r]) = {} \/ r = p \/ Range(up[r]) # {}
      BY <1>2, <1>10, Links DEF WholeInv, TalkInv
    <3>2. down' = down
      BY <1>2
    <3>3. ASSUME NEW b \in Calls, \/ call'[b].caller # "idle" /\ call'[b].from = r
                                  \/ call'[b].callee # "idle" /\ call'[b].to = r
          PROVE  Involved(r) \/ r = p
      <4>1. CASE b = c
        BY <1>4, <1>5, <1>6, <3>3, <4>1
      <4>2. CASE b # c
        BY <1>4, <3>3, <4>2 DEF Involved
      <4> QED
        BY <4>1, <4>2
    <3> QED
      BY <3>1, <3>2, <3>3 DEF Involved
  <2>3. registered_users[r] # None
    BY <1>15, <2>1, <2>2 DEF WholeInv, InvolvedInv
  <2> QED
    BY <1>1, <2>3
<1> QED
  BY <1>12, <1>13, <1>14, <1>16, <1>17 DEF WholeInv

LEMMA ConverseStep ==
    ASSUME WholeInv, Converse
    PROVE  WholeInv'
<1>1. Elsewhere /\ reachable' = reachable
  BY DEF Converse, Elsewhere, history
<1> QED
  BY <1>1, PhoneStep, RedialStep, GiveUpStep, AnswerStep, RefuseStep, HangUpStep DEF Converse

-----------------------------------------------------------------------------
(* The whole proxy: its other half passes on what phones say. *)

(* Who has a row with q's address was there before it, unless it is q. *)
LEMMA Whose ==
    ASSUME RegistrationInv, NEW q \in Phones, NEW e \in Phones,
           registered_users[e] = phone[q].at
    PROVE  /\ registered_users[e] # None
           /\ former[q] = {} => e = q
           /\ AddressesOwn => e = q
<1>1. phone[q].at # None
  BY NoneAssumption DEF RegistrationInv, TypeOK
<1>2. e = q \/ phone[q].at \in former[e]
  BY <1>1 DEF RegistrationInv, PlacesRight
<1> QED
  BY <1>1, <1>2 DEF RegistrationInv, PlacesRight, AddressesOwn

(* Every datagram that is not dropped has a transaction. *)
LEMMA HasTransaction ==
    ASSUME TalkInv, NEW p \in Phones, NEW m \in Range(up[p]),
           Talk!IsRequest(m) \/ Talk!is_message_a_status(m)
    PROVE  /\ Talk!TransactionId(m) # 0
           /\ ~Talk!CreatesTransaction(m) => Known(Key(m))
<1>1. Sent(m)
  BY DEF TalkInv
<1>2. sip_transactions \in Seq(Talk!Rows)
  BY DEF TalkInv, Talk!TypeOK
<1>3. DOMAIN sip_transactions = 1 .. Len(sip_transactions) /\ Len(sip_transactions) \in Nat
  BY <1>2, LenProperties
<1>4. CASE Talk!CreatesTransaction(m)
  BY <1>3, <1>4 DEF Talk!TransactionId
<1>5. CASE ~Talk!CreatesTransaction(m)
  <2>1. Known(Key(m))
    BY <1>1, <1>5 DEF Sent, Talk!CreatesTransaction, Talk!IsRequest
  <2>2. PICK found : found = {t \in DOMAIN sip_transactions :
                                sip_transactions[t] = <<m.from, m.cseq, m.call>>}
    OBVIOUS
  <2>3. found # {} /\ found \subseteq Nat \ {0}
    BY <1>3, <2>1, <2>2 DEF Known, Key, Range
  <2>4. Talk!Min(found) = Min(found) /\ Min(found) \in found
    BY <2>3, MinIsLeast DEF Talk!Min, Min
  <2>5. Talk!TransactionId(m) = Talk!Min(found)
    BY <1>5, <2>2, <2>3 DEF Talk!TransactionId, Talk!find_sip_transaction
  <2> QED
    BY <1>5, <2>1, <2>3, <2>4, <2>5
<1> QED
  BY <1>4, <1>5

(* A phone that stayed is found at its address. *)
LEMMA FailsUnsettled ==
    ASSUME WholeInv, NEW p \in Phones, NEW m \in Range(up[p]),
           Talk!IsRequest(m) \/ Talk!is_message_a_status(m), Talk!Fails(p, m)
    PROVE  ~Settled(p)
<1>1. Talk!find_extension_by_location(phone[p].at) = {}
  BY HasTransaction DEF Talk!Fails, WholeInv
<1>2. registered_users[p] # phone[p].at
  BY <1>1 DEF Talk!find_extension_by_location
<1>3. Involved(p)
  BY DEF Involved
<1> QED
  BY <1>2, <1>3 DEF WholeInv, InvolvedInv, RegistrationInv, PlacesRight, Settled

(* The transactions afterwards. *)
LEMMA Transacts ==
    ASSUME TalkInv, NEW p \in Phones, NEW m \in Range(up[p]),
           Talk!IsRequest(m) \/ Talk!is_message_a_status(m),
           sip_transactions' = Talk!Transactions(m)
    PROVE  /\ sip_transactions' \in Seq(Talk!Rows)
           /\ Range(sip_transactions) \subseteq Range(sip_transactions')
           /\ Known(Key(m))'
           /\ Known(InviteKey(m.call)) \/ Key(m) = InviteKey(m.call)
<1>1. Sent(m) /\ m \in Talk!Datagrams
  BY DEF TalkInv, Sent, Sound
<1>2. sip_transactions \in Seq(Talk!Rows) /\ Key(m) \in Talk!Rows
  BY <1>1 DEF TalkInv, Talk!TypeOK, Talk!Datagrams, Key, Talk!Rows
<1>3. CASE Talk!CreatesTransaction(m)
  <2>1. sip_transactions' = Append(sip_transactions, Key(m))
    BY <1>3 DEF Talk!Transactions, Key
  <2>2. /\ sip_transactions' \in Seq(Talk!Rows)
        /\ Range(sip_transactions') = Range(sip_transactions) \cup {Key(m)}
    BY <1>2, <2>1, RangeAppend
  <2>3. m.kind = "INVITE" => Key(m) = InviteKey(m.call)
    BY <1>1 DEF Sent, Talk!IsRequest, Talk!Methods
  <2>4. Known(Key(m))'
    BY <2>2 DEF Known, Key
  <2> QED
    BY <1>1, <2>2, <2>3, <2>4 DEF Sent
<1>4. CASE ~Talk!CreatesTransaction(m)
  <2>1. sip_transactions' = sip_transactions /\ m.kind # "INVITE"
    BY <1>4 DEF Talk!Transactions, Talk!CreatesTransaction
  <2>2. Known(Key(m))
    BY <1>4, HasTransaction
  <2>3. Known(Key(m))'
    BY <2>1, <2>2 DEF Known, Key
  <2> QED
    BY <1>1, <1>2, <2>1, <2>3 DEF Sent
<1> QED
  BY <1>3, <1>4

(* What is passed on, and what is filed. *)
NotThere(m) == Talk!Status("404", m, FALSE)
Missing(m) == m.kind = "INVITE" /\ registered_users[m.uri] = None
Delivers(p, m) ==
    /\ down' \in [Phones -> Seq(Talk!Datagrams)]
    /\ \A q \in Phones : \A x \in Range(down'[q]) :
        \/ x \in Range(down[q])
        \/ x = m /\ registered_users[Receiver(m)] = phone[q].at
        \/ x = NotThere(m) /\ q = p /\ Missing(m)
Files(p, m) ==
    \A a \in sip_messages' :
        \/ a \in sip_messages
        \/ /\ a.msg = m \/ (a.msg = NotThere(m) /\ Missing(m))
           /\ a.dst = "PS" => /\ a.msg = m
                              /\ a.src \in Phones /\ registered_users[a.src] = phone[p].at
Calling(c) == DOMAIN sip_calls' \subseteq DOMAIN sip_calls \cup {c}

LEMMA Columns ==
    ASSUME NEW src, NEW dst, NEW m, NEW tid
    PROVE  LET a == Talk!Archived(src, dst, m, tid)
           IN a.src = src /\ a.dst = dst /\ a.msg = m
  BY DEF Talk!Archived

LEMMA NotThereType ==
    ASSUME NEW m \in Talk!Datagrams
    PROVE  /\ NotThere(m) \in Talk!Datagrams /\ NotThere(m).kind = "404"
           /\ NotThere(m).of = m.of /\ NotThere(m).call = m.call /\ NotThere(m).from = m.from
           /\ NotThere(m).cseq = m.cseq
  BY DEF NotThere, Talk!Status, Talk!Datagrams, Talk!Statuses

LEMMA Forwards ==
    ASSUME TalkInv, NEW p \in Phones, NEW m \in Talk!Datagrams,
           Talk!Forward(p, m, Receiver(m))
    PROVE  Delivers(p, m) /\ Files(p, m)
<1> PICK dst \in Phones : dst = Receiver(m)
  BY DEF Receiver, Talk!Datagrams
<1>1. PICK tid : tid = Talk!TransactionId(m)
  OBVIOUS
<1>2. PICK src \in Talk!find_extension_by_location(phone[p].at) :
        sip_messages' = sip_messages \cup {Talk!Archived(src, "PS", m, tid)}
            \cup (IF Talk!find_registered_client(dst)
                  THEN {Talk!Archived("PS", dst, m, tid)} ELSE {})
  BY <1>1 DEF Talk!Forward
<1>3. src \in Phones /\ registered_users[src] = phone[p].at
  BY <1>2 DEF Talk!find_extension_by_location
<1>4. Files(p, m)
  <2> SUFFICES ASSUME NEW a \in sip_messages', a \notin sip_messages
               PROVE  /\ a.msg = m
                      /\ a.dst = "PS" => a.src = src
    BY <1>3 DEF Files
  <2>1. a = Talk!Archived(src, "PS", m, tid) \/ a = Talk!Archived("PS", dst, m, tid)
    BY <1>2
  <2> QED
    BY <2>1, Columns, NamesAssumption
<1>5. Delivers(p, m)
  <2>1. \A q \in Phones : down[q] \in Seq(Talk!Datagrams)
    BY DEF TalkInv, Talk!TypeOK
  <2>2. \A q \in Phones : /\ Append(down[q], m) \in Seq(Talk!Datagrams)
                          /\ Range(Append(down[q], m)) = Range(down[q]) \cup {m}
    BY <2>1, RangeAppend
  <2>3. down' = [q \in Phones |-> IF phone[q].at = registered_users[dst]
                                  THEN Append(down[q], m) ELSE down[q]]
    BY DEF Talk!Forward
  <2> QED
    BY <2>1, <2>2, <2>3 DEF Delivers
<1> QED
  BY <1>4, <1>5

LEMMA InviteTaken ==
    ASSUME TalkInv, NEW p \in Phones, NEW m \in Talk!Datagrams,
           Talk!process_invitation_request(p, m)
    PROVE  /\ sip_transactions' = Talk!Transactions(m) /\ m.kind = "INVITE"
           /\ Delivers(p, m) /\ Files(p, m) /\ Calling(m.call)
<1>1. /\ m.kind = "INVITE" /\ Receiver(m) = m.uri
      /\ sip_transactions' = Talk!Transactions(m)
  BY DEF Talk!process_invitation_request, Receiver, Talk!IsRequest, Talk!Methods
<1>2. DOMAIN Talk!create_new_call(sip_calls, m.call) = DOMAIN sip_calls \cup {m.call}
  BY DEF Talk!create_new_call
<1>3. CASE /\ Talk!find_registered_client(m.uri)
           /\ sip_calls' = Talk!create_new_call(sip_calls, m.call)
           /\ Talk!Forward(p, m, m.uri)
  BY <1>1, <1>2, <1>3, Forwards DEF Calling
<1>4. CASE Talk!NotFound(p, m)
  <2>1. PICK n : n = NotThere(m)
    OBVIOUS
  <2>2. n \in Talk!Datagrams
    BY <2>1, NotThereType
  <2>3. PICK tid : tid = Talk!TransactionId(m)
    OBVIOUS
  <2>4. /\ \E src \in Talk!find_extension_by_location(phone[p].at) :
                sip_messages' = sip_messages \cup {Talk!Archived(src, "PS", m, tid),
                                                   Talk!Archived("PS", src, n, tid)}
        /\ down' = [down EXCEPT ![p] = Append(@, n)]
        /\ ~Talk!find_registered_client(m.uri)
        /\ sip_calls' = Talk!update_call_state(Talk!create_new_call(sip_calls, m.call),
                                               m.call, "failed")
    BY <1>4, <2>1, <2>3 DEF Talk!NotFound, NotThere
  <2>5. PICK src \in Talk!find_extension_by_location(phone[p].at) :
                sip_messages' = sip_messages \cup {Talk!Archived(src, "PS", m, tid),
                                                   Talk!Archived("PS", src, n, tid)}
    BY <2>4
  <2>6. src \in Phones /\ registered_users[src] = phone[p].at
    BY <2>5 DEF Talk!find_extension_by_location
  <2>7. Missing(m)
    BY <1>1, <2>4 DEF Talk!find_registered_client, Missing
  <2>8. Files(p, m)
    <3> SUFFICES ASSUME NEW a \in sip_messages', a \notin sip_messages
                 PROVE  /\ a.msg = m \/ a.msg = n
                        /\ a.dst = "PS" => a.msg = m /\ a.src = src
      BY <2>1, <2>6, <2>7 DEF Files
    <3>1. a = Talk!Archived(src, "PS", m, tid) \/ a = Talk!Archived("PS", src, n, tid)
      BY <2>5
    <3> QED
      BY <2>6, <3>1, Columns, NamesAssumption
  <2>9. Delivers(p, m)
    <3>1. down \in [Phones -> Seq(Talk!Datagrams)]
      BY DEF TalkInv, Talk!TypeOK
    <3>2. /\ Append(down[p], n) \in Seq(Talk!Datagrams)
          /\ Range(Append(down[p], n)) = Range(down[p]) \cup {n}
      BY <2>2, <3>1, RangeAppend
    <3> QED
      BY <2>1, <2>4, <2>7, <3>1, <3>2 DEF Delivers
  <2>10. Calling(m.call)
    BY <1>2, <2>4 DEF Calling, Talk!update_call_state
  <2> QED
    BY <1>1, <2>8, <2>9, <2>10
<1> QED
  BY <1>3, <1>4 DEF Talk!process_invitation_request

LEMMA RequestTaken ==
    ASSUME TalkInv, NEW p \in Phones, NEW m \in Talk!Datagrams, Talk!process_request(p, m)
    PROVE  /\ sip_transactions' = Talk!Transactions(m) /\ Talk!IsRequest(m)
           /\ Delivers(p, m) /\ Files(p, m) /\ Calling(m.call)
<1>1. /\ Talk!IsRequest(m) /\ Receiver(m) = m.uri /\ Talk!Forward(p, m, m.uri)
      /\ sip_transactions' = Talk!Transactions(m) /\ sip_calls' = sip_calls
  BY DEF Talk!process_request, Receiver, Talk!IsRequest, Talk!Methods
<1> QED
  BY <1>1, Forwards DEF Calling

LEMMA StatusTaken ==
    ASSUME TalkInv, NEW p \in Phones, NEW m \in Talk!Datagrams, Talk!process_status(p, m)
    PROVE  /\ sip_transactions' = Talk!Transactions(m) /\ Talk!is_message_a_status(m)
           /\ Delivers(p, m) /\ Files(p, m) /\ Calling(m.call)
<1>1. /\ Talk!is_message_a_status(m) /\ Talk!Forward(p, m, m.from)
      /\ sip_transactions' = sip_transactions
  BY DEF Talk!process_status
<1>2. ~Talk!IsRequest(m) /\ Receiver(m) = m.from /\ Talk!Transactions(m) = sip_transactions
  BY <1>1 DEF Talk!is_message_a_status, Receiver, Talk!IsRequest, Talk!Methods,
              Talk!Transactions, Talk!CreatesTransaction
<1>3. DOMAIN sip_calls' = DOMAIN sip_calls
  BY DEF Talk!process_status, Talk!update_call_state
<1> QED
  BY <1>1, <1>2, <1>3, Forwards DEF Calling

(* The proxy takes a datagram from p. *)
Takes == /\ up' \in [Phones -> Seq(Talk!Datagrams)]
         /\ \A q \in Phones : Range(up'[q]) \subseteq Range(up[q])

(* It drops it, or stops. *)
LEMMA OnlyTaken ==
    ASSUME WholeInv, Elsewhere, reachable' = reachable, Takes, Quietly,
           call' = call, down' = down
    PROVE  WholeInv'
<1>1. Grows
  BY DEF Grows, Goes, Quietly
<1>2. TalkInv'
  <2>1. Talk!TypeOK'
    BY DEF WholeInv, TalkInv, Talk!TypeOK, Takes, Quietly
  <2>2. \A q \in Phones : /\ \A m \in Range(up'[q]) : Sent(m)'
                          /\ \A m \in Range(down'[q]) : Passed(m)'
    BY <1>1, SentStays, PassedStays DEF WholeInv, TalkInv, Takes
  <2>3. \A c \in Calls : ViewRight(c, call[c])'
    BY DEF WholeInv, TalkInv, ViewRight, Known, Quietly
  <2> QED
    BY <2>1, <2>2, <2>3 DEF TalkInv
<1>3. RegistrationInv'
  BY PlacesKept DEF WholeInv
<1>4. registered_users' = registered_users /\ gone' = gone /\ former' = former /\ phone' = phone
  BY DEF Elsewhere, registration, vars
<1>5. ReachInv'
  BY <1>4 DEF WholeInv, ReachInv
<1>6. InvolvedInv'
  BY <1>4 DEF WholeInv, InvolvedInv, Involved, Settled, Takes
<1>7. OwnInv'
  BY <1>4 DEF WholeInv, OwnInv, AddressesOwn, Sender, Receiver, Takes, Quietly
<1> QED
  BY <1>2, <1>3, <1>5, <1>6, <1>7 DEF WholeInv

(* It passes it on. *)
LEMMA PassedOn ==
    ASSUME WholeInv, Elsewhere, reachable' = reachable, Takes, call' = call,
           NEW p \in Phones, NEW m \in Range(up[p]),
           Talk!IsRequest(m) \/ Talk!is_message_a_status(m),
           sip_transactions' = Talk!Transactions(m),
           Delivers(p, m), Files(p, m), Calling(m.call)
    PROVE  WholeInv'
<1>1. TalkInv /\ Sent(m) /\ m \in Talk!Datagrams /\ Sound(m)
  BY DEF WholeInv, TalkInv, Sent, Sound
<1>2. /\ sip_transactions' \in Seq(Talk!Rows)
      /\ Range(sip_transactions) \subseteq Range(sip_transactions')
      /\ Known(Key(m))'
      /\ Known(InviteKey(m.call)) \/ Key(m) = InviteKey(m.call)
  BY <1>1, Transacts
<1>3. Grows
  BY <1>2 DEF Grows, Goes
<1>4. registered_users' = registered_users /\ gone' = gone /\ former' = former /\ phone' = phone
  BY DEF Elsewhere, registration, vars
<1>5. PICK n : n = NotThere(m)
  OBVIOUS
<1>6. /\ n \in Talk!Datagrams /\ n.kind = "404" /\ n.of = m.of /\ n.call = m.call /\ n.from = m.from
      /\ n.cseq = m.cseq /\ ~Talk!IsRequest(n)
  BY <1>1, <1>5, NotThereType DEF Talk!IsRequest, Talk!Methods
<1>7. Passed(m)' /\ (Missing(m) => Passed(n)')
  <2>1. Sound(m)' /\ InviteKey(m.call)' = InviteKey(m.call)
    BY <1>1, <1>3, SoundStays
  <2>2. Known(InviteKey(m.call))' /\ Known(Key(m))'
    BY <1>2, <2>1 DEF Known, Goes, Grows
  <2>3. Passed(m)'
    BY <2>1, <2>2 DEF Passed
  <2>4. ASSUME Missing(m)
        PROVE  Passed(n)'
    <3>1. m.of = "INVITE"
      BY <1>1, <2>4 DEF Missing, Sound, Talk!IsRequest, Talk!Methods
    <3>2. Sound(n)'
      BY <1>6, <2>1, <3>1 DEF Sound
    <3>3. Key(n) = Key(m) /\ InviteKey(n.call) = InviteKey(m.call)
      BY <1>6 DEF Key, InviteKey
    <3> QED
      BY <1>6, <2>2, <3>2 DEF Passed, Known, Key, InviteKey
  <2> QED
    BY <2>3, <2>4
<1>8. TalkInv'
  <2>1. Talk!TypeOK'
    <3>1. \A a \in sip_messages' : a.msg \in Talk!Datagrams
      BY <1>1, <1>5, <1>6 DEF Files, TalkInv, Talk!TypeOK
    <3>2. DOMAIN sip_calls' \subseteq Calls
      BY <1>1 DEF Calling, TalkInv, Talk!TypeOK, Talk!Datagrams
    <3> QED
      BY <1>1, <1>2, <3>1, <3>2 DEF TalkInv, Talk!TypeOK, Takes, Delivers
  <2>2. \A q \in Phones : \A x \in Range(up'[q]) : Sent(x)'
    BY <1>1, <1>3, SentStays DEF TalkInv, Takes
  <2>3. \A q \in Phones : \A x \in Range(down'[q]) : Passed(x)'
    BY <1>1, <1>3, <1>5, <1>7, PassedStays DEF TalkInv, Delivers
  <2>4. \A c \in Calls : ViewRight(c, call[c])'
    BY <1>1, <1>3 DEF TalkInv, ViewRight, Known, Grows
  <2> QED
    BY <2>1, <2>2, <2>3, <2>4 DEF TalkInv
<1>9. RegistrationInv'
  BY PlacesKept DEF WholeInv
<1>10. ReachInv'
  <2>1. ASSUME NEW q \in Phones, NEW x \in Range(down'[q]), x.kind = "404"
        PROVE  x.call \notin reachable
    <3>1. CASE x \in Range(down[q])
      BY <2>1, <3>1 DEF WholeInv, ReachInv
    <3>2. CASE x = n /\ Missing(m)
      BY <1>1, <1>6, <3>2 DEF Missing, Sent, WholeInv, ReachInv
    <3>3. x # m
      BY <1>1, <2>1 DEF Sent
    <3> QED
      BY <1>5, <2>1, <3>1, <3>2, <3>3 DEF Delivers
  <2> QED
    BY <1>4, <2>1 DEF WholeInv, ReachInv
<1>11. Receiver(m) \in Phones
  BY <1>1 DEF Receiver, Talk!Datagrams
<1>12. InvolvedInv'
  <2> SUFFICES ASSUME NEW q \in Phones, Involved(q)', Settled(q)'
               PROVE  registered_users'[q] # None
    BY DEF InvolvedInv
  <2>1. Settled(q)
    BY <1>4 DEF Settled
  <2>2. Involved(q) \/ registered_users[Receiver(m)] = phone[q].at
    <3>1. Involved(p)
      BY DEF Involved
    <3>2. CASE Range(down'[q]) # {}
      BY <3>1, <3>2 DEF Delivers, Involved
    <3>3. CASE Range(down'[q]) = {}
      BY <3>3 DEF Involved, Takes
    <3> QED
      BY <3>2, <3>3
  <2>3. registered_users[q] # None
    <3>1. CASE Involved(q)
      BY <2>1, <3>1 DEF WholeInv, InvolvedInv
    <3>2. CASE registered_users[Receiver(m)] = phone[q].at
      BY <1>11, <2>1, <3>2, Whose DEF WholeInv, Settled
    <3> QED
      BY <2>2, <3>1, <3>2
  <2> QED
    BY <1>4, <2>3
<1>13. OwnInv'
  <2> SUFFICES ASSUME AddressesOwn'
               PROVE  /\ \A q \in Phones : /\ \A x \in Range(up'[q]) : Sender(x) = q
                                           /\ \A x \in Range(down'[q]) : Receiver(x) = q
                      /\ \A a \in sip_messages' : a.dst = "PS" => a.src = Sender(a.msg)
    BY DEF OwnInv, Sender, Receiver
  <2>1. AddressesOwn
    BY <1>4 DEF AddressesOwn
  <2>2. /\ \A q \in Phones : /\ \A x \in Range(up[q]) : Sender(x) = q
                             /\ \A x \in Range(down[q]) : Receiver(x) = q
        /\ \A a \in sip_messages : a.dst = "PS" => a.src = Sender(a.msg)
        /\ Sender(m) = p
    BY <2>1 DEF WholeInv, OwnInv
  <2>3. \A q \in Phones : \A x \in Range(up'[q]) : Sender(x) = q
    BY <2>2 DEF Takes
  <2>4. ASSUME NEW q \in Phones, NEW x \in Range(down'[q])
        PROVE  Receiver(x) = q
    <3>1. CASE x \in Range(down[q])
      BY <2>2, <3>1
    <3>2. CASE x = m /\ registered_users[Receiver(m)] = phone[q].at
      BY <1>11, <2>1, <3>2, Whose DEF WholeInv
    <3>3. CASE x = n /\ q = p /\ Missing(m)
      <4>1. Receiver(n) = m.from
        BY <1>6 DEF Receiver
      <4>2. m.from = p
        BY <2>2, <3>3 DEF Missing, Sender, Talk!IsRequest, Talk!Methods
      <4> QED
        BY <3>3, <4>1, <4>2
    <3> QED
      BY <1>5, <3>1, <3>2, <3>3 DEF Delivers
  <2>5. ASSUME NEW a \in sip_messages', a.dst = "PS"
        PROVE  a.src = Sender(a.msg)
    <3>1. CASE a \in sip_messages
      BY <2>2, <2>5, <3>1
    <3>2. CASE a \notin sip_messages
      <4>1. a.msg = m /\ a.src \in Phones /\ registered_users[a.src] = phone[p].at
        BY <2>5, <3>2 DEF Files
      <4>2. a.src = p
        BY <2>1, <4>1, Whose DEF WholeInv
      <4> QED
        BY <2>2, <4>1, <4>2
    <3> QED
      BY <3>1, <3>2
  <2> QED
    BY <2>3, <2>4, <2>5
<1> QED
  BY <1>8, <1>9, <1>10, <1>12, <1>13 DEF WholeInv

LEMMA ServeCallStep ==
    ASSUME WholeInv, ServeCall
    PROVE  /\ WholeInv'
           /\ ~exited /\ exited' => \E p \in Phones : Talk!Proxy(p) /\ ~Settled(p)
<1>1. Elsewhere /\ reachable' = reachable
  BY DEF ServeCall, Elsewhere, history
<1> PICK p \in Phones : Talk!Proxy(p)
  BY DEF ServeCall
<1>2. PICK i \in DOMAIN up[p] :
        LET m == up[p][i]
        IN /\ Talk!Arrives(p, i)
           /\ \/ Talk!Ignore(m)
              \/ (Talk!IsRequest(m) \/ Talk!is_message_a_status(m)) /\ Talk!Exit(p, m)
              \/ /\ ~Talk!Fails(p, m)
                 /\ UNCHANGED exited
                 /\ \/ Talk!process_invitation_request(p, m)
                    \/ Talk!process_request(p, m) \/ Talk!process_status(p, m)
  BY DEF Talk!Proxy
<1>3. PICK m : m = up[p][i]
  OBVIOUS
<1>4. m \in Range(up[p]) /\ TalkInv /\ m \in Talk!Datagrams /\ call' = call
  BY <1>3 DEF Range, WholeInv, TalkInv, Sent, Sound, Talk!Proxy
<1>5. Takes
  <2>1. up \in [Phones -> Seq(Talk!Datagrams)]
    BY <1>4 DEF TalkInv, Talk!TypeOK
  <2>2. /\ RemoveAt(up[p], i) \in Seq(Talk!Datagrams)
        /\ Range(RemoveAt(up[p], i)) \subseteq Range(up[p])
    BY <2>1, RangeRemoveAt
  <2>3. Talk!RemoveAt(up[p], i) = RemoveAt(up[p], i)
    BY DEF Talk!RemoveAt, RemoveAt
  <2>4. up' = up \/ up' = [up EXCEPT ![p] = Talk!RemoveAt(@, i)]
    BY <1>2 DEF Talk!Arrives
  <2> QED
    BY <2>1, <2>2, <2>3, <2>4 DEF Takes
<1>6. CASE Talk!Ignore(m)
  <2>1. Quietly /\ down' = down /\ exited' = exited
    BY <1>6 DEF Talk!Ignore, Talk!tables, Quietly
  <2> QED
    BY <1>1, <1>4, <1>5, <2>1, OnlyTaken
<1>7. CASE (Talk!IsRequest(m) \/ Talk!is_message_a_status(m)) /\ Talk!Exit(p, m)
  <2>1. Quietly /\ down' = down /\ Talk!Fails(p, m)
    BY <1>7 DEF Talk!Exit, Quietly
  <2>2. ~Settled(p)
    BY <1>4, <1>7, <2>1, FailsUnsettled
  <2> QED
    BY <1>1, <1>4, <1>5, <2>1, <2>2, OnlyTaken
<1>8. CASE /\ exited' = exited
           /\ \/ Talk!process_invitation_request(p, m)
              \/ Talk!process_request(p, m) \/ Talk!process_status(p, m)
  <2>1. /\ Talk!IsRequest(m) \/ Talk!is_message_a_status(m)
        /\ sip_transactions' = Talk!Transactions(m)
        /\ Delivers(p, m) /\ Files(p, m) /\ Calling(m.call)
    BY <1>4, <1>8, InviteTaken, RequestTaken, StatusTaken DEF Talk!IsRequest, Talk!Methods
  <2> QED
    BY <1>1, <1>4, <1>5, <1>8, <2>1, PassedOn
<1> QED
  BY <1>2, <1>3, <1>6, <1>7, <1>8

-----------------------------------------------------------------------------
(* The whole proxy: the theorems. *)

LEMMA WholeInit == ProxyInit => WholeInv
<1> SUFFICES ASSUME ProxyInit PROVE WholeInv
  OBVIOUS
<1>1. /\ phone \in [Phones -> [at : Addresses, state : {"rest"}, reg : BOOLEAN, cseq : {0},
                               auth : {NoAuth}]]
      /\ \A p \in Phones : phone[p].at = HomeOf[p]
      /\ registered_users = [p \in Phones |-> IF phone[p].reg THEN phone[p].at ELSE None]
      /\ net = {} /\ gone = {} /\ reachable = {} /\ former = [p \in Phones |-> {}]
  BY DEF ProxyInit
<1>2. TypeOK
  <2>1. phone \in [Phones -> [at : Addresses, state : Waiting \cup {"rest"},
                              reg : BOOLEAN, cseq : Nat, auth : Digests]]
    BY <1>1, BlankType
  <2>2. \A p \in Phones : phone[p].at \in Addresses
    BY <1>1
  <2>3. registered_users \in [Phones -> Addresses \cup {None}]
    BY <1>1, <2>2
  <2>4. open_challenges \in [Slots -> Digests] /\ cur_challenge_index \in Slots
    BY BlankType, RingAssumption DEF ProxyInit, Slots
  <2>5. granted = << >> /\ granted \in Seq(Nat) /\ Len(granted) = 0
    BY DEF ProxyInit
  <2> QED
    BY <1>1, <2>1, <2>3, <2>4, <2>5 DEF ProxyInit, TypeOK
<1>3. \A p \in Phones : Responses(p) = {} /\ Requests(p) = {}
  BY <1>1 DEF Responses, Requests
<1>4. OneOnItsWay
  BY <1>3 DEF OneOnItsWay, OnItsWay
<1>5. \A p \in Phones : phone[p].state = "rest" /\ phone[p].at # None
  BY <1>1, NoneAssumption
<1>6. PlacesRight
  BY <1>1, <1>3, <1>5, HomesAssumption DEF PlacesRight
<1>7. TalkInv
  <2>1. Talk!Unused \in Talk!Views
    BY DEF Talk!Unused, Talk!Views
  <2>2. << >> \in Seq(Talk!Datagrams) /\ << >> \in Seq(Talk!Rows) /\ Range(<< >>) = {}
        /\ DOMAIN << >> = {}
    BY NoneSent
  <2>3. /\ sip_calls = << >> /\ sip_transactions = << >> /\ sip_messages = {}
        /\ up = [p \in Phones |-> << >>] /\ down = [p \in Phones |-> << >>]
        /\ call = [c \in Calls |-> Talk!Unused]
    BY DEF ProxyInit, Talk!TalkInit
  <2>4. Talk!TypeOK
    BY <2>1, <2>2, <2>3 DEF Talk!TypeOK
  <2>5. \A c \in Calls : ViewRight(c, call[c])
    BY <2>3 DEF ViewRight, Talk!Unused
  <2> QED
    BY <2>2, <2>3, <2>4, <2>5 DEF TalkInv
<1>8. /\ sip_messages = {} /\ Range(<< >>) = {}
      /\ up = [p \in Phones |-> << >>] /\ down = [p \in Phones |-> << >>]
      /\ call = [c \in Calls |-> Talk!Unused]
  BY DEF ProxyInit, Talk!TalkInit, Range
<1>9. ReachInv /\ OwnInv
  BY <1>1, <1>8 DEF ReachInv, OwnInv
<1>10. InvolvedInv
  BY <1>8 DEF InvolvedInv, Involved, Talk!Unused
<1> QED
  BY <1>2, <1>4, <1>6, <1>7, <1>9, <1>10 DEF WholeInv, RegistrationInv

(* Calls take nothing from what the registrar promises: with rows of an earlier life of the
   proxy, while calls go on and phones leave and move, no challenge admits two registrations
   and a fresh answer is forbidden only if strcmp reads beyond it. *)
THEOREM RegistrarUnimpaired == ProxySpec => []AcceptedOnce /\ FreshAnswerAccepted
<1>1. ProxyInit => TypeOK
  BY WholeInit DEF WholeInv, RegistrationInv
<1>2. [ProxyNext]_allVars => [Next]_vars
  BY RegistrarStep DEF allVars, registration
<1>3. OnceInv => AcceptedOnce
  BY DEF OnceInv
<1> QED
  BY <1>1, <1>2, <1>3, TypeNext, OnceInit, OnceNext, FreshInit, FreshNext, FreshStep, PTL
     DEF ProxySpec, FreshAnswerAccepted

LEMMA WholeNext ==
    ASSUME MaxDups = 0, NoExpires = {}
    PROVE  WholeInv /\ [ProxyNext]_allVars => WholeInv'
<1> SUFFICES ASSUME WholeInv, [ProxyNext]_allVars PROVE WholeInv'
  OBVIOUS
<1>1. CASE UNCHANGED allVars
  <2>1. Elsewhere /\ reachable' = reachable /\ Quietly /\ call' = call /\ down' = down /\ Takes
    BY <1>1 DEF allVars, talk, history, Elsewhere, Quietly, Takes, WholeInv, TalkInv, Talk!TypeOK
  <2> QED
    BY <2>1, OnlyTaken
<1> QED
  BY <1>1, RegistrationStep, ServeCallStep, DialStep, ConverseStep DEF ProxyNext

LEMMA WholeInvariance ==
    ASSUME MaxDups = 0, NoExpires = {}
    PROVE  ProxySpec => []WholeInv
<1>1. WholeInv /\ [ProxyNext]_allVars => WholeInv'
  BY WholeNext
<1> QED
  BY <1>1, WholeInit, PTL DEF ProxySpec

(* As long as registrations are not duplicated and every phone says how long it wants to be
   registered, a phone that de-registered or moved is the only one that stops the proxy. *)
THEOREM OnlyUnsettledStop ==
    ASSUME MaxDups = 0, NoExpires = {}
    PROVE  ProxySpec => StopsOnlyForUnsettled
<1>1. ASSUME WholeInv, [ProxyNext]_allVars, ~exited, exited'
      PROVE  \E p \in Phones : Talk!Proxy(p) /\ ~Settled(p)
  <2>1. CASE ServeCall
    BY <1>1, <2>1, ServeCallStep
  <2>2. CASE ~ServeCall
    BY <1>1, <2>2 DEF ProxyNext, allVars, talk, ServeRegistration, Registering, Leaving, Moving,
          Restarting, Dial, Converse, Talk!Phone, Talk!Dial, Talk!Redial, Talk!GiveUp,
          Talk!Answer, Talk!Refuse, Talk!HangUp, Talk!Keeps, Talk!tables
  <2> QED
    BY <2>1, <2>2
<1>2. WholeInv /\ [ProxyNext]_allVars =>
        [(~exited /\ exited') => \E p \in Phones : Talk!Proxy(p) /\ ~Settled(p)]_allVars
  BY <1>1
<1> QED
  BY <1>2, WholeInvariance, PTL DEF ProxySpec, StopsOnlyForUnsettled

(* Then nobody hears 404 for who was registered all the time since it was dialed. *)
THEOREM RegisteredIsFound ==
    ASSUME MaxDups = 0, NoExpires = {}
    PROVE  ProxySpec => []FoundIfRegistered
<1>1. WholeInv => FoundIfRegistered
  BY DEF WholeInv, ReachInv, FoundIfRegistered
<1> QED
  BY <1>1, WholeInvariance, PTL

(* Then datagrams reach the phone they are for and are filed under the phone they are from,
   as long as nobody has been at an address another phone left: the rows of phones that
   moved do no harm until somebody comes to where they were. *)
THEOREM ReachesItsPhone ==
    ASSUME MaxDups = 0, NoExpires = {}
    PROVE  ProxySpec => []ReachesWhomItIsFor
<1>1. WholeInv => ReachesWhomItIsFor
  BY DEF WholeInv, OwnInv, ReachesWhomItIsFor, Range
<1> QED
  BY <1>1, WholeInvariance, PTL
=============================================================================
