------------------------------- MODULE SipMain -------------------------------
(***************************************************************************)
(* The SIP proxy as a process: main() with its configuration, its socket   *)
(* (networking.c), the one buffer all datagrams are received in and the    *)
(* headers it reads of them (SipText).  What the handlers do with what     *)
(* they read is in SipRegistrar and SipCalls.                              *)
(*                                                                         *)
(* The receive buffer is a string: what a datagram leaves of an earlier    *)
(* one counts, so each of its places holds nothing, part of this datagram  *)
(* ("now") or of an earlier one ("before").                                *)
(***************************************************************************)
EXTENDS SipText, SipConfig

CONSTANTS
    MaxLines,       \* of the configuration file
    Size,           \* of the receive buffer (1500)
    Short,          \* what is no message (3)
    Lengths,        \* of datagrams
    ResultSize,     \* of the static buffer of get_string_between_chars
    Messages        \* see SipText!Line

ASSUME SizeAssumption == MaxLines \in Nat /\ Size \in Nat /\ Short \in 1 .. Size - 1
ASSUME LengthsAssumption == Lengths \subseteq Nat \ {0}

VARIABLES
    phase,          \* "loading", "listening", "running" or "stopped"
    buffer,
    result,         \* the static buffer of get_string_between_chars
    spoiled,        \* whether a datagram filled the buffer since it was last cleared
    handled         \* the last message handled: its text, spoiled, what was misread

proxy == <<phase, buffer, result, spoiled, handled>>
vars == <<config, proxy>>

Places == 1 .. Size
Cleared == [i \in Places |-> NUL]

Init ==
    /\ ConfigInit(MaxLines)
    /\ phase = "loading"
    /\ buffer = Cleared
    /\ result = [i \in 1 .. ResultSize |-> NUL]
    /\ spoiled = FALSE
    /\ handled = [text |-> << >>, spoiled |-> FALSE, wrong |-> {}, unusual |-> {}]

load_server_config ==
    /\ phase = "loading"
    /\ ReadLine \/ Close
    /\ UNCHANGED proxy

(* The file cannot be opened. *)
NoConfigFile ==
    /\ phase = "loading" /\ read = 0 /\ ~closed
    /\ phase' = "stopped"
    /\ UNCHANGED <<config, buffer, result, spoiled, handled>>

(* Whatever socket and bind return.  The file is closed and forgotten. *)
start_listening ==
    /\ phase = "loading" /\ closed
    /\ phase' = "listening"
    /\ file' = << >> /\ read' = 0 /\ field' = Nothing /\ value' = Nothing
    /\ UNCHANGED <<closed, cfg, buffer, result, spoiled, handled>>

(* Without a database the proxy exits. *)
connect_to_database ==
    /\ phase = "listening"
    /\ phase' \in {"running", "stopped"}
    /\ UNCHANGED <<config, buffer, result, spoiled, handled>>

-----------------------------------------------------------------------------
(* recvfrom writes what fits.  A datagram that does not fit is an error, as on
   Windows, and so not handled. *)
Received(len) ==
    [i \in Places |-> IF i <= len THEN "now" ELSE IF buffer[i] = NUL THEN NUL ELSE "before"]

(* What C string functions see of the buffer.  Without a NUL they read on beyond its
   end. *)
Ends(buf) == {n \in 0 .. Size - 1 : buf[n + 1] = NUL /\ \A i \in 1 .. n : buf[i] # NUL}
Texts(buf) == IF Ends(buf) # {} THEN {SubSeq(buf, 1, n) : n \in Ends(buf)}
              ELSE {buf, Append(buf, "before")}

(* What is in the buffer when the next datagram comes. *)
Aged(buf) == [i \in Places |-> IF buf[i] = NUL THEN NUL ELSE "before"]

(* Too long, or too short to be a message: the buffer stays as it is. *)
Skip(len) ==
    /\ \/ len > Size
       \/ len <= Size /\ \E text \in Texts(Received(len)) : Len(text) <= Short
    /\ buffer' = Aged(Received(len))
    /\ spoiled' = (spoiled \/ len >= Size)
    /\ UNCHANGED <<config, phase, result, handled>>

(* Headers whose text is more than the search for an extension is made for: a
   display name with an s and a : or @ after it, a URI without user part. *)
Unusual(m) == (IF m.user = << >> THEN {"URI"} ELSE {})
              \cup (IF \E i, k \in DOMAIN m.name : i < k /\ m.name[i] = "s" /\ m.name[k] \in {":", "@"}
                    THEN {"From"} ELSE {})

(* Variation (a bug the properties must notice): no memset. *)
NotCleared(buf) == Aged(buf)
memset(buf) == Cleared

Handle(m, len) ==
    /\ len <= Size
    /\ \E text \in Texts(Received(len)), headers \in Reads(m.kind) :
        LET reading == ReadAll(m, headers, result) IN
        /\ Len(text) > Short
        /\ result' = reading.buf
        /\ handled' = [text |-> text, spoiled |-> spoiled \/ len >= Size,
                       wrong |-> reading.wrong, unusual |-> Unusual(m)]
    /\ buffer' = memset(Received(len))
    /\ spoiled' = FALSE
    /\ UNCHANGED <<config, phase>>

(* The datagram `exit', or a handler that does not find what it needs. *)
Exit ==
    /\ phase' = "stopped"
    /\ UNCHANGED <<config, buffer, result, spoiled, handled>>

Loop ==
    /\ phase = "running"
    /\ \/ \E len \in Lengths : \/ Skip(len)
                                \/ \E m \in Messages : Handle(m, len)
       \/ Exit

Next == \/ load_server_config \/ NoConfigFile
        \/ start_listening \/ connect_to_database
        \/ Loop

Spec == Init /\ [][Next]_vars

-----------------------------------------------------------------------------
(* Properties. *)

(* A message is handled as it was sent, without the rest of an earlier one,
   although keep-alives leave the buffer as it is.  Not so after a datagram that did
   not fit: the next one, even a keep-alive, is followed by its rest. *)
HandledAsSent ==
    \A i \in DOMAIN handled.text : handled.text[i] # "now" => handled.spoiled

(* Extensions and CSeq numbers are read as they were written, whatever other
   messages left in the static buffer: of a CSeq the end is never found and
   atoi has to stop in time.  Not so for what Unusual names. *)
ReadAsWritten == handled.wrong \subseteq handled.unusual
=============================================================================
