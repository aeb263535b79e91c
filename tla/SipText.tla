------------------------------- MODULE SipText -------------------------------
(***************************************************************************)
(* How the SIP proxy reads headers (misc.c).  The text between two         *)
(* characters is copied to a static buffer, which is terminated only if    *)
(* the second one is found; what is read of one line can depend on the     *)
(* lines before it.                                                        *)
(*                                                                         *)
(* A text is a sequence of characters; a word in which nobody looks for a  *)
(* character counts as one.                                                *)
(***************************************************************************)
EXTENDS Naturals, SequencesExt, FiniteSetsExt

NUL == "NUL"

(* What a C string function sees of a buffer. *)
CString(buf) ==
    LET ends == {i \in DOMAIN buf : buf[i] = NUL}
    IN IF ends = {} THEN buf ELSE SubSeq(buf, 1, Min(ends) - 1)

Overwritten(buf, text) ==
    [i \in DOMAIN buf |-> IF i <= Len(text) THEN text[i] ELSE buf[i]]

(* The places of c in src after the i-th character. *)
After(src, c, i) == {k \in i + 1 .. Len(src) : src[k] = c}

(* The buffer after the call; CString of it is what the caller gets. *)
get_string_between_chars(src, c1, c2, incl_c2, result) ==
    IF After(src, c1, 0) = {} THEN result
    ELSE LET first == Min(After(src, c1, 0))
             ends == After(src, c2, first)
         IN IF ends = {}
            THEN Overwritten(result, SubSeq(src, first + 1, Len(src)))
            ELSE Overwritten(result, SubSeq(src, first + 1, Min(ends) - (IF incl_c2 THEN 0 ELSE 1))
                                        \o <<NUL>>)

(* Variation (a bug the properties must notice): tmp without its @. *)
WithoutAt(line, result) ==
    LET tmp == get_string_between_chars(line, "s", "@", FALSE, result)
    IN get_string_between_chars(CString(tmp), ":", "@", FALSE, tmp)
(* From the first s, that of sip if no name comes before, to the @. *)
get_extension_from_line(line, result) ==
    LET tmp == get_string_between_chars(line, "s", "@", TRUE, result)
    IN get_string_between_chars(CString(tmp), ":", "@", FALSE, tmp)

(* strtok has cut the line off before the \r that is looked for. *)
get_cseq_from_message(line, result) ==
    get_string_between_chars(line, " ", "\r", FALSE, result)

Digits == {"1", "2", "3"}
(* atoi: the digits at the beginning. *)
AsInteger(text) ==
    LET others == {i \in DOMAIN text : text[i] \notin Digits}
    IN IF others = {} THEN text ELSE SubSeq(text, 1, Min(others) - 1)

-----------------------------------------------------------------------------
(* A message has a kind, the extension and display name of its From, the user
   part of its request URI with the @ (<< >>: none) and a CSeq number. *)
Line(m, header) ==
    CASE header = "From" -> <<"From", ":", " ">> \o m.name \o <<"<", "s", "i", "p", ":">>
                                \o m.from \o <<"@", "host", ">">>
      [] header = "Contact" -> <<"Contact", ":", " ", "<", "s", "i", "p", ":">>
                                \o m.from \o <<"@", "host", ">">>
      [] header = "CSeq" -> <<"CSeq", ":", " ">> \o m.cseq \o <<" ", m.kind>>
      [] header = "URI" -> <<m.kind, " ", "s", "i", "p", ":">> \o m.user \o <<"host", " ", "SIP/2.0">>

(* The buffer after the header was read, and what was read. *)
Buffer(m, header, result) ==
    IF header = "CSeq" THEN get_cseq_from_message(Line(m, header), result)
    ELSE get_extension_from_line(Line(m, header), result)
Value(header, buf) == IF header = "CSeq" THEN AsInteger(CString(buf)) ELSE CString(buf)

(* What the sender means. *)
Written(m, header) ==
    CASE header = "CSeq" -> m.cseq
      [] header = "URI" -> SelectSeq(m.user, LAMBDA c : c # "@")
      [] OTHER -> m.from

(* The headers a handler reads, in its order; a status is looked up again when
   the phone it goes to is found. *)
Reads(kind) ==
    CASE kind = "INVITE" -> {<<"From", "CSeq", "Contact", "URI">>}
      [] kind \in {"BYE", "CANCEL", "ACK"} -> {<<"From", "CSeq", "URI">>}
      [] kind = "REGISTER" -> {<<"From">>, <<"From", "From">>}
      [] kind \in {"100", "180", "487", "603"} -> {<<"From", "CSeq", "From">> \o again : again \in {<< >>, <<"From", "CSeq">>}}
      [] kind = "200" -> {<<"From", "CSeq", "From">> \o again \o <<"CSeq">> :
                            again \in {<< >>, <<"From", "CSeq">>}}
      [] OTHER -> {<< >>}

(* Reading headers one after the other: the buffer at the end, and the headers
   that were not read as they were written. *)
ReadAll(m, headers, result) ==
    FoldLeft(LAMBDA at, h :
                LET buf == Buffer(m, h, at.buf)
                IN [buf |-> buf,
                    wrong |-> at.wrong \cup (IF Value(h, buf) = Written(m, h) THEN {} ELSE {h})],
             [buf |-> result, wrong |-> {}], headers)
=============================================================================
