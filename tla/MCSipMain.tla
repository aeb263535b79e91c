------------------------------ MODULE MCSipMain ------------------------------
(* Messages for SipMain: extensions and CSeq numbers of different length, a name with
   an s, one with a : behind it, a URI without user part. *)
EXTENDS SipMain

CONSTANTS None, yes, no

Message(kind, name, from, user, cseq) ==
    [kind |-> kind, name |-> name, from |-> from, user |-> user, cseq |-> cseq]
SomeMessages == {
    Message("REGISTER", << >>, <<"2", "1">>, << >>, <<"1">>),
    Message("REGISTER", <<"s", ":", " ">>, <<"1">>, << >>, <<"2", "3">>),
    Message("INVITE", <<"s", " ">>, <<"1">>, <<"2", "1", "@">>, <<"1">>),
    Message("BYE", << >>, <<"2", "1">>, <<"1", "@">>, <<"2", "3">>),
    Message("BYE", << >>, <<"1">>, << >>, <<"1">>),
    Message("487", << >>, <<"2", "1">>, << >>, <<"1">>),
    Message("200", <<"s", " ">>, <<"1">>, << >>, <<"2", "3">>),
    Message("OPTIONS", << >>, <<"1">>, << >>, <<"1">>)}
=============================================================================
