------------------------------ MODULE SipConfig ------------------------------
(***************************************************************************)
(* load_server_config (config-file.c): the lines of sip-server.conf are    *)
(* read one by one into `field' and `value', which keep what the line      *)
(* before left in them when a line has less.                               *)
(***************************************************************************)
EXTENDS Integers, Sequences, FiniteSetsExt

CONSTANTS
    Fields,         \* the members of SERVER_CONFIG
    Values,
    Nothing         \* not given, not set, not initialized

ASSUME NothingAssumption == Nothing \notin Fields \cup Values \cup {"unknown"}

VARIABLES
    file,           \* the lines
    read,           \* how many have been read
    closed,
    field, value,
    cfg

config == <<file, read, closed, field, value, cfg>>

(* A line is a comment, blank or `field <tab> value'; all but the last end with
   a newline.  Fields and values may be missing or unknown. *)
Lines == [is : {"comment", "blank"}, field : {Nothing}, value : {Nothing}, newline : BOOLEAN]
         \cup [is : {"setting"}, field : Fields \cup {"unknown"}, value : Values \cup {Nothing},
               newline : BOOLEAN]
Files(n) == {f \in UNION {[1 .. k -> Lines] : k \in 0 .. n} :
                \A i \in DOMAIN f : f[i].newline \/ i = Len(f)}

ConfigInit(n) ==
    /\ file \in Files(n)
    /\ read = 0 /\ closed = FALSE
    /\ field = Nothing /\ value = Nothing
    /\ cfg = [f \in Fields |-> Nothing]

Skipped(line) == line.is \in {"comment", "blank"}

(* sscanf leaves alone what it finds nothing for. *)
Scanned(old, new) == IF new = Nothing THEN old ELSE new

(* Variation (a bug the properties must notice): a comment is the end. *)
AtComment == \A i \in DOMAIN file : i = read + 1 => ~file[i].newline \/ file[i].is = "comment"
(* Nothing is left, or a line that ends with the file, which is not looked at. *)
AtEnd == \A i \in DOMAIN file : i = read + 1 => ~file[i].newline

ReadLine ==
    LET line == file[read + 1] IN
    /\ ~closed /\ ~AtEnd
    /\ read' = read + 1
    /\ IF Skipped(line) THEN UNCHANGED <<field, value, cfg>>
       ELSE /\ field' = Scanned(field, line.field)
            /\ value' = Scanned(value, line.value)
            /\ cfg' = IF field' \in Fields THEN [cfg EXCEPT ![field'] = value'] ELSE cfg
    /\ UNCHANGED <<file, closed>>

Close ==
    /\ ~closed /\ AtEnd
    /\ closed' = TRUE
    /\ UNCHANGED <<file, read, field, value, cfg>>

-----------------------------------------------------------------------------
(* The comment at the head of sip-server.conf: lines with a # are comments, the
   others <field> <tab> <value>.  In a file of such lines that ends with a
   newline, each field has in the end the last value given to it, or none. *)
WellFormed == \A i \in DOMAIN file : /\ file[i].newline
                                     /\ file[i].is = "setting" => file[i].value # Nothing
Settings(f) == {i \in DOMAIN file : file[i].field = f}
SettingsTakeEffect ==
    [][(~closed /\ closed' /\ WellFormed) =>
        \A f \in Fields : cfg'[f] = IF Settings(f) = {} THEN Nothing
                                    ELSE file[Max(Settings(f))].value]_config
=============================================================================
