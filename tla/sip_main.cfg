CONSTANTS
    None = None  yes = yes  no = no
    Fields = {"SERVER_IP", "SQL_PASS"}
    Values = {yes, no}
    Nothing = None
    MaxLines = 3
    Size = 6
    Short = 3
    Lengths = {2, 4, 6, 7}
    ResultSize = 24
    Messages <- SomeMessages
SPECIFICATION Spec
INVARIANTS HandledAsSent ReadAsWritten
PROPERTY SettingsTakeEffect
CHECK_DEADLOCK FALSE
