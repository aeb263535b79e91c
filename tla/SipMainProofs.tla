---------------------------- MODULE SipMainProofs ----------------------------
(* Theorems about SipMain for configuration files and receive buffers of any size. *)
EXTENDS SipMain, CommonLemmas

-----------------------------------------------------------------------------
(* The receive buffer. *)

Part == {NUL, "now", "before"}

(* Between datagrams there is nothing beyond what a keep-alive can leave, unless a
   datagram filled the buffer. *)
RestIsShort == ~spoiled => \A i \in Places : i > Short => buffer[i] = NUL
BufferInv == /\ buffer \in [Places -> Part] /\ spoiled \in BOOLEAN
             /\ RestIsShort
             /\ HandledAsSent

(* What a datagram of len characters makes of such a buffer. *)
LEMMA ReceivedIs ==
    ASSUME buffer \in [Places -> Part], NEW len \in Nat
    PROVE  /\ Received(len) \in [Places -> Part]
           /\ \A i \in Places : i <= len => Received(len)[i] = "now"
           /\ \A i \in Places : i > len /\ buffer[i] = NUL => Received(len)[i] = NUL
  BY SizeAssumption DEF Received, Part, Places, NUL

(* A text ends before the first NUL, or beyond the end of the buffer. *)
LEMMA TextsAre ==
    ASSUME NEW buf \in [Places -> Part], NEW text \in Texts(buf)
    PROVE  /\ Len(text) \in Nat /\ DOMAIN text = 1 .. Len(text)
           /\ \/ /\ Len(text) < Size /\ buf[Len(text) + 1] = NUL
                 /\ \A i \in 1 .. Len(text) : text[i] = buf[i] /\ buf[i] # NUL
              \/ Ends(buf) = {} /\ Len(text) >= Size
<1>1. buf \in Seq(Part) /\ Len(buf) = Size
  BY SizeAssumption DEF Places
<1>2. CASE Ends(buf) # {}
  <2>1. PICK n \in Ends(buf) : text = SubSeq(buf, 1, n)
    BY <1>2 DEF Texts
  <2>2. n \in 0 .. Size - 1 /\ buf[n + 1] = NUL /\ \A i \in 1 .. n : buf[i] # NUL
    BY <2>1 DEF Ends
  <2>3. Len(text) = n /\ DOMAIN text = 1 .. n /\ \A i \in 1 .. n : text[i] = buf[i]
    BY <1>1, <2>1, <2>2, SizeAssumption
  <2> QED
    BY <2>2, <2>3, SizeAssumption
<1>3. CASE Ends(buf) = {}
  <2>1. text = buf \/ text = Append(buf, "before")
    BY <1>3 DEF Texts
  <2>2. "before" \in Part
    BY DEF Part
  <2>3. text \in Seq(Part) /\ Len(text) >= Size
    BY <1>1, <2>1, <2>2, SizeAssumption
  <2> QED
    BY <1>3, <2>3, LenProperties
<1> QED
  BY <1>2, <1>3

(* Where there is a NUL, there is a first. *)
LEMMA EndExists ==
    ASSUME NEW buf \in [Places -> Part], NEW k \in Places, buf[k] = NUL
    PROVE  Ends(buf) # {}
<1> DEFINE S == {n \in Nat : n + 1 \in Places /\ buf[n + 1] = NUL}
<1>1. k - 1 \in S
  BY SizeAssumption DEF Places
<1>2. Min(S) \in S /\ \A y \in S : Min(S) <= y
  BY <1>1, MinIsLeast
<1>3. PICK n \in S : n = Min(S)
  BY <1>2
<1>4. n \in 0 .. Size - 1 /\ buf[n + 1] = NUL
  BY <1>3, SizeAssumption DEF Places
<1>5. ASSUME NEW i \in 1 .. n, buf[i] = NUL
      PROVE  FALSE
  <2>1. i - 1 \in S
    BY <1>4, <1>5, SizeAssumption DEF Places
  <2>2. n <= i - 1 /\ n \in Nat /\ i \in Nat /\ i <= n
    BY <1>2, <1>3, <2>1
  <2> HIDE DEF S
  <2> QED
    BY <2>2
<1> QED
  BY <1>4, <1>5 DEF Ends

LEMMA SkipKeeps ==
    ASSUME BufferInv, NEW len \in Lengths, Skip(len)
    PROVE  BufferInv'
<1>0. len \in Nat /\ Size \in Nat /\ Short \in Nat /\ Short < Size
  BY LengthsAssumption, SizeAssumption
<1> DEFINE R == Received(len)
<1>1. R \in [Places -> Part]
  BY <1>0, ReceivedIs DEF BufferInv
<1>2. buffer' = Aged(R) /\ spoiled' = (spoiled \/ len >= Size) /\ handled' = handled
  BY DEF Skip
<1>3. buffer' \in [Places -> Part] /\ spoiled' \in BOOLEAN
  <2>1. Aged(R) \in [Places -> Part]
    BY DEF Aged, Part
  <2>2. spoiled' \in BOOLEAN
    BY <1>2
  <2> QED
    BY <1>2, <2>1, <2>2
<1>4. HandledAsSent'
  BY <1>2 DEF BufferInv, HandledAsSent
<1>5. ASSUME ~spoiled', NEW i \in Places, i > Short
      PROVE  buffer'[i] = NUL
  <2>1. ~spoiled /\ len < Size
    <3>1. ~spoiled /\ ~(len >= Size)
      BY <1>2, <1>5
    <3> QED
      BY <1>0, <3>1
  <2>2. PICK text \in Texts(R) : Len(text) <= Short
    BY <1>0, <2>1 DEF Skip
  <2>3. Len(text) \in Nat /\ Len(text) < Size /\ R[Len(text) + 1] = NUL
    BY <1>0, <1>1, <2>2, TextsAre
  <2>4. Len(text) + 1 \in Places
    BY <1>0, <2>3 DEF Places
  <2>5. len <= Len(text)
    <3>1. CASE Len(text) + 1 <= len
      <4>1. R[Len(text) + 1] = "now"
        BY <1>0, <2>4, <3>1, ReceivedIs DEF BufferInv
      <4> QED
        BY <2>3, <4>1 DEF NUL
    <3> QED
      BY <1>0, <2>3, <3>1
  <2>6. i > len
    BY <1>0, <1>5, <2>2, <2>3, <2>5 DEF Places
  <2>7. buffer[i] = NUL
    BY <1>5, <2>1 DEF BufferInv, RestIsShort
  <2>8. R[i] = NUL
    BY <1>0, <1>5, <2>6, <2>7, ReceivedIs DEF BufferInv
  <2> QED
    BY <1>2, <1>5, <2>8 DEF Aged
<1> QED
  BY <1>3, <1>4, <1>5 DEF BufferInv, RestIsShort

LEMMA HandleKeeps ==
    ASSUME BufferInv, NEW m, NEW len \in Lengths, Handle(m, len)
    PROVE  BufferInv'
<1>0. len \in Nat /\ Size \in Nat /\ Short \in Nat /\ Short < Size
  BY LengthsAssumption, SizeAssumption
<1> DEFINE R == Received(len)
<1>1. R \in [Places -> Part]
  BY <1>0, ReceivedIs DEF BufferInv
<1>2. PICK text \in Texts(R) : /\ Len(text) > Short
                               /\ handled'.text = text
                               /\ handled'.spoiled = (spoiled \/ len >= Size)
  BY DEF Handle
<1>3. buffer' = Cleared /\ spoiled' = FALSE
  BY DEF Handle, memset
<1>4. buffer' \in [Places -> Part] /\ spoiled' \in BOOLEAN /\ RestIsShort'
  BY <1>3 DEF Cleared, Part, RestIsShort
<1>5. ASSUME ~handled'.spoiled, NEW i \in DOMAIN text
      PROVE  text[i] = "now"
  <2>1. ~spoiled /\ len < Size
    <3>1. ~spoiled /\ ~(len >= Size)
      BY <1>2, <1>5
    <3> QED
      BY <1>0, <3>1
  <2>2. \A k \in Places : k > Short /\ k > len => R[k] = NUL
    BY <1>0, <2>1, ReceivedIs DEF BufferInv, RestIsShort
  <2>3. Size \in Places /\ R[Size] = NUL
    BY <1>0, <2>1, <2>2 DEF Places
  <2>4. Ends(R) # {}
    BY <1>1, <2>3, EndExists
  <2>5. /\ Len(text) \in Nat /\ DOMAIN text = 1 .. Len(text) /\ Len(text) < Size
        /\ \A k \in 1 .. Len(text) : text[k] = R[k] /\ R[k] # NUL
    BY <1>1, <2>4, TextsAre
  <2>6. Short + 1 \in 1 .. Len(text) /\ Short + 1 \in Places
    BY <1>0, <1>2, <2>5 DEF Places
  <2>7. Short + 1 <= len
    BY <1>0, <2>2, <2>5, <2>6
  <2>8. i \in Places /\ i \in 1 .. Len(text)
    BY <1>0, <1>5, <2>5 DEF Places
  <2>9. i <= len
    <3>1. CASE i > len
      <4>1. i > Short
        BY <1>0, <2>7, <2>8, <3>1 DEF Places
      <4> QED
        BY <2>2, <2>5, <2>8, <3>1, <4>1
    <3> QED
      BY <1>0, <2>8, <3>1 DEF Places
  <2> QED
    BY <1>0, <2>5, <2>8, <2>9, ReceivedIs DEF BufferInv
<1>6. HandledAsSent'
  BY <1>2, <1>5 DEF HandledAsSent
<1> QED
  BY <1>4, <1>6 DEF BufferInv

(* Whatever is received in whichever order, what is handled is the message that was
   sent and nothing of an earlier one, unless a datagram did not fit. *)
THEOREM MessagesAsSent == Spec => []HandledAsSent
<1>1. Init => BufferInv
  <2> SUFFICES ASSUME Init PROVE BufferInv
    OBVIOUS
  <2>1. buffer \in [Places -> Part] /\ RestIsShort /\ spoiled \in BOOLEAN
    BY DEF Init, Cleared, Part, RestIsShort
  <2>2. HandledAsSent
    BY DEF Init, HandledAsSent
  <2> QED
    BY <2>1, <2>2 DEF BufferInv
<1>2. BufferInv /\ [Next]_vars => BufferInv'
  <2> SUFFICES ASSUME BufferInv, [Next]_vars PROVE BufferInv'
    OBVIOUS
  <2>1. ASSUME UNCHANGED <<buffer, spoiled, handled>>
        PROVE  BufferInv'
    BY <2>1 DEF BufferInv, RestIsShort, HandledAsSent
  <2>2. CASE load_server_config
    BY <2>1, <2>2 DEF load_server_config, proxy
  <2>3. CASE NoConfigFile
    BY <2>1, <2>3 DEF NoConfigFile
  <2>4. CASE start_listening
    BY <2>1, <2>4 DEF start_listening
  <2>5. CASE connect_to_database
    BY <2>1, <2>5 DEF connect_to_database
  <2>6. CASE Loop
    <3>1. CASE Exit
      BY <2>1, <3>1 DEF Exit
    <3> QED
      BY <2>6, <3>1, SkipKeeps, HandleKeeps DEF Loop
  <2>7. CASE UNCHANGED vars
    BY <2>1, <2>7 DEF vars, proxy
  <2> QED
    BY <2>2, <2>3, <2>4, <2>5, <2>6, <2>7 DEF Next
<1>3. BufferInv => HandledAsSent
  BY DEF BufferInv
<1> QED
  BY <1>1, <1>2, <1>3, PTL DEF Spec
-----------------------------------------------------------------------------
(* The configuration file. *)

(* What was read so far has given a field the value it has, or nothing has. *)
LastIs(f, i) == /\ i \in Settings(f) /\ i <= read
                /\ \A k \in Settings(f) : k <= read => k <= i
ReadSoFar(f) == \/ cfg[f] = Nothing /\ \A k \in Settings(f) : k > read
                \/ \E i \in Settings(f) : LastIs(f, i) /\ cfg[f] = file[i].value
ConfigInv == /\ \E n \in Nat : file \in [1 .. n -> Lines]
             /\ read \in Nat
             /\ DOMAIN cfg = Fields
             /\ ~closed /\ WellFormed => \A f \in Fields : ReadSoFar(f)

LEMMA ConfigStarts == ConfigInit(MaxLines) => ConfigInv
<1> SUFFICES ASSUME ConfigInit(MaxLines) PROVE ConfigInv
  OBVIOUS
<1>1. \E n \in Nat : file \in [1 .. n -> Lines]
  BY SizeAssumption DEF ConfigInit, Files
<1>2. read = 0 /\ cfg = [f \in Fields |-> Nothing]
  BY DEF ConfigInit
<1>3. \A f \in Fields : ReadSoFar(f)
  BY <1>1, <1>2 DEF ReadSoFar, Settings
<1> QED
  BY <1>1, <1>2, <1>3 DEF ConfigInv

LEMMA ReadLineKeeps ==
    ASSUME ConfigInv, ReadLine
    PROVE  ConfigInv'
<1>1. /\ file' = file /\ closed' = closed /\ closed = FALSE
      /\ read' = read + 1 /\ read \in Nat
  BY DEF ReadLine, ConfigInv
<1>2. PICK n \in Nat : file \in [1 .. n -> Lines]
  BY DEF ConfigInv
<1>3. DOMAIN cfg' = Fields
  BY DEF ConfigInv, ReadLine
<1>4. read + 1 \in DOMAIN file
  BY DEF ReadLine, AtEnd
<1> DEFINE line == file[read + 1]
<1>5. line \in Lines
  BY <1>2, <1>4
<1>6. ASSUME WellFormed', NEW f \in Fields
      PROVE  ReadSoFar(f)'
  <2>1. WellFormed /\ Settings(f)' = Settings(f) /\ \A k \in Settings(f) : k \in Nat
    BY <1>1, <1>2, <1>6 DEF WellFormed, Settings
  <2>2. ReadSoFar(f)
    BY <1>1, <2>1 DEF ConfigInv
  <2>3. ASSUME line.field # f, cfg'[f] = cfg[f]
        PROVE  ReadSoFar(f)'
    <3>1. read + 1 \notin Settings(f)
      BY <2>3 DEF Settings
    <3>2. \A k \in Settings(f) : k <= read + 1 <=> k <= read
      BY <1>1, <2>1, <3>1
    <3>3. CASE cfg[f] = Nothing /\ \A k \in Settings(f) : k > read
      BY <1>1, <2>1, <2>3, <3>2, <3>3 DEF ReadSoFar
    <3>4. CASE \E i \in Settings(f) : LastIs(f, i) /\ cfg[f] = file[i].value
      <4>1. PICK i \in Settings(f) : LastIs(f, i) /\ cfg[f] = file[i].value
        BY <3>4
      <4>2. LastIs(f, i)'
        BY <1>1, <2>1, <3>2, <4>1 DEF LastIs
      <4> QED
        BY <1>1, <2>1, <2>3, <4>1, <4>2 DEF ReadSoFar
    <3> QED
      BY <2>2, <3>3, <3>4 DEF ReadSoFar
  <2>4. CASE Skipped(line)
    <3>1. line.field = Nothing
      BY <1>5, <2>4 DEF Lines, Skipped
    <3>2. line.field # f
      BY <3>1, NothingAssumption
    <3> QED
      BY <2>3, <2>4, <3>2 DEF ReadLine
  <2>5. CASE ~Skipped(line)
    <3>1. line.is = "setting" /\ line.field \in Fields \cup {"unknown"}
      BY <1>5, <2>5 DEF Lines, Skipped
    <3>2. line.field # Nothing /\ line.value # Nothing
      BY <1>4, <2>1, <3>1, NothingAssumption DEF WellFormed
    <3>3. /\ field' = line.field /\ value' = line.value
          /\ cfg' = IF line.field \in Fields THEN [cfg EXCEPT ![line.field] = line.value] ELSE cfg
      BY <2>5, <3>2 DEF ReadLine, Scanned
    <3>4. CASE line.field # f
      <4>1. cfg'[f] = cfg[f]
        BY <3>3, <3>4
      <4> QED
        BY <2>3, <3>4, <4>1
    <3>5. CASE line.field = f
      <4>1. cfg'[f] = line.value
        BY <3>3, <3>5 DEF ConfigInv
      <4> PICK i \in Nat : i = read + 1
        BY <1>1
      <4>2. i \in Settings(f)
        BY <1>4, <3>5 DEF Settings
      <4>3. LastIs(f, i)'
        BY <1>1, <2>1, <4>2 DEF LastIs
      <4> QED
        BY <1>1, <2>1, <4>1, <4>2, <4>3 DEF ReadSoFar
    <3> QED
      BY <3>4, <3>5
  <2> QED
    BY <2>4, <2>5
<1>7. (\E k \in Nat : file \in [1 .. k -> Lines])'
  BY <1>1, <1>2
<1>8. read' \in Nat
  BY <1>1
<1> QED
  BY <1>3, <1>6, <1>7, <1>8 DEF ConfigInv

LEMMA ConfigKeeps ==
    ASSUME ConfigInv, [Next]_vars
    PROVE  ConfigInv'
<1>1. ASSUME closed', (\E n \in Nat : file \in [1 .. n -> Lines])',
             read' \in Nat, cfg' = cfg
      PROVE  ConfigInv'
  BY <1>1 DEF ConfigInv
<1>2. ASSUME UNCHANGED config
      PROVE  ConfigInv'
  BY <1>2 DEF ConfigInv, config, ReadSoFar, LastIs, Settings, WellFormed
<1>3. CASE load_server_config
  <2>1. CASE Close
    BY <1>1, <2>1 DEF Close, ConfigInv
  <2> QED
    BY <1>3, <2>1, ReadLineKeeps DEF load_server_config
<1>4. CASE start_listening
  <2>1. << >> \in [1 .. 0 -> Lines]
    OBVIOUS
  <2>2. file' = << >> /\ read' = 0 /\ closed /\ closed' = closed /\ cfg' = cfg
    BY <1>4 DEF start_listening
  <2> QED
    BY <1>1, <2>1, <2>2
<1>5. CASE NoConfigFile \/ connect_to_database \/ Loop \/ UNCHANGED vars
  BY <1>2, <1>5 DEF NoConfigFile, connect_to_database, Loop, Skip, Handle, Exit, vars
<1> QED
  BY <1>3, <1>4, <1>5 DEF Next

(* Of a file written as its own comment says, every line counts, and of several for
   one field the last. *)
THEOREM ConfigAsWritten == Spec => SettingsTakeEffect
<1> DEFINE Effect == (~closed /\ closed' /\ WellFormed) =>
              \A f \in Fields : cfg'[f] = IF Settings(f) = {} THEN Nothing
                                          ELSE file[Max(Settings(f))].value
<1>1. Init => ConfigInv
  BY ConfigStarts DEF Init
<1>2. ConfigInv /\ [Next]_vars => ConfigInv'
  BY ConfigKeeps
<1>3. ConfigInv /\ [Next]_vars => [Effect]_config
  <2> SUFFICES ASSUME ConfigInv, [Next]_vars, ~closed, closed', WellFormed, NEW f \in Fields
               PROVE  cfg'[f] = IF Settings(f) = {} THEN Nothing
                                ELSE file[Max(Settings(f))].value
    OBVIOUS
  <2>1. Close
    BY DEF Next, load_server_config, ReadLine, NoConfigFile, start_listening,
           connect_to_database, Loop, Skip, Handle, Exit, vars, config
  <2>2. PICK n \in Nat : file \in [1 .. n -> Lines]
    BY DEF ConfigInv
  <2>3. Settings(f) \subseteq 1 .. n /\ read \in Nat
    BY <2>2 DEF Settings, ConfigInv
  <2>4. read + 1 \notin 1 .. n
    BY <2>1, <2>2 DEF Close, AtEnd, WellFormed
  <2>5. \A k \in Settings(f) : k <= read
    BY <2>3, <2>4
  <2>6. ReadSoFar(f) /\ cfg' = cfg
    BY <2>1 DEF ConfigInv, Close
  <2>7. CASE Settings(f) = {}
    BY <2>6, <2>7 DEF ReadSoFar
  <2>8. CASE Settings(f) # {}
    <3>1. Settings(f) \subseteq 0 .. n
      BY <2>3
    <3>2. Max(Settings(f)) \in Settings(f) /\ \A k \in Settings(f) : k <= Max(Settings(f))
      BY <2>8, <3>1, MaxIsGreatest
    <3>3. \A k \in Settings(f) : ~(k > read)
      BY <2>3, <2>5
    <3>4. PICK i \in Settings(f) : LastIs(f, i) /\ cfg[f] = file[i].value
      BY <2>6, <2>8, <3>3 DEF ReadSoFar
    <3>5. i = Max(Settings(f))
      BY <2>3, <2>5, <3>2, <3>4 DEF LastIs
    <3> QED
      BY <2>6, <2>8, <3>4, <3>5
  <2> QED
    BY <2>7, <2>8
<1> QED
  BY <1>1, <1>2, <1>3, PTL DEF Spec, SettingsTakeEffect
=============================================================================
