--------------------------- MODULE CliFilesProofs ---------------------------
(***************************************************************************)
(* What the commands leave in their files, for any processes, addresses,   *)
(* countries and number of commands.                                       *)
(***************************************************************************)
EXTENDS CliFiles, BpfMapProofs, SequenceTheorems

----------------------------------------------------------------------------
\* Lines and what is done to them.

\* A line at the end is one more entry.
LEMMA RangeAppend ==
    ASSUME NEW S, NEW s \in Seq(S), NEW e \in S
    PROVE  Append(s, e) \in Seq(S) /\ Range(Append(s, e)) = Range(s) \cup {e}
<1>1. /\ Append(s, e) \in Seq(S) /\ DOMAIN Append(s, e) = 1..Len(s) + 1
      /\ \A i \in 1..Len(s) : Append(s, e)[i] = s[i]
      /\ Append(s, e)[Len(s) + 1] = e
      /\ DOMAIN s = 1..Len(s) /\ Len(s) \in Nat
  BY AppendProperties
<1> QED
  BY <1>1 DEF Range

LEMMA RangeEmpty == \A S : << >> \in Seq(S) /\ Range(<< >>) = {}
  BY DEF Range

\* newLines of removeIPFromFile() while it reads the first n lines.
Loop(newLines, data, text, n) ==
    newLines = [i \in 0..n |->
                  IF i = 0 THEN <<>>
                  ELSE IF data[i] = text THEN newLines[i - 1]
                  ELSE Append(newLines[i - 1], data[i])]

\* The loop is over after each number of lines: a least one that it does not
\* get to has one before it.
LEMMA LoopRuns ==
    ASSUME NEW data, NEW text, NEW len \in Nat
    PROVE  \E g : Loop(g, data, text, len)
<1> DEFINE T == {k \in Nat : ~\E g : Loop(g, data, text, k)}
<1> SUFFICES ASSUME T # {} PROVE FALSE
  OBVIOUS
<1>1. PICK k \in T : \A m \in T : k <= m
  <2>1. T \subseteq Nat
    OBVIOUS
  <2> QED
    BY <2>1, LeastNatural
<1>2. k \in Nat /\ ~\E g : Loop(g, data, text, k)
  BY <1>1
<1>3. CASE k = 0
  <2> DEFINE g == [i \in 0..0 |-> <<>>]
  <2>1. g = [i \in 0..0 |-> IF i = 0 THEN <<>>
                            ELSE IF data[i] = text THEN g[i - 1]
                            ELSE Append(g[i - 1], data[i])]
    OBVIOUS
  <2>2. Loop(g, data, text, 0)
    BY <2>1 DEF Loop
  <2> QED
    BY <1>2, <1>3, <2>2
<1>4. CASE k > 0
  <2>1. k - 1 \in Nat /\ k - 1 \notin T
    BY <1>1, <1>2, <1>4
  <2>2. PICK h : Loop(h, data, text, k - 1)
    BY <2>1
  <2>3. h = [i \in 0..k - 1 |-> IF i = 0 THEN <<>>
                                ELSE IF data[i] = text THEN h[i - 1]
                                ELSE Append(h[i - 1], data[i])]
    BY <2>2 DEF Loop
  <2> DEFINE g == [i \in 0..k |-> IF i = 0 THEN <<>>
                                  ELSE IF data[i] = text THEN h[i - 1]
                                  ELSE Append(h[i - 1], data[i])]
  <2>4. \A i \in 0..k - 1 : g[i] = h[i]
    <3> SUFFICES ASSUME NEW i \in 0..k - 1 PROVE g[i] = h[i]
      OBVIOUS
    <3>1. h[i] = IF i = 0 THEN <<>>
                 ELSE IF data[i] = text THEN h[i - 1]
                 ELSE Append(h[i - 1], data[i])
      BY <2>3
    <3>2. i \in 0..k
      BY <1>2
    <3> QED
      BY <3>1, <3>2
  <2>5. \A i \in 0..k : i # 0 => g[i - 1] = h[i - 1]
    <3> HIDE DEF g
    <3>1. \A i \in 0..k : i # 0 => i - 1 \in 0..k - 1
      BY <1>2
    <3> QED
      BY <2>4, <3>1
  <2>6. g = [i \in 0..k |-> IF i = 0 THEN <<>>
                            ELSE IF data[i] = text THEN g[i - 1]
                            ELSE Append(g[i - 1], data[i])]
    BY <2>5
  <2>7. Loop(g, data, text, k)
    BY <2>6 DEF Loop
  <2> QED
    BY <1>2, <2>7
<1> QED
  BY <1>2, <1>3, <1>4

\* What the first n lines hold.
FirstLines(data, n) == {data[i] : i \in 1..n}

\* After n lines the loop has kept those that are not the text.
LEMMA LoopKeeps ==
    ASSUME NEW S, NEW data \in Seq(S), NEW text, NEW g,
           Loop(g, data, text, Len(data)), NEW n \in 0..Len(data)
    PROVE  /\ g[n] \in Seq(S)
           /\ Range(g[n]) = FirstLines(data, n) \ {text}
<1> DEFINE Kept(k) == /\ g[k] \in Seq(S)
                      /\ Range(g[k]) = FirstLines(data, k) \ {text}
           T == {k \in 0..Len(data) : ~Kept(k)}
<1> SUFFICES ASSUME T # {} PROVE FALSE
  OBVIOUS
<1>0. Len(data) \in Nat /\ \A i \in 1..Len(data) : data[i] \in S
  OBVIOUS
<1>1. PICK k \in T : \A m \in T : k <= m
  <2>1. T \subseteq Nat
    BY <1>0
  <2> HIDE DEF T
  <2> QED
    BY <2>1, LeastNatural
<1>2. k \in 0..Len(data) /\ ~Kept(k)
  BY <1>1
<1>3. g[k] = IF k = 0 THEN <<>>
             ELSE IF data[k] = text THEN g[k - 1]
             ELSE Append(g[k - 1], data[k])
  BY <1>2 DEF Loop
<1>4. CASE k = 0
  <2>1. g[k] = <<>> /\ FirstLines(data, k) = {}
    BY <1>3, <1>4 DEF FirstLines
  <2> QED
    BY <2>1, <1>2, RangeEmpty
<1>5. CASE k # 0
  <2>1. k - 1 \in 0..Len(data) /\ k - 1 \notin T /\ k \in 1..Len(data)
    <3>1. k - 1 \in 0..Len(data) /\ k \in 1..Len(data) /\ ~(k <= k - 1)
      BY <1>2, <1>0, <1>5
    <3> HIDE DEF T
    <3> QED
      BY <1>1, <3>1
  <2>2. Kept(k - 1)
    BY <2>1
  <2>3. FirstLines(data, k) = FirstLines(data, k - 1) \cup {data[k]}
    <3>1. 1..k = (1..k - 1) \cup {k}
      BY <1>2, <1>0, <1>5
    <3> QED
      BY <3>1 DEF FirstLines
  <2>4. CASE data[k] = text
    BY <2>2, <2>3, <2>4, <1>2, <1>3, <1>5
  <2>5. CASE data[k] # text
    <3>1. data[k] \in S
      BY <2>1, <1>0
    <3>2. g[k] = Append(g[k - 1], data[k])
      BY <2>5, <1>3, <1>5
    <3>3. /\ g[k] \in Seq(S)
          /\ Range(g[k]) = Range(g[k - 1]) \cup {data[k]}
      BY <3>1, <3>2, <2>2, RangeAppend
    <3> QED
      BY <3>3, <2>2, <2>3, <2>5, <1>2
  <2> QED
    BY <2>4, <2>5
<1> QED
  BY <1>4, <1>5

\* removeIPFromFile() removes every line that is the text, and only those.
LEMMA WithoutLineKeeps ==
    ASSUME NEW S, NEW data \in Seq(S), NEW text
    PROVE  /\ WithoutLine(data, text) \in Seq(S)
           /\ Range(WithoutLine(data, text)) = Range(data) \ {text}
<1> DEFINE g == CHOOSE h : Loop(h, data, text, Len(data))
<1>1. Len(data) \in Nat /\ DOMAIN data = 1..Len(data)
  OBVIOUS
<1>2. Loop(g, data, text, Len(data))
  BY <1>1, LoopRuns
<1>3. WithoutLine(data, text) = g[Len(data)]
  BY DEF WithoutLine, Loop
<1> HIDE DEF g
<1>4. /\ g[Len(data)] \in Seq(S)
      /\ Range(g[Len(data)]) = FirstLines(data, Len(data)) \ {text}
  <2>1. Len(data) \in 0..Len(data)
    BY <1>1
  <2> QED
    BY <2>1, <1>2, LoopKeeps
<1>5. Range(data) = FirstLines(data, Len(data))
  BY <1>1 DEF Range, FirstLines
<1> QED
  BY <1>3, <1>4, <1>5

----------------------------------------------------------------------------
\* The constants, one by one.
LEMMA Names ==
    /\ Whitelist # Blacklist /\ Whitelist # Yaml /\ Blacklist # Yaml
    /\ Settings # KeyLine /\ Settings # Torn /\ KeyLine # Torn
    /\ Settings \notin Texts \cup Countries
    /\ KeyLine \notin Texts \cup Countries
    /\ Torn \notin Texts \cup Countries
    /\ DOMAIN Key = Texts /\ MaxCommands \in Nat
<1>1. DOMAIN <<Whitelist, Blacklist, Yaml>> = {1, 2, 3}
      /\ DOMAIN <<Settings, KeyLine, Torn>> = {1, 2, 3}
  OBVIOUS
<1> QED
  BY <1>1, FilesAssumption DEF IsInjective

\* Lines that are put before what is left of others, one of them cut.
LEMMA LinesLeft ==
    ASSUME NEW old \in Seq(Lines), NEW new \in Seq(Lines), NEW k \in 0..Len(old)
    PROVE  /\ new \o SubSeq(old, k + 1, Len(old)) \in Seq(Lines)
           /\ Range(new \o SubSeq(old, k + 1, Len(old)))
                 \subseteq Range(new) \cup Range(old)
           /\ Range(new) \subseteq Range(new \o SubSeq(old, k + 1, Len(old)))
<1> DEFINE rest == SubSeq(old, k + 1, Len(old))
<1>1. Len(old) \in Nat /\ k \in Nat /\ k <= Len(old)
  OBVIOUS
<1>2. \A i \in k + 1..Len(old) : old[i] \in Lines
  BY <1>1
<1>3. /\ rest \in Seq(Lines) /\ Len(rest) = Len(old) - k
      /\ \A i \in 1..Len(rest) : rest[i] = old[k + i]
  <2> DEFINE m == k + 1
             len == Len(old)
  <2>1. /\ m \in 1..len + 1 /\ len \in Nat /\ \A i \in m..len : old[i] \in Lines
        /\ len - m + 1 = len - k /\ \A i \in Nat : m + i - 1 = k + i
    BY <1>1, <1>2
  <2>2. /\ SubSeq(old, m, len) \in Seq(Lines)
        /\ Len(SubSeq(old, m, len)) = len - m + 1
        /\ \A i \in 1..len - m + 1 : SubSeq(old, m, len)[i] = old[m + i - 1]
    <3> HIDE DEF m, len
    <3> QED
      BY SMTT(30), <2>1, SubSeqProperties
  <2>3. rest = SubSeq(old, m, len)
    OBVIOUS
  <2> HIDE DEF rest
  <2>4. Len(rest) = len - k
    BY <2>1, <2>2, <2>3
  <2>5. \A i \in 1..Len(rest) : rest[i] = old[k + i]
    <3> SUFFICES ASSUME NEW i \in 1..Len(rest) PROVE rest[i] = old[k + i]
      OBVIOUS
    <3>1. i \in 1..len - m + 1 /\ m + i - 1 = k + i
      BY <2>1, <2>4, <1>1
    <3> QED
      BY <2>2, <2>3, <3>1
  <2> QED
    BY <2>2, <2>3, <2>4, <2>5
<1> HIDE DEF rest
<1>4. Range(rest) \subseteq Range(old)
  <2>1. DOMAIN rest = 1..Len(rest) /\ DOMAIN old = 1..Len(old)
    BY <1>3
  <2>2. \A i \in 1..Len(rest) : k + i \in 1..Len(old)
    BY <1>1, <1>3
  <2> QED
    BY <2>1, <2>2, <1>3 DEF Range
<1>5. /\ new \o rest \in Seq(Lines)
      /\ Range(new \o rest) = Range(new) \cup Range(rest)
  BY <1>3, ConcatProperties, RangeConcatenation
<1> QED
  BY <1>4, <1>5 DEF rest

\* What a rewritten file holds: the new lines, all of them, and what the old
\* ones or their ends spell.
LEMMA OverwrittenLines ==
    ASSUME NEW old \in Seq(Lines), NEW new \in Seq(Lines),
           NEW lines \in Overwritten(old, new)
    PROVE  /\ lines \in Seq(Lines)
           /\ Range(new) \subseteq Range(lines)
           /\ Range(lines) \subseteq Range(new) \cup Spelled(old)
<1>1. /\ Len(old) \in Nat /\ DOMAIN old = 1..Len(old)
      /\ \A k \in 1..Len(old) : k \in 0..Len(old) /\ old[k] \in Lines
      /\ old # <<>> => 1 \in 1..Len(old)
  OBVIOUS
<1>2. CASE \E k \in 1..Len(old), end \in Lines :
              /\ lines = new \o <<end>> \o SubSeq(old, k + 1, Len(old))
              /\ end \in Parts[old[k]]
  <2>1. PICK k \in 1..Len(old), end \in Lines :
             /\ lines = new \o <<end>> \o SubSeq(old, k + 1, Len(old))
             /\ end \in Parts[old[k]]
    BY <1>2
  <2> DEFINE one == <<end>>
             first == new \o one
  <2>2. one \in Seq(Lines) /\ Range(one) = {end}
    BY <2>1 DEF Range
  <2>3. lines = first \o SubSeq(old, k + 1, Len(old))
    BY <2>1
  <2> HIDE DEF one
  <2>4. first \in Seq(Lines) /\ Range(first) = Range(new) \cup {end}
    BY <2>2, ConcatProperties, RangeConcatenation
  <2> HIDE DEF first
  <2>5. /\ lines \in Seq(Lines)
        /\ Range(lines) \subseteq Range(first) \cup Range(old)
        /\ Range(first) \subseteq Range(lines)
    <3>1. k \in 0..Len(old)
      BY <1>1
    <3> QED
      BY <2>3, <2>4, <3>1, LinesLeft
  <2>6. end \in Spelled(old) /\ Range(old) \subseteq Spelled(old)
    <3>1. old[k] \in Range(old)
      BY <1>1 DEF Range
    <3> QED
      BY <3>1, <2>1 DEF Spelled
  <2> QED
    BY <2>4, <2>5, <2>6
<1>3. CASE \E k \in 0..Len(old) : lines = new \o SubSeq(old, k + 1, Len(old))
  <2>1. PICK k \in 0..Len(old) : lines = new \o SubSeq(old, k + 1, Len(old))
    BY <1>3
  <2> QED
    BY <2>1, LinesLeft DEF Spelled
<1>4. CASE new = <<>> /\ lines = old
  BY <1>4, RangeEmpty DEF Spelled
<1>5. \A k \in 1..Len(old) : Parts[old[k]] \subseteq Lines
  BY <1>1, PartsAssumption
<1>6. \/ new = <<>> /\ lines = old
      \/ \E k \in 0..Len(old) : lines = new \o SubSeq(old, k + 1, Len(old))
      \/ \E k \in 1..Len(old) : \E end \in Parts[old[k]] :
            lines = new \o <<end>> \o SubSeq(old, k + 1, Len(old))
  <2> DEFINE Cut(k) == {new \o <<end>> \o SubSeq(old, k + 1, Len(old)) :
                           end \in Parts[old[k]]}
             After(k) == new \o SubSeq(old, k + 1, Len(old))
  <2>1. lines \in IF new = <<>>
                  THEN {old} \cup IF old = <<>> THEN {} ELSE Cut(1)
                  ELSE {After(k) : k \in IF old = <<>> THEN {0} ELSE DOMAIN old}
                          \cup UNION {Cut(k) : k \in DOMAIN old}
    BY DEF Overwritten
  <2> HIDE DEF Cut, After
  <2>2. \/ new = <<>> /\ lines = old
        \/ \E k \in 0..Len(old) : lines = After(k)
        \/ \E k \in 1..Len(old) : lines \in Cut(k)
    <3>1. 0 \in 0..Len(old)
      BY <1>1
    <3> QED
      BY <2>1, <1>1, <3>1
  <2> QED
    BY <2>2 DEF Cut, After
<1> QED
  BY <1>2, <1>3, <1>4, <1>5, <1>6

\* An appended line is there, or, without a newline before it, a longer one.
LEMMA AppendedLines ==
    ASSUME NEW f, file[f] \in Seq(Lines), NEW text \in Texts,
           NEW lines \in Appended(f, text)
    PROVE  /\ lines \in Seq(Lines)
           /\ f \notin bare => Range(lines) = Range(file[f]) \cup {text}
<1>1. text \in Lines /\ Torn \in Lines /\ Texts \subseteq Lines
  BY DEF Lines
<1>2. CASE f \notin bare
  <2>1. lines = Append(file[f], text) /\ text \in Lines
    BY <1>1, <1>2 DEF Appended
  <2> QED
    BY <2>1, <1>2, RangeAppend
<1>3. CASE f \in bare
  <2>1. PICK l \in Lines : lines = [file[f] EXCEPT ![Len(file[f])] = l]
    BY <1>1, <1>3 DEF Appended
  <2> DEFINE old == file[f]
  <2>2. old \in Seq(Lines) /\ lines = [old EXCEPT ![Len(old)] = l]
    BY <2>1
  <2> HIDE DEF old
  <2>3. /\ Len(old) \in Nat /\ DOMAIN old = 1..Len(old)
        /\ \A i \in 1..Len(old) : old[i] \in Lines
    BY <2>2
  <2>4. DOMAIN lines = 1..Len(old) /\ \A i \in 1..Len(old) : lines[i] \in Lines
    BY <2>2, <2>3
  <2>5. lines = [i \in 1..Len(old) |-> lines[i]]
    BY <2>2, <2>3
  <2>6. lines \in Seq(Lines)
    BY <2>3, <2>4, <2>5
  <2> QED
    BY <2>6, <1>3
<1> QED
  BY <1>2, <1>3

\* What a command means its file to hold: what it read without the entry that
\* it removes, or with the country that it adds if there is a list for it.
LEMMA RewrittenLines ==
    ASSUME NEW c, c.data \in Seq(Lines), c.text \in Lines
    PROVE  /\ Rewritten(c) \in Seq(Lines)
           /\ c.op # "add" => Range(Rewritten(c)) = Range(c.data) \ {c.text}
           /\ c.op = "add" =>
                 Range(Rewritten(c)) = Range(c.data) \cup
                    IF KeyLine \in Range(c.data) THEN {c.text} ELSE {}
<1>1. CASE c.op # "add"
  BY <1>1, WithoutLineKeeps DEF Rewritten
<1>2. CASE c.op = "add"
  BY <1>2, RangeAppend DEF Rewritten, WithCountry
<1> QED
  BY <1>1, <1>2

----------------------------------------------------------------------------
Commands == [pc : {"idle", "read", "truncated"}, op : {"add", "remove"},
             file : Files, text : Lines, data : Seq(Lines), alone : BOOLEAN]

\* The types, with the histories as functions and the command's entry one of
\* those its file is a list of.
TypeInv ==
    /\ TypeOK
    /\ kept \in [Files -> SUBSET (Texts \cup Countries)]
    /\ gone \in [Files -> SUBSET (Texts \cup Countries)]
    /\ \A p \in Proc :
          proc[p].pc # "idle" => proc[p].text \in Entries(proc[p].file)

\* A command that has begun has read lines and names an entry.
LEMMA CommandTypes ==
    ASSUME TypeInv, NEW p \in Proc
    PROVE  /\ proc[p] \in Commands
           /\ file[proc[p].file] \in Seq(Lines)
           /\ Rewritten(proc[p]) \in Seq(Lines)
<1>1. proc[p] \in Commands
  BY DEF TypeInv, TypeOK, Commands
<1>2. proc[p].data \in Seq(Lines) /\ proc[p].text \in Lines /\ proc[p].file \in Files
  BY <1>1 DEF Commands
<1>3. file[proc[p].file] \in Seq(Lines)
  BY <1>2 DEF TypeInv, TypeOK
<1> QED
  BY <1>1, <1>2, <1>3, RewrittenLines

\* The daemon and the commands start with nothing done.
LEMMA TypeStart == Init => TypeInv
<1> SUFFICES ASSUME Init PROVE TypeInv
  OBVIOUS
<1>1. PICK y \in YamlFiles, hand \in [Lists -> HandFiles] :
         /\ file = [f \in Files |-> IF f = Yaml THEN y ELSE hand[f]]
         /\ bare \in SUBSET {f \in Lists : hand[f] # <<>>}
         /\ conf = y
  BY DEF Init
<1>2. y \in Seq(Lines)
  <2>1. y = <<Settings>> \/ y = <<Settings, KeyLine>>
    BY FilesAssumption
  <2>2. Settings \in Lines /\ KeyLine \in Lines
    BY DEF Lines
  <2>3. <<Settings>> \in Seq(Lines)
    BY <2>2
  <2>4. <<Settings, KeyLine>> \in Seq(Lines)
    BY <2>2
  <2> QED
    BY <2>1, <2>3, <2>4
<1>3. /\ file \in [Files -> Seq(Lines)] /\ bare \subseteq Lists
      /\ conf \in Seq(Lines) \cup {Defaults}
  <2>1. \A f \in Lists : hand[f] \in Seq(Lines)
    <3>1. Seq(Texts) \subseteq Seq(Lines)
      <4>1. Texts \subseteq Lines
        BY DEF Lines
      <4> QED
        BY <4>1
    <3> QED
      BY <3>1, FilesAssumption
  <2> QED
    BY <1>1, <1>2, <2>1 DEF Files
<1>4. Idle \in Commands /\ Idle.pc = "idle"
  BY RangeEmpty DEF Idle, Commands, Files, Lines
<1>5. proc \in [Proc -> Commands] /\ \A p \in Proc : proc[p].pc = "idle"
  BY <1>4 DEF Init
<1>6. /\ live \in [Lists -> SUBSET (Range(Key) \cup AdminKeys \cup SshKeys \cup {Torn})]
      /\ kept \in [Files -> SUBSET (Texts \cup Countries)]
      /\ gone \in [Files -> SUBSET (Texts \cup Countries)]
      /\ \A f \in Files : kept[f] \subseteq Entries(f) /\ gone[f] \subseteq Entries(f)
      /\ up \in BOOLEAN /\ exposed \in BOOLEAN
      /\ commands \in 0..MaxCommands
  <2>1. /\ live = [f \in Lists |-> {}]
        /\ kept = [f \in Files |-> {}] /\ gone = [f \in Files |-> {}]
        /\ up = FALSE /\ exposed = FALSE /\ commands = 0
    BY DEF Init
  <2>2. commands \in 0..MaxCommands
    BY <2>1, Names
  <2> QED
    BY <2>1, <2>2
<1> QED
  BY <1>3, <1>5, <1>6 DEF TypeInv, TypeOK, Commands

\* Each step of a command or of the daemon keeps the types.
LEMMA TypeStep == TypeInv /\ [Next]_vars => TypeInv'
<1> SUFFICES ASSUME TypeInv, [Next]_vars PROVE TypeInv'
  OBVIOUS
<1> DEFINE LiveKeys == Range(Key) \cup AdminKeys \cup SshKeys \cup {Torn}
           FileOK == file \in [Files -> Seq(Lines)] /\ bare \subseteq Lists
           ProcOK == /\ proc \in [Proc -> Commands]
                     /\ \A p \in Proc :
                           proc[p].pc # "idle" =>
                              proc[p].text \in Entries(proc[p].file)
           HistoryOK == /\ kept \in [Files -> SUBSET (Texts \cup Countries)]
                        /\ gone \in [Files -> SUBSET (Texts \cup Countries)]
                        /\ \A f \in Files : /\ kept[f] \subseteq Entries(f)
                                            /\ gone[f] \subseteq Entries(f)
           DaemonOK == /\ up \in BOOLEAN /\ exposed \in BOOLEAN
                       /\ live \in [Lists -> SUBSET LiveKeys]
                       /\ conf \in Seq(Lines) \cup {Defaults}
<1>0. FileOK /\ ProcOK /\ HistoryOK /\ DaemonOK /\ commands \in 0..MaxCommands
  BY DEF TypeInv, TypeOK, Commands
<1>a. (FileOK /\ ProcOK /\ HistoryOK /\ DaemonOK /\ commands \in 0..MaxCommands)'
         => TypeInv'
  BY DEF TypeInv, TypeOK, Commands
<1>b. \A f \in Files : Entries(f) \subseteq Texts \cup Countries
  BY DEF Entries
<1>c. Lists \subseteq Files /\ \A f \in Lists : Entries(f) = Texts
  BY Names DEF Files, Lists, Entries
<1>d. Texts \cup Countries \subseteq Lines
  BY DEF Lines
<1>1. CASE UNCHANGED vars
  BY <1>1, <1>0, <1>a DEF vars
<1>2. ASSUME NEW f \in Lists, NEW text \in Texts, AddLine(f, text) PROVE TypeInv'
  <2>1. FileOK'
    <3>1. Appended(f, text) \subseteq Seq(Lines)
      BY <1>0, <1>c, AppendedLines
    <3> QED
      BY <3>1, <1>2, <1>0, <1>c DEF AddLine
  <2>2. HistoryOK'
    <3>1. /\ kept' = kept \/ kept' = [kept EXCEPT ![f] = kept'[f]]
          /\ kept'[f] \subseteq kept[f] \cup {text}
      BY <1>2, <1>0, <1>c DEF AddLine
    <3>2. /\ gone' = gone \/ gone' = [gone EXCEPT ![f] = gone'[f]]
          /\ gone'[f] \subseteq gone[f]
      BY <1>2, <1>0, <1>c DEF AddLine
    <3>3. /\ kept'[f] \subseteq Entries(f) /\ gone'[f] \subseteq Entries(f)
          /\ f \in Files
      BY <3>1, <3>2, <1>0, <1>c
    <3> QED
      BY <3>1, <3>2, <3>3, <1>0, <1>b
  <2>3. ProcOK' /\ DaemonOK'
    BY <1>2, <1>0 DEF AddLine, LiveAfterCommand
  <2>4. (commands \in 0..MaxCommands)'
    BY <1>2, <1>0, Names DEF AddLine
  <2> QED
    BY <2>1, <2>2, <2>3, <2>4, <1>a
<1>3. ASSUME NEW p \in Proc, NEW f \in Files, NEW op \in {"add", "remove"},
             NEW text \in Entries(f), ReadFile(p, f, op, text)
      PROVE  TypeInv'
  <2>1. FileOK' /\ DaemonOK'
    BY <1>3, <1>0 DEF ReadFile
  <2>2. HistoryOK'
    <3>1. /\ kept' = kept \/ kept' = [kept EXCEPT ![f] = kept'[f]]
          /\ kept'[f] \subseteq kept[f]
      BY <1>3, <1>0 DEF ReadFile
    <3>2. /\ gone' = gone \/ gone' = [gone EXCEPT ![f] = gone'[f]]
          /\ gone'[f] \subseteq gone[f]
      BY <1>3, <1>0 DEF ReadFile
    <3> QED
      BY <3>1, <3>2, <1>0
  <2>3. ProcOK'
    <3> DEFINE new == [pc |-> "read", op |-> op, file |-> f, text |-> text,
                       data |-> file[f], alone |-> Rewriting(f) = {}]
               other(q) == [proc[q] EXCEPT !.alone = FALSE]
    <3>1. new \in Commands /\ new.text \in Entries(new.file)
      BY <1>3, <1>0, <1>b, <1>d DEF Commands
    <3>2. \A q \in Proc : /\ other(q) \in Commands /\ other(q).pc = proc[q].pc
                          /\ other(q).text = proc[q].text
                          /\ other(q).file = proc[q].file
      BY <1>0 DEF Commands
    <3>3. \/ proc' = proc
          \/ proc' = [q \in Proc |-> CASE q = p -> new
                                     [] q # p /\ q \in Rewriting(f) -> other(q)
                                     [] OTHER -> proc[q]]
      BY <1>3 DEF ReadFile
    <3> HIDE DEF new, other
    <3>4. \/ proc' = proc
          \/ /\ proc' \in [Proc -> Commands]
             /\ proc'[p] = new
             /\ \A q \in Proc : q # p => proc'[q] = proc[q] \/ proc'[q] = other(q)
      <4>1. CASE proc' = proc
        BY <4>1
      <4>2. CASE proc' = [q \in Proc |-> CASE q = p -> new
                                     [] q # p /\ q \in Rewriting(f) -> other(q)
                                     [] OTHER -> proc[q]]
        <5>1. /\ DOMAIN proc' = Proc /\ p \in Proc
              /\ proc'[p] = new
              /\ \A q \in Proc : q # p => proc'[q] = proc[q] \/ proc'[q] = other(q)
          BY <4>2
        <5>2. \A q \in Proc : proc[q] \in Commands
          BY <1>0
        <5>3. \A q \in Proc : proc'[q] \in Commands
          BY <3>1, <3>2, <5>1, <5>2
        <5>4. proc' \in [Proc -> Commands]
          BY <4>2, <5>3
        <5> QED
          BY <5>1, <5>4
      <4> QED
        BY <3>3, <4>1, <4>2
    <3> QED
      BY <3>1, <3>2, <3>4, <1>0
  <2>4. (commands \in 0..MaxCommands)'
    BY <1>3, <1>0, Names DEF ReadFile
  <2> QED
    BY <2>1, <2>2, <2>3, <2>4, <1>a
<1>4. ASSUME NEW p \in Proc, Truncate(p) PROVE TypeInv'
  <2> DEFINE new == [proc[p] EXCEPT !.pc = "truncated"]
  <2>1. /\ proc[p] \in Commands /\ proc[p].pc = "read"
        /\ proc' = [proc EXCEPT ![p] = new]
        /\ file' = [file EXCEPT ![proc[p].file] = <<>>] /\ bare' \subseteq bare
    BY <1>4, <1>0 DEF Truncate
  <2>2. /\ new \in Commands /\ new.text = proc[p].text
        /\ new.file = proc[p].file
    BY <2>1 DEF Commands
  <2>3. ProcOK'
    <3> HIDE DEF new
    <3> QED
      BY <2>1, <2>2, <1>0
  <2>4. FileOK'
    BY <2>1, <1>0, RangeEmpty DEF Commands
  <2>5. HistoryOK' /\ DaemonOK' /\ (commands \in 0..MaxCommands)'
    BY <1>4, <1>0 DEF Truncate
  <2> QED
    BY <2>3, <2>4, <2>5, <1>a
<1>5. Idle \in Commands /\ Idle.pc = "idle"
  BY RangeEmpty DEF Idle, Commands, Files, Lines
<1>6. ASSUME NEW p \in Proc, Write(p) PROVE TypeInv'
  <2> DEFINE c == proc[p]
             f == c.file
  <2>1. c \in Commands /\ c.pc = "truncated" /\ f \in Files /\ c.text \in Entries(f)
    BY <1>6, <1>0 DEF Write, Commands
  <2>2. ProcOK'
    BY <1>6, <1>5, <1>0 DEF Write
  <2>3. FileOK'
    <3>1. PICK lines \in Overwritten(file[f], Rewritten(c)) :
                 file' = [file EXCEPT ![f] = lines] /\ bare' = bare
      BY <1>6 DEF Write
    <3>2. lines \in Seq(Lines)
      BY <3>1, CommandTypes, OverwrittenLines
    <3> QED
      BY <3>1, <3>2, <1>0, <2>1
  <2>4. HistoryOK'
    <3> HIDE DEF c
    <3>1. /\ kept' = [kept EXCEPT ![f] = kept'[f]]
          /\ kept'[f] \in {kept[f], kept[f] \cup {c.text}}
      BY <1>6, <1>0, <2>1 DEF Write, c
    <3>2. /\ gone' = [gone EXCEPT ![f] = gone'[f]]
          /\ gone'[f] \subseteq gone[f] \cup {c.text}
      BY <1>6, <1>0, <2>1 DEF Write, c
    <3>3. kept'[f] \subseteq Entries(f) /\ gone'[f] \subseteq Entries(f)
      BY <3>1, <3>2, <1>0, <2>1
    <3> QED
      BY <3>1, <3>2, <3>3, <1>0, <1>b, <2>1
  <2>5. DaemonOK' /\ (commands \in 0..MaxCommands)'
    BY <1>6, <1>0 DEF Write, LiveAfterCommand
  <2> QED
    BY <2>2, <2>3, <2>4, <2>5, <1>a
<1>7. ASSUME NEW p \in Proc, Abort(p) PROVE TypeInv'
  <2>1. FileOK' /\ DaemonOK' /\ (commands \in 0..MaxCommands)'
    BY <1>7, <1>0 DEF Abort
  <2>2. ProcOK'
    BY <1>7, <1>5, <1>0 DEF Abort
  <2>3. HistoryOK'
    BY <1>7, <1>0 DEF Abort
  <2> QED
    BY <2>1, <2>2, <2>3, <1>a
<1>8. \A lines \in Seq(Lines) :
         Loaded(lines) \subseteq Seq(Lines) \cup {Defaults, Invalid}
  BY DEF Loaded
<1>9. file[Yaml] \in Seq(Lines)
  BY <1>0 DEF Files
<1>10. CASE Start
  <2>1. conf' \in Seq(Lines) \cup {Defaults}
    BY <1>10, <1>8, <1>9 DEF Start
  <2>2. ASSUME NEW lines, NEW k \in Keys(lines) PROVE k \subseteq LiveKeys
    <3> DEFINE named == {Key[l] : l \in Range(lines) \cap Texts}
    <3>1. named \subseteq Range(Key)
      BY Names DEF Range
    <3>2. k = named \/ k = named \cup {Torn}
      BY DEF Keys
    <3> QED
      BY <3>1, <3>2
  <2>3. \A c, ssh : ssh \in SUBSET SshKeys => Whitelisted(c, ssh) \subseteq LiveKeys
    BY DEF Whitelisted
  <2>4. live' \in [Lists -> SUBSET LiveKeys]
    <3> HIDE DEF LiveKeys
    <3> QED
      BY <1>10, <2>2, <2>3 DEF Start
  <2>5. FileOK' /\ ProcOK' /\ HistoryOK' /\ (commands \in 0..MaxCommands)'
    BY <1>10, <1>0 DEF Start
  <2>6. up' \in BOOLEAN /\ exposed' \in BOOLEAN
    BY <1>10, <1>0 DEF Start
  <2> QED
    BY <2>1, <2>4, <2>5, <2>6, <1>a
<1>11. CASE Stop
  <2>1. FileOK' /\ ProcOK' /\ HistoryOK' /\ (commands \in 0..MaxCommands)'
    BY <1>11, <1>0 DEF Stop
  <2>2. DaemonOK'
    BY <1>11, <1>0 DEF Stop
  <2> QED
    BY <2>1, <2>2, <1>a
<1>12. CASE Reload
  <2>1. conf' \in Seq(Lines) \cup {Defaults}
    BY <1>12, <1>8, <1>9, <1>0 DEF Reload, InForce
  <2>2. FileOK' /\ ProcOK' /\ HistoryOK' /\ (commands \in 0..MaxCommands)'
    BY <1>12, <1>0 DEF Reload
  <2>3. up' \in BOOLEAN /\ exposed' \in BOOLEAN /\ live' \in [Lists -> SUBSET LiveKeys]
    BY <1>12, <1>0 DEF Reload
  <2> QED
    BY <2>1, <2>2, <2>3, <1>a
<1> QED
  BY <1>1, <1>2, <1>3, <1>4, <1>6, <1>7, <1>10, <1>11, <1>12
     DEF Next, Command, Daemon

\* The files hold lines, the commands are where they may be.
THEOREM TypeCorrect == Spec => []TypeOK
<1>1. TypeInv => TypeOK
  BY DEF TypeInv
<1> QED
  BY <1>1, TypeStart, TypeStep, PTL DEF Spec

----------------------------------------------------------------------------
\* A command that rewrites a file alone holds what no command may have lost,
\* and nothing that is gone; those that rewrite it together answer for none.
EntryAt(f) ==
    /\ Truncated(f) = {} => kept[f] \subseteq Range(file[f])
    /\ gone[f] \cap Range(file[f]) = {}
    /\ f \in bare => kept[f] = {} /\ gone[f] = {} /\ Truncated(f) = {}
    /\ \A p \in Rewriting(f) :
          /\ proc[p].alone => Rewriting(f) = {p}
          /\ ~proc[p].alone => kept[f] = {} /\ gone[f] = {}
          /\ kept[f] \subseteq Range(proc[p].data)
          /\ proc[p].op = "remove" => proc[p].text \notin kept[f]
          /\ gone[f] \cap Range(proc[p].data) = {}

EntryInv == \A f \in Files : EntryAt(f)

\* A step that leaves alone a file, its history and its commands.
LEMMA EntryElsewhere ==
    ASSUME NEW f, EntryAt(f),
           file'[f] = file[f], f \in bare' => f \in bare,
           kept'[f] = kept[f], gone'[f] = gone[f],
           Rewriting(f)' = Rewriting(f),
           \A p \in Rewriting(f) : proc'[p] = proc[p]
    PROVE  EntryAt(f)'
<1>1. Truncated(f)' = Truncated(f)
  BY DEF Truncated
<1> QED
  BY <1>1 DEF EntryAt

\* Each step of a command or of the daemon keeps the entries.
LEMMA EntryStep == TypeInv /\ EntryInv /\ [Next]_vars => EntryInv'
<1> SUFFICES ASSUME TypeInv, EntryInv, [Next]_vars, NEW g \in Files
             PROVE  EntryAt(g)'
  BY DEF EntryInv
<1>0. /\ EntryAt(g)
      /\ file \in [Files -> Seq(Lines)]
      /\ proc \in [Proc -> Commands]
      /\ kept \in [Files -> SUBSET (Texts \cup Countries)]
      /\ gone \in [Files -> SUBSET (Texts \cup Countries)]
      /\ \A p \in Proc :
            proc[p].pc # "idle" => proc[p].text \in Entries(proc[p].file)
  BY DEF EntryInv, TypeInv, TypeOK, Commands
<1>a. Lists \subseteq Files /\ \A f \in Lists : Entries(f) = Texts
  BY Names DEF Files, Lists, Entries
<1>b. \A f \in Files : Entries(f) \subseteq Lines \ {Torn}
  BY Names DEF Lines, Entries
<1>1. CASE UNCHANGED <<file, bare, proc, kept, gone>>
  <2>1. Rewriting(g)' = Rewriting(g)
    BY <1>1 DEF Rewriting
  <2> QED
    BY <1>0, <1>1, <2>1, EntryElsewhere
<1>2. ASSUME NEW f \in Lists, NEW text \in Texts, AddLine(f, text)
      PROVE  EntryAt(g)'
  <2>1. Rewriting(g)' = Rewriting(g) /\ Truncated(g)' = Truncated(g) /\ proc' = proc
    BY <1>2 DEF AddLine, Rewriting, Truncated
  <2>2. CASE g # f
    <3>1. file'[g] = file[g] /\ kept'[g] = kept[g] /\ gone'[g] = gone[g]
      BY <1>0, <1>2, <2>2 DEF AddLine
    <3>2. g \in bare' => g \in bare
      BY <1>2 DEF AddLine
    <3> QED
      BY <1>0, <2>1, <3>1, <3>2, EntryElsewhere
  <2>3. CASE g = f /\ ~UNCHANGED <<file, bare, kept, gone>>
    <3>1. /\ g \notin bare'
          /\ kept'[g] = IF Rewriting(g) = {} /\ g \notin bare
                        THEN kept[g] \cup {text} ELSE kept[g]
          /\ gone'[g] = gone[g] \ {text}
          /\ file'[g] \in Appended(g, text)
      BY <1>0, <1>2, <2>3 DEF AddLine
    <3>2. g \notin bare => Range(file'[g]) = Range(file[g]) \cup {text}
      BY <1>0, <3>1, AppendedLines
    <3>3. CASE g \in bare
      <4>1. kept'[g] = {} /\ gone'[g] = {}
        BY <1>0, <3>1, <3>3 DEF EntryAt
      <4> QED
        BY <1>0, <2>1, <3>1, <4>1 DEF EntryAt
    <3>4. CASE g \notin bare
      BY <1>0, <2>1, <3>1, <3>2, <3>4 DEF EntryAt
    <3> QED
      BY <3>3, <3>4
  <2>4. CASE UNCHANGED <<file, bare, kept, gone>>
    BY <1>1, <2>1, <2>4
  <2> QED
    BY <2>2, <2>3, <2>4
<1>3. ASSUME NEW p \in Proc, NEW f \in Files, NEW op \in {"add", "remove"},
             NEW text \in Entries(f), ReadFile(p, f, op, text),
             ~UNCHANGED <<proc, kept, gone>>
      PROVE  EntryAt(g)'
  <2> DEFINE new == [pc |-> "read", op |-> op, file |-> f, text |-> text,
                     data |-> file[f], alone |-> Rewriting(f) = {}]
             other(q) == [proc[q] EXCEPT !.alone = FALSE]
  <2>1. /\ proc[p].pc = "idle" /\ file' = file /\ bare' = bare
        /\ proc' = [q \in Proc |-> CASE q = p -> new
                                   [] q # p /\ q \in Rewriting(f) -> other(q)
                                   [] OTHER -> proc[q]]
        /\ kept' = [kept EXCEPT ![f] =
                       IF Rewriting(f) # {} THEN {}
                       ELSE IF op = "remove" THEN @ \ {text} ELSE @]
        /\ gone' = [gone EXCEPT ![f] = IF Rewriting(f) # {} THEN {} ELSE @]
    BY <1>3 DEF ReadFile
  <2>2. /\ new.pc = "read" /\ new.op = op /\ new.file = f /\ new.text = text
        /\ new.data = file[f] /\ new.alone = (Rewriting(f) = {})
    OBVIOUS
  <2>3. \A q \in Proc : /\ other(q).pc = proc[q].pc /\ other(q).op = proc[q].op
                        /\ other(q).file = proc[q].file /\ other(q).text = proc[q].text
                        /\ other(q).data = proc[q].data /\ other(q).alone = FALSE
    BY <1>0 DEF Commands
  <2> HIDE DEF new, other
  <2>4. /\ proc'[p] = new
        /\ \A q \in Rewriting(f) : q # p => proc'[q] = other(q)
        /\ \A q \in Proc : q # p /\ q \notin Rewriting(f) => proc'[q] = proc[q]
    BY <2>1 DEF Rewriting
  <2>5. p \notin Rewriting(f) /\ p \notin Rewriting(g) /\ Rewriting(f) \subseteq Proc
    BY <2>1 DEF Rewriting
  <2>6. CASE g # f
    <3>1. \A q \in Rewriting(g) : q # p /\ q \notin Rewriting(f) /\ q \in Proc
      BY <2>5, <2>6 DEF Rewriting
    <3>2. \A q \in Rewriting(g) : proc'[q] = proc[q]
      BY <3>1, <2>4
    <3>3. Rewriting(g)' = Rewriting(g)
      BY <3>1, <3>2, <2>2, <2>3, <2>4, <2>6 DEF Rewriting
    <3>4. file'[g] = file[g] /\ kept'[g] = kept[g] /\ gone'[g] = gone[g]
      BY <1>0, <2>1, <2>6
    <3> QED
      BY <1>0, <2>1, <3>2, <3>3, <3>4, EntryElsewhere
  <2>7. CASE g = f
    <3>1. Rewriting(g)' = Rewriting(g) \cup {p}
      BY <2>2, <2>3, <2>4, <2>7 DEF Rewriting
    <3>2. Truncated(g)' = Truncated(g)
      BY <3>1, <2>2, <2>3, <2>4, <2>5, <2>7 DEF Truncated
    <3>3. CASE Rewriting(f) # {}
      <4>1. kept'[g] = {} /\ gone'[g] = {}
        BY <1>0, <2>1, <2>7, <3>3
      <4>3. g \in bare' => Truncated(g)' = {}
        BY <1>0, <2>1, <3>2 DEF EntryAt
      <4>2. \A q \in Rewriting(g)' : ~proc'[q].alone
        <5>1. ~proc'[p].alone
          BY <3>3, <2>2, <2>4
        <5>2. \A q \in Rewriting(f) : q \in Proc /\ q # p
          BY <2>5
        <5>3. \A q \in Rewriting(f) : ~proc'[q].alone
          BY <5>2, <2>3, <2>4
        <5> QED
          BY <5>1, <5>3, <3>1, <2>7
      <4> QED
        BY <4>1, <4>2, <4>3 DEF EntryAt
    <3>4. CASE Rewriting(f) = {}
      <4>1. /\ kept'[g] = IF op = "remove" THEN kept[g] \ {text} ELSE kept[g]
            /\ gone'[g] = gone[g] /\ file'[g] = file[g] /\ bare' = bare
        BY <1>0, <2>1, <2>7, <3>4
      <4>2. Rewriting(g)' = {p} /\ proc'[p].alone /\ proc'[p].data = file[g]
            /\ proc'[p].op = op /\ proc'[p].text = text
        BY <3>1, <3>4, <2>2, <2>4, <2>7
      <4>3. Truncated(g) = {}
        BY <3>4, <2>7 DEF Truncated
      <4> QED
        BY <1>0, <3>2, <4>1, <4>2, <4>3 DEF EntryAt
    <3> QED
      BY <3>3, <3>4
  <2> QED
    BY <2>6, <2>7
<1>4. ASSUME NEW p \in Proc, Truncate(p) PROVE EntryAt(g)'
  <2> DEFINE new == [proc[p] EXCEPT !.pc = "truncated"]
             f == proc[p].file
  <2>1. /\ proc[p].pc = "read" /\ f \in Files
        /\ proc' = [proc EXCEPT ![p] = new]
        /\ file' = [file EXCEPT ![f] = <<>>] /\ bare' = bare \ {f}
        /\ kept' = kept /\ gone' = gone
    BY <1>4, <1>0 DEF Truncate, Commands
  <2>2. /\ new.pc = "truncated" /\ new.op = proc[p].op /\ new.file = f
        /\ new.text = proc[p].text /\ new.data = proc[p].data
        /\ new.alone = proc[p].alone
    BY <1>0 DEF Commands
  <2> HIDE DEF new
  <2>3. proc'[p] = new /\ \A q \in Proc : q # p => proc'[q] = proc[q]
    BY <2>1, <1>0
  <2>4. Rewriting(g)' = Rewriting(g)
    BY <2>1, <2>2, <2>3 DEF Rewriting
  <2>5. CASE g # f
    <3>1. \A q \in Rewriting(g) : proc'[q] = proc[q]
      BY <2>3, <2>5 DEF Rewriting
    <3>2. file'[g] = file[g] /\ kept'[g] = kept[g] /\ gone'[g] = gone[g]
      BY <1>0, <2>1, <2>5
    <3> QED
      BY <1>0, <2>1, <2>4, <3>1, <3>2, EntryElsewhere
  <2>6. CASE g = f
    <3>1. p \in Truncated(g)' /\ Range(file'[g]) = {}
      BY <1>0, <2>1, <2>2, <2>3, <2>6, RangeEmpty DEF Truncated, Rewriting
    <3>2. \A q \in Rewriting(g) :
             /\ proc'[q].alone = proc[q].alone /\ proc'[q].data = proc[q].data
             /\ proc'[q].op = proc[q].op /\ proc'[q].text = proc[q].text
      BY <2>2, <2>3 DEF Rewriting
    <3>3. g \notin bare'
      BY <2>1, <2>6
    <3> QED
      BY <1>0, <2>1, <2>4, <3>1, <3>2, <3>3 DEF EntryAt
  <2> QED
    BY <2>5, <2>6
<1>5. Idle.pc = "idle"
  BY DEF Idle
<1>6. ASSUME NEW p \in Proc, proc[p].pc # "idle", proc' = [proc EXCEPT ![p] = Idle]
      PROVE  /\ Rewriting(g)' = Rewriting(g) \ {p}
             /\ \A q \in Rewriting(g) : q # p => proc'[q] = proc[q]
             /\ g # proc[p].file => Rewriting(g)' = Rewriting(g) /\ p \notin Rewriting(g)
             /\ Truncated(g)' = Truncated(g) \ {p}
             /\ g = proc[p].file => p \in Rewriting(g)
  <2>1. /\ proc'[p] = Idle
        /\ \A q \in Proc : q # p => proc'[q] = proc[q]
    BY <1>0, <1>6
  <2>2. Rewriting(g)' = Rewriting(g) \ {p}
    BY <2>1, <1>5 DEF Rewriting
  <2> QED
    BY <1>6, <2>1, <2>2 DEF Rewriting, Truncated
<1>7. ASSUME NEW p \in Proc, Write(p) PROVE EntryAt(g)'
  <2> DEFINE c == proc[p]
             f == c.file
  <2>1. /\ c.pc = "truncated" /\ f \in Files /\ c \in Commands
        /\ c.text \in Entries(f)
        /\ proc' = [proc EXCEPT ![p] = Idle]
    BY <1>7, <1>0 DEF Write, Commands
  <2>2. PICK lines \in Overwritten(file[f], Rewritten(c)) :
               file' = [file EXCEPT ![f] = lines] /\ bare' = bare
    BY <1>7 DEF Write
  <2>3. CASE g # f
    <3>1. file'[g] = file[g] /\ kept'[g] = kept[g] /\ gone'[g] = gone[g]
      BY <1>0, <1>7, <2>2, <2>3 DEF Write
    <3>2. Rewriting(g)' = Rewriting(g) /\ \A q \in Rewriting(g) : proc'[q] = proc[q]
      BY <1>6, <2>1, <2>3
    <3> QED
      BY <1>0, <2>2, <3>1, <3>2, EntryElsewhere
  <2>4. CASE g = f
    <3> DEFINE new == Rewritten(c)
    <3>1. /\ file'[g] = lines /\ Range(new) \subseteq Range(lines)
          /\ Range(lines) \subseteq Range(new) \cup Spelled(file[g])
      BY <1>0, <2>1, <2>2, <2>4, CommandTypes, OverwrittenLines
    <3>2. /\ c.op # "add" => Range(new) = Range(c.data) \ {c.text}
          /\ c.op = "add" =>
                Range(new) = Range(c.data) \cup
                   IF KeyLine \in Range(c.data) THEN {c.text} ELSE {}
      BY <2>1, RewrittenLines DEF Commands
    <3> HIDE DEF new
    <3>3. /\ kept'[g] = IF c.alone /\ c.op = "add" /\ KeyLine \in Range(c.data)
                        THEN kept[g] \cup {c.text} ELSE kept[g]
          /\ gone'[g] = (IF c.op = "add" THEN gone[g] \ {c.text}
                         ELSE IF c.alone THEN gone[g] \cup {c.text} ELSE gone[g])
                        \ Spelled(file[g])
      BY <1>0, <1>7, <2>4 DEF Write
    <3>4. /\ p \in Rewriting(g) /\ Rewriting(g)' = Rewriting(g) \ {p}
          /\ \A q \in Rewriting(g) : q # p => proc'[q] = proc[q]
      BY <1>6, <2>1, <2>4
    <3>5. /\ c.alone => Rewriting(g) = {p}
          /\ ~c.alone => kept[g] = {} /\ gone[g] = {}
          /\ kept[g] \subseteq Range(c.data)
          /\ c.op = "remove" => c.text \notin kept[g]
          /\ gone[g] \cap Range(c.data) = {}
          /\ gone[g] \cap Range(file[g]) = {}
      BY <1>0, <3>4 DEF EntryAt
    <3>6. c.op \in {"add", "remove"} /\ c.text # Torn
      BY <2>1, <1>b DEF Commands
    <3>7. g \notin bare'
      <4>1. p \in Truncated(g)
        BY <2>1, <3>4 DEF Truncated
      <4> QED
        BY <1>0, <2>2, <4>1 DEF EntryAt
    <3> HIDE DEF c
    <3>8. kept'[g] \subseteq Range(file'[g])
      BY <3>1, <3>2, <3>3, <3>5, <3>6
    <3>9. gone'[g] \cap Range(file'[g]) = {}
      <4>1. CASE c.op = "add"
        BY <4>1, <3>1, <3>2, <3>3, <3>5
      <4>2. CASE c.op = "remove"
        BY <4>2, <3>1, <3>2, <3>3, <3>5
      <4> QED
        BY <4>1, <4>2, <3>6
    <3>10. CASE c.alone
      <4>1. Rewriting(g)' = {}
        BY <3>4, <3>5, <3>10
      <4> QED
        BY <3>7, <3>8, <3>9, <4>1 DEF EntryAt
    <3>11. CASE ~c.alone
      <4>1. kept'[g] = {} /\ gone'[g] = {}
        BY <3>3, <3>5, <3>11
      <4>2. \A q \in Rewriting(g)' : q \in Rewriting(g) /\ q # p /\ proc'[q] = proc[q]
        BY <3>4
      <4>3. \A q \in Rewriting(g)' : proc'[q].alone => Rewriting(g)' = {q}
        <5>1. \A q \in Rewriting(g) : proc[q].alone => Rewriting(g) = {q}
          BY <1>0 DEF EntryAt
        <5> QED
          BY <3>4, <4>2, <5>1
      <4> QED
        BY <3>7, <4>1, <4>3 DEF EntryAt
    <3> QED
      BY <3>10, <3>11
  <2> QED
    BY <2>3, <2>4
<1>8. ASSUME NEW p \in Proc, Abort(p) PROVE EntryAt(g)'
  <2> DEFINE c == proc[p]
             f == c.file
  <2>1. /\ c.pc # "idle" /\ f \in Files /\ c \in Commands
        /\ proc' = [proc EXCEPT ![p] = Idle]
        /\ kept' = [kept EXCEPT ![f] = IF c.pc = "truncated" THEN {} ELSE @]
        /\ file' = file /\ bare' = bare /\ gone' = gone
    BY <1>8, <1>0 DEF Abort, Commands
  <2>2. /\ Rewriting(g)' = Rewriting(g) \ {p}
        /\ Truncated(g)' = Truncated(g) \ {p}
        /\ \A q \in Rewriting(g) : q # p => proc'[q] = proc[q]
    BY <1>6, <2>1
  <2>3. CASE g # f
    <3>1. file'[g] = file[g] /\ kept'[g] = kept[g] /\ gone'[g] = gone[g]
      BY <1>0, <2>1, <2>3
    <3>2. Rewriting(g)' = Rewriting(g) /\ \A q \in Rewriting(g) : proc'[q] = proc[q]
      BY <1>6, <2>1, <2>3
    <3> QED
      BY <1>0, <2>1, <3>1, <3>2, EntryElsewhere
  <2>4. CASE g = f
    <3>1. kept'[g] = IF c.pc = "truncated" THEN {} ELSE kept[g]
      BY <1>0, <2>1, <2>4
    <3>2. c.pc = "read" => Truncated(g)' = Truncated(g)
      BY <2>2 DEF Truncated
    <3>3. Truncated(g)' = {} => kept'[g] \subseteq Range(file'[g])
      BY <1>0, <2>1, <3>1, <3>2 DEF EntryAt, Commands
    <3>4. gone'[g] \cap Range(file'[g]) = {}
      BY <1>0, <2>1 DEF EntryAt
    <3>5. \A q \in Rewriting(g)' : q \in Rewriting(g) /\ proc'[q] = proc[q]
      BY <2>2
    <3> QED
      BY <1>0, <2>1, <2>2, <3>1, <3>3, <3>4, <3>5 DEF EntryAt
  <2> QED
    BY <2>3, <2>4
<1>9. ASSUME NEW p \in Proc, NEW f \in Files, NEW op \in {"add", "remove"},
             NEW text \in Entries(f), ReadFile(p, f, op, text)
      PROVE  EntryAt(g)'
  <2>1. file' = file /\ bare' = bare
    BY <1>9 DEF ReadFile
  <2> QED
    BY <2>1, <1>1, <1>3, <1>9
<1>10. CASE Daemon \/ UNCHANGED vars
  BY <1>1, <1>10 DEF Daemon, Start, Stop, Reload, vars
<1> QED
  BY <1>2, <1>4, <1>7, <1>8, <1>9, <1>10 DEF Next, Command

LEMMA EntryInvariant == Spec => []EntryInv
<1>1. Init => EntryInv
  <2> SUFFICES ASSUME Init, NEW f \in Files PROVE EntryAt(f)
    BY DEF EntryInv
  <2>1. kept[f] = {} /\ gone[f] = {}
    BY DEF Init
  <2>2. \A p \in Proc : proc[p].pc = "idle"
    BY DEF Init, Idle
  <2>3. Rewriting(f) = {} /\ Truncated(f) = {}
    BY <2>2 DEF Rewriting, Truncated
  <2> QED
    BY <2>1, <2>3 DEF EntryAt
<1> QED
  BY <1>1, TypeStart, TypeStep, EntryStep, PTL DEF Spec

\* What was added is in its file until a command removes it, unless commands
\* rewrite the file at once or one is killed on the way.
THEOREM AdditionsStay == Spec => []AddedStay
<1>1. EntryInv => AddedStay
  BY DEF EntryInv, EntryAt, AddedStay
<1> QED
  BY <1>1, EntryInvariant, PTL

\* What was removed is nowhere in its file until it is added again, or cut by a
\* rewrite from a longer line that came between its truncation and its write.
THEOREM RemovalsStay == Spec => []RemovedStayGone
<1>1. EntryInv => RemovedStayGone
  BY DEF EntryInv, EntryAt, RemovedStayGone
<1> QED
  BY <1>1, EntryInvariant, PTL

----------------------------------------------------------------------------
\* The operator's settings are in shivashield.yaml, unless it is empty because
\* a command is about to write it or was killed there, and in what commands
\* have read of it.
SettingsInv ==
    /\ \/ Settings \in Range(file[Yaml])
       \/ file[Yaml] = <<>> /\ (exposed \/ Truncated(Yaml) # {})
    /\ \A p \in Rewriting(Yaml) : Settings \in Range(proc[p].data)
    /\ conf = Defaults => exposed

\* A configuration that is loaded is what the file holds, or the defaults if
\* that is nothing.
LEMMA LoadedDefaults ==
    ASSUME NEW lines \in Seq(Lines), NEW c \in Loaded(lines), c = Defaults
    PROVE  lines = <<>>
  BY OutcomesAssumption DEF Loaded

\* Each step of a command or of the daemon keeps the settings.
LEMMA SettingsStep == TypeInv /\ SettingsInv /\ [Next]_vars => SettingsInv'
<1> SUFFICES ASSUME TypeInv, SettingsInv, [Next]_vars PROVE SettingsInv'
  OBVIOUS
<1>0. /\ file \in [Files -> Seq(Lines)] /\ Yaml \in Files
      /\ file[Yaml] \in Seq(Lines)
      /\ proc \in [Proc -> Commands]
      /\ \A p \in Proc :
            proc[p].pc # "idle" => proc[p].text \in Entries(proc[p].file)
  BY DEF TypeInv, TypeOK, Commands, Files
<1>1. CASE UNCHANGED <<file, proc, conf, exposed>>
  BY <1>1 DEF SettingsInv, Truncated, Rewriting
<1>2. ASSUME NEW f \in Lists, NEW text \in Texts, AddLine(f, text)
      PROVE  SettingsInv'
  <2>1. /\ proc' = proc /\ conf' = conf /\ exposed' = exposed
        /\ file'[Yaml] = file[Yaml]
    BY <1>0, <1>2, Names DEF AddLine, Lists
  <2> QED
    BY <2>1 DEF SettingsInv, Truncated, Rewriting
<1>3. ASSUME NEW p \in Proc, NEW f \in Files, NEW op \in {"add", "remove"},
             NEW text \in Entries(f), ReadFile(p, f, op, text),
             proc' # proc
      PROVE  SettingsInv'
  <2> DEFINE new == [pc |-> "read", op |-> op, file |-> f, text |-> text,
                     data |-> file[f], alone |-> Rewriting(f) = {}]
             other(q) == [proc[q] EXCEPT !.alone = FALSE]
  <2>1. /\ ~Refused(f, op, text) /\ proc[p].pc = "idle"
        /\ proc' = [q \in Proc |-> CASE q = p -> new
                                   [] q # p /\ q \in Rewriting(f) -> other(q)
                                   [] OTHER -> proc[q]]
        /\ UNCHANGED <<file, conf, exposed>>
    BY <1>3 DEF ReadFile
  <2>2. new.pc = "read" /\ new.file = f /\ new.data = file[f]
    OBVIOUS
  <2>3. \A q \in Proc : /\ other(q).pc = proc[q].pc
                        /\ other(q).file = proc[q].file
                        /\ other(q).data = proc[q].data
    BY <1>0 DEF Commands
  <2> HIDE DEF new, other
  <2>4. /\ proc'[p] = new
        /\ \A q \in Proc : q # p => proc'[q] = other(q) \/ proc'[q] = proc[q]
    BY <2>1
  <2>5. Truncated(Yaml)' = Truncated(Yaml)
    BY <2>1, <2>2, <2>3, <2>4 DEF Truncated, Rewriting
  <2>6. ASSUME NEW q \in Rewriting(Yaml)', q # p
        PROVE  Settings \in Range(proc'[q].data)
    BY <2>3, <2>4, <2>6 DEF Rewriting, SettingsInv
  <2>7. ASSUME p \in Rewriting(Yaml)' PROVE Settings \in Range(proc'[p].data)
    <3>1. f = Yaml
      BY <2>2, <2>4, <2>7 DEF Rewriting
    <3>2. file[Yaml] # <<>>
      BY <2>1, <3>1 DEF Refused
    <3> QED
      BY <2>2, <2>4, <3>1, <3>2 DEF SettingsInv
  <2> QED
    BY <2>1, <2>5, <2>6, <2>7 DEF SettingsInv
<1>4. ASSUME NEW p \in Proc, Truncate(p) PROVE SettingsInv'
  <2> DEFINE new == [proc[p] EXCEPT !.pc = "truncated"]
  <2>1. /\ proc[p].pc = "read"
        /\ proc' = [proc EXCEPT ![p] = new]
        /\ file' = [file EXCEPT ![proc[p].file] = <<>>]
        /\ conf' = conf /\ exposed' = exposed
    BY <1>4 DEF Truncate
  <2>2. new.pc = "truncated" /\ new.file = proc[p].file /\ new.data = proc[p].data
    BY <1>0 DEF Commands
  <2> HIDE DEF new
  <2>3. proc'[p] = new /\ \A q \in Proc : q # p => proc'[q] = proc[q]
    BY <2>1, <1>0
  <2>4. \A q \in Rewriting(Yaml)' : /\ q \in Rewriting(Yaml)
                                    /\ proc'[q].data = proc[q].data
    BY <2>1, <2>2, <2>3 DEF Rewriting
  <2>5. Truncated(Yaml) \subseteq Truncated(Yaml)'
    BY <2>1, <2>2, <2>3 DEF Truncated, Rewriting
  <2>6. CASE proc[p].file # Yaml
    <3>1. file'[Yaml] = file[Yaml]
      BY <2>1, <2>6, <1>0
    <3> QED
      BY <2>1, <2>4, <2>5, <3>1 DEF SettingsInv
  <2>7. CASE proc[p].file = Yaml
    <3>1. file'[Yaml] = <<>> /\ p \in Truncated(Yaml)'
      BY <2>1, <2>2, <2>3, <2>7, <1>0 DEF Truncated, Rewriting
    <3> QED
      BY <2>1, <2>4, <3>1 DEF SettingsInv
  <2> QED
    BY <2>6, <2>7
<1>5. Idle.pc = "idle"
  BY DEF Idle
<1>6. ASSUME NEW p \in Proc, proc' = [proc EXCEPT ![p] = Idle]
      PROVE  /\ \A q \in Rewriting(Yaml)' : /\ q \in Rewriting(Yaml)
                                            /\ proc'[q] = proc[q]
             /\ Truncated(Yaml)' = Truncated(Yaml) \ {p}
  <2>1. /\ proc'[p] = Idle
        /\ \A q \in Proc : q # p => proc'[q] = proc[q]
    BY <1>0, <1>6
  <2> QED
    BY <2>1, <1>5 DEF Rewriting, Truncated
<1>7. ASSUME NEW p \in Proc, Write(p) PROVE SettingsInv'
  <2> DEFINE c == proc[p]
             f == c.file
  <2>1. /\ c.pc = "truncated" /\ f \in Files /\ c \in Commands
        /\ c.text \in Entries(f)
        /\ proc' = [proc EXCEPT ![p] = Idle]
        /\ conf' = conf /\ exposed' = exposed
    BY <1>7, <1>0 DEF Write, Commands
  <2>2. PICK lines \in Overwritten(file[f], Rewritten(c)) :
               file' = [file EXCEPT ![f] = lines]
    BY <1>7 DEF Write
  <2>3. CASE f # Yaml
    <3>1. file'[Yaml] = file[Yaml] /\ p \notin Truncated(Yaml)
      BY <1>0, <2>2, <2>3 DEF Truncated, Rewriting
    <3> QED
      BY <1>6, <2>1, <3>1 DEF SettingsInv
  <2>4. CASE f = Yaml
    <3>1. Settings \in Range(c.data)
      BY <2>1, <2>4 DEF SettingsInv, Rewriting
    <3>2. c.text # Settings /\ c.data \in Seq(Lines) /\ c.text \in Lines
      BY <2>1, <2>4, Names DEF Entries, Commands
    <3>3. Settings \in Range(Rewritten(c))
      BY <3>1, <3>2, RewrittenLines
    <3>4. Range(Rewritten(c)) \subseteq Range(lines) /\ file'[Yaml] = lines
      BY <1>0, <2>2, <2>4, CommandTypes, OverwrittenLines
    <3> QED
      BY <1>6, <2>1, <3>3, <3>4 DEF SettingsInv
  <2> QED
    BY <2>3, <2>4
<1>8. ASSUME NEW p \in Proc, Abort(p) PROVE SettingsInv'
  <2>1. /\ proc' = [proc EXCEPT ![p] = Idle] /\ file' = file /\ conf' = conf
        /\ exposed' = (exposed \/ (proc[p].pc = "truncated" /\ proc[p].file = Yaml))
    BY <1>8 DEF Abort
  <2>2. p \in Truncated(Yaml) => exposed'
    BY <2>1 DEF Truncated, Rewriting
  <2>3. exposed => exposed'
    BY <2>1
  <2> QED
    BY <1>6, <2>1, <2>2, <2>3 DEF SettingsInv
<1>9. ASSUME conf' \in Loaded(file[Yaml]) \cup {conf}, UNCHANGED <<file, proc>>,
             exposed' = (exposed \/ Truncated(Yaml) # {})
      PROVE  SettingsInv'
  <2>1. Truncated(Yaml)' = Truncated(Yaml) /\ Rewriting(Yaml)' = Rewriting(Yaml)
    BY <1>9 DEF Truncated, Rewriting
  <2>2. Settings \in Range(file[Yaml]) => file[Yaml] # <<>>
    BY RangeEmpty
  <2>3. ASSUME conf' = Defaults PROVE exposed'
    <3>1. CASE conf' = conf
      BY <2>3, <3>1, <1>9 DEF SettingsInv
    <3>2. CASE conf' \in Loaded(file[Yaml])
      BY <2>2, <2>3, <3>2, <1>0, <1>9, LoadedDefaults DEF SettingsInv
    <3> QED
      BY <3>1, <3>2, <1>9
  <2> QED
    BY <1>9, <2>1, <2>3 DEF SettingsInv
<1>10. CASE Start
  BY <1>9, <1>10 DEF Start
<1>11. CASE Reload
  BY <1>9, <1>11 DEF Reload, InForce
<1>12. ASSUME NEW p \in Proc, NEW f \in Files, NEW op \in {"add", "remove"},
              NEW text \in Entries(f), ReadFile(p, f, op, text)
       PROVE  SettingsInv'
  <2>1. UNCHANGED <<file, conf, exposed>>
    BY <1>12 DEF ReadFile
  <2> QED
    BY <2>1, <1>1, <1>3, <1>12
<1>13. CASE Stop \/ UNCHANGED vars
  BY <1>1, <1>13 DEF Stop, vars
<1> QED
  BY <1>2, <1>4, <1>7, <1>8, <1>10, <1>11, <1>12, <1>13 DEF Next, Command, Daemon

\* However commands and reloads interleave, the operator's settings give way
\* to the defaults only between the halves of a command's write.
THEOREM SettingsKept == Spec => []ReloadKeepsSettings
<1>1. Init => SettingsInv
  <2> SUFFICES ASSUME Init PROVE SettingsInv
    OBVIOUS
  <2>1. PICK y \in YamlFiles, hand \in [Lists -> HandFiles] :
           /\ file = [f \in Files |-> IF f = Yaml THEN y ELSE hand[f]]
           /\ conf = y
    BY DEF Init
  <2>2. y = <<Settings>> \/ y = <<Settings, KeyLine>>
    BY FilesAssumption
  <2>3. y \in Seq(Lines) /\ Settings \in Range(y)
    <3>1. Settings \in Lines /\ KeyLine \in Lines
      BY DEF Lines
    <3>2. CASE y = <<Settings>>
      BY <3>1, <3>2 DEF Range
    <3>3. CASE y = <<Settings, KeyLine>>
      <4>1. 1 \in DOMAIN y /\ y[1] = Settings
        BY <3>3
      <4>2. y \in Seq(Lines)
        BY <3>1, <3>3
      <4> QED
        BY <4>1, <4>2 DEF Range
    <3> QED
      BY <2>2, <3>2, <3>3
  <2>4. file[Yaml] = y /\ conf # Defaults
    BY <2>1, <2>3, OutcomesAssumption DEF Files
  <2>5. Rewriting(Yaml) = {}
    BY DEF Init, Idle, Rewriting
  <2> QED
    BY <2>3, <2>4, <2>5 DEF SettingsInv
<1>2. SettingsInv => ReloadKeepsSettings
  BY DEF SettingsInv, ReloadKeepsSettings
<1> QED
  BY <1>1, <1>2, TypeStart, TypeStep, SettingsStep, PTL DEF Spec
=============================================================================
