------------------------------ MODULE CliFiles ------------------------------
(***************************************************************************)
(* The files that the shivashield commands share with the daemon and with  *)
(* one another, without a lock: whitelist.txt and blacklist.txt, a line    *)
(* per address, and the list block_countries of shivashield.yaml.          *)
(*                                                                         *)
(* An addition to a list is one append.  Everything else reads the whole   *)
(* file and rewrites it with os.WriteFile(), which truncates the file and  *)
(* then writes at its beginning.  The daemon reads the lists when it       *)
(* starts, and the configuration then and at each SIGHUP.                  *)
(***************************************************************************)
EXTENDS Integers, FiniteSets, SequencesExt

CONSTANTS
    Proc,         \* processes that run commands
    Whitelist, Blacklist, Yaml,
    Texts,        \* addresses as they are typed
    Key,          \* text |-> its key of whitelist_map and blacklist_map
    AdminKeys,    \* blackhole.admin_ips of the operator's file
    SshKeys,      \* peers of SSH sessions, addresses sshd listens on
    Countries,
    Settings,     \* the lines of shivashield.yaml outside block_countries
    KeyLine,      \* block_countries:
    YamlFiles,    \* what shivashield.yaml may hold to start with
    HandFiles,    \* what the lists may hold to start with, written by hand
    Torn,         \* a line that spells none of these
    Parts,        \* line |-> what is left of it once its beginning is cut off
    Defaults,     \* DefaultConfig()
    Invalid,      \* LoadFile() returned an error
    MaxCommands   \* bound of the model: commands run

ASSUME FilesAssumption ==
    /\ IsInjective(<<Whitelist, Blacklist, Yaml>>)
    /\ IsInjective(<<Settings, KeyLine, Torn>>)
    /\ {Settings, KeyLine, Torn} \cap (Texts \cup Countries) = {}
    /\ YamlFiles \subseteq {<<Settings>>, <<Settings, KeyLine>>}
    /\ HandFiles \subseteq Seq(Texts)
    /\ DOMAIN Key = Texts
    /\ MaxCommands \in Nat

VARIABLES
    file,      \* file |-> its lines, without the blank ones
    bare,      \* the lists without a newline at their end
    proc,      \* process |-> its command, where it is, the lines it read
    commands,  \* commands run
    up,        \* the daemon runs
    live,      \* list |-> the keys put in whitelist_map or blacklist_map
    conf,      \* the configuration in force
    kept,      \* history: file |-> entries that no command may have lost
    gone,      \* history: file |-> entries that a command has removed
    exposed    \* history: the daemon or a crash met a truncated shivashield.yaml

vars == <<file, bare, proc, commands, up, live, conf, kept, gone, exposed>>

Lists == {Whitelist, Blacklist}
Files == Lists \cup {Yaml}
Entries(f) == IF f = Yaml THEN Countries ELSE Texts
Lines == Texts \cup Countries \cup {Settings, KeyLine, Torn}

ASSUME PartsAssumption == Parts \in [Lines -> SUBSET Lines]

\* No file stands for the defaults or for an error.
ASSUME OutcomesAssumption ==
    /\ Defaults # Invalid
    /\ Defaults \notin Seq(Lines) /\ Invalid \notin Seq(Lines)

Idle == [pc |-> "idle", op |-> "remove", file |-> Yaml, text |-> Torn,
         data |-> <<>>, alone |-> TRUE]

\* The processes between their read and their write of f.
Rewriting(f) == {p \in Proc : proc[p].pc # "idle" /\ proc[p].file = f}

Truncated(f) == {p \in Rewriting(f) : proc[p].pc = "truncated"}

----------------------------------------------------------------------------
\* What the file is to become.

\* Mutant of WithoutLine: takes the last line for the one after the last \n.
WithoutLineLast(data, text) == SelectSeq(Front(data), LAMBDA l : l # text)

\* Mutant of WithoutLine: removes the first of several equal lines.
WithoutLineOnce(data, text) ==
    IF text \in Range(data)
    THEN RemoveAt(data, SelectInSeq(data, LAMBDA l : l = text)) ELSE data

\* removeIPFromFile(): spellings are compared, not addresses.
WithoutLine(data, text) ==
    LET newLines[n \in 0..Len(data)] ==
            IF n = 0 THEN <<>>
            ELSE IF data[n] = text THEN newLines[n - 1]
            ELSE Append(newLines[n - 1], data[n])
    IN  newLines[Len(data)]

\* updateGeoBlockConfig(): without block_countries nothing changes.
WithCountry(data, cc) ==
    IF KeyLine \in Range(data) THEN Append(data, cc) ELSE data

Rewritten(c) ==
    IF c.op = "add" THEN WithCountry(c.data, c.text)
                    ELSE WithoutLine(c.data, c.text)

\* write(2) at offset 0 of a file that may have grown again since it was
\* truncated: the new lines, then the bytes of the old ones that stick out,
\* which begin with a line or within one, at a place that depends on lengths.
\* If nothing is left to write that is one newline, over a blank line or over
\* the first byte of the first line.
Overwritten(old, new) ==
    LET after(k) == new \o SubSeq(old, k + 1, Len(old))
        cut(k) == {new \o <<end>> \o SubSeq(old, k + 1, Len(old)) :
                      end \in Parts[old[k]]}
    IN  IF new = <<>>
        THEN {old} \cup IF old = <<>> THEN {} ELSE cut(1)
        ELSE {after(k) : k \in IF old = <<>> THEN {0} ELSE DOMAIN old}
                \cup UNION {cut(k) : k \in DOMAIN old}

\* What these lines, or an end of one of them, spell.
Spelled(lines) == Range(lines) \cup UNION {Parts[l] : l \in Range(lines)}

\* write(2) at the end of a file: after a line without a newline the text is
\* the end of a longer one.
Appended(f, text) ==
    IF f \in bare
    THEN {[file[f] EXCEPT ![Len(file[f])] = l] :
             l \in {Torn} \cup {l \in Texts : text \in Parts[l]}}
    ELSE {Append(file[f], text)}

----------------------------------------------------------------------------
\* The commands.

\* loadLiveFirewall() asks for a firewall without an object file, which is
\* refused: no command gets at the maps of a running daemon.
LiveAfterCommand == live

\* whitelist add IP, blacklist add IP.  Nothing is said of an error of the
\* open or of the write.
AddLine(f, text) ==
    /\ commands < MaxCommands /\ commands' = commands + 1
    /\ \/ UNCHANGED <<file, bare, kept, gone>>
       \/ /\ \E lines \in Appended(f, text) : file' = [file EXCEPT ![f] = lines]
          /\ bare' = bare \ {f}
          /\ kept' = [kept EXCEPT ![f] =
                         IF Rewriting(f) = {} /\ f \notin bare
                         THEN @ \cup {text} ELSE @]
          /\ gone' = [gone EXCEPT ![f] = @ \ {text}]
    /\ live' = LiveAfterCommand
    /\ UNCHANGED <<proc, up, conf, exposed>>

\* Mutant of Refused: rewrites an empty shivashield.yaml as well.
RefusedNot(f, op, text) ==
    f = Yaml /\ op = "add" /\ text \in Range(file[f])

\* updateGeoBlockConfig() returns early: the file is empty, or has the country.
Refused(f, op, text) ==
    /\ f = Yaml
    /\ file[f] = <<>> \/ (op = "add" /\ text \in Range(file[f]))

\* whitelist remove IP, blacklist remove IP, geoblock add|remove CC: nothing,
\* if the file cannot be read or parsed, or the begin of a rewrite.
ReadFile(p, f, op, text) ==
    /\ proc[p].pc = "idle"
    /\ commands < MaxCommands /\ commands' = commands + 1
    /\ f \in Lists => op = "remove"
    /\ \/ UNCHANGED <<proc, kept, gone>>
       \/ /\ ~Refused(f, op, text)
          /\ proc' = [q \in Proc |->
                CASE q = p -> [pc |-> "read", op |-> op, file |-> f,
                               text |-> text, data |-> file[f],
                               alone |-> Rewriting(f) = {}]
                  [] q # p /\ q \in Rewriting(f) -> [proc[q] EXCEPT !.alone = FALSE]
                  [] OTHER -> proc[q]]
          /\ kept' = [kept EXCEPT ![f] =
                         IF Rewriting(f) # {} THEN {}
                         ELSE IF op = "remove" THEN @ \ {text} ELSE @]
          /\ gone' = [gone EXCEPT ![f] = IF Rewriting(f) # {} THEN {} ELSE @]
    /\ UNCHANGED <<file, bare, up, live, conf, exposed>>

Truncate(p) ==
    /\ proc[p].pc = "read"
    /\ proc' = [proc EXCEPT ![p].pc = "truncated"]
    /\ file' = [file EXCEPT ![proc[p].file] = <<>>]
    /\ bare' = bare \ {proc[p].file}
    /\ UNCHANGED <<commands, up, live, conf, kept, gone, exposed>>

Write(p) ==
    LET c == proc[p]
        f == c.file
    IN  /\ c.pc = "truncated"
        /\ proc' = [proc EXCEPT ![p] = Idle]
        /\ \E lines \in Overwritten(file[f], Rewritten(c)) :
              file' = [file EXCEPT ![f] = lines]
        /\ kept' = [kept EXCEPT ![f] =
                       IF c.alone /\ c.op = "add" /\ KeyLine \in Range(c.data)
                       THEN @ \cup {c.text} ELSE @]
        /\ gone' = [gone EXCEPT ![f] =
                       (IF c.op = "add" THEN @ \ {c.text}
                        ELSE IF c.alone THEN @ \cup {c.text} ELSE @)
                       \ Spelled(file[f])]
        /\ live' = LiveAfterCommand
        /\ UNCHANGED <<bare, commands, up, conf, exposed>>

\* os.WriteFile() fails, in the open or in the write, or the command is
\* killed.  A file that was truncated stays so; nothing is said of a list.
Abort(p) ==
    LET c == proc[p]
    IN  /\ c.pc # "idle"
        /\ proc' = [proc EXCEPT ![p] = Idle]
        /\ kept' = [kept EXCEPT ![c.file] = IF c.pc = "truncated" THEN {} ELSE @]
        /\ exposed' = (exposed \/ (c.pc = "truncated" /\ c.file = Yaml))
        /\ UNCHANGED <<file, bare, commands, up, live, conf, gone>>

----------------------------------------------------------------------------
\* The daemon.

\* LoadFile(): an empty file is no error, and leaves every default, with
\* which validate() may find no interface; a torn line may be one.
Loaded(lines) ==
    IF lines = <<>> THEN {Defaults, Invalid}
    ELSE IF Torn \in Range(lines) THEN {lines, Invalid} ELSE {lines}

\* ParseIP() of each line.  A torn one may be an address that nobody named.
Keys(lines) ==
    LET named == {Key[l] : l \in Range(lines) \cap Texts}
    IN  {named} \cup IF Torn \in Range(lines) THEN {named \cup {Torn}} ELSE {}

Whitelisted(c, ssh) == ssh \cup IF c = Defaults THEN {} ELSE AdminKeys

\* cmdLoad() up to populateWhitelist() and loadPersistentIPs(), on new maps.
Start ==
    /\ ~up /\ up' = TRUE
    /\ conf' \in Loaded(file[Yaml]) \ {Invalid}
    /\ \E w \in Keys(file[Whitelist]), b \in Keys(file[Blacklist]),
          ssh \in SUBSET SshKeys :
          live' = [f \in Lists |->
                      IF f = Blacklist THEN b ELSE w \cup Whitelisted(conf', ssh)]
    /\ exposed' = (exposed \/ Truncated(Yaml) # {})
    /\ UNCHANGED <<file, bare, proc, commands, kept, gone>>

Stop ==
    /\ up /\ up' = FALSE
    /\ live' = [f \in Lists |-> {}]
    /\ UNCHANGED <<file, bare, proc, commands, conf, kept, gone, exposed>>

\* Mutant of InForce: takes the configuration that came with an error.
InForceAnyway(c) == c

\* "reload failed: ... (keeping old config)"
InForce(c) == IF c = Invalid THEN conf ELSE c

\* SIGHUP; the lists are not read again.
Reload ==
    /\ up
    /\ \E c \in Loaded(file[Yaml]) : conf' = InForce(c)
    /\ exposed' = (exposed \/ Truncated(Yaml) # {})
    /\ UNCHANGED <<file, bare, proc, commands, up, live, kept, gone>>

----------------------------------------------------------------------------
Init ==
    /\ \E y \in YamlFiles, hand \in [Lists -> HandFiles] :
          /\ file = [f \in Files |-> IF f = Yaml THEN y ELSE hand[f]]
          /\ bare \in SUBSET {f \in Lists : hand[f] # <<>>}
          /\ conf = y
    /\ proc = [p \in Proc |-> Idle]
    /\ commands = 0
    /\ up = FALSE
    /\ live = [f \in Lists |-> {}]
    /\ kept = [f \in Files |-> {}] /\ gone = [f \in Files |-> {}]
    /\ exposed = FALSE

Command(p) ==
    \/ \E f \in Files, op \in {"add", "remove"} :
          \E text \in Entries(f) : ReadFile(p, f, op, text)
    \/ Truncate(p) \/ Write(p) \/ Abort(p)

Daemon == Start \/ Stop \/ Reload

Next ==
    \/ \E f \in Lists, text \in Texts : AddLine(f, text)
    \/ \E p \in Proc : Command(p)
    \/ Daemon

Spec == Init /\ [][Next]_vars

----------------------------------------------------------------------------
\* Properties.

TypeOK ==
    /\ file \in [Files -> Seq(Lines)] /\ bare \subseteq Lists
    /\ proc \in [Proc -> [pc : {"idle", "read", "truncated"},
                          op : {"add", "remove"}, file : Files, text : Lines,
                          data : Seq(Lines), alone : BOOLEAN]]
    /\ commands \in 0..MaxCommands
    /\ up \in BOOLEAN /\ exposed \in BOOLEAN
    /\ live \in [Lists -> SUBSET (Range(Key) \cup AdminKeys \cup SshKeys \cup {Torn})]
    /\ conf \in Seq(Lines) \cup {Defaults}
    /\ \A f \in Files : kept[f] \subseteq Entries(f) /\ gone[f] \subseteq Entries(f)

\* An address or country whose addition was written is in its file until a
\* command removes that very text, whatever else is removed, unless two
\* commands were rewriting the file at once or one was cut off on the way.
AddedStay ==
    \A f \in Files : Truncated(f) = {} => kept[f] \subseteq Range(file[f])

\* "removeIPFromFile removes all lines matching the IP exactly": an entry that
\* was removed, by a command that rewrote the file alone, is nowhere in the
\* file until it is added again, or until a rewrite has cut it from a longer
\* line that was appended between the truncation and the write.
RemovedStayGone == \A f \in Files : gone[f] \cap Range(file[f]) = {}

\* A reload takes the defaults for the operator's settings only if it came
\* between the truncation and the write of a geoblock command, or after one
\* was killed there: commands that run at once do not leave the file empty.
ReloadKeepsSettings == conf = Defaults => exposed

=============================================================================
