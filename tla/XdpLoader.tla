----------------------------- MODULE XdpLoader -----------------------------
(***************************************************************************)
(* The life of the XDP attachments: the loader of the running daemon, the  *)
(* unload command (by hand, or as ExecStartPre and ExecStop of the unit),  *)
(* and crashes of the daemon at any step.                                  *)
(*                                                                         *)
(* A bpf_link is named by the daemon that made it and its interface.  It   *)
(* goes away with the last of its owner's file descriptor and its pin; it  *)
(* can be detached before that, and then holds nothing.                    *)
(***************************************************************************)
EXTENDS Integers, Sequences, FiniteSets, SequencesExt

CONSTANTS
    Interfaces,  \* the interfaces of shivashield.yaml, in order
    Attempts,    \* 2 for xdp_mode auto (native, then generic), else 1
    HasUnload,   \* whether unload is run at all
    MaxDaemons   \* bound of the model: daemons started

Iface == ToSet(Interfaces)

ASSUME InterfacesAssumption ==
    Interfaces \in Seq(Iface) /\ Interfaces # <<>> /\ IsInjective(Interfaces)
ASSUME NumbersAssumption ==
    Attempts \in {1, 2} /\ HasUnload \in BOOLEAN /\ MaxDaemons \in Nat \ {0}

VARIABLES
    bpftool,  \* whether bpftool is installed
    xdp,      \* interface |-> the daemon whose link is attached there, or 0
    pinDir,   \* whether PinPath exists
    pin,      \* the link that PinPath/xdp_link pins: daemon and interface
    daemon,   \* the daemon: where it is, which one, ownsPins, the interfaces
              \* to attach yet, the attempts made at the first of them
    unload,   \* the unload command: where it is
    end       \* how the last daemon ended

vars == <<bpftool, xdp, pinDir, pin, daemon, unload, end>>

NoPin == <<0, "none">>

Me == daemon.gen
Current == Head(daemon.todo)

----------------------------------------------------------------------------
\* The kernel: a link whose owner is gone stays attached only while pinned.

Surviving(pinned) ==
    [i \in Iface |-> IF xdp[i] = Me /\ pinned # <<Me, i>> THEN 0 ELSE xdp[i]]

\* cleanXDPAll(), and the first half of unload: `ip link` takes no bpf_link
\* off, and bpftool is told to detach all of them, on whatever interface.
Cleaned == IF bpftool THEN [i \in Iface |-> 0] ELSE xdp

----------------------------------------------------------------------------
\* The daemon: Load(), then per interface clean, attach, pin.

\* New(), Load(): PinPath is made, and owned, if it is not there.
Load ==
    /\ daemon.pc = "down" /\ Me < MaxDaemons
    /\ daemon' = [pc |-> "loaded", gen |-> Me + 1, owns |-> ~pinDir,
                  todo |-> Interfaces, tries |-> 0]
    /\ pinDir' = TRUE
    /\ UNCHANGED <<bpftool, xdp, pin, unload, end>>

\* The collection does not load: the process ends, PinPath stays.
LoadFails ==
    /\ daemon.pc = "loaded"
    /\ daemon' = [daemon EXCEPT !.pc = "down"] /\ end' = "failed"
    /\ UNCHANGED <<bpftool, xdp, pinDir, pin, unload>>

\* pushConfig(), which may fail, and the lists, before the first Attach().
InitMaps ==
    /\ daemon.pc = "loaded"
    /\ \E next \in {"clean", "giveup"} : daemon' = [daemon EXCEPT !.pc = next]
    /\ UNCHANGED <<bpftool, xdp, pinDir, pin, unload, end>>

\* The interface is not found, before anything is done to it.
NoInterface ==
    /\ daemon.pc = "clean" /\ daemon.tries = 0
    /\ daemon' = [daemon EXCEPT !.pc = "giveup"]
    /\ UNCHANGED <<bpftool, xdp, pinDir, pin, unload, end>>

Clean ==
    /\ daemon.pc = "clean"
    /\ xdp' = Cleaned
    /\ daemon' = [daemon EXCEPT !.pc = "attach"]
    /\ UNCHANGED <<bpftool, pinDir, pin, unload, end>>

AttachXDP ==
    /\ daemon.pc = "attach" /\ xdp[Current] = 0
    /\ xdp' = [xdp EXCEPT ![Current] = Me]
    /\ daemon' = [daemon EXCEPT !.pc = "pin"]
    /\ UNCHANGED <<bpftool, pinDir, pin, unload, end>>

\* Mutant of AfterFailure: an interface that cannot be had is left out.
AfterFailureSkip ==
    IF daemon.tries + 1 < Attempts
    THEN [daemon EXCEPT !.pc = "clean", !.tries = @ + 1]
    ELSE IF Len(daemon.todo) = 1 THEN [daemon EXCEPT !.pc = "up", !.todo = <<>>]
         ELSE [daemon EXCEPT !.pc = "clean", !.todo = Tail(@), !.tries = 0]

\* auto mode falls back from native to generic; else Start() gives up.
AfterFailure ==
    IF daemon.tries + 1 < Attempts
    THEN [daemon EXCEPT !.pc = "clean", !.tries = @ + 1]
    ELSE [daemon EXCEPT !.pc = "giveup"]

\* The driver refuses, or another link holds the interface (EBUSY).
AttachXDPFails ==
    /\ daemon.pc = "attach"
    /\ daemon' = AfterFailure
    /\ UNCHANGED <<bpftool, xdp, pinDir, pin, unload, end>>

\* Mutant of Pinnable: PinPath is taken to be there.
PinnableAnywhere == pin = NoPin

\* Every link is pinned to one path: only the first finds it free.
Pinnable == pinDir /\ pin = NoPin

Pin ==
    /\ daemon.pc = "pin"
    /\ pin' = IF Pinnable THEN <<Me, Current>> ELSE pin
    /\ daemon' = [daemon EXCEPT
          !.pc = IF Len(daemon.todo) = 1 THEN "up" ELSE "clean",
          !.todo = Tail(@), !.tries = 0]
    /\ UNCHANGED <<bpftool, xdp, pinDir, unload, end>>

----------------------------------------------------------------------------
\* Detach(), by Start() when it gives up and by Stop() on SIGTERM.  The link
\* pin is removed, whoever's link it pins; PinPath only if it is owned.

\* Mutant of PinAfter: the link's pin is left where it is.
PinAfterStays == IF daemon.owns THEN NoPin ELSE pin

PinAfter == NoPin

Unpinned(p) ==
    [i \in Iface |-> IF \/ xdp[i] = Me /\ p # <<Me, i>>
                        \/ pin = <<xdp[i], i>> /\ p # pin
                     THEN 0 ELSE xdp[i]]

Detach ==
    /\ daemon.pc \in {"giveup", "up"}
    /\ xdp' = Unpinned(PinAfter) /\ pin' = PinAfter
    /\ pinDir' = (pinDir /\ ~daemon.owns)
    /\ daemon' = [daemon EXCEPT !.pc = "down"]
    /\ end' = IF daemon.pc = "up" THEN "stopped" ELSE "failed"
    /\ UNCHANGED <<bpftool, unload>>

\* The process dies: its descriptors are closed, its files stay.
Crash ==
    /\ daemon.pc # "down"
    /\ xdp' = Surviving(pin)
    /\ daemon' = [daemon EXCEPT !.pc = "down"]
    /\ end' = "crashed"
    /\ UNCHANGED <<bpftool, pinDir, pin, unload>>

----------------------------------------------------------------------------
\* unload: all links off, then all pins, daemon or no daemon.

\* Mutant of PinsRemoved: leaves the link's pin, like a plain rmdir.
PinsRemovedNot == pin

PinsRemoved == NoPin

UnloadDetaches ==
    /\ HasUnload /\ unload = "idle"
    /\ xdp' = Cleaned /\ unload' = "pins"
    /\ UNCHANGED <<bpftool, pinDir, pin, daemon, end>>

\* A pin that goes takes its link along unless its owner is alive.
UnloadUnpins ==
    /\ unload = "pins"
    /\ unload' = "idle"
    /\ pinDir' = (PinsRemoved # NoPin) /\ pin' = PinsRemoved
    /\ xdp' = [i \in Iface |->
                  IF /\ pin = <<xdp[i], i>> /\ PinsRemoved # pin
                     /\ ~(xdp[i] = Me /\ daemon.pc # "down")
                  THEN 0 ELSE xdp[i]]
    /\ UNCHANGED <<bpftool, daemon, end>>

----------------------------------------------------------------------------
Init ==
    /\ bpftool \in BOOLEAN
    /\ xdp = [i \in Iface |-> 0]
    /\ pinDir = FALSE /\ pin = NoPin
    /\ daemon = [pc |-> "down", gen |-> 0, owns |-> FALSE,
                 todo |-> <<>>, tries |-> 0]
    /\ unload = "idle"
    /\ end = "stopped"

Daemon ==
    \/ Load \/ LoadFails \/ InitMaps
    \/ NoInterface \/ Clean \/ AttachXDP \/ AttachXDPFails \/ Pin
    \/ Detach \/ Crash

Next == Daemon \/ UnloadDetaches \/ UnloadUnpins

Spec == Init /\ [][Next]_vars

----------------------------------------------------------------------------
\* Properties.

Link == (1..MaxDaemons) \X Iface

\* The pin of a link is a file in PinPath.
TypeOK ==
    /\ bpftool \in BOOLEAN
    /\ xdp \in [Iface -> 0..MaxDaemons]
    /\ pinDir \in BOOLEAN
    /\ pin \in Link \cup {NoPin} /\ (pin # NoPin => pinDir)
    /\ daemon \in [pc : {"down", "loaded", "clean", "attach", "pin", "up",
                         "giveup"},
                   gen : 0..MaxDaemons, owns : BOOLEAN, todo : Seq(Iface),
                   tries : 0..1]
    /\ unload \in {"idle", "pins"}
    /\ end \in {"stopped", "failed", "crashed"}

\* "Essential for clean restarts": no interface of a daemon that is up runs
\* the program of an earlier one, whose maps nobody fills any more, however
\* that one ended and whether bpftool is there or not.
CleanStart == daemon.pc = "up" => \A i \in Iface : xdp[i] \in {0, Me}

\* "Detach detaches the XDP program from all interfaces": a daemon that
\* stopped, or gave up in the middle of Start(), leaves no program behind.
NothingLeft ==
    daemon.pc = "down" /\ end # "crashed" /\ Me # 0 =>
        \A i \in Iface : xdp[i] # Me

\* "Detach the firewall from all interfaces" (README.md): when no daemon
\* runs, unload leaves no program attached, with or without bpftool and
\* whatever crashes came before.
UnloadClears ==
    [][unload = "pins" /\ unload' = "idle" /\ daemon.pc = "down" =>
          \A i \in Iface : xdp'[i] = 0]_vars

\* "Network interfaces to protect (supports multiple)": a daemon comes up
\* with its program attached to each of them.
AllProtected ==
    [][daemon.pc # "up" /\ daemon'.pc = "up" =>
          \A i \in Iface : xdp'[i] = Me]_vars
=============================================================================
