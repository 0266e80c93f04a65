-------------------------- MODULE XdpLoaderProofs --------------------------
(***************************************************************************)
(* For any interfaces, attempts and number of daemons: what is attached    *)
(* belongs to the running daemon or is held by the one pin, and so an      *)
(* unload and a Detach() clear what they should.                           *)
(***************************************************************************)
EXTENDS XdpLoader, TLAPS

\* An interface is left to attach while the daemon works on one.
Busy == daemon.pc \in {"clean", "attach", "pin"}

DaemonState ==
    [pc : {"down", "loaded", "clean", "attach", "pin", "up", "giveup"},
     gen : 0..MaxDaemons, owns : BOOLEAN, todo : Seq(Iface), tries : 0..1]

TypeInv ==
    /\ TypeOK
    /\ Busy => daemon.todo # <<>>
    /\ daemon.pc = "loaded" => daemon.todo = Interfaces
    /\ daemon.pc # "down" => Me # 0

USE InterfacesAssumption, NumbersAssumption

\* The rest of a sequence is one of the same elements, all but the first.
LEMMA TailOfSeq ==
    ASSUME NEW S, NEW s \in Seq(S), s # <<>>
    PROVE  /\ Head(s) \in S /\ Tail(s) \in Seq(S)
           /\ Len(s) = 1 => Tail(s) = <<>>
           /\ Len(s) # 1 => Tail(s) # <<>>
           /\ ToSet(s) \subseteq ToSet(Tail(s)) \cup {Head(s)}
<1>1. /\ Len(s) \in Nat \ {0} /\ DOMAIN s = 1..Len(s)
      /\ Head(s) = s[1] /\ s[1] \in S
  OBVIOUS
<1>2. /\ Tail(s) \in Seq(S) /\ DOMAIN Tail(s) = 1..Len(s) - 1
      /\ Len(Tail(s)) = Len(s) - 1
      /\ \A i \in 1..Len(s) - 1 : Tail(s)[i] = s[i + 1]
  BY <1>1
<1>3. /\ Len(s) = 1 => Tail(s) = <<>>
      /\ Len(s) # 1 => Tail(s) # <<>>
  BY <1>1, <1>2
<1>4. ToSet(s) \subseteq ToSet(Tail(s)) \cup {Head(s)}
  <2>1. SUFFICES ASSUME NEW i \in 1..Len(s), i # 1
                 PROVE  \E k \in DOMAIN Tail(s) : s[i] = Tail(s)[k]
    BY <1>1 DEF ToSet
  <2>2. i - 1 \in 1..Len(s) - 1 /\ Tail(s)[i - 1] = s[i - 1 + 1]
    BY <1>1, <1>2, <2>1
  <2>3. i - 1 + 1 = i
    OBVIOUS
  <2> QED
    BY <1>2, <2>2, <2>3
<1> QED
  BY <1>1, <1>2, <1>3, <1>4

\* Most steps move the daemon only.
LEMMA DaemonMoves ==
    ASSUME daemon \in DaemonState,
           NEW p \in {"down", "loaded", "clean", "attach", "pin", "up", "giveup"}
    PROVE  LET d == [daemon EXCEPT !.pc = p]
           IN  /\ d \in DaemonState
               /\ d.pc = p /\ d.gen = Me /\ d.todo = daemon.todo
               /\ d.owns = daemon.owns
BY DEF DaemonState, Me

\* Pin goes on to what is left to attach.
LEMMA DaemonGoesOn ==
    ASSUME daemon \in DaemonState, NEW p \in {"clean", "up"},
           NEW t \in Seq(Iface),
           daemon' = [daemon EXCEPT !.pc = p, !.todo = t, !.tries = 0]
    PROVE  /\ daemon' \in DaemonState /\ daemon'.pc = p
           /\ daemon'.todo = t /\ Me' = Me
<1> DEFINE e == [daemon EXCEPT !.pc = p]
           f == [e EXCEPT !.todo = t]
           g == [f EXCEPT !.tries = 0]
<1>1. e \in DaemonState /\ e.pc = p /\ e.gen = Me
  BY DEF DaemonState, Me
<1> HIDE DEF e
<1>2. f \in DaemonState /\ f.pc = p /\ f.gen = Me /\ f.todo = t
  BY <1>1 DEF DaemonState
<1> HIDE DEF f
<1>3. g \in DaemonState /\ g.pc = p /\ g.gen = Me /\ g.todo = t
  BY SMTT(60), <1>2 DEF DaemonState
<1> QED
  BY <1>3 DEF e, f, Me

\* The types, and that a daemon at work has a generation and work to do.
LEMMA TypeInvariant == Spec => []TypeInv
<1>1. Init => TypeInv
  <2> SUFFICES ASSUME Init PROVE TypeInv
    OBVIOUS
  <2>1. daemon \in DaemonState /\ daemon.pc = "down"
    BY DEF Init, DaemonState
  <2>2. xdp \in [Iface -> 0..MaxDaemons]
    BY DEF Init
  <2> QED
    BY <2>1, <2>2 DEF Init, TypeInv, TypeOK, DaemonState, Busy
<1>2. TypeInv /\ [Next]_vars => TypeInv'
  <2> SUFFICES ASSUME TypeInv, [Next]_vars
               PROVE  TypeInv'
    OBVIOUS
  <2>0. /\ daemon \in DaemonState /\ Me \in Nat /\ MaxDaemons \in Nat
        /\ xdp \in [Iface -> 0..MaxDaemons]
        /\ pin \in Link \cup {NoPin}
        /\ Busy => daemon.todo # <<>>
        /\ daemon.pc = "loaded" => daemon.todo = Interfaces
        /\ daemon.pc # "down" => Me # 0
    BY DEF TypeInv, TypeOK, DaemonState, Me
  <2>1. CASE Load
    <3>1. /\ daemon' \in DaemonState /\ daemon'.pc = "loaded"
          /\ Me' # 0 /\ daemon'.todo = Interfaces
      BY <2>1, <2>0 DEF Load, DaemonState, Me
    <3> QED
      BY <2>1, <2>0, <3>1 DEF Load, TypeInv, TypeOK, DaemonState, Busy
  <2>2. CASE LoadFails
    <3>1. /\ daemon' \in DaemonState /\ daemon'.pc = "down"
          /\ daemon'.todo = daemon.todo /\ Me' = Me /\ daemon.pc = "loaded"
      BY <2>2, <2>0, DaemonMoves DEF LoadFails, Me
    <3> QED
      BY <2>2, <2>0, <3>1 DEF LoadFails, TypeInv, TypeOK, DaemonState, Busy
  <2>3. CASE InitMaps
    <3>1. /\ daemon' \in DaemonState /\ daemon'.pc \in {"clean", "giveup"}
          /\ daemon'.todo = daemon.todo /\ Me' = Me /\ daemon.pc = "loaded"
      <4>1. PICK next \in {"clean", "giveup"} :
                daemon' = [daemon EXCEPT !.pc = next] /\ daemon.pc = "loaded"
        BY <2>3 DEF InitMaps
      <4> QED
        BY <4>1, <2>0, DaemonMoves DEF Me
    <3> QED
      BY <2>3, <2>0, <3>1 DEF InitMaps, TypeInv, TypeOK, DaemonState, Busy
  <2>4. CASE Clean
    <3>1. /\ daemon' \in DaemonState /\ daemon'.pc = "attach"
          /\ daemon'.todo = daemon.todo /\ Me' = Me /\ daemon.pc = "clean"
          /\ xdp' \in [Iface -> 0..MaxDaemons]
      BY <2>4, <2>0, DaemonMoves DEF Clean, Cleaned, Me
    <3> QED
      BY <2>4, <2>0, <3>1 DEF Clean, TypeInv, TypeOK, DaemonState, Busy
  <2>13. CASE NoInterface
    <3>1. /\ daemon' \in DaemonState /\ daemon'.pc = "giveup"
          /\ daemon'.todo = daemon.todo /\ Me' = Me /\ daemon.pc = "clean"
      BY <2>13, <2>0, DaemonMoves DEF NoInterface, Me
    <3> QED
      BY <2>13, <2>0, <3>1 DEF NoInterface, TypeInv, TypeOK, DaemonState, Busy
  <2>5. CASE AttachXDP
    <3>1. /\ daemon' \in DaemonState /\ daemon'.pc = "pin"
          /\ daemon'.todo = daemon.todo /\ Me' = Me /\ daemon.pc = "attach"
          /\ xdp' \in [Iface -> 0..MaxDaemons]
      BY <2>5, <2>0, DaemonMoves DEF AttachXDP, DaemonState, Me
    <3> QED
      BY <2>5, <2>0, <3>1 DEF AttachXDP, TypeInv, TypeOK, DaemonState, Busy
  <2>6. CASE AttachXDPFails
    <3>1. /\ daemon' \in DaemonState /\ daemon'.pc \in {"clean", "giveup"}
          /\ daemon'.todo = daemon.todo /\ Me' = Me /\ daemon.pc = "attach"
      <4>1. CASE daemon.tries + 1 < Attempts
        <5>1. daemon' = [daemon EXCEPT !.pc = "clean", !.tries = daemon.tries + 1]
              /\ daemon.pc = "attach" /\ daemon.tries + 1 \in 0..1
          BY <2>6, <2>0, <4>1 DEF AttachXDPFails, AfterFailure, DaemonState
        <5> QED
          BY <5>1, <2>0 DEF DaemonState, Me
      <4>2. CASE ~(daemon.tries + 1 < Attempts)
        BY <2>6, <2>0, <4>2, DaemonMoves DEF AttachXDPFails, AfterFailure, Me
      <4> QED
        BY <4>1, <4>2
    <3> QED
      BY <2>6, <2>0, <3>1 DEF AttachXDPFails, TypeInv, TypeOK, DaemonState, Busy
  <2>7. CASE Pin
    <3>1. /\ Current \in Iface /\ Tail(daemon.todo) \in Seq(Iface)
          /\ Len(daemon.todo) # 1 => Tail(daemon.todo) # <<>>
          /\ daemon.pc = "pin"
      BY <2>7, <2>0, TailOfSeq DEF Pin, DaemonState, Busy, Current
    <3>2. /\ daemon' \in DaemonState /\ daemon'.pc \in {"clean", "up"}
          /\ daemon'.todo = Tail(daemon.todo) /\ Me' = Me
          /\ daemon'.pc = "clean" => Len(daemon.todo) # 1
      <4>1. PICK next \in {"clean", "up"} :
                /\ daemon' = [daemon EXCEPT !.pc = next,
                                !.todo = Tail(daemon.todo), !.tries = 0]
                /\ next = "clean" => Len(daemon.todo) # 1
        BY <2>7 DEF Pin
      <4>2. /\ daemon' \in DaemonState /\ daemon'.pc = next
            /\ daemon'.todo = Tail(daemon.todo) /\ Me' = Me
        BY <4>1, <2>0, <3>1, DaemonGoesOn
      <4> QED
        BY <4>1, <4>2
    <3>3. Me \in 1..MaxDaemons
      BY <2>0, <3>1 DEF DaemonState, Me
    <3>4. pin' \in Link \cup {NoPin} /\ (pin' # NoPin => pinDir')
      BY <2>7, <2>0, <3>1, <3>3 DEF Pin, Pinnable, Link, TypeInv, TypeOK
    <3> QED
      BY <2>7, <2>0, <3>1, <3>2, <3>4
      DEF Pin, TypeInv, TypeOK, DaemonState, Busy
  <2>8. CASE Detach
    <3>1. /\ daemon' \in DaemonState /\ daemon'.pc = "down"
          /\ daemon'.todo = daemon.todo /\ Me' = Me /\ daemon.pc \in {"giveup", "up"}
          /\ xdp' \in [Iface -> 0..MaxDaemons] /\ pin' = NoPin
      BY <2>8, <2>0, DaemonMoves DEF Detach, Unpinned, PinAfter, Me
    <3> QED
      BY <2>8, <2>0, <3>1 DEF Detach, TypeInv, TypeOK, DaemonState, Busy
  <2>9. CASE Crash
    <3>1. /\ daemon' \in DaemonState /\ daemon'.pc = "down"
          /\ daemon'.todo = daemon.todo /\ Me' = Me /\ daemon.pc # "down"
          /\ xdp' \in [Iface -> 0..MaxDaemons]
      BY <2>9, <2>0, DaemonMoves DEF Crash, Surviving, Me
    <3> QED
      BY <2>9, <2>0, <3>1 DEF Crash, TypeInv, TypeOK, DaemonState, Busy
  <2>10. CASE UnloadDetaches
    <3>1. xdp' \in [Iface -> 0..MaxDaemons]
      BY <2>10, <2>0 DEF UnloadDetaches, Cleaned
    <3> QED
      BY <2>10, <3>1 DEF UnloadDetaches, TypeInv, TypeOK, Busy, Me
  <2>11. CASE UnloadUnpins
    <3>1. xdp' \in [Iface -> 0..MaxDaemons] /\ pin' = NoPin
      BY <2>11, <2>0 DEF UnloadUnpins, PinsRemoved
    <3> QED
      BY <2>11, <3>1 DEF UnloadUnpins, PinsRemoved, TypeInv, TypeOK, Busy, Me
  <2>12. CASE UNCHANGED vars
    BY <2>12 DEF vars, TypeInv, TypeOK, Busy, Me
  <2> QED
    BY <2>1, <2>2, <2>3, <2>4, <2>5, <2>6, <2>7, <2>8, <2>9, <2>10, <2>11,
       <2>12, <2>13 DEF Next, Daemon
<1> QED
  BY <1>1, <1>2, PTL DEF Spec

\* The types of the loader's state, and that a pin is a file in PinPath.
THEOREM TypeCorrect == Spec => []TypeOK
BY TypeInvariant, PTL DEF TypeInv

----------------------------------------------------------------------------
\* A link is attached for a reason: its owner is alive, or it is the one that
\* the pin holds.
Held(i) ==
    \/ xdp[i] = 0
    \/ pin = <<xdp[i], i>>
    \/ xdp[i] = Me /\ daemon.pc # "down"

\* The interfaces the daemon is done with.
Done == IF daemon.pc = "up" THEN Iface ELSE Iface \ ToSet(daemon.todo)

LinkInv ==
    /\ \A i \in Iface : xdp[i] <= Me /\ Held(i)
    /\ daemon.pc = "loaded" => \A i \in Iface : xdp[i] # Me
    /\ daemon.pc \in {"clean", "attach", "pin", "up"} =>
          \A i \in Done : xdp[i] \in {0, Me}
    /\ daemon.pc = "pin" => xdp[Current] \in {0, Me}
    /\ NothingLeft

\* A step that leaves the daemon and the pin alone and takes links off.
LEMMA LinksTakenOff ==
    ASSUME TypeInv, LinkInv, daemon' = daemon, pin' = pin, end' = end,
           \A i \in Iface : xdp'[i] \in {xdp[i], 0}
    PROVE  LinkInv'
<1>1. xdp \in [Iface -> Nat] /\ Me \in Nat /\ (daemon.pc # "down" => Me # 0)
  BY DEF TypeInv, TypeOK, Me
<1>2. Me' = Me /\ Done' = Done /\ Current' = Current
  BY DEF Me, Done, Current
<1>3. \A i \in Iface : xdp'[i] <= Me' /\ Held(i)'
  BY <1>1, <1>2 DEF LinkInv, Held
<1>4. daemon.pc = "pin" => Current \in Iface
  BY TailOfSeq DEF TypeInv, TypeOK, Busy, Current
<1>5. Done \subseteq Iface
  BY DEF Done
<1> QED
  BY <1>1, <1>2, <1>3, <1>4, <1>5 DEF LinkInv, NothingLeft

\* Every step keeps the links held or owned.
LEMMA LinkInvariant == Spec => []LinkInv
<1>1. Init => LinkInv
  BY DEF Init, LinkInv, Held, NothingLeft, Me
<1>2. TypeInv /\ LinkInv /\ [Next]_vars => LinkInv'
  <2> SUFFICES ASSUME TypeInv, LinkInv, [Next]_vars
               PROVE  LinkInv'
    OBVIOUS
  <2>0. /\ Me \in Nat /\ xdp \in [Iface -> Nat]
        /\ daemon \in DaemonState
        /\ daemon.pc # "down" => Me # 0
        /\ daemon.pc = "loaded" => daemon.todo = Interfaces
        /\ Busy => daemon.todo # <<>>
    BY DEF TypeInv, TypeOK, DaemonState, Me
  <2>1. CASE Load
    <3>1. /\ Me' = Me + 1 /\ daemon'.pc = "loaded" /\ daemon.pc = "down"
          /\ xdp' = xdp /\ pin' = pin
      BY <2>1 DEF Load, Me
    <3> QED
      BY <2>0, <3>1 DEF LinkInv, Held, NothingLeft
  <2>2. CASE LoadFails
    <3>1. /\ Me' = Me /\ daemon'.pc = "down" /\ daemon.pc = "loaded"
          /\ xdp' = xdp /\ pin' = pin
      BY <2>2, <2>0, DaemonMoves DEF LoadFails, Me
    <3> QED
      BY <2>0, <3>1 DEF LinkInv, Held, NothingLeft
  <2>3. CASE InitMaps
    <3>1. PICK next \in {"clean", "giveup"} :
              daemon' = [daemon EXCEPT !.pc = next]
      BY <2>3 DEF InitMaps
    <3>2. /\ Me' = Me /\ daemon'.pc = next /\ daemon.pc = "loaded"
          /\ daemon'.todo = Interfaces
          /\ xdp' = xdp /\ pin' = pin
      <4>1. daemon.pc = "loaded" /\ xdp' = xdp /\ pin' = pin
        BY <2>3 DEF InitMaps
      <4>2. next \in {"down", "loaded", "clean", "attach", "pin", "up", "giveup"}
        OBVIOUS
      <4>3. daemon'.pc = next /\ daemon'.gen = Me /\ daemon'.todo = daemon.todo
        BY <2>0, <3>1, <4>2, DaemonMoves
      <4> QED
        BY <2>0, <4>1, <4>3 DEF Me
    <3>3. Done' = {}
      BY <3>1, <3>2 DEF Done, Iface
    <3> QED
      BY <2>0, <3>1, <3>2, <3>3 DEF LinkInv, Held, NothingLeft
  <2>4. CASE Clean
    <3>1. /\ Me' = Me /\ daemon'.pc = "attach" /\ daemon.pc = "clean"
          /\ daemon'.todo = daemon.todo /\ pin' = pin
      BY <2>4, <2>0, DaemonMoves DEF Clean, Me
    <3>2. \A i \in Iface : xdp'[i] \in {xdp[i], 0}
      BY <2>4 DEF Clean, Cleaned
    <3>3. Done' = Done /\ Done \subseteq Iface
      BY <3>1 DEF Done
    <3> QED
      BY <2>0, <3>1, <3>2, <3>3 DEF LinkInv, Held, NothingLeft
  <2>13. CASE NoInterface
    <3>1. /\ Me' = Me /\ daemon'.pc = "giveup" /\ daemon.pc = "clean"
          /\ daemon'.todo = daemon.todo /\ xdp' = xdp /\ pin' = pin
      BY <2>13, <2>0, DaemonMoves DEF NoInterface, Me
    <3>2. Done' = Done /\ Done \subseteq Iface
      BY <3>1 DEF Done
    <3> QED
      BY <2>0, <3>1, <3>2 DEF LinkInv, Held, NothingLeft
  <2>5. CASE AttachXDP
    <3>1. /\ Me' = Me /\ daemon'.pc = "pin" /\ daemon.pc = "attach"
          /\ daemon'.todo = daemon.todo /\ pin' = pin
          /\ xdp' = [xdp EXCEPT ![Current] = Me]
      BY <2>5, <2>0, DaemonMoves DEF AttachXDP, Me
    <3>2. Current \in Iface /\ Current' = Current
      BY <2>0, <3>1, TailOfSeq DEF DaemonState, Busy, Current
    <3>3. Done' = Done /\ Done \subseteq Iface
      BY <3>1 DEF Done
    <3> QED
      BY <2>0, <3>1, <3>2, <3>3 DEF LinkInv, Held, NothingLeft
  <2>6. CASE AttachXDPFails
    <3>1. /\ Me' = Me /\ daemon'.pc \in {"clean", "giveup"}
          /\ daemon.pc = "attach" /\ daemon'.todo = daemon.todo
          /\ xdp' = xdp /\ pin' = pin
      BY <2>6, <2>0, DaemonMoves
      DEF AttachXDPFails, AfterFailure, DaemonState, Me
    <3>2. Done' = Done /\ Done \subseteq Iface
      BY <3>1 DEF Done
    <3> QED
      BY <2>0, <3>1, <3>2 DEF LinkInv, Held, NothingLeft
  <2>7. CASE Pin
    <3>1. /\ Current \in Iface /\ Tail(daemon.todo) \in Seq(Iface)
          /\ Len(daemon.todo) = 1 => Tail(daemon.todo) = <<>>
          /\ ToSet(daemon.todo) \subseteq ToSet(Tail(daemon.todo)) \cup {Current}
          /\ daemon.pc = "pin"
      BY <2>7, <2>0, TailOfSeq DEF Pin, DaemonState, Busy, Current
    <3>2. PICK next \in {"clean", "up"} :
              /\ daemon' = [daemon EXCEPT !.pc = next,
                              !.todo = Tail(daemon.todo), !.tries = 0]
              /\ next = "up" => Len(daemon.todo) = 1
      BY <2>7 DEF Pin
    <3>3. /\ Me' = Me /\ daemon'.pc = next
          /\ daemon'.todo = Tail(daemon.todo)
      BY <2>0, <3>1, <3>2, DaemonGoesOn
    <3>4. xdp' = xdp /\ (pin' = pin \/ pin = NoPin)
      BY <2>7 DEF Pin, Pinnable
    <3>5. Done' \subseteq Done \cup {Current} /\ Done' \subseteq Iface
      <4>1. next = "up" => ToSet(Tail(daemon.todo)) = {}
        BY <3>1, <3>2 DEF ToSet
      <4> QED
        BY <3>1, <3>3, <4>1 DEF Done
    <3>6. \A i \in Iface : Held(i)'
      BY <2>0, <3>1, <3>3, <3>4 DEF LinkInv, Held, NoPin
    <3> QED
      BY <2>0, <3>1, <3>3, <3>4, <3>5, <3>6 DEF LinkInv, NothingLeft
  <2>8. CASE Detach
    <3>1. /\ Me' = Me /\ daemon'.pc = "down"
          /\ daemon.pc \in {"giveup", "up"} /\ xdp' = Unpinned(NoPin)
      BY <2>8, <2>0, DaemonMoves DEF Detach, PinAfter, Me
    <3>2. \A i \in Iface : xdp'[i] = 0
      BY <2>0, <3>1 DEF LinkInv, Held, Unpinned, NoPin
    <3> QED
      BY <2>0, <3>1, <3>2 DEF LinkInv, Held, NothingLeft
  <2>9. CASE Crash
    <3>1. /\ Me' = Me /\ daemon'.pc = "down" /\ end' = "crashed"
          /\ xdp' = Surviving(pin) /\ pin' = pin
      BY <2>9, <2>0, DaemonMoves DEF Crash, Me
    <3> QED
      BY <2>0, <3>1 DEF LinkInv, Held, NothingLeft, Surviving
  <2>10. CASE UnloadDetaches
    BY <2>10, LinksTakenOff DEF UnloadDetaches, Cleaned
  <2>11. CASE UnloadUnpins
    <3>1. /\ daemon' = daemon /\ end' = end /\ Me' = Me
          /\ xdp' = [i \in Iface |->
                        IF /\ pin = <<xdp[i], i>> /\ NoPin # pin
                           /\ ~(xdp[i] = Me /\ daemon.pc # "down")
                        THEN 0 ELSE xdp[i]]
      BY <2>11 DEF UnloadUnpins, PinsRemoved, Me
    <3>2. \A i \in Iface : Held(i)' /\ xdp'[i] \in {xdp[i], 0}
      BY <2>0, <3>1 DEF LinkInv, Held, NoPin
    <3>3. Done' = Done /\ Done \subseteq Iface /\ Current' = Current
      BY <3>1 DEF Done, Current
    <3>4. daemon.pc = "pin" => Current \in Iface
      BY <2>0, TailOfSeq DEF DaemonState, Busy, Current
    <3> QED
      BY <2>0, <3>1, <3>2, <3>3, <3>4 DEF LinkInv, NothingLeft
  <2>12. CASE UNCHANGED vars
    BY <2>12, LinksTakenOff DEF vars
  <2> QED
    BY <2>1, <2>2, <2>3, <2>4, <2>5, <2>6, <2>7, <2>8, <2>9, <2>10, <2>11,
       <2>12, <2>13 DEF Next, Daemon
<1> QED
  BY <1>1, <1>2, TypeInvariant, PTL DEF Spec

\* A daemon that is up runs beside no program of an earlier one, however that
\* one ended.
THEOREM StartsClean == Spec => []CleanStart
<1>1. LinkInv => CleanStart
  BY DEF LinkInv, CleanStart, Done
<1> QED
  BY <1>1, LinkInvariant, PTL

\* A daemon that stopped or gave up leaves no program behind.
THEOREM LeavesNothing == Spec => []NothingLeft
<1>1. LinkInv => NothingLeft
  BY DEF LinkInv
<1> QED
  BY <1>1, LinkInvariant, PTL

\* With no daemon running, unload leaves no program attached.
THEOREM UnloadCleans == Spec => UnloadClears
<1> DEFINE Clears == unload = "pins" /\ unload' = "idle" /\ daemon.pc = "down" =>
                         \A i \in Iface : xdp'[i] = 0
<1>1. TypeInv /\ LinkInv /\ [Next]_vars => [Clears]_vars
  <2> SUFFICES ASSUME TypeInv, LinkInv, Next, unload = "pins", unload' = "idle",
                      daemon.pc = "down", NEW i \in Iface
               PROVE  xdp'[i] = 0
    OBVIOUS
  <2>1. UnloadUnpins
    BY DEF Next, Daemon, Load, LoadFails, InitMaps, NoInterface, Clean,
           AttachXDP, AttachXDPFails, Pin, Detach, Crash, UnloadDetaches
  <2>2. xdp \in [Iface -> Nat] /\ Held(i)
    BY DEF TypeInv, TypeOK, LinkInv
  <2> QED
    BY <2>1, <2>2 DEF UnloadUnpins, PinsRemoved, Held, NoPin
<1> QED
  BY <1>1, TypeInvariant, LinkInvariant, PTL DEF Spec, UnloadClears
=============================================================================
