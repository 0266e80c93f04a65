----------------------------- MODULE BanPolicy ------------------------------
(***************************************************************************)
(* What the ban life cycle promises, without the actors that keep it: who  *)
(* may be banned, when, and whose ban nobody may end or limit in time.     *)
(* BanTable implements it.                                                 *)
(***************************************************************************)
EXTENDS BpfMap

CONSTANTS
    Src,
    Listed,   \* the sources of blacklist.txt, banned from the start
    Held,     \* those of them that stay banned
    Named     \* source |-> the source it may be banned as

VARIABLES
    sentence,  \* source |-> "temporary" or "permanent", the banned ones
    caught,    \* sources caught over a limit
    off        \* ban_duration_sec is 0

Init ==
    /\ sentence = [s \in Listed |-> "permanent"]
    /\ caught = {}
    /\ off \in BOOLEAN

Catch(s) ==
    /\ caught' = caught \cup {s}
    /\ UNCHANGED <<sentence, off>>

\* Only who was caught is sentenced, as itself or in the name it goes by, and
\* for ever only while the duration of a sentence is 0.
Sentence(s, term) ==
    /\ s \notin Held
    /\ \E t \in caught : s \in {t, Named[t]}
    /\ term = "permanent" => off
    /\ sentence' = Put(sentence, s, term)
    /\ UNCHANGED <<caught, off>>

Release(s) ==
    /\ s \in DOMAIN sentence \ Held
    /\ sentence' = Del(sentence, s)
    /\ UNCHANGED <<caught, off>>

Switch == off' = ~off /\ UNCHANGED <<sentence, caught>>

Next == \/ \E s \in Src :
              \/ Catch(s) \/ Release(s)
              \/ \E term \in {"temporary", "permanent"} : Sentence(s, term)
        \/ Switch

vars == <<sentence, caught, off>>

Spec == Init /\ [][Next]_vars
=============================================================================
