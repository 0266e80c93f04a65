------------------------------ MODULE XdpBudget ------------------------------
(***************************************************************************)
(* What the rate limits of XdpFilter amount to over a sliding second: the  *)
(* frames of a source that pass its limit and the sources that get listed, *)
(* counted for each CPU and since each moment of the second that ends now, *)
(* by the clock of the frame.  The data plane is left as it is.            *)
(***************************************************************************)
EXTENDS XdpFilter, FiniteSetsExt

VARIABLES
    accepted,   \* <<source, CPU>> |-> moment |-> frames that arrived since
                \* that and passed the limit of their source
    listed      \* CPU |-> moment |-> sources that entered the rate map with
                \* a frame that arrived since that

bvars == <<vars, accepted, listed>>

\* The moments that are in one second with time n.
Moments(n) == {t \in 0..n : n - t < Window}

Zeros(n) == [t \in Moments(n) |-> 0]

\* One more, for a frame that arrived at time a.
OneMore(f, a) == [t \in DOMAIN f |-> IF t <= a THEN f[t] + 1 ELSE f[t]]

Later(f) == [t \in Moments(now') |-> IF t = now' THEN 0 ELSE f[t]]

\* CPU c takes a step with its frame.
CountFrame(c) ==
    LET a == frame[c].now_ns
        counted == frame[c].at = "pps"
    IN  /\ accepted' = IF counted /\ frame'[c].exit # "pps"
                       THEN [accepted EXCEPT ![<<SrcOf(c), c>>] = OneMore(@, a)]
                       ELSE accepted
        /\ listed' = IF counted /\ Unlisted(c)
                     THEN [listed EXCEPT ![c] = OneMore(@, a)]
                     ELSE listed

BudgetInit ==
    /\ Init
    /\ accepted = [sc \in Src \X CPU |-> Zeros(now)]
    /\ listed = [c \in CPU |-> Zeros(now)]

BudgetNext ==
    \/ \E c \in DOMAIN frame : Program(c) /\ CountFrame(c)
    \/ /\ \/ \E c \in CPU, p \in Packets : Arrive(c, p)
          \/ Write \/ ReadRing \/ Reclaim
       /\ UNCHANGED <<accepted, listed>>
    \/ /\ Tick
       /\ accepted' = [sc \in Src \X CPU |-> Later(accepted[sc])]
       /\ listed' = [c \in CPU |-> Later(listed[c])]

BudgetSpec == BudgetInit /\ [][BudgetNext]_bvars

----------------------------------------------------------------------------
\* The highest limit in any config; in all of them it is one (0 is none).
Limit(field) == Max({k[field] : k \in Configs})

Limited(field) == \A k \in Configs : k[field] > 0

\* The comment on pushConfig() allows a source its limit on each CPU, and a
\* fixed window lets it spend two windows' worth back to back, less the frame
\* that opened the first: whatever the order of windows, reloads and frames, a
\* source that is not whitelisted gets no more than that through a CPU in any
\* second, and so no more than NumCPU times that into the host.
AcceptBudget ==
    Limited("pps") =>
        \A sc \in Src \X CPU, t \in Moments(now) :
            accepted[sc][t] <= 2 * Limit("pps") - 1

\* The same for the sources the new-source limit lets into the rate map: a
\* spoofed flood lists no more of them on a CPU in any second, though it is
\* a later stage that lists them and another CPU may have listed them first.
ListingBudget ==
    Limited("new_src") =>
        \A c \in CPU, t \in Moments(now) :
            listed[c][t] <= 2 * Limit("new_src") - 1
=============================================================================
