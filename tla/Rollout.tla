------------------------------- MODULE Rollout -------------------------------
(***************************************************************************)
(* What the operator promises about the configuration of one cluster,      *)
(* whatever it does to keep the promise.                                   *)
(*                                                                         *)
(* A configuration is asked for; it is published; each server loads one;   *)
(* and one is confirmed in the status.  None of these goes back once it    *)
(* has caught up with what is asked for, and the confirmation of what is   *)
(* asked for is true: no server runs anything else, nor will one as long   *)
(* as nothing else is asked for.                                           *)
(***************************************************************************)
CONSTANTS
    Configs,        \* the configurations that can be asked for
    Pods,           \* the pods that may run a server
    None,           \* no configuration
    Managed         \* the operator is in charge of reloading the servers

VARIABLES
    desired,        \* the configuration asked for
    asked,          \* every configuration asked for so far
    published,      \* the one servers find when they look; None if withdrawn
    live,           \* the one each server runs; None where no server runs
    confirmed       \* the one the status names; None at first

vars == <<desired, asked, published, live, confirmed>>

\* A confirmation of c is true: no server runs anything else.
Everywhere(c) == \A p \in Pods : live[p] \in {None, c}

Init ==
    /\ desired \in Configs /\ asked = {desired}
    /\ published = None /\ confirmed = None
    /\ live = [p \in Pods |-> None]

\* Something new is asked for.
Ask(c) ==
    /\ c \notin asked
    /\ desired' = c /\ asked' = asked \cup {c}
    /\ UNCHANGED <<published, live, confirmed>>

\* Something that was asked for is published, but nothing replaces what is
\* asked for now.
Publish(c) ==
    /\ c \in asked /\ published # desired
    /\ published' = c
    /\ UNCHANGED <<desired, asked, live, confirmed>>

\* Somebody deletes what is published.
Withdraw ==
    /\ published' = None
    /\ UNCHANGED <<desired, asked, live, confirmed>>

\* A server starts, or loads another configuration.  It never leaves the one
\* asked for, and a confirmation that is true stays true.
Load(p, c) ==
    /\ c \in asked /\ live[p] # desired
    /\ Managed /\ confirmed = desired => c = desired
    /\ live' = [live EXCEPT ![p] = c]
    /\ UNCHANGED <<desired, asked, published, confirmed>>

Stop(p) ==
    /\ live' = [live EXCEPT ![p] = None]
    /\ UNCHANGED <<desired, asked, published, confirmed>>

\* The status names c.  When this is what is asked for, it is true.
Confirm(c) ==
    /\ c \in asked /\ confirmed # desired
    /\ c = desired => published \in {None, c} /\ (Managed => Everywhere(c))
    /\ confirmed' = c
    /\ UNCHANGED <<desired, asked, published, live>>

Next ==
    \/ \E c \in Configs : Ask(c) \/ Publish(c) \/ Confirm(c)
    \/ Withdraw
    \/ \E p \in Pods : Stop(p) \/ \E c \in Configs : Load(p, c)

Spec == Init /\ [][Next]_vars
=============================================================================
