----------------------------- MODULE MCAccounts -----------------------------
(* Accounts for TLC.                                                       *)
EXTENDS Accounts, TLC

CONSTANTS c1, c2, a1, a2

On(c) == [NoAccount EXCEPT !.cluster = c]
System(c) == [On(c) EXCEPT !.systemAccount = TRUE]
Broken(c) == [On(c) EXCEPT !.validRegex = FALSE]
Both(s, t) == a1 :> s @@ a2 :> t

\* Users are numbers here, and so are their names.
NameIsNumber == [u \in Users |-> u]

\* Two clusters between which accounts are moved.
MovingSpecs == {NoAccount, On(c1), On(c2), Broken(c1), System(c2)}
MovingStart ==
    {[clusters |-> {c1, c2}, account |-> Both(On(c1), System(c2)), user |-> [u \in Users |-> a1]],
     [clusters |-> {c1}, account |-> Both(On(c1), NoAccount), user |-> [u \in Users |-> None]]}

\* One cluster whose accounts may both want to be the system account.
SharedSpecs == {On(c1), System(c1), Broken(c1)}
SharedStart ==
    {[clusters |-> {c1}, account |-> Both(System(c1), On(c1)), user |-> [u \in Users |-> a1]]}
=============================================================================
