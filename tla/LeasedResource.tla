--------------------------- MODULE LeasedResource ---------------------------
(***************************************************************************)
(* What every lease of this repository promises its callers, whatever the  *)
(* words it is built from: a resource is lent to any number of calls while *)
(* it is open, closing it refuses new loans without disturbing the ones in *)
(* flight, and the one native release happens after the last of them.      *)
(*                                                                         *)
(* GoResourceOwner implements it (see Lease there); GoSemiring uses its    *)
(* actions as the atomic steps of the leases it is composed of.            *)
(***************************************************************************)

CONSTANT Calls                       \* the calls that may borrow the resource

VARIABLES
  phase,                             \* "open", "closed", then "released"
  holders                            \* the calls the resource is lent to

lease == <<phase, holders>>

TypeOK ==
  /\ phase \in {"open", "closed", "released"}
  /\ holders \subseteq Calls

Init ==
  /\ phase = "open"
  /\ holders = {}

Borrow(c) ==
  /\ phase = "open"
  /\ c \notin holders
  /\ holders' = holders \cup {c}
  /\ UNCHANGED phase

Return(c) ==
  /\ c \in holders
  /\ holders' = holders \ {c}
  /\ UNCHANGED phase

Close ==
  /\ phase = "open"
  /\ phase' = "closed"
  /\ UNCHANGED holders

Release ==
  /\ phase = "closed"
  /\ holders = {}
  /\ phase' = "released"
  /\ UNCHANGED holders

Next ==
  \/ \E c \in Calls : Borrow(c) \/ Return(c)
  \/ Close
  \/ Release

(***************************************************************************)
(* A callback returns its loan, and a closed resource nobody holds is      *)
(* released; nobody is obliged to borrow or to close.                      *)
(***************************************************************************)
Fairness ==
  /\ \A c \in Calls : WF_lease(Return(c))
  /\ WF_lease(Release)

Spec == Init /\ [][Next]_lease /\ Fairness
=============================================================================
