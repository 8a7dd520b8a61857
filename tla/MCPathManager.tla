---------------------------- MODULE MCPathManager ----------------------------
(***************************************************************************)
(* The path manager on a small instance.  A name that callers may get a    *)
(* path for may be removed while there is a path object left to be created *)
(* for it; the other names are added once, and never removed.              *)
(***************************************************************************)
EXTENDS PathManager

\* One path object is left besides those that missing paths will need.
Spare ==
  Cardinality({p \in Paths : at[p] = "unused"}) > Cardinality({n \in Names : paths[n] = None})

SmallNext ==
  /\ Next
  /\ \A n \in pathConfs \ pathConfs' : n \in ValidNames /\ Spare

SmallSpec == Init /\ [][SmallNext]_vars /\ Fairness
=============================================================================
