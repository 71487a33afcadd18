---------------------------- MODULE ExtensionMap ----------------------------
(***************************************************************************)
(* What the extension area of a vault promises: a map from extension types *)
(* to values, to which a type is added once, before the vault is           *)
(* initialized, and whose values are replaced as a whole.                  *)
(***************************************************************************)
CONSTANT Values        \* Values[t]: what an extension of type t can hold
VARIABLES map, initialized

MapInit == map = << >> /\ initialized = FALSE

Add(t, value) ==
  /\ ~initialized /\ t \notin DOMAIN map
  /\ map' = [u \in DOMAIN map \cup {t} |-> IF u = t THEN value ELSE map[u]]
  /\ UNCHANGED initialized

Replace(t, value) ==
  /\ t \in DOMAIN map
  /\ map' = [map EXCEPT ![t] = value]
  /\ UNCHANGED initialized

Initialize == ~initialized /\ initialized' = TRUE /\ UNCHANGED map

MapNext ==
  \/ \E t \in DOMAIN Values : \E v \in Values[t] : Add(t, v) \/ Replace(t, v)
  \/ Initialize

MapSpec == MapInit /\ [][MapNext]_<<map, initialized>>
=============================================================================
