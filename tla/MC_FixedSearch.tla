--------------------------- MODULE MC_FixedSearch ---------------------------
(* Every ascending array of up to five keys. *)
EXTENDS FixedSearch

MCArrays == {s \in UNION {[1 .. n -> Key] : n \in 0 .. 5} : Ascending(s)}
=============================================================================
