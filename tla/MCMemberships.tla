----------------------------- MODULE MCMemberships -----------------------------
(***************************************************************************)
(* Small instances of Memberships: one person, two roles, three rows (the  *)
(* founder's and two grants), two administrators' requests at a time.      *)
(***************************************************************************)
EXTENDS Memberships, TLC
===============================================================================
