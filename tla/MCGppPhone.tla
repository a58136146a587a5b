------------------------------ MODULE MCGppPhone ------------------------------
(***************************************************************************)
(* Small instances of GppPhone: one phone, its records, a few presses at   *)
(* the desks.                                                              *)
(***************************************************************************)
EXTENDS GppPhone, TLC

MCCallers == Runs \cup Desks \cup {Form}
===============================================================================
