----------------------------- MODULE MCRegistry -----------------------------
(* Registry with two workers and model values for the list head and NULL. *)
EXTENDS Registry

MCN == 2

=============================================================================
