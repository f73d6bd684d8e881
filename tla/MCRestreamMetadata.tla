------------------------ MODULE MCRestreamMetadata ------------------------
(***************************************************************************)
(* The metadata model for TLC: two processes (so that UpdateProcess can   *)
(* rename onto a free id), two keys and one value, one restart.           *)
(***************************************************************************)
EXTENDS RestreamMetadata

=============================================================================
