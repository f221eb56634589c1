-------------------------- MODULE MCProcessRunner --------------------------
(***************************************************************************)
(* ProcessRunner with one descendant on both platforms.                    *)
(***************************************************************************)
EXTENDS ProcessRunner

CONSTANT child
=============================================================================
