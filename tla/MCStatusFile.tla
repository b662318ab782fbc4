---------------------------- MODULE MCStatusFile ----------------------------
(***************************************************************************)
(* Two processes and two items; three files are enough for the path and    *)
(* for a removed database either process may still have open.              *)
(***************************************************************************)
EXTENDS StatusFile

NothingOrAll == {{}, Idents}
=============================================================================
