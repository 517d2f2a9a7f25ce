-------------------------------- MODULE MCFetch --------------------------------
(***************************************************************************)
(* Small instances of Fetch: a template with one or two sources.           *)
(***************************************************************************)
EXTENDS Fetch

CONSTANTS s, t

One == <<s>>
Two == <<s, t>>
================================================================================
