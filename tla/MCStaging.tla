------------------------------- MODULE MCStaging -------------------------------
(***************************************************************************)
(* Small instances of Staging: two templates, one of which makes packages  *)
(* for two repositories (a library and its debug package).                 *)
(***************************************************************************)
EXTENDS Staging

CONSTANTS main, debug, lib, app

MCMakes == [t \in {lib, app} |-> IF t = lib THEN {"lib", "lib-dbg"} ELSE {"app"}]
MCRepoOf == [n \in {"lib", "lib-dbg", "app"} |-> IF n = "lib-dbg" THEN debug ELSE main]
================================================================================
