--------------------------- MODULE MCConfigReload ---------------------------
(* Small instances of the configuration watcher for TLC. *)
EXTENDS ConfigReload
=============================================================================
