---------------------------- MODULE MCPluginHost ----------------------------
(***************************************************************************)
(* A plugin of the image that comes as an asset, whose other version has a *)
(* script, and one that the instance may add, with a package manager;      *)
(* Caddy does not accept the routes of one of its versions.                *)
(***************************************************************************)
EXTENDS PluginHost

MCBuiltin == [p \in {1} |-> 1]
MCRefused == {<<2, 1>>}
MCScripted == {<<1, 2>>}

=============================================================================
