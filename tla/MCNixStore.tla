----------------------------- MODULE MCNixStore -----------------------------
(* Two consumers and a build pod on one node.  The consumers' closures share *)
(* a path; of the build's, one path refers to another and one is by itself. *)
EXTENDS NixStore

MCPaths == {"lib", "app", "dep", "new"}
MCRefs == [q \in MCPaths |->
  CASE q = "app" -> {"lib"} [] q = "new" -> {"dep"} [] OTHER -> {}]
MCTop == [p \in {"a", "b", "builder"} |->
  CASE p = "a" -> "app" [] p = "b" -> "lib" [] OTHER -> "new"]
=============================================================================
