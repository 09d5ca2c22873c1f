------------------------------ MODULE MCServer ------------------------------
(* An instance of Server for TLC: clients that name the same stream with and without a query,
   and one that names an application only. *)
EXTENDS Server, TLC

MCUrls == { <<"/", "a", "/", "b">>, <<"/", "a", "/", "b", "?", "/", "x">>, <<"/", "a">> }

MCPaths == {ServerPath(u) : u \in MCUrls}

Symmetry == Permutations(Handlers)
=============================================================================
