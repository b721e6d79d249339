--------------------------- MODULE MCModuleLoader ---------------------------
(***************************************************************************)
(* Three files that parse, one that does not and one missing path: imports *)
(* of any one, of any two that parse or are missing, in either order or    *)
(* twice, under distinct aliases, and of two under the same alias.         *)
(***************************************************************************)
EXTENDS ModuleLoader

CONSTANTS main, lib, util, gone, broken, first, second

MCFiles == {main, lib, util}
Decl(p, a, r) == [path |-> p, alias |-> a, reads |-> r]
Plain == {<< >>} \union {<<Decl(p, first, FALSE)>> : p \in Paths}
Pairs == {<<Decl(p, first, FALSE), Decl(q, second, FALSE)>> : p, q \in Paths \ Malformed}
Clash == {<<Decl(lib, first, FALSE), Decl(util, first, FALSE)>>}
Reading == {<<Decl(p, first, TRUE)>> : p \in MCFiles}
MCTexts == Plain \union Pairs \union Clash \union Reading
=============================================================================
