------------------------------ MODULE MCRelease ------------------------------
(* The repository as it is, a module at major version 4, and one that has   *)
(* no tag yet and no suffix in its module path.                             *)
EXTENDS Release
MCBeginnings == {[tag |-> <<4, 0, 0>>, major |-> 4], [tag |-> NoTag, major |-> 1]}
=============================================================================
