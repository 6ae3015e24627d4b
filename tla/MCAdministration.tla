-------------------------- MODULE MCAdministration --------------------------
(* One object of each kind, and global_default beside another policy.  The  *)
(* first start finds all of them in the database; the device has a name,    *)
(* carries the tag and belongs to the user or to nobody.                    *)
EXTENDS Administration, TLC

CONSTANTS h1, h2
Symmetry == Permutations(Handlers)

Full(owner) == [o \in Objects |-> IF Kind(o) = "owner" THEN owner ELSE 0]
MCKept == {Full(owner) : owner \in Users \cup {None}}
=============================================================================
