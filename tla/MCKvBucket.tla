----------------------------- MODULE MCKvBucket -----------------------------
(***************************************************************************)
(* Instances of KvBucket.  Letters are numbers, 0 is NUL.                  *)
(***************************************************************************)
EXTENDS KvBucket

(* An optimised build that shares a client, and an unoptimised one with    *)
(* two.  With two clients an optimised build behaves as an unoptimised one *)
(* does: in both the status that is tested is the one just stored.         *)
MCInit == Init /\ (reload <=> OwnClients)

MCSpec == MCInit /\ [][Next]_vars

(* The key "1", and a span of bytes with a NUL in it.                      *)
WholeKeys == {View(<<1, NUL>>, 1, 1)}
Bytes == {View(<<2, NUL, 3, NUL>>, 1, 3)}
Strings == {View(<<2, NUL>>, 1, 1)}

(* The key "1" as the first half of the string "12".                       *)
PartialKeys == {View(<<1, 2, NUL>>, 1, 1)}
=============================================================================
