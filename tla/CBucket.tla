------------------------------ MODULE CBucket ------------------------------
(***************************************************************************)
(* A key-value bucket as the server keeps it (external).  A request is     *)
(* [kind, key, value]; a bucket is whether it exists, the latest value of  *)
(* every key (NULL: none, or a delete marker) and, as a history, how often *)
(* a key or the bucket was deleted.  Revisions are left out.               *)
(***************************************************************************)
EXTENDS Naturals

CONSTANT NULL

Request(kind, key, value) == [kind |-> kind, key |-> key, value |-> value]

Writes == {"open", "drop", "put", "create", "delete"}

(* An existing bucket without keys.                                        *)
Opened(keys) == [exists |-> TRUE, map |-> [k \in keys |-> NULL], removals |-> 0]

(* Whether the server grants request r.                                    *)
Granted(b, r) ==
  \/ r.kind = "open"
  \/ r.kind \in {"look", "drop", "put", "delete"} /\ b.exists
  \/ r.kind = "get" /\ b.map[r.key] # NULL
  \/ r.kind = "create" /\ b.exists /\ b.map[r.key] = NULL

(* The bucket after request r was granted.                                 *)
After(b, r) ==
  CASE r.kind = "open"              -> [b EXCEPT !.exists = TRUE]
    [] r.kind = "drop"              -> [exists |-> FALSE, map |-> [k \in DOMAIN b.map |-> NULL],
                                        removals |-> b.removals + 1]
    [] r.kind \in {"put", "create"} -> [b EXCEPT !.map[r.key] = r.value]
    [] r.kind = "delete" /\ b.map[r.key] # NULL
                                    -> [b EXCEPT !.map[r.key] = NULL, !.removals = @ + 1]
    [] OTHER                        -> b
=============================================================================
