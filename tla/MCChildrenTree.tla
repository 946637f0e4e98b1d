--------------------------- MODULE MCChildrenTree ---------------------------
(***************************************************************************)
(* The instance of ChildrenTree for TLC: two trees, one walked whole and   *)
(* one that the bounds cut short.                                          *)
(***************************************************************************)
EXTENDS ChildrenTree

CONSTANTS r, a, b, c, d

(* A cycle between a and b, and c below a, which two paths reach; c works, by a *)
(* flag beside a stale status, and b by its status does not.  Deep enough to    *)
(* come round the cycle, with room for every node.                              *)
Cyclic ==
  [root    |-> r,
   kids    |-> [s \in SessionIDs |-> CASE s = r -> <<a, b>> [] s = a -> <<b, c>>
                                       [] s = b -> <<a>>    [] OTHER -> <<>>],
   working |-> {c},
   summary |-> [s \in SessionIDs |->
                  CASE s = c -> [busy |-> TRUE, status |-> "completed"]
                    [] s = b -> [busy |-> FALSE, status |-> "in_progress"]
                    [] OTHER -> [busy |-> Absent, status |-> "completed"]],
   depth |-> 3, concurrency |-> 2, nodes |-> 9, page |-> 2]

(* b in two places, and below it a chain that ends at d, which works; a ceiling *)
(* and a cap that both cut the walk short, one child to a page.                 *)
Forked ==
  [root    |-> r,
   kids    |-> [s \in SessionIDs |-> CASE s = r -> <<a, b>> [] s = a -> <<b>>
                                       [] s = b -> <<c>>    [] s = c -> <<d>>
                                       [] OTHER -> <<>>],
   working |-> {d},
   summary |-> [s \in SessionIDs |->
                  [busy |-> Absent, status |-> IF s = d THEN "launching" ELSE Absent]],
   depth |-> 2, concurrency |-> 2, nodes |-> 3, page |-> 1]

BothWorlds == {Cyclic, Forked}
=============================================================================
