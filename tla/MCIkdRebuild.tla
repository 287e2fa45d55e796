---------------------------- MODULE MCIkdRebuild ----------------------------
(* Three blocks: the tree, a node of two blocks and the leaf of one.       *)
EXTENDS IkdRebuild
MCBlock == {1, 2, 3}
MCNode == {{1, 2, 3}, {1, 2}, {1}}
MCBox == {{1, 2, 3}, {1, 2}, {1}}
MCZone == {{1, 2, 3}, {1, 2}, {1}}
=============================================================================
