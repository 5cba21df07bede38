--------------------------- MODULE BlockAllocator ---------------------------
(***************************************************************************)
(* What the block allocator promises its callers: a block is given to one  *)
(* holder at a time, and is available again once it is released.  A holder *)
(* may also lose a block without releasing it; the block then stays in use *)
(* until the disk is formatted.                                            *)
(***************************************************************************)
CONSTANTS Blocks
VARIABLES inUse,    \* blocks that must not be given out
          held      \* blocks some holder still refers to

Init == inUse = {} /\ held = {}

Alloc(b) ==
    /\ b \in Blocks \ inUse
    /\ inUse' = inUse \cup {b}
    /\ held' = held \cup {b}

Release(b) ==
    /\ b \in held
    /\ inUse' = inUse \ {b}
    /\ held' = held \ {b}

Lose(b) ==
    /\ b \in held
    /\ held' = held \ {b}
    /\ UNCHANGED inUse

Reset == inUse' = {} /\ held' = {}

Next ==
    \/ \E b \in Blocks : Alloc(b) \/ Release(b) \/ Lose(b)
    \/ Reset

Spec == Init /\ [][Next]_<<inUse, held>>
=============================================================================
