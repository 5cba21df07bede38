----------------------------- MODULE MCBlockPool -----------------------------
(* Small instance of BlockPool: data that is not a stack reads as wild      *)
(* addresses.                                                               *)
EXTENDS BlockPool

MCJunk == { [j \in Slots |-> WILD] }
=============================================================================
