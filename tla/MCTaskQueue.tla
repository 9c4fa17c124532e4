------------------------------- MODULE MCTaskQueue -------------------------------
(***************************************************************************)
(* TaskQueue for TLC: chats are model values and interchangeable.          *)
(***************************************************************************)
EXTENDS TaskQueue, TLC

ChatSymmetry == Permutations(Chats)

==================================================================================
