------------------------------ MODULE MCRepair ------------------------------
(* Two items, one in an unsafe place, which may have unsafe, missing or    *)
(* equal UIDs; one of them may become one that shows the same UID always,  *)
(* with a component to give another to or without any.                     *)
EXTENDS Repair, TLC

CONSTANTS h1, h2, h3, h4, h5, h6, u1, u2, u3, u4, u5, u6, b1, b2, b3, b4

MCUnsafe == {u2, h1}
MCFirst == b1 :> h1 @@ b2 :> h2
=============================================================================
