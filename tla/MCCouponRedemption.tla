-------------------------- MODULE MCCouponRedemption --------------------------
(***************************************************************************)
(* Small instances of CouponRedemption: three orders with the coupon and   *)
(* one without, of two users.                                              *)
(***************************************************************************)
EXTENDS CouponRedemption, TLC

CONSTANTS o1, o2, o3, plain, u1, u2

MCOrders  == {o1, o2, o3, plain}
MCUsers   == {u1, u2}
MCBuyerOf == (o1 :> u1) @@ (o2 :> u1) @@ (o3 :> u2) @@ (plain :> u1)
=============================================================================
