---------------------------- MODULE MCRenewalClaim ---------------------------
(***************************************************************************)
(* The renewals of MCSubscriptionRenewal, the guest identity of GuestClaim *)
(* and the gifts of RewardRedemption in one run.  They share no state, so  *)
(* nothing is gained by interleaving them: a behaviour is about one of the *)
(* three, and leaves the others as they started.  Rewards and vouchers are *)
(* gifts that share no row either.                                         *)
(*                                                                         *)
(* Two rewards, a referral's for the first purchase and a pre-launch one,  *)
(* and two vouchers for two codes, two requests at a time.                 *)
(***************************************************************************)
EXTENDS MCSubscriptionRenewal, GuestClaim, RewardRedemption

VARIABLE part  \* the one of them that this behaviour is about

MCFits == Rewards \X Subscriptions

ASSUME GuestClaimAssumption

RunInit == Init /\ ClaimInit /\ GiftInit /\ part \in {"renewals", "claims", "rewards", "vouchers"}

RunNext ==
  \/ part = "renewals" /\ Next /\ UNCHANGED <<claimVars, giftVars, part>>
  \/ part = "claims" /\ ClaimNext /\ UNCHANGED <<vars, giftVars, part>>
  \/ part = "rewards" /\ (RewardNext \/ Interruption) /\ UNCHANGED <<vars, claimVars, part>>
  \/ part = "vouchers" /\ (VoucherNext \/ Interruption) /\ UNCHANGED <<vars, claimVars, part>>

RunSpec == RunInit /\ [][RunNext]_<<vars, claimVars, giftVars, part>>

AllSymmetry == Symmetry \cup Permutations(Tokens)
=============================================================================
