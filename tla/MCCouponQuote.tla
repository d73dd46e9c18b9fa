--------------------------- MODULE MCCouponQuote ---------------------------
(***************************************************************************)
(* The coupons of MCCouponRedemption together with the price quotes they   *)
(* are reckoned into.  The quotes have no state of their own: what is      *)
(* checked is that no order is placed from a bad one, over every bounded   *)
(* history of prices and every basket.                                     *)
(***************************************************************************)
EXTENDS MCCouponRedemption, PriceQuote

\* Two items of any kind, or three of one snapshot at a small discount.
MCBaskets ==
  [1..2 -> [snap : {1, 2}, base : {1, 50, 99}, settle : {45}, months : {1, 3},
            percent : {0, 15}, fixed : BOOLEAN, eligible : BOOLEAN]]
  \cup [1..3 -> [snap : {1}, base : {1, 2, 10, 33}, settle : {7}, months : {1},
                 percent : {10}, fixed : {FALSE}, eligible : BOOLEAN]]

Placed == \E o \in Orders : order[o] # "none"

\* A quote of a published display price settles at the price of the same
\* publication, whatever administrators and publications commit meanwhile, also
\* between its two reads, and however late an earlier change is committed.  And a
\* product without variants is shown at one price and charged another only between
\* an administrator's update and the next publication, or if a change takes its
\* time while the request runs.
QuoteIsOnePublication == Placed => SplitHistories = 0 /\ MixedHistories = 0

\* The latest price an administrator set is the one in force, and the one every
\* later publication starts from, unless a publication with a later time, or an
\* update that leaves the price of a product without variants as it was, had read the
\* price before the change was committed: then the change is lost.
SetPriceLostOnlyToOverlap == Placed => LosingHistories = 0

\* A coupon's cents are spread without gain or loss: they add up to the rounded
\* percentage, no item is off its exact share by a cent or more, none is discounted
\* below zero, and only eligible items are.  And the total a buyer is shown, taken
\* from the order's sums, is the sum of what the items are sold for, and the same
\* holds of what is due: no cut-off at zero hides a discount larger than its item.
AllocationIsExact == Placed => Inexact = 0 /\ Disagreeing = 0

=============================================================================
