----------------------------- MODULE MCBookings -----------------------------
(* A task and a checkout of two services priced so that rounding shows.    *)
EXTENDS Bookings, TLC

Fee(p, g) == [platform |-> p, gst |-> g, toOtherParty |-> 7000, toPlatform |-> 3000]
MCDefault == Fee(500, 1800)
MCStructures == {Fee(1000, 1800)}
MCRow(k, m, p, g, a) == [key |-> k, mode |-> m, platform |-> p, gst |-> g, active |-> a]
MCRows == {MCRow("cleaning", "BIDDING", 1200, Unset, TRUE),
           MCRow("cleaning", "BOOK_NOW", Unset, 1200, TRUE),
           MCRow("default", "BOOK_NOW", Unset, 500, FALSE)}
MCLookupKeys == [cleaning |-> <<"cleaning", "home-cleaning">>, ac |-> <<"ac">>,
                 default |-> <<"default">>]
MCOffers == {[discount |-> 0, coins |-> 0], [discount |-> 10001, coins |-> 5000]}
MCServices == {"sofa", "ac"}
MCPrice == [sofa |-> 21111, ac |-> 12900]
MCCategoryOf == [sofa |-> "cleaning", ac |-> "ac"]
MCFirstRows == {{}, MCRows}
MCAllRows == MCRows \cup {MCRow("cleaning", "BIDDING", Unset, 1200, TRUE)}
Symmetry == Permutations(Instances) \cup Permutations(RefundCalls)

\* Once a task is answered for good, or a checkout paid, no action and no
\* property but RatesSettle reads the percentages again; once a refund of a
\* checkout was asked for, only the captured amount of the order matters.
View ==
  IF answer # NoAnswer THEN <<left, changed, orderVars, returned>>
  ELSE IF kind = "book_now" /\ order # {}
  THEN <<left, IF calls = 0 THEN order ELSE Paid.captured, status, assigned = Unassigned,
         reached, refundVars>>
  ELSE bookingVars
=============================================================================
