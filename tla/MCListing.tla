----------------------------- MODULE MCListing -----------------------------
(* Listing.tla for TLC: three rows in all, pages of one row.                *)
EXTENDS Listing, TLC

Tried ==
    {[status |-> None, tag |-> FALSE], [status |-> "open", tag |-> FALSE],
     [status |-> "resolved", tag |-> TRUE]}

Symmetry == Permutations(Posters) \union Permutations(CallIds)
=============================================================================
