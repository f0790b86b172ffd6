-------------------------- MODULE MCSubscriptions --------------------------
(* Instances of Subscriptions for TLC. *)
EXTENDS Subscriptions, TLC

\* A first payment that comes at once or later, dunning, and the end.
MCLifecycle ==
    {<<"none", "incomplete">>, <<"none", "active">>, <<"incomplete", "active">>,
     <<"active", "past_due">>, <<"past_due", "active">>, <<"active", "canceled">>}

\* A subscription that is never paid, and one that ends.
MCShort == {<<"none", "incomplete">>, <<"active", "canceled">>}

\* Nothing tells one subscription from another.
Symmetry == Permutations(Sub)
=============================================================================
