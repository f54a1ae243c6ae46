------------------------- MODULE MCBundleReconciler -------------------------
(* BundleReconciler for TLC: the constants that are functions.             *)
EXTENDS BundleReconciler

\* Odd Bundles are image Bundles, even ones config Bundles.
MCTypeOf == [b \in Bundles |-> IF b % 2 = 1 THEN "image" ELSE "config"]
MCOneType == [b \in Bundles |-> "image"]

\* No two Bundles share an artifact; or the first two do.
MCCarriesNone == [b \in Bundles |-> {}]
MCCarriesSame == [b \in Bundles |-> IF b <= 2 THEN {1, 2} \ {b} ELSE {}]
=============================================================================
