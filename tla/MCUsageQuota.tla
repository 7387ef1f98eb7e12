--------------------------- MODULE MCUsageQuota -----------------------------
(***************************************************************************)
(* Instances of UsageQuota for TLC.  The plans are the seeded tiers of the *)
(* plans migrations with the large numbers brought down to where three     *)
(* calls reach them: starter has no deep scans and no pentests, business   *)
(* has one pentest a month and one a year.  Starter has room for one asset *)
(* and does not offer what the third call is about.                        *)
(***************************************************************************)
EXTENDS UsageQuota, TLC

StarterCaps == [submissions |-> 1, source_review |-> Unlimited,
                manual_pentest |-> Unlimited, active_scan |-> 0,
                manual_pentests_per_year |-> 0, registered_assets_max |-> 1]

BusinessCaps == [submissions |-> 3, source_review |-> 1,
                 manual_pentest |-> 1, active_scan |-> 2,
                 manual_pentests_per_year |-> 1, registered_assets_max |-> 2]

CONSTANTS c1, c2, c3

CallAssets == c1 :> "site" @@ c2 :> "app" @@ c3 :> "none"

\* Two reviews, two pentests, three scans, or a mixture of them, can race.
CallKinds == c1 :> Kinds @@ c2 :> {"manual_pentest", "active_scan"} @@
             c3 :> {"source_review", "active_scan"}

StarterBusinessOffers == [starter |-> {c1, c2}, business |-> {c1, c2, c3}]

StarterBusinessCaps == [starter |-> StarterCaps, business |-> BusinessCaps]
=============================================================================
