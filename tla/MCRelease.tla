----------------------------- MODULE MCRelease -----------------------------
EXTENDS Release

\* Two flags; "on" breaks the shop, "off" mends it.
MCKey == {[ref |-> <<"pin">>, revert |-> r] : r \in BOOLEAN}
MCAsked == [k \in MCKey |->
              [flag |-> "f", variant |-> IF k.revert THEN "on" ELSE "off"]]

Flip(v) == [verb |-> "flagVariant", flag |-> "f", variant |-> v,
            has |-> Needs["flagVariant"]]
Cut(v) == [verb |-> "maintenanceRelease", flag |-> "f", variant |-> v,
           has |-> Needs["maintenanceRelease"]]
Restart == [verb |-> "restart", flag |-> "", variant |-> "", has |-> Needs["restart"]]
Bare == [verb |-> "scale", flag |-> "", variant |-> "", has |-> {"namespace"}]
Lost == [verb |-> "flagVariant", flag |-> "gone", variant |-> "off",
         has |-> Needs["flagVariant"]]

Contract(name, forward, reverse) ==
    [name |-> name, classes |-> {"service_failure"}, tiers |-> {"critical"},
     blast |-> "low", reversal |-> TRUE, forward |-> forward, reverse |-> reverse,
     metric |-> TRUE, window |-> 1, reduction |-> 5, preconditions |-> {}]

Policy(floor, bands) ==
    [version |-> "v1", gate |-> "collapsed", maxBand |-> bands, autoBand |-> bands,
     floors |-> [t \in {"critical"} |-> [c \in {"service_failure"} |-> floor]]]

Bands == [t \in {"critical"} |-> "act-reversible"]
NoBands == [t \in {} |-> ""]

Is(what) == [is |-> "loaded", has |-> what]
Not(why) == [is |-> why, has |-> {}]

MCProfile(catalog, policy) ==
    [catalog |-> catalog, policy |-> policy, classes |-> Not("absent"),
     evidence |-> Is({[name |-> TRUE, query |-> TRUE]}),
     watch |-> Is({[named |-> TRUE, objective |-> 9]})]

Shipped == Contract(<<"flip">>, <<Flip("off"), Restart>>, <<Flip("on")>>)
Pinned == Contract(<<"pin">>, <<Cut("off")>>, <<Cut("on")>>)

MCProfiles ==
    {MCProfile(Is({Shipped}), Is(Policy(4, Bands))),
     MCProfile(Is({Shipped}), Is(Policy(0, NoBands))),
     MCProfile(Is({Pinned}), Is(Policy(4, NoBands))),
     MCProfile(Is({Contract(<<"half">>, <<Restart>>, <<Bare>>)}), Is(Policy(4, Bands))),
     MCProfile(Is({Contract(<<"lost">>, <<Lost>>, <<Restart>>)}), Is(Policy(4, Bands))),
     MCProfile(Not("unreadable"), Is(Policy(4, Bands)))}
=============================================================================
