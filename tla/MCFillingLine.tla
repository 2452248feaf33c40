----------------------------- MODULE MCFillingLine -----------------------------
(* FillingLine with one outage of a single link, or with none. *)
EXTENDS FillingMargins

TankFirst == <<"tankWaterLevel", "bottlePosition", "waterSpillRemaining">>
BeltFirst == <<"waterSpillRemaining", "bottlePosition", "tankWaterLevel">>
JustTankFirst == {TankFirst}
JustBeltFirst == {BeltFirst}

NoSilence == {}

\* The two links whose old data is dangerous soonest: the level the valve waits
\* for, and the position the belt waits for.
OneSilent == {{Link("A", "bottleFillLevel")}, {Link("B", "bottlePosition")}}

\* Without outages, the theorems on bottles hold of this instance.
ASSUME MarginsAssumption == Silences = {} => LineMargins
===============================================================================
