--------------------------- MODULE MCHookWindows ---------------------------
(* Every list of one or two entries that start up to MaxStart and last up to *)
(* MaxLength, and lists of three short ones.  injection, train and filter    *)
(* share one device, as plcA's modules do, jammer and shared a second one,   *)
(* as plcB's; flood has the HMI for itself.  shared is ForcedHandover, whose *)
(* second entry is skipped.                                                  *)
EXTENDS HookWindows
CONSTANTS flood, filter, shared, injection, train, jammer, plcA, plcB, hmi,
          MaxStart, MaxLength

JustFlood == {flood}
BothFilters == {filter, shared}
JustInjection == {injection}
JustTrain == {train}
JustJammer == {jammer}
JammerAndHandover == {jammer, shared}
JustHandover == {shared}

Wired == [m \in {flood, filter, shared, injection, train, jammer} |->
           CASE m = flood -> hmi
             [] m \in {filter, injection, train} -> plcA
             [] m \in {shared, jammer} -> plcB]

Windows == {w \in [module : {flood, filter, shared, injection, train, jammer},
                    from : 0 .. MaxStart, to : 0 .. MaxStart + MaxLength] :
             w.from <= w.to /\ w.to <= w.from + MaxLength}
Short == {w \in Windows : w.to = w.from + 1 /\ w.module \in {flood, filter, injection, train}}
Lists == UNION {[1 .. n -> Windows] : n \in 1 .. 2} \cup [1 .. 3 -> Short]
=============================================================================
