---------------------------- MODULE FillingMargins -----------------------------
(***************************************************************************)
(* The room that the delays of the two controllers need: under the filler, *)
(* behind it and in a bottle.  A decision is taken on data that is up to a *)
(* cycle old, or older by Timeout if requests may be lost, and is in force *)
(* until the next one arrives; meanwhile the belt moves and the valve pours. *)
(***************************************************************************)
EXTENDS FillingLine

AFill == Link("A", "bottleFillLevel")
APos == Link("A", "bottlePosition")
BFill == Link("B", "bottleFillLevel")
BPos == Link("B", "bottlePosition")

\* The links that may be silent at all.
Silent == UNION Silences

\* How long lost requests may leave old data trusted, and how old the data
\* behind the valve and behind the belt may be.
DelayA == IF AFill \in Silent THEN Timeout ELSE 0
DelayB == IF LinksOf("B") \cap Silent # {} THEN Timeout ELSE 0

HorizonA == DelayA + 2 * MaxAge + Latency
HorizonB == DelayB + 2 * MaxAge + Latency

\* The furthest a belt moves in n Ticks, the most that is poured in n Ticks,
\* and twice the way that a motor rolls on when it is turned off.
Way(n) == MaxSpeed * n
Poured(n) == Outflow * n
Roll(s) == s * (s - 1)

\* Twice the position that no bottle passes before it is full: it stood just
\* before the filler when the data was read that the belt moves on.
Stop == 2 * (Variation + 1 - Way(HorizonB)) - Roll(MaxSpeed)

\* Twice the last position of a full bottle that is halted before its fill
\* level is read again.
Held == -2 * (Variation + Way(HorizonB + 1)) - Roll(MaxSpeed)

\* The valve is closed before a full bottle has left the filler and before it
\* runs over, and no bottle is taken off while its level is remembered.  PLC_A
\* must not miss where the bottle stands.
LineMargins ==
  /\ APos \notin Silent
  /\ 2 * Way(HorizonA - 1) - Stop <= 2 * Variation
  /\ BottleCapacity + Poured(HorizonA) <= BottleBrim
  /\ -Held <= 2 * AfterFiller

===============================================================================
