----------------------------- MODULE OrderEntry -----------------------------
(***************************************************************************)
(* How the probe's actions leave it: priced from the market it knows,      *)
(* rounded to the exchange's grid, numbered by the gateway, and, once an    *)
(* order fills, marked out before the position is closed.  Composes        *)
(* MarketState, ActionGateway and Markouts.  Of the conditions that decide *)
(* whether a probe is placed, cancelled or flattened only those on the     *)
(* market, the writer and the markouts are here; those on phase and        *)
(* account are in ExecutionProbe and are left open.                        *)
(*                                                                         *)
(* Prices count in units of the decimal cap 10^-(6-szDecimals), which is   *)
(* the smallest tick.  Sizes count in lots, slippage in 1/10000.           *)
(***************************************************************************)
EXTENDS MarketState, ActionGateway, Markouts

CONSTANTS
    Digits,         \* significant digits of a price (5 at the exchange)
    MaxDigits,      \* bound: digits of a price
    Levels,         \* probe.price_levels_ticks
    ProbeNotional,  \* probe.probe_notional_usd
    MaxNotional,    \* probe.max_order_notional_usd
    Slippage        \* probe.ioc_slippage_bps

\* AppConfig::validate
ASSUME PricingAssumption ==
    /\ Digits \in Nat \ {0} /\ MaxDigits \in Nat /\ Levels \subseteq Nat
    /\ ProbeNotional \in Nat \ {0} /\ MaxNotional \in Nat /\ ProbeNotional <= MaxNotional
    /\ Slippage \in 0 .. 100

vars == <<now, books, quoted, gateway, written, fills, pending, samples, censored, writerUp>>

-----------------------------------------------------------------------------
(* Ticks, prices and sizes                                                 *)

\* The power of ten that leaves Digits digits of this price, and no finer than a
\* unit.
TickSize(price) ==
    LET ticks == {t \in {10 ^ k : k \in 0 .. MaxDigits} \cap (1 .. price) :
                    price \div t \in 10 ^ (Digits - 1) .. 10 ^ Digits - 1}
    IN IF ticks = {} THEN 1 ELSE CHOOSE t \in ticks : TRUE

\* Mutant: every price is rounded up.
RoundUp(price, scale, tick, up) == ((price + scale * tick - 1) \div (scale * tick)) * tick

\* The price is price / scale.
RoundToTick(price, scale, tick, up) ==
    LET step == scale * tick
    IN (IF up THEN (price + step - 1) \div step ELSE price \div step) * tick

\* Lots, at twice the price.
MinimumSize(price2) ==
    LET lots == (2 * ProbeNotional + price2 - 1) \div price2
    IN IF lots = 0 THEN 1 ELSE lots

Sides == {"bid", "ask"}

\* maybe_start_probe works from hl_bbo, whatever its age.
BBO == books["hl_bbo"]
Tick == TickSize(TwiceMid(BBO) \div 2)

\* Within the cap, up to one tick per lot.
WithinCap ==
    LET size == MinimumSize(TwiceMid(BBO))
    IN size * TwiceMid(BBO) <= 2 * (MaxNotional + Tick * size)

RawPrice(side, level) ==
    IF side = "bid" THEN BBO.bid - level * Tick ELSE BBO.ask + level * Tick

PlacePrice(side, level) == RoundToTick(RawPrice(side, level), 1, Tick, side = "ask")

\* The IOC sells at the bid less the slippage, or buys at the ask plus it.
Crossed(side, b) == IF side = "ask" THEN b.bid ELSE b.ask
Slipped(side, b) ==
    Crossed(side, b) * (IF side = "ask" THEN 10000 - Slippage ELSE 10000 + Slippage)
FlattenPrice(side, b) ==
    RoundToTick(Slipped(side, b), 10000, TickSize(Crossed(side, b)), side = "bid")

-----------------------------------------------------------------------------
(* Steps                                                                   *)

Init == MarketInit /\ GatewayInit /\ MarkoutsInit

\* What maybe_start_probe asks before it decides, as far as it is modelled here.
MayPlace ==
    /\ pending = {} /\ RequiredQuotesFresh
    /\ BBO.bid > 0 /\ BBO.ask > 0 /\ WithinCap

\* The decision is recorded before the request is written, its action after.
Place ==
    /\ MayPlace
    /\ \E side \in Sides, level \in Levels : RawPrice(side, level) > 0
    /\ \/ writerUp' = FALSE /\ UNCHANGED <<gateway, written>>
       \/ writerUp /\ SendAction(TRUE) /\ Records
       \/ writerUp /\ SendAction(FALSE) /\ UNCHANGED writerUp
    /\ UNCHANGED <<market, fills, pending, samples, censored>>

\* cancel_active does not wait for the market, and is sent even if its records
\* are refused.
Cancel ==
    /\ \E sent \in BOOLEAN : SendAction(sent)
    /\ Records
    /\ UNCHANGED <<market, fills, pending, samples, censored>>

\* maybe_flatten: after the markouts, or at once for the hard inventory guard,
\* which drops them.  Any book with a midpoint will do.
Flatten(risk) ==
    /\ FreshestBook # {}
    /\ IF risk THEN ClearMarkouts
       ELSE pending = {} /\ UNCHANGED <<fills, pending, samples, censored>>
    /\ \E sent \in BOOLEAN : SendAction(sent)
    /\ Records
    /\ UNCHANGED market

\* drive_shutdown clears the markouts once.
StopRequested == ClearMarkouts /\ Records /\ UNCHANGED <<market, gateway, written>>

Fill == FillArrives(now) /\ UNCHANGED <<market, gateway, written>>

Sample == SampleMarkouts(now) /\ UNCHANGED <<market, gateway, written>>

Next ==
    \/ MarketNext /\ UNCHANGED <<gateway, written, markouts>>
    \/ Place \/ Cancel \/ (\E risk \in BOOLEAN : Flatten(risk))
    \/ StopRequested \/ Fill \/ Sample

Spec == Init /\ [][Next]_vars

-----------------------------------------------------------------------------
(* Properties                                                              *)

TypeOK == MarketTypeOK /\ GatewayTypeOK /\ MarkoutsTypeOK

\* Whenever the quotes are fresh enough to act on, the book that fair_value, the
\* price guard and the flatten price take is itself fresh: freshest_hl_book does
\* not ask for an age, and required_quotes_fresh does not ask which book will be
\* taken.
FreshQuotesAreUsed ==
    RequiredQuotesFresh =>
      /\ FreshestBook # {}
      /\ \A b \in FreshestBook : now - b.at <= Freshness

Between(a, b, width) == a <= b /\ b - a < width

\* A maker order is never priced inside its cell of the quote it is measured
\* from, nor a tick outside it; an IOC always reaches the quote it is to take,
\* and gives away less than the slippage and a tick: the tick comes from another
\* price than the one that is rounded.
PricesKeepTheirSide ==
    /\ MayPlace => \A side \in Sides, level \in Levels :
         IF side = "bid"
         THEN Between(PlacePrice(side, level), BBO.bid - level * Tick, Tick)
         ELSE Between(BBO.ask + level * Tick, PlacePrice(side, level), Tick)
    /\ \A b \in FreshestBook, side \in Sides :
         LET price == FlattenPrice(side, b)
             quote == Crossed(side, b)
             allowed == (quote * Slippage) \div 10000 + TickSize(quote) + 1
         IN IF side = "ask" THEN Between(price, quote, allowed)
            ELSE Between(quote, price, allowed)
=============================================================================
