---------------------------- MODULE PricePreview ----------------------------
(***************************************************************************)
(* What a preview suggests for each territory, and what the page then      *)
(* sends to an apply (services/pricing, api/v1/pricing.py, the pricing     *)
(* page).  A price is a number of thousandths of its currency's unit,      *)
(* which holds every currency's decimals; a product or a quotient is cut   *)
(* to that, where the code keeps 28 digits.  Rows, ladders and indices may *)
(* change between the preview and the apply.                               *)
(***************************************************************************)
EXTENDS Integers, Sequences, FiniteSetsExt

CONSTANTS
  Territory, BaseTerritory,
  Vat,        \* territory -> VAT rate, 0 where there is none
  Rates,      \* currency -> tenths of it for one US dollar; the rates that are known
  Indices,    \* tables of one index: territory -> value or None
  Bodies,     \* the requests, each with the door it comes in by
  Ladders,    \* tiers Apple may have for a territory: [currency, prices]
  Starts,     \* seeds, files and rows there may be at first
  Typed,      \* prices typed by hand: [door, territory, price]
  MaxChanges, \* bound on what others change
  MaxApplies  \* bound on the applies, after which nothing more is followed

None == -1
Unit == 1000

VARIABLES
  local,     \* territory -> the currency it is seeded with
  ladder,    \* territory -> its file of tiers, or NoLadder
  row,       \* territory -> the price in its cached row, or None
  index,     \* territory -> its value of the index asked for, or None
  seen,      \* what the page shows: territory -> item
  fresh,     \* history: nothing has changed since the items were made
  told,      \* history: unforced items of a fresh preview the apply skipped
  changes,   \* changes made by others
  applies

vars == <<local, ladder, row, index, seen, fresh, told, changes, applies>>

NoLadder == [currency |-> "", prices |-> << >>]
Abs(x) == IF x < 0 THEN -x ELSE x
Going == applies < MaxApplies
Has(t) == ladder[t] # NoLadder

-----------------------------------------------------------------------------
(* currency_rounding.py, charming.py                                       *)

Plain(decimals, suffix, minPrice) ==
  [decimals |-> decimals, suffix |-> suffix, min_price |-> minPrice, tiers |-> << >>]
Tiered(minUnits, tiers) ==
  [decimals |-> 0, suffix |-> 0, min_price |-> minUnits * Unit, tiers |-> tiers]

STANDARD_99  == Plain(2, 990, 990)
BRL          == Plain(2, 900, 900)
RUB          == Plain(2, 0, 1000)
STANDARD_3DP == Plain(3, 999, 999)
JPY == Tiered(100, <<<<0, 10, -10>>, <<10000, 100, -100>>>>)
KRW == Tiered(900, <<<<0, 100, -100>>, <<100000, 1000, -1000>>>>)
VND == Tiered(10000, <<<<0, 1000, 0>>, <<1000000, 10000, 0>>>>)
INR == Tiered(49, <<<<0, 100, -1>>, <<1000, 500, -1>>, <<10000, 1000, -1>>>>)
PHP == Tiered(49, <<<<0, 10, -1>>, <<10000, 100, -1>>>>)
ARS == [STANDARD_99 EXCEPT !.tiers = <<<<0, 10, 0>>, <<100, 50, 0>>, <<500, 100, 0>>, <<5000, 500, 0>>>>]

\* CURRENCY_PROFILES; every currency that is not named has DEFAULT_PROFILE.
ProfileOf(currency) ==
  CASE currency = "BRL" -> BRL
    [] currency = "RUB" -> RUB
    [] currency \in {"KWD", "BHD", "OMR", "JOD", "TND"} -> STANDARD_3DP
    [] currency \in {"JPY", "TWD", "HUF", "ISK"} -> JPY
    [] currency \in {"KRW", "CLP", "COP"} -> KRW
    [] currency \in {"VND", "IDR"} -> VND
    [] currency \in {"INR", "PKR", "BDT", "LKR"} -> INR
    [] currency \in {"PHP", "THB"} -> PHP
    [] currency = "ARS" -> ARS
    [] OTHER -> STANDARD_99

\* Decimal.quantize: to a multiple of step, a half to the even one.
Quantize(x, step) ==
  LET low == x \div step  twice == 2 * (x % step) IN
  step * (IF twice > step \/ (twice = step /\ low % 2 = 1) THEN low + 1 ELSE low)

\* apply_charming, with the modes that call it.
apply_charming(price, suffix) ==
  LET whole == price \div Unit  fractional == price % Unit IN
  IF fractional < suffix /\ fractional < 500
  THEN Max({whole - 1, 0}) * Unit + suffix
  ELSE whole * Unit + suffix

\* _get_tier: the last tier whose threshold the price reaches.
get_tier(price, tiers) ==
  tiers[Max({1} \cup {n \in DOMAIN tiers : price \div Unit >= tiers[n][1]})]

\* _round_to_step: half up.
round_to_step(price, step) == ((2 * price + step * Unit) \div (2 * step * Unit)) * step

\* _generate_nice_candidates
Candidates(price, profile) ==
  IF profile.tiers = << >>
  THEN {(price \div Unit + n) * Unit + profile.suffix :
          n \in {m \in -3..3 : price \div Unit + m >= 0}}
  ELSE LET tier == get_tier(price, profile.tiers)
           around == {round_to_step(price, tier[2]) + n * tier[2] : n \in -5..5}
       IN IF profile.decimals = 0
          THEN {(c + tier[3]) * Unit : c \in {d \in around : d > 0 /\ d + tier[3] > 0}}
          ELSE {(c - 1) * Unit + profile.suffix : c \in {d \in around : d >= 0}}

\* min(..., key=...): of two as close, the one that comes first, the lower.
Closest_Lowest(prices, price) == Min(prices)
Closest(prices, price) ==
  Min({c \in prices : \A d \in prices : Abs(c - price) <= Abs(d - price)})

apply_currency_rounding(price, currency) ==
  LET profile == ProfileOf(currency)
      above   == {c \in Candidates(price, profile) : c >= profile.min_price}
      valid   == {c \in above : 9 * price <= 10 * c /\ 10 * c <= 11 * price}
  IN CASE price <= 0    -> price
       [] price > 0 /\ valid # {} -> Closest(valid, price)
       [] price > 0 /\ valid = {} /\ above # {} -> Closest(above, price)
       [] OTHER -> Max({Quantize(price, Unit), profile.min_price})

QuantumOf(currency) ==
  CASE ProfileOf(currency).decimals = 0 -> Unit
    [] ProfileOf(currency).decimals = 2 -> 10
    [] OTHER -> 1

finalize_price(raw, mode, currency) ==
  CASE mode = "none" -> Quantize(raw, QuantumOf(currency))
    [] mode = "99" /\ ProfileOf(currency).decimals = 2 -> apply_charming(raw, 990)
    [] mode = "95" /\ ProfileOf(currency).decimals = 2 -> apply_charming(raw, 950)
    [] OTHER -> apply_currency_rounding(raw, currency)

-----------------------------------------------------------------------------
(* preview.py                                                              *)

\* Apple's currency where the tiers name one, else the seeded one.
effective_currency(t) ==
  IF Has(t) /\ ladder[t].currency # "" THEN ladder[t].currency ELSE local[t]

apply_vat(raw, t, body) == IF body.vat THEN (raw * (100 + Vat[t])) \div 100 ELSE raw

\* The price of one unit of one currency in another, over the dollar.
Convertible(from, to) == from = to \/ {from, to} \subseteq DOMAIN Rates
Convert(amount, from, to) ==
  IF from = to THEN amount ELSE (amount * Rates[to]) \div Rates[from]

assign_tier(t, config) ==
  CASE t \in config.special -> "special"
    [] t \notin config.special /\ t \in DOMAIN config.manual -> config.manual[t]
    [] OTHER -> IF index[t] = None THEN "low"
                ELSE IF index[t] >= config.top_min THEN "top"
                ELSE IF index[t] >= config.mid_min THEN "mid" ELSE "low"

\* The two branches that convert: what is converted, and from which currency.
BaseCurrency(body) ==
  IF body.type = "gdp_brackets" THEN "USD" ELSE effective_currency(BaseTerritory)
BasePriceFor(t, body) ==
  IF body.type = "gdp_brackets" THEN body.config.prices[assign_tier(t, body.config)]
  ELSE body.price

\* _exchange_rate_items, _economic_index_items: what refuses the request.  No
\* table has rows of the type fixed_payout.
Refused(body) ==
  \/ body.base # BaseTerritory /\ body.type # "gdp_brackets"
  \/ body.type = "fixed_payout"
  \/ body.type = "ppp" /\ index[BaseTerritory] \in {None, 0}

\* Without a rate a territory is reported as skipped, without an index it is
\* left out.
Computed(body) ==
  {t \in Territory : IF body.type = "ppp" THEN index[t] # None
                     ELSE Convertible(BaseCurrency(body), effective_currency(t))}

Proportional(price, value, base) == IF base = 0 THEN price ELSE (price * value) \div base

Raw(t, body) ==
  apply_vat(IF body.type = "ppp" THEN Proportional(body.price, index[t], index[BaseTerritory])
            ELSE Convert(BasePriceFor(t, body), BaseCurrency(body), effective_currency(t)),
            t, body)

\* The first tier as close as any, which is what the routes pick too.
NearestTier(t, price) ==
  LET prices == ladder[t].prices IN
  Min({n \in DOMAIN prices : \A m \in DOMAIN prices :
         Abs(prices[n] - price) <= Abs(prices[m] - price)})

exceeds_safety_band(current, new) == 2 * new > 3 * current \/ 2 * new < current
Trips(current, new) == current > 0 /\ exceeds_safety_band(current, new)

\* _build_preview_item
Compared_Suggested(t, suggested) == suggested
Compared(t, suggested) ==
  IF Has(t) THEN ladder[t].prices[NearestTier(t, suggested)] ELSE suggested

build_preview_item(t, raw, suggested) ==
  [raw |-> raw, suggested |-> suggested, currency |-> effective_currency(t),
   current |-> row[t], manual |-> FALSE, price |-> Compared(t, suggested),
   tier |-> IF Has(t) THEN NearestTier(t, suggested) ELSE None,
   would_be_skipped |-> Trips(row[t], Compared(t, suggested))]

build_preview_items(body) ==
  [t \in Computed(body) |->
     LET raw == Raw(t, body) IN
     build_preview_item(t, raw, finalize_price(raw, body.mode, effective_currency(t)))]

\* The routes and the tools of both kinds of product.  A refused preview leaves
\* the page as it is, and prices typed by hand stay over a new one.
TypedIn == {t \in DOMAIN seen : seen[t].manual}
Preview(body) ==
  /\ Going /\ ~Refused(body)
  /\ LET items == build_preview_items(body) IN
     seen' = [t \in TypedIn \cup DOMAIN items |-> IF t \in TypedIn THEN seen[t] ELSE items[t]]
  /\ fresh' = TRUE
  /\ UNCHANGED <<local, ladder, row, index, told, changes, applies>>
preview_subscription_prices(body) == body.door = "subscription" /\ Preview(body)
preview_iap_prices(body) == body.door = "iap" /\ Preview(body)
pricing_preview_subscription_prices(body) == body.door = "subscription tool" /\ Preview(body)
pricing_preview_iap_prices(body) == body.door = "iap tool" /\ Preview(body)

\* A price typed by hand is resolved to the nearest tier, and shown beside or
\* over the previewed ones with a flag of the page's own, which is of the
\* percentage rounded to hundredths (handleManualPriceChange).
get_subscription_prices ==
  [t \in {u \in Territory : row[u] # None} |-> row[t]]
Rounded(change, of) == (20000 * change + of) \div (2 * of)
Resolve(t, price) ==
  /\ Going /\ Has(t)
  /\ LET listed == get_subscription_prices
         current == IF t \in DOMAIN listed THEN listed[t]
                    ELSE IF t \in DOMAIN seen THEN seen[t].current ELSE None
         tier == NearestTier(t, price)
         found == ladder[t].prices[tier]
         item == [raw |-> price, suggested |-> found, currency |-> effective_currency(t),
                  current |-> current, manual |-> TRUE, price |-> found, tier |-> tier,
                  would_be_skipped |->
                    current > 0 /\ Rounded(Abs(found - current), current) > 5000]
     IN seen' = [u \in DOMAIN seen \cup {t} |-> IF u = t THEN item ELSE seen[u]]
  /\ UNCHANGED <<local, ladder, row, index, fresh, told, changes, applies>>
resolve_manual_price(body) == body.door = "subscription" /\ Resolve(body.territory, body.price)
resolve_iap_manual_price(body) == body.door = "iap" /\ Resolve(body.territory, body.price)
pricing_resolve_subscription_price(body) ==
  body.door = "subscription tool" /\ Resolve(body.territory, body.price)
pricing_resolve_iap_price(body) == body.door = "iap tool" /\ Resolve(body.territory, body.price)

-----------------------------------------------------------------------------
(* The apply                                                               *)

\* handleApply: what has a tier and a difference, unflagged or forced.
wouldChange(item) ==
  item.tier # None /\ (item.current = None \/ (item.current > 0 /\ item.price # item.current))
Sent(forced) ==
  {t \in DOMAIN seen : wouldChange(seen[t]) /\ (~seen[t].would_be_skipped \/ t \in forced)}

\* What the apply makes of the items: a missing file is fetched, a tier that is
\* not in it fails, the band skips.  What Apple is then sent is SubPrice's and
\* IapPricing's; no row is written.  The page clears what it shows when it is
\* answered.
Apply(forced) ==
  /\ Going /\ Sent(forced) # {}
  /\ applies' = applies + 1
  /\ \E fetched \in [{t \in Sent(forced) : ~Has(t)} -> Ladders \cup {NoLadder}] :
       ladder' = [t \in Territory |-> IF t \in DOMAIN fetched THEN fetched[t] ELSE ladder[t]]
  /\ LET known    == {t \in Sent(forced) : seen[t].tier \in DOMAIN ladder'[t].prices}
         price(t) == ladder'[t].prices[seen[t].tier]
         skipped  == {t \in known \ forced : Trips(row[t], price(t))}
     IN told' = IF fresh THEN {seen[t] : t \in skipped} ELSE {}
  /\ seen' \in {seen, << >>}
  /\ fresh' = FALSE
  /\ UNCHANGED <<local, row, index, changes>>

-----------------------------------------------------------------------------
(* What others do meanwhile                                                *)

Elsewhere ==
  /\ Going /\ changes < MaxChanges /\ changes' = changes + 1
  /\ fresh' = FALSE
  /\ UNCHANGED <<local, seen, told, applies>>

\* A sync of prices writes the row of a territory; 0 is what it writes where it
\* could not look the price up.
SyncPrices(t) ==
  /\ \E price \in {0} \cup {ladder[t].prices[n] : n \in DOMAIN ladder[t].prices} :
       row' = [row EXCEPT ![t] = price]
  /\ Elsewhere /\ UNCHANGED <<ladder, index>>

\* A sync of tiers, or a reader that removes a file.
SyncTiers(t) ==
  /\ \E file \in Ladders \cup {NoLadder} : ladder' = [ladder EXCEPT ![t] = file]
  /\ Elsewhere /\ UNCHANGED <<row, index>>

\* A refresh upserts what it downloaded.
RefreshIndices ==
  /\ \E table \in Indices :
       index' = [t \in Territory |-> IF table[t] = None THEN index[t] ELSE table[t]]
  /\ Elsewhere /\ UNCHANGED <<ladder, row>>

Init ==
  /\ \E start \in Starts : local = start.local /\ ladder = start.ladder /\ row = start.row
  /\ index \in Indices
  /\ seen = << >> /\ fresh = FALSE /\ told = {} /\ changes = 0 /\ applies = 0

Next ==
  \/ \E body \in Bodies :
       \/ preview_subscription_prices(body) \/ preview_iap_prices(body)
       \/ pricing_preview_subscription_prices(body) \/ pricing_preview_iap_prices(body)
  \/ \E body \in Typed :
       \/ resolve_manual_price(body) \/ resolve_iap_manual_price(body)
       \/ pricing_resolve_subscription_price(body) \/ pricing_resolve_iap_price(body)
  \/ \E forced \in SUBSET {t \in DOMAIN seen : seen[t].would_be_skipped} : Apply(forced)
  \/ \E t \in Territory : SyncPrices(t) \/ SyncTiers(t)
  \/ RefreshIndices

Spec == Init /\ [][Next]_vars

-----------------------------------------------------------------------------
\* What a preview has shown as going through goes through: the band of an apply
\* skips nothing the page sent, if nothing has changed since (a price typed by
\* hand excepted, whose flag the page makes from a rounded percentage).
Foretells == \A item \in told : item.manual

\* The rounding to nice prices, with its tiers, its band and its fallbacks, never
\* makes the dearer of two territories of one currency the cheaper one.
KeepsOrder ==
  \A t, u \in {v \in DOMAIN seen : ~seen[v].manual} :
    seen[t].currency = seen[u].currency /\ seen[t].raw <= seen[u].raw
      => seen[t].suggested <= seen[u].suggested

PreviewHolds == Foretells /\ KeepsOrder
=============================================================================
