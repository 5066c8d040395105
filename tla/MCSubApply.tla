----------------------------- MODULE MCSubApply -----------------------------
(***************************************************************************)
(* The parts of an apply of subscription prices beside the prices: what is *)
(* suggested and sent (PricePreview), the introductory offers              *)
(* (IntroOffers) and the version that records the apply (PriceVersions).   *)
(* Each is explored with the others at rest.                               *)
(*                                                                         *)
(* Offers: two territories, two configurations, one apply that comes back  *)
(* as often as it likes.  Versions: four overlapping saves and the three   *)
(* attempts of the code, so that one can lose every race.  Previews: a     *)
(* base and two other territories that share one currency of each kind of  *)
(* profile, at rates that take them across its tiers; the tiers are two    *)
(* ladders, one in dollars and one that names no currency.                 *)
(***************************************************************************)
EXTENDS PriceVersions, Integers, TLC

CONSTANTS s1, s2, s3, s4, us, gb, week, month, a1,
          Territory, Config, fr,
          Shown, Vat, Rates, Indices, Bodies, Ladders, Starts, Typed, MaxChanges, MaxApplies

VARIABLES
  part,     \* the part that moves
  priced, offer, cached, offerPc, items, desired, applied, listed,
  target, toDelete, toCreate, created, failed, answer,
  local, ladder, row, index, seen, fresh, told, changes, applies

Trials == INSTANCE IntroOffers WITH pc <- offerPc, Apply <- {a1}

Body(door, type, price, vat, mode) ==
  [door |-> door, type |-> type, price |-> price, vat |-> vat, mode |-> mode, base |-> us]
Brackets ==
  [special |-> {fr}, manual |-> gb :> "mid" @@ fr :> "top", top_min |-> 100, mid_min |-> 50,
   prices |-> [top |-> 9990, mid |-> 2400, low |-> 2300, special |-> 400]]
MCBodies ==
  {Body("subscription", "ppp", price, FALSE, mode) : price \in {400, 9990}, mode \in {"99", "95", "smart"}}
  \cup {Body("iap", "exchange_rate", 2400, vat, "smart") : vat \in BOOLEAN}
  \cup {Body("subscription tool", "gdp_brackets", 0, TRUE, mode) @@ [config |-> Brackets] :
          mode \in {"none", "smart"}}
  \cup {Body("iap tool", "ppp", 9990, TRUE, "smart"), Body("iap tool", "fixed_payout", 400, FALSE, "none"),
        [Body("iap tool", "exchange_rate", 400, FALSE, "smart") EXCEPT !.base = fr]}
MCTyped ==
  {[door |-> door, territory |-> gb, price |-> 3000] :
     door \in {"subscription", "iap", "subscription tool", "iap tool"}}
Dollars == [currency |-> "USD", prices |-> <<990, 1990, 3990>>]
Legacy == [currency |-> "", prices |-> <<1990, 3490>>]
NoFile == [currency |-> "", prices |-> << >>]
Cached(currency, files, price) ==
  [local |-> us :> "USD" @@ gb :> currency @@ fr :> currency,
   ladder |-> us :> Dollars @@ gb :> files @@ fr :> files,
   row |-> us :> 1990 @@ gb :> price @@ fr :> 990]
MCStarts ==
  {Cached(c, NoFile, 3990) : c \in {"EUR", "BRL", "KWD", "JPY", "INR", "ARS", "XXX"}}
  \cup {Cached("EUR", files, price) : files \in {Dollars, Legacy}, price \in {-1, 0, 3990}}
MCVat == us :> 0 @@ gb :> 20 @@ fr :> 0
MCRates == [USD |-> 10, EUR |-> 9, BRL |-> 55, KWD |-> 3, JPY |-> 10000, INR |-> 830, ARS |-> 1000]
MCIndices ==
  {us :> 100 @@ gb :> 60 @@ fr :> 58, us :> 80 @@ gb :> -1 @@ fr :> 120,
   us :> 0 @@ gb :> 60 @@ fr :> 100}
MCLadders == {Dollars, Legacy}
Previews == INSTANCE PricePreview WITH Territory <- Shown, BaseTerritory <- us

\* Prices, rates, taxes and indices are amounts: none is negative, a rate is not
\* zero, and a bracket that is named has a price.
ASSUME PreviewSetting ==
  /\ us \in Shown
  /\ \A t \in Shown : Vat[t] \in Nat
  /\ \A c \in DOMAIN Rates : Rates[c] \in Nat \ {0}
  /\ Indices \subseteq [Shown -> Nat \cup {-1}]
  /\ \A body \in Bodies :
       IF body.type = "gdp_brackets"
       THEN /\ \A tier \in {"top", "mid", "low", "special"} : body.config.prices[tier] \in Nat
            /\ \A t \in DOMAIN body.config.manual : body.config.manual[t] \in {"top", "mid", "low", "special"}
       ELSE body.price \in Nat

trialVars == <<priced, offer, cached, offerPc, items, desired, applied, listed,
               target, toDelete, toCreate, created, failed, answer>>
previewVars == <<local, ladder, row, index, seen, fresh, told, changes, applies>>

MCInit ==
  /\ part \in {"offers", "versions", "previews"}
  /\ Trials!Init /\ Init /\ Previews!Init
  /\ part # "offers" => priced = {}
  /\ part # "previews" =>
       local[gb] = "EUR" /\ ladder[gb] = Dollars /\ row[gb] = 0 /\ index[us] = 0

OfferStep   == part = "offers" /\ Trials!Next /\ UNCHANGED <<part, vars, previewVars>>
VersionStep == part = "versions" /\ Next /\ UNCHANGED <<part, trialVars, previewVars>>
PreviewStep == part = "previews" /\ Previews!Next /\ UNCHANGED <<part, trialVars, vars>>

MCNext == OfferStep \/ VersionStep \/ PreviewStep
MCSpec ==
  /\ MCInit
  /\ [][MCNext]_<<part, trialVars, vars, previewVars>>
  /\ \A s \in Saver : WF_vars(part = "versions" /\ (Read(s) \/ Insert(s))
                               /\ UNCHANGED <<part, trialVars, previewVars>>)

SyncedIsComplete == Trials!SyncedIsComplete
PreviewHolds == Previews!PreviewHolds
=============================================================================
