CONSTANTS
  Admin = {a1, a2}
  Buyer = {b1}
  NotGiven = NotGiven
  Price <- ThreePrices
SYMMETRY Symmetry
SPECIFICATION PricingSpec
INVARIANT DiscountBelowPrice
PROPERTY OverchargeIsStale
