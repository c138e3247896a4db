-------------------------------- MODULE Money --------------------------------
(***************************************************************************)
(* Decimal arithmetic of the system, three times over: the Money class of  *)
(* packages/finance, the Rust formula engine behind the native bridge, and *)
(* the TypeScript fallback of that bridge; and on top of it the two tax    *)
(* calculations, calculateTotal of packages/finance and the rule pipeline  *)
(* of crates/rule-engine.                                                  *)
(*                                                                         *)
(* A decimal is a numerator n over 10^k, which is what Decimal and         *)
(* rust_decimal are within their precision; TLC's integers bound the       *)
(* amounts of the runs far below it.  A string that is no number is        *)
(* Failure wherever the code throws or returns Err.                        *)
(***************************************************************************)
EXTENDS Integers, Sequences, Functions

CONSTANTS
    Failure,    \* a thrown error, or Err
    NaN         \* JavaScript's

-----------------------------------------------------------------------------
(* Decimals *)

Dec(n, k) == [n |-> n, k |-> k]

DecAdd(a, b) ==
    LET k == IF a.k > b.k THEN a.k ELSE b.k
    IN  Dec(a.n * 10^(k - a.k) + b.n * 10^(k - b.k), k)

DecMul(a, b) == Dec(a.n * b.n, a.k + b.k)

\* n / d for d > 0, as an integer: how each rounding mode treats the remainder.
Quot(n, d, mode) ==
    LET q == n \div d
        r == n % d
        up == \/ mode = "zero"  /\ n < 0 /\ r # 0
              \/ mode = "even"  /\ (2 * r > d \/ (2 * r = d /\ q % 2 = 1))
              \/ mode = "away"  /\ (2 * r > d \/ (2 * r = d /\ n > 0))
              \/ mode = "round" /\ 2 * r >= d      \* Math.round
    IN  IF up THEN q + 1 ELSE q

\* x in units of 10^-places.
Units(x, places, mode) ==
    IF places >= x.k THEN x.n * 10^(places - x.k) ELSE Quot(x.n, 10^(x.k - places), mode)

SameValue(a, b) == DecAdd(a, DecMul(Dec(-1, 0), b)).n = 0

-----------------------------------------------------------------------------
(* Currency precision: packages/finance, the formula engine, the fallback *)

ZeroDecimal == {"JPY", "KRW", "VND", "ISK", "CLP", "GNF", "UGX", "RWF", "BIF", "DJF",
                "KMF", "MGA", "PYG", "XAF", "XOF", "XPF"}

ThreeDecimal == {"BHD", "KWD", "OMR", "JOD", "TND", "LYD", "IQD"}

getCurrencyDecimals(c) ==
    IF c \in ZeroDecimal THEN 0 ELSE IF c \in ThreeDecimal THEN 3 ELSE 2

\* The two decimal currencies the Rust table lists one by one.
TwoDecimalRust == {"USD", "EUR", "GBP", "ZAR", "CAD", "AUD", "NZD", "CHF", "SEK", "NOK",
    "DKK", "MXN", "BRL", "INR", "CNY", "HKD", "SGD", "THB", "MYR", "IDR", "PHP", "PKR",
    "EGP", "NGN", "GHS", "KES", "TZS", "MAD", "UAH", "CZK", "PLN", "HUF", "RON", "BGN",
    "HRK", "RUB", "TRY", "AED", "SAR", "QAR", "ILS", "COP", "PEN", "ARS", "TWD"}

currency_decimals(c) ==
    IF c \in ZeroDecimal THEN 0
    ELSE IF c \in {"BHD", "KWD", "OMR", "JOD", "TND", "LYD"} THEN 3
    ELSE IF c \in TwoDecimalRust THEN 2
    ELSE Failure

fallbackDecimals(c) ==
    IF c \in {"JPY", "KRW"} THEN 0 ELSE IF c \in {"BHD", "KWD"} THEN 3 ELSE 2

-----------------------------------------------------------------------------
(* Minor units *)

toMinorUnits(x, c) == Units(x, getCurrencyDecimals(c), "even")

to_minor_units(x, c) ==
    IF currency_decimals(c) = Failure THEN Failure ELSE Units(x, currency_decimals(c), "zero")

fallbackToMinorUnits(x, c) == Units(x, fallbackDecimals(c), "round")

from_minor_units(m, c) ==
    IF currency_decimals(c) = Failure THEN Failure ELSE Dec(m, currency_decimals(c))

fallbackFromMinorUnits(m, c) == Dec(m, fallbackDecimals(c))

\* The amount getter: what Money prints, formats and serialises.
displayed(x, c) == Dec(toMinorUnits(x, c), getCurrencyDecimals(c))

-----------------------------------------------------------------------------
(* Arithmetic *)

Mode(bankers) == IF bankers THEN "even" ELSE "away"

multiply(m, factor, mode) == Units(DecMul(Dec(m, 0), factor), 0, mode)

fallbackMultiply(m, factor) == Units(DecMul(Dec(m, 0), factor), 0, "round")

apply_basis_points(m, bp, mode) == multiply(m, Dec(bp, 4), mode)

fallbackApplyBasisPoints(m, bp) == Quot(m * bp, 10000, "round")

\* Money.add, for two amounts that carry their currencies.
moneyAdd(a, b) ==
    IF a = Failure \/ b = Failure \/ a.currency # b.currency THEN Failure
    ELSE [amount |-> DecAdd(a.amount, b.amount), currency |-> a.currency]

moneyMultiply(a, factor) == [a EXCEPT !.amount = DecMul(@, factor)]

-----------------------------------------------------------------------------
(* Allocation over integer ratios *)

\* minor * r / total for a total of either sign.
Share(minor, r, total, mode) ==
    IF total > 0 THEN Quot(minor * r, total, mode) ELSE Quot(-(minor * r), -total, mode)

\* The shares, with what they leave of minor added to the first.
Allocated(minor, ratios, mode) ==
    LET total == SumFunction(ratios)
        shares == [i \in DOMAIN ratios |-> Share(minor, ratios[i], total, mode)]
    IN  [shares EXCEPT ![1] = @ + minor - SumFunction(shares)]

\* A plausible bug: every share is rounded to the nearest minor unit.
allocate_Nearest(x, c, ratios) ==
    LET minor == Units(x, getCurrencyDecimals(c), "floor")
        total == SumFunction(ratios)
        shares == [i \in DOMAIN ratios |-> Share(minor, ratios[i], total, "even")]
        remainder == minor - SumFunction(shares)
    IN  IF ratios = <<>> \/ total = 0 THEN Failure
        ELSE IF remainder > 0 THEN [shares EXCEPT ![1] = @ + remainder] ELSE shares

\* Money.allocate, in minor units: what the amount has below them is cut off first.  The
\* remainder is added only if it is positive.
allocate(x, c, ratios) ==
    LET minor == Units(x, getCurrencyDecimals(c), "floor")
        total == SumFunction(ratios)
        shares == [i \in DOMAIN ratios |-> Share(minor, ratios[i], total, "floor")]
        remainder == minor - SumFunction(shares)
    IN  IF ratios = <<>> \/ total = 0 THEN Failure
        ELSE IF remainder > 0 THEN [shares EXCEPT ![1] = @ + remainder] ELSE shares

\* The ratios of the engine are unsigned, its division cuts off towards zero.
allocate_rust(minor, ratios) ==
    IF SumFunction(ratios) = 0 THEN Failure ELSE Allocated(minor, ratios, "zero")

\* The fallback divides by a total of zero.
fallbackAllocate(minor, ratios) ==
    IF SumFunction(ratios) = 0 THEN [i \in DOMAIN ratios |-> NaN]
    ELSE Allocated(minor, ratios, "floor")

-----------------------------------------------------------------------------
(* Tax rates in basis points *)

EU_VAT_BP ==
    [ AT |-> 2000, BE |-> 2100, BG |-> 2000, HR |-> 2500, CY |-> 1900, CZ |-> 2100,
      DK |-> 2500, EE |-> 2000, FI |-> 2400, FR |-> 2000, DE |-> 1900, GR |-> 2400,
      HU |-> 2700, IE |-> 2300, IT |-> 2200, LV |-> 2100, LT |-> 2100, LU |-> 1700,
      MT |-> 1800, NL |-> 2100, PL |-> 2300, PT |-> 2300, RO |-> 1900, SK |-> 2000,
      SI |-> 2200, ES |-> 2100, SE |-> 2500 ]

OTHER_RATES_BP ==
    [ GB |-> 2000, ZA |-> 1500, AU |-> 1000, NZ |-> 1500, SG |-> 900, CA |-> 500 ]

RateBP ==
    [c \in DOMAIN EU_VAT_BP \cup DOMAIN OTHER_RATES_BP |->
        IF c \in DOMAIN EU_VAT_BP THEN EU_VAT_BP[c] ELSE OTHER_RATES_BP[c]]

(***************************************************************************)
(* A destination is [country, capitals, vatId]: the country's code, which  *)
(* the caller has written in capitals or not, and the VAT id: "none",      *)
(* "empty" (the empty string) or "some".                                   *)
(***************************************************************************)

\* toUpperCase makes no difference between the two ways to write a country, and the
\* empty VAT id is as good as none.
resolveRateBP(d) ==
    IF d.vatId = "some" /\ d.country \in DOMAIN EU_VAT_BP THEN 0
    ELSE IF d.country \in DOMAIN RateBP THEN RateBP[d.country]
    ELSE 0

\* The engine matches codes in capitals; vat_id.is_some() holds of the empty string
\* too; no rate is None.
vat_basis_points(d) ==
    IF ~d.capitals THEN Failure
    ELSE IF d.vatId # "none" /\ d.country \in DOMAIN EU_VAT_BP THEN 0
    ELSE IF d.country \in DOMAIN RateBP THEN RateBP[d.country]
    ELSE Failure

\* What calculateTotal is given is [items, taxRate, destination]: items are prices with
\* their quantities, taxRate and destination <<>> or a sequence of one.
taxRateBP(input) ==
    IF input.taxRate # <<>> THEN Units(input.taxRate[1], 4, "round")
    ELSE IF input.destination # <<>> THEN resolveRateBP(input.destination[1])
    ELSE 0

calculateTotal(input) ==
    LET items == input.items
    IN  IF items = <<>> THEN Failure
        ELSE LET Line(i) == moneyMultiply(items[i].price, Dec(items[i].quantity, 0))
                 sum[i \in 0..Len(items)] ==
                    IF i = 0 THEN [amount |-> Dec(0, 0), currency |-> items[1].price.currency]
                    ELSE moneyAdd(sum[i - 1], Line(i))
                 subtotal == sum[Len(items)]
                 tax == moneyMultiply(subtotal, Dec(taxRateBP(input), 4))
             IN  IF subtotal = Failure THEN Failure
                 ELSE [subtotal |-> subtotal, taxTotal |-> tax,
                       grandTotal |-> moneyAdd(subtotal, tax)]

-----------------------------------------------------------------------------
(* The rule pipeline of crates/rule-engine.  Its input ctx is [tenant_id,    *)
(* user_role, destination, amount].                                        *)

ALLOWED_ROLES == {"owner", "admin", "member", "billing"}

FRAUD_REVIEW_THRESHOLD == Dec(500000, 2)

\* PipelineState; a rule leaves at most one entry in applied.
NewPipeline(amount) ==
    [amount |-> amount, tax |-> Dec(0, 0), applied |-> <<>>, passed |-> TRUE]

Apply(s, rule, outcome) == [s EXCEPT !.applied = Append(@, <<rule, outcome>>)]

TenantIsolationRule(ctx, s) ==
    IF ctx.tenant_id = "" THEN [Apply(s, "tenant-isolation", "FAILED") EXCEPT !.passed = FALSE]
    ELSE Apply(s, "tenant-isolation", "PASSED")

PermissionScopeRule(ctx, s) ==
    IF ctx.user_role \in ALLOWED_ROLES THEN Apply(s, "permission-scope", "PASSED")
    ELSE [Apply(s, "permission-scope", "FAILED") EXCEPT !.passed = FALSE]

\* The tax is rounded to two places whatever the currency, and added to the amount.
VatRule(ctx, s) ==
    LET bp == vat_basis_points(ctx.destination)
        rounded == Dec(Units(DecMul(s.amount, Dec(bp, 4)), 2, "even"), 2)
    IN  IF bp = Failure THEN s
        ELSE IF bp = 0 THEN Apply(s, "vat", "reverse-charge")
        ELSE Apply([s EXCEPT !.tax = DecAdd(@, rounded), !.amount = DecAdd(@, rounded)],
                   "vat", "charged")

FraudSignalRule(s) ==
    IF Units(s.amount, 4, "floor") >= Units(FRAUD_REVIEW_THRESHOLD, 4, "floor")
    THEN Apply(s, "fraud-signal", "REVIEW") ELSE Apply(s, "fraud-signal", "PASSED")

evaluate(ctx) ==
    IF ctx.amount = Failure THEN Failure
    ELSE FraudSignalRule(VatRule(ctx, PermissionScopeRule(ctx,
            TenantIsolationRule(ctx, NewPipeline(ctx.amount)))))

\* The fallback of the bridge passes everything and charges no tax: applied stays empty.
fallbackRuleEvaluate(ctx) == NewPipeline(ctx.amount)

=============================================================================
