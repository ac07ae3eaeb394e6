---------------------------- MODULE CatalogRules ----------------------------
(***************************************************************************)
(* The normal forms of app/modules/products/domain/catalog.py: a SKU is a  *)
(* sequence of characters, a price a number of cents with its decimals.    *)
(***************************************************************************)
EXTENDS Integers, Sequences, FiniteSets, FiniteSetsExt

CONSTANTS
    MaxSku,      \* MAX_SKU_LENGTH
    PriceLimit   \* prices are below it, in whole currency units

ASSUME CatalogRulesAssumption == MaxSku \in Nat \ {0} /\ PriceLimit \in Nat \ {0}

\* The characters that SKUs are spelt with in the model
Letters == {"A", "B"}
Marks == {".", "-", "_"}
Upper == [ch \in {"a", "b", " ", "?"} \cup Letters \cup Marks |->
              CASE ch = "a" -> "A" [] ch = "b" -> "B" [] OTHER -> ch]

\* str.strip(chars)
Strip(s, chars) ==
    LET kept == {i \in DOMAIN s : s[i] \notin chars} IN
    IF kept = {} THEN <<>> ELSE SubSeq(s, Min(kept), Max(kept))

\* re.sub(r"\s+", "-"): a run of blanks is one dash
Dashed(s) ==
    LET starts == {i \in DOMAIN s : s[i] # " " \/ (i > 1 => s[i - 1] # " ")}
        Nth(n) == CHOOSE i \in starts : Cardinality({j \in starts : j <= i}) = n
    IN [n \in 1 .. Cardinality(starts) |-> IF s[Nth(n)] = " " THEN "-" ELSE s[Nth(n)]]

UpperCase(s) == [i \in DOMAIN s |-> Upper[s[i]]]

\* normalize_sku: the marks at the ends are taken off last
NormalizeSku(s) == Strip(Dashed(UpperCase(Strip(s, {" "}))), Marks)

\* Refused otherwise: InvalidProductSkuError
ValidSku(s) ==
    LET sku == NormalizeSku(s) IN
    /\ Len(sku) \in 1 .. MaxSku
    /\ \A i \in DOMAIN sku : sku[i] \in Letters \cup Marks
    /\ sku[1] \in Letters

\* The limit itself is let through.
PriceUpToLimit(price) ==
    /\ price.digits >= 0
    /\ price.decimals <= 2
    /\ price.digits <= PriceLimit * 10 ^ price.decimals

\* A decimal is its digits and how many of them are behind the point
ValidPrice(price) ==
    /\ price.digits >= 0
    /\ price.decimals <= 2
    /\ price.digits < PriceLimit * 10 ^ price.decimals

\* quantize(0.01): in cents
Cents(price) == price.digits * 10 ^ (2 - price.decimals)
=============================================================================
