--------------------------- MODULE SettingsRules ---------------------------
(***************************************************************************)
(* app/modules/settings/domain/rules.py and defaults.py: which settings    *)
(* there are, which values they take and what they are at first.  One      *)
(* setting stands for all that are validated alike: the flags, the other   *)
(* enumerations, the safety stock, locale and metadata are left out.       *)
(***************************************************************************)
EXTENDS Integers

CONSTANT StockLimit   \* MAX_STOCK_DEFAULT, in thousandths

ASSUME SettingsRulesAssumption == StockLimit \in Nat

\* CATEGORY_FIELDS
CategoryFields ==
    [forecast |-> {"forecast_default_horizon_days", "forecast_min_history_days"},
     inventory |-> {"inventory_default_minimum_stock"},
     reports |-> {"reports_default_format"},
     dashboard |-> {"dashboard_default_date_range_days"}]

Fields == UNION {CategoryFields[c] : c \in DOMAIN CategoryFields}

\* DEFAULT_SETTINGS
DefaultSettings ==
    [forecast_default_horizon_days |-> 30, forecast_min_history_days |-> 7,
     inventory_default_minimum_stock |-> 0, reports_default_format |-> "json",
     dashboard_default_date_range_days |-> 30]

\* The upper end is left out of account.
ValidFrom(value, minimum, maximum) == value >= minimum

\* _validate_int_range
ValidRange(value, minimum, maximum) == value \in minimum .. maximum

\* What the fields take.  Of a stock it is the digits and how many are behind the point
ValidSetting(field, value) ==
    CASE field = "forecast_default_horizon_days" -> value \in {7, 15, 30}
      [] field = "forecast_min_history_days" -> ValidRange(value, 1, 365)
      [] field = "dashboard_default_date_range_days" -> ValidRange(value, 7, 365)
      [] field = "reports_default_format" -> value \in {"json", "csv"}
      [] field = "inventory_default_minimum_stock" ->
             /\ value.decimals <= 3
             /\ ValidRange(value.digits, 0, StockLimit \div 10 ^ (3 - value.decimals))

\* quantize(STOCK_QUANTUM), in thousandths; the others are stored as they are
StoredSetting(field, value) ==
    IF field = "inventory_default_minimum_stock"
    THEN value.digits * 10 ^ (3 - value.decimals)
    ELSE value

\* One field that is not valid or not of the category refuses the request
ValidUpdate(values, allowed) ==
    /\ DOMAIN values # {}
    /\ DOMAIN values \subseteq allowed
    /\ \A field \in DOMAIN values : ValidSetting(field, values[field])

NormalizedUpdate(values) == [field \in DOMAIN values |-> StoredSetting(field, values[field])]
=============================================================================
