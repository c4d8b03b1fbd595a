------------------------------ MODULE MCIntake ------------------------------
EXTENDS Intake

Line(original, cost, price) == [original |-> original, cost |-> cost, price |-> price]
\* No cost at all, a cost with a price of the client, an original cost.
MCLines == {Line(NoAmount, NoAmount, 500), Line(NoAmount, 300, 500),
            Line(201, NoAmount, NoAmount)}

Pricing(mode, by, rate, step) == [mode |-> mode, by |-> by, rate |-> rate, step |-> step]
\* Every mode; a margin that divides by zero, one past it, no exchange rate, and
\* steps that are given, zero and negative.
MCPricings == {Pricing("markup_percent", 5000, 150, 0), Pricing("margin_percent", 4000, 100, 500),
               Pricing("margin_percent", 10000, 100, 500), Pricing("margin_percent", 15000, 100, 500),
               Pricing("multiplier", 250, 100, -500), Pricing("multiplier", 250, NoAmount, 500),
               Pricing("manual", NoAmount, 100, 500)}
=============================================================================
