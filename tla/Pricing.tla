------------------------------ MODULE Pricing ------------------------------
(***************************************************************************)
(* The pricing engine of one catalog document: the formula language        *)
(* (expr.go), the charges and rate cards (engine.go) and what the loader   *)
(* accepts (config.go).  The engine keeps no state: it is modelled by      *)
(* operators, and its properties are about all the inputs the constants    *)
(* give.  A formula is a sequence of tokens; amounts are exact rationals   *)
(* <<numerator, denominator>>, where the code divides to 32 places.        *)
(***************************************************************************)
EXTENDS Integers, Sequences, FiniteSets, TLC

CONSTANTS Formulas,     \* syntax trees of formulas
          TierLists,    \* the tiers of graduated and volume charges
          MaxHalves,    \* measures run to this number of half units
          Books,        \* catalog documents, valid or not
          Usages,       \* usage events: operation, measures, dimensions
          MoneyScale    \* the smallest credit is 1/MoneyScale

-----------------------------------------------------------------------------
(* Decimals *)

Num(n) == <<n, 1>>
Err == <<0, 0>>
Failed(a) == a[2] = 0
IsZero(a) == a[1] = 0
Less(a, b) == a[1] * b[2] < b[1] * a[2]
Same(a, b) == a[1] * b[2] = b[1] * a[2]
Plus(a, b) == <<a[1] * b[2] + b[1] * a[2], a[2] * b[2]>>
Minus(a, b) == <<a[1] * b[2] - b[1] * a[2], a[2] * b[2]>>
Times(a, b) == <<a[1] * b[1], a[2] * b[2]>>
Floor(a) == a[1] \div a[2]
Ceil(a) == -((-a[1]) \div a[2])

\* decimal.Round: half away from zero.
Round(a) == IF a[1] >= 0 THEN (2 * a[1] + a[2]) \div (2 * a[2])
            ELSE -((-2 * a[1] + a[2]) \div (2 * a[2]))

\* decimalDiv
Over(a, b) == CASE IsZero(b) -> Err
                [] b[1] > 0  -> <<a[1] * b[2], a[2] * b[1]>>
                [] OTHER     -> <<-a[1] * b[2], -(a[2] * b[1])>>

\* decimalTruncDiv, and the remainder that goes with a truncated quotient.
Truncated(a) == IF a[1] >= 0 THEN Floor(a) ELSE Ceil(a)
TruncDiv(a, b) == IF IsZero(b) THEN Err ELSE Num(Truncated(Over(a, b)))
Mod(a, b) == IF IsZero(b) THEN Err ELSE Minus(a, Times(b, TruncDiv(a, b)))

QuantizeMoney(a) == <<Round(Times(a, Num(MoneyScale))), MoneyScale>>

-----------------------------------------------------------------------------
(* The parser *)

Numerals == [t \in {"0", "1", "2", "50", "100"} |->
               CASE t = "0" -> 0 [] t = "1" -> 1 [] t = "2" -> 2
                 [] t = "50" -> 50 [] t = "100" -> 100]
AllowedFunctions == {"ceil", "floor", "min", "max", "round", "if", "tier", "clamp", "percentile"}
Comparisons == {"==", "!=", "<", "<=", ">", ">=", "in"}
Keywords == {"+", "-", "*", "/", "//", "%", "**", "(", ")", ",", "not", "and", "or",
             "if", "else", "EOF"} \cup Comparisons
At(ts, p) == IF p <= Len(ts) THEN ts[p] ELSE "EOF"

Node(op, args) == [op |-> op, args |-> args]
Leaf(t) == [op |-> IF t \in DOMAIN Numerals THEN "number" ELSE "variable", token |-> t]
Call(name, args) == [op |-> "call", name |-> name, args |-> args]

\* A parse ends at a position with a node, or fails.
Parsed(p, node) == [at |-> p, node |-> node]
NoParse == [at |-> 0]
Fails(r) == r.at = 0

\* The operators of the left-associative levels: or, and, addition, multiplication.
LeftOps == [k \in {1, 2, 5, 6} |->
              CASE k = 1 -> {"or"} [] k = 2 -> {"and"} [] k = 5 -> {"+", "-"}
                [] k = 6 -> {"*", "/", "//", "%"}]

\* The parsers of the levels below are given as a function of position and level.
RECURSIVE Arguments(_, _, _, _), Chained(_, _, _, _), ChainedRight(_, _, _, _)

\* Wrong on purpose: operators of one level group to the right.
ChainedRight(ts, level, left, k) ==
    IF Fails(left) \/ At(ts, left.at) \notin LeftOps[k] THEN left
    ELSE LET right == ChainedRight(ts, level, level[left.at + 1, k + 1], k) IN
         IF Fails(right) THEN NoParse
         ELSE Parsed(right.at, Node(ts[left.at], <<left.node, right.node>>))

\* booleanExpression, andExpression, addition, multiplication: their loops.
Chained(ts, level, left, k) ==
    IF Fails(left) \/ At(ts, left.at) \notin LeftOps[k] THEN left
    ELSE LET right == level[left.at + 1, k + 1]
             node == Node(ts[left.at], <<left.node, right.node>>)
         IN  IF Fails(right) THEN NoParse
             ELSE Chained(ts, level, Parsed(right.at, node), k)

\* comparison: one operator, "not in" being two tokens; a second one is refused.
Comparison(ts, level, p) ==
    LET left == level[p, 5]
        two == At(ts, left.at) = "not"
        op == IF two THEN "not in" ELSE At(ts, left.at)
        right == level[left.at + (IF two THEN 2 ELSE 1), 5]
    IN  CASE Fails(left) -> NoParse
          [] ~Fails(left) /\ two /\ At(ts, left.at + 1) # "in" -> NoParse
          [] ~Fails(left) /\ ~two /\ op \notin Comparisons -> left
          [] OTHER -> IF Fails(right) \/ At(ts, right.at) \in Comparisons \cup {"not"} THEN NoParse
                      ELSE Parsed(right.at, Node(op, <<left.node, right.node>>))

\* callArguments, after args of them; "(" or "," was read before p.
Arguments(ts, level, p, args) ==
    LET a == level[p, 1] IN
    CASE args = <<>> /\ At(ts, p) = ")" -> [at |-> p + 1, args |-> args]
      [] OTHER -> IF Fails(a) THEN NoParse
                  ELSE CASE At(ts, a.at) = "," -> Arguments(ts, level, a.at + 1, Append(args, a.node))
                         [] At(ts, a.at) = ")" -> [at |-> a.at + 1, args |-> Append(args, a.node)]
                         [] OTHER -> NoParse

\* primary: a number, a variable, a call, if(...) or a parenthesis.
Primary(ts, level, p) ==
    LET t == At(ts, p) IN
    CASE t = "if" \/ (t \notin Keywords \cup DOMAIN Numerals /\ At(ts, p + 1) = "(") ->
           IF t \notin AllowedFunctions \/ At(ts, p + 1) # "(" THEN NoParse
           ELSE LET r == Arguments(ts, level, p + 2, <<>>) IN
                IF Fails(r) THEN NoParse ELSE Parsed(r.at, Call(t, r.args))
      [] t = "(" -> LET r == level[p + 1, 0] IN
                    IF Fails(r) \/ At(ts, r.at) # ")" THEN NoParse ELSE [r EXCEPT !.at = @ + 1]
      [] t \notin Keywords /\ At(ts, p + 1) # "(" -> Parsed(p + 1, Leaf(t))
      [] t \in DOMAIN Numerals -> Parsed(p + 1, Leaf(t))
      [] OTHER -> NoParse

\* parse: "then if condition else otherwise", none of the three a ternary itself.
Expression(ts, level, p) ==
    LET then == level[p, 1]
        cond == level[then.at + 1, 1]
        other == level[cond.at + 1, 1]
    IN  IF Fails(then) \/ At(ts, then.at) # "if" THEN then
        ELSE IF Fails(cond) \/ At(ts, cond.at) # "else" \/ Fails(other) THEN NoParse
        ELSE Parsed(other.at, Node("ternary", <<cond.node, then.node, other.node>>))

Prefixed(op, r) == IF Fails(r) THEN NoParse ELSE [r EXCEPT !.node = Node(op, <<@>>)]

\* The levels of precedence: 0 the ternary, 1 or, 2 and, 3 not, 4 comparison,
\* 5 addition, 6 multiplication, 7 sign.  "**" is refused where a product may go
\* on.
Level(ts) ==
    LET level[p \in 1..(Len(ts) + 1), k \in 0..7] ==
          CASE k = 0 -> Expression(ts, level, p)
            [] k \in {1, 2, 5} -> Chained(ts, level, level[p, k + 1], k)
            [] k = 6 -> LET r == Chained(ts, level, level[p, 7], 6) IN
                        IF ~Fails(r) /\ At(ts, r.at) = "**" THEN NoParse ELSE r
            [] k = 3 /\ At(ts, p) = "not" -> Prefixed("not", level[p + 1, 3])
            [] k = 3 /\ At(ts, p) # "not" -> level[p, 4]
            [] k = 4 -> Comparison(ts, level, p)
            [] k = 7 -> CASE At(ts, p) = "+" -> Prefixed("plus", level[p + 1, 7])
                          [] At(ts, p) = "-" -> Prefixed("minus", level[p + 1, 7])
                          [] OTHER -> Primary(ts, level, p)
    IN  level

\* validateExpressionCalls: the arities.
ArityOK(name, n) ==
    CASE name \in {"if", "clamp"}    -> n = 3
      [] name = "tier"               -> n >= 4 /\ n % 2 = 0
      [] name = "percentile"         -> n >= 2
      [] name \in {"min", "max"}     -> n >= 1
      [] name \in {"ceil", "floor"}  -> n = 1
      [] name = "round"              -> n \in {1, 2}

RECURSIVE CallsOK(_), Variables(_)
CallsOK(t) == \/ t.op \in {"number", "variable"}
              \/ /\ t.op = "call" => ArityOK(t.name, Len(t.args))
                 /\ \A i \in 1..Len(t.args) : CallsOK(t.args[i])

\* collectExpressionVariables
Variables(t) == CASE t.op = "number" -> {}
                  [] t.op = "variable" -> {t.token}
                  [] OTHER -> UNION {Variables(t.args[i]) : i \in 1..Len(t.args)}

\* parsePricingExpression: the whole formula, with calls of the right arity.
ParseFormula(ts) ==
    LET r == Level(ts)[1, 0] IN
    IF Fails(r) THEN NoParse
    ELSE IF r.at # Len(ts) + 1 \/ ~CallsOK(r.node) THEN NoParse ELSE r

\* ValidateExpression
ValidateExpression(ts, known) ==
    LET r == ParseFormula(ts) IN
    /\ ~Fails(r)
    /\ Variables(r.node) # {}
    /\ Variables(r.node) \subseteq known

-----------------------------------------------------------------------------
(* The evaluation of a formula *)

Truth(b) == Num(IF b THEN 1 ELSE 0)

RECURSIVE Digits(_), Least(_), Sorted(_)
\* decimal.String of a whole number, for "in"; fractions are not modelled there.
Digits(n) == CASE n < 0 -> <<"-">> \o Digits(-n) [] n \in 0..9 -> <<ToString(n)>>
               [] OTHER -> Digits(n \div 10) \o Digits(n % 10)
Contains(s, t) == \E i \in 0..(Len(s) - Len(t)) : SubSeq(s, i + 1, i + Len(t)) = t
Within(a, b) == Contains(Digits(Floor(a)), Digits(Floor(b)))

Arithmetic(op, a, b) ==
    CASE op = "+" -> Plus(a, b) [] op = "-" -> Minus(a, b) [] op = "*" -> Times(a, b)
      [] op = "/" -> Over(a, b) [] op = "//" -> TruncDiv(a, b) [] op = "%" -> Mod(a, b)

Compared(op, a, b) ==
    CASE op = "==" -> Same(a, b) [] op = "!=" -> ~Same(a, b)
      [] op = "<" -> Less(a, b)  [] op = "<=" -> ~Less(b, a)
      [] op = ">" -> Less(b, a)  [] op = ">=" -> ~Less(a, b)
      [] op = "in" -> Within(a, b) [] op = "not in" -> ~Within(a, b)

\* The first of the smallest arguments, and the arguments in order.
Least(s) == IF Len(s) = 1 THEN s[1]
            ELSE LET rest == Least(Tail(s)) IN IF Less(rest, s[1]) THEN rest ELSE s[1]
Without(s, a) == LET i == CHOOSE j \in 1..Len(s) : s[j] = a
                 IN  SubSeq(s, 1, i - 1) \o SubSeq(s, i + 1, Len(s))
Sorted(s) == IF s = <<>> THEN <<>> ELSE <<Least(s)>> \o Sorted(Without(s, Least(s)))

\* percentile: linear interpolation between the two neighbours of the rank.
Percentile(p, values) ==
    LET s == Sorted(values)
        rank == Times(Over(p, Num(100)), Num(Len(s) - 1))
        low == Floor(rank)
        high == IF low + 1 >= Len(s) THEN Len(s) - 1 ELSE low + 1
        part == Minus(rank, Num(low))
    IN  CASE Less(p, Num(0)) \/ Less(Num(100), p) -> Err
          [] Len(s) = 1 -> s[1]
          [] OTHER -> Plus(Times(s[low + 1], Minus(Num(1), part)), Times(s[high + 1], part))

\* tier: the rate of the first threshold above the value, else the last argument.
Tier(s) ==
    LET above == {i \in 2..(Len(s) - 1) : i % 2 = 0 /\ Less(s[1], s[i])}
    IN  IF above = {} THEN s[Len(s)] ELSE s[(CHOOSE i \in above : \A j \in above : i <= j) + 1]

Negated(s) == [i \in 1..Len(s) |-> Minus(Num(0), s[i])]
RoundedTo(a, places) == <<Round(Times(a, Num(10^places))), 10^places>>

\* evaluateExpressionCall
EvaluateCall(name, s) ==
    CASE name = "ceil"  -> Num(Ceil(s[1]))
      [] name = "floor" -> Num(Floor(s[1]))
      [] name = "min"   -> Least(s)
      [] name = "max"   -> Minus(Num(0), Least(Negated(s)))
      [] name = "round" -> RoundedTo(s[1], IF Len(s) = 2 THEN Truncated(s[2]) ELSE 0)
      [] name = "if"    -> IF IsZero(s[1]) THEN s[3] ELSE s[2]
      [] name = "tier"  -> Tier(s)
      [] name = "clamp" -> CASE Less(s[1], s[2]) -> s[2] [] Less(s[3], s[1]) -> s[3] [] OTHER -> s[1]
      [] name = "percentile" -> Percentile(s[1], Tail(s))

RECURSIVE Evaluate(_, _)
\* evaluateExpressionNode: "and", "or" and the ternary evaluate what they need,
\* a call all its arguments.
Evaluate(t, vars) ==
    IF t.op = "number" THEN Num(Numerals[t.token])
    ELSE IF t.op = "variable" THEN vars[t.token]
    ELSE LET v(i) == Evaluate(t.args[i], vars)
             all == [i \in 1..Len(t.args) |-> v(i)]
         IN  CASE t.op \in {"and", "or", "ternary"} ->
                    CASE Failed(v(1)) -> Err
                      [] t.op = "ternary" -> IF IsZero(v(1)) THEN v(3) ELSE v(2)
                      [] OTHER -> IF IsZero(v(1)) = (t.op = "and") THEN v(1) ELSE v(2)
               [] \E i \in 1..Len(t.args) : Failed(all[i]) -> Err
               [] t.op = "not"   -> Truth(IsZero(v(1)))
               [] t.op = "minus" -> Minus(Num(0), v(1))
               [] t.op = "plus"  -> v(1)
               [] t.op = "call"  -> EvaluateCall(t.name, all)
               [] t.op \in Comparisons \cup {"not in"} -> Truth(Compared(t.op, v(1), v(2)))
               [] OTHER -> Arithmetic(t.op, v(1), v(2))

-----------------------------------------------------------------------------
(* Charges *)

\* A result is an amount, or the reason why there is none.
Result(v) == [error |-> IF Failed(v) THEN "arithmetic" ELSE "ok", value |-> v]
Refused(why) == [error |-> why, value |-> Err]

\* EvaluateExpression
EvaluateFormula(ts, vars) ==
    LET r == ParseFormula(ts) IN
    CASE DOMAIN vars = {} -> Refused("no_variables")
      [] Fails(r) -> Refused("syntax")
      [] ~(Variables(r.node) \subseteq DOMAIN vars) -> Refused("undefined_variable")
      [] OTHER -> Result(Evaluate(r.node, vars))

RECURSIVE GraduatedUnshifted(_, _, _, _), Graduated(_, _, _, _), EvaluateCharge(_, _), Summed(_, _)

\* Wrong on purpose: a tier is taken to be as wide as its upper bound.
GraduatedUnshifted(tiers, remaining, previous, total) ==
    LET tier == Head(tiers)
        units == IF tier.upTo # 0 /\ Less(Num(tier.upTo), remaining) THEN Num(tier.upTo) ELSE remaining
        left == Minus(remaining, units)
        sum == Plus(total, Times(units, Num(tier.rate)))
    IN  IF Len(tiers) = 1 \/ ~Less(Num(0), left) THEN sum
        ELSE GraduatedUnshifted(Tail(tiers), left, Num(tier.upTo), sum)

\* evaluateCharge, "graduated": the loop over the tiers; upTo = 0 is the open end.
Graduated(tiers, remaining, previous, total) ==
    LET tier == Head(tiers)
        width == Minus(Num(tier.upTo), previous)
        units == IF tier.upTo = 0 \/ Less(remaining, width) THEN remaining ELSE width
        charged == Less(Num(0), units)
        left == IF charged THEN Minus(remaining, units) ELSE remaining
        sum == IF charged THEN Plus(total, Times(units, Num(tier.rate))) ELSE total
    IN  IF Len(tiers) = 1 \/ ~Less(Num(0), left) THEN sum
        ELSE Graduated(Tail(tiers), left, Num(tier.upTo), sum)

\* evaluateCharge, "volume": the whole measure at the rate of its tier.
Volume(tiers, measure) ==
    LET fits == {i \in 1..Len(tiers) : tiers[i].upTo = 0 \/ ~Less(Num(tiers[i].upTo), measure)}
        i == IF fits = {} THEN Len(tiers) ELSE CHOOSE j \in fits : \A k \in fits : j <= k
    IN  Times(measure, Num(tiers[i].rate))

\* evaluateCharge, "package": whole packages, by the charge's rounding.
Packages(rounding, measure, units) ==
    LET q == Over(measure, Num(units)) IN
    CASE rounding = "ceil" -> Ceil(q) [] rounding = "floor" -> Floor(q)
      [] rounding = "nearest" -> Round(q)

\* evaluateCharge, "sum": stops at the first component that fails.
Summed(charges, measures) ==
    IF charges = <<>> THEN Result(Num(0))
    ELSE LET first == EvaluateCharge(Head(charges), measures)
             rest == Summed(Tail(charges), measures)
         IN  CASE first.error # "ok" -> first
               [] rest.error # "ok" -> rest
               [] OTHER -> Result(Plus(first.value, rest.value))

EvaluateCharge(c, measures) ==
    CASE c.type = "flat" -> Result(Num(c.amount))
      [] c.type = "expression" -> EvaluateFormula(c.formula, measures)
      [] c.type = "sum" -> Summed(c.components, measures)
      [] c.measure \notin DOMAIN measures -> Refused("missing_measure")
      [] c.type = "per_unit" ->
           Result(Times(Over(measures[c.measure], Num(c.unitSize)), Num(c.rate)))
      [] c.type = "package" ->
           Result(Num(c.amount * Packages(c.rounding, measures[c.measure], c.units)))
      [] c.type = "graduated" -> Result(Graduated(c.tiers, measures[c.measure], Num(0), Num(0)))
      [] c.type = "volume" -> Result(Volume(c.tiers, measures[c.measure]))

-----------------------------------------------------------------------------
(* The loader *)

NoCard == "-"

\* parseTiers: bounds increase, the last tier and only it is open.
TiersOK(tiers) ==
    /\ tiers # <<>>
    /\ \A i \in 1..Len(tiers) : (tiers[i].upTo = 0) <=> (i = Len(tiers))
    /\ \A i \in 1..(Len(tiers) - 2) : tiers[i].upTo < tiers[i + 1].upTo

RECURSIVE ChargeOK(_), ChargeMeasuresTop(_), ChargeMeasures(_), FormulasOK(_, _)

\* parseCharge
ChargeOK(c) == CASE c.type = "per_unit" -> c.unitSize > 0
                 [] c.type = "package" -> c.units > 0
                 [] c.type \in {"graduated", "volume"} -> TiersOK(c.tiers)
                 [] c.type = "sum" -> \A i \in 1..Len(c.components) : ChargeOK(c.components[i])
                 [] OTHER -> TRUE

OwnMeasure(c) == IF c.type \in {"flat", "expression", "sum"} THEN {} ELSE {c.measure}

\* Wrong on purpose: the components of a sum are not looked into.
ChargeMeasuresTop(c) == OwnMeasure(c)

ChargeMeasures(c) ==
    OwnMeasure(c) \cup (IF c.type # "sum" THEN {}
                        ELSE UNION {ChargeMeasures(c.components[i]) : i \in 1..Len(c.components)})

\* validatePricingCharge: declared measures and valid formulas, at any depth.
FormulasOK(c, known) ==
    /\ c.type = "expression" => ValidateExpression(c.formula, known)
    /\ c.type = "sum" => \A i \in 1..Len(c.components) : FormulasOK(c.components[i], known)
PricingChargeOK(c, operation) ==
    /\ ChargeOK(c)
    /\ ChargeMeasures(c) \subseteq operation.measures
    /\ FormulasOK(c, operation.measures)

\* The charge of an operation that no rule matches; it may be to reject.
Charges(price) == {price.rules[i].charge : i \in 1..Len(price.rules)}
                    \cup (IF price.unmatched.action = "charge" THEN {price.unmatched.charge} ELSE {})

\* parsePricing: the prices of a rate card.
CardOK(book, card) ==
    \A op \in DOMAIN card.prices :
      /\ op \in DOMAIN book.operations
      /\ \A i \in 1..Len(card.prices[op].rules) :
            DOMAIN card.prices[op].rules[i].when \subseteq DOMAIN book.operations[op].dimensions
      /\ \A c \in Charges(card.prices[op]) : PricingChargeOK(c, book.operations[op])

RECURSIVE InheritanceOK(_, _, _), Resolves(_, _, _, _), OperationPricing(_, _, _, _)

\* validateRateCardInheritance
InheritanceOK(book, key, visiting) ==
    /\ key \in DOMAIN book.cards
    /\ key \notin visiting
    /\ \/ book.cards[key].extends = NoCard
       \/ InheritanceOK(book, book.cards[key].extends, visiting \cup {key})

\* ResolvesOperation
Resolves(book, key, op, seen) ==
    /\ key \in DOMAIN book.cards \ seen
    /\ \/ op \in DOMAIN book.cards[key].prices
       \/ Resolves(book, book.cards[key].extends, op, seen \cup {key})

\* parsePlans: what a plan says of pricing.
PlanOK(book, plan) ==
    /\ plan.card # NoCard => plan.card \in DOMAIN book.cards
    /\ \A op \in plan.allowed : op \in DOMAIN book.operations /\ Resolves(book, plan.card, op, {})

\* LoadConfigFromMap, of the parts modelled.
Loads(book) ==
    /\ DOMAIN book.operations # {} /\ DOMAIN book.cards # {}
    /\ \A op \in DOMAIN book.operations :
          LET o == book.operations[op] IN o.measures # {} /\ o.measures \cap DOMAIN o.dimensions = {}
    /\ \A key \in DOMAIN book.cards : CardOK(book, book.cards[key])
    /\ \A key \in DOMAIN book.cards : InheritanceOK(book, key, {})
    /\ \A plan \in DOMAIN book.plans : PlanOK(book, book.plans[plan])

-----------------------------------------------------------------------------
(* The engine *)

\* matchesDimension; a prefix or a range is the set of values it accepts.
MatchesDimension(m, v) == IF m.op = "not_in" THEN v \notin m.values ELSE v \in m.values
Matches(rule, dims) ==
    \A d \in DOMAIN rule.when : d \in DOMAIN dims /\ MatchesDimension(rule.when[d], dims[d])

\* operationPricing: the card, or the nearest one it extends, that has the operation.
OperationPricing(book, key, op, seen) ==
    CASE key \in seen -> [error |-> "inheritance_cycle"]
      [] key \notin DOMAIN book.cards -> [error |-> "unknown_rate_card"]
      [] op \in DOMAIN book.cards[key].prices ->
           [error |-> "ok", price |-> book.cards[key].prices[op]]
      [] book.cards[key].extends = NoCard -> [error |-> "no_price"]
      [] OTHER -> OperationPricing(book, book.cards[key].extends, op, seen \cup {key})

\* The first rule that matches decides, else the operation's "unmatched".
Selected(price, dims) ==
    LET hits == {i \in 1..Len(price.rules) : Matches(price.rules[i], dims)}
    IN  CASE hits # {} -> {price.rules[CHOOSE i \in hits : \A j \in hits : i <= j].charge}
          [] price.unmatched.action = "charge" -> {price.unmatched.charge}
          [] OTHER -> {}

\* Measures that are declared and not supplied are zero.
Filled(operation, u) ==
    [m \in operation.measures |-> IF m \in DOMAIN u.measures THEN u.measures[m] ELSE Num(0)]

\* Calculate, with the rate card of the plan (resolveRateCard, GetRateCardForPlan).
Calculate(book, card, u) ==
    IF u.operation \notin DOMAIN book.operations THEN Refused("unknown_operation")
    ELSE LET o == book.operations[u.operation]
             price == OperationPricing(book, card, u.operation, {})
         IN  CASE ~(DOMAIN u.measures \subseteq o.measures) -> Refused("undeclared_measure")
               [] ~(DOMAIN u.dimensions \subseteq DOMAIN o.dimensions) -> Refused("undeclared_dimension")
               [] \E d \in DOMAIN o.dimensions \ DOMAIN u.dimensions : o.dimensions[d] ->
                    Refused("missing_dimension")
               [] \E m \in DOMAIN u.measures : Less(u.measures[m], Num(0)) -> Refused("negative_measure")
               [] price.error # "ok" -> Refused(price.error)
               [] Selected(price.price, u.dimensions) = {} -> Refused("no_rule_matched")
               [] OTHER ->
                    LET c == CHOOSE x \in Selected(price.price, u.dimensions) : TRUE
                        r == EvaluateCharge(c, Filled(o, u))
                    IN  CASE r.error # "ok" -> r
                          [] Less(r.value, Num(0)) -> Refused("negative_cost")
                          [] OTHER -> Result(QuantizeMoney(r.value))

-----------------------------------------------------------------------------
(* Properties *)

\* How a formula is written: the rank of its operator, and its tokens with
\* parentheses only where the rank asks for them.
Rank(t) == CASE t.op = "ternary" -> 0 [] t.op = "or" -> 1 [] t.op = "and" -> 2 [] t.op = "not" -> 3
             [] t.op \in Comparisons \cup {"not in"} -> 4 [] t.op \in {"+", "-"} -> 5
             [] t.op \in {"*", "/", "//", "%"} -> 6 [] t.op \in {"plus", "minus"} -> 7 [] OTHER -> 8

RECURSIVE Written(_, _), Listed(_)
Listed(args) == IF Len(args) <= 1 THEN (IF args = <<>> THEN <<>> ELSE Written(args[1], 1))
                ELSE Written(args[1], 1) \o <<",">> \o Listed(Tail(args))
Written(t, rank) ==
    LET a(i, k) == Written(t.args[i], k)
        k == Rank(t)
        tokens ==
          CASE t.op \in {"number", "variable"} -> <<t.token>>
            [] t.op = "call" -> <<t.name, "(">> \o Listed(t.args) \o <<")">>
            [] t.op = "ternary" -> a(2, 1) \o <<"if">> \o a(1, 1) \o <<"else">> \o a(3, 1)
            [] t.op = "not" -> <<"not">> \o a(1, 3)
            [] t.op = "plus" -> <<"+">> \o a(1, 7)
            [] t.op = "minus" -> <<"-">> \o a(1, 7)
            [] t.op = "not in" -> a(1, 5) \o <<"not", "in">> \o a(2, 5)
            [] OTHER -> a(1, IF k = 4 THEN 5 ELSE k) \o <<t.op>> \o a(2, k + 1)
    IN  IF k < rank THEN <<"(">> \o tokens \o <<")">> ELSE tokens

\* A formula means what it says: written with the fewest parentheses, or all in
\* one more pair, it is read back as itself, so precedence and grouping are the
\* documented ones; and one more comparison, a power or a missing end is refused
\* (pricingExpressionParser).
FormulasReadBack ==
    \A t \in Formulas :
      LET ts == Written(t, 0)
          r == ParseFormula(ts)
      IN  IF ~CallsOK(t) THEN Fails(r)
          ELSE /\ ~Fails(r) /\ r.node = t
               /\ ParseFormula(<<"(">> \o ts \o <<")">>) = [at |-> Len(ts) + 3, node |-> t]
               /\ \A bad \in {<<"**", "x">>, <<"or">>, <<")">>} : Fails(ParseFormula(ts \o bad))
               /\ Rank(t) = 4 => Fails(ParseFormula(ts \o <<"<", "x">>))

RECURSIVE Divides(_)
Divides(t) == /\ t.op \notin {"number", "variable"}
              /\ t.op \in {"/", "//", "%"} \/ \E i \in 1..Len(t.args) : Divides(t.args[i])

\* A formula that was accepted has a value: only a division can fail, and not one
\* that a ternary guards.  The percentile goes up with p from the smallest value
\* to the largest (evaluateExpressionNode, evaluateExpressionCall).
ValuesDefined ==
    /\ \A t \in Formulas : \A x \in 0..2 :
          LET v == Evaluate(t, [k \in {"x"} |-> Num(x)]) IN
          /\ CallsOK(t) /\ ~Divides(t) => ~Failed(v)
          /\ CallsOK(t) /\ Failed(v) =>
                ~Failed(Evaluate(Node("ternary", <<Leaf("0"), t, Leaf("x")>>), [k \in {"x"} |-> Num(x)]))
    /\ \A s \in UNION {[1..n -> {Num(0), Num(1), Num(3)}] : n \in 1..3} : \A p, q \in {0, 30, 50, 100} :
          LET at(r) == Percentile(Num(r), s) IN
          /\ p <= q => ~Less(at(q), at(p))
          /\ Same(at(0), Least(s)) /\ Same(at(100), EvaluateCall("max", s))
          /\ Len(s) = 3 => Same(at(50), Sorted(s)[2])

\* The rate of the u-th half unit: that of the first tier that reaches it.
RateOf(tiers, u) ==
    tiers[CHOOSE i \in 1..Len(tiers) :
            /\ tiers[i].upTo = 0 \/ u <= 2 * tiers[i].upTo
            /\ \A j \in 1..(i - 1) : u > 2 * tiers[j].upTo].rate

RECURSIVE Counted(_, _)
Counted(tiers, h) == IF h = 0 THEN 0 ELSE RateOf(tiers, h) + Counted(tiers, h - 1)

\* Usage is charged unit by unit: a graduated charge is the sum of the rates of
\* the units used, a volume charge all of them at the rate of the last, and a
\* package is the least, the greatest or the nearest number of packages, for any
\* tiers the loader accepts (evaluateCharge).
UnitsCounted ==
    \A h \in 0..MaxHalves :
      /\ \A tiers \in {s \in TierLists : TiersOK(s)} :
           /\ Same(Graduated(tiers, <<h, 2>>, Num(0), Num(0)), <<Counted(tiers, h), 2>>)
           /\ Same(Volume(tiers, <<h, 2>>), <<h * RateOf(tiers, h), 2>>)
      /\ \A units \in 1..3 :
           LET n(rounding) == Packages(rounding, <<h, 2>>, units) IN
           /\ 2 * units * n("floor") <= h /\ h < 2 * units * (n("floor") + 1)
           /\ 2 * units * (n("ceil") - 1) < h /\ h <= 2 * units * n("ceil")
           /\ units * (2 * n("nearest") - 1) <= h /\ h < units * (2 * n("nearest") + 1)

\* Reasons that are the document's fault and not the usage's or arithmetic's.
Broken == {"unknown_operation", "unknown_rate_card", "inheritance_cycle", "no_price",
           "missing_measure", "undefined_variable", "no_variables", "syntax"}

\* A document that loads can price: whatever usage a plan allows, the engine
\* never finds a card, a measure, a variable or a formula that the loader let
\* pass (parsePricing, parsePlans against Calculate).
DocumentsPrice ==
    \A book \in {b \in Books : Loads(b)} : \A plan \in DOMAIN book.plans :
      \A u \in {x \in Usages : x.operation \in book.plans[plan].allowed} :
        Calculate(book, book.plans[plan].card, u).error \notin Broken
=============================================================================
