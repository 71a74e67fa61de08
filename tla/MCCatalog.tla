------------------------------ MODULE MCCatalog ------------------------------
(***************************************************************************)
(* Small instances of Catalog: two documents with two plans each, one       *)
(* rolled out at once and one at the next renewal, one account that may     *)
(* have a plan and one that never does.  Beside it the pricing engine of     *)
(* one document, over all formulas two operators deep and all documents of  *)
(* two rate cards that extend one another or not.                           *)
(***************************************************************************)
EXTENDS Catalog, Pricing

MCPlansOf == [d \in Documents |-> {"pro", "basic"}]
MCDefaultRollout == [d \in Documents |->
    IF d = "d1" THEN "new_assignments_only" ELSE "next_renewal"]
MCCompatible == Documents \X Documents
\* A goroutine that prices usage, and one that administers the catalog.
MCOps == [c \in Callers |->
    IF c = "pricing" THEN {"user", "guest", "lease"}
    ELSE {"load", "activate"}]
MCManifests ==
    {<<>>, [k \in {"pro"} |-> [effective |-> "immediate", pinned |-> TRUE]]}

X == Leaf("x")
Two == Leaf("2")
\* One formula for every operator, every sign and the calls.
Simple ==
    {X, Two} \cup {Node(op, <<X>>) : op \in {"not", "minus", "plus"}}
      \cup {Node(op, <<X, Two>>) : op \in {"or", "and", "<", "in", "not in", "+", "-", "*", "/", "//", "%"}}
      \cup {Node("ternary", <<X, Two, X>>), Call("min", <<X, Two>>), Call("if", <<X, Two, X>>),
            Call("tier", <<X, Two, X>>), Call("tier", <<X, Two, X, Two>>),
            Call("round", <<>>), Call("round", <<X>>)}
MCFormulas ==
    Simple \cup {Node(op, <<s>>) : op \in {"not", "minus", "plus"}, s \in Simple}
      \cup {Node(op, <<s, r>>) : op \in {"or", "and", "==", "not in", "+", "-", "*", "%"},
                                 s \in Simple, r \in Simple}
      \cup UNION {{Node("ternary", <<s, X, Two>>), Node("ternary", <<X, s, Two>>),
                   Node("ternary", <<X, Two, s>>), Call("clamp", <<s, X, Two>>),
                   Call("percentile", <<Two, s>>)} : s \in Simple}
MCTierLists ==
    LET Tiers(bounds) == [upTo : bounds, rate : {1, 3}] IN
    UNION {[1..n -> Tiers(0..3)] : n \in 1..3}

\* The charges that rate cards have: some name a measure or a variable that
\* no operation declares.
MCCharges ==
    LET unit(m) == [type |-> "per_unit", measure |-> m, unitSize |-> 2, rate |-> 1] IN
    {[type |-> "flat", amount |-> -1], unit("x"), unit("y"),
     [type |-> "package", measure |-> "x", units |-> 2, amount |-> 1, rounding |-> "ceil"],
     [type |-> "graduated", measure |-> "x", tiers |-> <<[upTo |-> 1, rate |-> 1], [upTo |-> 0, rate |-> 3]>>],
     [type |-> "expression", formula |-> <<"2", "/", "x">>],
     [type |-> "expression", formula |-> <<"2", "/", "y">>],
     [type |-> "sum", components |-> <<unit("x"), unit("y")>>],
     [type |-> "sum", components |-> <<unit("x"), [type |-> "expression", formula |-> <<"x">>]>>]}
MCPrices ==
    {[rules |-> <<>>, unmatched |-> [action |-> "charge", charge |-> c]] : c \in MCCharges}
      \cup {[rules |-> <<[when |-> w, charge |-> c]>>, unmatched |-> [action |-> "reject"]] :
              w \in {[d \in {"model"} |-> [op |-> "in", values |-> {"big"}]],
                     [d \in {"region"} |-> [op |-> "not_in", values |-> {"eu"}]]},
              c \in MCCharges}
NoPrices == [op \in {} |-> 0]
MCBooks ==
    LET operation == [measures |-> {"x"}, dimensions |-> [d \in {"model"} |-> FALSE]]
        prices == {NoPrices} \cup {[op \in {"chat"} |-> p] : p \in MCPrices}
    IN  {[operations |-> [op \in {"chat"} |-> operation],
          cards |-> [k \in {"base", "pro"} |->
                       IF k = "base" THEN [extends |-> e1, prices |-> p1]
                       ELSE [extends |-> e2, prices |-> p2]],
          plans |-> [k \in {"gold"} |-> [card |-> card, allowed |-> {"chat"}]]] :
           e1 \in {NoCard, "pro", "base"}, e2 \in {NoCard, "base", "none"},
           p1 \in prices, p2 \in prices, card \in {"pro", "base", NoCard}}
MCUsages ==
    {[operation |-> "chat", measures |-> m, dimensions |-> d] :
       m \in {NoPrices} \cup {[k \in {"x"} |-> <<h, 2>>] : h \in 0..3},
       d \in {NoPrices} \cup {[k \in {"model"} |-> v] : v \in {"big", "small"}}}

------------------------------------------------------------------------------
(* What the process's engine promises, in every state in which it has one.    *)

\* A formula of the active revision is read as it is written, with the
\* documented precedence and grouping, and has a value unless it divides by
\* zero (parsePricingExpression, evaluateExpressionNode).
FormulasAgree == engine # 0 => FormulasReadBack /\ ValuesDefined

\* Usage is charged unit by unit, whatever tiers and packages the loader
\* accepted (evaluateCharge).
UnitsAddUp == engine # 0 => UnitsCounted

\* A revision that was loaded can price whatever usage its plans allow: the
\* engine never meets a fault that the loader should have refused
\* (LoadConfigFromMap against Calculate).
LoadedPrices == engine # 0 => DocumentsPrice
==============================================================================
