-------------------------- MODULE RuleEngineProofs --------------------------
(***************************************************************************)
(* Proofs about RuleEngine: how a request is decided, and what is left of  *)
(* a filtered response, for files of any number of rules and filters,      *)
(* whatever the conditions mean, and for documents of any shape.           *)
(***************************************************************************)
EXTENDS RuleConditions, FiniteSums, TLAPS

Ready == pc \notin {"loading", "rejected"}

\* The file is one of the cases: its rules have the types that YAML gives them.
FileTyped ==
    /\ \E n \in Nat : DOMAIN file = 1..n
    /\ \A a \in DOMAIN file : Priority(Rule(a)) \in Nat /\ Rule(a).dry \in BOOLEAN

\* Once loaded, the rules are valid and in the order of their priorities.
LoadedInv ==
    Ready => /\ order \in [DOMAIN file -> DOMAIN file]
             /\ \A a \in DOMAIN file : \E i \in DOMAIN file : order[i] = a
             /\ \A i, j \in DOMAIN file : i < j => Ahead(order[i], order[j])
             /\ \A a \in DOMAIN file : ValidRule(Rule(a))

\* The rule's turn passes without a verdict, unless its limiter refuses.
Silent(a) == Fires(Rule(a)) => ~Refuses(Rule(a)) /\ Rule(a).action # "allow"

Limiting(a) == Fires(Rule(a)) /\ Asks(Rule(a))

\* The limiters whose turn is over have granted the request.
Granted == {order[i] : i \in {j \in DOMAIN file : j < next /\ Limiting(order[j])}}

\* The rules whose turn is over were silent.
TurnInv ==
    /\ next \in Nat \ {0}
    /\ ~Ready => next = 1 /\ asked = {} /\ refused = 0 /\ decision = Undecided
    /\ Ready => \A i \in DOMAIN file : i < next => Silent(order[i])
    /\ pc = "evaluating" => asked = Granted /\ refused = 0 /\ decision = Undecided
                            /\ \A n \in Nat : DOMAIN file = 1..n => next <= n + 1

\* What holds once the rule whose turn it is has decided, or there is none left.
ByDefault ==
    /\ decision = [result |-> "allow", rule |-> 0, dry |-> FALSE, status |-> 0]
    /\ \A i \in DOMAIN file : i < next
    /\ asked = Granted /\ refused = 0

ByRule ==
    /\ next \in DOMAIN file /\ decision.rule = order[next]
    /\ LET r == Rule(order[next]) IN
       /\ Fires(r)
       /\ \/ /\ Refuses(r) /\ asked = Granted /\ refused = 0
             /\ decision = IF r.dry
                           THEN [result |-> "allow", rule |-> order[next], dry |-> TRUE, status |-> 0]
                           ELSE [result |-> "deny", rule |-> order[next], dry |-> FALSE, status |-> Status(r)]
          \/ /\ r.action = "allow" /\ asked = Granted /\ refused = 0
             /\ decision = [result |-> "allow", rule |-> order[next], dry |-> FALSE, status |-> 0]
          \/ /\ Asks(r) /\ asked = Granted \cup {order[next]} /\ refused = order[next]
             /\ decision = [result |-> "deny", rule |-> order[next], dry |-> FALSE, status |-> Status(r)]

DecidedInv == Decided => ByDefault \/ ByRule

Inv == FileTyped /\ LoadedInv /\ TurnInv /\ DecidedInv

----------------------------------------------------------------------------
\* What the steps after the decision leave alone keeps everything said about it.
LEMMA Unmoved ==
  ASSUME Inv, UNCHANGED <<file, order, ctx, next, asked, refused, decision>>,
         Ready' = Ready, Decided' = Decided, pc = "evaluating" <=> pc' = "evaluating"
  PROVE  Inv'
<1> USE DEF Inv, Rule, Ahead, Fires, Refuses
<1>1. FileTyped'
  BY DEF FileTyped
<1>2. LoadedInv'
  BY DEF LoadedInv
<1>3. TurnInv'
  BY DEF TurnInv, Silent, Granted, Limiting
<1>4. DecidedInv'
  BY DEF DecidedInv, ByDefault, ByRule, Granted, Limiting
<1> QED BY <1>1, <1>2, <1>3, <1>4

LEMMA InvInit == Init => Inv
<1> SUFFICES ASSUME Init PROVE Inv
  OBVIOUS
<1>1. FileTyped
  BY FilesAssumption DEF Init, FileTyped, Rule
<1>2. LoadedInv /\ TurnInv /\ DecidedInv
  BY DEF Init, LoadedInv, TurnInv, DecidedInv, Ready, Decided
<1> QED BY <1>1, <1>2 DEF Inv

LEMMA InvLoad == Inv /\ Load => Inv'
<1> SUFFICES ASSUME Inv, Load PROVE Inv'
  OBVIOUS
<1>1. FileTyped'
  BY DEF Inv, FileTyped, Load, Rule
<1>2. /\ pc = "loading" /\ ~Ready /\ UNCHANGED <<file, ctx, next, asked, refused, decision>>
      /\ next = 1 /\ asked = {} /\ refused = 0 /\ decision = Undecided
  BY DEF Load, Inv, TurnInv, Ready
<1>3. CASE pc' = "rejected"
  BY <1>1, <1>2, <1>3 DEF Inv, LoadedInv, TurnInv, DecidedInv, Ready, Decided
<1>4. CASE pc' = "evaluating"
  <2> DEFINE rules == [a \in DOMAIN file |-> Prepare(file[a])]
  <2>1. /\ order' \in Orders(rules)
        /\ \A a \in DOMAIN rules : ValidRule(rules[a])
    BY <1>4 DEF Load
  <2>2. DOMAIN rules = DOMAIN file /\ \A a \in DOMAIN file : rules[a] = Rule(a) /\ Rule(a)' = Rule(a)
    BY <1>2 DEF Rule
  <2>3. LoadedInv'
    <3>1. order' \in [DOMAIN file -> DOMAIN file]
      BY <2>1, <2>2 DEF Orders
    <3>2. \A a \in DOMAIN file : \E i \in DOMAIN file : order'[i] = a
      BY <2>1, <2>2 DEF Orders
    <3>3. ASSUME NEW i \in DOMAIN file, NEW j \in DOMAIN file, i < j
          PROVE  Ahead(order[i], order[j])'
      <4> DEFINE p == order'[i]  q == order'[j]
      <4>1. \/ Priority(rules[p]) > Priority(rules[q])
            \/ Priority(rules[p]) = Priority(rules[q]) /\ p < q
        BY <2>1, <2>2, <3>3 DEF Orders
      <4>2. p \in DOMAIN file /\ q \in DOMAIN file
        BY <3>1
      <4> QED BY <4>1, <4>2, <2>2 DEF Ahead
    <3>4. \A a \in DOMAIN file : ValidRule(Rule(a))'
      BY <2>1, <2>2 DEF ValidRule
    <3> QED BY <1>2, <3>1, <3>2, <3>3, <3>4 DEF LoadedInv
  <2>4. TurnInv'
    <3>1. Granted' = {}
      <4>1. \A i \in DOMAIN file : ~(i < 1)
        BY DEF Inv, FileTyped
      <4> QED BY <1>2, <4>1 DEF Granted
    <3>2. \A i \in DOMAIN file : ~(i < 1)
      BY DEF Inv, FileTyped
    <3> QED BY <1>2, <1>4, <3>1, <3>2 DEF TurnInv, Ready
  <2>5. DecidedInv'
    BY <1>4 DEF DecidedInv, Decided
  <2> QED BY <1>1, <2>3, <2>4, <2>5 DEF Inv
<1> QED BY <1>3, <1>4 DEF Load

\* What evaluating a rule starts from.
LEMMA EvaluatingFacts ==
  ASSUME Inv, Evaluating
  PROVE  /\ Ready /\ ~Decided /\ asked = Granted /\ refused = 0 /\ decision = Undecided
         /\ next \in DOMAIN file /\ order[next] \in DOMAIN file
<1>1. Ready /\ ~Decided /\ asked = Granted /\ refused = 0 /\ decision = Undecided
  BY DEF Inv, Evaluating, Ready, Decided, TurnInv
<1>2. order \in [DOMAIN file -> DOMAIN file] /\ next \in DOMAIN order
  BY <1>1 DEF Inv, LoadedInv, Evaluating
<1> QED BY <1>1, <1>2

\* A rule that has no verdict gives its turn to the next.
LEMMA TurnPasses ==
  ASSUME Inv, Evaluating, UNCHANGED <<file, order, ctx, pc, refused, decision>>, next' = next + 1,
         Silent(order[next]),
         asked' = IF Limiting(order[next]) THEN asked \cup {order[next]} ELSE asked
  PROVE  Inv'
<1> USE EvaluatingFacts
<1>1. FileTyped' /\ LoadedInv' /\ DecidedInv'
  BY DEF Inv, FileTyped, LoadedInv, DecidedInv, Decided, Ready, Evaluating, Rule, Ahead
<1>2. \A a : Silent(a)' = Silent(a) /\ Limiting(a)' = Limiting(a)
  BY DEF Silent, Limiting, Fires, Refuses, Rule
<1>3. PICK n \in Nat : DOMAIN file = 1..n
  BY DEF Inv, FileTyped
<1>4. next \in Nat \ {0} /\ next' \in Nat \ {0}
  BY DEF Inv, TurnInv
<1>5. \A i \in DOMAIN file : i < next' <=> i < next \/ i = next
  BY <1>3, <1>4
<1>6. asked' = Granted'
  <2>1. Granted' = {order[i] : i \in {j \in DOMAIN file : j < next' /\ Limiting(order[j])}}
    BY <1>2 DEF Granted
  <2>2. CASE Limiting(order[next])
    <3>1. asked' = Granted \cup {order[next]}
      BY <2>2
    <3> QED BY <2>1, <2>2, <3>1, <1>5 DEF Granted
  <2>3. CASE ~Limiting(order[next])
    <3>1. \A j \in DOMAIN file : j < next' /\ Limiting(order[j]) <=> j < next /\ Limiting(order[j])
      BY <1>5, <2>3
    <3> QED BY <2>1, <2>3, <3>1 DEF Granted
  <2> QED BY <2>2, <2>3
<1>7. \A i \in DOMAIN file : i < next' => Silent(order[i])'
  BY <1>2, <1>5 DEF Inv, TurnInv
<1>8. \A m \in Nat : DOMAIN file = 1..m => next' <= m + 1
  BY <1>4, next \in DOMAIN file
<1>9. TurnInv'
  BY <1>4, <1>6, <1>7, <1>8 DEF TurnInv, Ready, Evaluating
<1> QED BY <1>1, <1>9 DEF Inv

\* A decision ends the evaluation.
LEMMA TurnEnds ==
  ASSUME Inv, pc = "evaluating", UNCHANGED <<file, order, ctx, next>>, pc' \in {"allowed", "denied"},
         (ByDefault \/ ByRule)'
  PROVE  Inv'
<1>1. FileTyped'
  BY DEF Inv, FileTyped, Rule
<1>2. LoadedInv'
  BY DEF Inv, LoadedInv, Ready, Rule, Ahead
<1>3. TurnInv'
  BY DEF Inv, TurnInv, Ready, Silent, Fires, Refuses, Rule
<1>4. DecidedInv'
  BY DEF DecidedInv
<1> QED BY <1>1, <1>2, <1>3, <1>4 DEF Inv

LEMMA InvNext == Inv /\ [Next]_vars => Inv'
<1> SUFFICES ASSUME Inv, [Next]_vars PROVE Inv'
  OBVIOUS
<1>1. CASE Load
  BY <1>1, InvLoad
<1>2. CASE PassOver
  <2>1. Silent(order[next]) /\ ~Limiting(order[next])
    BY <1>2 DEF PassOver, Silent, Limiting
  <2> QED BY <1>2, <2>1, TurnPasses DEF PassOver, ruleVars
<1>3. ASSUME Evaluating, UNCHANGED ruleVars, UNCHANGED next, UNCHANGED <<asked, refused>>
      PROVE  /\ Granted' = Granted /\ asked' = Granted /\ refused' = 0
             /\ Rule(order[next])' = Rule(order[next])
             /\ Fires(Rule(order[next]))' = Fires(Rule(order[next]))
             /\ Refuses(Rule(order[next]))' = Refuses(Rule(order[next]))
             /\ next' \in (DOMAIN file)'
  BY <1>3, EvaluatingFacts DEF ruleVars, Granted, Limiting, Fires, Refuses, Rule
<1>4. CASE Refuse
  <2>1. /\ Evaluating /\ UNCHANGED <<ruleVars, next, asked, refused>> /\ pc' \in {"allowed", "denied"}
        /\ Fires(Rule(order[next])) /\ Refuses(Rule(order[next]))
        /\ decision' = IF Rule(order[next]).dry
              THEN [result |-> "allow", rule |-> order[next], dry |-> TRUE, status |-> 0]
              ELSE [result |-> "deny", rule |-> order[next], dry |-> FALSE, status |-> Status(Rule(order[next]))]
    BY <1>4 DEF Refuse, Decide
  <2>2. decision'.rule = order[next]
    BY <2>1
  <2>3. ByRule'
    BY <1>3, <2>1, <2>2 DEF ByRule, ruleVars
  <2> QED BY <2>1, <2>3, TurnEnds DEF ruleVars, Evaluating
<1>5. CASE Allow
  <2>1. /\ Evaluating /\ UNCHANGED <<ruleVars, next, asked, refused>> /\ pc' \in {"allowed", "denied"}
        /\ Fires(Rule(order[next])) /\ Rule(order[next]).action = "allow"
        /\ decision' = [result |-> "allow", rule |-> order[next], dry |-> FALSE, status |-> 0]
    BY <1>5 DEF Allow, Decide
  <2>2. ByRule'
    BY <1>3, <2>1 DEF ByRule, ruleVars
  <2> QED BY <2>1, <2>2, TurnEnds DEF ruleVars, Evaluating
<1>6. CASE Ask
  <2>1. Evaluating /\ Limiting(order[next]) /\ Silent(order[next])
    BY <1>6 DEF Ask, Limiting, Silent, Asks, Refuses
  <2>2. CASE next' = next + 1 /\ asked' = asked \cup {order[next]}
             /\ UNCHANGED <<ruleVars, pc, refused, decision, docVars>>
    BY <2>1, <2>2, TurnPasses DEF ruleVars
  <2>3. CASE asked' = asked \cup {order[next]} /\ refused' = order[next]
             /\ Decide("deny", order[next], FALSE, Status(Rule(order[next])))
    <3>1. /\ UNCHANGED <<ruleVars, next>> /\ pc' \in {"allowed", "denied"}
          /\ decision' = [result |-> "deny", rule |-> order[next], dry |-> FALSE, status |-> Status(Rule(order[next]))]
      BY <2>3 DEF Decide
    <3>2. Granted' = Granted /\ asked' = Granted \cup {order[next]}
      BY <2>1, <2>3, <3>1, EvaluatingFacts DEF ruleVars, Granted, Limiting, Fires, Rule
    <3>3. next' \in (DOMAIN file)' /\ Fires(Rule(order[next]))' /\ Asks(Rule(order[next]))'
      BY <2>1, <3>1, EvaluatingFacts DEF ruleVars, Limiting, Fires, Asks, Rule
    <3>4. Rule(order[next])' = Rule(order[next]) /\ order'[next'] = order[next] /\ decision'.rule = order[next]
      BY <3>1 DEF ruleVars, Rule
    <3>5. ByRule'
      BY <2>3, <3>1, <3>2, <3>3, <3>4 DEF ByRule
    <3> QED BY <2>1, <3>1, <3>5, TurnEnds DEF ruleVars, Evaluating
  <2> QED BY <1>6, <2>2, <2>3 DEF Ask
<1>7. CASE Default
  <2>1. /\ pc = "evaluating" /\ next \notin DOMAIN order /\ UNCHANGED <<ruleVars, next, asked, refused>>
        /\ pc' \in {"allowed", "denied"}
        /\ decision' = [result |-> "allow", rule |-> 0, dry |-> FALSE, status |-> 0]
    BY <1>7 DEF Default, Decide
  <2>2. DOMAIN order = DOMAIN file /\ asked = Granted /\ refused = 0 /\ next \in Nat \ {0}
    BY <2>1 DEF Inv, LoadedInv, TurnInv, Ready
  <2>3. \A i \in DOMAIN file : i < next
    BY <2>1, <2>2 DEF Inv, FileTyped
  <2>4. Granted' = Granted
    BY <2>1 DEF ruleVars, Granted, Limiting, Fires, Rule
  <2>5. ByDefault'
    BY <2>1, <2>2, <2>3, <2>4 DEF ByDefault, ruleVars
  <2> QED BY <2>1, <2>5, TurnEnds DEF ruleVars
<1>8. CASE Respond \/ ApplyFilter \/ Answer \/ UNCHANGED vars
  BY <1>8, Unmoved DEF Respond, ApplyFilter, Answer, vars, ruleVars, Ready, Decided
<1> QED BY <1>1, <1>2, <1>4, <1>5, <1>6, <1>7, <1>8 DEF Next

----------------------------------------------------------------------------
\* No rule has two turns, and of two rules exactly one is ahead.
LEMMA OrderFacts ==
  ASSUME Inv, Ready
  PROVE  /\ \A i, j \in DOMAIN file : order[i] = order[j] => i = j
         /\ \A i, j \in DOMAIN file : Ahead(order[i], order[j]) <=> i < j
<1>1. PICK n \in Nat : DOMAIN file = 1..n
  BY DEF Inv, FileTyped
<1>2. \A i, j \in DOMAIN file : i < j => Ahead(order[i], order[j])
  BY DEF Inv, LoadedInv
<1>3. \A a, b \in DOMAIN file : ~(Ahead(a, b) /\ Ahead(b, a)) /\ ~Ahead(a, a)
  BY <1>1 DEF Ahead, Inv, FileTyped
<1>4. \A i \in DOMAIN file : order[i] \in DOMAIN file
  BY DEF Inv, LoadedInv
<1>5. ASSUME NEW i \in DOMAIN file, NEW j \in DOMAIN file, ~(i < j)
      PROVE  ~Ahead(order[i], order[j])
  <2>1. i = j \/ j < i
    BY <1>1, <1>5
  <2> QED BY <2>1, <1>2, <1>3, <1>4
<1>6. ASSUME NEW i \in DOMAIN file, NEW j \in DOMAIN file, order[i] = order[j]
      PROVE  i = j
  <2>1. ~(i < j) /\ ~(j < i)
    BY <1>2, <1>3, <1>4, <1>6
  <2> QED BY <1>1, <2>1
<1> QED BY <1>2, <1>5, <1>6

\* The rules that have something to say about the request: a require_role rule that
\* the user's role satisfies has not.
Verdicts ==
    {a \in DOMAIN file :
        LET r == Rule(a) IN
        Fires(r) /\ (Refuses(r) \/ r.action = "allow" \/ refused = a)}

\* How the loop decides: by the first of them.
FirstVerdict ==
    Decided =>
        /\ decision.rule = 0 => Verdicts = {} /\ decision.result = "allow"
        /\ decision.rule # 0 =>
              /\ decision.rule \in Verdicts
              /\ \A a \in Verdicts \ {decision.rule} : Ahead(decision.rule, a)
              /\ LET r == Rule(decision.rule) IN
                 /\ decision.result = IF r.action = "allow" \/ r.dry THEN "allow" ELSE "deny"
                 /\ decision.dry = (r.action # "allow" /\ r.dry)

LEMMA InvFirstVerdict == Inv => FirstVerdict
<1> SUFFICES ASSUME Inv, Decided PROVE FirstVerdict
  BY DEF FirstVerdict
<1>1. Ready /\ (ByDefault \/ ByRule)
  BY DEF Inv, DecidedInv, Decided, Ready
<1>2. \A i \in DOMAIN file : i < next => Silent(order[i])
  BY <1>1 DEF Inv, TurnInv
<1>3. /\ \A a \in DOMAIN file : \E i \in DOMAIN file : order[i] = a
      /\ \A i \in DOMAIN file : order[i] \in DOMAIN file
  BY <1>1 DEF Inv, LoadedInv
<1>4. /\ \A i, j \in DOMAIN file : order[i] = order[j] => i = j
      /\ \A i, j \in DOMAIN file : Ahead(order[i], order[j]) <=> i < j
  BY <1>1, OrderFacts
<1>5. 0 \notin DOMAIN file
  BY DEF Inv, FileTyped
<1>6. CASE ByDefault
  <2>1. decision.rule = 0 /\ decision.result = "allow"
    BY <1>6 DEF ByDefault
  <2>2. Verdicts = {}
    <3> SUFFICES ASSUME NEW a \in Verdicts PROVE FALSE
      OBVIOUS
    <3>1. a \in DOMAIN file /\ (~Silent(a) \/ refused = a)
      BY DEF Verdicts, Silent
    <3>2. Silent(a)
      BY <1>2, <1>3, <1>6, <3>1 DEF ByDefault
    <3> QED BY <1>5, <1>6, <3>1, <3>2 DEF ByDefault
  <2> QED BY <2>1, <2>2 DEF FirstVerdict
<1>7. CASE ByRule
  <2> DEFINE d == order[next]  r == Rule(d)
  <2>1. next \in DOMAIN file /\ decision.rule = d /\ d \in DOMAIN file /\ d # 0
    BY <1>3, <1>7, SMTT(30) DEF ByRule, Inv, FileTyped
  <2>2. Fires(r) /\ (Refuses(r) \/ r.action = "allow" \/ refused = d)
    BY <1>7 DEF ByRule
  <2>3. d \in Verdicts
    BY <2>1, <2>2 DEF Verdicts
  <2>4. ASSUME NEW a \in Verdicts \ {d} PROVE Ahead(d, a)
    <3>1. PICK j \in DOMAIN file : order[j] = a
      BY <1>3 DEF Verdicts
    <3>2. refused # a
      BY <1>5, <1>7, <2>4 DEF ByRule, Verdicts
    <3>3. ~Silent(a)
      BY <3>2 DEF Verdicts, Silent
    <3>4. ~(j < next) /\ j # next
      BY <1>2, <2>4, <3>1, <3>3
    <3>5. next < j
      BY <2>1, <3>1, <3>4 DEF Inv, FileTyped
    <3> QED BY <1>4, <2>1, <3>1, <3>5
  <2>5. r.dry \in BOOLEAN
    BY <2>1 DEF Inv, FileTyped
  <2>6. /\ decision.result = IF r.action = "allow" \/ r.dry THEN "allow" ELSE "deny"
        /\ decision.dry = (r.action # "allow" /\ r.dry)
    <3>1. CASE Refuses(r) /\ decision = IF r.dry
                THEN [result |-> "allow", rule |-> d, dry |-> TRUE, status |-> 0]
                ELSE [result |-> "deny", rule |-> d, dry |-> FALSE, status |-> Status(r)]
      <4>1. r.action # "allow"
        BY <3>1 DEF Refuses
      <4>2. CASE r.dry = TRUE
        BY <3>1, <4>1, <4>2
      <4>3. CASE r.dry = FALSE
        BY <3>1, <4>1, <4>3
      <4> QED BY <2>5, <4>2, <4>3
    <3>2. CASE r.action = "allow" /\ decision = [result |-> "allow", rule |-> d, dry |-> FALSE, status |-> 0]
      BY <3>2
    <3>3. CASE Asks(r) /\ decision = [result |-> "deny", rule |-> d, dry |-> FALSE, status |-> Status(r)]
      <4>1. r.action # "allow" /\ r.dry = FALSE
        BY <2>5, <3>3 DEF Asks
      <4> QED BY <3>3, <4>1
    <3> QED BY <1>7, <3>1, <3>2, <3>3 DEF ByRule
  <2> QED BY <2>1, <2>3, <2>4, <2>6 DEF FirstVerdict
<1> QED BY <1>1, <1>6, <1>7

LEMMA FirstVerdictSuffices == Inv /\ FirstVerdict => FirstRuleDecides
<1> SUFFICES ASSUME Inv, FirstVerdict, Decided PROVE FirstRuleDecides
  BY DEF FirstRuleDecides
<1>1. Verdicts \subseteq Terminating
  BY DEF Verdicts, Terminating, Terminates, Refuses
<1>2. ASSUME NEW a \in Terminating, ~Satisfied(Rule(a)) PROVE a \in Verdicts
  BY <1>2 DEF Verdicts, Terminating, Terminates, Satisfied, Refuses
<1>3. ASSUME NEW a \in DOMAIN file, NEW b \in DOMAIN file, Ahead(a, b) PROVE ~Ahead(b, a)
  <2>1. a \in Nat /\ b \in Nat /\ Priority(Rule(a)) \in Nat /\ Priority(Rule(b)) \in Nat
    BY DEF Inv, FileTyped
  <2> QED BY <1>3, <2>1 DEF Ahead
<1>4. ASSUME NEW a \in Terminating, \A b \in Terminating \ {a} : Ahead(a, b), ~Satisfied(Rule(a))
      PROVE  decision.rule = a
  <2>1. a \in Verdicts /\ a \in DOMAIN file
    BY <1>2, <1>4 DEF Verdicts
  <2>2. decision.rule # 0
    BY <2>1 DEF FirstVerdict
  <2>3. decision.rule \in Verdicts /\ decision.rule \in DOMAIN file
    BY <2>2 DEF FirstVerdict, Verdicts
  <2> SUFFICES ASSUME decision.rule # a PROVE FALSE
    OBVIOUS
  <2>4. Ahead(decision.rule, a)
    BY <2>1, <2>2 DEF FirstVerdict
  <2>5. Ahead(a, decision.rule)
    BY <1>1, <1>4, <2>3
  <2> QED BY <1>3, <2>1, <2>3, <2>4, <2>5
<1> QED BY <1>1, <1>4 DEF FirstRuleDecides, FirstVerdict

\* Every request is decided by the first declared rule, by priority and then by
\* place, that matches and is terminating, but for a require_role rule that is
\* satisfied: for files of any length, any conditions and any answers of the
\* limiters, the sorted list and the loop's early returns amount to that.
THEOREM DecidesByFirstRule == Spec => []FirstRuleDecides
  BY InvInit, InvNext, InvFirstVerdict, FirstVerdictSuffices, PTL DEF Spec

LEMMA InvLimiters == Inv => LimitersAskedInTurn
<1> SUFFICES ASSUME Inv, Decided PROVE LimitersAskedInTurn
  BY DEF LimitersAskedInTurn
<1>1. Ready /\ (ByDefault \/ ByRule)
  BY DEF Inv, DecidedInv, Decided, Ready
<1>2. /\ \A a \in DOMAIN file : \E i \in DOMAIN file : order[i] = a
      /\ \A i \in DOMAIN file : order[i] \in DOMAIN file
      /\ \A a \in DOMAIN file : ValidRule(Rule(a))
  BY <1>1 DEF Inv, LoadedInv
<1>3. /\ \A i, j \in DOMAIN file : order[i] = order[j] => i = j
      /\ \A i, j \in DOMAIN file : Ahead(order[i], order[j]) <=> i < j
  BY <1>1, OrderFacts
<1> DEFINE Counts(a) == Fires(Rule(a)) /\ Rule(a).action = "rate_limit" /\ ~Rule(a).dry
<1>4. \A a \in DOMAIN file : Counts(a) <=> Limiting(a)
  BY <1>2 DEF ValidRule, Limiting, Asks
<1>5. \A a \in DOMAIN file : a \in Granted <=> \E i \in DOMAIN file : i < next /\ Limiting(a) /\ order[i] = a
  BY DEF Granted
<1>6. Granted \subseteq DOMAIN file
  BY <1>2 DEF Granted
<1>7. CASE ByDefault
  <2>1. asked = Granted /\ decision.rule = 0 /\ \A i \in DOMAIN file : i < next
    BY <1>7 DEF ByDefault
  <2>2. \A a \in DOMAIN file : a \in asked <=> Counts(a)
    BY <1>2, <1>4, <1>5, <2>1
  <2> QED BY <1>6, <2>1, <2>2 DEF LimitersAskedInTurn
<1>8. CASE ByRule
  <2> DEFINE d == order[next]
  <2>1. next \in DOMAIN file /\ decision.rule = d /\ d \in DOMAIN file /\ d # 0
    BY <1>2, <1>8, SMTT(30) DEF ByRule, Inv, FileTyped
  <2>2. \A i \in DOMAIN file : i < next <=> Ahead(order[i], d)
    BY <1>3, <2>1
  <2>3. d \in asked <=> Counts(d)
    <3>1. d \notin Granted
      <4>1. \A i \in DOMAIN file : i < next => order[i] # d
        BY <1>3, <2>1 DEF Inv, TurnInv
      <4> QED BY <1>5, <2>1, <4>1
    <3>2. CASE asked = Granted /\ (Refuses(Rule(d)) \/ Rule(d).action = "allow")
      BY <3>1, <3>2 DEF Refuses
    <3>3. CASE asked = Granted \cup {d} /\ Fires(Rule(d)) /\ Asks(Rule(d))
      BY <3>3, <2>1, <1>4 DEF Limiting
    <3> QED BY <1>8, <3>2, <3>3 DEF ByRule
  <2>4. ASSUME NEW a \in DOMAIN file, a # d
        PROVE  a \in asked <=> Counts(a) /\ Ahead(a, d)
    <3>1. a \in asked <=> a \in Granted
      BY <1>8, <2>4 DEF ByRule
    <3> QED BY <1>2, <1>4, <1>5, <2>2, <3>1
  <2>5. asked \subseteq DOMAIN file
    BY <1>6, <1>8, <2>1 DEF ByRule
  <2>6. \A a \in DOMAIN file : a \in asked <=> Counts(a) /\ (decision.rule \in {0, a} \/ Ahead(a, d))
    BY <2>1, <2>3, <2>4
  <2> QED BY <2>1, <2>5, <2>6 DEF LimitersAskedInTurn
<1> QED BY <1>1, <1>7, <1>8

\* A request takes a token from exactly the limiters whose turn comes before it is
\* decided, however many rules there are.
THEOREM AsksLimitersInTurn == Spec => []LimitersAskedInTurn
  BY InvInit, InvNext, InvLimiters, PTL DEF Spec
----------------------------------------------------------------------------
AtStep == pc \in {"loading", "rejected", "evaluating", "allowed", "denied",
                  "filtering", "filtered", "answered"}

LEMMA AtStepNext == AtStep /\ [Next]_vars => AtStep'
  BY DEF AtStep, Next, vars, Load, PassOver, Refuse, Allow, Ask, Default, Decide,
         Respond, ApplyFilter, Answer

\* Whatever number a rule asks for, a refusal carries a status code.
LEMMA StatusCodes == ASSUME NEW r PROVE Status(r) \in 100..999
  BY DEF Status

LEMMA InvTypeOK == Inv /\ AtStep => TypeOK
<1> SUFFICES ASSUME Inv, AtStep PROVE TypeOK
  OBVIOUS
<1>1. Ready <=> Decided \/ pc = "evaluating"
  BY DEF AtStep, Ready, Decided
<1>2. Ready => order \in [DOMAIN file -> DOMAIN file] /\ Granted \subseteq DOMAIN file
  BY DEF Inv, LoadedInv, Granted
<1>3. next \in Nat \ {0}
  BY DEF Inv, TurnInv
<1>4. CASE decision = Undecided /\ refused = 0 /\ asked \subseteq DOMAIN file
  <2>1. /\ decision.result = "none" /\ decision.rule = 0 /\ decision.dry = FALSE
        /\ decision.status = 0
    BY <1>4 DEF Undecided
  <2> QED BY <1>1, <1>2, <1>3, <1>4, <2>1, ZenonT(60) DEF TypeOK, AtStep
<1>5. CASE Ready /\ ByDefault
  <2>1. /\ decision.result = "allow" /\ decision.rule = 0 /\ decision.dry = FALSE
        /\ decision.status = 0 /\ asked \subseteq DOMAIN file /\ refused = 0
    BY <1>2, <1>5 DEF ByDefault
  <2> QED BY <1>1, <1>2, <1>3, <2>1 DEF TypeOK, AtStep
<1>6. CASE Ready /\ ByRule
  <2> DEFINE d == order[next]
  <2>1. next \in DOMAIN file /\ decision.rule = d /\ d \in DOMAIN file
    BY <1>2, <1>6 DEF ByRule
  <2>2. asked \subseteq DOMAIN file /\ refused \in {0} \cup DOMAIN file
    BY <1>2, <1>6, <2>1 DEF ByRule
  <2>3. \/ decision = [result |-> "allow", rule |-> d, dry |-> TRUE, status |-> 0]
        \/ decision = [result |-> "allow", rule |-> d, dry |-> FALSE, status |-> 0]
        \/ decision = [result |-> "deny", rule |-> d, dry |-> FALSE, status |-> Status(Rule(d))]
    BY <1>6 DEF ByRule
  <2>4. /\ decision.result \in {"none", "allow", "deny"} /\ decision.dry \in BOOLEAN
        /\ decision.status \in (IF decision.result = "deny" THEN 100..999 ELSE {0})
    <3> HIDE DEF d
    <3>1. CASE decision = [result |-> "allow", rule |-> d, dry |-> TRUE, status |-> 0]
      BY <3>1
    <3>2. CASE decision = [result |-> "allow", rule |-> d, dry |-> FALSE, status |-> 0]
      BY <3>2
    <3>3. CASE decision = [result |-> "deny", rule |-> d, dry |-> FALSE, status |-> Status(Rule(d))]
      <4>1. decision.result = "deny" /\ decision.dry = FALSE /\ decision.status = Status(Rule(d))
        BY <3>3
      <4>2. Status(Rule(d)) \in 100..999
        BY StatusCodes
      <4>3. decision.status \in 100..999
        BY <4>1, <4>2
      <4> QED BY <4>1, <4>3
    <3> QED BY <2>3, <3>1, <3>2, <3>3
  <2> QED BY <1>1, <1>2, <1>3, <2>1, <2>2, <2>4 DEF TypeOK, AtStep
<1>7. \/ decision = Undecided /\ refused = 0 /\ asked \subseteq DOMAIN file
      \/ Ready /\ (ByDefault \/ ByRule)
  BY <1>1, <1>2 DEF Inv, TurnInv, DecidedInv
<1> QED BY <1>4, <1>5, <1>6, <1>7

\* The types of the decision, and that every refusal carries a status code from 100
\* to 999, for any rules: also those whose status is missing or no status code.
THEOREM DecisionsTyped == Spec => []TypeOK
<1>1. Init => AtStep
  BY DEF Init, AtStep
<1> QED BY <1>1, InvInit, InvNext, AtStepNext, InvTypeOK, PTL DEF Spec

----------------------------------------------------------------------------
(* Documents: json_get walks down one step at a time, and json_set rebuilds *)
(* the way back up.                                                         *)

\* What is found after each segment of a path, as an equation.
AreFound(r, p, n, g) ==
    g = [i \in 0..n |-> IF i = 0 THEN {r} ELSE Further(g[i - 1], p[i])]

LEMMA WalkIs ==
    ASSUME NEW r, NEW p, Len(p) \in Nat
    PROVE  /\ Walk(r, p)[0] = {r}
           /\ \A i \in 1..Len(p) : Walk(r, p)[i] = Further(Walk(r, p)[i - 1], p[i])
  <1> DEFINE Good == {n \in Nat : \E g : AreFound(r, p, n, g)}
  <1>1. 0 \in Good
    <2>1. AreFound(r, p, 0, [i \in 0..0 |-> {r}])
      BY DEF AreFound
    <2> QED
      BY <2>1
  <1>2. ASSUME NEW n \in Nat, n \in Good PROVE n + 1 \in Good
    <2>1. PICK g : AreFound(r, p, n, g)
      BY <1>2
    <2> DEFINE Last1 == Further(g[n], p[n + 1])
               h == [i \in 0..(n + 1) |-> IF i = n + 1 THEN Last1 ELSE g[i]]
    <2> HIDE DEF Last1
    <2>2. /\ \A i \in 0..(n + 1) : i = n + 1 \/ i \in 0..n
          /\ \A i \in 0..n : i # n + 1 /\ i \in 0..(n + 1)
          /\ \A i \in 0..n : i # 0 => i - 1 \in 0..n
          /\ n + 1 - 1 = n /\ n + 1 # 0
      OBVIOUS
    <2>3. \A i \in 0..n : h[i] = g[i]
      BY <2>2
    <2>4. \A i \in 0..n : h[i] = IF i = 0 THEN {r} ELSE Further(h[i - 1], p[i])
      <3> HIDE DEF h
      <3> TAKE i \in 0..n
      <3>1. g[i] = IF i = 0 THEN {r} ELSE Further(g[i - 1], p[i])
        BY <2>1, Zenon DEF AreFound
      <3> QED
        BY <2>2, <2>3, <3>1, Zenon
    <2>5. h[n + 1] = Further(h[n + 1 - 1], p[n + 1])
      BY <2>2, <2>3 DEF Last1
    <2>6. AreFound(r, p, n + 1, h)
      <3>1. h = [i \in 0..(n + 1) |-> h[i]]
        OBVIOUS
      <3> HIDE DEF h
      <3>2. \A i \in 0..(n + 1) :
               h[i] = IF i = 0 THEN {r} ELSE Further(h[i - 1], p[i])
        <4> TAKE i \in 0..(n + 1)
        <4>1. CASE i = n + 1
          BY <2>2, <2>5, <4>1
        <4>2. CASE i \in 0..n
          BY <2>4, <4>2, Zenon
        <4> QED
          BY <2>2, <4>1, <4>2, Zenon
      <3> QED
        BY <3>1, <3>2, Zenon DEF AreFound
    <2> QED
      BY <2>6
  <1>3. PICK g : AreFound(r, p, Len(p), g)
    <2> HIDE DEF Good
    <2>1. Nat \subseteq Good
      BY <1>1, <1>2, NumbersByInduction
    <2> QED
      BY <2>1 DEF Good
  <1>4. Walk(r, p) = CHOOSE g2 : AreFound(r, p, Len(p), g2)
    BY Zenon DEF Walk, AreFound
  <1>5. AreFound(r, p, Len(p), Walk(r, p))
    BY <1>3, <1>4, Zenon
  <1>6. 0 \in 0..Len(p) /\ \A i \in 1..Len(p) : i \in 0..Len(p) /\ i # 0
    OBVIOUS
  <1> DEFINE w == Walk(r, p)
  <1>7. w = [i \in 0..Len(p) |-> IF i = 0 THEN {r} ELSE Further(w[i - 1], p[i])]
    BY <1>5, Zenon DEF AreFound
  <1> HIDE DEF w
  <1>8. \A i \in 0..Len(p) : w[i] = IF i = 0 THEN {r} ELSE Further(w[i - 1], p[i])
    BY <1>7, Zenon
  <1>9. w[0] = {r} /\ \A i \in 1..Len(p) : w[i] = Further(w[i - 1], p[i])
    BY <1>6, <1>8, Zenon
  <1> QED
    BY <1>9, Zenon DEF w

\* A segment leads to at most one place.
LEMMA OnePlace ==
    ASSUME NEW v, NEW s, NEW j \in Place(v, s), NEW k \in Place(v, s)
    PROVE  j = k
  BY DEF Place, Index

\* At most one value is found, and none after a step that led nowhere.
LEMMA OneFound ==
    ASSUME NEW r, NEW p, Len(p) \in Nat
    PROVE  \A i \in 0..Len(p) : \A v, w \in Walk(r, p)[i] : v = w
  <1> DEFINE W == Walk(r, p)
             Good == {n \in Nat : n <= Len(p) => \A v, w \in W[n] : v = w}
  <1>1. /\ W[0] = {r}
        /\ \A i \in 1..Len(p) : W[i] = Further(W[i - 1], p[i])
    BY WalkIs
  <1> HIDE DEF W
  <1>2. 0 \in Good
    BY <1>1
  <1>3. ASSUME NEW n \in Nat, n \in Good PROVE n + 1 \in Good
    <2> SUFFICES ASSUME n + 1 <= Len(p), NEW v \in W[n + 1], NEW w \in W[n + 1] PROVE v = w
      OBVIOUS
    <2>1. W[n + 1] = Further(W[n], p[n + 1]) /\ n <= Len(p)
      <3>1. n + 1 \in 1..Len(p) /\ n + 1 - 1 = n /\ n <= Len(p)
        OBVIOUS
      <3> QED
        BY <1>1, <3>1
    <2>2. PICK u \in W[n] : v \in Child(u, p[n + 1])
      BY <2>1 DEF Further
    <2>3. PICK u2 \in W[n] : w \in Child(u2, p[n + 1])
      BY <2>1 DEF Further
    <2>4. u = u2
      BY <1>3, <2>1
    <2> QED
      BY <2>2, <2>3, <2>4, OnePlace, Zenon DEF Child
  <1>4. Nat \subseteq Good
    <2> HIDE DEF Good
    <2> QED
      BY <1>2, <1>3, NumbersByInduction
  <1> QED
    BY <1>4 DEF W

\* Where a value is found in the end, values are found all the way.
LEMMA FoundAllTheWay ==
    ASSUME NEW r, NEW p, Len(p) \in Nat, json_get(r, p) # {}
    PROVE  \A i \in 0..Len(p) : Walk(r, p)[i] # {}
  <1> DEFINE W == Walk(r, p)
             n == Len(p)
             Good == {k \in Nat : k <= n => W[n - k] # {}}
  <1>1. \A i \in 1..n : W[i] = Further(W[i - 1], p[i])
    BY WalkIs
  <1>0. n \in Nat /\ W[n] # {}
    BY DEF json_get
  <1> HIDE DEF W, n
  <1>2. 0 \in Good
    BY <1>0
  <1>3. ASSUME NEW k \in Nat, k \in Good PROVE k + 1 \in Good
    <2> SUFFICES ASSUME k + 1 <= n, W[n - (k + 1)] = {} PROVE FALSE
      OBVIOUS
    <2>1. n - k \in 1..n /\ (n - k) - 1 = n - (k + 1) /\ k <= n
      BY <1>0
    <2>2. W[n - k] = Further(W[n - (k + 1)], p[n - k])
      BY <1>1, <2>1
    <2>3. W[n - k] = {}
      BY <2>2 DEF Further
    <2> QED
      BY <1>3, <2>1, <2>3
  <1>4. Nat \subseteq Good
    <2> HIDE DEF Good
    <2> QED
      BY <1>2, <1>3, NumbersByInduction
  <1>5. ASSUME NEW i \in 0..n PROVE W[i] # {}
    <2>1. n - i \in Nat /\ n - i <= n /\ n - (n - i) = i
      BY <1>0
    <2> QED
      BY <1>4, <2>1
  <1> QED
    BY <1>5 DEF W, n

\* The containers rebuilt from place m on, as an equation.
AreRebuilt(r, p, new, m, g) ==
    g = [i \in m..Len(p) |-> IF i = Len(p) THEN new ELSE Put(At(r, p, i), p[i + 1], g[i + 1])]

LEMMA RebuildIs ==
    ASSUME NEW r, NEW p, Len(p) \in Nat, NEW new
    PROVE  LET R == Rebuild(r, p, new) IN
           /\ R[Len(p)] = new
           /\ \A i \in 0..(Len(p) - 1) : R[i] = Put(At(r, p, i), p[i + 1], R[i + 1])
  <1> DEFINE n == Len(p)
             Value(g, i) == IF i = n THEN new ELSE Put(At(r, p, i), p[i + 1], g[i + 1])
             Good == {k \in Nat : k <= n => \E g : AreRebuilt(r, p, new, n - k, g)}
  <1>0. n \in Nat
    OBVIOUS
  <1>A. ASSUME NEW m, NEW g PROVE AreRebuilt(r, p, new, m, g) <=> g = [i \in m..n |-> Value(g, i)]
    BY Zenon DEF AreRebuilt
  <1>B. ASSUME NEW g, NEW h, NEW i, g[i + 1] = h[i + 1] PROVE Value(g, i) = Value(h, i)
    BY <1>B, Zenon
  <1>C. ASSUME NEW g PROVE Value(g, n) = new /\ \A i : i # n => Value(g, i) = Put(At(r, p, i), p[i + 1], g[i + 1])
    BY Zenon
  <1> HIDE DEF n, Value
  <1>1. 0 \in Good
    <2> DEFINE g == [i \in n..n |-> new]
    <2>1. g = [i \in n..n |-> Value(g, i)]
      BY <1>0, <1>C
    <2>2. n - 0 = n
      BY <1>0
    <2> QED
      BY <2>1, <2>2, <1>A
  <1>2. ASSUME NEW k \in Nat, k \in Good PROVE k + 1 \in Good
    <2> DEFINE m == n - (k + 1)
    <2> SUFFICES ASSUME k + 1 <= n PROVE \E g : AreRebuilt(r, p, new, m, g)
      OBVIOUS
    <2>0. m \in Nat /\ n - k = m + 1 /\ k <= n /\ m # n
      BY <1>0
    <2> HIDE DEF m
    <2>1. PICK g : AreRebuilt(r, p, new, m + 1, g)
      BY <1>2, <2>0
    <2> DEFINE h == [i \in m..n |-> IF i = m THEN Value(g, m) ELSE g[i]]
    <2>2. /\ \A i \in m..n : i = m \/ i \in (m + 1)..n
          /\ \A i \in (m + 1)..n : i # m /\ i \in m..n
          /\ \A i \in m..n : i # n => i + 1 \in (m + 1)..n
          /\ m \in m..n
      BY <1>0, <2>0
    <2>3. \A i \in (m + 1)..n : h[i] = g[i]
      BY <2>2
    <2>4. h[m] = Value(g, m)
      BY <2>2
    <2>5. g = [i \in (m + 1)..n |-> Value(g, i)]
      BY <2>1, <1>A
    <2>6. h = [i \in m..n |-> h[i]]
      OBVIOUS
    <2> HIDE DEF h
    <2>7. ASSUME NEW i \in m..n PROVE Value(g, i) = Value(h, i)
      <3>1. CASE i = n
        BY <1>C, <3>1
      <3>2. CASE i # n
        <4>1. g[i + 1] = h[i + 1]
          BY <2>2, <2>3, <3>2, Zenon
        <4> QED
          BY <1>B, <4>1
      <3> QED
        BY <3>1, <3>2
    <2>8. ASSUME NEW i \in m..n PROVE h[i] = Value(h, i)
      <3>1. CASE i = m
        BY <2>2, <2>4, <2>7, <3>1, Zenon
      <3>2. CASE i \in (m + 1)..n
        BY <2>3, <2>5, <2>7, <3>2, Zenon
      <3> QED
        BY <2>2, <3>1, <3>2, Zenon
    <2>9. h = [i \in m..n |-> Value(h, i)]
      BY <2>6, <2>8, Zenon
    <2> QED
      BY <2>9, <1>A
  <1>3. PICK g : AreRebuilt(r, p, new, 0, g)
    <2> HIDE DEF Good
    <2>1. Nat \subseteq Good
      BY <1>1, <1>2, NumbersByInduction
    <2>2. n - n = 0 /\ n <= n
      BY <1>0
    <2> QED
      BY <1>0, <2>1, <2>2 DEF Good
  <1>4. Rebuild(r, p, new) = CHOOSE g2 : AreRebuilt(r, p, new, 0, g2)
    BY Zenon DEF Rebuild, AreRebuilt
  <1> DEFINE R == Rebuild(r, p, new)
  <1>5. AreRebuilt(r, p, new, 0, R)
    BY <1>3, <1>4, Zenon
  <1>6. R = [i \in 0..n |-> Value(R, i)]
    BY <1>5, <1>A, Zenon
  <1> HIDE DEF R
  <1>7. n \in 0..n /\ \A i \in 0..(n - 1) : i \in 0..n /\ i # n
    BY <1>0
  <1>8. R[n] = new
    BY <1>6, <1>7, <1>C, Zenon
  <1>9. ASSUME NEW i \in 0..(n - 1) PROVE R[i] = Put(At(r, p, i), p[i + 1], R[i + 1])
    <2>1. R[i] = Value(R, i)
      BY <1>6, <1>7, Zenon
    <2> QED
      BY <2>1, <1>7, <1>C, Zenon
  <1> QED
    BY <1>8, <1>9 DEF R, n

\* The value that was found, at each step of a path that leads somewhere.
LEMMA AtIs ==
    ASSUME NEW r, NEW p, Len(p) \in Nat, json_get(r, p) # {}
    PROVE  /\ At(r, p, 0) = r
           /\ \A i \in 0..Len(p) : Walk(r, p)[i] = {At(r, p, i)}
           /\ \A i \in 0..(Len(p) - 1) : Child(At(r, p, i), p[i + 1]) = {At(r, p, i + 1)}
  <1> DEFINE W == Walk(r, p)
             n == Len(p)
  <1>0. n \in Nat
    OBVIOUS
  <1>1. /\ W[0] = {r} 
        /\ \A i \in 1..n : W[i] = Further(W[i - 1], p[i])
    BY WalkIs
  <1>2. \A i \in 0..n : W[i] # {} /\ \A v, w \in W[i] : v = w
    BY FoundAllTheWay, OneFound
  <1>3. \A i : At(r, p, i) = CHOOSE value \in W[i] : TRUE
    BY Zenon DEF At
  <1> HIDE DEF W, n
  <1>4. ASSUME NEW i \in 0..n PROVE W[i] = {At(r, p, i)}
    <2>1. At(r, p, i) \in W[i]
      BY <1>2, <1>3
    <2> QED
      BY <1>2, <2>1
  <1>5. At(r, p, 0) = r
    BY <1>0, <1>1, <1>4
  <1>6. ASSUME NEW i \in 0..(n - 1) PROVE Child(At(r, p, i), p[i + 1]) = {At(r, p, i + 1)}
    <2>1. i \in 0..n /\ i + 1 \in 0..n /\ i + 1 \in 1..n /\ i + 1 - 1 = i
      BY <1>0
    <2>2. W[i + 1] = Further(W[i], p[i + 1])
      BY <1>1, <2>1
    <2>3. Further({At(r, p, i)}, p[i + 1]) = {At(r, p, i + 1)}
      BY <2>1, <2>2, <1>4
    <2> QED
      BY <2>3 DEF Further
  <1> QED
    BY <1>4, <1>5, <1>6 DEF W, n

\* Replacing what a segment leads to leaves the places of the container as they are.
LEMMA PutPlaces ==
    ASSUME NEW v, NEW s, NEW x, Place(v, s) # {}
    PROVE  /\ v.type \in {"object", "array"}
           /\ Put(v, s, x).type = v.type
           /\ Members(Put(v, s, x)) = [k \in DOMAIN Members(v) |-> IF k \in Place(v, s) THEN x ELSE Members(v)[k]]
           /\ \A t : Place(Put(v, s, x), t) = Place(v, t)
  <1> DEFINE m == [k \in DOMAIN Members(v) |-> IF k \in Place(v, s) THEN x ELSE Members(v)[k]]
             u == Put(v, s, x)
  <1>1. v.type \in {"object", "array"}
    <2> SUFFICES ASSUME v.type # "object", v.type # "array" PROVE FALSE
      OBVIOUS
    <2>1. Members(v) = <<>>
      BY DEF Members
    <2>2. DOMAIN Members(v) = {}
      BY <2>1
    <2> QED
      BY <2>2 DEF Place
  <1>2. DOMAIN m = DOMAIN Members(v)
    OBVIOUS
  <1>3. u = IF v.type = "object" THEN Object(m) ELSE Array(m)
    BY Zenon DEF Put, Like
  <1> HIDE DEF m, u
  <1>4. u.type = v.type
    BY <1>1, <1>3 DEF Object, Array
  <1>5. Members(u) = m
    BY <1>1, <1>3 DEF Members, Object, Array
  <1>6. ASSUME NEW t PROVE Place(u, t) = Place(v, t)
    BY <1>2, <1>4, <1>5 DEF Place
  <1> QED
    BY <1>1, <1>4, <1>5, <1>6 DEF m, u

\* Another segment leads to what it led to before, unless it leads to the same place.
LEMMA PutChildren ==
    ASSUME NEW v, NEW s, NEW x, Place(v, s) # {}
    PROVE  /\ Child(Put(v, s, x), s) = {x}
           /\ \A t : \/ Child(Put(v, s, x), t) = Child(v, t)
                     \/ /\ Child(Put(v, s, x), t) = {x} /\ Child(v, t) = Child(v, s)
                        /\ Alike(s, t)
  <1> DEFINE u == Put(v, s, x)
  <1>1. /\ Members(u) = [k \in DOMAIN Members(v) |-> IF k \in Place(v, s) THEN x ELSE Members(v)[k]]
        /\ \A t : Place(u, t) = Place(v, t)
    BY PutPlaces
  <1> HIDE DEF u
  <1>2. \A t : Place(v, t) \subseteq DOMAIN Members(v)
    BY DEF Place
  <1>3. \A k \in Place(v, s) : Members(u)[k] = x
    BY <1>1, <1>2
  <1>4. Child(u, s) = {x}
    BY <1>1, <1>3 DEF Child
  <1>5. ASSUME NEW t, Place(v, t) \cap Place(v, s) = {} PROVE Child(u, t) = Child(v, t)
    <2>1. \A k \in Place(v, t) : Members(u)[k] = Members(v)[k]
      BY <1>1, <1>2, <1>5
    <2> QED
      BY <1>1, <2>1 DEF Child
  <1>6. ASSUME NEW t, NEW k \in Place(v, t), k \in Place(v, s)
        PROVE  Child(u, t) = {x} /\ Child(v, t) = Child(v, s) /\ Alike(s, t)
    <2>1. Place(v, t) = {k} /\ Place(v, s) = {k}
      BY <1>6, OnePlace
    <2>2. Child(v, t) = Child(v, s)
      BY <2>1 DEF Child
    <2>3. Child(u, t) = {x}
      BY <1>1, <1>3, <2>1 DEF Child
    <2>4. Alike(s, t)
      <3>1. CASE v.type = "object"
        BY <1>6, <3>1 DEF Place, Alike
      <3>2. CASE v.type # "object"
        <4>1. PICK i \in Index(t) : k = i + 1
          BY <1>6, <3>2 DEF Place
        <4>2. PICK j \in Index(s) : k = j + 1
          BY <1>6, <3>2 DEF Place
        <4>3. i \in Nat /\ j \in Nat
          BY IndicesAssumption DEF Index
        <4>4. i = j
          BY <4>1, <4>2, <4>3
        <4> QED
          BY <4>4 DEF Alike
      <3> QED
        BY <3>1, <3>2
    <2> QED
      BY <2>2, <2>3, <2>4
  <1> QED
    BY <1>4, <1>5, <1>6 DEF u

\* Nothing is below a text.
LEMMA BelowText == ASSUME NEW t, NEW s PROVE Child(Text(t), s) = {}
  BY DEF Child, Place, Members, Text

\* Below an object without a key is what was below it, but for the key.
LEMMA BelowWithout ==
    ASSUME NEW v, v.type = "object", NEW key
    PROVE  /\ Without(v, key).type = "object"
           /\ Child(Without(v, key), key) = {}
           /\ \A s : s # key => Child(Without(v, key), s) = Child(v, s)
  <1> DEFINE m == [k \in DOMAIN v.map \ {key} |-> v.map[k]]
             u == Without(v, key)
  <1>1. u = Object(m)
    BY DEF Without, Restrict
  <1>2. DOMAIN m = DOMAIN v.map \ {key} /\ \A k \in DOMAIN m : m[k] = v.map[k]
    OBVIOUS
  <1> HIDE DEF m, u
  <1>3. u.type = "object" /\ Members(u) = m /\ Members(v) = v.map
    BY <1>1 DEF Object, Members
  <1>4. \A s : Place(u, s) = IF s = key THEN {} ELSE Place(v, s)
    BY <1>2, <1>3 DEF Place
  <1>5. \A s : \A k \in Place(u, s) : Members(u)[k] = Members(v)[k]
    BY <1>2, <1>3 DEF Place
  <1> QED
    BY <1>3, <1>4, <1>5 DEF Child, u

----------------------------------------------------------------------------
(* What an assignment does to what is found elsewhere.                      *)

\* Below the new value there is nothing that was not below the old one.
Shrinks(old, new) == \A s : Child(new, s) = Child(old, s) \/ Child(new, s) = {}

\* The first i segments of q lead the way that those of p lead.
Together(p, q, i) == \A j \in 1..i : Alike(p[j], q[j])

\* The container b is a with b2 where its segment led to a2.
Follows(a, b, segment, a2, b2) ==
    /\ a.type \in {"object", "array"} /\ b.type = a.type
    /\ Child(b, segment) = {b2}
    /\ \A t : \/ Child(b, t) = Child(a, t)
              \/ Child(b, t) = {b2} /\ Child(a, t) = {a2} /\ Alike(segment, t)

LEMMA SetFacts ==
    ASSUME NEW r, NEW p, Len(p) \in Nat, json_get(r, p) # {}, NEW new
    PROVE  LET n == Len(p)
               R == Rebuild(r, p, new)
           IN /\ json_set(r, p, new) = R[0] /\ R[n] = new /\ At(r, p, 0) = r
              /\ \A i \in 0..(n - 1) :
                    Follows(At(r, p, i), R[i], p[i + 1], At(r, p, i + 1), R[i + 1])
  <1> DEFINE n == Len(p)
             R == Rebuild(r, p, new)
  <1>1. json_set(r, p, new) = R[0]
    BY Zenon DEF json_set
  <1>2. R[n] = new /\ \A i \in 0..(n - 1) : R[i] = Put(At(r, p, i), p[i + 1], R[i + 1])
    BY RebuildIs
  <1>3. /\ At(r, p, 0) = r
        /\ \A i \in 0..(n - 1) : Child(At(r, p, i), p[i + 1]) = {At(r, p, i + 1)}
    BY AtIs
  <1> HIDE DEF n, R
  <1>4. ASSUME NEW i \in 0..(n - 1)
        PROVE  Follows(At(r, p, i), R[i], p[i + 1], At(r, p, i + 1), R[i + 1])
    <2> DEFINE v == At(r, p, i)
               s == p[i + 1]
               x == R[i + 1]
    <2>1. Child(v, s) = {At(r, p, i + 1)} /\ R[i] = Put(v, s, x)
      BY <1>2, <1>3
    <2> HIDE DEF v, s, x
    <2>2. Place(v, s) # {}
      BY <2>1 DEF Child
    <2>3. v.type \in {"object", "array"} /\ Put(v, s, x).type = v.type
      BY <2>2, PutPlaces
    <2>4. /\ Child(Put(v, s, x), s) = {x}
          /\ \A t : \/ Child(Put(v, s, x), t) = Child(v, t)
                    \/ /\ Child(Put(v, s, x), t) = {x} /\ Child(v, t) = Child(v, s)
                       /\ Alike(s, t)
      BY <2>2, PutChildren
    <2> QED
      BY <2>1, <2>3, <2>4 DEF v, s, x, Follows
  <1> QED
    BY <1>1, <1>2, <1>3, <1>4 DEF n, R

\* The assignment takes effect.
LEMMA SetIsFound ==
    ASSUME NEW r, NEW p, Len(p) \in Nat, json_get(r, p) # {}, NEW new
    PROVE  json_get(json_set(r, p, new), p) = {new}
  <1> DEFINE n == Len(p)
             R == Rebuild(r, p, new)
             W == Walk(json_set(r, p, new), p)
             Good == {i \in Nat : i <= n => W[i] = {R[i]}}
  <1>1. /\ json_set(r, p, new) = R[0] /\ R[n] = new
        /\ \A i \in 0..(n - 1) : Follows(At(r, p, i), R[i], p[i + 1], At(r, p, i + 1), R[i + 1])
    BY SetFacts
  <1>2. /\ W[0] = {json_set(r, p, new)}
        /\ \A i \in 1..n : W[i] = Further(W[i - 1], p[i])
    BY WalkIs
  <1>0. n \in Nat
    OBVIOUS
  <1> HIDE DEF n, R, W
  <1>3. 0 \in Good
    BY <1>1, <1>2
  <1>4. ASSUME NEW i \in Nat, i \in Good PROVE i + 1 \in Good
    <2> SUFFICES ASSUME i + 1 <= n PROVE W[i + 1] = {R[i + 1]}
      OBVIOUS
    <2>1. i \in 0..(n - 1) /\ i + 1 \in 1..n /\ i + 1 - 1 = i /\ i <= n
      BY <1>0
    <2>2. W[i + 1] = Further({R[i]}, p[i + 1])
      <3>1. W[i] = {R[i]}
        BY <1>4, <2>1, Zenon
      <3>2. W[i + 1] = Further(W[i], p[i + 1])
        BY <1>2, <2>1
      <3> QED
        BY <3>1, <3>2
    <2>3. Further({R[i]}, p[i + 1]) = Child(R[i], p[i + 1])
      BY DEF Further
    <2>4. Child(R[i], p[i + 1]) = {R[i + 1]}
      BY <1>1, <2>1 DEF Follows
    <2> QED
      BY <2>2, <2>3, <2>4
  <1>5. Nat \subseteq Good
    <2> HIDE DEF Good
    <2> QED
      BY <1>3, <1>4, NumbersByInduction
  <1>6. W[n] = {R[n]}
    BY <1>0, <1>5
  <1> QED
    BY <1>1, <1>6 DEF json_get, W, n

\* What is found on another path after an assignment: what was there before; or one
\* of the containers on the way, rebuilt; or, below the new value, nothing.
LEMMA SetElsewhere ==
    ASSUME NEW r, NEW p, Len(p) \in Nat, json_get(r, p) # {}, NEW new,
           Shrinks(At(r, p, Len(p)), new), NEW q, Len(q) \in Nat
    PROVE  LET n == Len(p)
               W == Walk(r, q)
               V == Walk(json_set(r, p, new), q)
           IN \A i \in 0..Len(q) :
                 \/ V[i] = W[i]
                 \/ /\ i <= n /\ Together(p, q, i)
                    /\ W[i] = {At(r, p, i)} /\ V[i] = {Rebuild(r, p, new)[i]}
                 \/ /\ i > n /\ Together(p, q, n) /\ V[i] = {}
                    /\ Child(new, q[n + 1]) # Child(At(r, p, n), q[n + 1])
  <1> DEFINE n == Len(p)
             m == Len(q)
             R == Rebuild(r, p, new)
             W == Walk(r, q)
             V == Walk(json_set(r, p, new), q)
             A(i) == At(r, p, i)
             OnSpine(i) == i <= n /\ Together(p, q, i) /\ W[i] = {A(i)} /\ V[i] = {R[i]}
             Below(i) == /\ i > n /\ Together(p, q, n) /\ V[i] = {}
                         /\ Child(new, q[n + 1]) # Child(A(n), q[n + 1])
             Good == {i \in Nat : i <= m => V[i] = W[i] \/ OnSpine(i) \/ Below(i)}
  <1>0. n \in Nat /\ m \in Nat /\ Shrinks(A(n), new)
    OBVIOUS
  <1>1. /\ json_set(r, p, new) = R[0] /\ R[n] = new /\ A(0) = r
        /\ \A i \in 0..(n - 1) : Follows(A(i), R[i], p[i + 1], A(i + 1), R[i + 1])
    BY SetFacts
  <1>2. /\ W[0] = {r} /\ \A i \in 1..m : W[i] = Further(W[i - 1], q[i])
        /\ V[0] = {json_set(r, p, new)} /\ \A i \in 1..m : V[i] = Further(V[i - 1], q[i])
    BY WalkIs
  <1>3. \A v, s : Further({v}, s) = Child(v, s) /\ Further({}, s) = {}
    BY DEF Further
  <1> HIDE DEF n, m, R, W, V, A
  <1>4. 0 \in Good
    BY <1>0, <1>1, <1>2 DEF Together
  <1>5. ASSUME NEW i \in Nat, i \in Good PROVE i + 1 \in Good
    <2> SUFFICES ASSUME i + 1 <= m PROVE V[i + 1] = W[i + 1] \/ OnSpine(i + 1) \/ Below(i + 1)
      OBVIOUS
    <2>0. i + 1 \in 1..m /\ i + 1 - 1 = i /\ i <= m
      BY <1>0
    <2>1. V[i + 1] = Further(V[i], q[i + 1]) /\ W[i + 1] = Further(W[i], q[i + 1])
      BY <1>2, <2>0
    <2>2. CASE V[i] = W[i]
      BY <2>1, <2>2
    <2>3. CASE Below(i)
      BY <1>0, <1>3, <2>1, <2>3
    <2>4. CASE OnSpine(i) /\ i < n
      <3>1. V[i + 1] = Child(R[i], q[i + 1]) /\ W[i + 1] = Child(A(i), q[i + 1])
        BY <1>3, <2>1, <2>4
      <3>2. i \in 0..(n - 1) /\ i + 1 <= n
        BY <1>0, <2>4
      <3>3. CASE Child(R[i], q[i + 1]) = Child(A(i), q[i + 1])
        BY <3>1, <3>3
      <3>4. CASE /\ Child(R[i], q[i + 1]) = {R[i + 1]} /\ Child(A(i), q[i + 1]) = {A(i + 1)}
                 /\ Alike(p[i + 1], q[i + 1])
        <4>1. Together(p, q, i + 1)
          BY <2>4, <3>4 DEF Together
        <4> QED
          BY <3>1, <3>2, <3>4, <4>1
      <3> QED
        BY <1>1, <3>2, <3>3, <3>4 DEF Follows
    <2>5. CASE OnSpine(i) /\ i = n
      <3>1. V[i + 1] = Child(new, q[n + 1]) /\ W[i + 1] = Child(A(n), q[n + 1])
        BY <1>1, <1>3, <2>1, <2>5
      <3>2. CASE Child(new, q[n + 1]) = Child(A(n), q[n + 1])
        BY <3>1, <3>2
      <3>3. CASE Child(new, q[n + 1]) # Child(A(n), q[n + 1])
        <4>1. Child(new, q[n + 1]) = {}
          BY <1>0, <3>3 DEF Shrinks
        <4>2. i + 1 > n /\ Together(p, q, n)
          BY <1>0, <2>5
        <4> QED
          BY <3>1, <3>3, <4>1, <4>2
      <3> QED
        BY <3>2, <3>3
    <2>6. i < n \/ i = n \/ ~OnSpine(i)
      BY <1>0
    <2> QED
      BY <1>5, <2>0, <2>2, <2>3, <2>4, <2>5, <2>6
  <1>6. Nat \subseteq Good
    <2> HIDE DEF Good
    <2> QED
      BY <1>4, <1>5, NumbersByInduction
  <1>7. \A i \in 0..m : V[i] = W[i] \/ OnSpine(i) \/ Below(i)
    BY <1>0, <1>6
  <1> QED
    BY <1>7 DEF n, m, R, W, V, A

----------------------------------------------------------------------------
(* What a filter does.                                                      *)

LEMMA FieldFacts ==
    ASSUME NEW f \in FilterEntries
    PROVE  LET n == Len(f.field) IN
           /\ n \in Nat \ {0} /\ f.field \in Seq(STRING)
           /\ Len(Front(f.field)) = n - 1 /\ Last(f.field) = f.field[n]
           /\ \A i \in 1..(n - 1) : Front(f.field)[i] = f.field[i]
  <1>1. f.field \in Seq(STRING) /\ f.field # <<>>
    BY DEF FilterEntries
  <1> QED
    BY <1>1 DEF Front, Last

\* json_get goes one segment further than it does for the parent's path.
LEMMA ParentFirst ==
    ASSUME NEW r, NEW f \in FilterEntries
    PROVE  json_get(r, f.field) = Further(json_get(r, Front(f.field)), Last(f.field))
  <1> DEFINE q == f.field
             n == Len(q)
             p == Front(q)
             W == Walk(r, q)
             V == Walk(r, p)
             Good == {i \in Nat : i <= n - 1 => V[i] = W[i]}
  <1>1. n \in Nat /\ n # 0 /\ Len(p) = n - 1 /\ Last(q) = q[n] /\ \A i \in 1..(n - 1) : p[i] = q[i]
    BY FieldFacts
  <1>2. W[0] = {r} /\ \A i \in 1..n : W[i] = Further(W[i - 1], q[i])
    <2>1. Len(q) \in Nat
      BY <1>1
    <2> QED
      BY <2>1, WalkIs
  <1>3. V[0] = {r} /\ \A i \in 1..(n - 1) : V[i] = Further(V[i - 1], p[i])
    <2>1. Len(p) \in Nat /\ Len(p) = n - 1
      BY <1>1
    <2>2. V[0] = {r} /\ \A i \in 1..Len(p) : V[i] = Further(V[i - 1], p[i])
      BY <2>1, WalkIs
    <2> QED
      BY <2>1, <2>2
  <1>4. json_get(r, q) = W[n] /\ json_get(r, p) = V[n - 1]
    BY <1>1 DEF json_get
  <1> HIDE DEF q, n, p, W, V
  <1>5. 0 \in Good
    BY <1>2, <1>3
  <1>6. ASSUME NEW i \in Nat, i \in Good PROVE i + 1 \in Good
    <2> SUFFICES ASSUME i + 1 <= n - 1 PROVE V[i + 1] = W[i + 1]
      OBVIOUS
    <2>1. i + 1 \in 1..n /\ i + 1 \in 1..(n - 1) /\ i + 1 - 1 = i /\ i <= n - 1
      BY <1>1
    <2>2. V[i + 1] = Further(V[i], p[i + 1]) /\ W[i + 1] = Further(W[i], q[i + 1])
      BY <1>2, <1>3, <2>1
    <2>3. V[i] = W[i] /\ p[i + 1] = q[i + 1]
      BY <1>1, <1>6, <2>1
    <2> QED
      BY <2>2, <2>3
  <1>7. Nat \subseteq Good
    <2> HIDE DEF Good
    <2> QED
      BY <1>5, <1>6, NumbersByInduction
  <1>8. n - 1 \in Nat /\ n \in 1..n
    BY <1>1
  <1>9. V[n - 1] = W[n - 1] /\ W[n] = Further(W[n - 1], q[n])
    BY <1>2, <1>7, <1>8
  <1> QED
    BY <1>1, <1>4, <1>9 DEF q, p

\* A filter leaves the document as it is, or assigns a text to its field, or to the
\* object that has its field that object without it.
Overwrites(r, f, R) ==
    /\ f.action \in {"redact", "replace"} /\ json_get(r, f.field) # {}
    /\ \E t \in {Redacted, Replacement(f)} : R = json_set(r, f.field, Text(t))

Removes(r, f, R) ==
    LET p == Front(f.field)
        parent == At(r, p, Len(p))
    IN /\ f.action = "remove"
       /\ json_get(r, p) # {} /\ parent.type = "object"
       /\ R = json_set(r, p, Without(parent, Last(f.field)))

\* It leaves it as it is only where there is nothing to hide.
Idle(r, f) ==
    /\ f.action \in {"redact", "replace"} => json_get(r, f.field) = {}
    /\ f.action = "remove" => \A v \in json_get(r, Front(f.field)) : v.type # "object"

LEMMA FilterIs ==
    ASSUME NEW r, NEW f \in FilterEntries
    PROVE  \/ Filtered(r, f) = r /\ Idle(r, f)
           \/ Overwrites(r, f, Filtered(r, f))
           \/ Removes(r, f, Filtered(r, f))
  <1> DEFINE R == Filtered(r, f)
             p == Front(f.field)
             n == Len(f.field)
  <1>0. n \in Nat /\ n # 0 /\ Len(p) = n - 1 /\ Last(f.field) = f.field[n]
    BY FieldFacts
  <1>1. CASE f.action \in {"redact", "replace"}
    <2>1. PICK t \in {Redacted, Replacement(f)} : R = json_set(r, f.field, Text(t))
      BY <1>1 DEF Filtered
    <2> HIDE DEF R
    <2>2. CASE json_get(r, f.field) = {}
      BY <1>1, <2>1, <2>2 DEF json_set, Idle, R
    <2>3. CASE json_get(r, f.field) # {}
      BY <1>1, <2>1, <2>3 DEF Overwrites, R
    <2> QED
      BY <2>2, <2>3
  <1>2. CASE f.action = "remove" /\ n = 1
    <2>1. R = IF r.type = "object" THEN Without(r, f.field[1]) ELSE r
      BY <1>2 DEF Filtered
    <2>2. Len(p) = 0 /\ Len(p) \in Nat /\ Last(f.field) = f.field[1]
      BY <1>0, <1>2
    <2> HIDE DEF R, p
    <2>3. json_get(r, p) = {r}
      BY <2>2, WalkIs DEF json_get
    <2>4. At(r, p, 0) = r
      BY <2>2, <2>3, AtIs
    <2>5. \A new : json_set(r, p, new) = new
      <3> TAKE new
      <3>1. Rebuild(r, p, new)[Len(p)] = new
        BY <2>2, RebuildIs
      <3> QED
        BY <2>2, <2>3, <3>1 DEF json_set
    <2>6. CASE r.type = "object"
      BY <1>2, <2>1, <2>2, <2>3, <2>4, <2>5, <2>6 DEF Removes, R, p
    <2>7. CASE r.type # "object"
      BY <1>2, <2>1, <2>3, <2>7 DEF Idle, R, p
    <2> QED
      BY <2>6, <2>7
  <1>3. CASE f.action = "remove" /\ n > 1
    <2>1. R = json_remove(r, f.field)
      BY <1>3 DEF Filtered
    <2> DEFINE found == json_get(r, p)
    <2>2. R = IF \E v \in found : v.type = "object"
              THEN json_set(r, p, Without(CHOOSE v \in found : TRUE, Last(f.field))) ELSE r
      <3>1. ~(Len(f.field) < 2)
        BY <1>0, <1>3
      <3> QED
        BY <2>1, <3>1, Zenon DEF json_remove
    <2>3. At(r, p, Len(p)) = CHOOSE v \in found : TRUE
      BY Zenon DEF At, json_get
    <2>4. \A v \in found : v = At(r, p, Len(p))
      <3>1. Len(p) \in Nat /\ Len(p) \in 0..Len(p)
        BY <1>0
      <3>2. found = Walk(r, p)[Len(p)]
        BY Zenon DEF json_get
      <3>3. CASE found # {}
        BY <3>1, <3>2, <3>3, AtIs
      <3> QED
        BY <3>3
    <2> HIDE DEF R, p, found
    <2>5. CASE \E v \in found : v.type = "object"
      BY <1>3, <2>2, <2>3, <2>4, <2>5 DEF Removes, R, p, found
    <2>6. CASE ~\E v \in found : v.type = "object"
      BY <1>3, <2>2, <2>6 DEF Idle, R, p, found
    <2> QED
      BY <2>5, <2>6
  <1>4. CASE f.action \notin {"redact", "replace", "remove"}
    BY <1>4 DEF Filtered, Idle
  <1>5. n = 1 \/ n > 1
    <2>1. n \in Nat /\ n # 0
      BY <1>0
    <2> HIDE DEF n
    <2> QED
      BY <2>1
  <1> QED
    BY <1>1, <1>2, <1>3, <1>4, <1>5

\* What is found on a path is what was there before, or nothing, or one of the masks,
\* or a container where there was one.
Changed(M, r, R, q) ==
    \/ json_get(R, q) \in {json_get(r, q), {}}
    \/ \E x, y : /\ json_get(r, q) = {x} /\ json_get(R, q) = {y}
                 /\ y \in M \/ (x.type \in {"object", "array"} /\ y.type = x.type)

LEMMA SetChanges ==
    ASSUME NEW M, NEW r, NEW p, Len(p) \in Nat, json_get(r, p) # {}, NEW new,
           Shrinks(At(r, p, Len(p)), new),
           \/ new \in M
           \/ At(r, p, Len(p)).type = "object" /\ new.type = "object",
           NEW q, Len(q) \in Nat
    PROVE  Changed(M, r, json_set(r, p, new), q)
  <1> DEFINE n == Len(p)
             m == Len(q)
             S == json_set(r, p, new)
             R == Rebuild(r, p, new)
             W == Walk(r, q)
             V == Walk(S, q)
             A(i) == At(r, p, i)
  <1>1. \A i \in 0..m :
           \/ V[i] = W[i]
           \/ i <= n /\ Together(p, q, i) /\ W[i] = {A(i)} /\ V[i] = {R[i]}
           \/ /\ i > n /\ Together(p, q, n) /\ V[i] = {}
              /\ Child(new, q[n + 1]) # Child(A(n), q[n + 1])
    BY SetElsewhere
  <1>2. /\ S = R[0] /\ R[n] = new /\ A(0) = r
        /\ \A i \in 0..(n - 1) : Follows(A(i), R[i], p[i + 1], A(i + 1), R[i + 1])
    BY SetFacts
  <1>3. json_get(r, q) = W[m] /\ json_get(S, q) = V[m]
    BY DEF json_get
  <1>0. /\ n \in Nat /\ m \in Nat /\ m \in 0..m
        /\ new \in M \/ (A(n).type = "object" /\ new.type = "object")
    OBVIOUS
  <1> HIDE DEF n, m, S, R, W, V, A
  <1>4. CASE V[m] = W[m] \/ V[m] = {}
    BY <1>3, <1>4 DEF Changed, S
  <1>5. CASE m < n /\ W[m] = {A(m)} /\ V[m] = {R[m]}
    <2>1. m \in 0..(n - 1)
      BY <1>0, <1>5
    <2>2. A(m).type \in {"object", "array"} /\ R[m].type = A(m).type
      BY <1>2, <2>1 DEF Follows
    <2>3. Changed(M, r, S, q)
      BY <1>3, <1>5, <2>2 DEF Changed
    <2> QED
      BY <2>3 DEF S
  <1>6. CASE m = n /\ W[m] = {A(m)} /\ V[m] = {R[m]}
    <2>1. Changed(M, r, S, q)
      <3>1. json_get(r, q) = {A(n)} /\ json_get(S, q) = {new}
        BY <1>2, <1>3, <1>6
      <3>2. new \in M \/ (A(n).type \in {"object", "array"} /\ new.type = A(n).type)
        BY <1>0
      <3> QED
        BY <3>1, <3>2, Zenon DEF Changed
    <2> QED
      BY <2>1 DEF S
  <1>7. m < n \/ m = n \/ ~(m <= n)
    BY <1>0
  <1> QED
    BY <1>0, <1>1, <1>4, <1>5, <1>6, <1>7

\* The masks that a filter puts in place of what it names.
MasksOf(f) == {Text(Redacted), Text(Replacement(f))}

\* Every filter changes documents like this, wherever one looks.
LEMMA FilterChanges ==
    ASSUME NEW M, NEW r, NEW f \in FilterEntries, MasksOf(f) \subseteq M, NEW q, Len(q) \in Nat
    PROVE  Changed(M, r, Filtered(r, f), q)
  <1> DEFINE R == Filtered(r, f)
  <1>1. CASE R = r
    BY <1>1 DEF Changed
  <1>2. CASE Overwrites(r, f, R)
    <2>1. PICK t \in {Redacted, Replacement(f)} : R = json_set(r, f.field, Text(t))
      BY <1>2 DEF Overwrites
    <2>2. Len(f.field) \in Nat /\ json_get(r, f.field) # {} /\ Text(t) \in M
      BY <1>2, FieldFacts DEF Overwrites, MasksOf
    <2>3. Shrinks(At(r, f.field, Len(f.field)), Text(t))
      BY BelowText DEF Shrinks
    <2>4. Changed(M, r, json_set(r, f.field, Text(t)), q)
      BY <2>2, <2>3, SetChanges
    <2> QED
      BY <2>1, <2>4
  <1>3. CASE Removes(r, f, R)
    <2> DEFINE p == Front(f.field)
               old == At(r, p, Len(p))
               new == Without(old, Last(f.field))
    <2>1. json_get(r, p) # {} /\ old.type = "object" /\ R = json_set(r, p, new)
      BY <1>3 DEF Removes
    <2>2. Len(p) \in Nat
      BY FieldFacts
    <2>3. new.type = "object" /\ Shrinks(old, new)
      BY <2>1, BelowWithout DEF Shrinks
    <2> HIDE DEF p, new
    <2>4. Changed(M, r, json_set(r, p, new), q)
      BY <2>1, <2>2, <2>3, SetChanges
    <2> QED
      BY <2>1, <2>4
  <1> QED
    BY <1>1, <1>2, <1>3, FilterIs

\* What a filter names is hidden in a document.
Hidden(M, d, f) ==
    /\ f.action \in {"redact", "replace"} => json_get(d, f.field) \subseteq M
    /\ f.action = "remove" /\ (\A p \in json_get(d, Front(f.field)) : p.type # "array") =>
          json_get(d, f.field) = {}

Texts(M) == \A x \in M : \E t : x = Text(t)

\* Nothing is below a value that is neither an object nor an array.
LEMMA BelowOthers ==
    ASSUME NEW v, v.type # "object", v.type # "array", NEW s PROVE Child(v, s) = {}
  <1>1. DOMAIN Members(v) = {}
    <2>1. Members(v) = <<>>
      BY DEF Members
    <2> QED
      BY <2>1
  <1>2. Place(v, s) = {}
    BY <1>1 DEF Place
  <1> QED
    BY <1>2 DEF Child

\* A filter hides what it names.
LEMMA FilterHides ==
    ASSUME NEW M, NEW r, NEW f \in FilterEntries, MasksOf(f) \subseteq M
    PROVE  Hidden(M, Filtered(r, f), f)
  <1> DEFINE R == Filtered(r, f)
  <1>1. CASE R = r /\ Idle(r, f)
    <2>1. CASE f.action \in {"redact", "replace"}
      BY <1>1, <2>1 DEF Idle, Hidden
    <2>2. CASE f.action = "remove"
      <3> DEFINE parents == json_get(r, Front(f.field))
      <3> SUFFICES ASSUME \A v \in parents : v.type # "array" PROVE json_get(r, f.field) = {}
        BY <1>1, <2>2 DEF Hidden
      <3>1. json_get(r, f.field) = Further(parents, Last(f.field))
        BY ParentFirst
      <3>2. \A v \in parents : v.type # "object"
        BY <1>1, <2>2 DEF Idle
      <3> HIDE DEF parents
      <3>3. \A v \in parents : Child(v, Last(f.field)) = {}
        BY <3>2, BelowOthers
      <3> QED
        BY <3>1, <3>3 DEF Further
    <2> QED
      BY <1>1, <2>1, <2>2 DEF Hidden
  <1>2. CASE Overwrites(r, f, R)
    <2>1. PICK t \in {Redacted, Replacement(f)} : R = json_set(r, f.field, Text(t))
      BY <1>2 DEF Overwrites
    <2>2. Len(f.field) \in Nat /\ json_get(r, f.field) # {} /\ Text(t) \in M
      BY <1>2, FieldFacts DEF Overwrites, MasksOf
    <2>3. json_get(R, f.field) = {Text(t)}
      BY <2>1, <2>2, SetIsFound
    <2>4. f.action # "remove"
      BY <1>2 DEF Overwrites
    <2> QED
      BY <2>2, <2>3, <2>4 DEF Hidden
  <1>3. CASE Removes(r, f, R)
    <2> DEFINE p == Front(f.field)
               old == At(r, p, Len(p))
               new == Without(old, Last(f.field))
    <2>1. json_get(r, p) # {} /\ old.type = "object" /\ R = json_set(r, p, new) /\ f.action = "remove"
      BY <1>3 DEF Removes
    <2>2. Len(p) \in Nat
      BY FieldFacts
    <2>3. Child(new, Last(f.field)) = {}
      BY <2>1, BelowWithout
    <2>4. json_get(R, f.field) = Further(json_get(R, p), Last(f.field))
      BY ParentFirst
    <2> HIDE DEF p, new
    <2>5. json_get(R, p) = {new}
      BY <2>1, <2>2, SetIsFound
    <2>6. json_get(R, f.field) = {}
      BY <2>3, <2>4, <2>5 DEF Further
    <2> QED
      BY <2>1, <2>6 DEF Hidden
  <1> QED
    BY <1>1, <1>2, <1>3, FilterIs

\* And what is hidden stays so, whatever filter follows.
LEMMA HiddenStays ==
    ASSUME NEW M, Texts(M), NEW r, NEW f \in FilterEntries, Hidden(M, r, f),
           NEW g \in FilterEntries, MasksOf(g) \subseteq M
    PROVE  Hidden(M, Filtered(r, g), f)
  <1> DEFINE R == Filtered(r, g)
             q == f.field
             p == Front(q)
  <1>0. Len(q) \in Nat /\ Len(p) \in Nat
    BY FieldFacts
  <1>1. Changed(M, r, R, q) /\ Changed(M, r, R, p)
    BY <1>0, FilterChanges
  <1>2. /\ json_get(r, q) = Further(json_get(r, p), Last(q))
        /\ json_get(R, q) = Further(json_get(R, p), Last(q))
    BY ParentFirst
  <1>3. \A x \in M : x.type = "text" /\ \A s : Child(x, s) = {}
    BY BelowText DEF Texts, Text
  <1> HIDE DEF R, p
  <1>4. CASE f.action \in {"redact", "replace"}
    <2>1. json_get(r, q) \subseteq M
      BY <1>4 DEF Hidden
    <2>2. json_get(R, q) \subseteq M
      BY <1>1, <1>3, <2>1 DEF Changed
    <2> QED
      BY <1>4, <2>2 DEF Hidden, R
  <1>5. CASE f.action = "remove"
    <2> SUFFICES ASSUME \A v \in json_get(R, p) : v.type # "array" PROVE json_get(R, q) = {}
      BY <1>5 DEF Hidden, R, p
    <2>1. CASE \A v \in json_get(r, p) : v.type # "array"
      <3>1. json_get(r, q) = {}
        BY <1>5, <2>1 DEF Hidden, p
      <3> QED
        BY <1>1, <3>1 DEF Changed
    <2>2. CASE \E v \in json_get(r, p) : v.type = "array"
      <3>1. CASE json_get(R, p) = {}
        BY <1>2, <3>1 DEF Further
      <3>2. ASSUME NEW y \in M, json_get(R, p) = {y} PROVE json_get(R, q) = {}
        BY <1>2, <1>3, <3>2 DEF Further
      <3> QED
        BY <1>1, <2>2, <3>1, <3>2 DEF Changed
    <2> QED
      BY <2>1, <2>2
  <1>6. CASE f.action \notin {"redact", "replace", "remove"}
    BY <1>6 DEF Hidden
  <1> QED
    BY <1>4, <1>5, <1>6

\* Paths that are apart from a filter's field lead to what they led to before it.
LEMMA FilterElsewhere ==
    ASSUME NEW r, NEW f \in FilterEntries, NEW q \in Seq(STRING), Apart(q, f.field)
    PROVE  json_get(Filtered(r, f), q) = json_get(r, q)
  <1> DEFINE R == Filtered(r, f)
             l == f.field
             m == Len(q)
             k == Len(l)
             p == Front(l)
  <1>0. /\ m \in Nat /\ DOMAIN q = 1..m /\ m \in 0..m
        /\ k \in Nat /\ k # 0 /\ DOMAIN l = 1..k /\ Len(p) = k - 1 /\ Last(l) = l[k]
        /\ \A i \in 1..(k - 1) : p[i] = l[i]
    BY FieldFacts
  <1>1. \A s, t : Alike(s, t) <=> Alike(t, s)
    BY DEF Alike
  <1>2. ~(m <= k /\ Together(l, q, m)) /\ ~(k <= m /\ Together(l, q, k))
    BY <1>0, <1>1 DEF Apart, OnTheWay, Together
  <1> HIDE DEF l, m, k, p
  <1>3. CASE R = r
    BY <1>3
  <1>4. CASE Overwrites(r, f, R)
    <2>1. PICK t \in {Redacted, Replacement(f)} : R = json_set(r, l, Text(t))
      BY <1>4 DEF Overwrites, l
    <2> DEFINE new == Text(t)
               W == Walk(r, q)
               V == Walk(json_set(r, l, new), q)
    <2>2. json_get(r, l) # {} /\ Len(l) \in Nat
      BY <1>0, <1>4 DEF Overwrites, l, k
    <2>3. Shrinks(At(r, l, Len(l)), new)
      BY BelowText DEF Shrinks
    <2> HIDE DEF new
    <2>4. \A i \in 0..Len(q) :
             \/ V[i] = W[i]
             \/ i <= Len(l) /\ Together(l, q, i) /\ W[i] = {At(r, l, i)} /\ V[i] = {Rebuild(r, l, new)[i]}
             \/ /\ i > Len(l) /\ Together(l, q, Len(l)) /\ V[i] = {}
                /\ Child(new, q[Len(l) + 1]) # Child(At(r, l, Len(l)), q[Len(l) + 1])
      BY <2>2, <2>3, SetElsewhere
    <2> HIDE DEF W, V
    <2>5. V[m] = W[m]
      BY <1>0, <1>2, <2>4 DEF m, k
    <2> QED
      BY <2>1, <2>5 DEF json_get, m, new, W, V
  <1>5. CASE Removes(r, f, R)
    <2> DEFINE n == Len(p)
               old == At(r, p, n)
               new == Without(old, Last(l))
               W == Walk(r, q)
               V == Walk(json_set(r, p, new), q)
    <2>1. json_get(r, p) # {} /\ old.type = "object" /\ R = json_set(r, p, new)
      BY <1>5 DEF Removes, p, l
    <2>2. Len(p) \in Nat /\ n = k - 1 /\ n \in Nat
      BY <1>0
    <2>3. Shrinks(old, new) /\ \A s : s # Last(l) => Child(new, s) = Child(old, s)
      BY <2>1, BelowWithout DEF Shrinks
    <2> HIDE DEF new
    <2>4. \A i \in 0..Len(q) :
             \/ V[i] = W[i]
             \/ i <= n /\ Together(p, q, i) /\ W[i] = {At(r, p, i)} /\ V[i] = {Rebuild(r, p, new)[i]}
             \/ /\ i > n /\ Together(p, q, n) /\ V[i] = {}
                /\ Child(new, q[n + 1]) # Child(old, q[n + 1])
      BY <2>1, <2>2, <2>3, SetElsewhere, SMTT(30)
    <2> HIDE DEF W, V, n, old
    <2>5. CASE V[m] = W[m]
      BY <2>1, <2>5 DEF json_get, m, W, V
    <2>6. CASE m <= n /\ Together(p, q, m)
      <3>1. m <= k
        BY <1>0, <2>2, <2>6
      <3>2. \A i \in 1..m : i \in 1..(k - 1)
        BY <1>0, <2>2, <2>6
      <3>3. Together(l, q, m)
        BY <1>0, <2>6, <3>2 DEF Together
      <3> QED
        BY <1>2, <3>1, <3>3
    <2>7. CASE m > n /\ Together(p, q, n) /\ Child(new, q[n + 1]) # Child(old, q[n + 1])
      <3>1. k <= m /\ n + 1 = k /\ (\A i \in 1..k : i = k \/ (i \in 1..n /\ i \in 1..(k - 1)))
        BY <1>0, <2>2, <2>7
      <3>2. q[k] = l[k]
        BY <1>0, <2>3, <2>7, <3>1
      <3>3. Together(l, q, k)
        <4>1. ASSUME NEW i \in 1..k PROVE Alike(l[i], q[i])
          <5>1. CASE i = k
            BY <3>2, <5>1 DEF Alike
          <5>2. CASE i \in 1..n /\ i \in 1..(k - 1)
            BY <1>0, <2>7, <5>2 DEF Together
          <5> QED
            BY <3>1, <5>1, <5>2
        <4> QED
          BY <4>1 DEF Together
      <3> QED
        BY <1>2, <3>1, <3>3
    <2>8. m \in 0..Len(q)
      BY <1>0 DEF m
    <2> QED
      BY <2>4, <2>5, <2>6, <2>7, <2>8
  <1> QED
    BY <1>3, <1>4, <1>5, FilterIs

----------------------------------------------------------------------------
(* The filters of all the rules that match, one after the other.            *)

LEMMA RangeConcat ==
    ASSUME NEW S, NEW s \in Seq(S), NEW t \in Seq(S)
    PROVE  s \o t \in Seq(S) /\ Range(s \o t) = Range(s) \cup Range(t)
  <1> DEFINE c == s \o t
             m == Len(s)
             n == Len(t)
  <1>1. /\ m \in Nat /\ n \in Nat /\ DOMAIN s = 1..m /\ DOMAIN t = 1..n
        /\ c \in Seq(S) /\ DOMAIN c = 1..(m + n)
        /\ \A i \in 1..(m + n) : c[i] = IF i <= m THEN s[i] ELSE t[i - m]
    OBVIOUS
  <1> HIDE DEF c, m, n
  <1>2. ASSUME NEW x \in Range(c) PROVE x \in Range(s) \cup Range(t)
    <2>1. PICK i \in 1..(m + n) : x = c[i]
      BY <1>1 DEF Range
    <2>2. CASE i <= m
      <3>1. i \in 1..m /\ x = s[i]
        BY <1>1, <2>1, <2>2
      <3> QED
        BY <1>1, <3>1 DEF Range
    <2>3. CASE ~(i <= m)
      <3>1. i - m \in 1..n /\ x = t[i - m]
        BY <1>1, <2>1, <2>3
      <3> QED
        BY <1>1, <3>1, Zenon DEF Range
    <2> QED
      BY <2>2, <2>3
  <1>3. ASSUME NEW x \in Range(s) PROVE x \in Range(c)
    <2>1. PICK i \in 1..m : x = s[i]
      BY <1>1 DEF Range
    <2>2. i \in 1..(m + n) /\ i <= m
      BY <1>1
    <2> QED
      BY <1>1, <2>1, <2>2 DEF Range
  <1>4. ASSUME NEW x \in Range(t) PROVE x \in Range(c)
    <2>1. PICK i \in 1..n : x = t[i]
      BY <1>1 DEF Range
    <2> DEFINE e == i + m
    <2>2. e \in 1..(m + n) /\ ~(e <= m) /\ e - m = i
      BY <1>1
    <2> HIDE DEF e
    <2>3. c[e] = t[e - m]
      BY <1>1, <2>2
    <2> QED
      BY <1>1, <2>1, <2>2, <2>3 DEF Range
  <1> QED
    BY <1>1, <1>2, <1>3, <1>4 DEF c

\* Flattening keeps the elements.
LEMMA FlattenIs ==
    ASSUME NEW S, NEW seqs \in Seq(Seq(S))
    PROVE  /\ FlattenSeq(seqs) \in Seq(S)
           /\ Range(FlattenSeq(seqs)) = UNION {Range(seqs[i]) : i \in DOMAIN seqs}
  <1> DEFINE n == Len(seqs)
             g == CHOOSE g2 : AreFlat(seqs, n, g2)
             Upto(i) == UNION {Range(seqs[j]) : j \in 1..i}
             Good == {i \in Nat : i + 1 <= n => g[i + 1] \in Seq(S) /\ Range(g[i + 1]) = Upto(i + 1)}
  <1>0. n \in Nat /\ DOMAIN seqs = 1..n /\ \A i \in 1..n : seqs[i] \in Seq(S)
    OBVIOUS
  <1>1. FlattenSeq(seqs) = IF n = 0 THEN seqs ELSE g[n]
    BY Zenon DEF FlattenSeq, AreFlat
  <1> HIDE DEF n
  <1>2. AreFlat(seqs, n, g)
    BY <1>0, FlatExists
  <1> HIDE DEF g
  <1>3. \A i \in 1..n : g[i] = IF i = 1 THEN seqs[i] ELSE g[i - 1] \o seqs[i]
    <2>1. g = [i \in 1..n |-> IF i = 1 THEN seqs[i] ELSE g[i - 1] \o seqs[i]]
      BY <1>2, Zenon DEF AreFlat
    <2> QED
      BY <2>1, Zenon
  <1>4. 0 \in Good
    <2> SUFFICES ASSUME 1 <= n PROVE g[1] \in Seq(S) /\ Range(g[1]) = Upto(1)
      OBVIOUS
    <2>1. 1 \in 1..n
      BY <1>0
    <2>2. g[1] = seqs[1]
      BY <1>3, <2>1
    <2>3. 1..1 = {1}
      OBVIOUS
    <2> QED
      BY <1>0, <2>1, <2>2, <2>3
  <1>5. ASSUME NEW i \in Nat, i \in Good PROVE i + 1 \in Good
    <2> SUFFICES ASSUME i + 1 + 1 <= n
                 PROVE  g[i + 1 + 1] \in Seq(S) /\ Range(g[i + 1 + 1]) = Upto(i + 1 + 1)
      OBVIOUS
    <2> DEFINE k == i + 1
    <2>1. /\ k \in Nat /\ k + 1 \in 1..n /\ k + 1 # 1 /\ k + 1 - 1 = k
          /\ 1..(k + 1) = (1..k) \cup {k + 1}
      BY <1>0
    <2>2. g[k] \in Seq(S) /\ Range(g[k]) = Upto(k)
      BY <1>0, <1>5
    <2> HIDE DEF k
    <2>3. g[k + 1] = g[k] \o seqs[k + 1] /\ seqs[k + 1] \in Seq(S)
      <3> DEFINE e == k + 1
      <3>1. e \in 1..n /\ e # 1 /\ e - 1 = k
        BY <2>1
      <3> HIDE DEF e
      <3>2. g[e] = g[e - 1] \o seqs[e]
        BY <1>3, <3>1, Zenon
      <3>3. g[e] = g[k] \o seqs[e] /\ seqs[e] \in Seq(S)
        BY <1>0, <3>1, <3>2
      <3> QED
        BY <3>3 DEF e
    <2>4. g[k + 1] \in Seq(S) /\ Range(g[k + 1]) = Range(g[k]) \cup Range(seqs[k + 1])
      BY <2>2, <2>3, RangeConcat
    <2>5. Upto(k + 1) = Upto(k) \cup Range(seqs[k + 1])
      BY <2>1
    <2> HIDE DEF Upto
    <2> QED
      BY <2>2, <2>4, <2>5 DEF k
  <1>6. Nat \subseteq Good
    <2> HIDE DEF Good
    <2> QED
      BY <1>4, <1>5, NumbersByInduction
  <1>7. CASE n = 0
    <2>1. DOMAIN seqs = {} /\ FlattenSeq(seqs) = seqs
      BY <1>0, <1>1, <1>7
    <2>2. seqs \in Seq(S)
      BY <1>0, <1>7, <2>1
    <2> QED
      BY <2>1, <2>2 DEF Range
  <1>8. CASE n # 0
    <2>1. n - 1 \in Nat /\ n - 1 + 1 = n /\ n <= n
      BY <1>0, <1>8
    <2>2. g[n] \in Seq(S) /\ Range(g[n]) = Upto(n)
      BY <1>6, <2>1
    <2> QED
      BY <1>0, <1>1, <1>8, <2>2
  <1> QED
    BY <1>7, <1>8

----------------------------------------------------------------------------
(* The response, filter by filter.                                          *)

FiltersTyped ==
    \A a \in DOMAIN file : Rule(a).filters # None => Rule(a).filters \in Seq(FilterEntries)

Unnamed(q) == \A f \in Owed : Apart(q, f.field)

\* While the filters are applied, what those before have named is hidden already.
FilterInv ==
    /\ FiltersTyped
    /\ pc \in {"filtering", "filtered"} =>
          /\ filters \in Seq(Owed)
          /\ \A f \in Owed : f \in Range(filters) \/ Hidden(Masks, doc, f)
          /\ \A q \in Paths : Unnamed(q) => json_get(doc, q) = json_get(original, q)
    /\ pc = "filtered" => filters = <<>>
    /\ pc = "answered" => doc = original

LEMMA OwedSteady ==
    UNCHANGED <<file, ctx>> =>
        /\ Owed' = Owed /\ Masks' = Masks /\ FiltersTyped' = FiltersTyped
        /\ \A q : Unnamed(q)' = Unnamed(q)
  <1> SUFFICES ASSUME UNCHANGED <<file, ctx>>
               PROVE  /\ Owed' = Owed /\ Masks' = Masks /\ FiltersTyped' = FiltersTyped
                      /\ \A q : Unnamed(q)' = Unnamed(q)
    OBVIOUS
  <1>1. Owed' = Owed
    BY DEF Owed, Fires, Rule
  <1>2. FiltersTyped' = FiltersTyped
    BY DEF FiltersTyped, Rule
  <1>3. Masks' = Masks
    BY <1>1 DEF Masks
  <1>4. \A q : Unnamed(q)' = Unnamed(q)
    BY <1>1 DEF Unnamed
  <1> QED
    BY <1>1, <1>2, <1>3, <1>4

LEMMA OwedTyped == FiltersTyped => Owed \subseteq FilterEntries
  <1> SUFFICES ASSUME FiltersTyped, NEW f \in Owed PROVE f \in FilterEntries
    OBVIOUS
  <1>1. PICK a \in DOMAIN file : Rule(a).filters # None /\ f \in Range(Rule(a).filters)
    BY DEF Owed
  <1>2. Rule(a).filters \in Seq(FilterEntries)
    BY <1>1 DEF FiltersTyped
  <1> QED
    BY <1>1, <1>2 DEF Range

LEMMA MasksAreTexts == Texts(Masks) /\ \A f \in Owed : MasksOf(f) \subseteq Masks
  BY DEF Texts, Masks, MasksOf

\* collect_response_filters collects what the matching rules have, and nothing else.
LEMMA CollectedIs ==
    Inv /\ FiltersTyped /\ Ready => Collected \in Seq(Owed) /\ Range(Collected) = Owed
  <1> SUFFICES ASSUME Inv, FiltersTyped, Ready
               PROVE  Collected \in Seq(Owed) /\ Range(Collected) = Owed
    OBVIOUS
  <1> DEFINE Part(a) == IF Fires(Rule(a)) /\ Rule(a).filters # None THEN Rule(a).filters ELSE <<>>
             seqs == [i \in DOMAIN order |-> Part(order[i])]
  <1>1. PICK n \in Nat : DOMAIN file = 1..n
    BY DEF Inv, FileTyped
  <1>2. /\ DOMAIN order = 1..n /\ \A i \in 1..n : order[i] \in DOMAIN file
        /\ \A a \in DOMAIN file : \E i \in 1..n : order[i] = a
    BY <1>1 DEF Inv, LoadedInv
  <1>3. ASSUME NEW a \in DOMAIN file PROVE Part(a) \in Seq(Owed)
    <2>1. CASE Fires(Rule(a)) /\ Rule(a).filters # None
      <3>1. Rule(a).filters \in Seq(FilterEntries) /\ Range(Rule(a).filters) \subseteq Owed
        BY <2>1 DEF FiltersTyped, Owed
      <3> QED
        BY <2>1, <3>1 DEF Range
    <2>2. CASE ~(Fires(Rule(a)) /\ Rule(a).filters # None)
      BY <2>2
    <2> QED
      BY <2>1, <2>2
  <1>4. Owed = UNION {Range(Part(a)) : a \in DOMAIN file}
    <2>1. Range(<<>>) = {}
      BY DEF Range
    <2> QED
      BY <2>1 DEF Owed
  <1>5. Collected = FlattenSeq(seqs)
    BY DEF Collected
  <1> HIDE DEF Part
  <1>6. seqs \in Seq(Seq(Owed)) /\ DOMAIN seqs = 1..n /\ \A i \in 1..n : seqs[i] = Part(order[i])
    BY <1>2, <1>3
  <1> HIDE DEF seqs
  <1>7. /\ FlattenSeq(seqs) \in Seq(Owed)
        /\ Range(FlattenSeq(seqs)) = UNION {Range(seqs[i]) : i \in DOMAIN seqs}
    BY <1>6, FlattenIs
  <1>8. UNION {Range(seqs[i]) : i \in DOMAIN seqs} = UNION {Range(Part(a)) : a \in DOMAIN file}
    BY <1>2, <1>6, ZenonT(30)
  <1> QED
    BY <1>4, <1>5, <1>7, <1>8

LEMMA FilterInvNext == Inv /\ FilterInv /\ [Next]_vars => FilterInv'
  <1> SUFFICES ASSUME Inv, FilterInv, [Next]_vars PROVE FilterInv'
    OBVIOUS
  <1>0. UNCHANGED <<file, ctx>>
    BY DEF Next, vars, ruleVars, Load, PassOver, Refuse, Allow, Ask, Default, Respond, ApplyFilter,
           Answer, Decide
  <1>1. /\ Owed' = Owed /\ Masks' = Masks /\ FiltersTyped' = FiltersTyped
        /\ \A q : Unnamed(q)' = Unnamed(q)
    BY <1>0, OwedSteady
  <1>2. FiltersTyped
    BY DEF FilterInv
  <1>3. CASE UNCHANGED vars
    BY <1>1, <1>3 DEF FilterInv, vars, docVars
  <1>4. CASE pc' \in {"evaluating", "rejected", "allowed", "denied"}
    BY <1>1, <1>2, <1>4 DEF FilterInv
  <1>5. CASE Load \/ PassOver \/ Refuse \/ Allow \/ Ask \/ Default
    <2>1. pc' \in {"evaluating", "rejected", "allowed", "denied"}
      BY <1>5 DEF Load, PassOver, Refuse, Allow, Ask, Default, Decide, Evaluating
    <2> QED
      BY <1>4, <2>1
  <1>6. CASE Respond
    <2>0. pc = "allowed" /\ doc' = original' /\ order' = order
      BY <1>6 DEF Respond, ruleVars
    <2>1. CASE filters' = <<>> /\ pc' = "answered"
      BY <1>1, <1>2, <2>0, <2>1 DEF FilterInv
    <2>2. CASE filters' = Collected /\ pc' = "filtering"
      <3>1. Collected \in Seq(Owed) /\ Range(Collected) = Owed
        BY <1>2, <2>0, CollectedIs DEF Ready
      <3> QED
        BY <1>1, <1>2, <2>0, <2>2, <3>1 DEF FilterInv
    <2> QED
      BY <1>6, <2>1, <2>2 DEF Respond
  <1>7. CASE ApplyFilter
    <2> DEFINE g == Head(filters)
    <2>0. /\ pc = "filtering" /\ pc' = pc /\ filters # <<>> /\ doc' = Filtered(doc, g)
          /\ filters' = Tail(filters) /\ original' = original
          /\ filters \in Seq(Owed)
      BY <1>7 DEF ApplyFilter, FilterInv
    <2>1. g \in Owed /\ filters' \in Seq(Owed) /\ Range(filters) \subseteq {g} \cup Range(filters')
      <3>1. /\ g = filters[1] /\ Len(filters) \in Nat /\ Len(filters) # 0
            /\ DOMAIN filters = 1..Len(filters)
            /\ Tail(filters) \in Seq(Owed) /\ DOMAIN Tail(filters) = 1..(Len(filters) - 1)
            /\ \A i \in 1..(Len(filters) - 1) : Tail(filters)[i] = filters[i + 1]
        BY <2>0
      <3>2. ASSUME NEW x \in Range(filters), x # g PROVE x \in Range(Tail(filters))
        <4>1. PICK i \in 1..Len(filters) : x = filters[i]
          BY <3>1 DEF Range
        <4>2. i # 1
          BY <3>1, <3>2, <4>1
        <4> DEFINE j == i - 1
        <4>3. j \in 1..(Len(filters) - 1) /\ j + 1 = i
          BY <3>1, <4>2
        <4> HIDE DEF j
        <4>4. Tail(filters)[j] = x
          BY <3>1, <4>1, <4>3
        <4> QED
          BY <3>1, <4>3, <4>4 DEF Range
      <3>3. g \in Owed
        BY <2>0, <3>1
      <3> QED
        BY <2>0, <3>1, <3>2, <3>3
    <2>2. Owed \subseteq FilterEntries /\ Texts(Masks) /\ \A f \in Owed : MasksOf(f) \subseteq Masks
      BY <1>2, OwedTyped, MasksAreTexts
    <2> HIDE DEF g
    <2>3. ASSUME NEW f \in Owed, f \notin Range(filters') PROVE Hidden(Masks, Filtered(doc, g), f)
      <3>1. CASE f = g
        BY <2>1, <2>2, <3>1, FilterHides
      <3>2. CASE f # g
        <4>1. Hidden(Masks, doc, f)
          BY <2>0, <2>1, <2>3, <3>2 DEF FilterInv
        <4> QED
          BY <2>1, <2>2, <4>1, HiddenStays
      <3> QED
        BY <3>1, <3>2
    <2>4. ASSUME NEW q \in Paths, Unnamed(q)
          PROVE  json_get(Filtered(doc, g), q) = json_get(original, q)
      <3>1. json_get(doc, q) = json_get(original, q)
        BY <2>0, <2>4 DEF FilterInv
      <3>2. q \in Seq(STRING) /\ g \in FilterEntries /\ Apart(q, g.field)
        BY <2>1, <2>2, <2>4, PathsAssumption DEF Unnamed
      <3>3. json_get(Filtered(doc, g), q) = json_get(doc, q)
        BY <3>2, FilterElsewhere
      <3> QED
        BY <3>1, <3>3
    <2>5. FiltersTyped' /\ pc' = "filtering"
      BY <1>1, <1>2, <2>0
    <2> QED
      BY <1>1, <2>0, <2>1, <2>3, <2>4, <2>5 DEF FilterInv
  <1>8. CASE Answer
    BY <1>1, <1>2, <1>8 DEF FilterInv, Answer, docVars
  <1> QED
    BY <1>3, <1>5, <1>6, <1>7, <1>8 DEF Next

LEMMA FilterInvInit == Init => FilterInv
  BY FilesAssumption DEF Init, FilterInv, FiltersTyped, Rule

LEMMA FilterInvariant == Spec => []FilterInv
  <1>1. Spec => []Inv
    BY InvInit, InvNext, PTL DEF Spec
  <1> QED
    BY <1>1, FilterInvInit, FilterInvNext, PTL DEF Spec

\* In a filtered response nothing shows that a filter of a matching rule names, for
\* any number of rules and filters whose paths overlap, nest or spell the same array
\* index in different ways, and documents of any shape.
THEOREM FiltersHideWhatTheyName == Spec => []NamedFieldsHidden
  <1>1. FilterInv => NamedFieldsHidden
    <2> SUFFICES ASSUME FilterInv, pc = "filtered", NEW f \in Owed PROVE Hidden(Masks, doc, f)
      BY DEF NamedFieldsHidden, Hidden
    <2>1. filters = <<>> /\ (f \in Range(filters) \/ Hidden(Masks, doc, f))
      BY DEF FilterInv
    <2>2. Range(<<>>) = {}
      BY DEF Range
    <2> QED
      BY <2>1, <2>2
  <1> QED
    BY <1>1, FilterInvariant, PTL

\* And what no filter names is what Docker sent: an assignment through json_get_mut
\* changes what its path leads to and nothing beside it.
THEOREM FiltersTouchNothingElse == Spec => []OthersUntouched
  <1>1. FilterInv => OthersUntouched
    BY DEF FilterInv, OthersUntouched, Unnamed
  <1> QED
    BY <1>1, FilterInvariant, PTL
----------------------------------------------------------------------------
(* Single conditions.                                                       *)

\* The two of a pair of conditions that differ in their operators.
Opposite(c, d) ==
    /\ c.operator \in DOMAIN Negation /\ d.operator = Negation[c.operator]
    /\ d.field = c.field /\ d.name = c.name /\ d.value = c.value

LEMMA OppositeOperators ==
    ASSUME NEW c, NEW d, Opposite(c, d)
    PROVE  \/ c.operator = "equals"   /\ d.operator = "not_equals"
           \/ c.operator = "contains" /\ d.operator = "not_contains"
           \/ c.operator = "matches"  /\ d.operator = "not_matches"
           \/ c.operator = "in"       /\ d.operator = "not_in"
           \/ c.operator = "exists"   /\ d.operator = "not_exists"
  BY DEF Opposite, Negation

\* Of a text one of the two holds.
LEMMA CompareOpposite ==
    ASSUME NEW c, NEW d, Opposite(c, d), c.operator # "exists", NEW s, NEW caseless
    PROVE  Compare(c, s, caseless) \in BOOLEAN /\ Compare(d, s, caseless) = ~Compare(c, s, caseless)
  <1>1. d.value = c.value
    BY DEF Opposite
  <1>2. CASE c.operator = "equals" /\ d.operator = "not_equals"
    BY <1>1, <1>2, Zenon DEF Compare
  <1>3. CASE c.operator = "contains" /\ d.operator = "not_contains"
    BY <1>1, <1>3, Zenon DEF Compare
  <1>4. CASE c.operator = "matches" /\ d.operator = "not_matches"
    BY <1>1, <1>4, Zenon DEF Compare
  <1>5. CASE c.operator = "in" /\ d.operator = "not_in"
    BY <1>1, <1>5, Zenon DEF Compare
  <1> QED
    BY <1>2, <1>3, <1>4, <1>5, OppositeOperators

\* And of a field of the body.
LEMMA CompareFieldOpposite ==
    ASSUME NEW c, NEW d, Opposite(c, d), c.operator \notin {"exists", "matches"}, NEW json
    PROVE  CompareField(c, json) \in BOOLEAN /\ CompareField(d, json) = ~CompareField(c, json)
  <1>1. d.value = c.value
    BY DEF Opposite
  <1>2. CASE c.operator = "equals" /\ d.operator = "not_equals"
    BY <1>1, <1>2, Zenon DEF CompareField
  <1>3. CASE c.operator = "contains" /\ d.operator = "not_contains"
    BY <1>1, <1>3, Zenon DEF CompareField
  <1>4. CASE c.operator = "in" /\ d.operator = "not_in"
    BY <1>1, <1>4, Zenon DEF CompareField
  <1> QED
    BY <1>2, <1>3, <1>4, OppositeOperators

LEMMA HeaderOpposite ==
    ASSUME NEW c, NEW d, Opposite(c, d), c.operator # "matches", NEW headers, NEW name
    PROVE  match_header_condition(d, headers, name) = ~match_header_condition(c, headers, name)
  <1> DEFINE present == Named(headers, name)
  <1>1. CASE c.operator = "exists" /\ d.operator = "not_exists"
    BY <1>1, Zenon DEF match_header_condition
  <1>2. CASE c.operator # "exists"
    <2>1. \A s : Compare(c, s, FALSE) \in BOOLEAN /\ Compare(d, s, FALSE) = ~Compare(c, s, FALSE)
      BY <1>2, CompareOpposite
    <2>2. /\ c.operator \in {"equals", "contains", "in"}
          /\ d.operator \in {"not_equals", "not_contains", "not_in"}
      BY <1>2, OppositeOperators
    <2>3. match_header_condition(c, headers, name) = \E s \in present : Compare(c, s, FALSE)
      BY <2>2, Zenon DEF match_header_condition
    <2>4. match_header_condition(d, headers, name) = \A s \in present : Compare(d, s, FALSE)
      BY <2>2, Zenon DEF match_header_condition
    <2> QED
      BY <2>1, <2>3, <2>4, Zenon
  <1> QED
    BY <1>1, <1>2, OppositeOperators

LEMMA AddressOpposite ==
    ASSUME NEW c, NEW d, Opposite(c, d), c.operator \in {"equals", "in"}, NEW ip
    PROVE  match_ip_condition(d, ip) = ~match_ip_condition(c, ip)
  <1>1. d.value = c.value
    BY DEF Opposite
  <1>2. CASE c.operator = "equals" /\ d.operator = "not_equals"
    <2>1. Compare(c, ip, FALSE) \in BOOLEAN /\ Compare(d, ip, FALSE) = ~Compare(c, ip, FALSE)
      BY <1>2, CompareOpposite
    <2>2. match_ip_condition(c, ip) = Compare(c, ip, FALSE)
      BY <1>2, Zenon DEF match_ip_condition
    <2>3. match_ip_condition(d, ip) = Compare(d, ip, FALSE)
      BY <1>2, Zenon DEF match_ip_condition
    <2> QED
      BY <2>1, <2>2, <2>3
  <1>3. CASE c.operator = "in" /\ d.operator = "not_in"
    <2>1. d.operator = "not_in" /\ c.operator = "in" /\ d.operator # "in"
      BY <1>3
    <2> DEFINE entries == IF c.value.type = "array" THEN Listed(c.value) ELSE AsText(c.value)
               nets == {IpNets[e] : e \in entries \cap DOMAIN IpNets}
               within == IF nets = {} THEN ip \in entries ELSE \E net \in nets : ip \in net
    <2>2. match_ip_condition(c, ip) = within
      BY <2>1, Zenon DEF match_ip_condition
    <2>3. match_ip_condition(d, ip) = ~within
      BY <1>1, <2>1 DEF match_ip_condition
    <2> HIDE DEF within
    <2> QED
      BY <2>2, <2>3
  <1> QED
    BY <1>2, <1>3, OppositeOperators

AtMostOne(body) == \A b, d \in body : b = d

\* The part of the body that a path leads to: at most one value.
LEMMA BodyField ==
    ASSUME NEW body, AtMostOne(body), NEW path, Len(path) \in Nat
    PROVE  AtMostOne(UNION {json_get(b, path) : b \in body})
  <1> SUFFICES ASSUME NEW b \in body, NEW v \in json_get(b, path), NEW w \in json_get(b, path)
               PROVE  v = w
    BY DEF AtMostOne
  <1>1. Len(path) \in 0..Len(path)
    OBVIOUS
  <1> QED
    BY <1>1, OneFound, Zenon DEF json_get

Holds(body, path) == \E b \in body : json_get(b, path) # {}

LEMMA BodyOpposite ==
    ASSUME NEW c, NEW d, Opposite(c, d), NEW body, AtMostOne(body), NEW path, Len(path) \in Nat,
           c.operator = "exists" \/ (c.operator # "matches" /\ Holds(body, path))
    PROVE  match_body_condition(d, body, path) = ~match_body_condition(c, body, path)
  <1> DEFINE found == UNION {json_get(b, path) : b \in body}
  <1>1. CASE c.operator = "exists" /\ d.operator = "not_exists"
    BY <1>1, Zenon DEF match_body_condition
  <1>2. CASE c.operator # "exists"
    <2>1. \A json : /\ CompareField(c, json) \in BOOLEAN
                    /\ CompareField(d, json) = ~CompareField(c, json)
      BY <1>2, CompareFieldOpposite
    <2>2. /\ c.operator \in {"equals", "contains", "in"}
          /\ d.operator \in {"not_equals", "not_contains", "not_in"}
      BY <1>2, OppositeOperators
    <2>3. match_body_condition(c, body, path) = \E json \in found : CompareField(c, json)
      BY <2>2, Zenon DEF match_body_condition
    <2>4. match_body_condition(d, body, path) = \E json \in found : CompareField(d, json)
      BY <2>2, Zenon DEF match_body_condition
    <2>5. \A v, w \in found : v = w
      BY BodyField DEF AtMostOne
    <2>6. PICK v : v \in found
      BY <1>2 DEF Holds
    <2> HIDE DEF found
    <2> QED
      BY <2>1, <2>3, <2>4, <2>5, <2>6, Zenon
  <1> QED
    BY <1>1, <1>2, OppositeOperators

\* The request and its conditions have the types they had at the start.
ConditionInv ==
    /\ AtMostOne(ctx.body)
    /\ \A c \in Tested : /\ DOMAIN c = {"field", "name", "operator", "value"}
                         /\ c.field = "body" => c.name \in Seq(STRING)

LEMMA ConditionInvInit == Init => ConditionInv
  <1> SUFFICES ASSUME Init PROVE ConditionInv
    OBVIOUS
  <1>1. PICK case \in Cases :
            /\ file = case[1]
            /\ ctx = [case[2] EXCEPT !.body = IF case[2].upgrade THEN {} ELSE @]
    BY DEF Init
  <1>2. "body" \in DOMAIN case[2] /\ \A b, d \in case[2].body : b = d
    BY ConditionsAssumption
  <1>3. ctx.body = IF case[2].upgrade THEN {} ELSE case[2].body
    BY <1>1, <1>2
  <1>4. ASSUME NEW c \in Tested
        PROVE  /\ DOMAIN c = {"field", "name", "operator", "value"}
               /\ c.field = "body" => c.name \in Seq(STRING)
    <2>1. PICK a \in DOMAIN case[1] :
              \E node \in Range(Prepare(case[1][a]).conditions) :
                  node.node = "leaf" /\ c = node.condition
      BY <1>1, <1>4 DEF Tested, Rule
    <2> QED
      BY <2>1, ConditionsAssumption, Zenon
  <1> QED
    BY <1>2, <1>3, <1>4 DEF ConditionInv, AtMostOne

LEMMA ConditionInvNext == ConditionInv /\ [Next]_vars => ConditionInv'
  <1> SUFFICES ASSUME ConditionInv, [Next]_vars PROVE ConditionInv'
    OBVIOUS
  <1>1. file' = file /\ ctx' = ctx
    BY DEF Next, vars, ruleVars, Load, PassOver, Refuse, Allow, Ask, Default, Decide,
           Respond, ApplyFilter, Answer
  <1>2. Tested' = Tested
    BY <1>1 DEF Tested, Rule
  <1> QED
    BY <1>1, <1>2 DEF ConditionInv

LEMMA ConditionInvariant == Spec => []ConditionInv
  BY ConditionInvInit, ConditionInvNext, PTL DEF Spec

\* For any conditions, values and requests: wherever the code has a pair of an operator
\* and its negation, exactly one of them holds.
THEOREM NegationsAreComplements == Spec => []NegationsComplement
  <1>1. ConditionInv => NegationsComplement
    <2> SUFFICES ASSUME ConditionInv, NEW c \in Tested, NEW op \in DOMAIN Negation
                 PROVE  LET With(operator) == evaluate_condition([c EXCEPT !.operator = operator], ctx)
                            both == CASE c.field \in {"method", "client_ip"} -> op \in {"equals", "in"}
                                      [] c.field = "path" ->
                                             /\ op # "exists"
                                             /\ op = "matches" => c.operator \in {op, Negation[op]}
                                      [] c.field = "header" -> op # "matches"
                                      [] c.field = "body"   -> op = "exists" \/ (op # "matches" /\ Found(c))
                                      [] OTHER -> FALSE
                        IN both => With(Negation[op]) = ~With(op)
      BY DEF NegationsComplement
    <2> DEFINE p == [c EXCEPT !.operator = op]
               n == [c EXCEPT !.operator = Negation[op]]
    <2>1. /\ p.operator = op /\ n.operator = Negation[op]
          /\ p.field = c.field /\ p.name = c.name /\ p.value = c.value
          /\ n.field = c.field /\ n.name = c.name /\ n.value = c.value
      BY DEF ConditionInv
    <2>2. Opposite(p, n)
      BY <2>1 DEF Opposite
    <2> HIDE DEF p, n
    <2>3. CASE c.field = "method"
      <3> SUFFICES ASSUME op \in {"equals", "in"}
                   PROVE  evaluate_condition(n, ctx) = ~evaluate_condition(p, ctx)
        BY <2>3 DEF p, n
      <3>1. p.operator \in {"equals", "in"} /\ n.operator \in {"not_equals", "not_in"}
        BY <2>1 DEF Negation
      <3>2. /\ Compare(p, ctx.method, TRUE) \in BOOLEAN
            /\ Compare(n, ctx.method, TRUE) = ~Compare(p, ctx.method, TRUE)
        BY <2>2, <3>1, CompareOpposite
      <3>3. /\ evaluate_condition(p, ctx) = match_method_condition(p, ctx.method)
            /\ evaluate_condition(n, ctx) = match_method_condition(n, ctx.method)
        BY <2>1, <2>3 DEF evaluate_condition
      <3> QED
        BY <3>1, <3>2, <3>3 DEF match_method_condition
    <2>4. CASE c.field = "client_ip"
      <3> SUFFICES ASSUME op \in {"equals", "in"}
                   PROVE  evaluate_condition(n, ctx) = ~evaluate_condition(p, ctx)
        BY <2>4 DEF p, n
      <3>1. match_ip_condition(n, ctx.client_ip) = ~match_ip_condition(p, ctx.client_ip)
        BY <2>1, <2>2, AddressOpposite
      <3>2. /\ evaluate_condition(p, ctx) = match_ip_condition(p, ctx.client_ip)
            /\ evaluate_condition(n, ctx) = match_ip_condition(n, ctx.client_ip)
        BY <2>1, <2>4 DEF evaluate_condition
      <3> QED
        BY <3>1, <3>2
    <2>5. CASE c.field = "path"
      <3> SUFFICES ASSUME op # "exists"
                   PROVE  evaluate_condition(n, ctx) = ~evaluate_condition(p, ctx)
        BY <2>5 DEF p, n
      <3>1. Compare(n, ctx.path, FALSE) = ~Compare(p, ctx.path, FALSE)
        BY <2>1, <2>2, CompareOpposite
      <3>2. /\ evaluate_condition(p, ctx) = Compare(p, ctx.path, FALSE)
            /\ evaluate_condition(n, ctx) = Compare(n, ctx.path, FALSE)
        BY <2>1, <2>5 DEF evaluate_condition, match_path_condition
      <3> QED
        BY <3>1, <3>2
    <2>6. CASE c.field = "header"
      <3> SUFFICES ASSUME op # "matches"
                   PROVE  evaluate_condition(n, ctx) = ~evaluate_condition(p, ctx)
        BY <2>6 DEF p, n
      <3>1. match_header_condition(n, ctx.headers, c.name) = ~match_header_condition(p, ctx.headers, c.name)
        BY <2>1, <2>2, HeaderOpposite
      <3>2. /\ evaluate_condition(p, ctx) = match_header_condition(p, ctx.headers, c.name)
            /\ evaluate_condition(n, ctx) = match_header_condition(n, ctx.headers, c.name)
        BY <2>1, <2>6 DEF evaluate_condition
      <3> QED
        BY <3>1, <3>2
    <2>7. CASE c.field = "body"
      <3> SUFFICES ASSUME op = "exists" \/ (op # "matches" /\ Found(c))
                   PROVE  evaluate_condition(n, ctx) = ~evaluate_condition(p, ctx)
        BY <2>7 DEF p, n
      <3>1. Len(c.name) \in Nat /\ AtMostOne(ctx.body)
        BY <2>7 DEF ConditionInv
      <3>2. match_body_condition(n, ctx.body, c.name) = ~match_body_condition(p, ctx.body, c.name)
        <4>1. p.operator = "exists" \/ (p.operator # "matches" /\ Holds(ctx.body, c.name))
          BY <2>1 DEF Found, Holds
        <4> QED
          BY <2>2, <3>1, <4>1, BodyOpposite, ZenonT(30)
      <3>3. /\ evaluate_condition(p, ctx) = match_body_condition(p, ctx.body, c.name)
            /\ evaluate_condition(n, ctx) = match_body_condition(n, ctx.body, c.name)
        BY <2>1, <2>7 DEF evaluate_condition
      <3> QED
        BY <3>2, <3>3
    <2> QED
      BY <2>3, <2>4, <2>5, <2>6, <2>7
  <1> QED
    BY <1>1, ConditionInvariant, PTL

=============================================================================
