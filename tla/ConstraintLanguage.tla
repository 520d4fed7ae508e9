------------------------ MODULE ConstraintLanguage ------------------------
(***************************************************************************)
(* The constraints of applications and clusters on labels and metrics      *)
(* (krake/data/constraints.py): the sentences that are accepted, the       *)
(* sentence a constraint is written as, when two constraints are equal,    *)
(* and what a constraint matches.                                          *)
(*                                                                         *)
(* A sentence is the sequence of its words, since the grammar ignores      *)
(* blanks.  Every word but the Symbols is a legal key and a legal value.   *)
(***************************************************************************)
EXTENDS Naturals, SequencesExt

LabelClasses == {"Equal", "NotEqual", "In", "NotIn"}
MetricClasses == {"EqualMetric", "NotEqualMetric", "GreaterThan", "GreaterThanOrEqual",
                  "LesserThan", "LesserThanOrEqual"}
Lists == {"In", "NotIn"}

\* A constraint: its class, the label or metric, the values; Lists may have several
Constraint(class, key, values) == [class |-> class, key |-> key, values |-> values]

\* The words that are no key and no value
Symbols == {"=", "==", "!=", "=>", "=<", ">=", "<=", "(", ")", ","}

-----------------------------------------------------------------------------
(* Sentences                                                               *)

\* The words __str__ puts between key and value
Wording(class) ==
    CASE class \in {"Equal", "EqualMetric"}       -> <<"is">>
      [] class \in {"NotEqual", "NotEqualMetric"} -> <<"is", "not">>
      [] class = "In"                             -> <<"in">>
      [] class = "NotIn"                          -> <<"not", "in">>
      [] class = "GreaterThan"                    -> <<"greater", "than">>
      [] class = "GreaterThanOrEqual"             -> <<"greater", "than", "or", "equal">>
      [] class = "LesserThan"                     -> <<"lesser", "than">>
      [] class = "LesserThanOrEqual"              -> <<"lesser", "than", "or", "equal">>

\* The words the grammar accepts there
Shorthands(class) ==
    CASE class \in {"Equal", "EqualMetric"}       -> {"==", "="}
      [] class \in {"NotEqual", "NotEqualMetric"} -> {"!="}
      [] class \in Lists                          -> {}
      [] class = "GreaterThan"                    -> {">", "gt"}
      [] class = "GreaterThanOrEqual"             -> {">=", "=>", "gte"}
      [] class = "LesserThan"                     -> {"<", "lt"}
      [] class = "LesserThanOrEqual"              -> {"<=", "=<", "lte"}
Operators(class) == {Wording(class)} \cup {<<s>> : s \in Shorthands(class)}

\* The values of a list: separated by commas, any number of commas at the end
Listed(words) ==
    LET inner == SubSeq(words, 2, Len(words) - 1)
        values == SelectSeq(inner, LAMBDA w : w \notin Symbols)
    IN  IF /\ Head(words) = "(" /\ Last(words) = ")"
           /\ \A i \in DOMAIN inner :
                inner[i] # "," <=> i % 2 = 1 /\ i < 2 * Len(values)
          THEN values ELSE <<>>

\* The values in the words after the operator; none is an error
ValuesIn(class, words) ==
    CASE class \in Lists /\ Len(words) > 2                      -> Listed(words)
      [] class \notin Lists /\ Len(words) = 1 /\ words[1] \notin Symbols -> words
      [] OTHER                                                  -> <<>>

Rest(sentence, op) == SubSeq(sentence, Len(op) + 2, Len(sentence))

\* parse: the constraints of some classes that a sentence stands for, none if it is
\* not accepted
Parse(classes, sentence) ==
    {Constraint(co[1], Head(sentence), ValuesIn(co[1], Rest(sentence, co[2]))) :
        co \in
            {p \in UNION {{class} \X Operators(class) : class \in classes} :
                /\ Head(sentence) \notin Symbols
                /\ IsPrefix(p[2], Tail(sentence))
                /\ ValuesIn(p[1], Rest(sentence, p[2])) # <<>>}}

\* The values with commas between them
Joined(values) ==
    [i \in 1..(2 * Len(values) - 1) |-> IF i % 2 = 1 THEN values[(i + 1) \div 2] ELSE ","]

\* Faulty variant of Str: the negation of a list is lost
StrPositive(c) ==
    IF c.class \in Lists THEN <<c.key, "in", "(">> \o Joined(c.values) \o <<")">>
    ELSE <<c.key>> \o Wording(c.class) \o c.values

\* __str__
Str(c) ==
    <<c.key>> \o Wording(c.class)
        \o (IF c.class \in Lists THEN <<"(">> \o Joined(c.values) \o <<")">> ELSE c.values)

-----------------------------------------------------------------------------
(* Equality                                                                *)

\* NotEqualConstraint is derived from EqualConstraint, NotInConstraint from InConstraint
Derived(class, base) == <<class, base>> \in {<<"NotEqual", "Equal">>, <<"NotIn", "In">>}
IsInstance(c, class) == c.class = class \/ Derived(c.class, class)

\* __eq__ of c: only subclasses of its own class are compared
Eq(c, d) == IsInstance(d, c.class) /\ c.key = d.key /\ c.values = d.values

\* Faulty variant of Equals: always the method of the left operand
EqualsLeft(c, d) == Eq(c, d)

\* c == d: Python asks the right operand first if its class is derived from the other
Equals(c, d) == IF Derived(d.class, c.class) THEN Eq(d, c) ELSE Eq(c, d)

-----------------------------------------------------------------------------
(* Matching                                                                *)

\* float() of the value of a metric constraint; other words are an error
Digits == {"0", "1", "2", "3"}
Float == [d \in Digits |-> CASE d = "0" -> 0 [] d = "1" -> 1 [] d = "2" -> 2 [] d = "3" -> 3]

\* match of a label constraint
Match(c, labels) ==
    /\ c.key \in DOMAIN labels
    /\ (labels[c.key] \in ToSet(c.values)) <=> c.class \in {"Equal", "In"}

\* match of a metric constraint; metrics gives fractions <<numerator, denominator>>
MatchMetric(c, metrics) ==
    /\ c.key \in DOMAIN metrics
    /\ LET v == metrics[c.key]
           limit == Float[c.values[1]] * v[2]
       IN  CASE c.class = "EqualMetric"        -> v[1] = limit
             [] c.class = "NotEqualMetric"     -> v[1] # limit
             [] c.class = "GreaterThan"        -> v[1] > limit
             [] c.class = "GreaterThanOrEqual" -> v[1] >= limit
             [] c.class = "LesserThan"         -> v[1] < limit
             [] c.class = "LesserThanOrEqual"  -> v[1] <= limit
=============================================================================
