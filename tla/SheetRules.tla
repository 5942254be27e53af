----------------------------- MODULE SheetRules -----------------------------
(***************************************************************************)
(* manage_conditional_formatting (gsheets/sheets_tools.py).  The rules of  *)
(* a sheet are a list and are named by their place in it, so a tool reads  *)
(* the list, composes the new rule and the list it will report, and writes *)
(* at that place, where another rule may be by then.                       *)
(***************************************************************************)
EXTENDS Naturals, Sequences, SequencesExt

CONSTANTS
    Calls,     \* tool calls in flight
    Ranges,    \* ranges of cells, ConditionTypes and Formats of boolean rules
    Conditions,
    Formats,
    Gradient,  \* what a gradient rule has in the place of its condition and format
    MaxRules   \* bound on the rules of the sheet

VARIABLES
    rules,    \* the rules of the sheet, as Google keeps them
    call,     \* the calls in flight
    reported  \* the rules the last call said the sheet has, if it wrote alone

vars == <<rules, call, reported>>

Rule == [range : Ranges, condition : Conditions, format : Formats]
          \cup [range : Ranges, condition : {Gradient}, format : {Gradient}]
Lists == UNION {[1..n -> Rule] : n \in 0..MaxRules}

Idle == [does |-> "nothing", index |-> 0, rule |-> <<>>, report |-> <<>>, fresh |-> TRUE]
Call == [does : {"nothing", "add", "update", "delete"}, index : 0..MaxRules + 1,
         rule : {<<>>} \cup {<<r>> : r \in Rule},
         report : Lists \cup UNION {[1..n -> Rule] : n \in {MaxRules + 1}}, fresh : BOOLEAN]

TypeOK ==
    /\ rules \in Lists
    /\ call \in [Calls -> Call]
    /\ reported \in Lists

Init ==
    /\ rules = <<>>
    /\ call = [c \in Calls |-> Idle]
    /\ reported = <<>>

-----------------------------------------------------------------------------
(* The read: what cannot be done is an error, and the rest is composed *)

Compose(c, does, index, rule, report) ==
    /\ call[c] = Idle
    /\ call' = [call EXCEPT ![c] = [does |-> does, index |-> index, rule |-> rule,
                                    report |-> report, fresh |-> TRUE]]
    /\ UNCHANGED <<rules, reported>>

\* insert_at: the place asked for, or the end.
AddRule(c) ==
    \E rule \in Rule, insert_at \in 1..Len(rules) + 1 :
        /\ Len(rules) < MaxRules
        /\ Compose(c, "add", insert_at, <<rule>>, InsertAt(rules, insert_at, rule))

\* What is not given stays: the ranges, the condition, the format.
NewRule(existing, new, given) ==
    [f \in DOMAIN existing |-> IF f \in given THEN new[f] ELSE existing[f]]

\* A boolean condition or format is refused for a gradient rule; gradient points make
\* any rule a gradient rule.
Allowed(existing, new, given) ==
    \/ new.condition = Gradient /\ {"condition", "format"} \subseteq given
    \/ /\ new.condition # Gradient
       /\ existing.condition # Gradient \/ given \cap {"condition", "format"} = {}

UpdateRule(c) ==
    \E i \in DOMAIN rules, new \in Rule, given \in SUBSET {"range", "condition", "format"} :
        /\ Allowed(rules[i], new, given)
        /\ LET rule == NewRule(rules[i], new, given)
           IN Compose(c, "update", i, <<rule>>, ReplaceAt(rules, i, rule))

\* A bug of the kind the two lists guard against: one of them counts from one.
DeleteRuleOneBased(c) ==
    \E i \in DOMAIN rules : Compose(c, "delete", i + 1, <<>>, RemoveAt(rules, i))

DeleteRule(c) ==
    \E i \in DOMAIN rules : Compose(c, "delete", i, <<>>, RemoveAt(rules, i))

-----------------------------------------------------------------------------
(* The write: Google refuses an index the list no longer has *)

After(k) ==
    CASE k.does = "add" -> InsertAt(rules, k.index, k.rule[1])
      [] k.does = "update" -> ReplaceAt(rules, k.index, k.rule[1])
      [] k.does = "delete" -> RemoveAt(rules, k.index)

BatchUpdate(c) ==
    LET k == call[c]
    IN /\ k.does # "nothing"
       /\ \/ /\ k.index <= Len(rules) + (IF k.does = "add" THEN 1 ELSE 0)
             /\ k.does = "add" => Len(rules) < MaxRules
             /\ rules' = After(k)
             /\ reported' = IF k.fresh THEN k.report ELSE rules'
             /\ call' = [d \in Calls |-> IF d = c \/ call[d] = Idle THEN Idle
                                         ELSE [call[d] EXCEPT !.fresh = FALSE]]
          \/ call' = [call EXCEPT ![c] = Idle] /\ UNCHANGED <<rules, reported>>

Next == \E c \in Calls : AddRule(c) \/ UpdateRule(c) \/ DeleteRule(c) \/ BatchUpdate(c)

Spec == Init /\ [][Next]_vars

-----------------------------------------------------------------------------
(* Properties *)

\* "Confirmation of the operation and the current rule state": what a call says the
\* rules are is what they are, unless another call wrote between its read and its write.
\* "preserves existing type if omitted": and a rule is never half of another: the
\* condition of a gradient rule goes with its format.
ReportIsTrue ==
    /\ reported = rules
    /\ \A i \in DOMAIN rules : rules[i].condition = Gradient <=> rules[i].format = Gradient
=============================================================================
