-------------------------- MODULE MCRuleDocuments --------------------------
(***************************************************************************)
(* An instance of RuleDocuments for TLC: one good document, the same with  *)
(* one field or more missing, mistyped or misspelt, and with conditions of *)
(* every operator, nested twice.                                           *)
(***************************************************************************)
EXTENDS RuleDocumentsProperties, TLC

Ids == {"ssh"} :> 1 @@ {"dns"} :> 2
ClaimTypes == {"outdated"} :> 1
ReasonCodes == {"banner"} :> 1 @@ {"open"} :> 2
EvidenceNames == {"version"} :> 1 @@ {"family"} :> 2

Predicate(field, op, value) ==
  Map("field" :> Text(field) @@ "op" :> Text({op}) @@ "value" :> value)

Node(kind, children) == Map(kind :> List(children))

Values == {<<"int", 1>>, <<"bool", 1>>, Text({"a"}), None}

Leaves ==
  {Predicate({"f"}, op, value) : op \in Ops, value \in Values}

FewLeaves ==
  {Predicate({"f"}, "ne", <<"int", 1>>), Predicate({"g", " "}, "ge", <<"int", 1>>),
   Predicate({"g"}, "contains", Text({"a"})), Node("all", <<>>), Node("any", <<>>)}

Inner ==
  {Node(kind, <<a, b>>) : kind \in Combinators, a \in FewLeaves, b \in FewLeaves}

Bad ==
  {None, Node("not", <<>>), Predicate({" "}, "eq", None), Predicate({"f"}, "like", None),
   Map("all" :> List(<<>>) @@ "any" :> List(<<>>)), Map("all" :> None),
   Map("all" :> List(<<>>) @@ "op" :> Text({"eq"})), Node("any", <<None>>)}

Conditions == Leaves \cup Inner \cup Bad
              \cup {Node("any", <<Node("all", <<a, b>>), b>>) : a, b \in FewLeaves}

Claim ==
  "type" :> Text({"outdated"}) @@ "status" :> Text({"candidate"})
  @@ "base_confidence" :> <<"int", 6>> @@ "reason_code" :> Text({"banner"})
  @@ "required_evidence" :> List(<<Text({"version"}), Text({"family"}), Text({"version"})>>)

Output(claim) == Map("claim" :> Map(claim))

Good ==
  "id" :> Text({"ssh", " "}) @@ "version" :> <<"int", 1>>
  @@ "maturity" :> Text({"stable"})
  @@ "reliability" :> Map("prior_confidence" :> <<"int", 7>>)
  @@ "condition" :> Predicate({"f"}, "eq", <<"int", 1>>)
  @@ "output" :> Output(Claim)

Changed(field, value) == [Good EXCEPT ![field] = value]

\* One change of the output, of the header, or of the condition.
Outputs ==
  {None, Map("claim" :> None)}
  \cup {Output(Restrict(Claim, DOMAIN Claim \ {key})) : key \in DOMAIN Claim}
  \cup {Output([Claim EXCEPT !["status"] = Text({status})]) : status \in {"refuted", "disputed"}}
  \cup {Output([Claim EXCEPT !["required_evidence"] = value]) :
          value \in {None, Text({"version"}), List(<<Text({"other"})>>)}}
  \cup {Output([Claim EXCEPT !["base_confidence"] = <<"int", 11>>])}

Edited ==
  {Changed("output", output) : output \in Outputs}
  \cup {Changed("id", value) : value \in {Text({"dns"}), Text({" "}), None, Text({"x"})}}
  \cup {Changed("version", value) : value \in {<<"int", 0>>, <<"int", 2>>, <<"int", 65536>>,
                                               <<"bool", 1>>}}
  \cup {Changed("maturity", Text({"old"})), Changed("maturity", None),
        Changed("reliability", None), Changed("reliability", Map([k \in {} |-> 0])),
        Changed("reliability", Map("prior_confidence" :> <<"int", 11>>)),
        Changed("condition", Node("any", <<Predicate({"g"}, "ne", None)>>))}

Written == {Changed("condition", condition) : condition \in Conditions}
           \cup {Restrict(Good, DOMAIN Good \ {field}) : field \in DOMAIN Good}

\* What may become of a document while its parts are compiled.
FewEdited ==
  {Changed("output", Output([Claim EXCEPT !["status"] = Text({"refuted"})])),
   Changed("version", <<"int", 2>>), Changed("condition", Node("any", <<>>)), Good}

AllWritten == Written \cup Edited

WrittenConditions ==
  {raw["condition"] :
     raw \in {any \in AllWritten \cup FewEdited : "condition" \in DOMAIN any}}

Facts == [{"f", "g"} -> {<<"int", 0>>, <<"int", 1>>, <<"bool", 1>>, <<"bool", 0>>, None,
                         Text({"a", "b"}), List(<<Text({"a"}), <<"int", 1>>>>)}]

\* The fields of a context are the stripped names.
AllContexts ==
  {[name \in {{"f"}, {"g"}} |-> IF name = {"f"} THEN facts["f"] ELSE facts["g"]] :
     facts \in Facts}
=============================================================================
