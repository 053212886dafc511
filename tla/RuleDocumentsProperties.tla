---------------------- MODULE RuleDocumentsProperties ----------------------
(***************************************************************************)
(* What a rule taken from a document may be relied on for.                 *)
(***************************************************************************)
EXTENDS RuleDocuments

CONSTANT Contexts  \* the facts a condition is evaluated against

\* What a part must be, had it been compiled when the document was loaded.
PartOf(part, s) ==
  CASE part = "definition" -> DefinitionCompiles(s) /\ parts[part] = DefinitionOf(s)
    [] part = "condition"  -> ConditionCompiles(s) /\ parts[part] = ConditionOf(s)
    [] part = "output"     -> OutputCompiles(s) /\ parts[part] = OutputOf(s)
    [] part = "required"   -> RequiredCompiles(s) /\ parts[part] = RequiredOf(s)

\* The parts of a rule are compiled one call after another, and the caller may
\* be editing its document meanwhile: condition, claim and required evidence
\* still come from one document, the one whose id and version were registered.
PartsOfOneDocument == \A part \in DOMAIN parts : PartOf(part, SpecOf(loaded))

Without(context, field) == Restrict(context, DOMAIN context \ {field})

\* What is not known never fires a rule: whatever field is taken away from a
\* context, a condition that failed goes on failing, its trace, which is
\* computed by other code and without short cuts, says so too.
AbsenceNeverFires ==
  "condition" \in DOMAIN parts =>
    LET tree == parts["condition"]
    IN  \A context \in Contexts :
          /\ TraceTree(tree, context).result <=> Evaluate(tree, context)
          /\ \A field \in DOMAIN context :
               Evaluate(tree, Without(context, field)) => Evaluate(tree, context)
=============================================================================
