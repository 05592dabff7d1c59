--------------------------- MODULE StrategyLoader ---------------------------
(***************************************************************************)
(* runs.sandbox: which class a strategy's source and entrypoint stand for. *)
(* A source is what ast.parse, ast.walk and exec find in it: whether it    *)
(* parses, the root modules it imports, the names it uses, whether its     *)
(* execution raises, and the namespace that leaves behind, in which a name *)
(* may be bound to a class that was imported or bound a second time.       *)
(***************************************************************************)
EXTENDS FiniteSets

CONSTANTS
  Subclasses,  \* classes derived from backtesting.Strategy
  NoClass      \* Python's None, and a load that raises StrategySandboxError

ASSUME NoClassAssumption == NoClass \notin Subclasses

ALLOWED_TOP_LEVEL_MODULES ==
  {"backtesting", "pandas", "numpy", "math", "statistics", "decimal", "datetime",
   "collections", "itertools", "functools"}

DENIED_BUILTIN_NAMES ==
  {"eval", "exec", "compile", "open", "__import__", "input", "breakpoint"}

\* audit_strategy_source raises nothing.
Audited(source) ==
  /\ source.parses
  /\ source.imports \subseteq ALLOWED_TOP_LEVEL_MODULES
  /\ source.names \cap DENIED_BUILTIN_NAMES = {}

\* What the entrypoint names; the default entrypoint names nothing.
Named(namespace, entrypoint) ==
  IF entrypoint # "Strategy" /\ entrypoint \in DOMAIN namespace
  THEN namespace[entrypoint] ELSE NoClass

Candidates(namespace) == {n \in DOMAIN namespace : namespace[n] \in Subclasses}

FirstCandidate(namespace) ==  \* mutant: several candidates are no error
  IF Candidates(namespace) = {} THEN NoClass
  ELSE namespace[CHOOSE n \in Candidates(namespace) : TRUE]
OnlyCandidate(namespace) ==
  IF Cardinality(Candidates(namespace)) = 1
  THEN namespace[CHOOSE n \in Candidates(namespace) : TRUE] ELSE NoClass

\* load_strategy_class: the class named by the entrypoint, which has to be one,
\* or the only one there is.
LoadStrategyClass(source, entrypoint) ==
  LET named == Named(source.namespace, entrypoint) IN
  IF ~ Audited(source) \/ source.raises THEN NoClass
  ELSE IF named = NoClass THEN OnlyCandidate(source.namespace)
  ELSE IF named \in Subclasses THEN named ELSE NoClass
=============================================================================
