SPECIFICATION Spec
CONSTANTS
  Callers = {t1, t2}
  session = session
  subgraph = subgraph
  other = other
  Contexts = {session, subgraph, other}
  Parent <- MCParent
  None = None
  Global = Global
  Serialized = TRUE
  MayThrow = TRUE
PROPERTY RepeatedCallTakesEffect
