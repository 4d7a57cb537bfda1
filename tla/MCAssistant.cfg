SPECIFICATION MCSpec
CONSTANTS
  Policies = {leave}
  Providers = {voyage, local}
  MaxEdits = 2
  MaxJobs = 3
  MaxMishaps = 1
  Missing = missing
  Threads = {c}
  Questions = {q1, q2, hi}
  Greetings = {hi}
  ChatProviders = {"claude", "groq", "stub"}
  Asks = {h1, h2}
  MaxTurns = 3
  Window = 2
  TopK = 2
  MinSimilarity = 30
  EscalationThreshold = 60
  Similarities = {20, 50, 80}
  NoThread = none
INVARIANTS
  AssistantTypeOK IndexDescribesText ConversationIsRight
PROPERTIES
  IngestionEnds
CHECK_DEADLOCK FALSE
