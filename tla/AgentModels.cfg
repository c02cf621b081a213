SPECIFICATION FairSpec
CONSTANTS
  c1 = c1
  c2 = c2
  openai = openai
  ollama = ollama
  other = other
  gpt = gpt
  llama = llama
  mixtral = mixtral
  plain = plain
  None = None
  Conns = {c1, c2}
  Providers = {openai, ollama}
  Absent = {other}
  Slow = {openai}
  Models = {gpt, llama, mixtral, plain}
  ProviderOf <- MCProviderOf
  Selectable = {c1}
  Defined <- MCDefined
  Initial = ollama
  Configured <- MCConfigured
  Order <- MCOrder
  Choices <- MCChoices
  Fallback <- MCFallback
  MaxRounds = 2
  MaxTools = 1
  MaxCalls = 2
  StopOnError = TRUE
  MaxChanges = 2
INVARIANTS
  TypeOK
  OwnModelAsked
PROPERTIES
  HandlersEnd
CHECK_DEADLOCK FALSE
