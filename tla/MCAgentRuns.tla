----------------------------- MODULE MCAgentRuns -----------------------------
(* A small instance of AgentRuns for TLC: a conversation with a model of one *)
(* provider, and one without a model.                                        *)
EXTENDS AgentRuns, TLC

CONSTANTS c1, c2, openai, ollama, other, gpt, llama, mixtral, plain

\* three have a prefix, one that of a provider there is not; plain is "default"
MCProviderOf ==
  gpt :> openai @@ llama :> ollama @@ mixtral :> other @@ plain :> None
MCDefined == c1 :> gpt @@ c2 :> None
MCConfigured == openai :> gpt @@ ollama :> llama
MCOrder == ollama :> 1 @@ openai :> 2
\* the default is switched to the other provider, or named wrongly
MCChoices == {
  [models |-> openai :> plain @@ ollama :> llama, default |-> openai],
  [models |-> openai :> gpt @@ ollama :> plain, default |-> None]}
MCFallback == "score" :> plain @@ "generate" :> gpt
==============================================================================
