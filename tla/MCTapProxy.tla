----------------------------- MODULE MCTapProxy -----------------------------
(* Model-checking instance of TapProxy: a session that is only tapped, one   *)
(* with two providers of which one needs translation and the other names no  *)
(* host, one with copilot and a second provider of the same model, and one   *)
(* with the old gateway behind a corporate proxy.                            *)
EXTENDS TapProxy, TLC

CONSTANTS anthropic, private, openai, copilot, corp, claude, gpt, k1, k2

Tapped == [tap |-> TRUE, gateway |-> None, token |-> None, providers |-> <<>>, corporate |-> None]

Native == [kind |-> "deepseek", models |-> {claude}, key |-> k1, host |-> None]
Translated == [kind |-> "openai", models |-> {gpt}, key |-> k2, host |-> private]

Copilot == [kind |-> "copilot", models |-> {claude}, key |-> k1, host |-> private]
Second == [kind |-> "openrouter", models |-> {claude, gpt}, key |-> k2, host |-> openai]

TwoProviders == [Tapped EXCEPT !.tap = FALSE, !.providers = <<Native, Translated>>]
WithCopilot == [TwoProviders EXCEPT !.providers = <<Copilot, Second>>]
OldGateway == [Tapped EXCEPT !.gateway = openai, !.token = k1, !.corporate = corp]

MCEnvs == {Tapped, TwoProviders, WithCopilot, OldGateway}

Symmetric == Permutations(Conn) \cup Permutations(Exchange)
=============================================================================
