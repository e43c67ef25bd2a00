---------------------------- MODULE MCProviderEvents ----------------------------
(* Instances of ProviderEvents for TLC.                                     *)
EXTENDS ProviderEvents, TLC

CONSTANTS ollama, openai, aliyun, t1, t2, c1, c2

MCProviders == {ollama, openai, aliyun}
MCThreads   == {t1, t2}
OneClient   == {c1}
TwoClients  == {c1, c2}

Alike == Permutations(MCThreads)
=============================================================================
