------------------------------- MODULE MCGateway -------------------------------
(* Settings, routing files and requests for TLC. *)
EXTENDS Gateway

CONSTANTS short, long1, long2, cut

MCName == Provider \cup {"groq"}

\* Two long prompts that differ only behind the 2048th character of their key.
MCLength == [p \in {short, long1, long2} |-> IF p = short THEN 3 ELSE 4000]
MCCutTo  == [p \in {short, long1, long2} |-> IF p = short THEN short ELSE cut]

Text(prompt, mode, temperature, most) ==
  [TextGenerate(prompt, temperature, most) EXCEPT !.mode = mode]
MCRequests ==
  {Text(short, "cheap", Unset, 300), TextGenerate(short, 0, 300),
   Text(short, "fast", 0, Unset), Text(long1, "best", 9, 300), Text(long2, "best", 9, 300),
   [ImageGenerate(short) EXCEPT !.mode = "auto"], SpeechTranscribe(short),
   [SpeechTranscribe(short) EXCEPT !.sound = FALSE]}

MCEnvironments ==
  {[forced |-> "auto", configured |-> {"openai"}, order |-> <<"groq", "openai", "openai">>],
   [forced |-> "auto", configured |-> {"openai", "anthropic"}, order |-> <<"mock">>],
   [forced |-> "anthropic", configured |-> {}, order |-> <<>>]}

NoOverride == [m \in Mode |-> [k \in Kind |-> <<>>]]
NoFile ==
  [shape |-> "none", names |-> {}, off |-> {}, given |-> DefaultProfile, fault |-> 0,
   default |-> "cheap", override |-> NoOverride, cached |-> FALSE, ttl |-> 60]
Listed == [NoFile EXCEPT !.shape = "list", !.names = {"openai", "anthropic", "groq"}]
Detailed ==
  [NoFile EXCEPT !.shape = "dict", !.names = {"mock", "openai"}, !.off = {"mock"},
                 !.given["openai"].input = 0, !.given["openai"].output = 0,
                 !.cached = TRUE, !.ttl = 2]
MCFiles ==
  {NoFile, [Listed EXCEPT !.default = "other"],
   [Listed EXCEPT !.fault = 400, !.names = {"openai"}],
   Detailed,
   [Detailed EXCEPT !.default = "legacy", !.names = {}, !.ttl = 1,
                    !.override["cheap"]["text"] = <<"anthropic", "groq", "openai">>,
                    !.override["fast"]["text"] = <<"openai", "mock", "openai">>]}
=============================================================================
