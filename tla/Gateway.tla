-------------------------------- MODULE Gateway --------------------------------
(***************************************************************************)
(* The AI gateway of one server process: get_gateway and its routing file, *)
(* AIGateway.handle with its cache and ProviderRouter.route, app/ai_gateway *)
(* and the endpoints of app/main.py in front of it.  The endpoints call it *)
(* without an await, so requests pass through it one by one; the clock runs *)
(* while a provider is asked, and a call ends with an answer, an error or  *)
(* the process.  The routing file is read by the first request that can,   *)
(* not at start-up.                                                        *)
(*                                                                         *)
(* success_count and error_count are written and never read, and the       *)
(* tokens and the cost reported with an answer are computed from it alone: *)
(* both are left out.  The clock does not run backwards.                   *)
(***************************************************************************)
EXTENDS Integers, FiniteSets, SequencesExt

CONSTANTS
  Environments,   \* the settings a server may start with
  Files,          \* what the routing file may say
  Requests,       \* what the endpoints ask of the gateway
  Name,           \* names of providers in settings and files
  Unset, NoMode,  \* an omitted number, an omitted mode
  Length,         \* characters in each prompt
  CutTo,          \* what is left of each prompt in a cache key
  Latencies,      \* milliseconds an answer may take
  Codes,          \* the status of a provider's errors
  Scale,          \* the parts of a millisecond that averages are kept in
  MaxItems,       \* max_items of the cache
  MaxTime,        \* bound: the last tick of the clock
  MaxCalls,       \* bound: requests
  MaxEdits,       \* bound: changes of the routing file
  MaxRestarts     \* bound: restarts of the process

\* The table get_gateway builds, and what each of its providers can do.
Provider == {"openai", "anthropic", "mock"}
Kind == {"text", "image", "audio"}
Supports(p, kind) == p = "anthropic" => kind = "text"

\* "other" is any default mode the router does not know: it is scored as auto.
Mode == {"cheap", "fast", "best", "auto", "legacy", "other"}

\* provider_name, the providers with credentials, PROVIDER_FALLBACK_ORDER.
Environment ==
  [forced : Name \cup {"auto"}, configured : SUBSET Provider, order : Seq(Name)]

\* Cost ranks, prices in 1e-8 dollars per token, quality_rank, latency_hint_ms.
Profile == [rank : Nat, input : Nat, output : Nat, quality : 0..10, hint : Nat]

DefaultProfile == [p \in Provider |->
  CASE p = "openai" ->
         [rank |-> 2, input |-> 15, output |-> 60, quality |-> 4, hint |-> 1200]
    [] p = "anthropic" ->
         [rank |-> 3, input |-> 25, output |-> 125, quality |-> 5, hint |-> 1400]
    [] p = "mock" ->
         [rank |-> 0, input |-> 0, output |-> 0, quality |-> 0, hint |-> 1]]

\* The routing file.  Its providers: none (as when there is no file, or no JSON
\* in it), a list of names, or an object of profiles, some of them disabled.
\* "fault" is the status of the exception its routing section raises: 400 for a
\* cache_ttl_seconds that is no number, 500 for a section that is no object.
File ==
  [shape : {"none", "list", "dict"}, names : SUBSET Name, off : SUBSET Name,
   given : [Provider -> Profile], fault : {0, 400, 500}, default : Mode,
   override : [Mode -> [Kind -> Seq(Name)]], cached : BOOLEAN, ttl : Nat]

\* A payload's audio may not be base64: it is not "sound".
Request ==
  [kind : Kind, prompt : DOMAIN CutTo, sound : BOOLEAN, mode : Mode \cup {NoMode},
   temperature : Nat \cup {Unset}, most : Nat \cup {Unset}]

\* What /text/generate, /image/generate and /speech/transcribe ask for; /ai asks
\* for any request.
TextGenerate(prompt, temperature, most) ==
  [kind |-> "text", prompt |-> prompt, sound |-> TRUE, mode |-> NoMode,
   temperature |-> temperature, most |-> most]
ImageGenerate(prompt) ==
  [kind |-> "image", prompt |-> prompt, sound |-> TRUE, mode |-> NoMode,
   temperature |-> Unset, most |-> Unset]
SpeechTranscribe(audio) ==
  [kind |-> "audio", prompt |-> audio, sound |-> TRUE, mode |-> NoMode,
   temperature |-> Unset, most |-> Unset]

ASSUME SettingsAssumption ==
  /\ Provider \subseteq Name /\ "auto" \notin Name
  /\ Environments \subseteq Environment
ASSUME FileAssumption == Files \subseteq File
ASSUME RequestAssumption ==
  /\ Requests \subseteq Request /\ Unset \notin Nat
  /\ \A r \in Requests : r.mode \notin {"legacy", "other"} /\ (~r.sound => r.kind = "audio")
  /\ Length \in [DOMAIN CutTo -> Nat \ {0}] /\ Codes \subseteq 300..599
\* Averages are exact for as many updates as there can be requests.
ASSUME ScaleAssumption ==
  /\ Scale \in Nat \ {0} /\ Scale % 5 ^ MaxCalls = 0 /\ Latencies \subseteq Nat
ASSUME BoundAssumption ==
  /\ MaxItems \in Nat \ {0} /\ {MaxTime, MaxCalls, MaxEdits, MaxRestarts} \subseteq Nat

VARIABLES
  env,      \* the settings, read when the process starts
  file,     \* the routing file on disk
  flags,    \* the providers DEFAULT_CONFIG has enabled, in the memory of the process
  gateway,  \* the gateway get_gateway keeps: the file it read and whom it enabled
  now,      \* the clock
  cache,    \* the cached answers, each with its place in the order of insertion
  latency,  \* latency_ema_ms of each provider in 1/Scale ms, -1 before any answer
  call,     \* the request in the gateway
  reply,    \* history: the reply to the last request
  spoiled,  \* history: providers a routing file that failed to load left disabled
  calls, edits, restarts   \* how many so far

vars == <<env, file, flags, gateway, now, cache, latency, call, reply, spoiled,
          calls, edits, restarts>>

Nothing == [at |-> "idle"]
NoGateway == [read |-> FALSE]
Ready(f, enabled) == [read |-> TRUE, file |-> f, enabled |-> enabled]

Received == [at : {"received"}, request : Requests]
Serve    == [at : {"asking"}, request : Requests, todo : Seq(Provider),
             failed : Seq(Provider \X Nat)]
Answer   == [of : Requests, by : Provider, made : 0..MaxTime]
NoReply  == [status |-> 0]
Reply ==
  [status : {200}, to : Requests, answer : Answer, at : 0..MaxTime]
  \cup [status : 400..599, to : Requests, tried : SUBSET Provider]

FailedOf(c) == [i \in DOMAIN c.failed |-> c.failed[i][1]]

TypeOK ==
  /\ env \in Environments /\ file \in Files /\ flags \subseteq Provider
  /\ \/ gateway = NoGateway
     \/ gateway \in [read : {TRUE}, file : Files, enabled : SUBSET Provider]
  /\ now \in 0..MaxTime
  /\ \A item \in cache : /\ item.answer \in Answer /\ item.expires \in Nat
                         /\ item.place \in 1..MaxCalls
  /\ latency \in [Provider -> Nat \cup {-1}]
  /\ \/ call = Nothing
     \/ call \in Received /\ gateway.read
     \/ call \in Serve
  /\ reply = NoReply \/ reply \in Reply
  /\ spoiled \subseteq Provider
  /\ calls \in 0..MaxCalls /\ edits \in 0..MaxEdits /\ restarts \in 0..MaxRestarts

NoAnswersYet == [p \in Provider |-> -1]

Init ==
  /\ env \in Environments /\ file \in Files
  /\ flags = Provider /\ gateway = NoGateway
  /\ now = 0 /\ cache = {} /\ latency = NoAnswersYet
  /\ call = Nothing /\ reply = NoReply /\ spoiled = {}
  /\ calls = 0 /\ edits = 0 /\ restarts = 0

-----------------------------------------------------------------------------
(* The routing file. *)

\* A list switches the profiles of DEFAULT_CONFIG themselves.
FlagsAfter(f) == IF f.shape = "list" THEN f.names \cap Provider ELSE flags

\* Mutant: every provider the file does not name is enabled.
EnabledByName(f) ==
  CASE f.shape = "none" -> flags
    [] f.shape = "list" -> Provider
    [] f.shape = "dict" -> (flags \ f.names) \cup ((f.names \cap Provider) \ f.off)

\* Whom the configuration read from f enables: an object replaces the profiles it
\* names and leaves the others as they are in memory.
EnabledBy(f) ==
  CASE f.shape = "none" -> flags
    [] f.shape = "list" -> f.names \cap Provider
    [] f.shape = "dict" -> (flags \ f.names) \cup ((f.names \cap Provider) \ f.off)

ProfileOf(p) ==
  IF gateway.file.shape = "dict" /\ p \in gateway.file.names
    THEN gateway.file.given[p] ELSE DefaultProfile[p]

-----------------------------------------------------------------------------
(* The order in which providers are asked. *)
ModeOf(r) == IF r.mode = NoMode THEN gateway.file.default ELSE r.mode

Override(r) == gateway.file.override[ModeOf(r)][r.kind]

\* PROVIDER_FALLBACK_ORDER, and the table's other providers behind it.
Omitted(p) == IF p \in ToSet(env.order) THEN <<>> ELSE <<p>>
FallbackOrder ==
  env.order \o (Omitted("mock") \o (Omitted("openai") \o Omitted("anthropic")))

Named(r) ==
  IF env.forced # "auto" THEN <<env.forced>>
  ELSE IF Override(r) # <<>> THEN Override(r) ELSE FallbackOrder

\* _candidates_for_request and the filters of route.
Candidates(r) ==
  {p \in Provider : /\ p \in ToSet(Named(r))
                    /\ env.forced = "auto" => p \in gateway.enabled
                    /\ Supports(p, r.kind)}

Sorted(r) == Override(r) = <<>> /\ ModeOf(r) # "legacy"

\* The sort looks at the override once more, also where PROVIDER is forced.
Listing(r) ==
  IF Override(r) # <<>> /\ ModeOf(r) # "legacy" THEN Override(r) ELSE Named(r)

\* The places of the candidates in it: a name that comes twice has two, and a
\* forced provider may have none.
Places(r) == {i \in DOMAIN Listing(r) : Listing(r)[i] \in Candidates(r)}

Dollar == 100000000   \* in the unit of the prices

\* The estimate without a provider's usage figures: four characters a token, at
\* least one, and the longest answer.
EstimatedTokens(r) ==
  LET prompt == Length[r.prompt] \div 4
  IN (IF prompt = 0 THEN 1 ELSE prompt) + (IF r.most = Unset THEN 0 ELSE r.most)

\* estimate_cost: half of the tokens go in, half come out.
EstimatedCost(p, tokens) ==
  LET in == tokens \div 2
  IN in * ProfileOf(p).input + (tokens - in) * ProfileOf(p).output

\* A rank counts as dollars where there is no price.
CostScore(r, p) ==
  LET cost == EstimatedCost(p, EstimatedTokens(r))
  IN IF r.kind = "text" /\ cost > 0 THEN cost ELSE ProfileOf(p).rank * Dollar

Speed(p) == IF latency[p] >= 0 THEN latency[p] ELSE ProfileOf(p).hint * Scale

\* The weights 0.45, 0.25 and 0.30 of auto, a cost below a dollar magnified a
\* thousandfold, all times 2000000 * Scale.
AutoScore(r, p) ==
  LET cost == CostScore(r, p)
  IN 9 * (IF cost < Dollar THEN cost ELSE cost \div 1000) * Scale
     + 500 * Speed(p) + 600000 * (10 - ProfileOf(p).quality) * Scale

\* Mutant: the quality is not negated.
ScoreLeast(r, p) ==
  CASE ModeOf(r) = "cheap" -> <<CostScore(r, p), 0>>
    [] ModeOf(r) = "fast"  -> <<Speed(p), 0>>
    [] ModeOf(r) = "best"  -> <<ProfileOf(p).quality, Speed(p)>>
    [] OTHER               -> <<AutoScore(r, p), 0>>

\* What the mode sorts by, the smaller the better.
Score(r, p) ==
  CASE ModeOf(r) = "cheap" -> <<CostScore(r, p), 0>>
    [] ModeOf(r) = "fast"  -> <<Speed(p), 0>>
    [] ModeOf(r) = "best"  -> <<-ProfileOf(p).quality, Speed(p)>>
    [] OTHER               -> <<AutoScore(r, p), 0>>

Less(s, t) == s[1] < t[1] \/ (s[1] = t[1] /\ s[2] < t[2])

\* A stable sort compares two places.
Before(r, i, j) ==
  LET s == Score(r, Listing(r)[i])
      t == Score(r, Listing(r)[j])
  IN IF Sorted(r) /\ s # t THEN Less(s, t) ELSE i < j

\* The places of the candidates in order: there is one such sequence.
Rankings(r) ==
  {s \in SetToSeqs(Places(r)) : \A k, l \in DOMAIN s : k < l => Before(r, s[k], s[l])}

Orders(r) == {[k \in DOMAIN s |-> Listing(r)[s[k]]] : s \in Rankings(r)}

-----------------------------------------------------------------------------
(* The cache. *)

\* Mutant: the mode is not part of the key.
KeyWithoutMode(r) ==
  <<r.kind, gateway.file.default, IF r.temperature = 0 THEN Unset ELSE r.temperature,
    r.most, CutTo[r.prompt]>>

\* A temperature of zero is written like none at all.
CacheKey(r) ==
  <<r.kind, ModeOf(r), IF r.temperature = 0 THEN Unset ELSE r.temperature,
    r.most, CutTo[r.prompt]>>

Caches(r) == gateway.file.cached /\ r.kind = "text"

\* Mutant: nothing expires.
NeverPurged == cache

Purged == {item \in cache : item.expires > now}

Item(r, a) ==
  [key |-> CacheKey(r), answer |-> a, expires |-> now + gateway.file.ttl, place |-> calls]

First(items) == CHOOSE item \in items : \A other \in items : item.place <= other.place

\* Mutant: the limit is looked at after the insertion.
StoredAbove(items, r, a) ==
  (IF Cardinality(items) > MaxItems THEN items \ {First(items)} ELSE items) \cup {Item(r, a)}

\* set: r was not found, so its key is new.
Stored(items, r, a) ==
  (IF Cardinality(items) >= MaxItems THEN items \ {First(items)} ELSE items) \cup {Item(r, a)}

-----------------------------------------------------------------------------
(* A request. *)

\* Mutant: the last error's status goes out as it is.
StatusAsItIs(code) == code

\* What is no status of an error becomes 500.
StatusOf(code) == IF code \in 400..599 THEN code ELSE 500

Refused(r, code, tried) == [status |-> StatusOf(code), to |-> r, tried |-> tried]

\* Only the audio of a payload can be malformed: the schema sees to the rest.
Normalizes(r) == r.sound

\* get_gateway, and the first look at the payload.  A routing file that does not
\* load has already switched the profiles in memory, and is read again by the next
\* request.
Receive(r) ==
  /\ call = Nothing
  /\ calls < MaxCalls /\ calls' = calls + 1
  /\ LET loads == ~gateway.read
         fails == loads /\ file.fault # 0
     IN /\ flags' = IF loads THEN FlagsAfter(file) ELSE flags
        /\ gateway' = IF loads /\ ~fails THEN Ready(file, EnabledBy(file)) ELSE gateway
        /\ spoiled' = IF fails THEN spoiled \cup (flags \ flags') ELSE spoiled
        /\ \/ /\ fails \/ ~Normalizes(r)
              /\ reply' = Refused(r, IF fails THEN file.fault ELSE 400, {})
              /\ UNCHANGED call
           \/ /\ ~fails /\ Normalizes(r)
              /\ call' = [at |-> "received", request |-> r] /\ reply' = NoReply
  /\ UNCHANGED <<env, file, now, cache, latency, edits, restarts>>

Found(r) == {item \in Purged : item.key = CacheKey(r)}

AnswerFromCache ==
  /\ call.at = "received" /\ Caches(call.request)
  /\ cache' = Purged
  /\ \E item \in Found(call.request) :
       reply' = [status |-> 200, to |-> call.request, answer |-> item.answer, at |-> now]
  /\ call' = Nothing
  /\ UNCHANGED <<env, file, flags, gateway, now, latency, spoiled, calls, edits, restarts>>

Route ==
  /\ call.at = "received"
  /\ LET r == call.request IN
     /\ Caches(r) => Found(r) = {}
     /\ cache' = IF Caches(r) THEN Purged ELSE cache
     /\ \/ /\ Candidates(r) = {}
           /\ reply' = Refused(r, 503, {}) /\ call' = Nothing
        \/ /\ Candidates(r) # {}
           /\ \E order \in Orders(r) :
                call' = [at |-> "asking", request |-> r, todo |-> order, failed |-> <<>>]
           /\ UNCHANGED reply
  /\ UNCHANGED <<env, file, flags, gateway, now, latency, spoiled, calls, edits, restarts>>

Asked == Head(call.todo)
Asking == call.at = "asking" /\ call.todo # <<>>

\* The mock needs no credentials.
Configured(p) == p = "mock" \/ p \in env.configured

Unavailable == 503

\* The mock never fails, and who is not configured is not asked.
FailsWith(code) ==
  IF Configured(Asked) THEN code \in Codes /\ Asked # "mock" ELSE code = Unavailable

\* The next provider fails with a status, or is not configured, which counts as
\* an error of its own.
Fail(code) ==
  /\ Asking /\ FailsWith(code)
  /\ call' = [call EXCEPT !.todo = Tail(@), !.failed = Append(@, <<Asked, code>>)]
  /\ UNCHANGED <<env, file, flags, gateway, now, cache, latency, reply, spoiled,
                 calls, edits, restarts>>

\* The exponential moving average with weights 0.8 and 0.2.
Average(old, ms) == IF old < 0 THEN ms * Scale ELSE (4 * old + ms * Scale) \div 5

Succeed(ms) ==
  /\ Asking /\ Configured(Asked)
  /\ LET r == call.request
         a == [of |-> r, by |-> Asked, made |-> now]
     IN /\ latency' = [latency EXCEPT ![Asked] = Average(@, ms)]
        /\ cache' = IF Caches(r) THEN Stored(Purged, r, a) ELSE cache
        /\ reply' = [status |-> 200, to |-> r, answer |-> a, at |-> now]
  /\ call' = Nothing
  /\ UNCHANGED <<env, file, flags, gateway, now, spoiled, calls, edits, restarts>>

\* What the providers are asked for, but for what a key cuts off the prompt: they
\* take a temperature of zero for none, and none for 0.7.
Effective(r) ==
  <<r.kind, ModeOf(r), IF r.temperature \in {0, Unset} THEN 7 ELSE r.temperature,
    IF r.most = Unset THEN 300 ELSE r.most, CutTo[r.prompt]>>

\* Without any error there is no last one: that is an error of its own.
LastError == IF call.failed = <<>> THEN 500 ELSE call.failed[Len(call.failed)][2]

\* Every provider of the order failed: the last error gives the status.
GiveUp ==
  /\ call.at = "asking" /\ call.todo = <<>>
  /\ reply' = Refused(call.request, LastError, ToSet(FailedOf(call)))
  /\ call' = Nothing
  /\ UNCHANGED <<env, file, flags, gateway, now, cache, latency, spoiled,
                 calls, edits, restarts>>

Tick ==
  /\ now < MaxTime
  /\ now' = now + 1
  /\ UNCHANGED <<env, file, flags, gateway, cache, latency, call, reply, spoiled,
                 calls, edits, restarts>>

\* The operator writes another routing file; nobody looks at it yet.
EditFile(f) ==
  /\ edits < MaxEdits /\ edits' = edits + 1
  /\ file' = f
  /\ UNCHANGED <<env, flags, gateway, now, cache, latency, call, reply, spoiled,
                 calls, restarts>>

Restart ==
  /\ restarts < MaxRestarts /\ restarts' = restarts + 1
  /\ env' \in Environments
  /\ flags' = Provider /\ gateway' = NoGateway /\ spoiled' = {}
  /\ cache' = {} /\ latency' = NoAnswersYet /\ call' = Nothing /\ reply' = NoReply
  /\ UNCHANGED <<file, now, calls, edits>>

Next ==
  \/ \E r \in Requests : Receive(r)
  \/ AnswerFromCache \/ Route
  \/ \E code \in Codes \cup {Unavailable} : Fail(code)
  \/ \E ms \in Latencies : Succeed(ms)
  \/ GiveUp \/ Tick \/ Restart
  \/ \E f \in Files : EditFile(f)

Spec == Init /\ [][Next]_vars

-----------------------------------------------------------------------------
\* The cache never exceeds max_items, holds one answer per key, and its first
\* entry, the one "set" evicts as "an arbitrary item", is the one that would
\* expire first (cache.py, 25-49).
CacheHolds ==
  /\ Cardinality(cache) <= MaxItems
  /\ \A i, j \in cache :
       i # j => i.key # j.key /\ i.place # j.place /\ (i.place < j.place => i.expires <= j.expires)

\* No answer is older than cache_ttl_seconds when it is given, however long the
\* provider that made it took; one the request waited for is not from the cache
\* (cache.py, 31-39; gateway.py, 84-97).
AnswerIsFresh ==
  reply.status = 200 =>
    reply.at < reply.answer.made + gateway.file.ttl \/ reply.at = reply.answer.made

\* An answer from the cache was made for a request that asks for the same: the
\* key leaves out nothing the routing or the providers look at, except the end
\* of a long prompt (gateway.py, 30-39, 84-95).
AnswerIsOwn ==
  reply.status = 200 => Effective(reply.to) = Effective(reply.answer.of)

\* p serves a mode better than q, in the words of the README: "cheap: lowest
\* estimated cost", "fast: lowest observed or hinted latency", "best: highest
\* configured quality".
Better(r, p, q) ==
  \/ ModeOf(r) = "cheap" /\ CostScore(r, p) < CostScore(r, q)
  \/ ModeOf(r) = "fast"  /\ Speed(p) < Speed(q)
  \/ ModeOf(r) = "best"  /\ ProfileOf(p).quality > ProfileOf(q).quality

\* No provider is asked before one that serves the mode better, by the averages
\* of that moment, unless the better one failed in this very call or a
\* configured order says otherwise (router.py, 112-166).
BestIsAsked ==
  Asking /\ Sorted(call.request) =>
    \A p \in Candidates(call.request) :
      Better(call.request, p, Asked) => p \in ToSet(FailedOf(call))

\* Whom a routing file lets take part: a list names them, an object may rule
\* somebody out, and without either everybody may.
Allowed(f) ==
  {p \in Provider : CASE f.shape = "none" -> TRUE
                      [] f.shape = "list" -> p \in f.names
                      [] f.shape = "dict" -> p \in f.names => p \notin f.off}

Eligible(r) ==
  {p \in Provider :
     /\ Supports(p, r.kind)
     /\ IF env.forced # "auto" THEN p = env.forced
        ELSE p \in Allowed(gateway.file) /\ (Override(r) # <<>> => p \in ToSet(Override(r)))}

\* PROVIDER names one provider, the file's order for the mode only others.
Contradicted(r) ==
  /\ env.forced # "auto" /\ ModeOf(r) # "legacy"
  /\ Override(r) # <<>> /\ env.forced \notin ToSet(Override(r))

\* Nobody is asked whom the settings or the routing file rule out, and a request
\* that got past the file fails only after everybody else was tried, with 503 if
\* none of them has credentials.  Only a provider that a file which failed to load
\* had left disabled may be missing, and where PROVIDER and the file contradict
\* each other nobody is asked, the one provider there is neither: the request
\* fails with 500 (configuration.py, 132-170; router.py, 77-85 and 107-117,
\* 168-256; README.md, 136: "falls back automatically when one provider is
\* unavailable").
FailsLast ==
  /\ call.at = "asking" =>
       ToSet(FailedOf(call) \o call.todo) \subseteq Eligible(call.request)
  /\ reply.status \notin {0, 200} /\ reply.to.sound /\ gateway.read =>
       LET r == reply.to
           mute == Contradicted(r) /\ Eligible(r) # {}
       IN /\ reply.tried \subseteq Eligible(r)
          /\ mute => reply.tried = {} /\ reply.status = 500
          /\ ~mute => /\ Eligible(r) \subseteq reply.tried \cup spoiled
                      /\ (\A p \in reply.tried : ~Configured(p)) => reply.status = 503
=============================================================================
