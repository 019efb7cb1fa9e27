----------------------------- MODULE GatewayProofs -----------------------------
(***************************************************************************)
(* The properties of Gateway hold in every instance of it.  The inductive  *)
(* invariant says what each part of the state still knows of the moment it *)
(* was made: the gateway of the routing file it read, a cached answer of   *)
(* its request and of the time to live, and the request in the gateway of  *)
(* the order its providers were sorted in.                                 *)
(***************************************************************************)
EXTENDS Gateway, FiniteSetTheorems, SequenceTheorems, WellFoundedInduction, TLAPS

\* Until a routing file has loaded, only files that did not load have switched
\* providers off; the gateway takes whom its file allows, except those.
Loaded ==
  /\ ~gateway.read => /\ flags \cup spoiled = Provider
                      /\ cache = {} /\ call = Nothing /\ reply.status # 200
  /\ gateway.read => /\ gateway.enabled \subseteq Allowed(gateway.file)
                     /\ Allowed(gateway.file) \subseteq gateway.enabled \cup spoiled

\* A cached answer has the key of the request it was made for and lives from the
\* moment it was made.
CacheMade ==
  /\ IsFiniteSet(cache) /\ (call # Nothing => calls > 0)
  /\ \A item \in cache :
       /\ item.key = CacheKey(item.answer.of)
       /\ item.expires = item.answer.made + gateway.file.ttl
       /\ item.answer.made <= now /\ item.place <= calls
       /\ call # Nothing => item.place < calls

\* The request in the gateway was not found in the cache, and goes through its
\* candidates in their order.
AskedInOrder ==
  call.at = "asking" =>
    /\ Caches(call.request) => \A item \in cache : item.key # CacheKey(call.request)
    /\ Candidates(call.request) # {}
    /\ FailedOf(call) \o call.todo \in Orders(call.request)
    /\ \A i \in DOMAIN call.failed :
         ~Configured(call.failed[i][1]) => call.failed[i][2] = Unavailable

\* The second half of FailsLast: a failure was not given up early.
RepliesLast ==
  reply.status \notin {0, 200} /\ reply.to.sound /\ gateway.read =>
    LET r == reply.to
        mute == Contradicted(r) /\ Eligible(r) # {}
    IN /\ reply.tried \subseteq Eligible(r)
       /\ mute => reply.tried = {} /\ reply.status = 500
       /\ ~mute => /\ Eligible(r) \subseteq reply.tried \cup spoiled
                   /\ (\A p \in reply.tried : ~Configured(p)) => reply.status = 503

IInv == /\ TypeOK /\ Loaded /\ CacheMade /\ CacheHolds /\ AskedInOrder
        /\ AnswerIsFresh /\ AnswerIsOwn /\ RepliesLast

-----------------------------------------------------------------------------
(* What depends on the gateway, the settings and the averages alone. *)

\* While the gateway stays, its routing file means the same.
LEMMA SameGateway ==
  ASSUME gateway' = gateway, env' = env
  PROVE  \A r : /\ CacheKey(r)' = CacheKey(r) /\ Caches(r)' = Caches(r)
                /\ Effective(r)' = Effective(r) /\ ModeOf(r)' = ModeOf(r)
                /\ Candidates(r)' = Candidates(r) /\ Eligible(r)' = Eligible(r)
                /\ Contradicted(r)' = Contradicted(r)
<1>1. \A r : ModeOf(r)' = ModeOf(r) /\ Override(r)' = Override(r) /\ Caches(r)' = Caches(r)
  BY DEF ModeOf, Override, Caches
<1>2. \A r : CacheKey(r)' = CacheKey(r) /\ Effective(r)' = Effective(r)
  BY <1>1 DEF CacheKey, Effective
<1>3. \A r : Named(r)' = Named(r)
  BY <1>1 DEF Named, FallbackOrder, Omitted
<1>4. \A r : Candidates(r)' = Candidates(r)
  BY <1>3 DEF Candidates
<1>5. \A r : Eligible(r)' = Eligible(r) /\ Contradicted(r)' = Contradicted(r)
  BY <1>1 DEF Eligible, Contradicted
<1> QED
  BY <1>1, <1>2, <1>4, <1>5

\* While the averages stay, too, its order does.
LEMMA SameOrders ==
  ASSUME gateway' = gateway, env' = env, latency' = latency
  PROVE  \A r : Orders(r)' = Orders(r)
<1>1. \A r : /\ ModeOf(r)' = ModeOf(r) /\ Override(r)' = Override(r) /\ Sorted(r)' = Sorted(r)
             /\ Listing(r)' = Listing(r) /\ Places(r)' = Places(r)
  <2>1. \A r : ModeOf(r)' = ModeOf(r) /\ Override(r)' = Override(r)
    BY DEF ModeOf, Override
  <2>2. \A r : Sorted(r)' = Sorted(r) /\ Listing(r)' = Listing(r)
    BY <2>1 DEF Sorted, Listing, Named, FallbackOrder, Omitted
  <2> QED
    BY <2>1, <2>2, SameGateway DEF Places
<1>2. \A p : ProfileOf(p)' = ProfileOf(p) /\ Speed(p)' = Speed(p)
  BY DEF ProfileOf, Speed
<1>3. \A r, p : CostScore(r, p)' = CostScore(r, p)
  BY <1>2 DEF CostScore, EstimatedCost
<1>4. \A r, p : AutoScore(r, p)' = AutoScore(r, p)
  BY <1>2, <1>3 DEF AutoScore
<1>5. \A r, p : Score(r, p)' = Score(r, p)
  BY <1>1, <1>2, <1>3, <1>4 DEF Score
<1>6. \A r, i, j : Before(r, i, j)' = Before(r, i, j)
  BY <1>1, <1>5 DEF Before
<1>7. \A r : Rankings(r)' = Rankings(r)
  BY <1>1, <1>6 DEF Rankings
<1> QED
  BY <1>1, <1>7 DEF Orders

\* Requests that share a key ask the providers for the same.
LEMMA KeyDecides ==
  ASSUME NEW r \in Requests, NEW s \in Requests, CacheKey(r) = CacheKey(s)
  PROVE  Effective(r) = Effective(s)
<1>1. r \in Request /\ s \in Request /\ Unset \notin Nat
  BY RequestAssumption
<1>2. /\ r.kind = s.kind /\ ModeOf(r) = ModeOf(s) /\ r.most = s.most
      /\ CutTo[r.prompt] = CutTo[s.prompt]
      /\ (IF r.temperature = 0 THEN Unset ELSE r.temperature)
           = (IF s.temperature = 0 THEN Unset ELSE s.temperature)
  BY DEF CacheKey
<1>3. (IF r.temperature \in {0, Unset} THEN 7 ELSE r.temperature)
        = (IF s.temperature \in {0, Unset} THEN 7 ELSE s.temperature)
  BY <1>2
<1> QED
  BY <1>2, <1>3 DEF Effective

-----------------------------------------------------------------------------
(* Numbers. *)

\* The gateway has read one of the routing files.
LEMMA FileShape ==
  ASSUME TypeOK, gateway.read
  PROVE  /\ gateway.file \in File /\ gateway.enabled \subseteq Provider
         /\ gateway.file.ttl \in Nat /\ gateway.file.default \in Mode
<1>1. gateway \in [read : {TRUE}, file : Files, enabled : SUBSET Provider]
  <2>1. gateway # NoGateway
    BY DEF NoGateway
  <2> QED
    BY <2>1 DEF TypeOK
<1>2. gateway.file \in Files /\ gateway.enabled \subseteq Provider
  BY <1>1
<1>3. gateway.file \in File
  BY <1>2, FileAssumption
<1> QED
  BY <1>2, <1>3 DEF File

\* Every provider has a profile, from the file or by default.
LEMMA ProfileShape ==
  ASSUME TypeOK, gateway.read, NEW p \in Provider
  PROVE  ProfileOf(p) \in Profile
<1>1. DefaultProfile[p] \in Profile
  BY DEF DefaultProfile, Profile, Provider
<1>2. gateway.file.given \in [Provider -> Profile]
  BY FileShape DEF File
<1> QED
  BY <1>1, <1>2 DEF ProfileOf

\* Costs and latencies are numbers.
LEMMA ScoreShape ==
  ASSUME TypeOK, gateway.read, NEW p \in Provider, NEW r \in Requests
  PROVE  /\ CostScore(r, p) \in Nat /\ Speed(p) \in Nat
         /\ ProfileOf(p).quality \in 0..10
<1>1. /\ ProfileOf(p).input \in Nat /\ ProfileOf(p).output \in Nat /\ ProfileOf(p).rank \in Nat
      /\ ProfileOf(p).hint \in Nat /\ ProfileOf(p).quality \in 0..10
  BY ProfileShape DEF Profile
<1>2. EstimatedTokens(r) \in Nat
  <2>1. Length[r.prompt] \in Nat /\ (r.most = Unset \/ r.most \in Nat)
    BY RequestAssumption DEF Request
  <2>2. Length[r.prompt] \div 4 \in Nat
    BY <2>1
  <2> QED
    BY <2>1, <2>2 DEF EstimatedTokens
<1>3. EstimatedCost(p, EstimatedTokens(r)) \in Nat
  <2> DEFINE t == EstimatedTokens(r)
             in == t \div 2
             x == ProfileOf(p).input
             y == ProfileOf(p).output
  <2>1. t \in Nat /\ in \in Nat /\ in <= t /\ x \in Nat /\ y \in Nat
    <3>1. t \in Nat
      BY <1>2
    <3> HIDE DEF t
    <3> QED
      BY <1>1, <3>1
  <2>2. EstimatedCost(p, t) = in * x + (t - in) * y
    BY DEF EstimatedCost
  <2> HIDE DEF t, in, x, y
  <2>3. t - in \in Nat
    BY <2>1
  <2>4. in * x \in Nat /\ (t - in) * y \in Nat
    BY <2>1, <2>3
  <2> QED
    BY <2>2, <2>4 DEF t
<1>4. CostScore(r, p) \in Nat
  BY <1>1, <1>3 DEF CostScore, Dollar
<1>5. Speed(p) \in Nat
  <2>1. latency[p] \in Nat \cup {-1} /\ Scale \in Nat
    BY ScaleAssumption DEF TypeOK
  <2>2. ProfileOf(p).hint * Scale \in Nat
    BY <1>1, <2>1
  <2> QED
    BY <2>1, <2>2 DEF Speed
<1> QED
  BY <1>1, <1>4, <1>5

\* The average is a number.
LEMMA AverageShape ==
  ASSUME NEW old \in Nat \cup {-1}, NEW ms \in Latencies
  PROVE  Average(old, ms) \in Nat
<1>1. ms \in Nat /\ Scale \in Nat
  BY ScaleAssumption
<1>2. ms * Scale \in Nat
  BY <1>1
<1> DEFINE x == 4 * old + ms * Scale
<1>3. CASE old < 0
  BY <1>2, <1>3 DEF Average
<1>4. CASE ~(old < 0)
  <2>1. old \in Nat
    BY <1>4
  <2>2. x \in Nat
    BY <1>2, <2>1
  <2>3. Average(old, ms) = x \div 5
    BY <1>4 DEF Average
  <2> HIDE DEF x
  <2> QED
    BY <2>2, <2>3
<1> QED
  BY <1>3, <1>4

-----------------------------------------------------------------------------
(* Orders. *)

\* The names the sort starts from are a list, and the places of the candidates in
\* it are finitely many numbers.
LEMMA ListingShape ==
  ASSUME TypeOK, gateway.read, NEW r \in Requests
  PROVE  /\ Listing(r) \in Seq(Name) /\ Places(r) \subseteq DOMAIN Listing(r)
         /\ IsFiniteSet(Places(r)) /\ Places(r) \subseteq Nat
<1>1. Override(r) \in Seq(Name)
  <2>1. gateway.file.override \in [Mode -> [Kind -> Seq(Name)]] /\ gateway.file.default \in Mode
    BY FileShape DEF File
  <2>2. r.kind \in Kind /\ r.mode \in Mode \cup {NoMode}
    BY RequestAssumption DEF Request
  <2>3. ModeOf(r) \in Mode
    BY <2>1, <2>2 DEF ModeOf
  <2> QED
    BY <2>1, <2>2, <2>3 DEF Override
<1>2. env \in Environment /\ Provider \subseteq Name
  BY SettingsAssumption DEF TypeOK
<1>3. FallbackOrder \in Seq(Name)
  <2>1. env.order \in Seq(Name)
    BY <1>2 DEF Environment
  <2>2. \A p \in Provider : Omitted(p) \in Seq(Name)
    <3> SUFFICES ASSUME NEW p \in Provider PROVE Omitted(p) \in Seq(Name)
      OBVIOUS
    <3>1. p \in Name
      BY <1>2
    <3>2. <<>> \in Seq(Name) /\ <<p>> \in Seq(Name)
      BY <3>1
    <3> QED
      BY <3>2 DEF Omitted
  <2>3. \A e, f \in Seq(Name) : e \o f \in Seq(Name)
    BY ConcatProperties
  <2>4. /\ Omitted("mock") \in Seq(Name) /\ Omitted("openai") \in Seq(Name)
        /\ Omitted("anthropic") \in Seq(Name)
    BY <2>2 DEF Provider
  <2>5. Omitted("openai") \o Omitted("anthropic") \in Seq(Name)
    BY <2>3, <2>4
  <2>6. Omitted("mock") \o (Omitted("openai") \o Omitted("anthropic")) \in Seq(Name)
    BY <2>3, <2>4, <2>5
  <2> QED
    BY <2>1, <2>3, <2>6 DEF FallbackOrder
<1>4. Named(r) \in Seq(Name)
  <2>1. CASE env.forced # "auto"
    <3>1. env.forced \in Name
      BY <1>2, <2>1 DEF Environment
    <3>2. <<env.forced>> \in Seq(Name)
      BY <3>1
    <3> QED
      BY <2>1, <3>2 DEF Named
  <2>2. CASE env.forced = "auto"
    BY <1>1, <1>3, <2>2 DEF Named
  <2> QED
    BY <2>1, <2>2
<1>5. Listing(r) \in Seq(Name)
  BY <1>1, <1>4 DEF Listing
<1>6. Places(r) \subseteq DOMAIN Listing(r)
  BY DEF Places
<1>7. PICK n \in Nat : DOMAIN Listing(r) = 1..n
  BY <1>5, LenProperties
<1>8. IsFiniteSet(1..n)
  BY <1>7, FS_Interval
<1>9. IsFiniteSet(Places(r)) /\ Places(r) \subseteq Nat
  BY <1>6, <1>7, <1>8, FS_Subset
<1> QED
  BY <1>5, <1>6, <1>9

\* The candidates that have a place.
Placed(r) == {Listing(r)[i] : i \in Places(r)}

\* All candidates have one, unless the settings and the file contradict each other:
\* then none has.
LEMMA PlacedShape ==
  ASSUME NEW r
  PROVE  /\ Placed(r) \subseteq Candidates(r) /\ Candidates(r) \subseteq Provider
         /\ ~Contradicted(r) => Placed(r) = Candidates(r)
         /\ Contradicted(r) => Placed(r) = {}
<1>1. Placed(r) \subseteq Candidates(r) /\ Candidates(r) \subseteq Provider
  BY DEF Placed, Places, Candidates
<1>2. \A p \in Candidates(r) : p \in ToSet(Listing(r)) => p \in Placed(r)
  BY DEF Placed, Places, ToSet
<1>3. \A p \in Candidates(r) : p \in ToSet(Named(r))
  BY DEF Candidates
<1>4. CASE Listing(r) = Named(r) /\ ~Contradicted(r)
  BY <1>1, <1>2, <1>3, <1>4
<1>5. ASSUME env.forced # "auto" PROVE \A p \in Candidates(r) : p = env.forced
  <2>1. Named(r) = <<env.forced>>
    BY <1>5 DEF Named
  <2>2. DOMAIN <<env.forced>> = 1..1 /\ <<env.forced>>[1] = env.forced
    OBVIOUS
  <2> QED
    BY <1>3, <2>1, <2>2 DEF ToSet
<1>6. CASE Contradicted(r)
  <2>1. Listing(r) = Override(r) /\ env.forced # "auto" /\ env.forced \notin ToSet(Override(r))
    BY <1>6 DEF Contradicted, Listing
  <2>2. \A p \in Placed(r) : p \in ToSet(Listing(r))
    BY DEF Placed, Places, ToSet
  <2> QED
    BY <1>1, <1>5, <1>6, <2>1, <2>2
<1>7. CASE Listing(r) # Named(r) /\ ~Contradicted(r)
  <2>1. Override(r) # <<>> /\ ModeOf(r) # "legacy" /\ Listing(r) = Override(r)
    BY <1>7 DEF Listing
  <2>2. env.forced # "auto" /\ env.forced \in ToSet(Listing(r))
    BY <1>7, <2>1 DEF Named, Contradicted
  <2> QED
    BY <1>1, <1>2, <1>5, <1>7, <2>2
<1> QED
  BY <1>1, <1>4, <1>6, <1>7

\* An order lists the candidates that have a place, and compares their places.
LEMMA OrderShape ==
  ASSUME TypeOK, gateway.read, NEW r \in Requests, NEW s \in Orders(r)
  PROVE  /\ s \in Seq(Provider) /\ ToSet(s) = Placed(r)
         /\ Len(s) \in Nat /\ DOMAIN s = 1..Len(s)
         /\ \A k, l \in DOMAIN s : k < l =>
              \E i, j \in Places(r) :
                s[k] = Listing(r)[i] /\ s[l] = Listing(r)[j] /\ Before(r, i, j)
<1> DEFINE C == Places(r)
           n == Cardinality(C)
           L == Listing(r)
<1>1. IsFiniteSet(C) /\ n \in Nat
  BY ListingShape, FS_CardinalityType
<1>2. PICK t \in Rankings(r) : s = [k \in DOMAIN t |-> L[t[k]]]
  BY DEF Orders
<1>3. /\ t \in [1..n -> C] /\ \A k, l \in 1..n : k # l => t[k] # t[l]
      /\ \A k, l \in DOMAIN t : k < l => Before(r, t[k], t[l])
  BY DEF Rankings, SetToSeqs
<1>4. \A i \in C : L[i] \in Provider
  BY PlacedShape DEF Places
<1>5. ToSet(s) = Placed(r)
  <2>1. t \in Injection(1..n, C)
    BY <1>3 DEF Injection, IsInjective
  <2>2. IsFiniteSet(1..n) /\ Cardinality(1..n) = n
    BY <1>1, FS_Interval
  <2>3. t \in Surjection(1..n, C)
    <3> HIDE DEF C
    <3> QED
      BY <1>1, <2>1, <2>2, FS_Injection
  <2>4. \A i \in C : \E k \in 1..n : t[k] = i
    BY <2>3 DEF Surjection
  <2> HIDE DEF C, n, L
  <2>5. \A k \in 1..n : s[k] = L[t[k]] /\ t[k] \in C /\ DOMAIN s = 1..n
    BY <1>2, <1>3
  <2>6. DOMAIN s = 1..n
    BY <1>2, <1>3
  <2>7. ToSet(s) = {L[i] : i \in C}
    BY <2>4, <2>5, <2>6 DEF ToSet
  <2> QED
    BY <2>7 DEF Placed, C, L
<1> HIDE DEF C, n, L
<1>6. s \in [1..n -> Provider] /\ \A k \in 1..n : s[k] = L[t[k]] /\ t[k] \in C
  BY <1>2, <1>3, <1>4
<1>7. s \in Seq(Provider)
  BY <1>1, <1>6, SeqDef
<1>8. Len(s) \in Nat /\ DOMAIN s = 1..Len(s)
  BY <1>7, LenProperties
<1>9. DOMAIN s = 1..n /\ DOMAIN t = 1..n
  BY <1>3, <1>6
<1>10. \A k, l \in DOMAIN s : k < l =>
         \E i, j \in C : s[k] = L[i] /\ s[l] = L[j] /\ Before(r, i, j)
  BY <1>3, <1>6, <1>9
<1> QED
  BY <1>5, <1>7, <1>8, <1>10 DEF C, L

\* The providers that failed, as a sequence.
LEMMA FailedShape ==
  ASSUME NEW c \in Serve
  PROVE  /\ c.todo \in Seq(Provider) /\ c.failed \in Seq(Provider \X Nat) /\ c.request \in Requests
         /\ FailedOf(c) \in Seq(Provider) /\ Len(FailedOf(c)) = Len(c.failed)
         /\ DOMAIN FailedOf(c) = DOMAIN c.failed /\ DOMAIN c.failed = 1..Len(c.failed)
         /\ Len(c.failed) \in Nat /\ Len(c.todo) \in Nat /\ DOMAIN c.todo = 1..Len(c.todo)
         /\ \A i \in DOMAIN c.failed : /\ FailedOf(c)[i] = c.failed[i][1]
                                       /\ c.failed[i] \in Provider \X Nat
<1>1. c.todo \in Seq(Provider) /\ c.failed \in Seq(Provider \X Nat) /\ c.request \in Requests
  BY DEF Serve
<1>2. /\ Len(c.failed) \in Nat /\ DOMAIN c.failed = 1..Len(c.failed)
      /\ Len(c.todo) \in Nat /\ DOMAIN c.todo = 1..Len(c.todo)
      /\ \A i \in DOMAIN c.failed : c.failed[i] \in Provider \X Nat
  BY <1>1, LenProperties, ElementOfSeq
<1>3. FailedOf(c) \in [1..Len(c.failed) -> Provider]
  BY <1>2 DEF FailedOf
<1>4. FailedOf(c) \in Seq(Provider)
  BY <1>2, <1>3, SeqDef
<1>5. Len(FailedOf(c)) = Len(c.failed)
  BY <1>2, <1>3, <1>4, LenProperties
<1> QED
  BY <1>1, <1>2, <1>3, <1>4, <1>5 DEF FailedOf

\* A failure moves the first provider that is left behind those that failed.
LEMMA FailureMoves ==
  ASSUME NEW c \in Serve, c.todo # <<>>, NEW code \in Nat, NEW d,
         d = [c EXCEPT !.todo = Tail(@), !.failed = Append(@, <<Head(c.todo), code>>)]
  PROVE  /\ d \in Serve /\ d.request = c.request /\ d.at = "asking"
         /\ FailedOf(d) \o d.todo = FailedOf(c) \o c.todo
         /\ d.failed = Append(c.failed, <<Head(c.todo), code>>)
<1> DEFINE a == Head(c.todo)
<1>1. /\ c.todo \in Seq(Provider) /\ c.failed \in Seq(Provider \X Nat) /\ c.request \in Requests
      /\ FailedOf(c) \in Seq(Provider) /\ Len(FailedOf(c)) = Len(c.failed)
      /\ Len(c.failed) \in Nat /\ DOMAIN c.failed = 1..Len(c.failed)
      /\ Len(c.todo) \in Nat /\ c.at = "asking"
  BY FailedShape DEF Serve
<1>2. /\ a \in Provider /\ Tail(c.todo) \in Seq(Provider) /\ Len(Tail(c.todo)) = Len(c.todo) - 1
      /\ \A i \in 1..Len(Tail(c.todo)) : Tail(c.todo)[i] = c.todo[i + 1]
      /\ a = c.todo[1] /\ Len(c.todo) >= 1
  <2>1. Len(c.todo) # 0
    BY <1>1, EmptySeq
  <2>2. a = c.todo[1]
    OBVIOUS
  <2> QED
    BY <1>1, <2>1, <2>2, HeadTailProperties
<1> HIDE DEF a
<1>3. Append(c.failed, <<a, code>>) \in Seq(Provider \X Nat)
  BY <1>1, <1>2
<1>4. /\ d.todo = Tail(c.todo) /\ d.failed = Append(c.failed, <<a, code>>)
      /\ d.request = c.request /\ d.at = "asking" /\ d \in Serve
  BY <1>1, <1>2, <1>3 DEF Serve, a
<1>5. /\ FailedOf(d) \in Seq(Provider) /\ Len(FailedOf(d)) = Len(c.failed) + 1
      /\ \A i \in 1..Len(c.failed) : FailedOf(d)[i] = FailedOf(c)[i]
      /\ FailedOf(d)[Len(c.failed) + 1] = a
  <2>1. /\ FailedOf(d) \in Seq(Provider) /\ Len(FailedOf(d)) = Len(d.failed)
        /\ \A i \in 1..Len(d.failed) : FailedOf(d)[i] = d.failed[i][1]
    BY <1>4, FailedShape
  <2>2. /\ Len(d.failed) = Len(c.failed) + 1
        /\ \A i \in 1..Len(c.failed) : d.failed[i] = c.failed[i]
        /\ d.failed[Len(c.failed) + 1] = <<a, code>>
    BY <1>1, <1>4
  <2>3. \A i \in 1..Len(c.failed) : FailedOf(c)[i] = c.failed[i][1]
    BY <1>1, FailedShape
  <2>4. \A i \in 1..Len(c.failed) : i \in 1..Len(d.failed)
    BY <1>1, <2>2
  <2>5. \A i \in 1..Len(c.failed) : FailedOf(d)[i] = FailedOf(c)[i]
    BY <2>1, <2>2, <2>3, <2>4
  <2>6. Len(c.failed) + 1 \in 1..Len(d.failed)
    BY <1>1, <2>2
  <2>7. FailedOf(d)[Len(c.failed) + 1] = a
    <3>1. FailedOf(d)[Len(c.failed) + 1] = d.failed[Len(c.failed) + 1][1]
      BY <2>1, <2>6
    <3> QED
      BY <2>2, <3>1
  <2> QED
    BY <2>1, <2>2, <2>5, <2>7
<1>6. FailedOf(d) = FailedOf(c) \o <<a>>
  <2> DEFINE f == FailedOf(c)
             g == FailedOf(d)
             k == Len(c.failed)
             t == f \o <<a>>
  <2>1. /\ f \in Seq(Provider) /\ Len(f) = k /\ k \in Nat /\ g \in Seq(Provider) /\ Len(g) = k + 1
        /\ \A i \in 1..k : g[i] = f[i]
        /\ g[k + 1] = a /\ <<a>> \in Seq(Provider) /\ Len(<<a>>) = 1
    BY <1>1, <1>2, <1>5
  <2> HIDE DEF f, g, k
  <2>2. /\ t \in Seq(Provider) /\ Len(t) = Len(g)
        /\ \A i \in 1..Len(g) : t[i] = IF i <= k THEN f[i] ELSE <<a>>[i - k]
    BY <2>1, ConcatProperties
  <2>3. \A i \in 1..Len(g) : g[i] = t[i]
    <3> SUFFICES ASSUME NEW i \in 1..Len(g) PROVE g[i] = t[i]
      OBVIOUS
    <3>1. CASE i <= k
      BY <2>1, <2>2, <3>1
    <3>2. CASE ~(i <= k)
      <4>1. i = k + 1 /\ i - k = 1
        BY <2>1, <3>2
      <4>2. t[i] = <<a>>[1]
        BY <2>2, <3>2, <4>1
      <4> QED
        BY <2>1, <4>1, <4>2
    <3> QED
      BY <3>1, <3>2
  <2> HIDE DEF t
  <2>4. g = t
    BY <2>1, <2>2, <2>3, SeqEqual
  <2> QED
    BY <2>4 DEF f, g, t
<1>7. c.todo = <<a>> \o Tail(c.todo)
  <2> DEFINE u == c.todo
  <2>1. u \in Seq(Provider) /\ u # <<>> /\ Len(u) \in Nat /\ 1 \in 1..Len(u) /\ Len(u) \in 1..Len(u)
        /\ u[1] = a
    BY <1>1, <1>2
  <2> HIDE DEF u
  <2>2. SubSeq(u, 1, Len(u)) = <<u[1]>> \o SubSeq(u, 1 + 1, Len(u))
    BY <2>1, SubSeqRecursiveFirst
  <2>3. SubSeq(u, 1, Len(u)) = u /\ Tail(u) = SubSeq(u, 2, Len(u))
    BY <2>1, SubSeqFull, TailIsSubSeq
  <2> QED
    BY <2>1, <2>2, <2>3 DEF u
<1>8. (FailedOf(c) \o <<a>>) \o Tail(c.todo) = FailedOf(c) \o (<<a>> \o Tail(c.todo))
  <2>1. <<a>> \in Seq(Provider)
    BY <1>2
  <2>2. \A f, u, v \in Seq(Provider) : (f \o u) \o v = f \o (u \o v)
    BY ConcatAssociative
  <2> QED
    BY <1>1, <1>2, <2>1, <2>2
<1>9. FailedOf(d) \o d.todo = FailedOf(c) \o c.todo
  BY <1>4, <1>6, <1>7, <1>8
<1> QED
  BY <1>4, <1>9 DEF a

\* A request starts with its candidates in order.
LEMMA OrderStarts ==
  ASSUME TypeOK, gateway.read, NEW r \in Requests, NEW s \in Orders(r), NEW c,
         c = [at |-> "asking", request |-> r, todo |-> s, failed |-> <<>>]
  PROVE  c \in Serve /\ FailedOf(c) \o c.todo = s /\ DOMAIN c.failed = {}
<1>1. s \in Seq(Provider)
  BY OrderShape
<1>2. <<>> \in Seq(Provider \X Nat) /\ Len(<<>>) = 0
  BY EmptySeq
<1>3. c \in Serve /\ c.todo = s /\ c.failed = <<>>
  BY <1>1, <1>2 DEF Serve
<1>4. FailedOf(c) \in Seq(Provider) /\ Len(FailedOf(c)) = 0
  BY <1>2, <1>3, FailedShape
<1>5. FailedOf(c) = <<>>
  BY <1>4, EmptySeq
<1>6. FailedOf(c) \o s = s
  BY <1>1, <1>5, ConcatEmptySeq
<1> QED
  BY <1>3, <1>6

-----------------------------------------------------------------------------
(* There is one order in which to ask. *)

\* A set of numbers that is not empty has a least one.
LEMMA Least ==
  ASSUME NEW S \in SUBSET Nat, S # {}
  PROVE  \E n \in S : \A m \in S : ~(m < n)
<1> DEFINE Below == OpToRel(<, Nat)
<1>1. \A x, y \in Nat : y < x => <<y, x>> \in Below
  BY DEF OpToRel
<1>2. IsWellFoundedOn(Below, Nat)
  BY NatLessThanWellFounded
<1> HIDE DEF Below
<1>3. PICK n \in S : \A m \in S : ~(<<m, n>> \in Below)
  BY <1>2, WFMin
<1> QED
  BY <1>1, <1>3

\* s lists C along the relation B.
Along(s, C, B) ==
  s \in SetToSeqs(C) /\ \A i, j \in DOMAIN s : i < j => <<s[i], s[j]>> \in B

\* B orders C.
OrderedBy(C, B) ==
  /\ \A x \in C : <<x, x>> \notin B
  /\ \A x, y \in C : x # y => <<x, y>> \in B \/ <<y, x>> \in B
  /\ \A x, y, z \in C : <<x, y>> \in B /\ <<y, z>> \in B => <<x, z>> \in B

OneList(C, B) == \E s : Along(s, C, B) /\ \A t : Along(t, C, B) => t = s

\* A listing, element by element.
LEMMA AlongShape ==
  ASSUME NEW C, IsFiniteSet(C), NEW B, NEW s, NEW n \in Nat, n = Cardinality(C)
  PROVE  Along(s, C, B) <=> /\ s \in [1..n -> C]
                            /\ \A i, j \in 1..n : i # j => s[i] # s[j]
                            /\ \A i, j \in 1..n : i < j => <<s[i], s[j]>> \in B
BY DEF Along, SetToSeqs

\* Something comes before everything else.
LEMMA SomethingFirst ==
  ASSUME NEW C, IsFiniteSet(C), C # {}, NEW B, OrderedBy(C, B)
  PROVE  \E x \in C : \A y \in C : y # x => <<x, y>> \in B
<1> DEFINE Leads(D) == \E x \in D : \A y \in D : y # x => <<x, y>> \in B
           Bad == {n \in Nat : \E D \in SUBSET C : D # {} /\ Cardinality(D) = n /\ ~Leads(D)}
<1>1. SUFFICES ASSUME ~Leads(C) PROVE FALSE
  OBVIOUS
<1>2. \A D \in SUBSET C : IsFiniteSet(D) /\ Cardinality(D) \in Nat
  BY FS_Subset, FS_CardinalityType
<1>3. Cardinality(C) \in Bad
  <2> HIDE DEF Leads
  <2> QED
    BY <1>1, <1>2
<1>4. PICK n \in Bad : \A m \in Bad : ~(m < n)
  <2>1. Bad \in SUBSET Nat
    OBVIOUS
  <2> HIDE DEF Bad
  <2> QED
    BY <1>3, <2>1, Least
<1>5. PICK D \in SUBSET C : D # {} /\ Cardinality(D) = n /\ ~Leads(D)
  OBVIOUS
<1>6. PICK x \in D : TRUE
  BY <1>5
<1> DEFINE E == D \ {x}
<1>7. E \in SUBSET C /\ Cardinality(E) \in Nat /\ Cardinality(E) < n
  <2>1. E \in SUBSET C
    OBVIOUS
  <2>2. Cardinality(E) = Cardinality(D) - 1
    BY <1>2, FS_RemoveElement
  <2>3. Cardinality(E) \in Nat /\ Cardinality(D) \in Nat
    <3> HIDE DEF E
    <3> QED
      BY <1>2, <2>1
  <2> HIDE DEF E
  <2> QED
    BY <1>5, <2>1, <2>2, <2>3
<1>8. E # {} => Leads(E)
  <2> SUFFICES ASSUME E # {}, ~Leads(E) PROVE FALSE
    OBVIOUS
  <2>1. Cardinality(E) \in Bad
    <3> HIDE DEF Leads, E
    <3> QED
      BY <1>7
  <2> HIDE DEF Bad, E
  <2> QED
    BY <1>4, <1>7, <2>1
<1>9. CASE E = {}
  BY <1>5, <1>6, <1>9
<1>10. CASE E # {}
  <2>1. PICK y \in E : \A z \in E : z # y => <<y, z>> \in B
    BY <1>8, <1>10
  <2>2. x \in C /\ y \in C /\ x # y /\ D = E \cup {x}
    BY <1>6, <2>1
  <2>3. <<x, y>> \in B \/ <<y, x>> \in B
    BY <2>2 DEF OrderedBy
  <2>4. CASE <<y, x>> \in B
    BY <1>5, <2>1, <2>2, <2>4
  <2>5. CASE <<x, y>> \in B
    <3>1. \A z \in E : <<x, z>> \in B
      <4>1. \A z \in E : z \in C
        BY <1>7
      <4> HIDE DEF E
      <4> QED
        BY <2>1, <2>2, <2>5, <4>1 DEF OrderedBy
    <3> QED
      BY <1>5, <1>6, <2>2, <3>1
  <2> QED
    BY <2>3, <2>4, <2>5
<1> QED
  BY <1>9, <1>10

\* What comes first heads the one list of the others.
LEMMA ListGrows ==
  ASSUME NEW C, IsFiniteSet(C), NEW B, OrderedBy(C, B), NEW x \in C,
         \A y \in C : y # x => <<x, y>> \in B, OneList(C \ {x}, B)
  PROVE  OneList(C, B)
<1> DEFINE D == C \ {x}
           n == Cardinality(D)
<1>1. IsFiniteSet(C) /\ IsFiniteSet(D) /\ n \in Nat /\ Cardinality(C) = n + 1
  <2>1. IsFiniteSet(C) /\ IsFiniteSet(D)
    BY FS_Subset
  <2>2. n = Cardinality(C) - 1 /\ Cardinality(C) \in Nat /\ n \in Nat
    BY <2>1, FS_RemoveElement, FS_CardinalityType
  <2> QED
    BY <2>1, <2>2
<1>2. PICK s : Along(s, D, B) /\ \A t : Along(t, D, B) => t = s
  BY DEF OneList
<1> HIDE DEF n
<1>3. /\ s \in [1..n -> D]
      /\ \A i, j \in 1..n : i # j => s[i] # s[j]
      /\ \A i, j \in 1..n : i < j => <<s[i], s[j]>> \in B
  BY <1>1, <1>2, AlongShape DEF n
<1> DEFINE u == [i \in 1..n + 1 |-> IF i = 1 THEN x ELSE s[i - 1]]
<1>4. \A i \in 1..n + 1 : i = 1 \/ i - 1 \in 1..n
  BY <1>1
<1>5. Along(u, C, B)
  <2>1. u \in [1..n + 1 -> C]
    BY <1>3, <1>4
  <2>2. \A i, j \in 1..n + 1 : i # j => u[i] # u[j]
    <3> SUFFICES ASSUME NEW i \in 1..n + 1, NEW j \in 1..n + 1, i # j PROVE u[i] # u[j]
      OBVIOUS
    <3>1. CASE i = 1 \/ j = 1
      BY <1>3, <1>4, <3>1
    <3>2. CASE i # 1 /\ j # 1
      <4>1. i - 1 \in 1..n /\ j - 1 \in 1..n /\ i - 1 # j - 1
        BY <1>4, <3>2
      <4> QED
        BY <1>3, <3>2, <4>1
    <3> QED
      BY <3>1, <3>2
  <2>3. \A i, j \in 1..n + 1 : i < j => <<u[i], u[j]>> \in B
    <3> SUFFICES ASSUME NEW i \in 1..n + 1, NEW j \in 1..n + 1, i < j
                 PROVE  <<u[i], u[j]>> \in B
      OBVIOUS
    <3>1. j # 1 /\ j - 1 \in 1..n
      BY <1>1, <1>4
    <3>2. CASE i = 1
      <4>1. s[j - 1] \in C /\ s[j - 1] # x
        BY <1>3, <3>1
      <4> QED
        BY <3>1, <3>2, <4>1
    <3>3. CASE i # 1
      <4>1. i - 1 \in 1..n /\ i - 1 < j - 1
        BY <1>4, <3>3
      <4>2. <<s[i - 1], s[j - 1]>> \in B
        BY <1>3, <3>1, <4>1
      <4> QED
        BY <3>1, <3>3, <4>2
    <3> QED
      BY <3>2, <3>3
  <2> HIDE DEF u
  <2>4. n + 1 \in Nat /\ n + 1 = Cardinality(C)
    BY <1>1
  <2> QED
    BY <1>1, <2>1, <2>2, <2>3, <2>4, AlongShape
<1>6. ASSUME NEW t, Along(t, C, B) PROVE t = u
  <2>1. /\ t \in [1..n + 1 -> C]
        /\ \A i, j \in 1..n + 1 : i # j => t[i] # t[j]
        /\ \A i, j \in 1..n + 1 : i < j => <<t[i], t[j]>> \in B
    <3>1. n + 1 \in Nat /\ n + 1 = Cardinality(C)
      BY <1>1
    <3> QED
      BY <1>1, <1>6, <3>1, AlongShape
  <2>2. \E k \in 1..n + 1 : t[k] = x
    <3>1. t \in Injection(1..n + 1, C)
      BY <2>1 DEF Injection, IsInjective
    <3>2. IsFiniteSet(1..n + 1) /\ Cardinality(1..n + 1) = n + 1
      BY <1>1, FS_Interval
    <3>3. t \in Surjection(1..n + 1, C)
      BY <1>1, <3>1, <3>2, FS_Injection
    <3> QED
      BY <3>3 DEF Surjection
  <2>3. PICK k \in 1..n + 1 : t[k] = x
    BY <2>2
  <2>4. 1 \in 1..n + 1 /\ t[1] = x
    <3>1. 1 \in 1..n + 1 /\ t[1] \in C
      BY <1>1, <2>1
    <3>2. CASE k = 1
      BY <2>3, <3>1, <3>2
    <3>3. CASE k # 1
      <4>1. 1 < k
        BY <1>1, <3>3
      <4>2. <<t[1], x>> \in B /\ t[1] # x
        BY <2>1, <2>3, <3>1, <4>1
      <4>3. <<x, t[1]>> \in B
        BY <3>1, <4>2
      <4>4. <<x, x>> \in B
        BY <3>1, <4>2, <4>3 DEF OrderedBy
      <4> QED
        BY <4>4 DEF OrderedBy
    <3> QED
      BY <3>2, <3>3
  <2> DEFINE v == [i \in 1..n |-> t[i + 1]]
  <2>5. \A i \in 1..n : i + 1 \in 1..n + 1 /\ i + 1 # 1
    BY <1>1
  <2>6. Along(v, D, B)
    <3>1. v \in [1..n -> D]
      BY <2>1, <2>4, <2>5
    <3>2. \A i, j \in 1..n : i # j => v[i] # v[j]
      <4> SUFFICES ASSUME NEW i \in 1..n, NEW j \in 1..n, i # j PROVE v[i] # v[j]
        OBVIOUS
      <4>1. i + 1 # j + 1
        BY <1>1
      <4> QED
        BY <2>1, <2>5, <4>1
    <3>3. \A i, j \in 1..n : i < j => <<v[i], v[j]>> \in B
      <4> SUFFICES ASSUME NEW i \in 1..n, NEW j \in 1..n, i < j PROVE <<v[i], v[j]>> \in B
        OBVIOUS
      <4>1. i + 1 < j + 1
        BY <1>1
      <4> QED
        BY <2>1, <2>5, <4>1
    <3> HIDE DEF v
    <3> QED
      BY <1>1, <3>1, <3>2, <3>3, AlongShape DEF n
  <2>7. v = s
    BY <1>2, <2>6
  <2>8. \A i \in 1..n + 1 : t[i] = u[i]
    <3> SUFFICES ASSUME NEW i \in 1..n + 1 PROVE t[i] = u[i]
      OBVIOUS
    <3>1. CASE i = 1
      BY <2>4, <3>1
    <3>2. CASE i # 1
      <4>1. i - 1 \in 1..n /\ (i - 1) + 1 = i
        BY <1>4, <3>2
      <4>2. v[i - 1] = t[i]
        BY <4>1
      <4> QED
        BY <2>7, <3>2, <4>2
    <3> QED
      BY <3>1, <3>2
  <2> QED
    BY <2>1, <2>8
<1> QED
  BY <1>5, <1>6 DEF OneList

\* An order of a finite set makes one list.
LEMMA OrderMakesList ==
  ASSUME NEW C, IsFiniteSet(C), NEW B, OrderedBy(C, B)
  PROVE  OneList(C, B)
<1> DEFINE Bad == {n \in Nat : \E D \in SUBSET C : Cardinality(D) = n /\ ~OneList(D, B)}
<1>1. SUFFICES ASSUME ~OneList(C, B) PROVE FALSE
  OBVIOUS
<1>2. \A D \in SUBSET C : IsFiniteSet(D) /\ Cardinality(D) \in Nat /\ OrderedBy(D, B)
  BY FS_Subset, FS_CardinalityType DEF OrderedBy
<1>3. OneList({}, B)
  <2>1. IsFiniteSet({}) /\ 0 = Cardinality({}) /\ 0 \in Nat /\ 1..0 = {}
    BY FS_EmptySet
  <2>2. \A s : Along(s, {}, B) <=> s \in [1..0 -> {}]
    BY <2>1, AlongShape
  <2>3. \A s, t : s \in [1..0 -> {}] /\ t \in [1..0 -> {}] => s = t
    BY <2>1
  <2>4. [i \in 1..0 |-> i] \in [1..0 -> {}]
    BY <2>1
  <2> QED
    BY <2>2, <2>3, <2>4 DEF OneList
<1>4. Cardinality(C) \in Bad
  BY <1>1, <1>2
<1>5. PICK n \in Bad : \A m \in Bad : ~(m < n)
  <2>1. Bad \in SUBSET Nat
    OBVIOUS
  <2> HIDE DEF Bad
  <2> QED
    BY <1>4, <2>1, Least
<1>6. PICK D \in SUBSET C : Cardinality(D) = n /\ ~OneList(D, B)
  OBVIOUS
<1>7. IsFiniteSet(D) /\ D # {} /\ OrderedBy(D, B)
  BY <1>2, <1>3, <1>6
<1>8. PICK x \in D : \A y \in D : y # x => <<x, y>> \in B
  BY <1>7, SomethingFirst
<1>9. /\ D \ {x} \in SUBSET C /\ Cardinality(D \ {x}) \in Nat
      /\ Cardinality(D \ {x}) = n - 1 /\ n \in Nat
  <2>1. D \ {x} \in SUBSET C
    OBVIOUS
  <2>2. Cardinality(D \ {x}) = Cardinality(D) - 1
    BY <1>7, FS_RemoveElement
  <2>3. Cardinality(D \ {x}) \in Nat
    BY <1>2, <2>1
  <2> QED
    BY <1>6, <2>1, <2>2, <2>3
<1>10. OneList(D \ {x}, B)
  <2> SUFFICES ASSUME ~OneList(D \ {x}, B) PROVE FALSE
    OBVIOUS
  <2>1. Cardinality(D \ {x}) \in Bad
    BY <1>9
  <2>2. Cardinality(D \ {x}) < n
    BY <1>9
  <2> HIDE DEF Bad
  <2> QED
    BY <1>5, <2>1, <2>2
<1>11. OneList(D, B)
  BY <1>7, <1>8, <1>10, ListGrows
<1> QED
  BY <1>6, <1>11

-----------------------------------------------------------------------------
(* The types. *)

\* A request in the gateway is either received or being served.
LEMMA CallKinds ==
  ASSUME TypeOK
  PROVE  /\ call.at = "received" => /\ call.request \in Requests /\ gateway.read
                                    /\ call # Nothing
         /\ call.at = "asking" => /\ call \in Serve /\ call.request \in Requests
                                  /\ call # Nothing
         /\ Nothing.at # "received" /\ Nothing.at # "asking"
         /\ call # Nothing => call.at \in {"received", "asking"}
BY DEF TypeOK, Received, Serve, Nothing

\* Whoever is asked is a provider.
LEMMA AskedShape ==
  ASSUME TypeOK, Asking
  PROVE  call \in Serve /\ call.todo # <<>> /\ Asked \in Provider
<1>1. call \in Serve /\ call.todo # <<>>
  BY CallKinds DEF Asking
<1>2. call.todo \in Seq(Provider)
  BY <1>1 DEF Serve
<1> QED
  BY <1>1, <1>2, HeadTailProperties DEF Asked

\* Reading a routing file leaves flags and a gateway of the right type.
LEMMA LoadShape ==
  ASSUME TypeOK
  PROVE  /\ FlagsAfter(file) \subseteq Provider /\ EnabledBy(file) \subseteq Provider
         /\ Ready(file, EnabledBy(file)) \in [read : {TRUE}, file : Files, enabled : SUBSET Provider]
         /\ Ready(file, EnabledBy(file)).read
         /\ gateway.read \in BOOLEAN
<1>1. file \in Files /\ file \in File /\ flags \subseteq Provider
  BY FileAssumption DEF TypeOK
<1>2. file.shape \in {"none", "list", "dict"}
  BY <1>1 DEF File
<1>3. FlagsAfter(file) \subseteq Provider /\ EnabledBy(file) \subseteq Provider
  BY <1>1, <1>2 DEF FlagsAfter, EnabledBy
<1>4. gateway.read \in BOOLEAN
  <2>1. CASE gateway = NoGateway
    BY <2>1 DEF NoGateway
  <2>2. CASE gateway \in [read : {TRUE}, file : Files, enabled : SUBSET Provider]
    BY <2>2
  <2> QED
    BY <2>1, <2>2 DEF TypeOK
<1> QED
  BY <1>1, <1>3, <1>4 DEF Ready

\* A refusal is an error.
LEMMA RefusedShape ==
  ASSUME NEW r \in Requests, NEW code, NEW tried \in SUBSET Provider
  PROVE  /\ Refused(r, code, tried) \in Reply
         /\ Refused(r, code, tried).status \in 400..599
BY DEF Refused, Reply, StatusOf

\* A request only enters a gateway that has loaded.
LEMMA ReceiveType ==
  ASSUME IInv, NEW r \in Requests, Receive(r)
  PROVE  TypeOK'
<1>1. /\ TypeOK /\ call = Nothing
      /\ UNCHANGED <<env, file, now, cache, latency, edits, restarts>>
  BY DEF IInv, Receive
<1> DEFINE loads == ~gateway.read
           fails == loads /\ file.fault # 0
<1>2. /\ flags' = IF loads THEN FlagsAfter(file) ELSE flags
      /\ gateway' = IF loads /\ ~fails THEN Ready(file, EnabledBy(file)) ELSE gateway
      /\ spoiled' = IF fails THEN spoiled \cup (flags \ flags') ELSE spoiled
      /\ \/ /\ fails \/ ~Normalizes(r)
            /\ reply' = Refused(r, IF fails THEN file.fault ELSE 400, {})
            /\ UNCHANGED call
         \/ /\ ~fails /\ Normalizes(r)
            /\ call' = [at |-> "received", request |-> r] /\ reply' = NoReply
  BY DEF Receive
<1>3. flags' \subseteq Provider /\ spoiled' \subseteq Provider
  BY <1>1, <1>2, LoadShape DEF TypeOK
<1>4. \/ gateway' = NoGateway
      \/ gateway' \in [read : {TRUE}, file : Files, enabled : SUBSET Provider]
  BY <1>1, <1>2, LoadShape DEF TypeOK
<1>5. call' = Nothing \/ (call' \in Received /\ gateway'.read)
  <2>1. CASE UNCHANGED call
    BY <1>1, <2>1
  <2>2. CASE ~fails /\ call' = [at |-> "received", request |-> r]
    <3>1. gateway'.read
      BY <1>1, <1>2, <2>2, LoadShape
    <3> QED
      BY <2>2, <3>1 DEF Received
  <2> QED
    BY <1>2, <2>1, <2>2
<1>6. reply' = NoReply \/ reply' \in Reply
  <2>1. \A code : Refused(r, code, {}) \in Reply
    BY RefusedShape
  <2> HIDE DEF fails, loads
  <2> QED
    BY <1>2, <2>1
<1>7. calls' \in 0..MaxCalls
  BY <1>1, BoundAssumption DEF Receive, TypeOK
<1> QED
  BY <1>1, <1>3, <1>4, <1>5, <1>6, <1>7 DEF TypeOK

\* An answer from the cache is an answer somebody gave.
LEMMA CacheType ==
  ASSUME IInv, AnswerFromCache
  PROVE  TypeOK'
<1>1. /\ TypeOK /\ call.at = "received" /\ cache' = Purged /\ call' = Nothing
      /\ UNCHANGED <<env, file, flags, gateway, now, latency, spoiled, calls, edits, restarts>>
  BY DEF IInv, AnswerFromCache
<1>2. PICK item \in Found(call.request) :
        reply' = [status |-> 200, to |-> call.request, answer |-> item.answer, at |-> now]
  BY DEF AnswerFromCache
<1>3. Purged \subseteq cache /\ item \in cache
  BY DEF Purged, Found
<1>4. reply' \in Reply
  <2>1. call.request \in Requests /\ item.answer \in Answer /\ now \in 0..MaxTime
    BY <1>1, <1>3, CallKinds DEF TypeOK
  <2> QED
    BY <1>2, <2>1 DEF Reply
<1>5. \A i \in cache' : i.answer \in Answer /\ i.expires \in Nat /\ i.place \in 1..MaxCalls
  BY <1>1, <1>3 DEF TypeOK
<1> QED
  BY <1>1, <1>4, <1>5 DEF TypeOK

\* The order a request starts with names providers.
LEMMA RouteType ==
  ASSUME IInv, Route
  PROVE  TypeOK'
<1> DEFINE r == call.request
<1>1. /\ TypeOK /\ call.at = "received" /\ cache' = IF Caches(r) THEN Purged ELSE cache
      /\ UNCHANGED <<env, file, flags, gateway, now, latency, spoiled, calls, edits, restarts>>
  BY DEF IInv, Route
<1>2. r \in Requests /\ gateway.read
  BY <1>1, CallKinds
<1>3. cache' \subseteq cache
  BY <1>1 DEF Purged
<1>4. \A i \in cache' : i.answer \in Answer /\ i.expires \in Nat /\ i.place \in 1..MaxCalls
  BY <1>1, <1>3 DEF TypeOK
<1>5. CASE reply' = Refused(r, 503, {}) /\ call' = Nothing
  <2>1. reply' \in Reply
    BY <1>2, <1>5, RefusedShape
  <2> QED
    BY <1>1, <1>4, <1>5, <2>1 DEF TypeOK
<1>6. CASE /\ \E s \in Orders(r) :
                call' = [at |-> "asking", request |-> r, todo |-> s, failed |-> <<>>]
           /\ UNCHANGED reply
  <2>1. PICK s \in Orders(r) :
          call' = [at |-> "asking", request |-> r, todo |-> s, failed |-> <<>>]
    BY <1>6
  <2>2. \A c : c = [at |-> "asking", request |-> r, todo |-> s, failed |-> <<>>]
                 => c \in Serve
    <3> HIDE DEF r
    <3> QED
      BY <1>1, <1>2, OrderStarts
  <2>3. call' \in Serve
    BY <2>1, <2>2
  <2> QED
    BY <1>1, <1>4, <1>6, <2>3 DEF TypeOK
<1> QED
  BY <1>5, <1>6 DEF Route

\* What a failure does to the request in the gateway.
LEMMA FailSteps ==
  ASSUME TypeOK, NEW code \in Codes \cup {Unavailable}, Fail(code)
  PROVE  /\ call' \in Serve /\ call'.request = call.request /\ call'.at = "asking"
         /\ FailedOf(call)' \o call'.todo = FailedOf(call) \o call.todo
         /\ call'.failed = Append(call.failed, <<Asked, code>>)
<1>1. call \in Serve /\ call.todo # <<>>
  BY AskedShape DEF Fail
<1>2. code \in Nat
  BY RequestAssumption DEF Unavailable
<1>3. \A d : d = [call EXCEPT !.todo = Tail(@), !.failed = Append(@, <<Head(call.todo), code>>)]
        => /\ d \in Serve /\ d.request = call.request /\ d.at = "asking"
           /\ FailedOf(d) \o d.todo = FailedOf(call) \o call.todo
           /\ d.failed = Append(call.failed, <<Head(call.todo), code>>)
  BY <1>1, <1>2, FailureMoves
<1>4. call' = [call EXCEPT !.todo = Tail(@), !.failed = Append(@, <<Head(call.todo), code>>)]
  BY DEF Fail, Asked
<1>5. \A d : d = call' => FailedOf(d) = FailedOf(call)'
  BY DEF FailedOf
<1> QED
  BY <1>3, <1>4, <1>5 DEF Asked

\* A failure leaves the rest of the list to be asked.
LEMMA FailType ==
  ASSUME IInv, NEW code \in Codes \cup {Unavailable}, Fail(code)
  PROVE  TypeOK'
<1>1. /\ TypeOK /\ call.at = "asking"
      /\ UNCHANGED <<env, file, flags, gateway, now, cache, latency, reply, spoiled,
                     calls, edits, restarts>>
  BY DEF IInv, Fail, Asking
<1>2. call' \in Serve
  BY <1>1, FailSteps
<1> QED
  BY <1>1, <1>2 DEF TypeOK

\* A new answer is cached with the place of its request.
LEMMA SucceedType ==
  ASSUME IInv, NEW ms \in Latencies, Succeed(ms)
  PROVE  TypeOK'
<1> DEFINE r == call.request
           a == [of |-> r, by |-> Asked, made |-> now]
<1>1. /\ TypeOK /\ Asking /\ call' = Nothing
      /\ latency' = [latency EXCEPT ![Asked] = Average(@, ms)]
      /\ cache' = IF Caches(r) THEN Stored(Purged, r, a) ELSE cache
      /\ reply' = [status |-> 200, to |-> r, answer |-> a, at |-> now]
      /\ UNCHANGED <<env, file, flags, gateway, now, spoiled, calls, edits, restarts>>
  BY DEF IInv, Succeed
<1>2. Asked \in Provider /\ call \in Serve /\ r \in Requests /\ call # Nothing /\ gateway.read
  <2>1. call \in Serve /\ Asked \in Provider /\ r \in Requests /\ call # Nothing
    BY <1>1, AskedShape, CallKinds DEF Asking
  <2>2. gateway.read
    BY <2>1, LoadShape, <1>1 DEF IInv, Loaded
  <2> QED
    BY <2>1, <2>2
<1>3. a \in Answer /\ reply' \in Reply
  BY <1>1, <1>2 DEF Answer, Reply, TypeOK
<1>4. latency' \in [Provider -> Nat \cup {-1}]
  <2>1. latency \in [Provider -> Nat \cup {-1}]
    BY <1>1 DEF TypeOK
  <2>2. Average(latency[Asked], ms) \in Nat
    BY <1>2, <2>1, AverageShape
  <2> QED
    BY <1>1, <2>1, <2>2
<1>5. \A i \in cache' : i.answer \in Answer /\ i.expires \in Nat /\ i.place \in 1..MaxCalls
  <2>1. cache' \subseteq cache \cup {Item(r, a)}
    BY <1>1 DEF Stored, Purged
  <2>2. Item(r, a).answer \in Answer /\ Item(r, a).expires \in Nat /\ Item(r, a).place \in 1..MaxCalls
    <3>1. gateway.file.ttl \in Nat /\ now \in Nat /\ calls \in 0..MaxCalls /\ calls > 0
      <4>1. gateway.file.ttl \in Nat
        BY <1>1, <1>2, FileShape
      <4>2. now \in 0..MaxTime /\ calls \in 0..MaxCalls
        BY <1>1 DEF TypeOK
      <4>3. calls > 0
        BY <1>2 DEF IInv, CacheMade
      <4> QED
        BY <4>1, <4>2, <4>3
    <3>2. MaxCalls \in Nat
      BY BoundAssumption
    <3> HIDE DEF a
    <3> QED
      BY <1>3, <3>1, <3>2 DEF Item
  <2>3. \A i \in cache : i.answer \in Answer /\ i.expires \in Nat /\ i.place \in 1..MaxCalls
    BY <1>1 DEF TypeOK
  <2> QED
    BY <2>1, <2>2, <2>3
<1> HIDE DEF a
<1> QED
  BY <1>1, <1>3, <1>4, <1>5 DEF TypeOK

\* The providers that failed are providers.
LEMMA FailedAreProviders ==
  ASSUME NEW c \in Serve
  PROVE  ToSet(FailedOf(c)) \in SUBSET Provider
<1>1. FailedOf(c) \in Seq(Provider)
  BY FailedShape
<1>2. \A i \in DOMAIN FailedOf(c) : FailedOf(c)[i] \in Provider
  BY <1>1, LenProperties, ElementOfSeq
<1> QED
  BY <1>2 DEF ToSet

\* An error names the providers that were tried.
LEMMA GiveUpType ==
  ASSUME IInv, GiveUp
  PROVE  TypeOK'
<1>1. /\ TypeOK /\ call.at = "asking" /\ call' = Nothing
      /\ reply' = Refused(call.request, LastError, ToSet(FailedOf(call)))
      /\ UNCHANGED <<env, file, flags, gateway, now, cache, latency, spoiled,
                     calls, edits, restarts>>
  BY DEF IInv, GiveUp
<1>2. reply' \in Reply
  <2>1. call \in Serve /\ call.request \in Requests
    BY <1>1, CallKinds
  <2> QED
    BY <1>1, <2>1, FailedAreProviders, RefusedShape
<1> QED
  BY <1>1, <1>2 DEF TypeOK

\* The clock, the operator and the restart keep the types.
LEMMA OtherTypes ==
  ASSUME IInv, Tick \/ Restart \/ (\E f \in Files : EditFile(f)) \/ UNCHANGED vars
  PROVE  TypeOK'
<1> TypeOK
  BY DEF IInv
<1>1. CASE Tick
  <2>1. now' \in 0..MaxTime
    BY <1>1, BoundAssumption DEF Tick, TypeOK
  <2> QED
    BY <1>1, <2>1 DEF Tick, TypeOK, FailedOf
<1>2. CASE Restart
  <2>1. restarts' \in 0..MaxRestarts
    BY <1>2, BoundAssumption DEF Restart, TypeOK
  <2>2. NoAnswersYet \in [Provider -> Nat \cup {-1}]
    BY DEF NoAnswersYet
  <2> QED
    BY <1>2, <2>1, <2>2 DEF Restart, TypeOK
<1>3. CASE \E f \in Files : EditFile(f)
  <2>1. edits' \in 0..MaxEdits
    BY <1>3, BoundAssumption DEF EditFile, TypeOK
  <2> QED
    BY <1>3, <2>1 DEF EditFile, TypeOK, FailedOf
<1>4. CASE UNCHANGED vars
  BY <1>4 DEF vars, TypeOK, FailedOf
<1> QED
  BY <1>1, <1>2, <1>3, <1>4

\* Every step keeps the types.
LEMMA NextType ==
  ASSUME IInv, [Next]_vars
  PROVE  TypeOK'
BY ReceiveType, CacheType, RouteType, FailType, SucceedType, GiveUpType, OtherTypes DEF Next

-----------------------------------------------------------------------------
(* The gateway and its routing file. *)

\* The routing file read from then on rules out whom it should and nobody else,
\* save those an earlier file had left switched off.
LEMMA LoadAllows ==
  ASSUME TypeOK, flags \cup spoiled = Provider
  PROVE  /\ EnabledBy(file) \subseteq Allowed(file)
         /\ Allowed(file) \subseteq EnabledBy(file) \cup spoiled
<1>1. file.shape \in {"none", "list", "dict"}
  BY FileAssumption DEF TypeOK, File
<1>2. flags \subseteq Provider
  BY DEF TypeOK
<1> QED
  BY <1>1, <1>2 DEF EnabledBy, Allowed

\* No step but the loading of a file changes whom the gateway takes.
LEMMA NextLoaded ==
  ASSUME IInv, [Next]_vars
  PROVE  Loaded'
<1> TypeOK /\ Loaded
  BY DEF IInv
<1>1. ASSUME NEW r \in Requests, Receive(r) PROVE Loaded'
  <2> DEFINE loads == ~gateway.read
             fails == loads /\ file.fault # 0
  <2>1. /\ flags' = IF loads THEN FlagsAfter(file) ELSE flags
        /\ gateway' = IF loads /\ ~fails THEN Ready(file, EnabledBy(file)) ELSE gateway
        /\ spoiled' = IF fails THEN spoiled \cup (flags \ flags') ELSE spoiled
        /\ fails => UNCHANGED call /\ reply' = Refused(r, file.fault, {})
        /\ UNCHANGED cache
    BY <1>1 DEF Receive
  <2>2. CASE gateway.read
    BY <2>1, <2>2 DEF Loaded
  <2>3. CASE fails
    <3>1. flags \cup spoiled = Provider /\ cache = {} /\ call = Nothing /\ spoiled \subseteq Provider
      BY <2>3 DEF Loaded, TypeOK
    <3>2. flags' \cup spoiled' = Provider
      BY <2>1, <2>3, <3>1, LoadShape
    <3>3. reply'.status # 200
      <4>1. reply'.status \in 400..599
        BY <2>1, <2>3, <1>1, RefusedShape
      <4> QED
        BY <4>1
    <3> QED
      BY <2>1, <2>3, <3>1, <3>2, <3>3 DEF Loaded
  <2>4. CASE loads /\ ~fails
    <3>1. gateway'.read /\ gateway'.file = file /\ gateway'.enabled = EnabledBy(file)
          /\ spoiled' = spoiled
      BY <2>1, <2>4 DEF Ready
    <3>2. flags \cup spoiled = Provider
      BY <2>4 DEF Loaded
    <3> QED
      BY <3>1, <3>2, LoadAllows DEF Loaded
  <2> QED
    BY <2>2, <2>3, <2>4
<1>2. ASSUME UNCHANGED <<gateway, flags, spoiled>>, gateway.read PROVE Loaded'
  BY <1>2 DEF Loaded
<1>3. ASSUME UNCHANGED <<gateway, flags, spoiled, cache, call, reply>> PROVE Loaded'
  BY <1>3 DEF Loaded
<1>4. call.at \in {"received", "asking"} => gateway.read
  BY CallKinds DEF Loaded, Nothing
<1>5. CASE AnswerFromCache
  BY <1>2, <1>4, <1>5 DEF AnswerFromCache
<1>6. CASE Route
  BY <1>2, <1>4, <1>6 DEF Route
<1>7. CASE \E code \in Codes \cup {Unavailable} : Fail(code)
  BY <1>2, <1>4, <1>7 DEF Fail, Asking
<1>8. CASE \E ms \in Latencies : Succeed(ms)
  BY <1>2, <1>4, <1>8 DEF Succeed, Asking
<1>9. CASE GiveUp
  BY <1>2, <1>4, <1>9 DEF GiveUp
<1>10. CASE Tick
  BY <1>3, <1>10 DEF Tick
<1>11. CASE Restart
  BY <1>11 DEF Restart, Loaded, NoGateway, NoReply
<1>12. CASE \E f \in Files : EditFile(f)
  BY <1>3, <1>12 DEF EditFile
<1>13. CASE UNCHANGED vars
  BY <1>3, <1>13 DEF vars
<1> QED
  BY <1>1, <1>5, <1>6, <1>7, <1>8, <1>9, <1>10, <1>11, <1>12, <1>13 DEF Next

-----------------------------------------------------------------------------
(* The cache. *)

\* Some entry was inserted before all others.
LEMMA FirstIsOldest ==
  ASSUME NEW items, items # {}, \A i \in items : i.place \in Nat
  PROVE  First(items) \in items
<1> DEFINE Below == OpToRel(<, Nat)
           Inserted == {i.place : i \in items}
<1>1. \A x, y \in Nat : y < x => <<y, x>> \in Below
  BY DEF OpToRel
<1>2. IsWellFoundedOn(Below, Nat) /\ Inserted \in SUBSET Nat /\ Inserted # {}
  BY NatLessThanWellFounded
<1> HIDE DEF Below
<1>3. PICK x \in Inserted : \A y \in Inserted : ~(<<y, x>> \in Below)
  BY <1>2, WFMin
<1>4. PICK item \in items : item.place = x
  OBVIOUS
<1>5. \A other \in items : item.place <= other.place
  <2> SUFFICES ASSUME NEW other \in items PROVE item.place <= other.place
    OBVIOUS
  <2>1. item.place \in Nat /\ other.place \in Nat /\ ~(<<other.place, x>> \in Below)
    BY <1>3
  <2>2. ~(other.place < item.place)
    BY <1>1, <1>4, <2>1
  <2> QED
    BY <2>1, <2>2
<1> QED
  BY <1>5 DEF First

\* The clock and the number of requests are numbers.
LEMMA Counts ==
  ASSUME TypeOK
  PROVE  now \in Nat /\ calls \in Nat
<1>1. now \in 0..MaxTime /\ calls \in 0..MaxCalls
  BY DEF TypeOK
<1> QED
  BY <1>1

\* While no answer is stored, entries only go, and only time passes.
LEMMA CacheSteady ==
  ASSUME IInv, gateway' = gateway, now' \in Nat, now' >= now, calls' = calls,
         cache' \subseteq cache, call' # Nothing => call # Nothing
  PROVE  CacheMade' /\ CacheHolds'
<1>1. CacheMade /\ CacheHolds /\ TypeOK
  BY DEF IInv
<1>2. IsFiniteSet(cache') /\ Cardinality(cache') <= MaxItems
  <2>1. IsFiniteSet(cache) /\ Cardinality(cache) <= MaxItems
    BY <1>1 DEF CacheMade, CacheHolds
  <2>2. IsFiniteSet(cache') /\ Cardinality(cache') <= Cardinality(cache)
    BY <2>1, FS_Subset
  <2>3. Cardinality(cache) \in Nat /\ Cardinality(cache') \in Nat /\ MaxItems \in Nat
    BY <2>1, <2>2, FS_CardinalityType, BoundAssumption
  <2> QED
    BY <2>1, <2>2, <2>3
<1>3. ASSUME NEW item \in cache'
      PROVE  /\ item.key = CacheKey(item.answer.of)'
             /\ item.expires = item.answer.made + gateway'.file.ttl
             /\ item.answer.made <= now' /\ item.place <= calls'
             /\ call' # Nothing => item.place < calls'
  <2>1. /\ item.key = CacheKey(item.answer.of)
        /\ item.expires = item.answer.made + gateway.file.ttl
        /\ item.answer.made <= now /\ item.place <= calls
        /\ call # Nothing => item.place < calls
    BY <1>1 DEF CacheMade
  <2>2. CacheKey(item.answer.of)' = CacheKey(item.answer.of)
    BY DEF CacheKey, ModeOf
  <2>3. item.answer.made \in Nat /\ now \in Nat
    BY <1>1 DEF TypeOK, Answer
  <2>4. item.answer.made <= now'
    BY <2>1, <2>3
  <2> QED
    BY <2>1, <2>2, <2>4
<1>4. CacheMade'
  BY <1>1, <1>2, <1>3 DEF CacheMade
<1>5. CacheHolds'
  BY <1>1, <1>2 DEF CacheHolds
<1> QED
  BY <1>4, <1>5

\* A new answer finds room.
LEMMA StoreMakesRoom ==
  ASSUME NEW items, IsFiniteSet(items), Cardinality(items) <= MaxItems,
         \A i \in items : i.place \in Nat, NEW r, NEW a
  PROVE  IsFiniteSet(Stored(items, r, a)) /\ Cardinality(Stored(items, r, a)) <= MaxItems
<1> DEFINE kept == IF Cardinality(items) >= MaxItems THEN items \ {First(items)} ELSE items
           x == Item(r, a)
<1>1. Cardinality(items) \in Nat /\ MaxItems \in Nat \ {0}
  BY FS_CardinalityType, BoundAssumption
<1>2. IsFiniteSet(kept) /\ Cardinality(kept) < MaxItems
  <2>1. CASE Cardinality(items) >= MaxItems
    <3>1. items # {}
      BY <1>1, <2>1, FS_EmptySet
    <3>2. First(items) \in items
      BY <3>1, FirstIsOldest
    <3>3. /\ IsFiniteSet(items \ {First(items)})
          /\ Cardinality(items \ {First(items)}) = Cardinality(items) - 1
      BY <3>2, FS_RemoveElement
    <3> QED
      BY <1>1, <2>1, <3>3
  <2>2. CASE ~(Cardinality(items) >= MaxItems)
    BY <1>1, <2>2
  <2> QED
    BY <2>1, <2>2
<1>3. Stored(items, r, a) = kept \cup {x}
  BY DEF Stored
<1> HIDE DEF kept, x
<1>4. Cardinality(kept) \in Nat
  BY <1>2, FS_CardinalityType
<1>5. IsFiniteSet(kept \cup {x}) /\ Cardinality(kept \cup {x}) <= Cardinality(kept) + 1
  <2>1. /\ IsFiniteSet(kept \cup {x})
        /\ Cardinality(kept \cup {x}) = IF x \in kept THEN Cardinality(kept) ELSE Cardinality(kept) + 1
    BY <1>2, FS_AddElement
  <2> QED
    BY <1>4, <2>1
<1>6. Cardinality(kept \cup {x}) \in Nat
  BY <1>5, FS_CardinalityType
<1> QED
  BY <1>1, <1>2, <1>3, <1>4, <1>5, <1>6

\* What is stored is new, the last in place and the last to expire.
LEMMA SucceedCache ==
  ASSUME IInv, NEW ms \in Latencies, Succeed(ms)
  PROVE  CacheMade' /\ CacheHolds'
<1> DEFINE r == call.request
           a == [of |-> r, by |-> Asked, made |-> now]
           new == Item(r, a)
<1>1. /\ TypeOK /\ CacheMade /\ CacheHolds /\ AskedInOrder /\ Asking /\ call' = Nothing
      /\ cache' = IF Caches(r) THEN Stored(Purged, r, a) ELSE cache
      /\ UNCHANGED <<env, file, flags, gateway, now, spoiled, calls, edits, restarts>>
  BY DEF IInv, Succeed
<1>2. call # Nothing /\ now \in Nat
  BY <1>1, CallKinds, Counts DEF Asking
<1>3. CASE ~Caches(r)
  BY <1>1, <1>2, <1>3, CacheSteady
<1>4. CASE Caches(r)
  <2>1. cache' = Stored(Purged, r, a) /\ Purged \subseteq cache
    BY <1>1, <1>4 DEF Purged
  <2>2. IsFiniteSet(cache') /\ Cardinality(cache') <= MaxItems
    <3>1. IsFiniteSet(cache) /\ Cardinality(cache) <= MaxItems
      BY <1>1 DEF CacheMade, CacheHolds
    <3>2. IsFiniteSet(Purged) /\ Cardinality(Purged) <= Cardinality(cache)
      BY <2>1, <3>1, FS_Subset
    <3>3. Cardinality(Purged) <= MaxItems
      <4>1. Cardinality(cache) \in Nat /\ Cardinality(Purged) \in Nat /\ MaxItems \in Nat
        BY <3>1, <3>2, FS_CardinalityType, BoundAssumption
      <4> QED
        BY <3>1, <3>2, <4>1
    <3>4. \A i \in Purged : i.place \in Nat
      BY <1>1, <2>1 DEF TypeOK
    <3> HIDE DEF a
    <3> QED
      BY <2>1, <3>2, <3>3, <3>4, StoreMakesRoom
  <2>3. cache' \subseteq cache \cup {new}
    BY <2>1 DEF Stored
  <2>4. /\ new.key = CacheKey(r) /\ new.answer.of = r /\ new.answer.made = now
        /\ new.expires = now + gateway.file.ttl /\ new.place = calls
    BY DEF Item
  <2>5. \A i \in cache : /\ i.key = CacheKey(i.answer.of)
                         /\ i.expires = i.answer.made + gateway.file.ttl
                         /\ i.answer.made <= now /\ i.place < calls
                         /\ i.key # CacheKey(r)
    BY <1>1, <1>2, <1>4 DEF CacheMade, AskedInOrder, Asking
  <2>6. \A i \in cache : i.answer.made \in Nat /\ i.place \in Nat
    BY <1>1 DEF TypeOK, Answer
  <2>7. calls \in Nat /\ gateway.file.ttl \in Nat
    <3>1. gateway.read
      BY <1>1, <1>2, LoadShape DEF IInv, Loaded
    <3> QED
      BY <1>1, <3>1, FileShape, Counts
  <2> HIDE DEF new, a, r
  <2>8. \A i \in cache : i.place # new.place /\ i.expires <= new.expires /\ i.place < new.place
    BY <1>2, <2>4, <2>5, <2>6, <2>7
  <2>9. \A q : CacheKey(q)' = CacheKey(q)
    BY <1>1 DEF CacheKey, ModeOf
  <2>10. CacheMade'
    <3>1. \A i \in cache' : /\ i.key = CacheKey(i.answer.of)
                            /\ i.expires = i.answer.made + gateway.file.ttl
                            /\ i.answer.made <= now /\ i.place <= calls
      <4>1. new.key = CacheKey(new.answer.of) /\ new.expires = new.answer.made + gateway.file.ttl
            /\ new.answer.made <= now /\ new.place <= calls
        BY <1>2, <2>4, <2>7
      <4>2. \A i \in cache : i.place <= calls
        BY <2>5, <2>6, <2>7
      <4> QED
        BY <2>3, <2>5, <4>1, <4>2
    <3> QED
      BY <1>1, <2>2, <2>9, <3>1 DEF CacheMade
  <2>11. CacheHolds'
    <3>1. \A i, j \in cache :
            i # j => i.key # j.key /\ i.place # j.place /\ (i.place < j.place => i.expires <= j.expires)
      BY <1>1 DEF CacheHolds
    <3>2. \A i \in cache : ~(new.place < i.place) /\ i.key # new.key
      BY <2>4, <2>5, <2>6, <2>7
    <3>3. \A i, j \in cache' :
            i # j => i.key # j.key /\ i.place # j.place /\ (i.place < j.place => i.expires <= j.expires)
      BY <2>3, <2>8, <3>1, <3>2
    <3> QED
      BY <2>2, <3>3 DEF CacheHolds
  <2> QED
    BY <2>10, <2>11
<1> QED
  BY <1>3, <1>4

\* A request finds the cache of the gateway that is there.
LEMMA ReceiveCache ==
  ASSUME IInv, NEW r \in Requests, Receive(r)
  PROVE  CacheMade' /\ CacheHolds'
<1>1. /\ TypeOK /\ Loaded /\ CacheMade /\ CacheHolds
      /\ calls' = calls + 1 /\ UNCHANGED <<now, cache>>
  BY DEF IInv, Receive
<1>2. calls \in Nat
  BY <1>1 DEF TypeOK
<1>3. CacheHolds'
  BY <1>1 DEF CacheHolds
<1>4. CASE cache = {}
  <2>1. IsFiniteSet(cache') /\ cache' = {} /\ calls' > 0
    BY <1>1, <1>2, <1>4, FS_EmptySet
  <2>2. CacheMade'
    BY <2>1 DEF CacheMade
  <2> QED
    BY <1>3, <2>2
<1>5. CASE cache # {}
  <2>1. gateway.read
    BY <1>1, <1>5 DEF Loaded
  <2>2. gateway' = gateway
    BY <2>1 DEF Receive
  <2>3. \A q : CacheKey(q)' = CacheKey(q)
    BY <2>2 DEF CacheKey, ModeOf
  <2>4. \A i \in cache : i.place \in Nat
    BY <1>1 DEF TypeOK
  <2>5. \A i \in cache : i.place <= calls' /\ i.place < calls'
    <3>1. \A i \in cache : i.place <= calls
      BY <1>1 DEF CacheMade
    <3> QED
      BY <1>1, <1>2, <2>4, <3>1
  <2> QED
    BY <1>1, <1>2, <1>3, <2>2, <2>3, <2>5 DEF CacheMade
<1> QED
  BY <1>3, <1>4, <1>5

\* Every step keeps the cache in order.
LEMMA NextCache ==
  ASSUME IInv, [Next]_vars
  PROVE  CacheMade' /\ CacheHolds'
<1>1. TypeOK /\ now \in Nat
  BY Counts DEF IInv
<1>2. call.at \in {"received", "asking"} => call # Nothing
  BY <1>1, CallKinds
<1>3. Purged \subseteq cache
  BY DEF Purged
<1>4. CASE AnswerFromCache
  BY <1>1, <1>2, <1>3, <1>4, CacheSteady DEF AnswerFromCache
<1>5. CASE Route
  BY <1>1, <1>2, <1>3, <1>5, CacheSteady DEF Route
<1>6. CASE \E code \in Codes \cup {Unavailable} : Fail(code)
  BY <1>1, <1>2, <1>6, CacheSteady DEF Fail, Asking
<1>7. CASE GiveUp
  BY <1>1, <1>2, <1>7, CacheSteady DEF GiveUp
<1>8. CASE Tick
  BY <1>1, <1>8, CacheSteady DEF Tick
<1>9. CASE \E f \in Files : EditFile(f)
  BY <1>1, <1>9, CacheSteady DEF EditFile
<1>10. CASE UNCHANGED vars
  BY <1>1, <1>10, CacheSteady DEF vars
<1>11. CASE Restart
  <2>1. cache' = {} /\ call' = Nothing
    BY <1>11 DEF Restart
  <2>2. IsFiniteSet({}) /\ Cardinality({}) <= MaxItems
    BY FS_EmptySet, BoundAssumption
  <2> QED
    BY <2>1, <2>2 DEF CacheMade, CacheHolds
<1> QED
  BY <1>4, <1>5, <1>6, <1>7, <1>8, <1>9, <1>10, <1>11, ReceiveCache, SucceedCache DEF Next

-----------------------------------------------------------------------------
(* The request in the gateway. *)

\* While it waits, nothing it was sorted by changes.
LEMMA AskedSteady ==
  ASSUME AskedInOrder, UNCHANGED <<env, gateway, latency, cache, call>>
  PROVE  AskedInOrder'
<1>1. SUFFICES ASSUME call.at = "asking" PROVE AskedInOrder'
  BY DEF AskedInOrder
<1>2. /\ Caches(call.request) => \A item \in cache : item.key # CacheKey(call.request)
      /\ Candidates(call.request) # {}
      /\ FailedOf(call) \o call.todo \in Orders(call.request)
      /\ \A i \in DOMAIN call.failed :
           ~Configured(call.failed[i][1]) => call.failed[i][2] = Unavailable
  BY <1>1 DEF AskedInOrder
<1>3. \A r : /\ Caches(r)' = Caches(r) /\ CacheKey(r)' = CacheKey(r)
             /\ Candidates(r)' = Candidates(r) /\ Orders(r)' = Orders(r)
  BY SameGateway, SameOrders
<1>4. FailedOf(call)' = FailedOf(call) /\ \A p : Configured(p)' = Configured(p)
  BY DEF FailedOf, Configured
<1>5. /\ Caches(call.request)' = Caches(call.request)
      /\ CacheKey(call.request)' = CacheKey(call.request)
      /\ Candidates(call.request)' = Candidates(call.request)
      /\ Orders(call.request)' = Orders(call.request)
  BY <1>3
<1> QED
  BY <1>2, <1>4, <1>5 DEF AskedInOrder

\* A routed request was looked for in the cache, and has everybody left to ask.
LEMMA RouteAsked ==
  ASSUME IInv, Route
  PROVE  AskedInOrder'
<1> DEFINE r == call.request
<1>1. /\ TypeOK /\ call.at = "received" /\ (Caches(r) => Found(r) = {})
      /\ cache' = IF Caches(r) THEN Purged ELSE cache
      /\ UNCHANGED <<env, gateway, latency>>
  BY DEF IInv, Route
<1>2. CASE call' = Nothing
  BY <1>2, CallKinds, <1>1 DEF AskedInOrder
<1>3. CASE /\ Candidates(r) # {}
           /\ \E s \in Orders(r) :
                call' = [at |-> "asking", request |-> r, todo |-> s, failed |-> <<>>]
  <2>1. PICK s \in Orders(r) :
          call' = [at |-> "asking", request |-> r, todo |-> s, failed |-> <<>>]
    BY <1>3
  <2>2. r \in Requests /\ gateway.read
    BY <1>1, CallKinds
  <2>3. \A c : c = call' => FailedOf(c) \o c.todo = s /\ DOMAIN c.failed = {}
    BY <1>1, <2>1, <2>2, OrderStarts
  <2>4. FailedOf(call)' \o call'.todo = s /\ DOMAIN call'.failed = {} /\ call'.request = r
    BY <2>1, <2>3 DEF FailedOf
  <2>5. \A q : /\ Caches(q)' = Caches(q) /\ CacheKey(q)' = CacheKey(q)
               /\ Candidates(q)' = Candidates(q) /\ Orders(q)' = Orders(q)
    BY <1>1, SameGateway, SameOrders
  <2>6. /\ Caches(call.request)' = Caches(r) /\ CacheKey(call.request)' = CacheKey(r)
        /\ Candidates(call.request)' = Candidates(r) /\ Orders(call.request)' = Orders(r)
    <3>1. \A q : q = call'.request =>
             /\ Caches(q)' = Caches(call.request)' /\ CacheKey(q)' = CacheKey(call.request)'
             /\ Candidates(q)' = Candidates(call.request)' /\ Orders(q)' = Orders(call.request)'
      OBVIOUS
    <3> QED
      BY <2>4, <2>5, <3>1
  <2>7. Caches(r) => \A item \in cache' : item.key # CacheKey(r)
    BY <1>1 DEF Found
  <2> QED
    BY <1>3, <2>4, <2>6, <2>7 DEF AskedInOrder
<1> QED
  BY <1>2, <1>3 DEF Route

\* A failure keeps the order, and who has no credentials failed for that.
LEMMA FailAsked ==
  ASSUME IInv, NEW code \in Codes \cup {Unavailable}, Fail(code)
  PROVE  AskedInOrder'
<1> DEFINE r == call.request
<1>1. /\ TypeOK /\ AskedInOrder /\ call.at = "asking" /\ FailsWith(code) /\ Asking
      /\ UNCHANGED <<env, gateway, latency, cache>>
  BY DEF IInv, Fail, Asking
<1>2. /\ Caches(r) => \A item \in cache : item.key # CacheKey(r)
      /\ Candidates(r) # {}
      /\ FailedOf(call) \o call.todo \in Orders(r)
      /\ \A i \in DOMAIN call.failed :
           ~Configured(call.failed[i][1]) => call.failed[i][2] = Unavailable
  BY <1>1 DEF AskedInOrder
<1>3. /\ call'.request = r
      /\ FailedOf(call)' \o call'.todo = FailedOf(call) \o call.todo
      /\ call'.failed = Append(call.failed, <<Asked, code>>)
  BY <1>1, FailSteps
<1>4. \A q : /\ Caches(q)' = Caches(q) /\ CacheKey(q)' = CacheKey(q)
             /\ Candidates(q)' = Candidates(q) /\ Orders(q)' = Orders(q)
  BY <1>1, SameGateway, SameOrders
<1>5. /\ Caches(call.request)' = Caches(r) /\ CacheKey(call.request)' = CacheKey(r)
      /\ Candidates(call.request)' = Candidates(r) /\ Orders(call.request)' = Orders(r)
  <2>1. \A q : q = call'.request =>
           /\ Caches(q)' = Caches(call.request)' /\ CacheKey(q)' = CacheKey(call.request)'
           /\ Candidates(q)' = Candidates(call.request)' /\ Orders(q)' = Orders(call.request)'
    OBVIOUS
  <2> QED
    BY <1>3, <1>4, <2>1
<1>6. ASSUME NEW i \in DOMAIN call'.failed, ~Configured(call'.failed[i][1])
      PROVE  call'.failed[i][2] = Unavailable
  <2>1. /\ call.failed \in Seq(Provider \X Nat) /\ Len(call.failed) \in Nat
        /\ DOMAIN call.failed = 1..Len(call.failed)
    BY <1>1, CallKinds, FailedShape
  <2>2. <<Asked, code>> \in Provider \X Nat
    BY <1>1, AskedShape, RequestAssumption DEF Unavailable
  <2> DEFINE F == call.failed
             x == <<Asked, code>>
  <2>3. F \in Seq(Provider \X Nat) /\ x \in Provider \X Nat
    BY <2>1, <2>2
  <2> HIDE DEF F, x
  <2>4. /\ DOMAIN Append(F, x) = 1..Len(F) + 1
        /\ \A j \in 1..Len(F) : Append(F, x)[j] = F[j]
        /\ Append(F, x)[Len(F) + 1] = x
    BY <2>3
  <2>5. CASE i \in 1..Len(F)
    BY <1>2, <1>3, <1>6, <2>1, <2>4, <2>5 DEF F, x
  <2>6. CASE i \notin 1..Len(F)
    <3>1. i = Len(F) + 1
      BY <1>3, <2>1, <2>4, <2>6 DEF F, x
    <3>2. call'.failed[i] = <<Asked, code>>
      BY <1>3, <2>4, <3>1 DEF F, x
    <3>3. ~Configured(Asked)
      BY <1>6, <3>2
    <3>4. code = Unavailable
      BY <1>1, <3>3 DEF FailsWith
    <3> QED
      BY <3>2, <3>4
  <2> QED
    BY <2>5, <2>6
<1>7. \A p : Configured(p)' = Configured(p)
  BY <1>1 DEF Configured
<1> QED
  BY <1>2, <1>3, <1>5, <1>6, <1>7, <1>1 DEF AskedInOrder

\* Until its end a request keeps the order it was routed in.
LEMMA NextAsked ==
  ASSUME IInv, [Next]_vars
  PROVE  AskedInOrder'
<1>1. AskedInOrder /\ Nothing.at # "asking"
  BY DEF IInv, Nothing
<1>2. ASSUME call' = Nothing PROVE AskedInOrder'
  BY <1>1, <1>2 DEF AskedInOrder
<1>3. ASSUME NEW r \in Requests, Receive(r) PROVE AskedInOrder'
  <2>1. call' = Nothing \/ call' = [at |-> "received", request |-> r]
    BY <1>3 DEF Receive
  <2>2. call'.at # "asking"
    BY <1>1, <2>1
  <2> QED
    BY <2>2 DEF AskedInOrder
<1>4. CASE AnswerFromCache
  BY <1>2, <1>4 DEF AnswerFromCache
<1>5. CASE \E ms \in Latencies : Succeed(ms)
  BY <1>2, <1>5 DEF Succeed
<1>6. CASE GiveUp
  BY <1>2, <1>6 DEF GiveUp
<1>7. CASE Restart
  BY <1>2, <1>7 DEF Restart
<1>8. CASE Tick
  BY <1>1, <1>8, AskedSteady DEF Tick
<1>9. CASE \E f \in Files : EditFile(f)
  BY <1>1, <1>9, AskedSteady DEF EditFile
<1>10. CASE UNCHANGED vars
  BY <1>1, <1>10, AskedSteady DEF vars
<1> QED
  BY <1>3, <1>4, <1>5, <1>6, <1>7, <1>8, <1>9, <1>10, RouteAsked, FailAsked DEF Next

-----------------------------------------------------------------------------
(* The replies. *)

\* Two lists after each other name what either names.
LEMMA ConcatSet ==
  ASSUME NEW f \in Seq(Name), NEW g \in Seq(Name)
  PROVE  ToSet(f \o g) = ToSet(f) \cup ToSet(g)
<1> DEFINE s == f \o g
<1>1. /\ s \in Seq(Name) /\ Len(s) = Len(f) + Len(g)
      /\ \A i \in 1..Len(f) + Len(g) : s[i] = IF i <= Len(f) THEN f[i] ELSE g[i - Len(f)]
  BY ConcatProperties
<1>2. /\ Len(f) \in Nat /\ Len(g) \in Nat /\ DOMAIN f = 1..Len(f) /\ DOMAIN g = 1..Len(g)
      /\ DOMAIN s = 1..Len(f) + Len(g)
  BY <1>1, LenProperties
<1> HIDE DEF s
<1>3. ToSet(s) \subseteq ToSet(f) \cup ToSet(g)
  <2> SUFFICES ASSUME NEW i \in DOMAIN s PROVE s[i] \in ToSet(f) \cup ToSet(g)
    BY DEF ToSet
  <2>1. CASE i <= Len(f)
    <3>1. i \in DOMAIN f /\ s[i] = f[i]
      BY <1>1, <1>2, <2>1
    <3> QED
      BY <3>1 DEF ToSet
  <2>2. CASE ~(i <= Len(f))
    <3>1. i - Len(f) \in DOMAIN g /\ s[i] = g[i - Len(f)]
      BY <1>1, <1>2, <2>2
    <3> QED
      BY <3>1 DEF ToSet
  <2> QED
    BY <2>1, <2>2
<1>4. ToSet(f) \subseteq ToSet(s)
  <2> SUFFICES ASSUME NEW i \in DOMAIN f PROVE f[i] \in ToSet(s)
    BY DEF ToSet
  <2>1. i \in DOMAIN s /\ i <= Len(f) /\ s[i] = f[i]
    BY <1>1, <1>2
  <2> QED
    BY <2>1 DEF ToSet
<1>5. ToSet(g) \subseteq ToSet(s)
  <2> SUFFICES ASSUME NEW i \in DOMAIN g PROVE g[i] \in ToSet(s)
    BY DEF ToSet
  <2>1. Len(f) + i \in DOMAIN s /\ ~(Len(f) + i <= Len(f)) /\ (Len(f) + i) - Len(f) = i
    BY <1>2
  <2>2. s[Len(f) + i] = g[i]
    BY <1>1, <1>2, <2>1
  <2> QED
    BY <2>1, <2>2 DEF ToSet
<1> QED
  BY <1>3, <1>4, <1>5 DEF s

\* The names in the order are those of the settings or of the file, or else
\* everybody's.
LEMMA NamedShape ==
  ASSUME TypeOK, NEW r
  PROVE  /\ env.forced # "auto" => \A p : p \in ToSet(Named(r)) <=> p = env.forced
         /\ env.forced = "auto" /\ Override(r) # <<>> => Named(r) = Override(r)
         /\ env.forced = "auto" /\ Override(r) = <<>> => Provider \subseteq ToSet(Named(r))
<1>1. ASSUME env.forced # "auto", NEW p PROVE p \in ToSet(Named(r)) <=> p = env.forced
  <2>1. Named(r) = <<env.forced>>
    BY <1>1 DEF Named
  <2>2. DOMAIN <<env.forced>> = 1..1 /\ <<env.forced>>[1] = env.forced
    OBVIOUS
  <2> QED
    BY <2>1, <2>2 DEF ToSet
<1>2. ASSUME env.forced = "auto", Override(r) # <<>> PROVE Named(r) = Override(r)
  BY <1>2 DEF Named
<1>3. ASSUME env.forced = "auto", Override(r) = <<>> PROVE Provider \subseteq ToSet(Named(r))
  <2> DEFINE e == env.order
             a == Omitted("mock")
             b == Omitted("openai")
             c == Omitted("anthropic")
  <2>1. Named(r) = e \o (a \o (b \o c))
    BY <1>3 DEF Named, FallbackOrder
  <2>2. e \in Seq(Name) /\ Provider \subseteq Name
    BY SettingsAssumption DEF TypeOK, Environment
  <2>3. \A p \in Provider : /\ Omitted(p) \in Seq(Name)
                            /\ p \in ToSet(e) \/ p \in ToSet(Omitted(p))
    <3> SUFFICES ASSUME NEW p \in Provider
                 PROVE  /\ Omitted(p) \in Seq(Name)
                        /\ p \in ToSet(e) \/ p \in ToSet(Omitted(p))
      OBVIOUS
    <3>1. <<>> \in Seq(Name) /\ <<p>> \in Seq(Name)
      BY <2>2
    <3>2. p \in ToSet(<<p>>)
      <4>1. DOMAIN <<p>> = 1..1 /\ <<p>>[1] = p
        OBVIOUS
      <4> QED
        BY <4>1 DEF ToSet
    <3> QED
      BY <3>1, <3>2 DEF Omitted
  <2>4. /\ a \in Seq(Name) /\ b \in Seq(Name) /\ c \in Seq(Name)
        /\ "mock" \in ToSet(e) \/ "mock" \in ToSet(a)
        /\ "openai" \in ToSet(e) \/ "openai" \in ToSet(b)
        /\ "anthropic" \in ToSet(e) \/ "anthropic" \in ToSet(c)
    BY <2>3 DEF Provider
  <2> HIDE DEF a, b, c, e
  <2>5. b \o c \in Seq(Name) /\ a \o (b \o c) \in Seq(Name)
    BY <2>4, ConcatProperties
  <2>6. \A f, g \in Seq(Name) : ToSet(f \o g) = ToSet(f) \cup ToSet(g)
    BY ConcatSet
  <2>7. ToSet(e \o (a \o (b \o c))) = ToSet(e) \cup ToSet(a) \cup ToSet(b) \cup ToSet(c)
    <3>1. ToSet(b \o c) = ToSet(b) \cup ToSet(c)
      BY <2>4, <2>6
    <3>2. ToSet(a \o (b \o c)) = ToSet(a) \cup ToSet(b \o c)
      BY <2>4, <2>5, <2>6
    <3>3. ToSet(e \o (a \o (b \o c))) = ToSet(e) \cup ToSet(a \o (b \o c))
      BY <2>2, <2>5, <2>6
    <3> QED
      BY <3>1, <3>2, <3>3
  <2> QED
    BY <2>1, <2>4, <2>7 DEF Provider
<1> QED
  BY <1>1, <1>2, <1>3

\* The candidates are those who may be asked, except the ones that a routing file
\* that did not load left switched off.
LEMMA CandidatesEligible ==
  ASSUME TypeOK, Loaded, gateway.read, NEW r
  PROVE  /\ Candidates(r) \subseteq Eligible(r) /\ Eligible(r) \subseteq Candidates(r) \cup spoiled
         /\ Contradicted(r) => Eligible(r) = Candidates(r)
<1>1. /\ gateway.enabled \subseteq Allowed(gateway.file)
      /\ Allowed(gateway.file) \subseteq gateway.enabled \cup spoiled
  BY DEF Loaded
<1>2. CASE env.forced # "auto"
  <2>1. Eligible(r) = Candidates(r)
    BY <1>2, NamedShape DEF Candidates, Eligible
  <2> QED
    BY <2>1
<1>3. CASE env.forced = "auto" /\ Override(r) # <<>>
  BY <1>1, <1>3, NamedShape DEF Candidates, Eligible, Contradicted
<1>4. CASE env.forced = "auto" /\ Override(r) = <<>>
  BY <1>1, <1>4, NamedShape DEF Candidates, Eligible, Contradicted
<1> QED
  BY <1>2, <1>3, <1>4

\* The reply stays what it is while the gateway does.
LEMMA ReplySteady ==
  ASSUME AnswerIsFresh, AnswerIsOwn, RepliesLast,
         UNCHANGED <<env, gateway, reply, spoiled>>
  PROVE  AnswerIsFresh' /\ AnswerIsOwn' /\ RepliesLast'
<1>1. \A r : /\ Effective(r)' = Effective(r) /\ Eligible(r)' = Eligible(r)
             /\ Contradicted(r)' = Contradicted(r)
  BY SameGateway
<1>2. \A p : Configured(p)' = Configured(p)
  BY DEF Configured
<1>3. /\ Effective(reply.to)' = Effective(reply.to)
      /\ Effective(reply.answer.of)' = Effective(reply.answer.of)
      /\ Eligible(reply.to)' = Eligible(reply.to)
      /\ Contradicted(reply.to)' = Contradicted(reply.to)
  BY <1>1
<1>4. AnswerIsFresh'
  BY DEF AnswerIsFresh
<1>5. AnswerIsOwn'
  BY <1>3 DEF AnswerIsOwn
<1>6. RepliesLast'
  BY <1>2, <1>3 DEF RepliesLast
<1> QED
  BY <1>4, <1>5, <1>6

\* A request that is refused at the door reached no provider.
LEMMA ReceiveReply ==
  ASSUME IInv, NEW r \in Requests, Receive(r)
  PROVE  AnswerIsFresh' /\ AnswerIsOwn' /\ RepliesLast'
<1> DEFINE fails == ~gateway.read /\ file.fault # 0
<1>1. CASE reply' = NoReply
  BY <1>1 DEF NoReply, AnswerIsFresh, AnswerIsOwn, RepliesLast
<1>2. CASE /\ fails \/ ~Normalizes(r)
           /\ reply' = Refused(r, IF fails THEN file.fault ELSE 400, {})
  <2>1. reply'.status \in 400..599 /\ reply'.to = r
    <3>1. \A code : Refused(r, code, {}).status \in 400..599 /\ Refused(r, code, {}).to = r
      BY RefusedShape DEF Refused
    <3> QED
      BY <1>2, <3>1
  <2>2. reply'.status # 200
    BY <2>1
  <2>3. fails => gateway' = gateway /\ ~gateway'.read
    BY DEF Receive
  <2>4. ~(reply'.to.sound /\ gateway'.read)
    BY <1>2, <2>1, <2>3 DEF Normalizes
  <2> QED
    BY <2>2, <2>4 DEF AnswerIsFresh, AnswerIsOwn, RepliesLast
<1> QED
  BY <1>1, <1>2 DEF Receive

\* What the cache returns has not expired and has the key of the request.
LEMMA CacheReply ==
  ASSUME IInv, AnswerFromCache
  PROVE  AnswerIsFresh' /\ AnswerIsOwn' /\ RepliesLast'
<1> DEFINE r == call.request
<1>1. /\ TypeOK /\ CacheMade /\ call.at = "received" /\ UNCHANGED <<env, gateway, now>>
  BY DEF IInv, AnswerFromCache
<1>2. PICK item \in Found(r) :
        reply' = [status |-> 200, to |-> r, answer |-> item.answer, at |-> now]
  BY DEF AnswerFromCache
<1>3. item \in cache /\ item.expires > now /\ item.key = CacheKey(r)
  BY DEF Found, Purged
<1>4. item.key = CacheKey(item.answer.of) /\ item.expires = item.answer.made + gateway.file.ttl
  BY <1>1, <1>3 DEF CacheMade
<1>5. r \in Requests /\ item.answer.of \in Requests
  BY <1>1, <1>3, CallKinds DEF TypeOK, Answer
<1>6. Effective(r) = Effective(item.answer.of)
  BY <1>3, <1>4, <1>5, KeyDecides
<1>7. AnswerIsFresh'
  <2>1. item.answer.made + gateway.file.ttl > now
    BY <1>3, <1>4
  <2>2. now < item.answer.made + gateway.file.ttl
    BY <2>1
  <2> QED
    BY <1>1, <1>2, <2>2 DEF AnswerIsFresh
<1>8. AnswerIsOwn'
  <2>1. \A q : Effective(q)' = Effective(q)
    BY <1>1, SameGateway
  <2>2. \A q : /\ q = reply'.to => Effective(reply.to)' = Effective(q)'
               /\ q = reply'.answer.of => Effective(reply.answer.of)' = Effective(q)'
    OBVIOUS
  <2>3. reply'.to = r /\ reply'.answer.of = item.answer.of
    BY <1>2
  <2>4. Effective(reply.to)' = Effective(reply.answer.of)'
    BY <1>6, <2>1, <2>2, <2>3
  <2> QED
    BY <2>4 DEF AnswerIsOwn
<1>9. RepliesLast'
  BY <1>2 DEF RepliesLast
<1> QED
  BY <1>7, <1>8, <1>9

\* A provider answers the request it was asked for, at that moment.
LEMMA SucceedReply ==
  ASSUME IInv, NEW ms \in Latencies, Succeed(ms)
  PROVE  AnswerIsFresh' /\ AnswerIsOwn' /\ RepliesLast'
<1>1. reply' = [status |-> 200, to |-> call.request, at |-> now,
                answer |-> [of |-> call.request, by |-> Asked, made |-> now]]
  BY DEF Succeed
<1>2. reply'.to = reply'.answer.of /\ reply'.at = reply'.answer.made /\ reply'.status = 200
  BY <1>1
<1>3. Effective(reply.to)' = Effective(reply.answer.of)'
  <2>1. \A q, s : q = s => Effective(q)' = Effective(s)'
    OBVIOUS
  <2> QED
    BY <1>2, <2>1
<1> QED
  BY <1>2, <1>3 DEF AnswerIsFresh, AnswerIsOwn, RepliesLast

\* An error is given up to the endpoint when nobody is left to ask.
LEMMA LastReply ==
  ASSUME TypeOK, Loaded, gateway.read, UNCHANGED <<env, gateway, spoiled>>,
         NEW r \in Requests, NEW code, NEW tried \in SUBSET Candidates(r),
         reply' = Refused(r, code, tried),
         Contradicted(r) /\ Eligible(r) # {} => tried = {} /\ code = 500,
         ~(Contradicted(r) /\ Eligible(r) # {}) =>
           /\ tried = Candidates(r)
           /\ (\A p \in Candidates(r) : ~Configured(p)) => code = Unavailable
  PROVE  AnswerIsFresh' /\ AnswerIsOwn' /\ RepliesLast'
<1>1. reply'.status = StatusOf(code) /\ reply'.to = r /\ reply'.tried = tried
  BY DEF Refused
<1>2. reply'.status # 200
  BY <1>1 DEF StatusOf
<1>3. /\ Eligible(r)' = Eligible(r) /\ Contradicted(r)' = Contradicted(r)
      /\ \A p : Configured(p)' = Configured(p)
  BY SameGateway DEF Configured
<1>4. Eligible(reply.to)' = Eligible(r) /\ Contradicted(reply.to)' = Contradicted(r)
  <2>1. \A q : q = reply'.to =>
          Eligible(reply.to)' = Eligible(q)' /\ Contradicted(reply.to)' = Contradicted(q)'
    OBVIOUS
  <2> QED
    BY <1>1, <1>3, <2>1
<1>5. reply'.tried \subseteq Eligible(r)
  BY <1>1, CandidatesEligible
<1> DEFINE mute == Contradicted(r) /\ Eligible(r) # {}
<1>6. mute => reply'.tried = {} /\ reply'.status = 500
  BY <1>1 DEF StatusOf
<1>7. ~mute => /\ Eligible(r) \subseteq reply'.tried \cup spoiled'
               /\ (\A p \in reply'.tried : ~Configured(p)) => reply'.status = 503
  <2> SUFFICES ASSUME ~mute
               PROVE  /\ Eligible(r) \subseteq reply'.tried \cup spoiled'
                      /\ (\A p \in reply'.tried : ~Configured(p)) => reply'.status = 503
    OBVIOUS
  <2>1. tried = Candidates(r) /\ ((\A p \in Candidates(r) : ~Configured(p)) => code = Unavailable)
    OBVIOUS
  <2>2. Eligible(r) \subseteq reply'.tried \cup spoiled'
    BY <1>1, <2>1, CandidatesEligible
  <2> QED
    BY <1>1, <2>1, <2>2 DEF StatusOf, Unavailable
<1>8. RepliesLast'
  BY <1>3, <1>4, <1>5, <1>6, <1>7 DEF RepliesLast
<1> QED
  BY <1>2, <1>8 DEF AnswerIsFresh, AnswerIsOwn

\* A request without candidates fails with everybody tried there is.
LEMMA RouteReply ==
  ASSUME IInv, Route
  PROVE  AnswerIsFresh' /\ AnswerIsOwn' /\ RepliesLast'
<1>1. /\ TypeOK /\ Loaded /\ AnswerIsFresh /\ AnswerIsOwn /\ RepliesLast
      /\ call.at = "received" /\ UNCHANGED <<env, gateway, spoiled>>
  BY DEF IInv, Route
<1>2. CASE UNCHANGED reply
  BY <1>1, <1>2, ReplySteady
<1>3. CASE Candidates(call.request) = {} /\ reply' = Refused(call.request, 503, {})
  <2>1. call.request \in Requests /\ gateway.read
    BY <1>1, CallKinds
  <2>2. reply' = Refused(call.request, Unavailable, Candidates(call.request))
    BY <1>3 DEF Unavailable
  <2>3. ~(Contradicted(call.request) /\ Eligible(call.request) # {})
    BY <1>1, <1>3, <2>1, CandidatesEligible
  <2> QED
    BY <1>1, <2>1, <2>2, <2>3, LastReply
<1> QED
  BY <1>2, <1>3 DEF Route

\* A request whose list is empty has tried all of its candidates, or had none in
\* its order.
LEMMA GiveUpReply ==
  ASSUME IInv, GiveUp
  PROVE  AnswerIsFresh' /\ AnswerIsOwn' /\ RepliesLast'
<1> DEFINE r == call.request
           F == FailedOf(call)
<1>1. /\ TypeOK /\ Loaded /\ AskedInOrder /\ call.at = "asking" /\ call.todo = <<>>
      /\ reply' = Refused(r, LastError, ToSet(F))
      /\ UNCHANGED <<env, gateway, spoiled>>
  BY DEF IInv, GiveUp
<1>2. call \in Serve /\ r \in Requests /\ gateway.read
  BY <1>1, CallKinds, LoadShape DEF Loaded
<1>3. /\ F \in Seq(Provider) /\ Len(F) = Len(call.failed) /\ Len(F) \in Nat
      /\ DOMAIN F = 1..Len(F) /\ DOMAIN call.failed = 1..Len(F)
      /\ \A i \in DOMAIN call.failed : F[i] = call.failed[i][1]
      /\ call.failed \in Seq(Provider \X Nat)
  BY <1>2, FailedShape
<1>4. F \o call.todo = F
  BY <1>1, <1>3, ConcatEmptySeq
<1>5. F \in Orders(r) /\ Candidates(r) # {}
  BY <1>1, <1>4 DEF AskedInOrder
<1>6. ToSet(F) = Placed(r) /\ Candidates(r) \subseteq Eligible(r)
  BY <1>1, <1>2, <1>5, OrderShape, CandidatesEligible
<1>7. CASE Contradicted(r)
  <2>1. ToSet(F) = {}
    BY <1>6, <1>7, PlacedShape
  <2>2. call.failed = <<>>
    <3>1. Len(F) = 0
      <4> SUFFICES ASSUME Len(F) # 0 PROVE FALSE
        OBVIOUS
      <4>1. 1 \in DOMAIN F
        BY <1>3
      <4> QED
        BY <2>1, <4>1 DEF ToSet
    <3> QED
      BY <1>3, <3>1, EmptySeq
  <2>3. LastError = 500
    BY <2>2 DEF LastError
  <2>4. Eligible(r) # {}
    BY <1>5, <1>6
  <2> QED
    BY <1>1, <1>2, <1>7, <2>1, <2>3, <2>4, LastReply
<1>8. CASE ~Contradicted(r)
  <2>1. ToSet(F) = Candidates(r) /\ F # <<>>
    <3>1. ToSet(F) = Candidates(r)
      BY <1>6, <1>8, PlacedShape
    <3>2. F = <<>> => ToSet(F) = {}
      BY DEF ToSet
    <3> QED
      BY <1>5, <3>1, <3>2
  <2>2. Len(F) \in DOMAIN call.failed /\ call.failed # <<>>
    <3>1. Len(F) # 0
      BY <1>3, <2>1, EmptySeq
    <3> QED
      BY <1>3, <3>1
  <2>3. (\A p \in Candidates(r) : ~Configured(p)) => LastError = Unavailable
    <3> SUFFICES ASSUME \A p \in Candidates(r) : ~Configured(p) PROVE LastError = Unavailable
      OBVIOUS
    <3>1. F[Len(F)] \in Candidates(r)
      BY <1>3, <2>1, <2>2 DEF ToSet
    <3>2. ~Configured(call.failed[Len(F)][1])
      BY <1>3, <2>2, <3>1
    <3>3. call.failed[Len(F)][2] = Unavailable
      BY <1>1, <2>2, <3>2 DEF AskedInOrder
    <3> QED
      BY <1>3, <2>2, <3>3 DEF LastError
  <2> QED
    BY <1>1, <1>2, <1>8, <2>1, <2>3, LastReply
<1> QED
  BY <1>7, <1>8

\* Every reply is fresh, its own, and the last resort.
LEMMA NextReply ==
  ASSUME IInv, [Next]_vars
  PROVE  AnswerIsFresh' /\ AnswerIsOwn' /\ RepliesLast'
<1>1. AnswerIsFresh /\ AnswerIsOwn /\ RepliesLast
  BY DEF IInv
<1>2. CASE \E code \in Codes \cup {Unavailable} : Fail(code)
  BY <1>1, <1>2, ReplySteady DEF Fail
<1>3. CASE Tick
  BY <1>1, <1>3, ReplySteady DEF Tick
<1>4. CASE \E f \in Files : EditFile(f)
  BY <1>1, <1>4, ReplySteady DEF EditFile
<1>5. CASE UNCHANGED vars
  BY <1>1, <1>5, ReplySteady DEF vars
<1>6. CASE Restart
  BY <1>6 DEF Restart, NoReply, AnswerIsFresh, AnswerIsOwn, RepliesLast
<1> QED
  BY <1>2, <1>3, <1>4, <1>5, <1>6, ReceiveReply, CacheReply, SucceedReply, RouteReply,
     GiveUpReply DEF Next

-----------------------------------------------------------------------------
(* The theorems. *)

\* All of it holds at first.
LEMMA InitIInv == Init => IInv
<1> SUFFICES ASSUME Init PROVE IInv
  OBVIOUS
<1>1. TypeOK
  <2>1. NoAnswersYet \in [Provider -> Nat \cup {-1}]
    BY DEF NoAnswersYet
  <2> QED
    BY <2>1, BoundAssumption DEF Init, TypeOK
<1>2. CacheMade /\ CacheHolds
  BY FS_EmptySet, BoundAssumption DEF Init, CacheMade, CacheHolds
<1>3. Loaded /\ AskedInOrder
  BY DEF Init, Loaded, AskedInOrder, NoGateway, NoReply, Nothing
<1>4. AnswerIsFresh /\ AnswerIsOwn /\ RepliesLast
  BY DEF Init, AnswerIsFresh, AnswerIsOwn, RepliesLast, NoReply
<1> QED
  BY <1>1, <1>2, <1>3, <1>4 DEF IInv

\* Every step keeps the invariant.
LEMMA NextIInv == IInv /\ [Next]_vars => IInv'
<1> SUFFICES ASSUME IInv, [Next]_vars PROVE IInv'
  OBVIOUS
<1> QED
  BY NextType, NextLoaded, NextCache, NextAsked, NextReply DEF IInv

\* The inductive invariant holds of every behaviour of the gateway.
THEOREM Invariance == Spec => []IInv
BY InitIInv, NextIInv, PTL DEF Spec

\* Every variable keeps its type, whatever the routing file, the providers and
\* the requests are.
THEOREM TypeCorrect == Spec => []TypeOK
<1>1. IInv => TypeOK
  BY DEF IInv
<1> QED
  BY <1>1, Invariance, PTL

\* TTLCache.set keeps the cache within max_items, with one entry per key, and
\* evicts the entry that would expire first.
THEOREM CacheHoldsHolds == Spec => []CacheHolds
<1>1. IInv => CacheHolds
  BY DEF IInv
<1> QED
  BY <1>1, Invariance, PTL

\* AIGateway.handle never answers with what has outlived its time in the cache.
THEOREM AnswerIsFreshHolds == Spec => []AnswerIsFresh
<1>1. IInv => AnswerIsFresh
  BY DEF IInv
<1> QED
  BY <1>1, Invariance, PTL

\* AIGateway.handle answers a request with what was made for the same request, as
\* far as the cut prompt tells.
THEOREM AnswerIsOwnHolds == Spec => []AnswerIsOwn
<1>1. IInv => AnswerIsOwn
  BY DEF IInv
<1> QED
  BY <1>1, Invariance, PTL

\* Who serves a mode better sorts first.
LEMMA BetterSortsFirst ==
  ASSUME TypeOK, gateway.read, NEW r \in Requests,
         NEW p \in Provider, NEW q \in Provider, Better(r, p, q)
  PROVE  Score(r, p) # Score(r, q) /\ ~Less(Score(r, q), Score(r, p))
<1>1. /\ CostScore(r, p) \in Nat /\ Speed(p) \in Nat /\ ProfileOf(p).quality \in 0..10
      /\ CostScore(r, q) \in Nat /\ Speed(q) \in Nat /\ ProfileOf(q).quality \in 0..10
  BY ScoreShape
<1>2. CASE ModeOf(r) = "cheap" /\ CostScore(r, p) < CostScore(r, q)
  BY <1>1, <1>2 DEF Score, Less
<1>3. CASE ModeOf(r) = "fast" /\ Speed(p) < Speed(q)
  BY <1>1, <1>3 DEF Score, Less
<1>4. CASE ModeOf(r) = "best" /\ ProfileOf(p).quality > ProfileOf(q).quality
  <2>1. Score(r, p)[1] = -ProfileOf(p).quality /\ Score(r, q)[1] = -ProfileOf(q).quality
    BY <1>4 DEF Score
  <2>2. Score(r, p)[1] < Score(r, q)[1]
    BY <1>1, <1>4, <2>1
  <2> QED
    BY <1>1, <2>1, <2>2 DEF Less
<1> QED
  BY <1>2, <1>3, <1>4 DEF Better

\* Who is asked comes in the order before all who are still to be asked.
LEMMA BestFirst ==
  ASSUME IInv
  PROVE  BestIsAsked
<1> DEFINE r == call.request
<1>1. SUFFICES ASSUME Asking, Sorted(r), NEW p \in Candidates(r), Better(r, p, Asked)
               PROVE  p \in ToSet(FailedOf(call))
  BY DEF BestIsAsked
<1> DEFINE F == FailedOf(call)
           T == call.todo
           s == F \o T
           k == Len(F)
<1>2. /\ TypeOK /\ Loaded /\ call.at = "asking" /\ call \in Serve /\ r \in Requests /\ gateway.read
      /\ T # <<>> /\ Asked \in Provider /\ p \in Provider
  <2>1. TypeOK /\ Loaded /\ call.at = "asking" /\ p \in Provider
    BY <1>1 DEF IInv, Asking, Candidates
  <2>2. call \in Serve /\ r \in Requests /\ gateway.read
    BY <2>1, CallKinds, LoadShape DEF Loaded
  <2> QED
    BY <1>1, <2>1, <2>2, AskedShape
<1>3. /\ F \in Seq(Provider) /\ T \in Seq(Provider) /\ k \in Nat /\ Len(T) \in Nat \ {0}
      /\ DOMAIN F = 1..k
  BY <1>2, FailedShape, EmptySeq
<1>4. s \in Orders(r)
  BY <1>2 DEF IInv, AskedInOrder
<1>5. /\ ToSet(s) = Candidates(r) /\ DOMAIN s = 1..Len(s)
      /\ \A i, j \in DOMAIN s : i < j =>
           \E a, b \in Places(r) :
             s[i] = Listing(r)[a] /\ s[j] = Listing(r)[b] /\ Before(r, a, b)
  <2>1. ~Contradicted(r)
    BY <1>1 DEF Sorted, Contradicted
  <2> HIDE DEF s
  <2> QED
    BY <1>2, <1>4, <2>1, OrderShape, PlacedShape
<1>6. Asked = T[1]
  BY <1>3 DEF Asked
<1> HIDE DEF F, T, k
<1>7. /\ Len(s) = k + Len(T)
      /\ \A i \in 1..k + Len(T) : s[i] = IF i <= k THEN F[i] ELSE T[i - k]
  BY <1>3, ConcatProperties DEF k
<1> HIDE DEF s
<1>8. k + 1 \in DOMAIN s /\ s[k + 1] = Asked
  <2>1. k + 1 \in 1..k + Len(T) /\ ~(k + 1 <= k) /\ (k + 1) - k = 1
    BY <1>3
  <2> QED
    BY <1>5, <1>6, <1>7, <2>1
<1>9. PICK i \in DOMAIN s : s[i] = p
  BY <1>5 DEF ToSet
<1>10. Score(r, p) # Score(r, Asked) /\ ~Less(Score(r, Asked), Score(r, p))
  BY <1>1, <1>2, BetterSortsFirst
<1>11. i # k + 1
  BY <1>8, <1>9, <1>10
<1>12. ~(k + 1 < i)
  <2> SUFFICES ASSUME k + 1 < i PROVE FALSE
    OBVIOUS
  <2>1. PICK a \in Places(r), b \in Places(r) :
          Asked = Listing(r)[a] /\ p = Listing(r)[b] /\ Before(r, a, b)
    BY <1>5, <1>8, <1>9
  <2> QED
    BY <1>1, <1>10, <2>1 DEF Before
<1>13. i \in 1..k /\ i <= k
  BY <1>3, <1>5, <1>7, <1>11, <1>12
<1>14. F[i] = p
  BY <1>5, <1>7, <1>9, <1>13
<1> QED
  BY <1>3, <1>13, <1>14 DEF ToSet, F

\* ProviderRouter asks nobody before a provider that serves the mode better,
\* unless that one has failed in the same call.
THEOREM BestIsAskedHolds == Spec => []BestIsAsked
BY Invariance, BestFirst, PTL

\* The list of those to be asked is the list of those who may be.
LEMMA EverybodyTried ==
  ASSUME IInv
  PROVE  FailsLast
<1>1. TypeOK /\ Loaded /\ AskedInOrder /\ RepliesLast
  BY DEF IInv
<1>2. ASSUME call.at = "asking"
      PROVE  ToSet(FailedOf(call) \o call.todo) \subseteq Eligible(call.request)
  <2>1. gateway.read /\ call.request \in Requests
    BY <1>1, <1>2, CallKinds, LoadShape DEF Loaded
  <2>2. ToSet(FailedOf(call) \o call.todo) \subseteq Candidates(call.request)
    BY <1>1, <1>2, <2>1, OrderShape, PlacedShape DEF AskedInOrder
  <2> QED
    BY <1>1, <2>1, <2>2, CandidatesEligible
<1> QED
  BY <1>1, <1>2 DEF FailsLast, RepliesLast

\* ProviderRouter.route asks nobody whom the settings or the routing file rule
\* out, and fails only after everybody else was tried, unless PROVIDER and the
\* file's order for the mode contradict each other: then it asks nobody.
THEOREM FailsLastHolds == Spec => []FailsLast
BY Invariance, EverybodyTried, PTL

-----------------------------------------------------------------------------
(* Whom the router asks next is decided. *)

\* Scores compare by one number, and then by another.
LEMMA ScorePair ==
  ASSUME TypeOK, gateway.read, NEW r \in Requests, NEW p \in Provider
  PROVE  /\ Score(r, p) = <<Score(r, p)[1], Score(r, p)[2]>>
         /\ Score(r, p)[1] \in Int /\ Score(r, p)[2] \in Int
<1>1. CostScore(r, p) \in Nat /\ Speed(p) \in Nat /\ ProfileOf(p).quality \in 0..10
  BY ScoreShape
<1>2. AutoScore(r, p) \in Int
  <2> DEFINE c == CostScore(r, p)
             k == IF c < Dollar THEN c ELSE c \div 1000
             q == 10 - ProfileOf(p).quality
  <2>1. k \in Nat /\ q \in Int /\ Scale \in Nat /\ Speed(p) \in Nat
    BY <1>1, ScaleAssumption DEF Dollar
  <2>2. AutoScore(r, p) = 9 * k * Scale + 500 * Speed(p) + 600000 * q * Scale
    BY DEF AutoScore
  <2> HIDE DEF k, q
  <2>3. 9 * k * Scale \in Int /\ 500 * Speed(p) \in Int /\ 600000 * q * Scale \in Int
    BY <2>1
  <2> QED
    BY <2>2, <2>3
<1>3. -ProfileOf(p).quality \in Int
  BY <1>1
<1>4. \/ Score(r, p) = <<CostScore(r, p), 0>> \/ Score(r, p) = <<Speed(p), 0>>
      \/ Score(r, p) = <<-ProfileOf(p).quality, Speed(p)>> \/ Score(r, p) = <<AutoScore(r, p), 0>>
  BY DEF Score
<1> QED
  BY <1>1, <1>2, <1>3, <1>4

\* The sort compares any two places, and never in a circle.
LEMMA BeforeOrders ==
  ASSUME TypeOK, gateway.read, NEW r \in Requests
  PROVE  /\ \A i \in Places(r) : ~Before(r, i, i)
         /\ \A i, j \in Places(r) : i # j => Before(r, i, j) \/ Before(r, j, i)
         /\ \A i, j, k \in Places(r) : Before(r, i, j) /\ Before(r, j, k) => Before(r, i, k)
<1> DEFINE C == Places(r)
           P(i) == Listing(r)[i]
           a(i) == Score(r, P(i))[1]
           b(i) == Score(r, P(i))[2]
<1>1. \A i \in C : i \in Nat /\ P(i) \in Provider
  BY ListingShape, PlacedShape DEF Places
<1>2. \A i \in C : a(i) \in Int /\ b(i) \in Int /\ Score(r, P(i)) = <<a(i), b(i)>>
  <2> HIDE DEF C, P
  <2> QED
    BY <1>1, ScorePair
<1>3. \A i, j \in C : Score(r, P(i)) = Score(r, P(j)) <=> a(i) = a(j) /\ b(i) = b(j)
  <2> SUFFICES ASSUME NEW i \in C, NEW j \in C
               PROVE  Score(r, P(i)) = Score(r, P(j)) <=> a(i) = a(j) /\ b(i) = b(j)
    OBVIOUS
  <2> QED
    BY <1>2
<1>4. CASE ~Sorted(r)
  <2>1. \A i, j \in C : Before(r, i, j) <=> i < j
    BY <1>4 DEF Before
  <2> HIDE DEF C, P, a, b
  <2> QED
    BY <1>1, <2>1 DEF C
<1>5. CASE Sorted(r)
  <2>1. \A i, j \in C : Before(r, i, j) <=>
          \/ a(i) < a(j) \/ (a(i) = a(j) /\ b(i) < b(j))
          \/ (a(i) = a(j) /\ b(i) = b(j) /\ i < j)
    <3> SUFFICES ASSUME NEW i \in C, NEW j \in C
                 PROVE  Before(r, i, j) <=>
                          \/ a(i) < a(j) \/ (a(i) = a(j) /\ b(i) < b(j))
                          \/ (a(i) = a(j) /\ b(i) = b(j) /\ i < j)
      OBVIOUS
    <3>1. a(i) \in Int /\ b(i) \in Int /\ a(j) \in Int /\ b(j) \in Int
      BY <1>2
    <3>2. CASE Score(r, P(i)) # Score(r, P(j))
      <4>1. Before(r, i, j) <=> a(i) < a(j) \/ (a(i) = a(j) /\ b(i) < b(j))
        BY <1>5, <3>2 DEF Before, Less
      <4>2. ~(a(i) = a(j) /\ b(i) = b(j))
        BY <1>3, <3>2
      <4> HIDE DEF a, b, P
      <4> QED
        BY <4>1, <4>2
    <3>3. CASE Score(r, P(i)) = Score(r, P(j))
      <4>1. Before(r, i, j) <=> i < j
        BY <3>3 DEF Before
      <4>2. a(i) = a(j) /\ b(i) = b(j)
        BY <3>3
      <4> HIDE DEF a, b, P
      <4> QED
        BY <3>1, <4>1, <4>2
    <3> QED
      BY <3>2, <3>3
  <2> HIDE DEF C, P, a, b
  <2>2. \A i \in C : ~Before(r, i, i)
    BY <1>1, <1>2, <2>1
  <2>3. \A i, j \in C : i # j => Before(r, i, j) \/ Before(r, j, i)
    BY <1>1, <1>2, <2>1
  <2>4. \A i, j, k \in C : Before(r, i, j) /\ Before(r, j, k) => Before(r, i, k)
    BY <1>1, <1>2, <2>1
  <2> QED
    BY <2>2, <2>3, <2>4 DEF C
<1> QED
  BY <1>4, <1>5

\* The router has exactly one order for a request, be it an empty one.
OneOrder == call.at = "received" => \E order : Orders(call.request) = {order}

\* The sort leaves no choice.
LEMMA SortDecides ==
  ASSUME IInv
  PROVE  OneOrder
<1> DEFINE r == call.request
           C == Places(r)
           B == {x \in C \X C : Before(r, x[1], x[2])}
<1>1. SUFFICES ASSUME call.at = "received" PROVE \E s : Orders(r) = {s}
  BY DEF OneOrder
<1>2. TypeOK /\ gateway.read /\ r \in Requests
  BY <1>1, CallKinds DEF IInv
<1>3. IsFiniteSet(C)
  BY <1>2, ListingShape
<1>4. \A x, y \in C : <<x, y>> \in B <=> Before(r, x, y)
  OBVIOUS
<1>5. OrderedBy(C, B)
  <2>1. /\ \A i \in C : ~Before(r, i, i)
        /\ \A i, j \in C : i # j => Before(r, i, j) \/ Before(r, j, i)
        /\ \A i, j, k \in C : Before(r, i, j) /\ Before(r, j, k) => Before(r, i, k)
    BY <1>2, BeforeOrders
  <2> HIDE DEF C, B, r
  <2> QED
    BY <1>4, <2>1 DEF OrderedBy
<1>6. OneList(C, B)
  <2> HIDE DEF B, C
  <2> QED
    BY <1>3, <1>5, OrderMakesList
<1>7. \A s : s \in Rankings(r) <=> Along(s, C, B)
  <2> SUFFICES ASSUME NEW s, s \in SetToSeqs(C)
               PROVE  (\A i, j \in DOMAIN s : i < j => Before(r, s[i], s[j]))
                        <=> (\A i, j \in DOMAIN s : i < j => <<s[i], s[j]>> \in B)
    BY DEF Rankings, Along
  <2>1. \A i \in DOMAIN s : s[i] \in C
    BY DEF SetToSeqs
  <2> HIDE DEF C, B, r
  <2> QED
    BY <1>4, <2>1
<1>8. PICK s : Along(s, C, B) /\ \A t : Along(t, C, B) => t = s
  BY <1>6 DEF OneList
<1>9. Rankings(r) = {s}
  BY <1>7, <1>8
<1>10. Orders(r) = {[k \in DOMAIN s |-> Listing(r)[s[k]]]}
  BY <1>9 DEF Orders
<1> QED
  BY <1>10

\* ProviderRouter never lacks an order to ask in, and never has a choice between
\* two: scores are compared in full, ties keep the order of the settings, and a
\* name that is listed twice is compared by its places.
THEOREM OneOrderHolds == Spec => []OneOrder
BY Invariance, SortDecides, PTL
===============================================================================
