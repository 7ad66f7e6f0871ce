----------------------------- MODULE EngineProofs -----------------------------
(***************************************************************************)
(* Theorems about the execution engine and the background services.        *)
(* ExecutionEngine, for every finite net and every configuration: a        *)
(* transition completes only on inputs its gates were owed, an outcome is  *)
(* final, and on the single-threaded paths no enabled transition is        *)
(* forgotten or run on stale inputs.  ServiceRegistry, for any number of   *)
(* threads, keys, plugins and services: the registry and the calls in      *)
(* progress account for every service that runs.                           *)
(***************************************************************************)
EXTENDS ExecutionEngine, ServiceRegistry, FiniteSetTheorems, SequenceTheorems, TLAPS


\* The transition and key of an item.
Pair(i) == <<i.t, i.k>>
\* No two positions of a queue hold one pair.
Distinct(s) == \A i, j \in DOMAIN s : i # j => Pair(s[i]) # Pair(s[j])
\* Two queues have no pair in common.
Apart(s, u) == PairsOf(s) \cap PairsOf(u) = {}

\* What an execution is: its net is one of the nets, and it is not changed.
LEMMA NetFacts ==
    ASSUME TypeOK
    PROVE  /\ net \in NetType /\ config \in ConfigType
           /\ \A t \in Transitions : net.required[t] \subseteq net.in[t]
  <1> DEFINE e == [net |-> net, config |-> config]
  <1>1. e \in Executions /\ e.net = net /\ e.config = config  BY DEF TypeOK
  <1> HIDE DEF e
  <1> QED  BY <1>1, ExecutionsAssumption

\* An arrangement of items is a sequence of them in which each occurs.
LEMMA ArrangedSeq ==
    ASSUME NEW S \in SUBSET Item, IsFiniteSet(S), NEW R, NEW s \in Arranged(S, R)
    PROVE  /\ s \in Seq(S) /\ s \in Seq(Item) /\ Range(s) = S
           /\ \A i, j \in DOMAIN s : i < j => <<s[i], s[j]>> \in R
  <1>1. Cardinality(S) \in Nat  BY FS_CardinalityType
  <1>2. s \in [1 .. Cardinality(S) -> S] /\ Range(s) = S
        /\ \A i, j \in DOMAIN s : i < j => <<s[i], s[j]>> \in R  BY DEF Arranged
  <1>3. s \in Seq(S)  BY <1>1, <1>2
  <1> QED  BY <1>2, <1>3, SeqMonotonic

\* Neither order puts an item before one with the same pair.
LEMMA ArrangedDistinct ==
    ASSUME NEW S \in SUBSET Item, IsFiniteSet(S), NEW R, NEW s \in Arranged(S, R),
           \A a, b \in S : <<a, b>> \in R => Pair(a) # Pair(b)
    PROVE  Distinct(s)
  <1>1. /\ s \in Seq(S) /\ \A i, j \in DOMAIN s : i < j => <<s[i], s[j]>> \in R  BY ArrangedSeq
  <1>2. DOMAIN s = 1 .. Len(s) /\ Len(s) \in Nat /\ \A i \in DOMAIN s : s[i] \in S  BY <1>1
  <1> SUFFICES ASSUME NEW i \in DOMAIN s, NEW j \in DOMAIN s, i # j
               PROVE  Pair(s[i]) # Pair(s[j]) BY DEF Distinct
  <1>3. i < j \/ j < i  BY <1>2
  <1>4. CASE i < j  BY <1>1, <1>2, <1>4
  <1>5. CASE j < i BY <1>1, <1>2, <1>5
  <1> QED  BY <1>3, <1>4, <1>5

\* cmp_ready orders distinct pairs only.
LEMMA BeforeDistinct ==
    ASSUME TypeOK, NEW a \in Item, NEW b \in Item, Before(a, b)
    PROVE  Pair(a) # Pair(b)
  <1>1. net.rank[a.t] \in Nat /\ a.t \in Nat /\ a.k \in Nat BY NetFacts, OrderAssumption DEF NetType, Item
  <1>2. Pair(a) = Pair(b) => a.t = b.t /\ a.k = b.k  BY DEF Pair
  <1> QED  BY <1>1, <1>2 DEF Before

\* A sorted batch is a sequence of its items, each once.
LEMMA SortedFacts ==
    ASSUME TypeOK, NEW S \in SUBSET Item, IsFiniteSet(S), NEW s \in Sorted(S)
    PROVE  s \in Seq(S) /\ s \in Seq(Item) /\ Range(s) = S /\ Distinct(s)
  <1> DEFINE R == {ab \in S \X S : Before(ab[1], ab[2])}
  <1>1. s \in Arranged(S, R)  BY DEF Sorted
  <1>2. \A a, b \in S : <<a, b>> \in R => Pair(a) # Pair(b)
    <2> SUFFICES ASSUME NEW a \in S, NEW b \in S, <<a, b>> \in R PROVE Pair(a) # Pair(b) OBVIOUS
    <2>1. Before(a, b)  OBVIOUS
    <2> QED  BY <2>1, BeforeDistinct
  <1> HIDE DEF R
  <1> QED  BY <1>1, <1>2, ArrangedSeq, ArrangedDistinct

\* The entries of a sequence are finitely many.
LEMMA RangeFinite ==
    ASSUME NEW S, NEW s \in Seq(S)
    PROVE  IsFiniteSet(Range(s)) /\ Range(s) \subseteq S
  <1>1. IsFiniteSet(1 .. Len(s)) /\ DOMAIN s = 1 .. Len(s)  BY FS_Interval
  <1>2. s \in Surjection(1 .. Len(s), Range(s))  BY <1>1 DEF Surjection, Range
  <1> QED  BY <1>1, <1>2, FS_Surjection DEF Range

-----------------------------------------------------------------------------
(* The inductive invariant.                                                *)

\* The queue, the rest of the batch and ready_set.
QueueInv ==
    /\ Distinct(ready) /\ Distinct(batch)
    /\ IF config.concurrency > 1
       THEN /\ readySet = PairsOf(ready)
            /\ pc \in {"build", "loop"} => batch = <<>>
       ELSE /\ readySet = PairsOf(ready) \cup PairsOf(batch)
            /\ Apart(ready, batch)
            /\ pc = "build" => batch = <<>>
            /\ pc \notin {"run", "merge"}

\* A pair is completed when it has an outcome; the jobs of a parallel batch
\* are not completed and have their inputs.
BooksInv ==
    /\ \A x \in Pairs : x \in completed <=> keyed[x] # "none"
    /\ pc \in {"run", "merge"} =>
         \A i \in DOMAIN batch : Pair(batch[i]) \notin completed /\ Cached(Pair(batch[i]))

\* The token says what its source completed with, and lies where it sends to.
Carried(tok, p, k) == p \in Range(net.out[tok.src]) /\ keyed[<<tok.src, k>>] = tok.out

\* So do all tokens in places, and the emission in progress.
TokensInv ==
    /\ \A p \in Places, k \in Keys : \A tok \in tokens[p][k] : Carried(tok, p, k)
    /\ emit # NoEmit => /\ keyed[<<emit.t, emit.k>>] = emit.out
                        /\ Range(emit.rest) \subseteq Range(net.out[emit.t])

\* The inputs kept for a run of an AllOf cover its places.
Covers(inputs, t, k) == \A p \in net.in[t] : \E tok \in inputs : Carried(tok, p, k)

\* Whatever ensure_trigger_inputs kept for an AllOf covers it.
CacheInv ==
    pc \in {"build", "loop", "run", "merge"} =>
        \A c \in cache : net.join[c.x[1]] = "AllOf" => Covers(c.inputs, c.x[1], c.x[2])

\* The invariant of all three scheduling paths.
EngineInv == TypeOK /\ QueueInv /\ BooksInv /\ TokensInv /\ CacheInv /\ AllOfNeedsSuccess

\* The invariant holds before the net is built.
LEMMA EngineInitial == Init => EngineInv
  <1> SUFFICES ASSUME Init PROVE EngineInv  OBVIOUS
  <1> USE DEF Init
  <1>1. TypeOK
    <2>1. PICK e \in Executions : net = e.net /\ config = e.config  OBVIOUS
    <2>2. [net |-> net, config |-> config] \in Executions  BY <2>1, ExecutionsAssumption
    <2> QED  BY <2>2 DEF TypeOK
  <1>2. QueueInv  BY DEF QueueInv, Distinct, Apart, PairsOf, Range
  <1>3. BooksInv  BY DEF BooksInv
  <1>4. TokensInv  BY DEF TokensInv
  <1>5. CacheInv  BY DEF CacheInv
  <1>6. AllOfNeedsSuccess  BY DEF AllOfNeedsSuccess, Pairs
  <1> QED  BY <1>1, <1>2, <1>3, <1>4, <1>5, <1>6 DEF EngineInv

-----------------------------------------------------------------------------
(* Inputs and outcomes.                                                    *)

\* Consuming the inputs of pairs only takes tokens away.
LEMMA ConsumedFacts ==
    ASSUME TypeOK, NEW X \in SUBSET Pairs
    PROVE  /\ Consumed(X) \in [Places -> [Keys -> SUBSET Token]]
           /\ \A p \in Places, k \in Keys : Consumed(X)[p][k] \subseteq tokens[p][k] BY DEF TypeOK, Consumed

\* What a run gets: its kept inputs, or the tokens of its places.
LEMMA InputFacts ==
    ASSUME TypeOK, NEW x \in Pairs
    PROVE  /\ TriggerInputs(x) \subseteq Token
           /\ Cached(x) => /\ TriggerInputs(x) = CachedInputs(x)
                           /\ \E c \in cache : c.x = x /\ c.inputs = CachedInputs(x)
           /\ ~Cached(x) => TriggerInputs(x) = UNION {tokens[p][x[2]] : p \in net.in[x[1]]}
  <1>1. CASE Cached(x) BY <1>1 DEF Cached, TypeOK, TriggerInputs, CachedInputs
  <1>2. CASE ~Cached(x)
    <2>1. net.in[x[1]] \subseteq Places /\ x[2] \in Keys  BY NetFacts DEF NetType, Pairs
    <2>2. \A p \in net.in[x[1]] : tokens[p][x[2]] \subseteq Token  BY <2>1 DEF TypeOK
    <2> QED  BY <1>2, <2>2 DEF TriggerInputs
  <1> QED  BY <1>1, <1>2

\* ensure_trigger_inputs keeps what it kept and adds the tokens it consumes.
LEMMA EnsureFacts ==
    ASSUME TypeOK, NEW X \in SUBSET Pairs, EnsureInputs(X)
    PROVE  /\ tokens' \in [Places -> [Keys -> SUBSET Token]]
           /\ \A p \in Places, k \in Keys : tokens'[p][k] \subseteq tokens[p][k]
           /\ cache' \subseteq [x : Pairs, inputs : SUBSET Token]
           /\ cache \subseteq cache'
           /\ \A c \in cache' \ cache : c.x \in X /\ ~Cached(c.x) /\ c.inputs = TriggerInputs(c.x)
           /\ \A x \in X : Cached(x)'
  <1> DEFINE fresh == {x \in X : ~Cached(x)}
             new == {[x |-> x, inputs |-> TriggerInputs(x)] : x \in fresh}
  <1>1. tokens' = Consumed(fresh) /\ cache' = cache \cup new  BY DEF EnsureInputs
  <1>2. fresh \in SUBSET Pairs  OBVIOUS
  <1>3. new \subseteq [x : Pairs, inputs : SUBSET Token]  BY <1>2, InputFacts
  <1>4. \A x \in X : Cached(x)'
    <2> SUFFICES ASSUME NEW x \in X PROVE \E c \in cache' : c.x = x  BY DEF Cached
    <2>1. CASE Cached(x)  BY <1>1, <2>1 DEF Cached
    <2>2. CASE ~Cached(x)
      <3>1. [x |-> x, inputs |-> TriggerInputs(x)] \in new  BY <2>2
      <3>2. [x |-> x, inputs |-> TriggerInputs(x)].x = x  OBVIOUS
      <3> HIDE DEF new
      <3> QED  BY <1>1, <3>1, <3>2
    <2> QED  BY <2>1, <2>2
  <1>5. \A c \in new : c.x \in X /\ ~Cached(c.x) /\ c.inputs = TriggerInputs(c.x)  OBVIOUS
  <1>6. cache \subseteq [x : Pairs, inputs : SUBSET Token]  BY DEF TypeOK
  <1>7. /\ Consumed(fresh) \in [Places -> [Keys -> SUBSET Token]]
        /\ \A p \in Places, k \in Keys : Consumed(fresh)[p][k] \subseteq tokens[p][k] BY <1>2, ConsumedFacts
  <1> HIDE DEF fresh, new
  <1> QED  BY <1>1, <1>3, <1>4, <1>5, <1>6, <1>7

\* Nobody takes an outcome back.
KeyedGrows == \A x \in Pairs : keyed[x] # "none" => keyed'[x] = keyed[x]

\* What a token says of its source stays true.
LEMMA CarriedStays ==
    ASSUME net' = net, KeyedGrows, NEW tok \in Token, NEW p, NEW k \in Keys, Carried(tok, p, k)
    PROVE  Carried(tok, p, k)'
  <1>1. <<tok.src, k>> \in Pairs /\ tok.out # "none"  BY DEF Pairs, Token, Outcomes
  <1> QED  BY <1>1 DEF Carried, KeyedGrows

\* Inputs that cover a transition go on covering it.
LEMMA CoversStays ==
    ASSUME net' = net, KeyedGrows, NEW inputs \in SUBSET Token, NEW t, NEW k \in Keys,
           Covers(inputs, t, k)
    PROVE  Covers(inputs, t, k)' BY CarriedStays DEF Covers

\* The kept inputs, and the inputs of an enabled transition, cover its places.
LEMMA EnabledCovers ==
    ASSUME EngineInv, NEW x \in Pairs, pc \in {"build", "loop", "run", "merge"}, ~Stale({x}),
           net.join[x[1]] = "AllOf"
    PROVE  Covers(TriggerInputs(x), x[1], x[2])
  <1>1. CASE Cached(x)
    <2>1. PICK c \in cache : c.x = x /\ c.inputs = TriggerInputs(x)  BY <1>1, InputFacts DEF EngineInv
    <2> QED  BY <2>1 DEF EngineInv, CacheInv
  <1>2. CASE ~Cached(x)
    <2>1. IsReady(x[1], x[2], tokens)  BY <1>2 DEF Stale
    <2>2. SUFFICES ASSUME NEW p \in net.in[x[1]]
                   PROVE  \E tok \in TriggerInputs(x) : Carried(tok, p, x[2]) BY DEF Covers
    <2>3. p \in Places /\ x[2] \in Keys  BY NetFacts DEF EngineInv, NetType, Pairs
    <2>4. Joined(x[1], [q \in Places |-> tokens[q][x[2]]])  BY <2>1, <2>2 DEF IsReady
    <2>5. tokens[p][x[2]] # {}  BY <2>2, <2>3, <2>4 DEF Joined
    <2>6. PICK tok \in tokens[p][x[2]] : TRUE  BY <2>5
    <2>7. tok \in TriggerInputs(x)  BY <1>2, <2>2, <2>6, InputFacts DEF EngineInv
    <2> QED  BY <2>3, <2>6, <2>7 DEF EngineInv, TokensInv
  <1> QED  BY <1>1, <1>2

\* An outcome other than Skipped of an AllOf has a success in every place.
LEMMA OutcomeEarned ==
    ASSUME TypeOK, NEW x \in Pairs, NEW inputs \in SUBSET Token, NEW out \in RunOutcomes(x[1], inputs),
           net.join[x[1]] = "AllOf" => Covers(inputs, x[1], x[2])
    PROVE  /\ out \in Outcomes
           /\ net.join[x[1]] = "AllOf" /\ out # "Skipped" =>
                \A p \in net.in[x[1]] : \E src \in Transitions :
                   p \in Range(net.out[src]) /\ keyed[<<src, x[2]>>] = "Success"
  <1>1. out \in Outcomes  BY DEF RunOutcomes, Outcomes
  <1>2. ASSUME net.join[x[1]] = "AllOf", out # "Skipped", NEW p \in net.in[x[1]]
        PROVE  \E src \in Transitions :
                   p \in Range(net.out[src]) /\ keyed[<<src, x[2]>>] = "Success"
    <2>1. \A i \in inputs : i.out = "Success"  BY <1>2 DEF RunOutcomes
    <2>2. PICK tok \in inputs : Carried(tok, p, x[2])  BY <1>2 DEF Covers
    <2>3. tok.src \in Transitions /\ tok.out = "Success"  BY <2>1, <2>2 DEF Token
    <2> QED  BY <2>2, <2>3 DEF Carried
  <1> QED  BY <1>1, <1>2

-----------------------------------------------------------------------------
(* Completing a pair.                                                      *)

\* mark_completed adds one pair to the books, and the books stay right.
LEMMA CompleteFacts ==
    ASSUME EngineInv, NEW x \in Pairs, x \notin completed, NEW out \in Outcomes,
           Complete(x, out), net' = net,
           net.join[x[1]] = "AllOf" /\ out # "Skipped" =>
                \A p \in net.in[x[1]] : \E src \in Transitions :
                   p \in Range(net.out[src]) /\ keyed[<<src, x[2]>>] = "Success"
    PROVE  /\ KeyedGrows
           /\ completed' = completed \cup {x} /\ completed' \subseteq Pairs
           /\ keyed' \in [Pairs -> Outcomes \cup {"none"}]
           /\ outcomes' \in [Transitions -> Outcomes \cup {"none"}]
           /\ attempts' \in [Pairs -> Nat]
           /\ emit' \in [t : Transitions, k : Keys, out : Outcomes, rest : Seq(Places)] \cup {NoEmit}
           /\ \A y \in Pairs : y \in completed' <=> keyed'[y] # "none"
           /\ keyed'[<<emit'.t, emit'.k>>] = emit'.out
           /\ Range(emit'.rest) \subseteq Range(net'.out[emit'.t])
           /\ AllOfNeedsSuccess'
  <1> USE DEF EngineInv
  <1>1. keyed[x] = "none" /\ x[1] \in Transitions /\ x[2] \in Keys /\ x = <<x[1], x[2]>>
    BY DEF BooksInv, Pairs
  <1>2. keyed' = [keyed EXCEPT ![x] = out] /\ completed' = completed \cup {x}
        /\ outcomes' = [outcomes EXCEPT ![x[1]] = out] /\ attempts' = attempts
        /\ emit' = [t |-> x[1], k |-> x[2], out |-> out, rest |-> net.out[x[1]]] BY DEF Complete
  <1>3. out # "none"  BY DEF Outcomes
  <1>4. KeyedGrows  BY <1>1, <1>2 DEF KeyedGrows, TypeOK
  <1>5. /\ completed' \subseteq Pairs /\ keyed' \in [Pairs -> Outcomes \cup {"none"}]
        /\ outcomes' \in [Transitions -> Outcomes \cup {"none"}] /\ attempts' \in [Pairs -> Nat]
    BY <1>1, <1>2 DEF TypeOK
  <1>6. emit' \in [t : Transitions, k : Keys, out : Outcomes, rest : Seq(Places)]
    BY <1>1, <1>2, NetFacts DEF NetType
  <1>7. \A y \in Pairs : y \in completed' <=> keyed'[y] # "none" BY <1>2, <1>3 DEF TypeOK, BooksInv
  <1>8. keyed'[<<emit'.t, emit'.k>>] = emit'.out /\ Range(emit'.rest) \subseteq Range(net'.out[emit'.t])
    BY <1>2, <1>1 DEF TypeOK
  <1>9. AllOfNeedsSuccess'
    <2> SUFFICES ASSUME NEW t \in Transitions, NEW k \in Keys, net.join[t] = "AllOf",
                        keyed'[<<t, k>>] \notin {"none", "Skipped"}, NEW p \in net.in[t]
                 PROVE  \E src \in Transitions :
                          p \in Range(net.out[src]) /\ keyed'[<<src, k>>] = "Success" BY DEF AllOfNeedsSuccess
    <2>1. PICK src \in Transitions : p \in Range(net.out[src]) /\ keyed[<<src, k>>] = "Success"
      <3>1. CASE <<t, k>> = x BY <1>2, <3>1 DEF TypeOK
      <3>2. CASE <<t, k>> # x BY <1>2, <3>2 DEF Pairs, TypeOK, AllOfNeedsSuccess
      <3> QED  BY <3>1, <3>2
    <2>2. <<src, k>> \in Pairs  BY DEF Pairs
    <2>3. keyed'[<<src, k>>] = "Success"  BY <1>4, <2>1, <2>2 DEF KeyedGrows
    <2> QED  BY <2>1, <2>3
  <1> QED  BY <1>2, <1>4, <1>5, <1>6, <1>7, <1>8, <1>9

\* What holds of the tokens and of the kept inputs is not taken back.
LEMMA TokensStay ==
    ASSUME EngineInv, net' = net, KeyedGrows,
           \A p \in Places, k \in Keys : tokens'[p][k] \subseteq tokens[p][k]
    PROVE  \A p \in Places, k \in Keys : \A tok \in tokens'[p][k] : Carried(tok, p, k)'
  <1> SUFFICES ASSUME NEW p \in Places, NEW k \in Keys, NEW tok \in tokens[p][k]
               PROVE  Carried(tok, p, k)' OBVIOUS
  <1>1. tok \in Token /\ Carried(tok, p, k)  BY DEF EngineInv, TypeOK, TokensInv
  <1> QED  BY <1>1, CarriedStays

\* The kept inputs go on covering their transitions.
LEMMA CacheStays ==
    ASSUME EngineInv, net' = net, KeyedGrows, pc \in {"build", "loop", "run", "merge"}
    PROVE  \A c \in cache : net'.join[c.x[1]] = "AllOf" => Covers(c.inputs, c.x[1], c.x[2])'
  <1> SUFFICES ASSUME NEW c \in cache, net.join[c.x[1]] = "AllOf"
               PROVE  Covers(c.inputs, c.x[1], c.x[2])' OBVIOUS
  <1>1. c.inputs \in SUBSET Token /\ c.x[2] \in Keys  BY DEF EngineInv, TypeOK, Pairs
  <1>2. Covers(c.inputs, c.x[1], c.x[2])  BY DEF EngineInv, CacheInv
  <1> QED  BY <1>1, <1>2, CoversStays

-----------------------------------------------------------------------------
(* Queues.                                                                 *)

\* The pairs of a queue, position by position.
LEMMA PairsOfSeq ==
    ASSUME NEW s \in Seq(Item)
    PROVE  /\ PairsOf(s) = {Pair(s[i]) : i \in 1 .. Len(s)} /\ PairsOf(s) \subseteq Pairs
           /\ DOMAIN s = 1 .. Len(s) /\ Len(s) \in Nat /\ \A i \in 1 .. Len(s) : s[i] \in Item
  <1>1. DOMAIN s = 1 .. Len(s) /\ Len(s) \in Nat /\ \A i \in 1 .. Len(s) : s[i] \in Item  OBVIOUS
  <1>2. \A i \in 1 .. Len(s) : Pair(s[i]) \in Pairs  BY <1>1 DEF Pair, Pairs, Item
  <1> QED  BY <1>1, <1>2 DEF PairsOf, Range, Pair

\* push_ready at the end of a queue of distinct pairs.
LEMMA Appended ==
    ASSUME NEW s \in Seq(Item), Distinct(s), NEW i \in Item, Pair(i) \notin PairsOf(s)
    PROVE  /\ Append(s, i) \in Seq(Item) /\ Distinct(Append(s, i))
           /\ PairsOf(Append(s, i)) = PairsOf(s) \cup {Pair(i)}
  <1> DEFINE a == Append(s, i)
  <1>1. a \in Seq(Item) /\ Len(a) = Len(s) + 1 /\ a[Len(s) + 1] = i
        /\ \A j \in 1 .. Len(s) : a[j] = s[j] OBVIOUS
  <1>2. Len(s) \in Nat /\ DOMAIN s = 1 .. Len(s) /\ DOMAIN a = 1 .. Len(s) + 1  BY <1>1
  <1>3. PairsOf(s) = {Pair(s[j]) : j \in 1 .. Len(s)} /\ PairsOf(a) = {Pair(a[j]) : j \in 1 .. Len(s) + 1}
    BY <1>1, PairsOfSeq
  <1> HIDE DEF a
  <1>4. PairsOf(a) = PairsOf(s) \cup {Pair(i)} BY <1>2, <1>1, <1>3
  <1>5. Distinct(a)
    <2> SUFFICES ASSUME NEW j \in 1 .. Len(s) + 1, NEW h \in 1 .. Len(s) + 1, j # h
                 PROVE  Pair(a[j]) # Pair(a[h]) BY <1>2 DEF Distinct
    <2>1. (j \in 1 .. Len(s) \/ j = Len(s) + 1) /\ (h \in 1 .. Len(s) \/ h = Len(s) + 1)  BY <1>2
    <2> QED  BY <1>1, <1>2, <1>3, <2>1 DEF Distinct
  <1> QED  BY <1>1, <1>4, <1>5 DEF a

\* The first item leaves a queue of distinct pairs.
LEMMA Shortened ==
    ASSUME NEW s \in Seq(Item), s # <<>>, Distinct(s)
    PROVE  /\ Tail(s) \in Seq(Item) /\ Distinct(Tail(s)) /\ Head(s) \in Item
           /\ Pair(Head(s)) \in PairsOf(s) /\ PairsOf(Tail(s)) = PairsOf(s) \ {Pair(Head(s))}
           /\ \A i \in DOMAIN Tail(s) : i + 1 \in DOMAIN s /\ Tail(s)[i] = s[i + 1]
           /\ 1 \in DOMAIN s /\ Head(s) = s[1]
  <1> DEFINE a == Tail(s)
  <1>1. a \in Seq(Item) /\ Len(a) = Len(s) - 1 /\ Len(s) \in Nat \ {0} /\ Head(s) = s[1]
        /\ \A j \in 1 .. Len(s) - 1 : a[j] = s[j + 1] OBVIOUS
  <1>2. DOMAIN s = 1 .. Len(s) /\ DOMAIN a = 1 .. Len(s) - 1  BY <1>1
  <1>3. PairsOf(s) = {Pair(s[j]) : j \in 1 .. Len(s)} /\ PairsOf(a) = {Pair(a[j]) : j \in 1 .. Len(s) - 1}
    BY <1>1, PairsOfSeq
  <1>4. s[1] \in Item  BY <1>1
  <1> HIDE DEF a
  <1>5. \A j \in 1 .. Len(s) - 1 : j + 1 \in 1 .. Len(s) /\ j + 1 # 1  BY <1>1
  <1>6. \A h \in 1 .. Len(s) : h = 1 \/ (h - 1 \in 1 .. Len(s) - 1 /\ (h - 1) + 1 = h)  BY <1>1
  <1>7. 1 \in 1 .. Len(s)  BY <1>1
  <1>8. Distinct(a)
    <2>1. \A j, h \in 1 .. Len(s) - 1 : j # h => j + 1 # h + 1  BY <1>1
    <2> QED  BY <1>1, <1>2, <1>5, <2>1, SMTT(30) DEF Distinct
  <1>9. PairsOf(a) = PairsOf(s) \ {Pair(s[1])}
    <2>1. \A j \in 1 .. Len(s) - 1 : Pair(a[j]) = Pair(s[j + 1]) /\ Pair(s[j + 1]) # Pair(s[1])
      BY <1>1, <1>2, <1>5, <1>7 DEF Distinct
    <2>2. PairsOf(a) \subseteq PairsOf(s) \ {Pair(s[1])}  BY <1>3, <1>5, <2>1
    <2>3. ASSUME NEW y \in PairsOf(s), y # Pair(s[1]) PROVE y \in PairsOf(a)
      <3>1. PICK h \in 1 .. Len(s) : y = Pair(s[h])  BY <1>3
      <3>2. h # 1  BY <2>3, <3>1
      <3>3. h - 1 \in 1 .. Len(s) - 1 /\ a[h - 1] = s[h]  BY <1>1, <1>6, <3>2
      <3> QED  BY <1>3, <3>1, <3>3
    <2> QED  BY <2>2, <2>3
  <1> QED  BY <1>1, <1>2, <1>3, <1>4, <1>5, <1>7, <1>8, <1>9 DEF a

\* A batch drained from the front of the queue is apart from what is left.
LEMMA Split ==
    ASSUME NEW q \in Seq(Item), Distinct(q), NEW n \in 0 .. Len(q)
    PROVE  LET a == SubSeq(q, 1, n)
               b == SubSeq(q, n + 1, Len(q))
           IN /\ a \in Seq(Item) /\ b \in Seq(Item) /\ Distinct(a) /\ Distinct(b)
              /\ PairsOf(a) \cup PairsOf(b) = PairsOf(q) /\ Apart(b, a)
  <1> DEFINE a == SubSeq(q, 1, n)
             b == SubSeq(q, n + 1, Len(q))
             m == Len(q)
  <1>1. m \in Nat /\ n \in Nat /\ n <= m /\ DOMAIN q = 1 .. m /\ \A i \in 1 .. m : q[i] \in Item OBVIOUS
  <1>2. a \in Seq(Item) /\ Len(a) = n /\ \A i \in 1 .. n : a[i] = q[i] BY <1>1, SubSeqProperties, Z3
  <1>3. b \in Seq(Item) /\ Len(b) = m - n /\ \A i \in 1 .. m - n : b[i] = q[n + i]
    <2>1. \A i \in n + 1 .. m : q[i] \in Item  BY <1>1
    <2>2. /\ b \in Seq(Item) /\ Len(b) = (IF n + 1 <= m THEN m - (n + 1) + 1 ELSE 0)
          /\ \A i \in 1 .. m - (n + 1) + 1 : b[i] = q[(n + 1) + i - 1] BY <1>1, <2>1, SubSeqProperties
    <2>3. Len(b) = m - n
      <3> HIDE DEF b, m
      <3> QED  BY <1>1, <2>2
    <2>4. ASSUME NEW i \in 1 .. m - n PROVE b[i] = q[n + i] BY <1>1, <2>2
    <2> QED  BY <2>2, <2>3, <2>4
  <1>4. /\ PairsOf(q) = {Pair(q[j]) : j \in 1 .. m}
        /\ PairsOf(a) = {Pair(a[j]) : j \in 1 .. n} /\ DOMAIN a = 1 .. n
        /\ PairsOf(b) = {Pair(b[j]) : j \in 1 .. m - n} /\ DOMAIN b = 1 .. m - n BY <1>2, <1>3, PairsOfSeq
  <1> HIDE DEF a, b, m
  <1>5. \A i \in 1 .. n : i \in 1 .. m  BY <1>1
  <1>6. \A i \in 1 .. m - n : n + i \in 1 .. m /\ n + i \notin 1 .. n  BY <1>1
  <1>7. \A i \in 1 .. m : i \in 1 .. n \/ (i - n \in 1 .. m - n /\ n + (i - n) = i)  BY <1>1
  <1>8. Distinct(a)  BY <1>1, <1>2, <1>4, <1>5 DEF Distinct
  <1>9. Distinct(b)
    <2> SUFFICES ASSUME NEW i \in 1 .. m - n, NEW j \in 1 .. m - n, i # j
                 PROVE  Pair(b[i]) # Pair(b[j]) BY <1>4 DEF Distinct
    <2>1. n + i \in 1 .. m /\ n + j \in 1 .. m /\ n + i # n + j  BY <1>1, <1>6
    <2>2. Pair(q[n + i]) # Pair(q[n + j])  BY <1>1, <2>1 DEF Distinct
    <2> QED  BY <1>3, <2>2
  <1>10. \A i \in 1 .. n, j \in 1 .. m - n : Pair(a[i]) # Pair(b[j])
    <2> SUFFICES ASSUME NEW i \in 1 .. n, NEW j \in 1 .. m - n PROVE Pair(a[i]) # Pair(b[j]) OBVIOUS
    <2>1. i \in 1 .. m /\ n + j \in 1 .. m /\ i # n + j  BY <1>5, <1>6
    <2>2. Pair(q[i]) # Pair(q[n + j])  BY <1>1, <2>1 DEF Distinct
    <2> QED  BY <1>2, <1>3, <2>2
  <1>11. PairsOf(a) \cup PairsOf(b) = PairsOf(q)
    <2>1. PairsOf(a) \subseteq PairsOf(q)  BY <1>2, <1>4, <1>5
    <2>2. PairsOf(b) \subseteq PairsOf(q)  BY <1>3, <1>4, <1>6
    <2>3. ASSUME NEW y \in PairsOf(q) PROVE y \in PairsOf(a) \cup PairsOf(b)
      <3>1. PICK i \in 1 .. m : y = Pair(q[i])  BY <1>4
      <3>2. CASE i \in 1 .. n  BY <1>2, <1>4, <3>1, <3>2
      <3>3. CASE i - n \in 1 .. m - n /\ n + (i - n) = i BY <1>3, <3>3, <1>4, <3>1
      <3> QED  BY <1>7, <3>2, <3>3
    <2> QED  BY <2>1, <2>2, <2>3
  <1>12. Apart(b, a)  BY <1>4, <1>10 DEF Apart
  <1> QED  BY <1>2, <1>3, <1>8, <1>9, <1>11, <1>12 DEF a, b, m

-----------------------------------------------------------------------------
(* The steps.                                                              *)

\* A step that completes nothing keeps the books.
LEMMA SameBooks ==
    ASSUME EngineInv, net' = net, UNCHANGED <<completed, keyed>>
    PROVE  KeyedGrows /\ AllOfNeedsSuccess' /\ \A x \in Pairs : x \in completed' <=> keyed'[x] # "none"
  BY DEF EngineInv, KeyedGrows, AllOfNeedsSuccess, BooksInv

\* A step that moves no token keeps what the tokens say.
LEMMA SameTokens ==
    ASSUME EngineInv, UNCHANGED <<net, keyed, tokens, emit>>
    PROVE  TokensInv' BY DEF EngineInv, TokensInv, Carried

\* A step that keeps no new inputs keeps the kept ones right.
LEMMA SameCache ==
    ASSUME EngineInv, UNCHANGED <<net, keyed, cache>>, pc \in {"build", "loop", "run", "merge"}
    PROVE  CacheInv'
  <1>1. KeyedGrows  BY DEF KeyedGrows
  <1> QED  BY <1>1, CacheStays DEF CacheInv

\* The roots that build queues are items, and finitely many.
LEMMA RootFacts ==
    ASSUME TypeOK
    PROVE  RootItems \in SUBSET Item /\ IsFiniteSet(RootItems)
  <1>1. Roots \subseteq Transitions /\ \A t \in Transitions : net.root[t] \in Keys
    BY NetFacts DEF Roots, NetType
  <1>2. RootItems \in SUBSET Item
    <2>1. \A t \in Roots : [t |-> t, k |-> net.root[t], retry |-> FALSE] \in Item  BY <1>1 DEF Item
    <2> QED  BY <2>1 DEF RootItems
  <1>3. IsFiniteSet(Roots)  BY <1>1, FS_Subset, FiniteAssumption
  <1> DEFINE f == [t \in Roots |-> [t |-> t, k |-> net.root[t], retry |-> FALSE]]
  <1>4. f \in Surjection(Roots, RootItems)  BY DEF Surjection, RootItems
  <1> HIDE DEF f
  <1> QED  BY <1>2, <1>3, <1>4, FS_Surjection

\* The build queues each root once.
LEMMA BuildStep == EngineInv /\ Build => EngineInv'
  <1> SUFFICES ASSUME EngineInv, Build PROVE EngineInv'  OBVIOUS
  <1> USE DEF EngineInv
  <1>1. /\ pc = "build" /\ pc' \in {"rejected", "loop"} /\ batch = <<>>
        /\ UNCHANGED <<net, config, batch, tokens, cache, attempts, completed, keyed,
                       outcomes, emit, zombies, runs>> BY DEF Build, QueueInv
  <1>2. /\ ready' \in Seq(Item) /\ readySet' \subseteq Pairs
        /\ Distinct(ready') /\ readySet' = PairsOf(ready')
    <2>1. CASE UNCHANGED <<ready, readySet>>
      <3>1. readySet = PairsOf(ready)  BY <1>1 DEF QueueInv, PairsOf, Range
      <3> QED  BY <2>1, <3>1 DEF QueueInv, TypeOK, PairsOf
    <2>2. CASE /\ ready' \in Arranged(RootItems, {ab \in RootItems \X RootItems : ab[1].t < ab[2].t})
               /\ readySet' = {<<i.t, i.k>> : i \in RootItems}
      <3> DEFINE R == {ab \in RootItems \X RootItems : ab[1].t < ab[2].t}
      <3>1. PICK r \in Arranged(RootItems, R) : r = ready'  BY <2>2
      <3>2. \A a, b \in RootItems : <<a, b>> \in R => Pair(a) # Pair(b)
        <4> SUFFICES ASSUME NEW a \in RootItems, NEW b \in RootItems, <<a, b>> \in R
                     PROVE  Pair(a) # Pair(b) OBVIOUS
        <4>1. a.t < b.t /\ a.t \in Nat  BY RootFacts, OrderAssumption DEF Item
        <4> QED  BY <4>1 DEF Pair
      <3> HIDE DEF R
      <3>3. r \in Seq(Item) /\ Range(r) = RootItems  BY <3>1, RootFacts, ArrangedSeq
      <3>4. Distinct(r)  BY <3>1, <3>2, RootFacts, ArrangedDistinct
      <3>5. PairsOf(r) = readySet' /\ PairsOf(r) \subseteq Pairs  BY <2>2, <3>3, PairsOfSeq DEF PairsOf
      <3> QED  BY <3>1, <3>3, <3>4, <3>5
    <2> QED  BY <2>1, <2>2 DEF Build
  <1>3. TypeOK'  BY <1>1, <1>2 DEF TypeOK
  <1>4. QueueInv' BY <1>1, <1>2 DEF PairsOf, Range, Distinct, Apart, QueueInv
  <1>5. BooksInv'  BY <1>1 DEF BooksInv
  <1> QED  BY <1>1, <1>3, <1>4, <1>5, SameBooks, SameTokens, SameCache

\* The next batch of the single-threaded paths.
LEMMA NextBatchStep == EngineInv /\ NextBatch => EngineInv'
  <1> SUFFICES ASSUME EngineInv, NextBatch PROVE EngineInv'  OBVIOUS
  <1> USE DEF EngineInv
  <1>1. /\ pc = "loop" /\ batch = <<>> /\ config.concurrency <= 1
        /\ UNCHANGED <<net, config, pc, readySet, tokens, cache, attempts, completed, keyed,
                       outcomes, emit, zombies, runs>> BY DEF NextBatch
  <1>2. config.concurrency \in Nat /\ config.parallelism \in Nat  BY NetFacts DEF ConfigType
  <1>3. readySet = PairsOf(ready)  BY <1>1, <1>2 DEF QueueInv, PairsOf, Range
  <1>4. PICK queue \in IF config.deterministic THEN Sorted(Range(ready)) ELSE {ready} :
           LET size == Min2(IF config.parallelism = 0 THEN 1 ELSE config.parallelism, Len(queue))
           IN /\ batch' = SubSeq(queue, 1, size)
              /\ ready' = SubSeq(queue, size + 1, Len(queue)) BY DEF NextBatch
  <1>5. queue \in Seq(Item) /\ Distinct(queue) /\ PairsOf(queue) = PairsOf(ready)
    <2>1. CASE config.deterministic BY RangeFinite, <1>4, <2>1, SortedFacts DEF TypeOK, PairsOf
    <2>2. CASE ~config.deterministic BY <1>4, <2>2 DEF TypeOK, QueueInv
    <2> QED  BY <2>1, <2>2
  <1> DEFINE size == Min2(IF config.parallelism = 0 THEN 1 ELSE config.parallelism, Len(queue))
  <1>6. size \in 0 .. Len(queue) BY <1>5, <1>2 DEF Min2
  <1>7. batch' = SubSeq(queue, 1, size) /\ ready' = SubSeq(queue, size + 1, Len(queue))  BY <1>4
  <1> HIDE DEF size
  <1>8. /\ batch' \in Seq(Item) /\ ready' \in Seq(Item) /\ Distinct(batch') /\ Distinct(ready')
        /\ PairsOf(batch') \cup PairsOf(ready') = PairsOf(ready) /\ Apart(ready', batch')
    BY <1>5, <1>6, <1>7, Split
  <1>9. TypeOK'  BY <1>1, <1>8 DEF TypeOK
  <1>10. QueueInv'
    <2>1. /\ Distinct(batch)' /\ Distinct(ready)' /\ Apart(ready, batch)'
          /\ readySet' = PairsOf(ready)' \cup PairsOf(batch)' BY <1>1, <1>3, <1>8 DEF Distinct, Apart, PairsOf
    <2> QED  BY <1>1, <1>2, <2>1 DEF QueueInv
  <1>11. BooksInv'  BY <1>1 DEF BooksInv
  <1> QED  BY <1>1, <1>9, <1>10, <1>11, SameBooks, SameTokens, SameCache

\* The threads of a parallel batch are joined.
LEMMA JoinStep == EngineInv /\ Join => EngineInv'
  <1> SUFFICES ASSUME EngineInv, Join PROVE EngineInv'  OBVIOUS
  <1> USE DEF EngineInv
  <1>1. /\ pc = "run" /\ pc' \in {"merge", "panicked"}
        /\ UNCHANGED <<net, config, ready, readySet, batch, tokens, cache, attempts, completed,
                       keyed, outcomes, emit, zombies, runs>> BY DEF Join
  <1>2. TypeOK'  BY <1>1 DEF TypeOK
  <1>3. QueueInv'  BY <1>1 DEF QueueInv, Distinct, PairsOf
  <1>4. BooksInv'  BY <1>1 DEF BooksInv, Cached
  <1> QED  BY <1>1, <1>2, <1>3, <1>4, SameBooks, SameTokens, SameCache

\* A parallel batch is merged to its end.
LEMMA MergeEndStep == EngineInv /\ MergeEnd => EngineInv'
  <1> SUFFICES ASSUME EngineInv, MergeEnd PROVE EngineInv'  OBVIOUS
  <1> USE DEF EngineInv
  <1>1. /\ pc = "merge" /\ pc' = "loop" /\ batch = <<>>
        /\ UNCHANGED <<net, config, ready, readySet, batch, tokens, cache, attempts, completed,
                       keyed, outcomes, emit, zombies, runs>> BY DEF MergeEnd
  <1>2. TypeOK'  BY <1>1 DEF TypeOK
  <1>3. QueueInv'  BY <1>1 DEF QueueInv, Distinct, PairsOf
  <1>4. BooksInv'  BY <1>1 DEF BooksInv, Cached
  <1> QED  BY <1>1, <1>2, <1>3, <1>4, SameBooks, SameTokens, SameCache

\* The queue is empty and the run has drained.
LEMMA DrainStep == EngineInv /\ Drain => EngineInv'
  <1> SUFFICES ASSUME EngineInv, Drain PROVE EngineInv'  OBVIOUS
  <1> USE DEF EngineInv
  <1>1. /\ pc = "loop" /\ pc' = "drained"
        /\ UNCHANGED <<net, config, ready, readySet, batch, tokens, cache, attempts, completed,
                       keyed, outcomes, emit, zombies, runs>> BY DEF Drain
  <1>2. TypeOK'  BY <1>1 DEF TypeOK
  <1>3. QueueInv'  BY <1>1 DEF QueueInv, Distinct, PairsOf, Apart
  <1>4. BooksInv'  BY <1>1 DEF BooksInv, Cached
  <1> QED  BY <1>1, <1>2, <1>3, <1>4, SameBooks, SameTokens, SameCache

\* An emission that is over.
LEMMA SettleStep == EngineInv /\ Settle => EngineInv'
  <1> SUFFICES ASSUME EngineInv, Settle PROVE EngineInv'  OBVIOUS
  <1> USE DEF EngineInv
  <1>1. /\ emit' = NoEmit
        /\ UNCHANGED <<net, config, tokens, cache, attempts, completed, keyed, zombies, runs>> BY DEF Settle
  <1>2. TokensInv'  BY <1>1 DEF TokensInv, Carried
  <1>3. CASE UNCHANGED <<pc, ready, readySet, batch, outcomes>>
    <2>1. TypeOK'  BY <1>1, <1>3 DEF TypeOK
    <2>2. QueueInv'  BY <1>1, <1>3 DEF QueueInv, Distinct, PairsOf, Apart
    <2>3. BooksInv'  BY <1>1, <1>3 DEF BooksInv, Cached
    <2>4. CacheInv'  BY <1>1, <1>3 DEF CacheInv, Covers, Carried
    <2> QED  BY <1>1, <1>2, <2>1, <2>2, <2>3, <2>4, SameBooks
  <1>4. CASE /\ ready' = <<>> /\ readySet' = {} /\ batch' = <<>> /\ pc' = "terminated"
             /\ outcomes' = [t \in Transitions |->
                               IF outcomes[t] = "none" THEN "Cancelled" ELSE outcomes[t]]
    <2>1. TypeOK'  BY <1>1, <1>4 DEF TypeOK, Outcomes
    <2>2. QueueInv'  BY <1>1, <1>4 DEF QueueInv, Distinct, PairsOf, Apart, Range
    <2>3. BooksInv'  BY <1>1, <1>4 DEF BooksInv
    <2>4. CacheInv'  BY <1>1, <1>4 DEF CacheInv
    <2> QED  BY <1>1, <1>2, <2>1, <2>2, <2>3, <2>4, SameBooks
  <1> QED  BY <1>3, <1>4 DEF Settle

\* A parallel batch is prepared: one item per key, with its inputs.
LEMMA ParallelStep == EngineInv /\ ParallelBatch => EngineInv'
  <1> SUFFICES ASSUME EngineInv, ParallelBatch PROVE EngineInv'  OBVIOUS
  <1> USE DEF EngineInv
  <1>1. /\ pc = "loop" /\ config.concurrency > 1
        /\ UNCHANGED <<net, config, attempts, completed, keyed, outcomes, emit, zombies>> BY DEF ParallelBatch
  <1>2. PICK chosen \in Sorted(FirstPerKey) :
         LET items == {chosen[i] : i \in 1 .. Min2(config.concurrency, Len(chosen))}
             live == {i \in items : <<i.t, i.k>> \notin completed}
             X == {<<i.t, i.k>> : i \in live}
         IN /\ ready' = <<>> /\ readySet' = {}
            /\ pc' = IF Stale(X) THEN "error" ELSE "run"
            /\ batch' \in Sorted(live)
            /\ EnsureInputs(X)
            /\ runs' = [x \in Pairs |-> runs[x] + (IF x \in X THEN 1 ELSE 0)] BY DEF ParallelBatch
  <1> DEFINE items == {chosen[i] : i \in 1 .. Min2(config.concurrency, Len(chosen))}
             live == {i \in items : <<i.t, i.k>> \notin completed}
             X == {<<i.t, i.k>> : i \in live}
  <1>3. /\ ready' = <<>> /\ readySet' = {} /\ pc' = (IF Stale(X) THEN "error" ELSE "run")
        /\ batch' \in Sorted(live) /\ EnsureInputs(X)
        /\ runs' = [x \in Pairs |-> runs[x] + (IF x \in X THEN 1 ELSE 0)] BY <1>2
  <1>4. live \in SUBSET Item /\ IsFiniteSet(live)
    <2>1. FirstPerKey \subseteq Range(ready)  BY DEF FirstPerKey, Range
    <2>2. FirstPerKey \in SUBSET Item /\ IsFiniteSet(FirstPerKey) BY <2>1, RangeFinite, FS_Subset DEF TypeOK
    <2>3. chosen \in Seq(FirstPerKey)  BY <1>2, <2>2, SortedFacts
    <2>4. 1 .. Min2(config.concurrency, Len(chosen)) \subseteq 1 .. Len(chosen)
      BY <2>3, NetFacts DEF ConfigType, Min2
    <2>5. items \subseteq FirstPerKey  BY <2>3, <2>4
    <2>6. live \in SUBSET FirstPerKey  BY <2>5
    <2> QED  BY <2>2, <2>6, FS_Subset
  <1>5. X \in SUBSET Pairs /\ \A x \in X : x \notin completed
    <2>1. \A i \in live : <<i.t, i.k>> \notin completed  OBVIOUS
    <2> HIDE DEF items, live
    <2>2. \A i \in live : <<i.t, i.k>> \in Pairs  BY <1>4 DEF Pairs, Item
    <2> QED  BY <2>1, <2>2
  <1>6. \A i \in live : Pair(i) \in X  BY DEF Pair
  <1> HIDE DEF items, live, X
  <1>7. PICK b : b = batch'  OBVIOUS
  <1>8. b \in Seq(Item) /\ Distinct(b) /\ Range(b) = live  BY <1>3, <1>4, <1>7, SortedFacts
  <1>9. \A i \in DOMAIN b : Pair(b[i]) \in X  BY <1>6, <1>8 DEF Range
  <1>10. TypeOK' BY <1>3, <1>7, <1>8, <1>1, <1>5, EnsureFacts DEF TypeOK
  <1>11. QueueInv' BY <1>3, <1>7, <1>8, <1>1 DEF Distinct, PairsOf, Range, QueueInv
  <1>12. BooksInv'
    <2>1. \A x \in X : Cached(x)'  BY <1>3, <1>5, EnsureFacts
    <2>2. \A i \in DOMAIN b : Pair(b[i]) \notin completed /\ Cached(Pair(b[i]))' BY <1>5, <1>9, <2>1
    <2>3. \A i \in DOMAIN batch' : Pair(batch'[i]) \notin completed' /\ Cached(Pair(batch[i]))'
      BY <1>1, <1>7, <2>2 DEF Pair, Cached
    <2> QED  BY <1>1, <2>3, SameBooks DEF BooksInv, Pair
  <1>13. KeyedGrows /\ AllOfNeedsSuccess'  BY <1>1, SameBooks
  <1>14. TokensInv' BY <1>3, <1>5, EnsureFacts, <1>1, <1>13, TokensStay DEF TokensInv
  <1>15. CacheInv'
    <2> SUFFICES ASSUME pc' = "run", NEW c \in cache', net.join[c.x[1]] = "AllOf"
                 PROVE  Covers(c.inputs, c.x[1], c.x[2])' BY <1>1, <1>3 DEF CacheInv
    <2>1. CASE c \in cache  BY <1>1, <1>13, <2>1, CacheStays
    <2>2. CASE c \notin cache
      <3>1. c.x \in X /\ ~Cached(c.x) /\ c.inputs = TriggerInputs(c.x) BY <1>3, <1>5, <2>2, EnsureFacts
      <3>2. ~Stale(X)  BY <1>3
      <3>3. c.x \in Pairs /\ ~Stale({c.x}) /\ c.x[2] \in Keys  BY <1>5, <3>1, <3>2 DEF Stale, Pairs
      <3>4. Covers(c.inputs, c.x[1], c.x[2])  BY <1>1, <3>1, <3>3, EnabledCovers
      <3>5. c.inputs \in SUBSET Token  BY <3>1, <3>3, InputFacts
      <3> QED  BY <1>1, <1>13, <3>3, <3>4, <3>5, CoversStays
    <2> QED  BY <2>1, <2>2
  <1> QED  BY <1>10, <1>11, <1>12, <1>13, <1>14, <1>15

\* A token goes to one output place and may queue its consumers.
LEMMA EmitStep == EngineInv /\ Emit => EngineInv'
  <1> SUFFICES ASSUME EngineInv, Emit PROVE EngineInv'  OBVIOUS
  <1> USE DEF EngineInv
  <1>1. /\ emit # NoEmit /\ emit.rest # <<>> /\ emit' = [emit EXCEPT !.rest = Tail(@)]
        /\ UNCHANGED <<net, config, pc, batch, cache, attempts, completed, keyed, outcomes, runs>> BY DEF Emit
  <1>2. emit \in [t : Transitions, k : Keys, out : Outcomes, rest : Seq(Places)] BY <1>1 DEF TypeOK
  <1> DEFINE tok == [src |-> emit.t, out |-> emit.out]
             p == Head(emit.rest)
             k == emit.k
             tk == [tokens EXCEPT ![p][k] = @ \cup {tok}]
  <1>3. tok \in Token /\ p \in Places /\ k \in Keys /\ p \in Range(emit.rest) BY <1>1, <1>2 DEF Token, Range
  <1>4. /\ emit' \in [t : Transitions, k : Keys, out : Outcomes, rest : Seq(Places)]
        /\ emit'.t = emit.t /\ emit'.k = emit.k /\ emit'.out = emit.out
        /\ Range(emit'.rest) \subseteq Range(emit.rest)
    <2>1. emit.rest \in Seq(Places) /\ emit.rest # <<>>  BY <1>1, <1>2
    <2>2. emit'.t = emit.t /\ emit'.k = emit.k /\ emit'.out = emit.out /\ emit'.rest = Tail(emit.rest)
      BY <1>1, <1>2
    <2>3. Tail(emit.rest) \in Seq(Places)  BY <2>1
    <2>4. \A i \in DOMAIN Tail(emit.rest) :
             i + 1 \in DOMAIN emit.rest /\ Tail(emit.rest)[i] = emit.rest[i + 1] BY <2>1
    <2>5. emit' \in [t : Transitions, k : Keys, out : Outcomes, rest : Seq(Places)] BY <1>1, <1>2, <2>3
    <2> QED  BY <2>2, <2>4, <2>5 DEF Range
  <1>5. tokens' = tokens \/ tokens' = tk  BY DEF Emit
  <1>6. zombies' \in Nat
    <2>1. zombies' = zombies \/ zombies' = zombies + 1  BY DEF Emit
    <2> QED  BY <2>1 DEF TypeOK
  <1>7. \/ UNCHANGED <<ready, readySet>>
        \/ \E c \in Consumers(p) : PushReady(c, k, FALSE) BY DEF Emit
  <1>8. \/ UNCHANGED <<ready, readySet>>
        \/ \E i \in Item : /\ Pair(i) \notin readySet
                           /\ ready' = Append(ready, i) /\ readySet' = readySet \cup {Pair(i)}
    <2>1. SUFFICES ASSUME NEW c \in Consumers(p), PushReady(c, k, FALSE), ~UNCHANGED <<ready, readySet>>
                   PROVE  \E i \in Item : /\ Pair(i) \notin readySet
                             /\ ready' = Append(ready, i) /\ readySet' = readySet \cup {Pair(i)} BY <1>7
    <2>2. [t |-> c, k |-> k, retry |-> FALSE] \in Item  BY <1>3 DEF Consumers, Item
    <2>3. Pair([t |-> c, k |-> k, retry |-> FALSE]) = <<c, k>>  BY DEF Pair
    <2>4. /\ <<c, k>> \notin readySet /\ ready' = Append(ready, [t |-> c, k |-> k, retry |-> FALSE])
          /\ readySet' = readySet \cup {<<c, k>>} BY <2>1 DEF PushReady
    <2> QED  BY <2>2, <2>3, <2>4
  <1>9. /\ ready' \in Seq(Item) /\ Distinct(ready') /\ readySet' \subseteq Pairs
        /\ \/ PairsOf(ready') = PairsOf(ready) /\ readySet' = readySet
           \/ \E x : /\ PairsOf(ready') = PairsOf(ready) \cup {x} /\ readySet' = readySet \cup {x}
                     /\ x \notin readySet
    <2>1. CASE UNCHANGED <<ready, readySet>>  BY <2>1 DEF TypeOK, QueueInv, PairsOf
    <2>2. CASE \E i \in Item : /\ Pair(i) \notin readySet
                               /\ ready' = Append(ready, i) /\ readySet' = readySet \cup {Pair(i)}
      <3>1. PICK i \in Item : /\ Pair(i) \notin readySet
                              /\ ready' = Append(ready, i) /\ readySet' = readySet \cup {Pair(i)} BY <2>2
      <3>2. Pair(i) \notin PairsOf(ready) /\ ready \in Seq(Item) /\ Distinct(ready)
        BY <3>1 DEF QueueInv, TypeOK
      <3>3. /\ Append(ready, i) \in Seq(Item) /\ Distinct(Append(ready, i))
            /\ PairsOf(Append(ready, i)) = PairsOf(ready) \cup {Pair(i)} BY <3>2, Appended
      <3>4. Pair(i) \in Pairs  BY DEF Pair, Pairs, Item
      <3> QED  BY <3>1, <3>3, <3>4 DEF TypeOK
    <2> QED  BY <1>8, <2>1, <2>2
  <1>10. tk \in [Places -> [Keys -> SUBSET Token]]
    <2> HIDE DEF tok, p, k
    <2> QED  BY <1>3 DEF TypeOK
  <1>11. TypeOK'
    <2> HIDE DEF tk
    <2> QED  BY <1>1, <1>4, <1>5, <1>6, <1>9, <1>10 DEF TypeOK
  <1>12. QueueInv' BY <1>1, <1>9 DEF Distinct, QueueInv, PairsOf, Apart
  <1>13. BooksInv'  BY <1>1 DEF BooksInv, Cached
  <1>14. KeyedGrows /\ AllOfNeedsSuccess'  BY <1>1, SameBooks
  <1>15. CacheInv'  BY <1>1 DEF CacheInv, Covers, Carried
  <1>16. TokensInv'
    <2>1. Carried(tok, p, k)  BY <1>1, <1>3 DEF TokensInv, Carried
    <2>2. \A q \in Places, j \in Keys : \A y \in tokens'[q][j] : Carried(y, q, j)
      <3> HIDE DEF tok, p, k
      <3>1. \A q \in Places, j \in Keys :
               tk[q][j] = IF q = p /\ j = k THEN tokens[q][j] \cup {tok} ELSE tokens[q][j] BY <1>3 DEF TypeOK
      <3> HIDE DEF tk
      <3> QED  BY <1>5, <2>1, <3>1, ZenonT(60) DEF TokensInv
    <2>3. keyed'[<<emit'.t, emit'.k>>] = emit'.out /\ Range(emit'.rest) \subseteq Range(net'.out[emit'.t])
      BY <1>1, <1>4 DEF TokensInv
    <2> QED  BY <1>1, <2>2, <2>3 DEF TokensInv, Carried
  <1> QED  BY <1>11, <1>12, <1>13, <1>14, <1>15, <1>16

\* One item of a single-threaded batch: skipped, run, retried or completed.
LEMMA ProcessStep == EngineInv /\ Process => EngineInv'
  <1> SUFFICES ASSUME EngineInv, Process PROVE EngineInv'  OBVIOUS
  <1> USE DEF EngineInv
  <1>1. /\ pc = "loop" /\ batch # <<>> /\ emit = NoEmit
        /\ batch' = Tail(batch) /\ UNCHANGED <<net, config, zombies>> BY DEF Process
  <1>2. /\ ~(config.concurrency > 1) /\ readySet = PairsOf(ready) \cup PairsOf(batch)
        /\ Apart(ready, batch) /\ Distinct(ready) /\ Distinct(batch)
        /\ ready \in Seq(Item) /\ batch \in Seq(Item) BY <1>1 DEF QueueInv, TypeOK
  <1>3. PICK x : x = Pair(Head(batch))  OBVIOUS
  <1>4. /\ Tail(batch) \in Seq(Item) /\ Distinct(Tail(batch)) /\ Head(batch) \in Item
        /\ x \in PairsOf(batch) /\ PairsOf(Tail(batch)) = PairsOf(batch) \ {x} BY <1>1, <1>2, <1>3, Shortened
  <1>5. x \in Pairs /\ x \notin PairsOf(ready) /\ x = <<x[1], x[2]>>
    BY <1>2, <1>3, <1>4 DEF Apart, Pair, Pairs, Item
  <1>6. IF x \in completed \/ Stale({x}) THEN Refuse(x) ELSE RunItem(x) BY <1>3 DEF Process, Pair
  <1>7. ASSUME /\ ready' = ready /\ readySet' = readySet \ {x}
        PROVE  QueueInv' \/ pc' \in {"run", "merge"}
    <2>1. /\ PairsOf(ready)' = PairsOf(ready) /\ PairsOf(batch)' = PairsOf(batch) \ {x}
          /\ Distinct(ready)' /\ Distinct(batch)' BY <1>1, <1>2, <1>4, <1>7 DEF PairsOf, Distinct
    <2>2. readySet' = PairsOf(ready)' \cup PairsOf(batch)'  BY <1>2, <1>5, <1>7, <2>1
    <2>3. Apart(ready, batch)'  BY <1>2, <2>1 DEF Apart
    <2>4. pc' = "build" => batch' = <<>> BY <1>1, <1>6 DEF Refuse, RunItem
    <2> QED  BY <1>1, <1>2, <2>1, <2>2, <2>3, <2>4 DEF QueueInv
  <1>8. CASE x \in completed \/ Stale({x})
    <2>1. /\ pc' \in {"loop", "error"} /\ readySet' = readySet \ {x}
          /\ UNCHANGED <<ready, tokens, cache, attempts, completed, keyed, outcomes, emit, runs>>
      BY <1>1, <1>6, <1>8 DEF Refuse
    <2>2. TypeOK'  BY <1>1, <1>4, <2>1 DEF TypeOK
    <2>3. QueueInv'  BY <1>7, <2>1
    <2>4. BooksInv'  BY <2>1 DEF BooksInv
    <2> QED  BY <1>1, <2>1, <2>2, <2>3, <2>4, SameBooks, SameTokens, SameCache
  <1>9. CASE ~(x \in completed \/ Stale({x}))
    <2>1. RunItem(x) /\ x \notin completed /\ ~Stale({x})  BY <1>6, <1>9
    <2>2. pc' = "loop" /\ runs' \in [Pairs -> Nat]  BY <1>1, <1>5, <2>1 DEF RunItem, TypeOK
    <2>3. net.join[x[1]] = "AllOf" => Covers(TriggerInputs(x), x[1], x[2]) BY <1>1, <1>5, <2>1, EnabledCovers
    <2>4. TriggerInputs(x) \in SUBSET Token  BY <1>5, InputFacts
    <2>5. PICK out \in RunOutcomes(x[1], TriggerInputs(x)) :
         \/ /\ MayRetry(x, out)
            /\ EnsureInputs({x})
            /\ Retry(x)
            /\ ready' = Append(ready, [t |-> x[1], k |-> x[2], retry |-> TRUE])
            /\ readySet' = readySet \cup {x}
         \/ /\ ~MayRetry(x, out)
            /\ tokens' = Consumed(IF Cached(x) THEN {} ELSE {x})
            /\ cache' = {c \in cache : c.x # x}
            /\ Complete(x, out)
            /\ readySet' = readySet \ {x}
            /\ UNCHANGED ready BY <2>1 DEF RunItem
    <2>6. CASE /\ EnsureInputs({x}) /\ Retry(x)
               /\ ready' = Append(ready, [t |-> x[1], k |-> x[2], retry |-> TRUE])
               /\ readySet' = readySet \cup {x}
      <3>1. attempts' = [attempts EXCEPT ![x] = @ + 1] /\ UNCHANGED <<completed, keyed, outcomes, emit>>
        BY <2>6 DEF Retry
      <3>2. [t |-> x[1], k |-> x[2], retry |-> TRUE] \in Item
            /\ Pair([t |-> x[1], k |-> x[2], retry |-> TRUE]) = x BY <1>5 DEF Pair, Pairs, Item
      <3>3. /\ ready' \in Seq(Item) /\ Distinct(ready') /\ PairsOf(ready') = PairsOf(ready) \cup {x}
        BY <1>2, <1>5, <2>6, <3>2, Appended
      <3>4. /\ tokens' \in [Places -> [Keys -> SUBSET Token]]
            /\ \A p \in Places, k \in Keys : tokens'[p][k] \subseteq tokens[p][k]
            /\ cache' \subseteq [x : Pairs, inputs : SUBSET Token]
            /\ \A c \in cache' \ cache : c.x = x /\ c.inputs = TriggerInputs(x) BY <1>5, <2>6, EnsureFacts
      <3>5. attempts' \in [Pairs -> Nat]  BY <1>5, <3>1 DEF TypeOK
      <3>6. TypeOK'  BY <1>1, <1>4, <1>5, <2>2, <2>6, <3>1, <3>3, <3>4, <3>5 DEF TypeOK
      <3>7. QueueInv'
        <4>1. /\ PairsOf(ready)' = PairsOf(ready) \cup {x} /\ PairsOf(batch)' = PairsOf(batch) \ {x}
              /\ Distinct(ready)' /\ Distinct(batch)' BY <1>1, <1>4, <3>3 DEF PairsOf, Distinct
        <4>2. readySet' = PairsOf(ready)' \cup PairsOf(batch)'  BY <1>2, <1>4, <2>6, <4>1
        <4>3. Apart(ready, batch)'  BY <1>2, <4>1 DEF Apart
        <4> QED  BY <1>1, <1>2, <2>2, <4>1, <4>2, <4>3 DEF QueueInv
      <3>8. KeyedGrows /\ AllOfNeedsSuccess' /\ BooksInv'  BY <1>1, <2>2, <3>1, SameBooks DEF BooksInv
      <3>9. TokensInv' BY <1>1, <3>4, <3>8, TokensStay, <3>1 DEF TokensInv
      <3>10. CacheInv'
        <4> SUFFICES ASSUME NEW c \in cache', net.join[c.x[1]] = "AllOf"
                     PROVE  Covers(c.inputs, c.x[1], c.x[2])' BY <1>1 DEF CacheInv
        <4>1. CASE c \in cache  BY <1>1, <3>8, <4>1, CacheStays
        <4>2. CASE c \notin cache BY <3>4, <4>2, <1>5, <2>3, <2>4, <1>1, <3>8, CoversStays DEF Pairs
        <4> QED  BY <4>1, <4>2
      <3> QED  BY <3>6, <3>7, <3>8, <3>9, <3>10
    <2>7. CASE /\ tokens' = Consumed(IF Cached(x) THEN {} ELSE {x})
               /\ cache' = {c \in cache : c.x # x}
               /\ Complete(x, out)
               /\ readySet' = readySet \ {x}
               /\ UNCHANGED ready
      <3>1. /\ out \in Outcomes
            /\ net.join[x[1]] = "AllOf" /\ out # "Skipped" =>
                \A p \in net.in[x[1]] : \E src \in Transitions :
                   p \in Range(net.out[src]) /\ keyed[<<src, x[2]>>] = "Success"
        BY <1>5, <2>3, <2>4, OutcomeEarned
      <3>2. /\ KeyedGrows
            /\ completed' = completed \cup {x} /\ completed' \subseteq Pairs
            /\ keyed' \in [Pairs -> Outcomes \cup {"none"}]
            /\ outcomes' \in [Transitions -> Outcomes \cup {"none"}]
            /\ attempts' \in [Pairs -> Nat]
            /\ emit' \in [t : Transitions, k : Keys, out : Outcomes, rest : Seq(Places)] \cup {NoEmit}
            /\ \A y \in Pairs : y \in completed' <=> keyed'[y] # "none"
            /\ keyed'[<<emit'.t, emit'.k>>] = emit'.out
            /\ Range(emit'.rest) \subseteq Range(net'.out[emit'.t])
            /\ AllOfNeedsSuccess' BY <1>1, <1>5, <2>1, <2>7, <3>1, CompleteFacts
      <3>3. /\ tokens' \in [Places -> [Keys -> SUBSET Token]]
            /\ \A p \in Places, k \in Keys : tokens'[p][k] \subseteq tokens[p][k] BY <1>5, <2>7, ConsumedFacts
      <3>4. TypeOK'  BY <1>1, <1>4, <2>2, <2>7, <3>2, <3>3 DEF TypeOK
      <3>5. QueueInv'  BY <1>7, <2>2, <2>7
      <3>6. BooksInv'  BY <2>2, <3>2 DEF BooksInv
      <3>7. TokensInv' BY <1>1, <3>2, <3>3, TokensStay DEF TokensInv
      <3>8. CacheInv' BY <1>1, <3>2, CacheStays, <2>7 DEF CacheInv
      <3> QED  BY <3>2, <3>4, <3>5, <3>6, <3>7, <3>8
    <2> QED  BY <2>5, <2>6, <2>7
  <1> QED  BY <1>8, <1>9

\* One result of a parallel batch: retried or completed.
LEMMA MergeStep == EngineInv /\ Merge => EngineInv'
  <1> SUFFICES ASSUME EngineInv, Merge PROVE EngineInv'  OBVIOUS
  <1> USE DEF EngineInv
  <1>1. /\ pc = "merge" /\ batch # <<>> /\ emit = NoEmit /\ batch' = Tail(batch)
        /\ UNCHANGED <<net, config, pc, tokens, zombies, runs>> BY DEF Merge
  <1>2. /\ config.concurrency > 1 /\ readySet = PairsOf(ready) /\ Distinct(ready) /\ Distinct(batch)
        /\ ready \in Seq(Item) /\ batch \in Seq(Item) BY <1>1 DEF QueueInv, TypeOK
  <1>3. PICK x : x = Pair(Head(batch))  OBVIOUS
  <1>4. /\ Tail(batch) \in Seq(Item) /\ Distinct(Tail(batch)) /\ Head(batch) \in Item
        /\ x \in PairsOf(batch) /\ PairsOf(Tail(batch)) = PairsOf(batch) \ {x}
        /\ \A i \in DOMAIN Tail(batch) : i + 1 \in DOMAIN batch /\ Tail(batch)[i] = batch[i + 1]
        /\ 1 \in DOMAIN batch /\ Head(batch) = batch[1] BY <1>1, <1>2, <1>3, Shortened
  <1>5. x \in Pairs /\ x = <<x[1], x[2]>>  BY <1>3, <1>4 DEF Pair, Pairs, Item
  <1>6. x \notin completed /\ Cached(x)  BY <1>1, <1>3, <1>4 DEF BooksInv
  <1>7. \A i \in DOMAIN Tail(batch) :
           LET y == Pair(Tail(batch)[i]) IN y # x /\ y \notin completed /\ Cached(y)
    <2> SUFFICES ASSUME NEW i \in DOMAIN Tail(batch)
                 PROVE  LET y == Pair(Tail(batch)[i]) IN y # x /\ y \notin completed /\ Cached(y) OBVIOUS
    <2>1. Pair(Tail(batch)[i]) \in PairsOf(Tail(batch))  BY DEF PairsOf, Pair, Range
    <2> QED  BY <1>1, <1>4, <2>1 DEF BooksInv
  <1>8. CachedInputs(x) = TriggerInputs(x) /\ TriggerInputs(x) \in SUBSET Token BY <1>5, <1>6, InputFacts
  <1>9. net.join[x[1]] = "AllOf" => Covers(CachedInputs(x), x[1], x[2])
    BY <1>6, <1>1, <1>5, <1>8, EnabledCovers DEF Stale
  <1>10. Distinct(batch)' /\ batch' \in Seq(Item)  BY <1>1, <1>4 DEF Distinct
  <1>11. PICK out \in RunOutcomes(x[1], CachedInputs(x)) :
            \/ /\ MayRetry(x, out)
               /\ Retry(x)
               /\ PushReady(x[1], x[2], TRUE)
               /\ UNCHANGED cache
            \/ /\ ~MayRetry(x, out)
               /\ cache' = {c \in cache : c.x # x}
               /\ Complete(x, out)
               /\ UNCHANGED <<ready, readySet>> BY <1>3 DEF Merge, Pair
  <1>12. CASE Retry(x) /\ PushReady(x[1], x[2], TRUE) /\ UNCHANGED cache
    <2>1. attempts' = [attempts EXCEPT ![x] = @ + 1] /\ UNCHANGED <<completed, keyed, outcomes, emit>>
      BY <1>12 DEF Retry
    <2>2. [t |-> x[1], k |-> x[2], retry |-> TRUE] \in Item
          /\ Pair([t |-> x[1], k |-> x[2], retry |-> TRUE]) = x BY <1>5 DEF Pair, Pairs, Item
    <2>3. /\ ready' \in Seq(Item) /\ Distinct(ready') /\ PairsOf(ready') = readySet'
          /\ readySet' \subseteq Pairs
      <3>1. CASE x \in readySet \cup completed BY <1>2, <1>5, <1>12, <3>1 DEF PushReady, PairsOf, TypeOK
      <3>2. CASE x \notin readySet \cup completed
        <4>1. ready' = Append(ready, [t |-> x[1], k |-> x[2], retry |-> TRUE])
              /\ readySet' = readySet \cup {x} BY <1>5, <1>12, <3>2 DEF PushReady
        <4> QED  BY <1>2, <1>5, <2>2, <3>2, <4>1, Appended DEF TypeOK
      <3> QED  BY <3>1, <3>2
    <2>4. attempts' \in [Pairs -> Nat]  BY <1>5, <2>1 DEF TypeOK
    <2>5. TypeOK'  BY <1>1, <1>10, <1>12, <2>1, <2>3, <2>4 DEF TypeOK
    <2>6. QueueInv' BY <2>3, <1>1, <1>2, <1>10 DEF Distinct, PairsOf, QueueInv
    <2>7. BooksInv' BY <1>1, <1>7, <1>12, <2>1, SameBooks DEF Cached, Pair, BooksInv
    <2> QED  BY <1>1, <1>12, <2>1, <2>5, <2>6, <2>7, SameBooks, SameTokens, SameCache
  <1>13. CASE /\ cache' = {c \in cache : c.x # x} /\ Complete(x, out) /\ UNCHANGED <<ready, readySet>>
    <2>1. /\ out \in Outcomes
          /\ net.join[x[1]] = "AllOf" /\ out # "Skipped" =>
                \A p \in net.in[x[1]] : \E src \in Transitions :
                   p \in Range(net.out[src]) /\ keyed[<<src, x[2]>>] = "Success"
      BY <1>5, <1>8, <1>9, OutcomeEarned
    <2>2. /\ KeyedGrows
          /\ completed' = completed \cup {x} /\ completed' \subseteq Pairs
          /\ keyed' \in [Pairs -> Outcomes \cup {"none"}]
          /\ outcomes' \in [Transitions -> Outcomes \cup {"none"}]
          /\ attempts' \in [Pairs -> Nat]
          /\ emit' \in [t : Transitions, k : Keys, out : Outcomes, rest : Seq(Places)] \cup {NoEmit}
          /\ \A y \in Pairs : y \in completed' <=> keyed'[y] # "none"
          /\ keyed'[<<emit'.t, emit'.k>>] = emit'.out
          /\ Range(emit'.rest) \subseteq Range(net'.out[emit'.t])
          /\ AllOfNeedsSuccess' BY <1>1, <1>5, <1>6, <1>13, <2>1, CompleteFacts
    <2>3. TypeOK'  BY <1>1, <1>10, <1>13, <2>2 DEF TypeOK
    <2>4. QueueInv' BY <1>2, <1>13, <1>1, <1>10 DEF Distinct, PairsOf, QueueInv
    <2>5. BooksInv'
      <3>1. \A i \in DOMAIN batch' : Pair(batch'[i]) \notin completed' /\ Cached(Pair(batch[i]))'
        <4> SUFFICES ASSUME NEW i \in DOMAIN Tail(batch)
                     PROVE  LET y == Pair(Tail(batch)[i])
                            IN  y \notin completed' /\ \E c \in cache' : c.x = y BY <1>1 DEF Cached, Pair
        <4> QED  BY <1>7, <1>13, <2>2 DEF Cached
      <3> QED  BY <1>1, <2>2, <3>1 DEF BooksInv, Pair
    <2>6. TokensInv' BY <1>1, <2>2, TokensStay DEF TokensInv
    <2>7. CacheInv' BY <1>1, <2>2, CacheStays, <1>13 DEF CacheInv
    <2> QED  BY <2>2, <2>3, <2>4, <2>5, <2>6, <2>7
  <1> QED  BY <1>11, <1>12, <1>13

\* Every step keeps the invariant.
LEMMA EngineInductive == EngineInv /\ [Next \/ Done]_vars => EngineInv'
  <1> SUFFICES ASSUME EngineInv, [Next \/ Done]_vars PROVE EngineInv'  OBVIOUS
  <1>1. CASE UNCHANGED vars
    <2> USE <1>1 DEF vars, EngineInv
    <2>1. TypeOK'  BY DEF TypeOK
    <2>2. QueueInv'  BY DEF QueueInv, Distinct, Apart, PairsOf
    <2>3. BooksInv'  BY DEF BooksInv, Cached
    <2>4. TokensInv'  BY DEF TokensInv, Carried
    <2>5. CacheInv'  BY DEF CacheInv, Covers, Carried
    <2>6. AllOfNeedsSuccess'  BY DEF AllOfNeedsSuccess
    <2> QED  BY <2>1, <2>2, <2>3, <2>4, <2>5, <2>6
  <1>2. CASE Next
    BY <1>2, BuildStep, NextBatchStep, ParallelStep, JoinStep, ProcessStep, MergeStep,
       MergeEndStep, EmitStep, SettleStep, DrainStep DEF Next
  <1> QED  BY <1>1, <1>2 DEF Done

\* The invariant always holds.
LEMMA EngineSafe == Spec => []EngineInv
  BY EngineInitial, EngineInductive, PTL DEF Spec

\* A queue of distinct pairs is as long as it has pairs.
LEMMA Counted ==
    ASSUME NEW s \in Seq(Item), Distinct(s)
    PROVE  Cardinality(PairsOf(s)) = Len(s)
  <1>1. PairsOf(s) = {Pair(s[i]) : i \in 1 .. Len(s)} /\ DOMAIN s = 1 .. Len(s) /\ Len(s) \in Nat
    BY PairsOfSeq
  <1> DEFINE f == [i \in 1 .. Len(s) |-> Pair(s[i])]
  <1>2. f \in Surjection(1 .. Len(s), PairsOf(s))  BY <1>1 DEF Surjection
  <1>3. f \in Injection(1 .. Len(s), PairsOf(s))  BY <1>1, <1>2 DEF Injection, Surjection, Distinct, IsInjective
  <1>4. IsFiniteSet(1 .. Len(s)) /\ Cardinality(1 .. Len(s)) = Len(s)  BY <1>1, FS_Interval, SMTT(30)
  <1> HIDE DEF f
  <1> QED  BY <1>2, <1>3, <1>4, FS_Surjection

\* Two queues apart from each other make one of distinct pairs.
LEMMA Joined2 ==
    ASSUME NEW s \in Seq(Item), NEW u \in Seq(Item), Distinct(s), Distinct(u), Apart(s, u)
    PROVE  s \o u \in Seq(Item) /\ Distinct(s \o u) /\ PairsOf(s \o u) = PairsOf(s) \cup PairsOf(u)
  <1> DEFINE c == s \o u
             n == Len(s)
             m == Len(u)
  <1>1. /\ n \in Nat /\ m \in Nat /\ c \in Seq(Item) /\ Len(c) = n + m
        /\ \A i \in 1 .. n + m : c[i] = IF i <= n THEN s[i] ELSE u[i - n] BY ConcatProperties
  <1>2. /\ PairsOf(s) = {Pair(s[i]) : i \in 1 .. n} /\ DOMAIN s = 1 .. n
        /\ PairsOf(u) = {Pair(u[i]) : i \in 1 .. m} /\ DOMAIN u = 1 .. m
        /\ PairsOf(c) = {Pair(c[i]) : i \in 1 .. n + m} /\ DOMAIN c = 1 .. n + m BY <1>1, PairsOfSeq
  <1> HIDE DEF c, n, m
  <1>3. \A i \in 1 .. n : i \in 1 .. n + m /\ c[i] = s[i]  BY <1>1
  <1>4. \A i \in 1 .. m : n + i \in 1 .. n + m /\ c[n + i] = u[i]
    <2> SUFFICES ASSUME NEW i \in 1 .. m PROVE n + i \in 1 .. n + m /\ c[n + i] = u[i] OBVIOUS
    <2>1. n + i \in 1 .. n + m /\ ~(n + i <= n) /\ (n + i) - n = i  BY <1>1
    <2> QED  BY <1>1, <2>1
  <1>5. \A i \in 1 .. n + m : \/ i \in 1 .. n /\ c[i] = s[i]
                              \/ i \notin 1 .. n /\ i - n \in 1 .. m /\ c[i] = u[i - n]
    <2> SUFFICES ASSUME NEW i \in 1 .. n + m
                 PROVE  \/ i \in 1 .. n /\ c[i] = s[i]
                        \/ i \notin 1 .. n /\ i - n \in 1 .. m /\ c[i] = u[i - n] OBVIOUS
    <2>1. i \in 1 .. n \/ (~(i <= n) /\ i \notin 1 .. n /\ i - n \in 1 .. m)  BY <1>1
    <2> QED  BY <1>1, <1>3, <2>1
  <1>6. PairsOf(c) = PairsOf(s) \cup PairsOf(u) BY <1>2, <1>5, <1>3, <1>4
  <1>7. Distinct(c)
    <2> SUFFICES ASSUME NEW i \in 1 .. n + m, NEW j \in 1 .. n + m, i # j
                 PROVE  Pair(c[i]) # Pair(c[j]) BY <1>2 DEF Distinct
    <2>1. \A a \in 1 .. n, b \in 1 .. m : Pair(s[a]) # Pair(u[b])  BY <1>2 DEF Apart
    <2>2. CASE i \in 1 .. n /\ j \in 1 .. n  BY <1>2, <1>3, <2>2 DEF Distinct
    <2>3. CASE i \in 1 .. n /\ j \notin 1 .. n  BY <1>5, <2>1, <2>3
    <2>4. CASE i \notin 1 .. n /\ j \in 1 .. n  BY <1>5, <2>1, <2>4
    <2>5. CASE i \notin 1 .. n /\ j \notin 1 .. n
      <3>1. i - n # j - n  BY <1>1
      <3> QED  BY <1>2, <1>5, <2>5, <3>1 DEF Distinct
    <2> QED  BY <2>2, <2>3, <2>4, <2>5
  <1> QED  BY <1>1, <1>6, <1>7 DEF c

\* The invariant says that the gates are honoured.
LEMMA GatesFollow == EngineInv => GatesHonoured
  <1> SUFFICES ASSUME EngineInv PROVE GatesHonoured  OBVIOUS
  <1> USE DEF EngineInv
  <1>1. ready \in Seq(Item) /\ batch \in Seq(Item) /\ Distinct(ready) /\ Distinct(batch)
    BY DEF TypeOK, QueueInv
  <1>2. CASE config.concurrency > 1 BY <1>1, <1>2, Counted DEF ReadySetExact, QueueInv, GatesHonoured
  <1>3. CASE ~(config.concurrency > 1)
    BY <1>3, <1>1, Joined2, Counted DEF QueueInv, ReadySetExact, GatesHonoured
  <1> QED  BY <1>2, <1>3

\* execute_net honours its gates for every finite net and configuration: ready_set
\* is exactly what the ready queue and the batch hold, and an AllOf transition
\* completes, other than as Skipped, only if every input place got a token from
\* a transition that succeeded for the same correlation key.
THEOREM GatesAreHonoured == Spec => []GatesHonoured
  BY EngineSafe, GatesFollow, PTL

-----------------------------------------------------------------------------
(* What a pair completed with is final, on every path.                     *)

\* The step leaves a completed pair alone.
Kept(x) == x \in completed' /\ keyed'[x] = keyed[x] /\ runs'[x] = runs[x]

\* No step touches a completed pair.
LEMMA OnceStep == EngineInv /\ [Next \/ Done]_vars => \A x \in completed : Kept(x)
  <1> SUFFICES ASSUME EngineInv, [Next \/ Done]_vars, NEW y \in completed PROVE Kept(y)  OBVIOUS
  <1> USE DEF EngineInv
  <1>1. y \in Pairs  BY DEF TypeOK
  <1>2. CASE UNCHANGED <<completed, keyed, runs>>  BY <1>2 DEF Kept
  <1>3. CASE ParallelBatch
    <2>1. PICK chosen \in Sorted(FirstPerKey) :
            LET items == {chosen[i] : i \in 1 .. Min2(config.concurrency, Len(chosen))}
                live == {i \in items : <<i.t, i.k>> \notin completed}
                X == {<<i.t, i.k>> : i \in live}
            IN runs' = [x \in Pairs |-> runs[x] + (IF x \in X THEN 1 ELSE 0)] BY <1>3 DEF ParallelBatch
    <2> DEFINE items == {chosen[i] : i \in 1 .. Min2(config.concurrency, Len(chosen))}
               live == {i \in items : <<i.t, i.k>> \notin completed}
               X == {<<i.t, i.k>> : i \in live}
    <2>2. runs' = [x \in Pairs |-> runs[x] + (IF x \in X THEN 1 ELSE 0)]  BY <2>1
    <2>3. y \notin X  OBVIOUS
    <2> HIDE DEF X
    <2>4. runs'[y] = runs[y]  BY <1>1, <2>2, <2>3 DEF TypeOK
    <2> QED  BY <1>3, <2>4 DEF ParallelBatch, Kept
  <1>4. CASE Process
    <2>1. PICK x : x = <<Head(batch).t, Head(batch).k>>  OBVIOUS
    <2>2. IF x \in completed \/ Stale({x}) THEN Refuse(x) ELSE RunItem(x)  BY <1>4, <2>1 DEF Process
    <2>3. CASE x \in completed \/ Stale({x})  BY <2>2, <2>3 DEF Refuse, Kept
    <2>4. CASE ~(x \in completed \/ Stale({x})) BY <2>2, <2>4, <1>1 DEF RunItem, TypeOK, Retry, Complete, Kept
    <2> QED  BY <2>3, <2>4
  <1>5. CASE Merge
    <2>1. PICK x : x = <<Head(batch).t, Head(batch).k>>  OBVIOUS
    <2>2. x # y BY <1>5, Shortened, <2>1 DEF Merge, TypeOK, QueueInv, BooksInv, Pair
    <2>3. runs' = runs  BY <1>5 DEF Merge
    <2>4. \/ UNCHANGED <<completed, keyed>>
          \/ \E out : completed' = completed \cup {x} /\ keyed' = [keyed EXCEPT ![x] = out]
      BY <1>5, <2>1 DEF Merge, Retry, Complete
    <2> QED  BY <1>1, <2>2, <2>3, <2>4 DEF Kept, TypeOK
  <1> QED
    BY <1>2, <1>3, <1>4, <1>5
       DEF Next, Done, vars, Build, NextBatch, Join, MergeEnd, Emit, Settle, Drain

\* What mark_completed records is final on every path: a completed pair is not run
\* again, stays completed and keeps its outcome, whatever tokens still arrive.
THEOREM OutcomesAreFinal == Spec => CompletedOnce
  <1>1. EngineInv /\ [Next \/ Done]_vars =>
           [\A x \in completed : x \in completed' /\ keyed'[x] = keyed[x] /\ runs'[x] = runs[x]]_vars
    BY OnceStep DEF Kept
  <1> QED  BY <1>1, EngineSafe, PTL DEF Spec, CompletedOnce

-----------------------------------------------------------------------------
(* The single-threaded paths: no work is lost and none is stale.           *)

\* The inputs of t enable it, apart from its being completed.
Fires(t, k, tk) ==
    \/ net.in[t] = {}
    \/ /\ \A p \in net.required[t] : tk[p][k] # {}
       /\ Joined(t, [p \in Places |-> tk[p][k]])

\* A place can hold finitely many tokens for a key.
LEMMA FiniteTokens == IsFiniteSet(Token)
  <1>1. IsFiniteSet(Outcomes)
    <2>1. IsFiniteSet({}) /\ \A S, x : IsFiniteSet(S) => IsFiniteSet(S \cup {x}) BY FS_EmptySet, FS_AddElement
    <2>2. Outcomes = ((((({} \cup {"Success"}) \cup {"Failure"}) \cup {"Timeout"})
                      \cup {"Cancelled"}) \cup {"Skipped"}) BY DEF Outcomes
    <2> HIDE DEF Outcomes
    <2> QED  BY <2>1, <2>2, Zenon
  <1>2. IsFiniteSet(Transitions \X Outcomes)  BY <1>1, FiniteAssumption, FS_Product
  <1> DEFINE f == [to \in Transitions \X Outcomes |-> [src |-> to[1], out |-> to[2]]]
  <1>3. f \in Surjection(Transitions \X Outcomes, Token)
    <2>1. f \in [Transitions \X Outcomes -> Token]  BY DEF Token
    <2>2. ASSUME NEW tok \in Token PROVE \E to \in Transitions \X Outcomes : f[to] = tok
      <3>1. <<tok.src, tok.out>> \in Transitions \X Outcomes /\ f[<<tok.src, tok.out>>] = tok  BY DEF Token
      <3> QED  BY <3>1
    <2> HIDE DEF f
    <2> QED  BY <2>1, <2>2 DEF Surjection
  <1> HIDE DEF f
  <1> QED  BY <1>2, <1>3, FS_Surjection

\* More tokens never disable a transition: every join policy is monotone.
LEMMA FiresMono ==
    ASSUME TypeOK, NEW t \in Transitions, NEW k \in Keys, NEW a, NEW b,
           \A p \in net.in[t] : a[p][k] \subseteq b[p][k], Fires(t, k, a)
    PROVE  Fires(t, k, b)
  <1>1. net.in[t] \subseteq Places /\ net.required[t] \subseteq net.in[t] /\ net.k[t] \in Nat
        /\ net.join[t] \in Policies BY NetFacts DEF NetType
  <1>2. CASE net.in[t] = {}  BY <1>2 DEF Fires
  <1>3. CASE net.in[t] # {}
    <2> DEFINE A == [p \in Places |-> a[p][k]]
               B == [p \in Places |-> b[p][k]]
               CA == {px \in net.in[t] \X Token : px[2] \in A[px[1]]}
               CB == {px \in net.in[t] \X Token : px[2] \in B[px[1]]}
    <2>1. \A p \in net.required[t] : b[p][k] # {}  BY <1>1, <1>3 DEF Fires
    <2>2. Joined(t, A)  BY <1>3 DEF Fires
    <2>3. \A p \in net.in[t] : A[p] \subseteq B[p]  BY <1>1
    <2>4. Cardinality(CA) <= Cardinality(CB) /\ Cardinality(CA) \in Nat /\ Cardinality(CB) \in Nat
      BY <1>1, FiniteAssumption, FS_Subset, FiniteTokens, FS_Product, <2>3, FS_CardinalityType
    <2>5. Joined(t, B)
      <3> HIDE DEF A, B
      <3>1. CASE net.join[t] = "Quorum"
        <4>1. Cardinality(CA) >= net.k[t]  BY <2>2, <3>1 DEF Joined
        <4> HIDE DEF CA
        <4>2. Cardinality(CB) >= net.k[t]  BY <1>1, <2>4, <4>1
        <4> QED  BY <3>1, <4>2 DEF Joined
      <3>2. CASE net.join[t] # "Quorum" BY <1>1, <1>3, <2>2, <2>3, <3>2 DEF Joined, Policies
      <3> QED  BY <3>1, <3>2
    <2> QED  BY <2>1, <2>5 DEF Fires
  <1> QED  BY <1>2, <1>3

\* The pairs that are queued or in the batch.
Waiting == PairsOf(ready) \cup PairsOf(batch)

\* A run of the pair would not be refused.
Runnable(x) == x \notin completed /\ (Cached(x) \/ IsReady(x[1], x[2], tokens))

\* Whoever waits can run, and whoever is owed a run waits.
QueuedInv ==
    pc \in {"loop", "drained"} =>
        /\ \A x \in Waiting : Runnable(x)
        /\ \A x \in Pairs : Owed(x) => x \in Waiting

\* Inputs are kept for retries only, and a completed transition without retries
\* has no token left.
CleanInv ==
    /\ \A c \in cache : net.retries[c.x[1]] # 0
    /\ \A x \in completed : net.retries[x[1]] = 0 => \A p \in net.in[x[1]] : tokens[p][x[2]] = {}

\* The points the single-threaded paths pass, and what holds at each.
StageInv ==
    /\ pc \notin {"run", "merge", "error"}
    /\ pc \notin {"build", "rejected"} => Valid
    /\ pc \in {"build", "rejected", "drained"} => emit = NoEmit
    /\ pc = "build" => /\ cache = {} /\ completed = {} /\ batch = <<>>
                       /\ \A p \in Places, k \in Keys : tokens[p][k] = {}
    /\ pc = "drained" => ready = <<>> /\ batch = <<>>

\* The invariant of the single-threaded paths.
SerialInv == config.concurrency <= 1 /\ QueuedInv /\ CleanInv /\ StageInv

\* The invariant of the single-threaded paths holds at first.
LEMMA SerialInitial == Init /\ config.concurrency <= 1 => SerialInv
  BY DEF Init, SerialInv, QueuedInv, CleanInv, StageInv

\* A pair is judged by its own tokens, inputs and outcome alone.
LEMMA PairFrame ==
    ASSUME TypeOK, net' = net, NEW x \in Pairs, x \in completed' <=> x \in completed,
           Cached(x)' <=> Cached(x),
           \A p \in net.in[x[1]] : tokens'[p][x[2]] = tokens[p][x[2]]
    PROVE  (Runnable(x)' <=> Runnable(x)) /\ (Owed(x)' <=> Owed(x))
  <1>1. x[1] \in Transitions /\ x[2] \in Keys /\ <<x[1], x[2]>> = x  BY DEF Pairs
  <1>2. PICK tk : tk = tokens'  OBVIOUS
  <1>3. Fires(x[1], x[2], tk) <=> Fires(x[1], x[2], tokens) BY <1>2, <1>1, FiresMono
  <1>4. IsReady(x[1], x[2], tokens)' <=> (x \notin completed' /\ Fires(x[1], x[2], tk))
    BY <1>1, <1>2 DEF IsReady, Fires, Joined
  <1>5. IsReady(x[1], x[2], tokens) <=> (x \notin completed /\ Fires(x[1], x[2], tokens))
    BY <1>1 DEF IsReady, Fires
  <1>6. IsReady(x[1], x[2], tokens)' <=> IsReady(x[1], x[2], tokens)  BY <1>3, <1>4, <1>5
  <1>7. Runnable(x)' <=> Runnable(x)  BY <1>6 DEF Runnable
  <1>8. (x[1] \in Roots /\ x[2] = net.root[x[1]])' <=> (x[1] \in Roots /\ x[2] = net.root[x[1]]) BY DEF Roots
  <1>9. (\E p \in net.in[x[1]] : tokens[p][x[2]] # {})' <=> (\E p \in net.in[x[1]] : tokens[p][x[2]] # {})
    OBVIOUS
  <1>10. Owed(x)' <=> Owed(x)  BY <1>6, <1>8, <1>9 DEF Owed
  <1> QED  BY <1>7, <1>10

\* The build queues exactly the roots, which need no inputs.
LEMMA SerialBuild == EngineInv /\ SerialInv /\ Build => SerialInv'
  <1> SUFFICES ASSUME EngineInv, SerialInv, Build PROVE SerialInv'  OBVIOUS
  <1> USE DEF EngineInv, SerialInv
  <1>1. /\ pc = "build" /\ cache = {} /\ completed = {} /\ batch = <<>> /\ emit = NoEmit
        /\ \A p \in Places, k \in Keys : tokens[p][k] = {}
        /\ UNCHANGED <<net, config, batch, tokens, cache, attempts, completed, keyed,
                       outcomes, emit, zombies, runs>> BY DEF Build, StageInv
  <1>2. CleanInv'  BY <1>1 DEF CleanInv
  <1>3. CASE pc' = "rejected" BY <1>1, <1>2, <1>3 DEF QueuedInv, StageInv
  <1>4. CASE /\ Valid /\ pc' = "loop"
             /\ ready' \in Arranged(RootItems, {ab \in RootItems \X RootItems : ab[1].t < ab[2].t})
    <2>1. PICK r : r = ready'  OBVIOUS
    <2>2. Range(r) = RootItems  BY <1>4, <2>1 DEF Arranged
    <2>3. Waiting' = {<<i.t, i.k>> : i \in RootItems} BY <1>1, <2>1, <2>2 DEF PairsOf, Range, Waiting
    <2>4. Waiting' = {<<t, net.root[t]>> : t \in Roots}
      <3>1. \A i \in RootItems : \E t \in Roots : i = [t |-> t, k |-> net.root[t], retry |-> FALSE]
        BY DEF RootItems
      <3>2. \A t \in Roots : [t |-> t, k |-> net.root[t], retry |-> FALSE] \in RootItems BY DEF RootItems
      <3>3. \A i \in RootItems : \E t \in Roots : <<i.t, i.k>> = <<t, net.root[t]>>  BY <3>1
      <3>4. \A t \in Roots : \E i \in RootItems : <<i.t, i.k>> = <<t, net.root[t]>>
        <4> SUFFICES ASSUME NEW t \in Roots
                     PROVE  \E i \in RootItems : <<i.t, i.k>> = <<t, net.root[t]>> OBVIOUS
        <4>1. PICK i \in RootItems : i = [t |-> t, k |-> net.root[t], retry |-> FALSE]  BY <3>2
        <4> QED  BY <4>1
      <3> QED  BY <2>3, <3>3, <3>4
    <2>5. ASSUME NEW x \in Waiting' PROVE Runnable(x)'
      <3>1. PICK t \in Roots : x = <<t, net.root[t]>>  BY <2>4
      <3>2. x[1] = t /\ net.in[t] = {}  BY <3>1 DEF Roots
      <3> QED  BY <1>1, <3>1, <3>2 DEF Runnable, IsReady
    <2>6. ASSUME NEW x \in Pairs, Owed(x)' PROVE x \in Waiting'
      BY <1>1, NetFacts, <2>6, <2>4 DEF Pairs, Cached, NetType, Owed, Roots
    <2>7. QueuedInv'  BY <1>4, <2>5, <2>6 DEF QueuedInv
    <2>8. StageInv'  BY <1>1, <1>4 DEF StageInv, Valid
    <2> QED  BY <1>1, <1>2, <2>7, <2>8
  <1> QED  BY <1>3, <1>4 DEF Build

\* Steps after which every pair stands as before and the same pairs wait.
LEMMA SerialSame ==
    ASSUME EngineInv, SerialInv, UNCHANGED <<net, config, tokens, cache, completed>>,
           pc' \in {"loop", "drained"} => pc \in {"loop", "drained"} /\ Waiting' = Waiting
    PROVE  QueuedInv' /\ CleanInv'
  <1> USE DEF EngineInv, SerialInv
  <1>1. CleanInv'  BY DEF CleanInv
  <1>2. \A x \in Pairs : (Runnable(x)' <=> Runnable(x)) /\ (Owed(x)' <=> Owed(x))
    <2> SUFFICES ASSUME NEW x \in Pairs
                 PROVE  (Runnable(x)' <=> Runnable(x)) /\ (Owed(x)' <=> Owed(x)) OBVIOUS
    <2>1. Cached(x)' <=> Cached(x)  BY DEF Cached
    <2> QED  BY <2>1, PairFrame
  <1>3. Waiting \subseteq Pairs  BY PairsOfSeq DEF Waiting, TypeOK
  <1> QED  BY <1>1, <1>2, <1>3 DEF QueuedInv

\* Moving items from the queue to the batch changes nothing a pair is owed.
LEMMA SerialNextBatch == EngineInv /\ EngineInv' /\ SerialInv /\ NextBatch => SerialInv'
  <1> SUFFICES ASSUME EngineInv, EngineInv', SerialInv, NextBatch PROVE SerialInv'  OBVIOUS
  <1>1. /\ pc = "loop" /\ UNCHANGED <<net, config, pc, readySet, tokens, cache, completed, emit>>
        /\ ~(config.concurrency > 1) BY NetFacts DEF NextBatch, EngineInv, ConfigType
  <1>2. Waiting' = Waiting BY <1>1 DEF EngineInv, QueueInv, Waiting
  <1>3. StageInv'  BY <1>1 DEF SerialInv, StageInv, Valid
  <1> QED  BY <1>1, <1>2, <1>3, SerialSame DEF SerialInv

\* When the queue is empty nothing is owed.
LEMMA SerialDrain == EngineInv /\ SerialInv /\ Drain => SerialInv'
  <1> SUFFICES ASSUME EngineInv, SerialInv, Drain PROVE SerialInv'  OBVIOUS
  <1>1. /\ pc = "loop" /\ pc' = "drained" /\ batch = <<>> /\ ready = <<>> /\ emit = NoEmit
        /\ UNCHANGED <<net, config, ready, batch, tokens, cache, completed, emit>> BY DEF Drain
  <1>2. Waiting' = Waiting  BY <1>1 DEF Waiting, PairsOf
  <1>3. StageInv'  BY <1>1 DEF SerialInv, StageInv, Valid
  <1> QED  BY <1>1, <1>2, <1>3, SerialSame DEF SerialInv

\* An emission that is over leaves nothing owed.
LEMMA SerialSettle == EngineInv /\ SerialInv /\ Settle => SerialInv'
  <1> SUFFICES ASSUME EngineInv, SerialInv, Settle PROVE SerialInv'  OBVIOUS
  <1>1. /\ emit # NoEmit /\ emit' = NoEmit /\ UNCHANGED <<net, config, tokens, cache, completed>>
    BY DEF Settle
  <1>2. pc \notin {"build", "rejected", "drained"}  BY <1>1 DEF SerialInv, StageInv
  <1>3. CASE UNCHANGED <<pc, ready, batch>>
    BY <1>3, <1>1, <1>2, SerialSame DEF Waiting, PairsOf, SerialInv, StageInv, Valid
  <1>4. CASE pc' = "terminated" BY <1>1, <1>2, <1>4, SerialSame DEF SerialInv, StageInv, Valid
  <1> QED  BY <1>3, <1>4 DEF Settle

\* A place has one consumer: what x takes, nobody else misses.
LEMMA ConsumedOwn ==
    ASSUME TypeOK, Valid, NEW x \in Pairs, NEW X \in SUBSET {x}, NEW y \in Pairs, y # x
    PROVE  \A p \in net.in[y[1]] : Consumed(X)[p][y[2]] = tokens[p][y[2]]
  <1>1. x = <<x[1], x[2]>> /\ y = <<y[1], y[2]>> /\ x[1] \in Transitions /\ y[1] \in Transitions
        /\ y[2] \in Keys BY DEF Pairs
  <1> SUFFICES ASSUME NEW p \in net.in[y[1]] PROVE Consumed(X)[p][y[2]] = tokens[p][y[2]] OBVIOUS
  <1>2. p \in Places  BY <1>1, NetFacts DEF NetType
  <1>3. ~(x[2] = y[2] /\ p \in net.in[x[1]])
    <2> SUFFICES ASSUME x[2] = y[2], p \in net.in[x[1]] PROVE FALSE  OBVIOUS
    <2>1. x[1] # y[1]  BY <1>1
    <2> QED  BY <1>1, <2>1 DEF Valid
  <1>4. ~\E z \in X : z[2] = y[2] /\ p \in net.in[z[1]]  BY <1>3
  <1> QED  BY <1>1, <1>2, <1>4 DEF Consumed

\* An item that is processed takes its own inputs and nobody else's.
LEMMA SerialProcess == EngineInv /\ EngineInv' /\ SerialInv /\ Process => SerialInv'
  <1> SUFFICES ASSUME EngineInv, EngineInv', SerialInv, Process PROVE SerialInv'  OBVIOUS
  <1> USE DEF EngineInv, SerialInv
  <1>1. /\ pc = "loop" /\ batch # <<>> /\ batch' = Tail(batch) /\ UNCHANGED <<net, config>>
        /\ ~(config.concurrency > 1) BY NetFacts DEF Process, ConfigType
  <1>2. PICK x : x = Pair(Head(batch))  OBVIOUS
  <1>3. x \in PairsOf(batch) /\ x \in Waiting /\ Waiting \subseteq Pairs
    BY <1>1, <1>2, Shortened, PairsOfSeq DEF Waiting, TypeOK, QueueInv
  <1>4. x \in Pairs /\ x = <<x[1], x[2]>> /\ x[1] \in Transitions /\ x[2] \in Keys BY <1>3 DEF Pairs
  <1>5. Runnable(x) /\ Valid  BY <1>1, <1>3 DEF QueuedInv, StageInv
  <1>6. RunItem(x) BY <1>5, <1>2 DEF Runnable, Stale, Process, Pair
  <1>7. pc' = "loop"  BY <1>1, <1>6 DEF RunItem
  <1>8. readySet = Waiting /\ readySet' = Waiting'  BY <1>1 DEF QueueInv, Waiting
  <1>9. StageInv'  BY <1>1, <1>5, <1>7 DEF StageInv, Valid
  <1>10. PICK out \in RunOutcomes(x[1], TriggerInputs(x)) :
         \/ /\ MayRetry(x, out)
            /\ EnsureInputs({x})
            /\ Retry(x)
            /\ ready' = Append(ready, [t |-> x[1], k |-> x[2], retry |-> TRUE])
            /\ readySet' = readySet \cup {x}
         \/ /\ ~MayRetry(x, out)
            /\ tokens' = Consumed(IF Cached(x) THEN {} ELSE {x})
            /\ cache' = {c \in cache : c.x # x}
            /\ Complete(x, out)
            /\ readySet' = readySet \ {x}
            /\ UNCHANGED ready BY <1>6 DEF RunItem
  <1>11. CASE MayRetry(x, out) /\ EnsureInputs({x}) /\ Retry(x) /\ readySet' = readySet \cup {x}
    <2>1. completed' = completed  BY <1>11 DEF Retry
    <2>2. PICK X \in SUBSET {x} : tokens' = Consumed(X)  BY <1>11 DEF EnsureInputs
    <2>3. /\ cache \subseteq cache' /\ \A c \in cache' \ cache : c.x = x
          /\ Cached(x)' /\ \A p \in Places, k \in Keys : tokens'[p][k] \subseteq tokens[p][k]
      BY <1>4, <1>11, EnsureFacts
    <2>4. \A y \in Pairs : y # x => (Runnable(y)' <=> Runnable(y)) /\ (Owed(y)' <=> Owed(y))
      <3> SUFFICES ASSUME NEW y \in Pairs, y # x
                   PROVE  (Runnable(y)' <=> Runnable(y)) /\ (Owed(y)' <=> Owed(y)) OBVIOUS
      <3>1. Cached(y)' <=> Cached(y)  BY <2>3 DEF Cached
      <3>2. \A p \in net.in[y[1]] : tokens'[p][y[2]] = tokens[p][y[2]] BY <1>4, <1>5, <2>2, ConsumedOwn
      <3> QED  BY <1>1, <2>1, <3>1, <3>2, PairFrame
    <2>5. Runnable(x)'  BY <1>5, <2>1, <2>3 DEF Runnable
    <2>6. Waiting' = Waiting  BY <1>3, <1>8, <1>11
    <2>7. QueuedInv'  BY <1>1, <1>3, <2>4, <2>5, <2>6 DEF QueuedInv
    <2>8. net.retries[x[1]] # 0
      <3>1. attempts[x] \in Nat /\ net.retries[x[1]] \in Nat  BY <1>4, NetFacts DEF TypeOK, NetType
      <3> QED  BY <1>11, <3>1 DEF MayRetry
    <2>9. CleanInv'
      <3>1. \A c \in cache' : net.retries[c.x[1]] # 0  BY <2>3, <2>8 DEF CleanInv
      <3>2. \A y \in completed : net.retries[y[1]] = 0 => \A p \in net.in[y[1]] : tokens'[p][y[2]] = {}
        <4> SUFFICES ASSUME NEW y \in completed, net.retries[y[1]] = 0, NEW p \in net.in[y[1]]
                     PROVE  tokens'[p][y[2]] = {} OBVIOUS
        <4>1. y[1] \in Transitions /\ y[2] \in Keys  BY DEF TypeOK, Pairs
        <4>2. p \in Places  BY <4>1, NetFacts DEF NetType
        <4> QED  BY <2>3, <4>1, <4>2 DEF CleanInv
      <3> QED  BY <1>1, <2>1, <3>1, <3>2 DEF CleanInv
    <2> QED  BY <1>1, <1>9, <2>7, <2>9
  <1>12. CASE /\ tokens' = Consumed(IF Cached(x) THEN {} ELSE {x})
              /\ cache' = {c \in cache : c.x # x} /\ Complete(x, out) /\ readySet' = readySet \ {x}
    <2>1. completed' = completed \cup {x}  BY <1>12 DEF Complete
    <2>2. PICK X \in SUBSET {x} : tokens' = Consumed(X) /\ (~Cached(x) => X = {x})  BY <1>12
    <2>3. \A p \in Places, k \in Keys : tokens'[p][k] \subseteq tokens[p][k] BY <1>4, <2>2, ConsumedFacts
    <2>4. \A y \in Pairs : y # x => (Runnable(y)' <=> Runnable(y)) /\ (Owed(y)' <=> Owed(y))
      <3> SUFFICES ASSUME NEW y \in Pairs, y # x
                   PROVE  (Runnable(y)' <=> Runnable(y)) /\ (Owed(y)' <=> Owed(y)) OBVIOUS
      <3>1. Cached(y)' <=> Cached(y)  BY <1>12 DEF Cached
      <3>2. \A p \in net.in[y[1]] : tokens'[p][y[2]] = tokens[p][y[2]] BY <1>4, <1>5, <2>2, ConsumedOwn
      <3>3. y \in completed' <=> y \in completed  BY <2>1
      <3> QED  BY <1>1, <3>1, <3>2, <3>3, PairFrame
    <2>5. ~Owed(x)'  BY <2>1 DEF Owed
    <2>6. Waiting' = Waiting \ {x}  BY <1>8, <1>12
    <2>7. QueuedInv'  BY <1>1, <1>3, <2>4, <2>5, <2>6 DEF QueuedInv
    <2>8. CleanInv'
      <3>1. \A c \in cache' : net.retries[c.x[1]] # 0  BY <1>12 DEF CleanInv
      <3>2. \A y \in completed' : net.retries[y[1]] = 0 => \A p \in net.in[y[1]] : tokens'[p][y[2]] = {}
        <4> SUFFICES ASSUME NEW y \in completed', net.retries[y[1]] = 0, NEW p \in net.in[y[1]]
                     PROVE  tokens'[p][y[2]] = {} OBVIOUS
        <4>1. y[1] \in Transitions /\ y[2] \in Keys  BY <1>4, <2>1 DEF TypeOK, Pairs
        <4>2. p \in Places  BY <4>1, NetFacts DEF NetType
        <4>3. CASE y \in completed  BY <2>3, <4>1, <4>2, <4>3 DEF CleanInv
        <4>4. CASE y = x BY <4>4, <2>2, <4>1, <4>2 DEF Cached, CleanInv, Consumed
        <4> QED  BY <2>1, <4>3, <4>4
      <3> QED  BY <1>1, <3>1, <3>2 DEF CleanInv
    <2> QED  BY <1>1, <1>9, <2>7, <2>8
  <1> QED  BY <1>10, <1>11, <1>12

\* Whoever a token enables is queued by the step that delivers it.
LEMMA SerialEmit == EngineInv /\ EngineInv' /\ SerialInv /\ Emit => SerialInv'
  <1> SUFFICES ASSUME EngineInv, EngineInv', SerialInv, Emit PROVE SerialInv'  OBVIOUS
  <1> USE DEF EngineInv, SerialInv
  <1>1. /\ emit # NoEmit /\ emit.rest # <<>>
        /\ UNCHANGED <<net, config, pc, batch, cache, completed>>
        /\ ~(config.concurrency > 1) BY NetFacts DEF Emit, ConfigType
  <1>2. pc \notin {"build", "rejected", "drained"} /\ Valid  BY <1>1 DEF StageInv
  <1>3. StageInv'  BY <1>1, <1>2 DEF StageInv, Valid
  <1>4. PICK p, k, tok : p = Head(emit.rest) /\ k = emit.k /\ tok = [src |-> emit.t, out |-> emit.out] OBVIOUS
  <1>5. p \in Places /\ k \in Keys BY <1>1, <1>4 DEF TypeOK
  <1>6. readySet = Waiting /\ readySet' = Waiting' /\ Waiting \subseteq Pairs
    BY <1>1 DEF QueueInv, Waiting, TypeOK
  <1> DEFINE tk == [tokens EXCEPT ![p][k] = @ \cup {tok}]
  <1>7. CASE UNCHANGED <<tokens, ready, readySet>> BY <1>6, <1>7, <1>1, <1>3, SerialSame
  <1>8. CASE /\ \A c \in Consumers(p) : <<c, k>> \notin completed
             /\ tokens' = tk
             /\ \/ \E c \in Consumers(p) : IsReady(c, k, tk) /\ PushReady(c, k, FALSE)
                \/ /\ \A c \in Consumers(p) : ~IsReady(c, k, tk)
                   /\ UNCHANGED <<ready, readySet>>
    <2>1. \A q \in Places, j \in Keys :
             tokens'[q][j] = IF q = p /\ j = k THEN tokens[q][j] \cup {tok} ELSE tokens[q][j]
      BY <1>5, <1>8 DEF TypeOK
    <2>2. CleanInv'
      <3>1. \A y \in completed : net.retries[y[1]] = 0 => \A q \in net.in[y[1]] : tokens'[q][y[2]] = {}
        <4> SUFFICES ASSUME NEW y \in completed, net.retries[y[1]] = 0, NEW q \in net.in[y[1]]
                     PROVE  tokens'[q][y[2]] = {} OBVIOUS
        <4>1. y[1] \in Transitions /\ y[2] \in Keys /\ y = <<y[1], y[2]>>  BY DEF TypeOK, Pairs
        <4>2. q \in Places  BY <4>1, NetFacts DEF NetType
        <4>3. ~(q = p /\ y[2] = k)  BY <1>8, <4>1 DEF Consumers
        <4> QED  BY <2>1, <4>1, <4>2, <4>3 DEF CleanInv
      <3> QED  BY <1>1, <3>1 DEF CleanInv
    <2>3. PICK t2 : t2 = tk  OBVIOUS
    <2> HIDE DEF tk
    <2>4. Waiting \subseteq Waiting' BY <1>8, <1>6 DEF PushReady
    <2>5. \A y \in Waiting' \ Waiting : \E c \in Consumers(p) : y = <<c, k>> /\ IsReady(c, k, t2)
      BY <1>8, <2>3, <1>6 DEF PushReady
    <2>6. ASSUME NEW y \in Pairs, ~(y[2] = k /\ p \in net.in[y[1]])
          PROVE  (Runnable(y)' <=> Runnable(y)) /\ (Owed(y)' <=> Owed(y))
      <3>1. y[1] \in Transitions /\ y[2] \in Keys  BY DEF Pairs
      <3>2. net.in[y[1]] \subseteq Places  BY <3>1, NetFacts DEF NetType
      <3>3. \A q \in net.in[y[1]] : tokens'[q][y[2]] = tokens[q][y[2]]  BY <2>1, <2>6, <3>1, <3>2
      <3>4. Cached(y)' <=> Cached(y)  BY <1>1 DEF Cached
      <3> QED  BY <1>1, <3>3, <3>4, PairFrame
    <2>7. ASSUME NEW y \in Pairs, y[2] = k, p \in net.in[y[1]]
          PROVE  /\ Runnable(y) => Runnable(y)'
                 /\ IsReady(y[1], y[2], t2) => Runnable(y)'
                 /\ Owed(y)' => Owed(y) \/ IsReady(y[1], y[2], t2)
                 /\ y[1] \in Consumers(p) /\ y = <<y[1], k>>
      <3>1. y[1] \in Transitions /\ y[2] \in Keys /\ y = <<y[1], y[2]>>  BY DEF Pairs
      <3>2. net.in[y[1]] \subseteq Places  BY <3>1, NetFacts DEF NetType
      <3>3. t2 = tokens'  BY <1>8, <2>3
      <3>4. IsReady(y[1], y[2], tokens)' <=> IsReady(y[1], y[2], t2) BY <1>1, <3>3 DEF IsReady, Joined
      <3>5. Cached(y)' <=> Cached(y)  BY <1>1 DEF Cached
      <3>6. IsReady(y[1], y[2], tokens) => IsReady(y[1], y[2], t2)
        <4>1. \A q \in net.in[y[1]] : tokens[q][y[2]] \subseteq t2[q][y[2]]  BY <2>1, <3>1, <3>2, <3>3
        <4>2. Fires(y[1], y[2], tokens) => Fires(y[1], y[2], t2)  BY <3>1, <4>1, FiresMono
        <4> QED  BY <4>2 DEF IsReady, Fires
      <3>7. IsReady(y[1], y[2], t2) => y \notin completed  BY <3>1 DEF IsReady
      <3>8. y[1] \notin Roots' /\ y[1] \notin Roots  BY <1>1, <2>7 DEF Roots
      <3>9. (Runnable(y) => Runnable(y)') /\ (IsReady(y[1], y[2], t2) => Runnable(y)')
        BY <1>1, <3>4, <3>5, <3>6, <3>7 DEF Runnable
      <3>10. Owed(y)' => Owed(y) \/ IsReady(y[1], y[2], t2) BY <1>1, <3>4, <3>5, <3>8 DEF Owed
      <3> QED  BY <2>7, <3>1, <3>9, <3>10 DEF Consumers
    <2>8. ASSUME pc = "loop", NEW y \in Waiting' PROVE Runnable(y)'
      <3>1. CASE y \in Waiting BY <1>6, <2>8, <3>1, <2>6, <2>7 DEF QueuedInv
      <3>2. CASE y \notin Waiting
        <4>1. PICK c \in Consumers(p) : y = <<c, k>> /\ IsReady(c, k, t2)  BY <2>5, <3>2
        <4>2. y \in Pairs /\ y[1] = c /\ y[2] = k /\ p \in net.in[c] BY <1>5, <4>1 DEF Consumers, Pairs
        <4> QED  BY <2>7, <4>1, <4>2
      <3> QED  BY <3>1, <3>2
    <2>9. ASSUME pc = "loop", NEW y \in Pairs, Owed(y)' PROVE y \in Waiting'
      <3>1. CASE Owed(y)  BY <2>4, <2>9, <3>1 DEF QueuedInv
      <3>2. CASE ~Owed(y)
        <4>1. y[2] = k /\ p \in net.in[y[1]]  BY <2>6, <2>9, <3>2
        <4>2. IsReady(y[1], k, t2) /\ y[1] \in Consumers(p) /\ y = <<y[1], k>> BY <2>7, <2>9, <3>2, <4>1
        <4>3. PICK c \in Consumers(p) : IsReady(c, k, tk) /\ PushReady(c, k, FALSE) BY <1>8, <2>3, <4>2
        <4>4. c = y[1]  BY <1>2, <4>1, <4>2, <4>3 DEF Valid, Consumers
        <4>5. y \notin completed  BY <1>8, <4>2
        <4>6. y \in readySet'  BY <4>2, <4>3, <4>4, <4>5 DEF PushReady
        <4> QED  BY <1>6, <4>6
      <3> QED  BY <3>1, <3>2
    <2>10. QueuedInv' BY <1>1, <1>2, <2>8, <2>9 DEF QueuedInv
    <2> QED  BY <1>1, <1>3, <2>2, <2>10
  <1> QED  BY <1>4, <1>7, <1>8 DEF Emit

\* Every step keeps the invariant of the single-threaded paths.
LEMMA SerialInductive == EngineInv /\ EngineInv' /\ SerialInv /\ [Next \/ Done]_vars => SerialInv'
  <1> SUFFICES ASSUME EngineInv, EngineInv', SerialInv, [Next \/ Done]_vars PROVE SerialInv'  OBVIOUS
  <1>1. CASE UNCHANGED vars
    <2> USE <1>1 DEF vars
    <2>1. Waiting' = Waiting  BY DEF Waiting, PairsOf
    <2>2. StageInv'  BY DEF SerialInv, StageInv, Valid
    <2> QED  BY <2>1, <2>2, SerialSame DEF SerialInv
  <1>2. CASE Next
    <2>1. ~ParallelBatch  BY NetFacts DEF ParallelBatch, SerialInv, EngineInv, ConfigType
    <2>2. ~Join /\ ~Merge /\ ~MergeEnd  BY DEF Join, Merge, MergeEnd, SerialInv, StageInv
    <2> QED
      BY <1>2, <2>1, <2>2, SerialBuild, SerialNextBatch, SerialProcess, SerialEmit, SerialSettle,
         SerialDrain DEF Next
  <1> QED  BY <1>1, <1>2 DEF Done

\* The two invariants say that no work is lost, stale or left over.
LEMMA SerialFollows == EngineInv /\ SerialInv => NoLostWork /\ NoStaleRun /\ DrainedIsFinal
  <1> SUFFICES ASSUME EngineInv, SerialInv PROVE NoLostWork /\ NoStaleRun /\ DrainedIsFinal  OBVIOUS
  <1> USE DEF EngineInv, SerialInv
  <1>1. NoStaleRun  BY DEF NoStaleRun, StageInv
  <1>2. NoLostWork  BY DEF NoLostWork, QueuedInv, StageInv, Waiting
  <1>3. DrainedIsFinal
    <2> SUFFICES ASSUME pc = "drained", NEW t \in Transitions, NEW k \in Keys
                 PROVE  IF <<t, k>> \in completed
                        THEN net.retries[t] = 0 => \A p \in net.in[t] : tokens[p][k] = {}
                        ELSE net.in[t] # {} =>
                               \/ \A p \in net.in[t] : tokens[p][k] = {}
                               \/ ~IsReady(t, k, tokens) BY DEF DrainedIsFinal
    <2>1. PICK x : x = <<t, k>>  OBVIOUS
    <2>2. x \in Pairs /\ x[1] = t /\ x[2] = k  BY <2>1 DEF Pairs
    <2>3. CASE x \in completed  BY <2>1, <2>2, <2>3 DEF CleanInv
    <2>4. CASE x \notin completed BY <2>2, <2>1, <2>4 DEF StageInv, Waiting, PairsOf, Range, QueuedInv, Owed
    <2> QED  BY <2>1, <2>3, <2>4
  <1> QED  BY <1>1, <1>2, <1>3

\* On the single-threaded paths (concurrency of at most one) no work is lost: every
\* enabled transition and every retry is queued until it runs, the engine_invariant
\* "transition became not-ready before run" is never reached, and a drained run
\* leaves nothing enabled.  The hypothesis is needed: the parallel path drops
\* the queue's other items of a key, which engine_parallel_lost shows.
THEOREM WorkIsKept == Spec /\ config.concurrency <= 1 => WorkKept
  <1>1. Spec /\ config.concurrency <= 1 => []SerialInv
    BY SerialInitial, SerialInductive, EngineSafe, PTL DEF Spec
  <1> QED  BY <1>1, EngineSafe, SerialFollows, OutcomesAreFinal, PTL DEF WorkKept

-----------------------------------------------------------------------------


\* The instance is in the hands of thread t's call.
Holds(t, i) == svcTh[t].inst = i \/ \E e \in svcTh[t].todo : e[2] = i

\* What a call has at each of its points.
Shape(t) ==
    /\ SvcAt(t, "idle") => svcTh[t] = SvcIdle
    /\ svcTh[t].pc \in {"start", "insert", "stop_duplicate", "wait"} =>
           svcTh[t].key \in SvcKeys /\ svcTh[t].inst \in Instances
    /\ svcTh[t].pc \in {"detach", "next"} => svcTh[t].inst = SvcNone
    /\ svcTh[t].pc \in {"start", "insert", "stop_duplicate", "detach"} => svcTh[t].todo = {}

\* What the instances in the hands of a call are doing.
Stage(t) ==
    /\ SvcAt(t, "start") => state[svcTh[t].inst] = "starting"
    /\ SvcAt(t, "insert") => state[svcTh[t].inst] = "running"
    /\ svcTh[t].pc \in {"stop_duplicate", "wait"} =>
           state[svcTh[t].inst] \in {"stopping", "stopped"}
    /\ \A e \in svcTh[t].todo : state[e[2]] = "running"

\* An instance is in one place: under one key, or in the hands of one call.
Unshared ==
    /\ \A t, u \in SvcThreads, i \in Instances : Holds(t, i) /\ Holds(u, i) => t = u
    /\ \A t \in SvcThreads, k \in SvcKeys, i \in Instances : Holds(t, i) => entries[k] # i
    /\ \A t \in SvcThreads : \A e, f \in svcTh[t].todo : e[2] = f[2] => e = f

\* stop has been called on the instances that stop or have stopped, only.
StopsMatch == \A i \in Instances : state[i] \notin {"stopping", "stopped"} => stops[i] = 0

SvcInv ==
    /\ SvcTypeOK /\ NoOrphanService /\ RegisteredRuns
    /\ \A t \in SvcThreads : Shape(t) /\ Stage(t)
    /\ Unshared /\ StopsMatch

\* The inductive step, a thread's actions first.
LEMMA IdleFrame == SvcIdle \in SvcFrames
BY RegistryAssumption DEF SvcIdle, SvcFrames, SvcPoints

\* An instance is none of the markers.
LEMMA InstanceNat == Instances \subseteq Nat /\ SvcNone \notin Instances
BY RegistryAssumption DEF Instances

\* A call that moves on to frame g: what has to be seen of thread t for the
\* part of the invariant that is about calls.
LEMMA Moves ==
    ASSUME SvcInv, NEW t \in SvcThreads, NEW g \in SvcFrames,
           svcTh' = [svcTh EXCEPT ![t] = g],
           Shape(t)', Stage(t)',
           \A u \in SvcThreads \ {t}, j \in Instances :
               Holds(u, j) => state'[j] = state[j] /\ ~ Holds(t, j)',
           \A u \in SvcThreads, k \in SvcKeys, j \in Instances : Holds(u, j)' => entries'[k] # j,
           \A e, f \in g.todo : e[2] = f[2] => e = f
    PROVE  /\ \A u \in SvcThreads : Shape(u)' /\ Stage(u)'
           /\ Unshared'
           /\ svcTh' \in [SvcThreads -> SvcFrames]
<1>1. /\ svcTh \in [SvcThreads -> SvcFrames] /\ svcTh' \in [SvcThreads -> SvcFrames]
      /\ svcTh'[t] = g /\ \A u \in SvcThreads \ {t} : svcTh'[u] = svcTh[u] BY DEF SvcInv, SvcTypeOK
<1>2. ASSUME NEW u \in SvcThreads, u # t PROVE Shape(u)' /\ Stage(u)'
  BY <1>1, <1>2 DEF SvcInv, Shape, SvcAt, Holds, SvcFrames, Stage
<1>3. \A u \in SvcThreads \ {t}, j \in Instances : Holds(u, j)' <=> Holds(u, j) BY <1>1 DEF Holds
<1>4. \A u, v \in SvcThreads, i \in Instances : Holds(u, i)' /\ Holds(v, i)' => u = v
  BY <1>3 DEF SvcInv, Unshared
<1>5. \A u \in SvcThreads : \A e, f \in svcTh'[u].todo : e[2] = f[2] => e = f BY <1>1 DEF SvcInv, Unshared
<1> QED BY <1>1, <1>2, <1>4, <1>5 DEF Unshared

\* The check of a start takes a new instance into the hands of its call.
LEMMA StartCheckStep ==
    ASSUME SvcInv, NEW t \in SvcThreads, StartCheck(t) PROVE SvcInv'
<1>1. PICK k \in SvcKeys, i \in Instances :
        /\ entries[k] = SvcNone /\ state[i] = "new"
        /\ svcTh' = [svcTh EXCEPT ![t] = [SvcIdle EXCEPT !.pc = "start", !.key = k, !.inst = i]]
        /\ state' = [state EXCEPT ![i] = "starting"] BY DEF StartCheck
<1>2. UNCHANGED <<entries, svcZombies, stops, svcLock>> /\ svcTh[t] = SvcIdle
  BY DEF StartCheck, SvcCalling, SvcInv, Shape
<1> DEFINE f == [SvcIdle EXCEPT !.pc = "start", !.key = k, !.inst = i]
<1>3. svcTh' = [svcTh EXCEPT ![t] = f] BY <1>1
<1>4. f \in SvcFrames /\ f.pc = "start" /\ f.key = k /\ f.inst = i /\ f.todo = {}
  BY DEF SvcIdle, SvcFrames, SvcPoints
<1> HIDE DEF f
<1>5. \A u \in SvcThreads : svcTh[u] \in SvcFrames BY DEF SvcInv, SvcTypeOK
<1>6. \A u \in SvcThreads : ~ Holds(u, i)
  BY <1>1, <1>5, InstanceNat DEF SvcInv, Holds, Shape, Stage, SvcAt, SvcIdle, SvcFrames, SvcPoints
<1>7. svcTh'[t] = f BY <1>3 DEF SvcInv, SvcTypeOK
<1>8. \A j \in Instances : Holds(t, j)' <=> j = i BY <1>4, <1>7 DEF Holds
<1>9. \A u \in SvcThreads \ {t}, j \in Instances : Holds(u, j)' <=> Holds(u, j)
  BY <1>3 DEF Holds, SvcInv, SvcTypeOK
<1>10. Shape(t)' /\ Stage(t)' BY <1>1, <1>4, <1>7 DEF Shape, Stage, SvcAt, SvcInv, SvcTypeOK
<1>11. \A k1 \in SvcKeys : entries[k1] # i BY <1>1, InstanceNat DEF SvcInv, RegisteredRuns
<1>12. /\ \A u \in SvcThreads : Shape(u)' /\ Stage(u)'
       /\ Unshared' /\ svcTh' \in [SvcThreads -> SvcFrames]
  <2>1. \A u \in SvcThreads \ {t}, j \in Instances :
            Holds(u, j) => state'[j] = state[j] /\ ~ Holds(t, j)' BY <1>1, <1>6, <1>8 DEF SvcInv, SvcTypeOK
  <2>2. \A u \in SvcThreads, k1 \in SvcKeys, j \in Instances : Holds(u, j)' => entries'[k1] # j
    BY <1>2, <1>8, <1>9, <1>11 DEF SvcInv, Unshared
  <2>3. \A e, e2 \in f.todo : e[2] = e2[2] => e = e2 BY <1>4
  <2> QED BY <1>3, <1>4, <1>10, <2>1, <2>2, <2>3, Moves
<1>13. NoOrphanService'
  BY <1>1, <1>2, <1>3, <1>4 DEF SvcInv, SvcTypeOK, NoOrphanService, Registered, InCall, SvcIdle
<1>14. RegisteredRuns' /\ StopsMatch' BY <1>1, <1>2 DEF SvcInv, SvcTypeOK, RegisteredRuns, StopsMatch
<1>15. SvcTypeOK' BY <1>1, <1>2, <1>12 DEF SvcInv, SvcTypeOK, States
<1> QED BY <1>12, <1>13, <1>14, <1>15 DEF SvcInv

\* What an action of thread t does to the instances elsewhere, to those in its
\* hands, and to the registry.
Elsewhere(t) ==
    \A j \in Instances : ~ Holds(t, j) => state'[j] = state[j] /\ stops'[j] = stops[j]
InHand(t) ==
    \A j \in Instances : Holds(t, j) =>
        /\ state'[j] \notin {"stopping", "stopped"} => stops'[j] = 0
        /\ stops'[j] <= 1
        /\ state'[j] = "running" => Holds(t, j)' \/ \E k \in SvcKeys : entries'[k] = j
Books(t) ==
    \/ entries' = entries
    \/ \E k \in SvcKeys, i \in Instances :
         /\ entries[k] = SvcNone /\ entries' = [entries EXCEPT ![k] = i]
         /\ Holds(t, i) /\ ~ Holds(t, i)' /\ state'[i] = "running"

\* A call that takes nothing more in hand: it may change what the instances it
\* has are doing, and it may give one of them to a free key.
LEMMA Works ==
    ASSUME SvcInv, NEW t \in SvcThreads, NEW g \in SvcFrames,
           svcTh' = [svcTh EXCEPT ![t] = g], Shape(t)', Stage(t)',
           g.todo \subseteq svcTh[t].todo,
           \A j \in Instances : Holds(t, j)' => Holds(t, j),
           svcZombies' \subseteq SvcKeys \X Instances, svcLock' \in SvcThreads \cup {SvcNone},
           state' \in [Instances -> States], stops' \in [Instances -> Nat],
           Elsewhere(t), InHand(t), Books(t)
    PROVE  SvcInv'
<1>1. /\ svcTh \in [SvcThreads -> SvcFrames] /\ entries \in [SvcKeys -> Instances \cup {SvcNone}]
      /\ svcTh'[t] = g /\ \A u \in SvcThreads \ {t} : svcTh'[u] = svcTh[u] BY DEF SvcInv, SvcTypeOK
<1>2. \A u \in SvcThreads \ {t}, j \in Instances : Holds(u, j)' <=> Holds(u, j) BY <1>1 DEF Holds
<1>3. \A u \in SvcThreads, k \in SvcKeys, j \in Instances : Holds(u, j)' => entries'[k] # j
  <2>1. CASE entries' = entries BY <1>2, <2>1 DEF SvcInv, Unshared
  <2>2. ASSUME NEW k \in SvcKeys, NEW i \in Instances,
               entries' = [entries EXCEPT ![k] = i], Holds(t, i), ~ Holds(t, i)'
        PROVE  \A u \in SvcThreads, l \in SvcKeys, j \in Instances : Holds(u, j)' => entries'[l] # j
    BY <1>1, <1>2, <2>2 DEF SvcInv, Unshared
  <2> QED BY <2>1, <2>2 DEF Books
<1>4. /\ \A u \in SvcThreads : Shape(u)' /\ Stage(u)'
      /\ Unshared' /\ svcTh' \in [SvcThreads -> SvcFrames]
  <2>1. \A u \in SvcThreads \ {t}, j \in Instances :
            Holds(u, j) => state'[j] = state[j] /\ ~ Holds(t, j)' BY DEF SvcInv, Unshared, Elsewhere
  <2>2. \A e, f \in g.todo : e[2] = f[2] => e = f BY DEF SvcInv, Unshared
  <2> QED BY <1>3, <2>1, <2>2, Moves
<1>5. SvcTypeOK' BY <1>1, <1>4 DEF SvcTypeOK, Books
<1>6. StopsMatch' BY DEF SvcInv, StopsMatch, Elsewhere, InHand
<1>7. NoOrphanService'
  <2> SUFFICES ASSUME NEW i \in Instances, state'[i] = "running"
               PROVE  Registered(i)' \/ InCall(i)' BY DEF NoOrphanService
  <2>1. CASE Holds(t, i) BY <2>1 DEF Registered, InCall, Holds, InHand
  <2>2. CASE ~ Holds(t, i)
    <3>1. Registered(i) \/ InCall(i) BY <2>2 DEF SvcInv, NoOrphanService, Elsewhere
    <3>2. CASE Registered(i) BY <1>1, <3>2, InstanceNat DEF Registered, Books
    <3>3. CASE InCall(i)
      <4>1. PICK u \in SvcThreads : Holds(u, i) BY <3>3 DEF InCall, Holds
      <4>2. Holds(u, i)' BY <1>2, <2>2, <4>1
      <4> QED BY <4>2 DEF InCall, Holds
    <3> QED BY <3>1, <3>2, <3>3
  <2> QED BY <2>1, <2>2
<1>8. RegisteredRuns'
  <2>1. \A i \in Instances : stops'[i] <= 1 BY DEF SvcInv, RegisteredRuns, Elsewhere, InHand
  <2>2. \A k \in SvcKeys : entries[k] # SvcNone => ~ Holds(t, entries[k]) BY <1>1 DEF SvcInv, Unshared
  <2>3. \A k \in SvcKeys : entries[k] # SvcNone =>
            state'[entries[k]] = "running" /\ stops'[entries[k]] = 0
    BY <1>1, <2>2 DEF SvcInv, RegisteredRuns, Elsewhere
  <2>4. CASE entries' = entries BY <2>1, <2>3, <2>4 DEF SvcInv, RegisteredRuns
  <2>5. ASSUME NEW k \in SvcKeys, NEW i \in Instances, entries[k] = SvcNone,
               entries' = [entries EXCEPT ![k] = i], Holds(t, i), state'[i] = "running"
        PROVE  RegisteredRuns'
    BY <2>5, <1>1, <2>1, <2>3, InstanceNat DEF InHand, SvcInv, Unshared, RegisteredRuns
  <2> QED BY <2>4, <2>5 DEF Books
<1> QED BY <1>4, <1>5, <1>6, <1>7, <1>8 DEF SvcInv

\* The other actions of a thread.
LEMMA StartStep ==
    ASSUME SvcInv, NEW t \in SvcThreads, Start(t) PROVE SvcInv'
<1>0. svcTh \in [SvcThreads -> SvcFrames] /\ svcTh[t] \in SvcFrames BY DEF SvcInv, SvcTypeOK
<1>1. Shape(t) /\ Stage(t) BY DEF SvcInv
<1> DEFINE i == svcTh[t].inst
<1>2. /\ i \in Instances /\ Holds(t, i) /\ svcTh[t].todo = {} /\ state[i] = "starting"
      /\ stops[i] = 0 BY <1>1 DEF Start, SvcAt, Shape, Stage, Holds, SvcInv, StopsMatch
<1>3. CASE /\ state' = [state EXCEPT ![i] = "running"]
           /\ svcTh' = [svcTh EXCEPT ![t].pc = "insert"]
  <2> DEFINE g == [svcTh[t] EXCEPT !.pc = "insert"]
  <2>1. g \in SvcFrames /\ g.inst = i /\ g.todo = {} /\ g.pc = "insert" /\ g.key = svcTh[t].key
    BY <1>0, <1>2 DEF SvcFrames, SvcPoints
  <2>2. svcTh' = [svcTh EXCEPT ![t] = g] /\ svcTh'[t] = g BY <1>0, <1>3
  <2> HIDE DEF g
  <2>3. Shape(t)' /\ Stage(t)'
    BY <1>1, <1>2, <1>3, <2>1, <2>2 DEF Start, Shape, Stage, SvcAt, SvcInv, SvcTypeOK
  <2>4. \A j \in Instances : Holds(t, j)' <=> Holds(t, j) BY <1>2, <2>1, <2>2 DEF Holds
  <2>5. \A j \in Instances : Holds(t, j) => j = i BY <1>2 DEF Holds
  <2>6. /\ state' \in [Instances -> States] /\ stops' \in [Instances -> Nat]
        /\ svcZombies' \subseteq SvcKeys \X Instances /\ svcLock' \in SvcThreads \cup {SvcNone}
        /\ entries' = entries /\ stops' = stops
        /\ \A j \in Instances : j # i => state'[j] = state[j]
    BY <1>2, <1>3 DEF Start, SvcInv, SvcTypeOK, States
  <2>7. g.todo \subseteq svcTh[t].todo BY <2>1
  <2>8. Elsewhere(t) /\ InHand(t) /\ Books(t) BY <1>2, <2>4, <2>5, <2>6 DEF Elsewhere, InHand, Books
  <2> QED BY <2>1, <2>2, <2>3, <2>4, <2>6, <2>7, <2>8, Works
<1>4. CASE state' = [state EXCEPT ![i] = "failed"] /\ SvcReturns(t)
  <2>1. svcTh' = [svcTh EXCEPT ![t] = SvcIdle] /\ svcTh'[t] = SvcIdle /\ SvcIdle \in SvcFrames
    BY <1>0, <1>4, IdleFrame DEF SvcReturns
  <2>2. Shape(t)' /\ Stage(t)' /\ SvcIdle.todo \subseteq svcTh[t].todo
    BY <2>1 DEF Shape, Stage, SvcAt, SvcIdle
  <2>3. \A j \in Instances : ~ Holds(t, j)' BY <2>1, InstanceNat DEF Holds, SvcIdle
  <2>4. \A j \in Instances : Holds(t, j) => j = i BY <1>2 DEF Holds
  <2>5. /\ state' \in [Instances -> States] /\ stops' \in [Instances -> Nat]
        /\ svcZombies' \subseteq SvcKeys \X Instances /\ svcLock' \in SvcThreads \cup {SvcNone}
        /\ entries' = entries /\ stops' = stops /\ state'[i] = "failed"
        /\ \A j \in Instances : j # i => state'[j] = state[j]
    BY <1>2, <1>4 DEF Start, SvcInv, SvcTypeOK, States
  <2>6. Elsewhere(t) /\ InHand(t) /\ Books(t) BY <1>2, <2>4, <2>5 DEF Elsewhere, InHand, Books
  <2> QED BY <2>1, <2>2, <2>3, <2>5, <2>6, Works
<1> QED BY <1>3, <1>4 DEF Start

\* An insert hands the instance over to the registry, or keeps it as a duplicate.
LEMMA InsertStep ==
    ASSUME SvcInv, NEW t \in SvcThreads, Insert(t) PROVE SvcInv'
<1>0. svcTh \in [SvcThreads -> SvcFrames] /\ svcTh[t] \in SvcFrames BY DEF SvcInv, SvcTypeOK
<1>1. Shape(t) /\ Stage(t) BY DEF SvcInv
<1> DEFINE i == svcTh[t].inst
           k == svcTh[t].key
<1>2. /\ i \in Instances /\ k \in SvcKeys /\ Holds(t, i) /\ svcTh[t].todo = {}
      /\ state[i] = "running" /\ stops[i] = 0
  BY <1>1 DEF Insert, SvcAt, Shape, Stage, Holds, SvcInv, StopsMatch
<1>3. svcTh' = [svcTh EXCEPT ![t] = SvcIdle] /\ svcTh'[t] = SvcIdle /\ SvcIdle \in SvcFrames
  BY <1>0, IdleFrame DEF Insert, SvcReturns
<1>4. Shape(t)' /\ Stage(t)' /\ SvcIdle.todo \subseteq svcTh[t].todo BY <1>3 DEF Shape, Stage, SvcAt, SvcIdle
<1>5. \A j \in Instances : ~ Holds(t, j)' BY <1>3, InstanceNat DEF Holds, SvcIdle
<1>6. \A j \in Instances : Holds(t, j) => j = i BY <1>2 DEF Holds
<1>7. /\ state' \in [Instances -> States] /\ stops' \in [Instances -> Nat]
      /\ svcZombies' \subseteq SvcKeys \X Instances /\ svcLock' \in SvcThreads \cup {SvcNone}
      /\ stops' = stops /\ state' = state
      /\ entries[k] = SvcNone /\ entries' = [entries EXCEPT ![k] = i] /\ entries'[k] = i
  BY <1>2 DEF Insert, SvcInv, SvcTypeOK
<1>8. Elsewhere(t) /\ InHand(t) BY <1>2, <1>6, <1>7 DEF Elsewhere, InHand
<1>9. Books(t) BY <1>2, <1>5, <1>7 DEF Books
<1> QED BY <1>3, <1>4, <1>5, <1>7, <1>8, <1>9, Works

\* The duplicate is told to stop.
LEMMA StopDuplicateStep ==
    ASSUME SvcInv, NEW t \in SvcThreads, StopDuplicate(t) PROVE SvcInv'
<1>0. svcTh \in [SvcThreads -> SvcFrames] /\ svcTh[t] \in SvcFrames BY DEF SvcInv, SvcTypeOK
<1>1. Shape(t) /\ Stage(t) BY DEF SvcInv
<1> DEFINE i == svcTh[t].inst
           g == [svcTh[t] EXCEPT !.pc = "stop_duplicate"]
<1>2. /\ i \in Instances /\ Holds(t, i) /\ svcTh[t].todo = {}
      /\ state[i] = "running" /\ stops[i] = 0
  BY <1>1 DEF StopDuplicate, SvcAt, Shape, Stage, Holds, SvcInv, StopsMatch
<1>3. /\ g \in SvcFrames /\ g.inst = i /\ g.todo = {} /\ g.pc = "stop_duplicate"
      /\ g.key = svcTh[t].key BY <1>0, <1>2 DEF SvcFrames, SvcPoints
<1>4. svcTh' = [svcTh EXCEPT ![t] = g] /\ svcTh'[t] = g BY <1>0 DEF StopDuplicate
<1> HIDE DEF g
<1>5. /\ state' = [state EXCEPT ![i] = "stopping"] /\ stops' = [stops EXCEPT ![i] = @ + 1]
      /\ svcLock' = t /\ UNCHANGED <<entries, svcZombies>> BY DEF StopDuplicate, Stopping
<1>6. Shape(t)' /\ Stage(t)'
  BY <1>1, <1>2, <1>3, <1>4, <1>5 DEF StopDuplicate, Shape, Stage, SvcAt, SvcInv, SvcTypeOK
<1>7. \A j \in Instances : (Holds(t, j)' <=> j = i) /\ (Holds(t, j) <=> j = i) BY <1>2, <1>3, <1>4 DEF Holds
<1>8. /\ state' \in [Instances -> States] /\ stops' \in [Instances -> Nat]
      /\ svcZombies' \subseteq SvcKeys \X Instances /\ svcLock' \in SvcThreads \cup {SvcNone}
      /\ state'[i] = "stopping" /\ stops'[i] = 1
      /\ \A j \in Instances : j # i => state'[j] = state[j] /\ stops'[j] = stops[j]
  BY <1>2, <1>5 DEF SvcInv, SvcTypeOK, States
<1>9. g.todo \subseteq svcTh[t].todo BY <1>3
<1>10. Elsewhere(t) /\ InHand(t) /\ Books(t) BY <1>5, <1>7, <1>8 DEF Elsewhere, InHand, Books
<1> QED BY <1>3, <1>4, <1>6, <1>7, <1>8, <1>9, <1>10, Works

\* The duplicate has stopped and leaves the hands of the call.
LEMMA DuplicateStoppedStep ==
    ASSUME SvcInv, NEW t \in SvcThreads, DuplicateStopped(t) PROVE SvcInv'
<1>0. svcTh \in [SvcThreads -> SvcFrames] /\ svcTh[t] \in SvcFrames BY DEF SvcInv, SvcTypeOK
<1>1. Shape(t) /\ Stage(t) BY DEF SvcInv
<1>2. svcTh[t].todo = {} /\ state[svcTh[t].inst] = "stopped" BY <1>1 DEF DuplicateStopped, SvcAt, Shape
<1>3. svcTh' = [svcTh EXCEPT ![t] = SvcIdle] /\ svcTh'[t] = SvcIdle /\ SvcIdle \in SvcFrames
  BY <1>0, IdleFrame DEF DuplicateStopped, SvcReturns
<1>4. Shape(t)' /\ Stage(t)' /\ SvcIdle.todo \subseteq svcTh[t].todo BY <1>3 DEF Shape, Stage, SvcAt, SvcIdle
<1>5. \A j \in Instances : ~ Holds(t, j)' BY <1>3, InstanceNat DEF Holds, SvcIdle
<1>6. \A j \in Instances : Holds(t, j) => state[j] = "stopped" BY <1>2 DEF Holds
<1>7. /\ UNCHANGED <<entries, svcZombies, state, stops>> /\ svcLock' = SvcNone
      /\ state \in [Instances -> States] /\ stops \in [Instances -> Nat]
      /\ svcZombies \subseteq SvcKeys \X Instances
      /\ \A j \in Instances : stops[j] <= 1 BY DEF DuplicateStopped, SvcInv, SvcTypeOK, RegisteredRuns
<1>8. /\ state' \in [Instances -> States] /\ stops' \in [Instances -> Nat]
      /\ svcZombies' \subseteq SvcKeys \X Instances /\ svcLock' \in SvcThreads \cup {SvcNone} BY <1>7
<1>9. Elsewhere(t) /\ InHand(t) /\ Books(t) BY <1>6, <1>7 DEF Elsewhere, InHand, Books
<1> QED BY <1>3, <1>4, <1>5, <1>8, <1>9, Works

\* A stop begins with empty hands.
LEMMA StopBeginStep ==
    ASSUME SvcInv, NEW t \in SvcThreads, StopBegin(t) PROVE SvcInv'
<1>0. svcTh \in [SvcThreads -> SvcFrames] /\ svcTh[t] \in SvcFrames BY DEF SvcInv, SvcTypeOK
<1>1. Shape(t) /\ Stage(t) BY DEF SvcInv
<1>2. PICK op \in {"stop", "stop_timed", "stop_all"}, p \in Plugins :
        /\ SvcAt(t, "idle")
        /\ svcTh' = [svcTh EXCEPT ![t] =
                        [SvcIdle EXCEPT !.pc = "detach", !.timed = (op = "stop_timed"),
                                     !.keys = IF op = "stop_all" THEN SvcKeys ELSE Owns[p]]]
  BY DEF StopBegin, SvcCalling
<1> DEFINE g == [SvcIdle EXCEPT !.pc = "detach", !.timed = (op = "stop_timed"),
                             !.keys = IF op = "stop_all" THEN SvcKeys ELSE Owns[p]]
<1>3. Owns[p] \subseteq SvcKeys BY RegistryAssumption
<1>4. g \in SvcFrames /\ g.pc = "detach" /\ g.inst = SvcNone /\ g.todo = {}
  BY <1>3 DEF SvcIdle, SvcFrames, SvcPoints
<1>5. svcTh' = [svcTh EXCEPT ![t] = g] /\ svcTh'[t] = g BY <1>0, <1>2
<1> HIDE DEF g
<1>6. Shape(t)' /\ Stage(t)' /\ g.todo \subseteq svcTh[t].todo BY <1>4, <1>5 DEF Shape, Stage, SvcAt
<1>7. \A j \in Instances : ~ Holds(t, j) /\ ~ Holds(t, j)'
  BY <1>1, <1>2, <1>4, <1>5, InstanceNat DEF Holds, Shape, SvcIdle
<1>8. UNCHANGED <<entries, svcZombies, state, stops, svcLock>> BY DEF StopBegin
<1>9. /\ state' \in [Instances -> States] /\ stops' \in [Instances -> Nat]
      /\ svcZombies' \subseteq SvcKeys \X Instances /\ svcLock' \in SvcThreads \cup {SvcNone}
  BY <1>8 DEF SvcInv, SvcTypeOK
<1>10. Elsewhere(t) /\ InHand(t) /\ Books(t) BY <1>7, <1>8 DEF Elsewhere, InHand, Books
<1> QED BY <1>4, <1>5, <1>6, <1>7, <1>9, <1>10, Works

\* What a stop detaches from the registry is in its hands, and in nobody else's.
LEMMA DetachStep ==
    ASSUME SvcInv, NEW t \in SvcThreads, Detach(t) PROVE SvcInv'
<1>0. svcTh \in [SvcThreads -> SvcFrames] /\ svcTh[t] \in SvcFrames BY DEF SvcInv, SvcTypeOK
<1>1. Shape(t) /\ Stage(t) BY DEF SvcInv
<1> DEFINE g == [svcTh[t] EXCEPT !.pc = "next", !.keys = {}, !.todo = Taken(t)]
<1>2. svcTh[t].inst = SvcNone /\ svcTh[t].todo = {} /\ svcTh[t].keys \subseteq SvcKeys
  BY <1>0, <1>1 DEF Detach, SvcAt, Shape, SvcFrames
<1>3. entries \in [SvcKeys -> Instances \cup {SvcNone}] BY DEF SvcInv, SvcTypeOK
<1>4. Taken(t) \subseteq SvcKeys \X Instances BY <1>2, <1>3 DEF Taken
<1>5. g \in SvcFrames /\ g.pc = "next" /\ g.inst = SvcNone /\ g.todo = Taken(t)
  BY <1>0, <1>2, <1>4 DEF SvcFrames, SvcPoints
<1>6. svcTh' = [svcTh EXCEPT ![t] = g] /\ svcTh'[t] = g BY <1>0 DEF Detach
<1> HIDE DEF g
<1>7. /\ entries' = [k \in SvcKeys |-> IF k \in svcTh[t].keys THEN SvcNone ELSE entries[k]]
      /\ UNCHANGED <<svcZombies, state, stops, svcLock>> BY DEF Detach
<1>8. \A e \in Taken(t) : e[1] \in svcTh[t].keys /\ e[2] = entries[e[1]] /\ e = <<e[1], e[2]>>
                          /\ e[2] # SvcNone BY DEF Taken
<1>9. \A k \in SvcKeys : k \in svcTh[t].keys /\ entries[k] # SvcNone => <<k, entries[k]>> \in Taken(t)
  BY DEF Taken
<1>10. \A j \in Instances : ~ Holds(t, j) BY <1>2, InstanceNat DEF Holds
<1>11. \A j \in Instances : Holds(t, j)' <=> \E e \in Taken(t) : e[2] = j BY <1>5, <1>6, InstanceNat DEF Holds
<1>12. \A e \in Taken(t) : e[1] \in SvcKeys /\ state[e[2]] = "running"
  BY <1>2, <1>8 DEF SvcInv, RegisteredRuns
<1>13. \A e, f \in Taken(t) : e[2] = f[2] => e = f BY <1>8, <1>12 DEF SvcInv, RegisteredRuns
<1>14. Shape(t)' /\ Stage(t)' BY <1>5, <1>6, <1>7, <1>12 DEF Shape, Stage, SvcAt
<1>15. \A u \in SvcThreads \ {t}, j \in Instances : Holds(u, j) => state'[j] = state[j] /\ ~ Holds(t, j)'
  BY <1>7, <1>8, <1>11, <1>12 DEF SvcInv, Unshared
<1>16. \A u \in SvcThreads, k \in SvcKeys, j \in Instances : Holds(u, j)' => entries'[k] # j
  <2> SUFFICES ASSUME NEW u \in SvcThreads, NEW k \in SvcKeys, NEW j \in Instances, Holds(u, j)'
               PROVE  entries'[k] # j OBVIOUS
  <2>1. CASE k \in svcTh[t].keys BY <1>7, <2>1, InstanceNat
  <2>2. CASE k \notin svcTh[t].keys /\ u = t
    <3>1. PICK e \in Taken(t) : e[2] = j BY <1>11, <2>2
    <3>2. entries[e[1]] = j /\ e[1] # k BY <1>8, <2>2, <3>1
    <3>3. entries[k] # j BY <1>12, <3>1, <3>2, InstanceNat DEF SvcInv, RegisteredRuns
    <3> QED BY <1>7, <2>2, <3>3
  <2>3. CASE k \notin svcTh[t].keys /\ u # t BY <1>0, <1>6, <2>3, <1>7 DEF Holds, SvcInv, Unshared
  <2> QED BY <2>1, <2>2, <2>3
<1>17. /\ \A u \in SvcThreads : Shape(u)' /\ Stage(u)'
       /\ Unshared' /\ svcTh' \in [SvcThreads -> SvcFrames]
  <2>1. \A e, f \in g.todo : e[2] = f[2] => e = f BY <1>5, <1>13
  <2> QED BY <1>5, <1>6, <1>14, <1>15, <1>16, <2>1, Moves
<1>18. SvcTypeOK' BY <1>3, <1>7, <1>17 DEF SvcInv, SvcTypeOK
<1>19. RegisteredRuns' /\ StopsMatch' BY <1>3, <1>7 DEF SvcInv, RegisteredRuns, StopsMatch
<1>20. NoOrphanService'
  <2> SUFFICES ASSUME NEW i \in Instances, state'[i] = "running"
               PROVE  Registered(i)' \/ InCall(i)' BY DEF NoOrphanService
  <2>1. CASE Registered(i)
    <3>1. PICK k \in SvcKeys : entries[k] = i BY <2>1 DEF Registered
    <3>2. CASE k \in svcTh[t].keys BY <1>9, <1>11, <3>1, <3>2, InstanceNat DEF InCall, Holds
    <3>3. CASE k \notin svcTh[t].keys BY <1>7, <3>1, <3>3 DEF Registered
    <3> QED BY <3>2, <3>3
  <2>2. CASE InCall(i)
    <3>1. PICK u \in SvcThreads : Holds(u, i) BY <2>2 DEF InCall, Holds
    <3>2. Holds(u, i)' BY <1>0, <1>6, <1>10, <3>1 DEF Holds
    <3> QED BY <3>2 DEF InCall, Holds
  <2> QED BY <1>7, <2>1, <2>2 DEF SvcInv, NoOrphanService
<1> QED BY <1>17, <1>18, <1>19, <1>20 DEF SvcInv

\* The next of them is told to stop, once.
LEMMA StopNextStep ==
    ASSUME SvcInv, NEW t \in SvcThreads, StopNext(t) PROVE SvcInv'
<1>0. svcTh \in [SvcThreads -> SvcFrames] /\ svcTh[t] \in SvcFrames BY DEF SvcInv, SvcTypeOK
<1>1. Shape(t) /\ Stage(t) BY DEF SvcInv
<1>2. PICK e \in svcTh[t].todo :
        /\ Stopping(e[2])
        /\ svcTh' = [svcTh EXCEPT ![t].pc = "wait", ![t].key = e[1], ![t].inst = e[2],
                                ![t].todo = @ \ {e}] BY DEF StopNext
<1> DEFINE i == e[2]
           g == [svcTh[t] EXCEPT !.pc = "wait", !.key = e[1], !.inst = e[2], !.todo = @ \ {e}]
<1>3. e[1] \in SvcKeys /\ i \in Instances BY <1>0 DEF SvcFrames
<1>4. /\ g \in SvcFrames /\ g.pc = "wait" /\ g.key = e[1] /\ g.inst = i
      /\ g.todo = svcTh[t].todo \ {e} BY <1>0, <1>3 DEF SvcFrames, SvcPoints
<1>5. svcTh' = [svcTh EXCEPT ![t] = g] /\ svcTh'[t] = g BY <1>0, <1>2
<1> HIDE DEF g
<1>6. /\ state' = [state EXCEPT ![i] = "stopping"] /\ stops' = [stops EXCEPT ![i] = @ + 1]
      /\ UNCHANGED <<entries, svcZombies, svcLock>> BY <1>2 DEF StopNext, Stopping
<1>7. state[i] = "running" /\ stops[i] = 0 /\ Holds(t, i) BY <1>1, <1>3 DEF Stage, SvcInv, StopsMatch, Holds
<1>8. /\ state' \in [Instances -> States] /\ stops' \in [Instances -> Nat]
      /\ svcZombies' \subseteq SvcKeys \X Instances /\ svcLock' \in SvcThreads \cup {SvcNone}
      /\ state'[i] = "stopping" /\ stops'[i] = 1
      /\ \A j \in Instances : j # i => state'[j] = state[j] /\ stops'[j] = stops[j]
  BY <1>3, <1>6, <1>7 DEF SvcInv, SvcTypeOK, States
<1>9. \A f \in g.todo : f[2] \in Instances /\ f[2] # i BY <1>0, <1>4 DEF SvcInv, Unshared, SvcFrames
<1>10. Shape(t)' /\ Stage(t)' /\ g.todo \subseteq svcTh[t].todo
  BY <1>1, <1>3, <1>4, <1>5, <1>8, <1>9 DEF Shape, Stage, SvcAt
<1>11. svcTh[t].inst = SvcNone BY <1>1 DEF StopNext, Shape, SvcAt
<1>12. \A j \in Instances : Holds(t, j)' <=> Holds(t, j) BY <1>4, <1>5, <1>11, InstanceNat DEF Holds
<1>13. Elsewhere(t) /\ InHand(t) /\ Books(t)
  <2>1. \A j \in Instances : Holds(t, j) /\ j # i => state[j] = "running" /\ stops[j] = 0
    BY <1>1, <1>11, InstanceNat DEF Holds, Stage, SvcInv, StopsMatch
  <2> QED BY <1>6, <1>7, <1>8, <1>12, <2>1 DEF Elsewhere, InHand, Books
<1> QED BY <1>4, <1>5, <1>8, <1>10, <1>12, <1>13, Works

\* A call with nothing left to stop returns.
LEMMA StopEndStep ==
    ASSUME SvcInv, NEW t \in SvcThreads, StopEnd(t) PROVE SvcInv'
<1>0. svcTh \in [SvcThreads -> SvcFrames] /\ svcTh[t] \in SvcFrames BY DEF SvcInv, SvcTypeOK
<1>1. Shape(t) /\ Stage(t) BY DEF SvcInv
<1>2. svcTh' = [svcTh EXCEPT ![t] = SvcIdle] /\ svcTh'[t] = SvcIdle /\ SvcIdle \in SvcFrames
  BY <1>0, IdleFrame DEF StopEnd, SvcReturns
<1>3. Shape(t)' /\ Stage(t)' /\ SvcIdle.todo \subseteq svcTh[t].todo BY <1>2 DEF Shape, Stage, SvcAt, SvcIdle
<1>4. \A j \in Instances : ~ Holds(t, j) /\ ~ Holds(t, j)'
  BY <1>1, <1>2, InstanceNat DEF Holds, SvcIdle, StopEnd, Shape, SvcAt
<1>5. UNCHANGED <<entries, svcZombies, state, stops, svcLock>> BY DEF StopEnd
<1>6. /\ state' \in [Instances -> States] /\ stops' \in [Instances -> Nat]
      /\ svcZombies' \subseteq SvcKeys \X Instances /\ svcLock' \in SvcThreads \cup {SvcNone}
  BY <1>5 DEF SvcInv, SvcTypeOK
<1>7. Elsewhere(t) /\ InHand(t) /\ Books(t) BY <1>4, <1>5 DEF Elsewhere, InHand, Books
<1> QED BY <1>2, <1>3, <1>4, <1>6, <1>7, Works

\* A stop that has returned or has timed out leaves the hands of its call.
LEMMA StopReturnedStep ==
    ASSUME SvcInv, NEW t \in SvcThreads, StopReturned(t) \/ StopTimesOut(t) PROVE SvcInv'
<1>0. svcTh \in [SvcThreads -> SvcFrames] /\ svcTh[t] \in SvcFrames BY DEF SvcInv, SvcTypeOK
<1>1. Shape(t) /\ Stage(t) BY DEF SvcInv
<1> DEFINE i == svcTh[t].inst
           g == [svcTh[t] EXCEPT !.pc = "next", !.key = SvcNone, !.inst = SvcNone]
<1>2. /\ svcTh[t].pc = "wait" /\ i \in Instances /\ svcTh[t].key \in SvcKeys
      /\ state[i] \in {"stopping", "stopped"} BY <1>1 DEF StopReturned, StopTimesOut, SvcAt, Shape, Stage
<1>3. g \in SvcFrames /\ g.pc = "next" /\ g.inst = SvcNone /\ g.todo = svcTh[t].todo
  BY <1>0 DEF SvcFrames, SvcPoints
<1>4. svcTh' = [svcTh EXCEPT ![t] = g] /\ svcTh'[t] = g BY <1>0 DEF StopReturned, StopTimesOut
<1> HIDE DEF g
<1>5. /\ UNCHANGED <<entries, state, stops, svcLock>>
      /\ svcZombies' \in {svcZombies, svcZombies \cup {<<svcTh[t].key, i>>}} BY DEF StopReturned, StopTimesOut
<1>6. /\ state' \in [Instances -> States] /\ stops' \in [Instances -> Nat]
      /\ svcZombies' \subseteq SvcKeys \X Instances /\ svcLock' \in SvcThreads \cup {SvcNone}
  BY <1>2, <1>5 DEF SvcInv, SvcTypeOK
<1>7. Shape(t)' /\ Stage(t)' /\ g.todo \subseteq svcTh[t].todo
  BY <1>1, <1>3, <1>4, <1>5 DEF Shape, Stage, SvcAt
<1>8. \A j \in Instances : /\ Holds(t, j)' => Holds(t, j)
                           /\ Holds(t, j) => Holds(t, j)' \/ j = i BY <1>3, <1>4, InstanceNat DEF Holds
<1>9. \A j \in Instances : stops[j] <= 1 /\ (state[j] \notin {"stopping", "stopped"} => stops[j] = 0)
  BY DEF SvcInv, RegisteredRuns, StopsMatch
<1>10. Elsewhere(t) /\ InHand(t) /\ Books(t) BY <1>2, <1>5, <1>8, <1>9 DEF Elsewhere, InHand, Books
<1> QED BY <1>3, <1>4, <1>6, <1>7, <1>8, <1>10, Works

\* The steps that leave the calls alone.
LEMMA KillZombiesStep ==
    ASSUME SvcInv, NEW t \in SvcThreads, KillZombies(t) PROVE SvcInv'
<1>1. svcZombies' \subseteq svcZombies /\ UNCHANGED <<entries, state, stops, svcLock, svcTh>>
  BY DEF KillZombies
<1>2. SvcTypeOK' /\ NoOrphanService' /\ RegisteredRuns' /\ StopsMatch'
  BY <1>1 DEF SvcInv, SvcTypeOK, NoOrphanService, RegisteredRuns, Registered, InCall, StopsMatch
<1>3. (\A u \in SvcThreads : Shape(u)' /\ Stage(u)') /\ Unshared'
  BY <1>1 DEF SvcInv, Shape, Stage, SvcAt, Unshared, Holds
<1> QED BY <1>2, <1>3 DEF SvcInv

\* A service stops by itself some time after it was told to.
LEMMA ServiceStopsStep ==
    ASSUME SvcInv, NEW i \in Instances, ServiceStops(i) PROVE SvcInv'
<1>1. /\ state[i] = "stopping" /\ state' = [state EXCEPT ![i] = "stopped"]
      /\ UNCHANGED <<entries, svcZombies, stops, svcLock, svcTh>> BY DEF ServiceStops
<1>2. state \in [Instances -> States] /\ \A u \in SvcThreads : svcTh[u] \in SvcFrames BY DEF SvcInv, SvcTypeOK
<1>3. SvcTypeOK' /\ NoOrphanService' /\ RegisteredRuns' /\ StopsMatch'
  BY <1>1, <1>2 DEF SvcInv, SvcTypeOK, NoOrphanService, RegisteredRuns, Registered, InCall,
                    StopsMatch, States
<1>4. ASSUME NEW u \in SvcThreads PROVE Shape(u)' /\ Stage(u)'
  BY <1>1, <1>4, <1>2 DEF SvcInv, SvcFrames, Shape, Stage, SvcAt
<1>5. Unshared' BY <1>1 DEF SvcInv, Unshared, Holds
<1> QED BY <1>3, <1>4, <1>5 DEF SvcInv

\* Nothing happens.
LEMMA StutterStep ==
    ASSUME SvcInv, UNCHANGED svcVars PROVE SvcInv'
<1> USE DEF svcVars
<1>1. SvcTypeOK' /\ NoOrphanService' /\ RegisteredRuns' /\ StopsMatch'
  BY DEF SvcInv, SvcTypeOK, NoOrphanService, RegisteredRuns, Registered, InCall, StopsMatch
<1>2. (\A u \in SvcThreads : Shape(u)' /\ Stage(u)') /\ Unshared'
  BY DEF SvcInv, Shape, Stage, SvcAt, Unshared, Holds
<1> QED BY <1>1, <1>2 DEF SvcInv

\* The invariant holds at first.
LEMMA SvcInitial == SvcInit => SvcInv
<1> SUFFICES ASSUME SvcInit PROVE SvcInv OBVIOUS
<1>1. SvcTypeOK BY IdleFrame DEF SvcInit, SvcTypeOK, States
<1>2. NoOrphanService /\ RegisteredRuns /\ StopsMatch
  BY DEF SvcInit, NoOrphanService, RegisteredRuns, StopsMatch
<1>3. \A t \in SvcThreads : Shape(t) /\ Stage(t) BY DEF SvcInit, Shape, Stage, SvcAt, SvcIdle
<1>4. Unshared BY InstanceNat DEF SvcInit, Unshared, Holds, SvcIdle
<1> QED BY <1>1, <1>2, <1>3, <1>4 DEF SvcInv

\* Every step keeps the invariant.
LEMMA SvcInductive == SvcInv /\ [SvcNext]_svcVars => SvcInv'
BY StartCheckStep, StartStep, InsertStep, StopDuplicateStep, DuplicateStoppedStep,
   StopBeginStep, DetachStep, StopNextStep, StopEndStep, StopReturnedStep,
   KillZombiesStep, ServiceStopsStep, StutterStep
   DEF SvcNext, Step

\* No worker is lost and none is stopped twice: whatever threads start and stop
\* services at once, what runs is registered or in the hands of one call, what
\* is registered runs, and stop is called once on a service.
THEOREM Accounted == SvcSpec => []ServicesAccounted
<1>1. SvcInv => ServicesAccounted BY DEF SvcInv, ServicesAccounted
<1> QED BY <1>1, SvcInitial, SvcInductive, PTL DEF SvcSpec

-----------------------------------------------------------------------------
\* A thread's step keeps what it holds, except an instance that has stopped or
\* failed, one that it registers, and one that it puts on the zombie list.
LEMMA HangStep ==
    ASSUME SvcInv, [SvcNext]_svcVars, NEW i \in Instances,
           state'[i] = "stopping", Known(i), ~ Known(i)'
    PROVE  svcZombies' \subseteq svcZombies /\ svcTh' = svcTh
<1>0. svcTh \in [SvcThreads -> SvcFrames] /\ state \in [Instances -> States] BY DEF SvcInv, SvcTypeOK
<1>1. Known(i) <=> (\E u \in SvcThreads : Holds(u, i)) \/ \E z \in svcZombies : z[2] = i
  BY DEF Known, InCall, Holds
<1>2. Known(i)' <=> (\E u \in SvcThreads : Holds(u, i)') \/ \E z \in svcZombies' : z[2] = i
  BY DEF Known, InCall, Holds
<1>3. ASSUME NEW t \in SvcThreads, svcZombies \subseteq svcZombies',
             \A u \in SvcThreads \ {t} : svcTh'[u] = svcTh[u],
             Holds(t, i) => Holds(t, i)'
      PROVE  FALSE BY <1>3, <1>1, <1>2 DEF Holds
<1>4. ASSUME NEW t \in SvcThreads, StartCheck(t) \/ StopBegin(t) PROVE FALSE
  <2>1. svcTh[t] = SvcIdle BY <1>4 DEF StartCheck, StopBegin, SvcCalling, SvcInv, Shape
  <2>2. ~ Holds(t, i) BY <2>1, InstanceNat DEF Holds, SvcIdle
  <2> QED BY <1>0, <1>3, <1>4, <2>2 DEF StartCheck, StopBegin
<1>5. ASSUME NEW t \in SvcThreads, Start(t) \/ Insert(t) \/ DuplicateStopped(t) \/ StopEnd(t)
      PROVE  FALSE
  <2>1. Shape(t) /\ Stage(t) BY DEF SvcInv
  <2>2. Holds(t, i) => i = svcTh[t].inst
    BY <1>5, <2>1 DEF Start, Insert, DuplicateStopped, StopEnd, Holds, Shape, SvcAt
  <2>3. ~ Holds(t, i)
    BY <1>0, <1>5, <2>1, <2>2, InstanceNat
       DEF Start, Insert, DuplicateStopped, StopEnd, Shape, Stage, SvcAt
  <2>4. \A u \in SvcThreads \ {t} : svcTh'[u] = svcTh[u]
    BY <1>0, <1>5 DEF Start, Insert, DuplicateStopped, StopEnd, SvcReturns
  <2> QED BY <1>3, <1>5, <2>3, <2>4 DEF Start, Insert, DuplicateStopped, StopEnd
<1>6. ASSUME NEW t \in SvcThreads, StopDuplicate(t) \/ Detach(t) \/ StopNext(t) PROVE FALSE
  <2>1. Shape(t) BY DEF SvcInv
  <2>2. \A u \in SvcThreads \ {t} : svcTh'[u] = svcTh[u] BY <1>0, <1>6 DEF StopDuplicate, Detach, StopNext
  <2>3. Holds(t, i) => Holds(t, i)'
    <3>1. CASE StopDuplicate(t) BY <1>0, <3>1 DEF StopDuplicate, Holds
    <3>2. CASE Detach(t) BY <2>1, <3>2, InstanceNat DEF Detach, Holds, Shape, SvcAt
    <3>3. CASE StopNext(t)
      <4>1. svcTh[t].inst = SvcNone BY <2>1, <3>3 DEF StopNext, Shape, SvcAt
      <4>2. PICK e \in svcTh[t].todo :
                svcTh' = [svcTh EXCEPT ![t].pc = "wait", ![t].key = e[1], ![t].inst = e[2],
                                       ![t].todo = @ \ {e}] BY <3>3 DEF StopNext
      <4>3. svcTh'[t].inst = e[2] /\ svcTh'[t].todo = svcTh[t].todo \ {e} BY <1>0, <4>2 DEF SvcFrames
      <4> QED BY <4>1, <4>3, InstanceNat DEF Holds
    <3> QED BY <1>6, <3>1, <3>2, <3>3
  <2> QED BY <1>3, <1>6, <2>2, <2>3 DEF StopDuplicate, Detach, StopNext
<1>7. ASSUME NEW t \in SvcThreads, StopReturned(t) PROVE FALSE BY <1>0, <1>7, <1>3 DEF StopReturned, Holds
<1>8. ASSUME NEW t \in SvcThreads, StopTimesOut(t) PROVE FALSE
  <2>1. \A u \in SvcThreads \ {t} : svcTh'[u] = svcTh[u] BY <1>0, <1>8 DEF StopTimesOut
  <2>2. /\ svcZombies \subseteq svcZombies'
        /\ Holds(t, i) => Holds(t, i)' \/ <<svcTh[t].key, i>> \in svcZombies'
    BY <1>0, <1>8 DEF StopTimesOut, Holds
  <2>3. Holds(t, i) => Holds(t, i)' BY <1>2, <2>2
  <2> QED BY <1>3, <2>1, <2>2, <2>3
<1>9. ASSUME NEW t \in SvcThreads, KillZombies(t)
      PROVE  svcZombies' \subseteq svcZombies /\ svcTh' = svcTh BY <1>9 DEF KillZombies
<1>10. ASSUME NEW j \in Instances, ServiceStops(j)
       PROVE  svcZombies' \subseteq svcZombies /\ svcTh' = svcTh BY <1>10 DEF ServiceStops
<1>11. CASE UNCHANGED svcVars BY <1>11 DEF svcVars
<1> QED BY <1>4, <1>5, <1>6, <1>7, <1>8, <1>9, <1>10, <1>11 DEF SvcNext, Step

\* A stop that hangs is waited for or on the zombie list until
\* kill_zombie_services abandons it, for any number of threads.
THEOREM HangKnown == SvcSpec => HangIsKnown
<1>1. SvcInv /\ [SvcNext]_svcVars =>
        [\A i \in Instances :
           state'[i] = "stopping" /\ ~Known(i)' =>
               ~Known(i) \/ (svcZombies' \subseteq svcZombies /\ svcTh' = svcTh)]_svcVars BY HangStep
<1> QED BY <1>1, SvcInitial, SvcInductive, PTL DEF SvcSpec, HangIsKnown
=============================================================================
