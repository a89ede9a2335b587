-------------------------- MODULE VerdictCacheProofs --------------------------
(***************************************************************************)
(* Proofs about VerdictCache, for any callers, facets and times.            *)
(*                                                                         *)
(* How old a positive verdict is, is an account of where the time went: a   *)
(* caller at its k-th command knows of facet i what it read k - i commands   *)
(* ago, and an entry carries that account on from the moment it was stored.  *)
(* ClockInv relates the ghosts to the truth, ProbeInv is the account of the  *)
(* callers on their way, EntryInv the account of the cache and AnswerInv the *)
(* two bounds themselves, which a caller's answer keeps until it leaves: no  *)
(* time passes while somebody is answered.                                   *)
(***************************************************************************)
EXTENDS VerdictCache, Integers, TLAPS

(* the longest that k - i commands may have taken *)
Span(i, k) == (k - i) * ProbeLimit

ClockInv ==
    /\ ~AllTrue => sinceBad = 0
    /\ \A f \in FacetSet : truth[f] => sinceTrue[f] = 0

ProbeInv ==
    \A c \in Callers :
        /\ Running(c) =>
               \A i \in 1..N : i < step[c] =>
                   sinceTrue[Facets[i]] <= Span(i, step[c]) + elapsed[c]
        /\ pc[c] = "read" /\ seen[c] => sinceTrue[Facets[step[c]]] <= elapsed[c]
        /\ pc[c] = "read" /\ ~seen[c] => sinceBad <= elapsed[c]

EntryInv ==
    /\ entry = "yes" =>
           \A i \in 1..N : sinceTrue[Facets[i]] <= age + Span(i, N + 1)
    /\ entry = "no" => sinceBad <= age + ProbeLimit

(* the two properties, in spans *)
AnswerInv ==
    \A c \in Callers :
        /\ pc[c] = "answered" /\ seen[c] =>
               \A i \in 1..N : sinceTrue[Facets[i]] < TTL + Span(i, N + 1)
        /\ pc[c] = "answered" /\ ~seen[c] => sinceBad < TTL + Span(1, N + 1)

CacheInv ==
    /\ TypeOK
    /\ ClockInv
    /\ ProbeInv
    /\ EntryInv
    /\ AnswerInv

-----------------------------------------------------------------------------
(* The arithmetic of the account.                                            *)
LEMMA Spans ==
    /\ N \in Nat \ {0}
    /\ \A i \in 1..N : Facets[i] \in FacetSet
    /\ \A i \in Int, k \in Int : Span(i, k) \in Int
    /\ \A i \in Int, k \in Int : i <= k => Span(i, k) \in Nat
    /\ \A i \in Int, k \in Int : Span(i, k + 1) = Span(i, k) + ProbeLimit
    /\ \A i \in Int : Span(i, i) = 0
    /\ \A i \in Int : (N - i + 1) * ProbeLimit = Span(i, N + 1)
    /\ N * ProbeLimit = Span(1, N + 1)
    /\ ProbeLimit <= Span(1, N + 1)
  <1> USE TimesAssumption, FacetsAssumption
  <1>1. N \in Nat \ {0}
    BY DEF N
  <1>2. \A a \in Int : a * ProbeLimit \in Int
    OBVIOUS
  <1>3. \A a \in Nat : a * ProbeLimit \in Nat
    OBVIOUS
  <1>4. \A a \in Int : (a + 1) * ProbeLimit = a * ProbeLimit + ProbeLimit
    OBVIOUS
  <1>5. \A i \in 1..N : Facets[i] \in FacetSet
    BY DEF FacetSet
  <1>6. \A i \in Int, k \in Int : Span(i, k) \in Int
    BY <1>2 DEF Span
  <1>7. \A i \in Int, k \in Int : i <= k => Span(i, k) \in Nat
    BY <1>3 DEF Span
  <1>8. \A i \in Int, k \in Int : Span(i, k + 1) = Span(i, k) + ProbeLimit
    <2> SUFFICES ASSUME NEW i \in Int, NEW k \in Int
                 PROVE  Span(i, k + 1) = Span(i, k) + ProbeLimit
      OBVIOUS
    <2>1. PICK a \in Int : a = k - i
      OBVIOUS
    <2>2. (k + 1) - i = a + 1
      BY <2>1
    <2>3. Span(i, k + 1) = (a + 1) * ProbeLimit /\ Span(i, k) = a * ProbeLimit
      BY <2>1, <2>2, Zenon DEF Span
    <2>4. (a + 1) * ProbeLimit = a * ProbeLimit + ProbeLimit
      BY <1>4
    <2>5. QED
      BY <2>3, <2>4, Zenon
  <1>9. \A i \in Int : Span(i, i) = 0
    BY DEF Span
  <1>10. \A i \in Int : (N - i + 1) * ProbeLimit = Span(i, N + 1)
    BY <1>1 DEF Span
  <1>11. N * ProbeLimit = Span(1, N + 1)
    BY <1>1 DEF Span
  <1>12. ProbeLimit <= Span(1, N + 1)
    <2>1. Span(1, N + 1) = Span(1, N) + ProbeLimit
      BY <1>1, <1>8
    <2>2. 1 \in Int /\ N \in Int /\ 1 <= N
      BY <1>1
    <2>3. Span(1, N) \in Nat
      BY <1>7, <2>2, Zenon
    <2>4. QED
      BY <2>1, <2>3
  <1>13. QED
    BY <1>1, <1>5, <1>6, <1>7, <1>8, <1>9, <1>10, <1>11, <1>12
-----------------------------------------------------------------------------
(* An empty cache owes nobody an account.                                    *)
LEMMA CacheInit == Init => CacheInv
  <1> SUFFICES ASSUME Init PROVE CacheInv
    OBVIOUS
  <1> USE TimesAssumption DEF Init
  <1>1. N \in Nat \ {0} /\ 1 \in 1..N
    BY Spans
  <1>2. TypeOK
    <2>1. sinceTrue \in [FacetSet -> Ages]
      BY DEF Ages
    <2>2. sinceBad \in Ages /\ age \in Ages
      BY DEF Ages
    <2>3. QED
      BY <1>1, <2>1, <2>2 DEF TypeOK, Phases
  <1>3. ClockInv
    BY DEF ClockInv
  <1>4. ProbeInv
    BY DEF ProbeInv, Running
  <1>5. EntryInv
    BY DEF EntryInv
  <1>6. AnswerInv
    BY DEF AnswerInv
  <1>7. QED
    BY <1>2, <1>3, <1>4, <1>5, <1>6 DEF CacheInv

(* What is known of a single facet.                                          *)
LEMMA FacetTypes ==
    ASSUME TypeOK, NEW i \in 1..N
    PROVE  /\ i \in Int /\ N \in Int
           /\ Facets[i] \in FacetSet
           /\ sinceTrue[Facets[i]] \in Nat
           /\ sinceTrue[Facets[i]] <= Horizon
           /\ Span(i, N + 1) \in Int
  <1>1. i \in Int /\ N \in Int /\ N + 1 \in Int
    BY Spans
  <1>2. Facets[i] \in FacetSet
    BY DEF FacetSet
  <1>3. Span(i, N + 1) \in Int
    BY <1>1, Spans, Zenon
  <1>4. sinceTrue[Facets[i]] \in Ages
    BY <1>2 DEF TypeOK
  <1>5. sinceTrue[Facets[i]] \in Nat /\ sinceTrue[Facets[i]] <= Horizon
    BY <1>4, TimesAssumption DEF Ages
  <1>6. QED
    BY <1>1, <1>2, <1>3, <1>5

(* A whole probe lasts at least one command.                                 *)
LEMMA SpanOfAll ==
    /\ Span(1, N + 1) \in Nat
    /\ ProbeLimit <= Span(1, N + 1)
    /\ N * ProbeLimit = Span(1, N + 1)
  <1>1. N \in Nat \ {0}
    BY Spans
  <1>2. 1 \in Int /\ N + 1 \in Int /\ 1 <= N + 1
    BY <1>1
  <1>3. Span(1, N + 1) \in Nat
    BY <1>2, Spans, Zenon
  <1>4. QED
    BY <1>3, Spans

(* What an entry younger than the TTL says.                                  *)
LEMMA FreshBounds ==
    ASSUME TypeOK, EntryInv, age < TTL
    PROVE  /\ entry = "yes" => \A i \in 1..N :
                  sinceTrue[Facets[i]] < TTL + Span(i, N + 1)
           /\ entry = "no" => sinceBad < TTL + Span(1, N + 1)
  <1>1. TTL \in Nat /\ age \in Nat /\ sinceBad \in Nat /\ ProbeLimit \in Nat
    BY TimesAssumption DEF TypeOK, Ages
  <1>2. ASSUME entry = "yes", NEW i \in 1..N
        PROVE  sinceTrue[Facets[i]] < TTL + Span(i, N + 1)
    <2>1. sinceTrue[Facets[i]] <= age + Span(i, N + 1)
      BY <1>2 DEF EntryInv
    <2>2. sinceTrue[Facets[i]] \in Nat /\ Span(i, N + 1) \in Int
      BY FacetTypes
    <2>3. QED
      BY <1>1, <2>1, <2>2
  <1>3. ASSUME entry = "no"
        PROVE  sinceBad < TTL + Span(1, N + 1)
    <2>1. sinceBad <= age + ProbeLimit
      BY <1>3 DEF EntryInv
    <2>2. ProbeLimit <= Span(1, N + 1) /\ Span(1, N + 1) \in Int
      BY Spans
    <2>3. QED
      BY <1>1, <2>1, <2>2
  <1>4. QED
    BY <1>2, <1>3

(* A cached verdict that is still fresh keeps both bounds.                   *)
LEMMA HitStep ==
    ASSUME CacheInv, NEW c \in Callers, Hit(c)
    PROVE  CacheInv'
  <1> USE TimesAssumption DEF CacheInv
  <1>1. /\ pc' = [pc EXCEPT ![c] = "answered"]
        /\ seen' = [seen EXCEPT ![c] = entry = "yes"]
        /\ UNCHANGED <<truth, sinceTrue, sinceBad, entry, age, step, elapsed>>
        /\ entry # "none" /\ age < TTL
    BY DEF Hit, Fresh
  <1>2. TypeOK'
    BY <1>1 DEF TypeOK, Phases
  <1>3. ClockInv' /\ EntryInv'
    BY <1>1 DEF ClockInv, EntryInv, AllTrue
  <1>4. ProbeInv'
    BY <1>1 DEF ProbeInv, Running, TypeOK
  <1>5. AnswerInv'
    <2> SUFFICES ASSUME NEW d \in Callers, pc'[d] = "answered"
                 PROVE  /\ seen'[d] => \A i \in 1..N :
                               sinceTrue[Facets[i]] < TTL + Span(i, N + 1)
                        /\ ~seen'[d] => sinceBad < TTL + Span(1, N + 1)
      BY <1>1 DEF AnswerInv, Span
    <2>1. CASE d # c
      BY <1>1, <2>1 DEF AnswerInv, TypeOK
    <2>2. CASE d = c
      BY <1>1, <2>2, FreshBounds DEF TypeOK
    <2>3. QED
      BY <2>1, <2>2
  <1>7. QED
    BY <1>2, <1>3, <1>4, <1>5

(* A caller that misses starts at the first command with nothing known.      *)
LEMMA MissStep ==
    ASSUME CacheInv, NEW c \in Callers, Miss(c)
    PROVE  CacheInv'
  <1> USE TimesAssumption DEF CacheInv
  <1>1. /\ pc' = [pc EXCEPT ![c] = "probing"]
        /\ step' = [step EXCEPT ![c] = 1]
        /\ elapsed' = [elapsed EXCEPT ![c] = 0]
        /\ UNCHANGED <<truth, sinceTrue, sinceBad, entry, age, seen>>
    BY DEF Miss
  <1>2. TypeOK'
    <2>1. 1 \in 1..N
      BY Spans
    <2>2. QED
      BY <1>1, <2>1 DEF TypeOK, Phases
  <1>3. ClockInv' /\ EntryInv' /\ AnswerInv'
    BY <1>1 DEF ClockInv, EntryInv, AllTrue, AnswerInv, TypeOK, Span
  <1>4. ProbeInv'
    BY <1>1 DEF ProbeInv, Running, TypeOK, Span
  <1>5. QED
    BY <1>2, <1>3, <1>4

(* The command reads the state of its facet at this moment.                  *)
LEMMA ReadStep ==
    ASSUME CacheInv, NEW c \in Callers, Read(c)
    PROVE  CacheInv'
  <1> USE TimesAssumption DEF CacheInv
  <1>1. /\ pc[c] = "probing"
        /\ pc' = [pc EXCEPT ![c] = "read"]
        /\ seen' = [seen EXCEPT ![c] = truth[Facets[step[c]]]]
        /\ UNCHANGED <<truth, sinceTrue, sinceBad, entry, age, step, elapsed>>
    BY DEF Read
  <1>2. step[c] \in 1..N /\ Facets[step[c]] \in FacetSet
    BY FacetTypes DEF TypeOK
  <1>3. TypeOK'
    BY <1>1, <1>2 DEF TypeOK, Phases
  <1>4. ClockInv' /\ EntryInv' /\ AnswerInv'
    BY <1>1 DEF ClockInv, EntryInv, AllTrue, AnswerInv, TypeOK, Span
  <1>5. /\ truth[Facets[step[c]]] => sinceTrue[Facets[step[c]]] = 0
        /\ ~truth[Facets[step[c]]] => sinceBad = 0
        /\ elapsed[c] \in Nat
    BY <1>2 DEF ClockInv, AllTrue, TypeOK
  <1>6. ProbeInv'
    BY <1>1, <1>5 DEF ProbeInv, Running, TypeOK, Span
  <1>7. QED
    BY <1>3, <1>4, <1>6

(* A caller whose command has just read a positive answer: of every facet so  *)
(* far it knows what a whole command more may have outdated.                  *)
LEMMA ReadAccount ==
    ASSUME TypeOK, ProbeInv, NEW c \in Callers, pc[c] = "read", seen[c],
           NEW i \in 1..N, i < step[c] + 1
    PROVE  sinceTrue[Facets[i]] <= Span(i, step[c] + 1)
  <1> DEFINE k == step[c]
  <1>1. i \in Int /\ k \in Int /\ sinceTrue[Facets[i]] \in Nat
    <2>1. k \in 1..N
      BY DEF TypeOK
    <2>2. QED
      BY <2>1, FacetTypes
  <1>2. elapsed[c] \in Nat /\ elapsed[c] <= ProbeLimit /\ ProbeLimit \in Nat
    BY TimesAssumption DEF TypeOK
  <1>3. Span(i, k + 1) = Span(i, k) + ProbeLimit /\ Span(i, k) \in Int
    BY <1>1, Spans, Zenon
  <1>4. sinceTrue[Facets[i]] <= Span(i, k) + elapsed[c]
    <2>1. CASE i < k
      BY <2>1 DEF ProbeInv, Running
    <2>2. CASE i = k
      <3>1. Span(i, k) = 0
        BY <1>1, <2>2, Spans, Zenon
      <3>2. sinceTrue[Facets[i]] <= elapsed[c]
        BY <2>2 DEF ProbeInv
      <3>3. QED
        BY <1>2, <3>1, <3>2
    <2>3. QED
      BY <1>1, <2>1, <2>2
  <1>5. QED
    BY <1>1, <1>2, <1>3, <1>4

(* From one command to the next: what the last one read is a command old.    *)
LEMMA ProbeNextStep ==
    ASSUME CacheInv, NEW c \in Callers, ProbeNext(c)
    PROVE  CacheInv'
  <1> USE TimesAssumption DEF CacheInv
  <1> DEFINE k == step[c]
  <1>1. /\ pc[c] = "read" /\ seen[c] /\ k < N
        /\ pc' = [pc EXCEPT ![c] = "probing"]
        /\ step' = [step EXCEPT ![c] = k + 1]
        /\ elapsed' = [elapsed EXCEPT ![c] = 0]
        /\ UNCHANGED <<truth, sinceTrue, sinceBad, entry, age, seen>>
    BY DEF ProbeNext
  <1>2. k \in 1..N /\ k \in Int /\ k + 1 \in 1..N
    <2>1. N \in Nat
      BY Spans
    <2>2. k \in 1..N
      BY DEF TypeOK
    <2>3. QED
      BY <1>1, <2>1, <2>2
  <1>3. TypeOK'
    BY <1>1, <1>2 DEF TypeOK, Phases
  <1>4. ClockInv' /\ EntryInv' /\ AnswerInv'
    BY <1>1 DEF ClockInv, EntryInv, AllTrue, AnswerInv, TypeOK, Span
  <1>5. \A i \in 1..N : i < k + 1 => sinceTrue[Facets[i]] <= Span(i, k + 1)
    BY <1>1, ReadAccount
  <1>6. ProbeInv'
    <2> SUFFICES ASSUME NEW d \in Callers
                 PROVE  /\ Running(d)' =>
                               \A i \in 1..N : i < step'[d] =>
                                   sinceTrue[Facets[i]]
                                       <= Span(i, step'[d]) + elapsed'[d]
                        /\ pc'[d] = "read" /\ seen'[d] =>
                               sinceTrue[Facets[step'[d]]] <= elapsed'[d]
                        /\ pc'[d] = "read" /\ ~seen'[d] => sinceBad <= elapsed'[d]
      BY <1>1 DEF ProbeInv, Span
    <2>1. CASE d # c
      BY <1>1, <2>1 DEF ProbeInv, Running, TypeOK
    <2>2. CASE d = c
      <3>1. pc'[d] = "probing" /\ step'[d] = k + 1 /\ elapsed'[d] = 0
        BY <1>1, <2>2 DEF TypeOK
      <3>2. \A i \in 1..N : i < k + 1 =>
                sinceTrue[Facets[i]] <= Span(i, k + 1) + 0
        <4> SUFFICES ASSUME NEW i \in 1..N, i < k + 1
                     PROVE  sinceTrue[Facets[i]] <= Span(i, k + 1) + 0
          OBVIOUS
        <4>1. i \in Int /\ Span(i, k + 1) \in Int
          BY <1>2, FacetTypes, Spans, Zenon
        <4>2. QED
          BY <1>5, <4>1
      <3>3. QED
        BY <3>1, <3>2, Zenon
    <2>3. QED
      BY <2>1, <2>2
  <1>7. QED
    BY <1>3, <1>4, <1>6

(* A positive verdict is stored after the last command, a negative one after *)
(* the first command that said no.                                           *)
LEMMA ProbeEndsStep ==
    ASSUME CacheInv, NEW c \in Callers, ProbeEnds(c)
    PROVE  CacheInv'
  <1> USE TimesAssumption DEF CacheInv
  <1>1. /\ pc[c] = "read"
        /\ ~seen[c] \/ step[c] = N
        /\ entry' = IF seen[c] THEN "yes" ELSE "no"
        /\ age' = 0
        /\ seen' = seen
        /\ pc' = [pc EXCEPT ![c] = "answered"]
        /\ UNCHANGED <<truth, sinceTrue, step, elapsed, sinceBad>>
    BY DEF ProbeEnds, Store, TypeOK
  <1>2. TypeOK'
    BY <1>1 DEF TypeOK, Phases, Ages
  <1>3. ClockInv'
    BY <1>1 DEF ClockInv, AllTrue
  <1>4. ProbeInv'
    BY <1>1 DEF ProbeInv, Running, TypeOK, Span
  <1>5. ASSUME seen[c], NEW i \in 1..N
        PROVE  /\ sinceTrue[Facets[i]] <= age' + Span(i, N + 1)
               /\ sinceTrue[Facets[i]] < TTL + Span(i, N + 1)
    <2>1. /\ sinceTrue[Facets[i]] \in Nat /\ Span(i, N + 1) \in Int
          /\ i \in Int /\ N \in Int
      BY FacetTypes
    <2>2. sinceTrue[Facets[i]] <= Span(i, N + 1)
      BY <1>1, <1>5, <2>1, ReadAccount
    <2>3. QED
      BY <1>1, <2>1, <2>2
  <1>6. ASSUME ~seen[c]
        PROVE  /\ sinceBad <= age' + ProbeLimit
               /\ sinceBad < TTL + Span(1, N + 1)
    <2>1. /\ sinceBad <= elapsed[c] /\ elapsed[c] <= ProbeLimit
          /\ sinceBad \in Nat /\ elapsed[c] \in Nat
      BY <1>1, <1>6 DEF ProbeInv, TypeOK, Ages
    <2>2. ProbeLimit <= Span(1, N + 1) /\ Span(1, N + 1) \in Int
      BY SpanOfAll
    <2>3. QED
      BY <1>1, <2>1, <2>2
  <1>7. EntryInv'
    BY <1>1, <1>5, <1>6 DEF EntryInv, Span
  <1>8. AnswerInv'
    <2> SUFFICES ASSUME NEW d \in Callers, pc'[d] = "answered"
                 PROVE  /\ seen[d] => \A i \in 1..N :
                               sinceTrue[Facets[i]] < TTL + Span(i, N + 1)
                        /\ ~seen[d] => sinceBad < TTL + Span(1, N + 1)
      BY <1>1 DEF AnswerInv, Span
    <2>1. CASE d # c
      BY <1>1, <2>1 DEF AnswerInv, TypeOK
    <2>2. CASE d = c
      BY <1>5, <1>6, <2>2
    <2>3. QED
      BY <2>1, <2>2
  <1>9. QED
    BY <1>2, <1>3, <1>4, <1>7, <1>8

(* A failed probe is its own cause, at this moment.                          *)
LEMMA ProbeFailsStep ==
    ASSUME CacheInv, NEW c \in Callers, ProbeFails(c)
    PROVE  CacheInv'
  <1> USE TimesAssumption DEF CacheInv
  <1>1. /\ entry' = "no" /\ age' = 0 /\ sinceBad' = 0
        /\ seen' = [seen EXCEPT ![c] = FALSE]
        /\ pc' = [pc EXCEPT ![c] = "answered"]
        /\ UNCHANGED <<truth, sinceTrue, step, elapsed>>
    BY DEF ProbeFails, Store
  <1>2. TypeOK'
    BY <1>1 DEF TypeOK, Phases, Ages
  <1>3. ClockInv' /\ EntryInv'
    BY <1>1 DEF ClockInv, AllTrue, EntryInv
  <1>4. ProbeInv'
    BY <1>1 DEF ProbeInv, Running, TypeOK, Span
  <1>5. AnswerInv'
    <2>1. 0 < TTL + Span(1, N + 1)
      BY SpanOfAll
    <2> SUFFICES ASSUME NEW d \in Callers, pc'[d] = "answered"
                 PROVE  /\ seen'[d] => \A i \in 1..N :
                               sinceTrue[Facets[i]] < TTL + Span(i, N + 1)
                        /\ ~seen'[d] => sinceBad' < TTL + Span(1, N + 1)
      BY <1>1 DEF AnswerInv, Span
    <2>2. CASE d # c
      BY <1>1, <2>1, <2>2 DEF AnswerInv, TypeOK
    <2>3. CASE d = c
      BY <1>1, <2>1, <2>3 DEF TypeOK
    <2>4. QED
      BY <2>2, <2>3
  <1>6. QED
    BY <1>2, <1>3, <1>4, <1>5

(* The queue changes: what changed is as recent as can be.                   *)
LEMMA FlipStep ==
    ASSUME CacheInv, NEW f \in FacetSet, Flip(f)
    PROVE  CacheInv'
  <1> USE TimesAssumption DEF CacheInv
  <1>1. /\ truth' = [truth EXCEPT ![f] = ~@]
        /\ sinceTrue' = [sinceTrue EXCEPT ![f] = 0]
        /\ sinceBad' = 0
        /\ UNCHANGED <<entry, age, pc, step, elapsed, seen>>
    BY DEF Flip
  <1>2. TypeOK'
    BY <1>1 DEF TypeOK, Ages
  <1>3. ClockInv'
    BY <1>1 DEF ClockInv, TypeOK
  <1>4. \A i \in 1..N : sinceTrue'[Facets[i]] \in Nat
                        /\ sinceTrue'[Facets[i]] <= sinceTrue[Facets[i]]
    <2> SUFFICES ASSUME NEW i \in 1..N
                 PROVE  /\ sinceTrue'[Facets[i]] \in Nat
                        /\ sinceTrue'[Facets[i]] <= sinceTrue[Facets[i]]
      OBVIOUS
    <2>1. sinceTrue[Facets[i]] \in Nat /\ Facets[i] \in FacetSet
      BY FacetTypes
    <2>2. QED
      BY <1>1, <2>1 DEF TypeOK
  <1>5. sinceBad \in Nat /\ \A d \in Callers : elapsed[d] \in Nat
    BY DEF TypeOK, Ages
  <1>6. ProbeInv'
    <2> SUFFICES ASSUME NEW d \in Callers
                 PROVE  /\ Running(d) =>
                               \A i \in 1..N : i < step[d] =>
                                   sinceTrue'[Facets[i]]
                                       <= Span(i, step[d]) + elapsed[d]
                        /\ pc[d] = "read" /\ seen[d] =>
                               sinceTrue'[Facets[step[d]]] <= elapsed[d]
                        /\ pc[d] = "read" /\ ~seen[d] => 0 <= elapsed[d]
      BY <1>1 DEF ProbeInv, Running, Span
    <2>1. step[d] \in 1..N
      BY DEF TypeOK
    <2>2. ASSUME Running(d), NEW i \in 1..N, i < step[d]
          PROVE  sinceTrue'[Facets[i]] <= Span(i, step[d]) + elapsed[d]
      <3>1. i \in Int /\ step[d] \in Int /\ sinceTrue[Facets[i]] \in Nat
        BY <2>1, FacetTypes
      <3>2. Span(i, step[d]) \in Int
        BY <3>1, Spans, Zenon
      <3>3. sinceTrue[Facets[i]] <= Span(i, step[d]) + elapsed[d]
        BY <2>2 DEF ProbeInv
      <3>4. QED
        BY <1>4, <1>5, <3>1, <3>2, <3>3
    <2>3. ASSUME pc[d] = "read", seen[d]
          PROVE  sinceTrue'[Facets[step[d]]] <= elapsed[d]
      <3>1. sinceTrue[Facets[step[d]]] <= elapsed[d]
        BY <2>3 DEF ProbeInv
      <3>2. sinceTrue[Facets[step[d]]] \in Nat
        BY <2>1, FacetTypes
      <3>3. QED
        BY <1>4, <1>5, <2>1, <3>1, <3>2
    <2>4. QED
      BY <1>5, <2>2, <2>3
  <1>7. EntryInv'
    <2>1. ASSUME entry = "yes", NEW i \in 1..N
          PROVE  sinceTrue'[Facets[i]] <= age + Span(i, N + 1)
      <3>1. sinceTrue[Facets[i]] <= age + Span(i, N + 1)
        BY <2>1 DEF EntryInv
      <3>2. sinceTrue[Facets[i]] \in Nat /\ Span(i, N + 1) \in Int /\ age \in Nat
        BY FacetTypes DEF TypeOK, Ages
      <3>3. QED
        BY <1>4, <3>1, <3>2
    <2>2. 0 <= age + ProbeLimit
      BY DEF TypeOK, Ages
    <2>3. QED
      BY <1>1, <2>1, <2>2 DEF EntryInv, Span
  <1>8. AnswerInv'
    <2>1. ASSUME NEW d \in Callers, pc[d] = "answered", seen[d], NEW i \in 1..N
          PROVE  sinceTrue'[Facets[i]] < TTL + Span(i, N + 1)
      <3>1. sinceTrue[Facets[i]] < TTL + Span(i, N + 1)
        BY <2>1 DEF AnswerInv
      <3>2. sinceTrue[Facets[i]] \in Nat /\ Span(i, N + 1) \in Int
        BY FacetTypes
      <3>3. QED
        BY <1>4, <3>1, <3>2
    <2>2. 0 < TTL + Span(1, N + 1)
      BY SpanOfAll
    <2>3. QED
      BY <1>1, <2>1, <2>2 DEF AnswerInv, Span
  <1>9. QED
    BY <1>2, <1>3, <1>6, <1>7, <1>8

(* Time passes only while nobody is answered: an account and the age it is   *)
(* measured against grow together, and both stop at the horizon.             *)
LEMMA TickStep ==
    ASSUME CacheInv, Tick
    PROVE  CacheInv'
  <1> USE TimesAssumption DEF CacheInv
  <1>1. /\ \A c \in Callers : pc[c] # "answered"
        /\ \A c \in Callers : Running(c) => elapsed[c] < ProbeLimit
        /\ sinceTrue' = [f \in FacetSet |->
                            IF truth[f] THEN 0 ELSE Older(sinceTrue[f])]
        /\ sinceBad' = IF AllTrue THEN Older(sinceBad) ELSE 0
        /\ age' = Older(age)
        /\ elapsed' = [c \in Callers |->
                          IF Running(c) THEN elapsed[c] + 1 ELSE elapsed[c]]
        /\ UNCHANGED <<truth, entry, pc, step, seen>>
    BY DEF Tick
  <1>2. \A a \in Ages : Older(a) \in Ages /\ Older(a) <= a + 1
    BY DEF Ages, Older
  <1>3. TypeOK'
    <2>1. sinceTrue' \in [FacetSet -> Ages]
      <3>1. 0 \in Ages
        BY DEF Ages
      <3>2. QED
        BY <1>1, <1>2, <3>1 DEF TypeOK
    <2>2. sinceBad' \in Ages /\ age' \in Ages
      BY <1>1, <1>2 DEF TypeOK, Ages
    <2>3. elapsed' \in [Callers -> 0..ProbeLimit]
      BY <1>1 DEF TypeOK
    <2>4. QED
      BY <1>1, <2>1, <2>2, <2>3 DEF TypeOK
  <1>4. ClockInv'
    BY <1>1 DEF ClockInv, AllTrue
  <1>5. AnswerInv'
    BY <1>1 DEF AnswerInv
  <1>6. /\ sinceBad \in Nat /\ sinceBad' \in Nat
        /\ sinceBad' <= sinceBad + 1 /\ sinceBad' <= Horizon
    BY <1>1, <1>2, <1>3 DEF TypeOK, Ages
  <1>7. ASSUME NEW i \in 1..N
        PROVE  /\ sinceTrue[Facets[i]] \in Nat /\ sinceTrue'[Facets[i]] \in Nat
               /\ sinceTrue'[Facets[i]] <= sinceTrue[Facets[i]] + 1
               /\ sinceTrue'[Facets[i]] <= Horizon
    <2>1. Facets[i] \in FacetSet
      BY FacetTypes
    <2>2. sinceTrue[Facets[i]] \in Ages /\ sinceTrue'[Facets[i]] \in Ages
      BY <1>3, <2>1 DEF TypeOK
    <2>3. sinceTrue'[Facets[i]] = 0
              \/ sinceTrue'[Facets[i]] = Older(sinceTrue[Facets[i]])
      BY <1>1, <2>1
    <2>4. QED
      BY <1>2, <2>2, <2>3 DEF Ages
  <1>8. ProbeInv'
    <2> SUFFICES ASSUME NEW c \in Callers, Running(c)
                 PROVE  /\ \A i \in 1..N : i < step[c] =>
                               sinceTrue'[Facets[i]]
                                   <= Span(i, step[c]) + elapsed'[c]
                        /\ pc[c] = "read" /\ seen[c] =>
                               sinceTrue'[Facets[step[c]]] <= elapsed'[c]
                        /\ pc[c] = "read" /\ ~seen[c] => sinceBad' <= elapsed'[c]
      BY <1>1 DEF ProbeInv, Running, Span
    <2>1. elapsed'[c] = elapsed[c] + 1 /\ elapsed[c] \in Nat
      BY <1>1 DEF TypeOK
    <2>2. step[c] \in 1..N
      BY DEF TypeOK
    <2>3. ASSUME NEW i \in 1..N, i < step[c]
          PROVE  sinceTrue'[Facets[i]] <= Span(i, step[c]) + elapsed'[c]
      <3>1. i \in Int /\ step[c] \in Int
        BY <2>2, FacetTypes
      <3>2. Span(i, step[c]) \in Int
        BY <3>1, Spans, Zenon
      <3>3. sinceTrue[Facets[i]] <= Span(i, step[c]) + elapsed[c]
        BY <2>3 DEF ProbeInv
      <3>4. QED
        BY <1>7, <2>1, <3>2, <3>3
    <2>4. ASSUME pc[c] = "read", seen[c]
          PROVE  sinceTrue'[Facets[step[c]]] <= elapsed'[c]
      BY <1>7, <2>1, <2>2, <2>4 DEF ProbeInv
    <2>5. ASSUME pc[c] = "read", ~seen[c] PROVE sinceBad' <= elapsed'[c]
      BY <1>6, <2>1, <2>5 DEF ProbeInv
    <2>6. QED
      BY <2>3, <2>4, <2>5
  <1>9. EntryInv'
    <2>1. age \in Nat /\ age' = IF age < Horizon THEN age + 1 ELSE age
      BY <1>1 DEF TypeOK, Ages, Older
    <2>2. age \in Nat /\ age <= Horizon
      BY DEF TypeOK, Ages
    <2>3. ASSUME entry = "yes", NEW i \in 1..N
          PROVE  sinceTrue'[Facets[i]] <= age' + Span(i, N + 1)
      <3>1. sinceTrue[Facets[i]] <= age + Span(i, N + 1)
        BY <2>3 DEF EntryInv
      <3>2. Span(i, N + 1) \in Nat
        <4>1. i \in Int /\ N + 1 \in Int /\ i <= N + 1
          BY FacetTypes
        <4>2. QED
          BY <4>1, Spans, Zenon
      <3>3. QED
        BY <1>7, <2>1, <2>2, <3>1, <3>2
    <2>4. ASSUME entry = "no" PROVE sinceBad' <= age' + ProbeLimit
      BY <1>6, <2>1, <2>2, <2>4 DEF EntryInv
    <2>5. QED
      BY <1>1, <2>3, <2>4 DEF EntryInv, Span
  <1>10. QED
    BY <1>3, <1>4, <1>5, <1>8, <1>9

(* The accounts hold in every state.                                         *)
LEMMA CacheCorrect == Spec => []CacheInv
  <1>1. CacheInv /\ [Next]_vars => CacheInv'
    <2> SUFFICES ASSUME CacheInv, [Next]_vars PROVE CacheInv'
      OBVIOUS
    <2>1. ASSUME NEW c \in Callers, Hit(c) PROVE CacheInv'
      BY <2>1, HitStep
    <2>2. ASSUME NEW c \in Callers, Miss(c) PROVE CacheInv'
      BY <2>2, MissStep
    <2>3. ASSUME NEW c \in Callers, Read(c) PROVE CacheInv'
      BY <2>3, ReadStep
    <2>4. ASSUME NEW c \in Callers, ProbeNext(c) PROVE CacheInv'
      BY <2>4, ProbeNextStep
    <2>5. ASSUME NEW c \in Callers, ProbeEnds(c) PROVE CacheInv'
      BY <2>5, ProbeEndsStep
    <2>6. ASSUME NEW c \in Callers, ProbeFails(c) PROVE CacheInv'
      BY <2>6, ProbeFailsStep
    <2>7. ASSUME NEW c \in Callers, Leave(c) PROVE CacheInv'
      <3>1. /\ pc' = [pc EXCEPT ![c] = "idle"]
            /\ UNCHANGED <<truth, sinceTrue, sinceBad, entry, age, step, elapsed, seen>>
        BY <2>7 DEF Leave
      <3>2. TypeOK'
        BY <3>1 DEF CacheInv, TypeOK, Phases
      <3>3. ClockInv' /\ EntryInv'
        BY <3>1 DEF CacheInv, ClockInv, EntryInv, AllTrue, Span
      <3>4. ProbeInv' /\ AnswerInv'
        BY <3>1 DEF CacheInv, ProbeInv, AnswerInv, Running, TypeOK, Span
      <3>5. QED
        BY <3>2, <3>3, <3>4 DEF CacheInv
    <2>8. ASSUME NEW f \in FacetSet, Flip(f) PROVE CacheInv'
      BY <2>8, FlipStep
    <2>9. CASE Tick
      BY <2>9, TickStep
    <2>10. CASE UNCHANGED vars
      BY <2>10 DEF vars, CacheInv, TypeOK, ClockInv, ProbeInv, EntryInv, AnswerInv,
                   AllTrue, Running, Span
    <2>11. QED
      BY <2>1, <2>2, <2>3, <2>4, <2>5, <2>6, <2>7, <2>8, <2>9, <2>10 DEF Next
  <1>2. QED
    BY <1>1, CacheInit, PTL DEF Spec

-----------------------------------------------------------------------------
(* The cache and its callers keep their types: in particular no caller is    *)
(* ever past its last command, nor in one for longer than its timeout.       *)
THEOREM TypeCorrect == Spec => []TypeOK
  <1>1. CacheInv => TypeOK
    BY DEF CacheInv
  <1>2. QED
    BY <1>1, CacheCorrect, PTL

(* For any number of callers and commands, and any TTL and timeout: when a   *)
(* caller is told yes, each facet was true at most one TTL plus the commands *)
(* from its own on before (src/health.go:64-84).                             *)
THEOREM YesIsRecent == Spec => []PositiveIsRecent
  <1>1. CacheInv => PositiveIsRecent
    <2> SUFFICES ASSUME CacheInv, NEW c \in Callers, pc[c] = "answered", seen[c],
                        NEW i \in 1..N
                 PROVE  sinceTrue[Facets[i]] < TTL + (N - i + 1) * ProbeLimit
      BY DEF PositiveIsRecent
    <2>1. sinceTrue[Facets[i]] < TTL + Span(i, N + 1)
      BY DEF CacheInv, AnswerInv
    <2>2. i \in Int
      BY FacetTypes DEF CacheInv
    <2>3. (N - i + 1) * ProbeLimit = Span(i, N + 1)
      BY <2>2, Spans, Zenon
    <2>4. QED
      BY <2>1, <2>3, Zenon
  <1>2. QED
    BY <1>1, CacheCorrect, PTL

(* When a caller is told no, a facet was false or somebody's probe failed at *)
(* most one TTL plus the commands before.                                    *)
THEOREM NoHasACause == Spec => []NegativeHasCause
  <1>1. CacheInv => NegativeHasCause
    <2> SUFFICES ASSUME CacheInv, NEW c \in Callers, pc[c] = "answered", ~seen[c]
                 PROVE  sinceBad < TTL + N * ProbeLimit
      BY DEF NegativeHasCause
    <2>1. sinceBad < TTL + Span(1, N + 1)
      BY DEF CacheInv, AnswerInv
    <2>2. QED
      BY <2>1, SpanOfAll, Zenon
  <1>2. QED
    BY <1>1, CacheCorrect, PTL
=============================================================================
