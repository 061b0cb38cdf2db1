----------------------- MODULE ExchangeServiceProofs ------------------------
(***************************************************************************)
(* WeatherExchange implements WeatherService, for every set of sessions,   *)
(* stations, frontends and requests, finite or not: what is under way at a *)
(* time is finite, since each step adds finitely much.                     *)
(***************************************************************************)
EXTENDS WeatherExchangeProofs, FiniteSetTheorems, FunctionTheorems

----------------------------------------------------------------------------
(* Counting: one element more, one less, one in place of another.            *)

LEMMA OneMore ==
    ASSUME NEW S, IsFiniteSet(S), NEW x, x \notin S
    PROVE  /\ IsFiniteSet(S \cup {x}) /\ Cardinality(S) \in Nat
           /\ Cardinality(S \cup {x}) = Cardinality(S) + 1
  BY FS_AddElement, FS_CardinalityType

LEMMA OneLess ==
    ASSUME NEW S, IsFiniteSet(S), NEW x, x \in S
    PROVE  /\ IsFiniteSet(S \ {x}) /\ Cardinality(S) \in Nat /\ Cardinality(S) > 0
           /\ Cardinality(S \ {x}) = Cardinality(S) - 1
  <1>1. IsFiniteSet(S \ {x}) /\ Cardinality(S \ {x}) = Cardinality(S) - 1
    BY FS_RemoveElement
  <1>2. Cardinality(S) \in Nat /\ Cardinality(S \ {x}) \in Nat
    BY <1>1, FS_CardinalityType
  <1> QED  BY <1>1, <1>2

----------------------------------------------------------------------------
(* The three sets that UnderWay counts.                                      *)

Counted ==
    \A d \in StationId :
        IsFiniteSet(Queued(d)) /\ IsFiniteSet(Written(d)) /\ IsFiniteSet(Called(d))

LEMMA InQueued ==
    /\ \A d, x : x \in Queued(d) <=>
           \E f \in Frontend : \E n \in DOMAIN todo[f] : x = <<f, n>> /\ todo[f][n] = d
    /\ \A d, x : x \in Queued(d)' <=>
           \E f \in Frontend : \E n \in DOMAIN todo'[f] : x = <<f, n>> /\ todo'[f][n] = d
  BY DEF Queued

LEMMA InWritten ==
    /\ \A d, x : x \in Written(d) <=>
           \E s \in Session : \E n \in DOMAIN writes[s] : x = <<s, n>> /\ device[s] = d
    /\ \A d, x : x \in Written(d)' <=>
           \E s \in Session : \E n \in DOMAIN writes'[s] : x = <<s, n>> /\ device'[s] = d
  BY DEF Written

LEMMA OccurrencesIs ==
    \A d, ids : Service!Occurrences(d, ids) = Cardinality({n \in DOMAIN ids : ids[n] = d})
  BY Zenon DEF Service!Occurrences, Service!Cardinality, Cardinality

LEMMA OccursOnce ==
    ASSUME NEW ids \in Seq(StationId), NEW d
    PROVE  /\ Service!Occurrences(d, ids) \in Nat
           /\ Among(d, ids) => Service!Occurrences(d, ids) > 0
  <1> DEFINE places == {n \in DOMAIN ids : ids[n] = d}
  <1>1. IsFiniteSet(1..Len(ids)) /\ places \in SUBSET (1..Len(ids))
    BY FS_Interval
  <1>2. IsFiniteSet(places) /\ Cardinality(places) \in Nat
    BY <1>1, FS_Subset, FS_CardinalityType
  <1>3. Among(d, ids) => places # {}
    BY DEF Among
  <1>4. Among(d, ids) => Cardinality(places) # 0
    BY <1>2, <1>3, FS_EmptySet
  <1> QED  BY <1>2, <1>4, OccurrencesIs

LEMMA UnderWayNat ==
    ASSUME TypeInv, Counted, NEW d \in StationId
    PROVE  /\ Cardinality(Queued(d)) \in Nat /\ Cardinality(Written(d)) \in Nat
           /\ Len(inbox[d]) \in Nat /\ Cardinality(Called(d)) \in Nat
           /\ UnderWay(d) \in Nat
  <1>1. Cardinality(Queued(d)) \in Nat /\ Cardinality(Written(d)) \in Nat
        /\ Cardinality(Called(d)) \in Nat
    BY FS_CardinalityType DEF Counted
  <1>2. Len(inbox[d]) \in Nat
    BY DEF TypeInv, TypeOK
  <1> QED  BY <1>1, <1>2 DEF UnderWay

LEMMA CountedFrame ==
    /\ UNCHANGED todo => \A d : Queued(d)' = Queued(d)
    /\ UNCHANGED <<writes, device>> => \A d : Written(d)' = Written(d)
    /\ UNCHANGED <<call, device>> => \A d : Called(d)' = Called(d)
  BY DEF Queued, Written, Called

\* A lookup that is over takes the first station from the list.
LEMMA QueuedTail ==
    ASSUME TypeInv, NEW f \in Frontend, todo[f] # <<>>, nextStation(f, Tail(todo[f])),
           NEW d \in StationId, IsFiniteSet(Queued(d))
    PROVE  /\ IsFiniteSet(Queued(d)')
           /\ d # Head(todo[f]) => Cardinality(Queued(d)') = Cardinality(Queued(d))
           /\ d = Head(todo[f]) =>
                 /\ Cardinality(Queued(d)) \in Nat /\ Cardinality(Queued(d)) > 0
                 /\ Cardinality(Queued(d)') = Cardinality(Queued(d)) - 1
  <1> DEFINE first == <<f, 1>>
             rest == Queued(d) \ {first}
             shift == [x \in rest |-> IF x[1] = f THEN <<f, x[2] - 1>> ELSE x]
  <1>1. /\ todo[f] \in Seq(StationId) /\ todo'[f] = Tail(todo[f])
        /\ \A g \in Frontend \ {f} : todo'[g] = todo[g]
    BY NextStation DEF TypeInv, TypeOK
  <1>2. /\ DOMAIN todo[f] = 1..Len(todo[f]) /\ Len(todo[f]) \in Nat /\ Len(todo[f]) > 0
        /\ DOMAIN todo'[f] = 1..(Len(todo[f]) - 1)
        /\ \A n \in DOMAIN todo'[f] : todo'[f][n] = todo[f][n + 1]
    BY <1>1
  <1>3. \A x \in rest : shift[x] \in Queued(d)'
    <2> SUFFICES ASSUME NEW g \in Frontend, NEW n \in DOMAIN todo[g],
                        todo[g][n] = d, <<g, n>> # first
                 PROVE  (IF g = f THEN <<f, n - 1>> ELSE <<g, n>>) \in Queued(d)'
      BY InQueued
    <2>1. CASE g = f
      <3>1. n - 1 \in DOMAIN todo'[f] /\ todo'[f][n - 1] = d
        BY <1>2, <2>1
      <3> QED  BY <2>1, <3>1, InQueued
    <2>2. CASE g # f
      BY <1>1, <2>2, InQueued
    <2> QED  BY <2>1, <2>2
  <1>4. ASSUME NEW x \in rest, NEW y \in rest, shift[x] = shift[y]
        PROVE  x = y
    <2>1. PICK g \in Frontend : \E n \in DOMAIN todo[g] : x = <<g, n>>
      BY InQueued
    <2>2. PICK n \in DOMAIN todo[g] : x = <<g, n>>
      BY <2>1
    <2>3. PICK h \in Frontend : \E m \in DOMAIN todo[h] : y = <<h, m>>
      BY InQueued
    <2>4. PICK m \in DOMAIN todo[h] : y = <<h, m>>
      BY <2>3
    <2>5. n \in Nat /\ m \in Nat
      <3>1. todo[g] \in Seq(StationId) /\ todo[h] \in Seq(StationId)
        BY DEF TypeInv, TypeOK
      <3> QED  BY <3>1
    <2>6. (IF g = f THEN <<f, n - 1>> ELSE <<g, n>>) = (IF h = f THEN <<f, m - 1>> ELSE <<h, m>>)
      BY <1>4, <2>2, <2>4
    <2> QED  BY <2>2, <2>4, <2>5, <2>6
  <1>5. ASSUME NEW y \in Queued(d)'
        PROVE  \E x \in rest : shift[x] = y
    <2>1. PICK g \in Frontend : \E n \in DOMAIN todo'[g] : y = <<g, n>> /\ todo'[g][n] = d
      BY InQueued
    <2>2. PICK n \in DOMAIN todo'[g] : y = <<g, n>> /\ todo'[g][n] = d
      BY <2>1
    <2>3. CASE g = f
      <3>1. n \in 1..(Len(todo[f]) - 1)
        BY <1>2, <2>3
      <3>2. n + 1 \in DOMAIN todo[f] /\ n + 1 # 1 /\ (n + 1) - 1 = n
        BY <1>2, <3>1
      <3>3. todo[f][n + 1] = d
        BY <1>2, <2>2, <2>3
      <3>4. <<f, n + 1>> \in rest
        BY <3>2, <3>3, InQueued
      <3>5. shift[<<f, n + 1>>] = y
        BY <2>2, <2>3, <3>2, <3>4
      <3> QED  BY <3>4, <3>5
    <2>4. CASE g # f
      <3>1. y \in rest
        BY <1>1, <2>2, <2>4, InQueued
      <3>2. shift[y] = y
        BY <2>2, <2>4, <3>1
      <3> QED  BY <3>1, <3>2
    <2> QED  BY <2>3, <2>4
  <1>6. ExistsBijection(rest, Queued(d)')
    <2>1. shift \in Bijection(rest, Queued(d)')
      <3> HIDE DEF rest
      <3> QED  BY <1>3, <1>4, <1>5, Fun_IsBij
    <2> QED  BY <2>1 DEF ExistsBijection
  <1>7. IsFiniteSet(rest)
    BY FS_RemoveElement
  <1>8. IsFiniteSet(Queued(d)') /\ Cardinality(Queued(d)') = Cardinality(rest)
    BY <1>6, <1>7, FS_Bijection
  <1>9. first \in Queued(d) <=> d = Head(todo[f])
    BY <1>1, <1>2, InQueued
  <1>10. CASE d = Head(todo[f])
    BY <1>8, <1>9, <1>10, OneLess
  <1>11. CASE d # Head(todo[f])
    <2>1. rest = Queued(d)
      BY <1>9, <1>11
    <2> QED  BY <1>8, <1>11, <2>1
  <1> QED  BY <1>10, <1>11

\* A request puts its stations on the empty list of its frontend.
LEMMA QueuedRequest ==
    ASSUME TypeInv, NEW f \in Frontend, todo[f] = <<>>,
           NEW ids \in Seq(StationId), nextStation(f, ids),
           NEW d \in StationId, IsFiniteSet(Queued(d))
    PROVE  /\ IsFiniteSet(Queued(d)')
           /\ Cardinality(Queued(d)') = Cardinality(Queued(d)) + Service!Occurrences(d, ids)
  <1> DEFINE places == {n \in DOMAIN ids : ids[n] = d}
             new == {f} \X places
  <1>1. todo'[f] = ids /\ \A g \in Frontend \ {f} : todo'[g] = todo[g]
    BY NextStation
  <1>2. IsFiniteSet(places) /\ Cardinality(places) \in Nat
    <2>1. Len(ids) \in Nat /\ IsFiniteSet(1..Len(ids))
      BY FS_Interval
    <2>2. places \in SUBSET (1..Len(ids))
      OBVIOUS
    <2> QED  BY <2>1, <2>2, FS_Subset, FS_CardinalityType
  <1>3. IsFiniteSet(new) /\ Cardinality(new) = Cardinality(places)
    <2> HIDE DEF places
    <2>1. IsFiniteSet({f}) /\ Cardinality({f}) = 1
      BY FS_Singleton
    <2>2. IsFiniteSet(new) /\ Cardinality(new) = 1 * Cardinality(places)
      BY <1>2, <2>1, FS_Product
    <2> QED  BY <1>2, <2>2
  <1>4. Queued(d)' = Queued(d) \cup new
    <2>1. \A x : x \in Queued(d)' <=> x \in Queued(d) \/ x \in new
      BY <1>1, InQueued
    <2> QED  BY <2>1
  <1>5. Queued(d) \cap new = {}
    BY InQueued
  <1>6. /\ IsFiniteSet(Queued(d) \cup new)
        /\ Cardinality(Queued(d) \cup new) = Cardinality(Queued(d)) + Cardinality(new)
    <2> HIDE DEF new
    <2>1. Cardinality(Queued(d)) \in Nat /\ Cardinality(new) \in Nat
      BY <1>3, FS_CardinalityType
    <2>2. Cardinality(Queued(d) \cap new) = 0
      BY <1>5, FS_EmptySet
    <2>3. /\ IsFiniteSet(Queued(d) \cup new)
          /\ Cardinality(Queued(d) \cup new)
                = Cardinality(Queued(d)) + Cardinality(new) - Cardinality(Queued(d) \cap new)
      BY <1>3, FS_Union
    <2> QED  BY <2>1, <2>2, <2>3
  <1>7. Cardinality(places) = Service!Occurrences(d, ids)
    BY OccurrencesIs
  <1> QED  BY <1>3, <1>4, <1>6, <1>7

\* A write more is behind those there are, a write less the last of them.
LEMMA WrittenAppend ==
    ASSUME TypeInv, NEW s \in Session, NEW f,
           writes' = [writes EXCEPT ![s] = Append(@, f)], device' = device,
           NEW d \in StationId, IsFiniteSet(Written(d))
    PROVE  /\ IsFiniteSet(Written(d)')
           /\ d # device[s] => Written(d)' = Written(d)
           /\ d = device[s] => /\ Cardinality(Written(d)) \in Nat
                               /\ Cardinality(Written(d)') = Cardinality(Written(d)) + 1
  <1> DEFINE last == <<s, Len(writes[s]) + 1>>
  <1>1. /\ writes[s] \in Seq(Frontend) /\ writes'[s] = Append(writes[s], f)
        /\ \A t \in Session \ {s} : writes'[t] = writes[t]
    BY DEF TypeInv, TypeOK
  <1>2. /\ DOMAIN writes[s] = 1..Len(writes[s]) /\ Len(writes[s]) \in Nat
        /\ DOMAIN writes'[s] = 1..(Len(writes[s]) + 1)
    BY <1>1
  <1>3. CASE d # device[s]
    <2>1. \A x : x \in Written(d)' <=> x \in Written(d)
      BY <1>1, <1>3, InWritten
    <2>2. Written(d)' = Written(d)
      BY <2>1
    <2> QED  BY <1>3, <2>2
  <1>4. CASE d = device[s]
    <2>1. last \notin Written(d)
      BY <1>2, InWritten
    <2>2. \A n : n \in DOMAIN writes'[s] <=> n \in DOMAIN writes[s] \/ n = Len(writes[s]) + 1
      BY <1>2
    <2>3. \A x : x \in Written(d)' <=> x \in Written(d) \/ x = last
      BY <1>1, <1>4, <2>2, InWritten
    <2>4. Written(d)' = Written(d) \cup {last}
      BY <2>3
    <2> HIDE DEF last
    <2>5. /\ IsFiniteSet(Written(d) \cup {last}) /\ Cardinality(Written(d)) \in Nat
          /\ Cardinality(Written(d) \cup {last}) = Cardinality(Written(d)) + 1
      BY <2>1, OneMore
    <2> QED  BY <1>4, <2>4, <2>5
  <1> QED  BY <1>3, <1>4

LEMMA WrittenTail ==
    ASSUME TypeInv, NEW s \in Session, writes[s] # <<>>, completeWrite(s), device' = device,
           NEW d \in StationId, IsFiniteSet(Written(d))
    PROVE  /\ IsFiniteSet(Written(d)')
           /\ d # device[s] => Written(d)' = Written(d)
           /\ d = device[s] => /\ Cardinality(Written(d)) \in Nat /\ Cardinality(Written(d)) > 0
                               /\ Cardinality(Written(d)') = Cardinality(Written(d)) - 1
  <1> DEFINE last == <<s, Len(writes[s])>>
  <1>1. /\ writes[s] \in Seq(Frontend) /\ writes'[s] = Tail(writes[s])
        /\ \A t \in Session \ {s} : writes'[t] = writes[t]
    BY DEF TypeInv, TypeOK, completeWrite
  <1>2. /\ DOMAIN writes[s] = 1..Len(writes[s]) /\ Len(writes[s]) \in Nat /\ Len(writes[s]) > 0
        /\ DOMAIN writes'[s] = 1..(Len(writes[s]) - 1)
    BY <1>1
  <1>3. CASE d # device[s]
    <2>1. \A x : x \in Written(d)' <=> x \in Written(d)
      BY <1>1, <1>3, InWritten
    <2>2. Written(d)' = Written(d)
      BY <2>1
    <2> QED  BY <1>3, <2>2
  <1>4. CASE d = device[s]
    <2>1. last \in Written(d)
      BY <1>2, <1>4, InWritten
    <2>2. \A n : n \in DOMAIN writes'[s] <=> n \in DOMAIN writes[s] /\ n # Len(writes[s])
      BY <1>2
    <2>3. \A x : x \in Written(d)' <=> x \in Written(d) /\ x # last
      <3>1. \A t \in Session : \A n : n \in DOMAIN writes'[t] <=>
                n \in DOMAIN writes[t] /\ <<t, n>> # last
        BY <1>1, <2>2
      <3> QED  BY <3>1, InWritten
    <2>4. Written(d)' = Written(d) \ {last}
      BY <2>3
    <2> HIDE DEF last
    <2>5. /\ IsFiniteSet(Written(d) \ {last})
          /\ Cardinality(Written(d)) \in Nat /\ Cardinality(Written(d)) > 0
          /\ Cardinality(Written(d) \ {last}) = Cardinality(Written(d)) - 1
      BY <2>1, OneLess
    <2> QED  BY <1>4, <2>4, <2>5
  <1> QED  BY <1>3, <1>4

LEMMA CalledSet ==
    ASSUME TypeInv, NEW s \in Session, call[s] = None, NEW c, c # None,
           call' = [call EXCEPT ![s] = c], device' = device,
           NEW d \in StationId, IsFiniteSet(Called(d))
    PROVE  /\ IsFiniteSet(Called(d)')
           /\ d # device[s] => Called(d)' = Called(d)
           /\ d = device[s] => /\ Cardinality(Called(d)) \in Nat
                               /\ Cardinality(Called(d)') = Cardinality(Called(d)) + 1
  <1>1. call'[s] = c /\ \A t \in Session \ {s} : call'[t] = call[t]
    BY DEF TypeInv, TypeOK
  <1>2. CASE d # device[s]
    <2>1. Called(d)' = Called(d)
      BY <1>1, <1>2 DEF Called
    <2> QED  BY <1>2, <2>1
  <1>3. CASE d = device[s]
    <2>1. s \notin Called(d) /\ Called(d)' = Called(d) \cup {s}
      BY <1>1, <1>3 DEF Called
    <2> QED  BY <1>3, <2>1, OneMore
  <1> QED  BY <1>2, <1>3

LEMMA CalledReset ==
    ASSUME TypeInv, NEW s \in Session, call[s] # None,
           call' = [call EXCEPT ![s] = None], device' = device,
           NEW d \in StationId, IsFiniteSet(Called(d))
    PROVE  /\ IsFiniteSet(Called(d)')
           /\ d # device[s] => Called(d)' = Called(d)
           /\ d = device[s] => /\ Cardinality(Called(d)) \in Nat /\ Cardinality(Called(d)) > 0
                               /\ Cardinality(Called(d)') = Cardinality(Called(d)) - 1
  <1>1. call'[s] = None /\ \A t \in Session \ {s} : call'[t] = call[t]
    BY DEF TypeInv, TypeOK
  <1>2. CASE d # device[s]
    <2>1. Called(d)' = Called(d)
      BY <1>1, <1>2 DEF Called
    <2> QED  BY <1>2, <2>1
  <1>3. CASE d = device[s]
    <2>1. s \in Called(d) /\ Called(d)' = Called(d) \ {s}
      BY <1>1, <1>3 DEF Called
    <2> QED  BY <1>3, <2>1, OneLess
  <1> QED  BY <1>2, <1>3

----------------------------------------------------------------------------
(* Each step of the exchange is one of the service, or none.                 *)

Pending == [d \in StationId |-> UnderWay(d)]

Told == [f \in Frontend |-> [n \in DOMAIN answers[f] |-> answers[f][n].of]]

\* What a step of the exchange has to show: the counts stay finite, and the
\* service takes a step.
Served == Counted' /\ [Service!Next]_(Service!vars)

LEMMA ToldAppend ==
    ASSUME TypeInv, NEW f \in Frontend, NEW a \in Answer,
           answers' = [answers EXCEPT ![f] = Append(@, a)]
    PROVE  Told' = [Told EXCEPT ![f] = Append(@, a.of)]
  <1> DEFINE of(q) == [n \in DOMAIN q |-> q[n].of]
  <1>1. /\ answers[f] \in Seq(Answer) /\ answers'[f] = Append(answers[f], a)
        /\ \A g \in Frontend \ {f} : answers'[g] = answers[g]
    BY DEF TypeInv, TypeOK
  <1>2. of(Append(answers[f], a)) = Append(of(answers[f]), a.of)
    <2>1. /\ Len(answers[f]) \in Nat /\ DOMAIN answers[f] = 1..Len(answers[f])
          /\ \A n \in DOMAIN answers[f] : answers[f][n] \in Answer
      BY <1>1
    <2>2. a.of \in StationId /\ of(answers[f]) \in [1..Len(answers[f]) -> StationId]
      BY <2>1 DEF Answer
    <2>3. of(answers[f]) \in Seq(StationId) /\ Len(of(answers[f])) = Len(answers[f])
      BY <2>1, <2>2, IsASeq
    <2>4. /\ DOMAIN Append(answers[f], a) = 1..(Len(answers[f]) + 1)
          /\ \A n \in 1..(Len(answers[f]) + 1) :
                Append(answers[f], a)[n] = IF n = Len(answers[f]) + 1 THEN a ELSE answers[f][n]
      BY <1>1, <2>1
    <2>5. /\ DOMAIN Append(of(answers[f]), a.of) = 1..(Len(answers[f]) + 1)
          /\ Append(of(answers[f]), a.of) = [n \in 1..(Len(answers[f]) + 1) |->
                IF n = Len(answers[f]) + 1 THEN a.of ELSE answers[f][n].of]
      <3> DEFINE told == of(answers[f])
      <3>1. \A n \in 1..Len(answers[f]) : told[n] = answers[f][n].of
        BY <2>1
      <3>2. told \in Seq(StationId) /\ Len(told) = Len(answers[f])
        BY <2>3
      <3> HIDE DEF told
      <3>3. /\ DOMAIN Append(told, a.of) = 1..(Len(answers[f]) + 1)
            /\ Append(told, a.of) = [n \in 1..(Len(answers[f]) + 1) |->
                  IF n = Len(answers[f]) + 1 THEN a.of ELSE answers[f][n].of]
        BY <2>1, <2>2, <3>1, <3>2
      <3> QED  BY <3>3 DEF told
    <2> QED  BY <2>4, <2>5
  <1> HIDE DEF of
  <1>3. \A g \in Frontend : of(answers'[g]) =
            IF g = f THEN Append(of(answers[g]), a.of) ELSE of(answers[g])
    <2>1. of(answers'[f]) = Append(of(answers[f]), a.of)
      <3>1. answers'[f] = Append(answers[f], a)
        BY <1>1
      <3> QED  BY <1>2, <3>1
    <2>2. \A g \in Frontend \ {f} : of(answers'[g]) = of(answers[g])
      BY <1>1
    <2> QED  BY <2>1, <2>2
  <1>4. /\ Told = [g \in Frontend |-> of(answers[g])]
        /\ Told' = [g \in Frontend |-> of(answers'[g])]
    BY DEF Told, of
  <1> QED  BY <1>3, <1>4

LEMMA ServedStutter ==
    ASSUME Counted', UNCHANGED <<asked, meant, went, answers>>,
           \A d \in StationId : UnderWay(d)' = UnderWay(d)
    PROVE  Served
  BY DEF Served, Service!vars

LEMMA SettleIs ==
    ASSUME NEW e \in StationId, UnderWay(e) > 0,
           \A d \in StationId :
              UnderWay(d)' = IF d = e THEN UnderWay(d) - 1 ELSE UnderWay(d)
    PROVE  Service!Settle(e)
  BY DEF Service!Settle

LEMMA ServedLose ==
    ASSUME Counted', UNCHANGED <<asked, meant, went, answers>>,
           NEW e \in StationId, UnderWay(e) > 0,
           \A d \in StationId :
              UnderWay(d)' = IF d = e THEN UnderWay(d) - 1 ELSE UnderWay(d)
    PROVE  Served
  <1>1. Service!Lose(e)
    BY SettleIs DEF Service!Lose
  <1> QED  BY <1>1 DEF Served, Service!Next

LEMMA ServedAnswer ==
    ASSUME Counted', NEW f \in Frontend, NEW e \in StationId, Service!Answer(f, e)
    PROVE  Served
  <1>1. Service!Next
    BY DEF Service!Next
  <1> QED  BY <1>1 DEF Served

LEMMA ServedFrame ==
    ASSUME Counted, UNCHANGED <<asked, meant, went, answers, todo, writes, device, inbox, call>>
    PROVE  Served
  <1>1. \A d \in StationId : /\ Queued(d)' = Queued(d) /\ Written(d)' = Written(d)
                             /\ Called(d)' = Called(d)
    BY CountedFrame
  <1>2. Counted'
    BY <1>1 DEF Counted
  <1>3. \A d \in StationId : UnderWay(d)' = UnderWay(d)
    BY <1>1 DEF UnderWay
  <1> QED  BY <1>2, <1>3, ServedStutter

\* A new session has nothing under way, at an old address either.
LEMMA ServedAccept ==
    ASSUME TypeInv, Counted, NEW s \in Session, NEW e \in StationId, Accept(s, e)
    PROVE  Served
  <1>1. /\ UNCHANGED <<asked, meant, went, answers, todo, writes, inbox, call>>
        /\ writes[s] = <<>> /\ call[s] = None
        /\ \A t \in Session \ {s} : device'[t] = device[t]
    BY DEF Accept, past, TypeInv, TypeOK, LiveSessions
  <1>2. ASSUME NEW d \in StationId
        PROVE  Queued(d)' = Queued(d) /\ Written(d)' = Written(d) /\ Called(d)' = Called(d)
    <2>1. Queued(d)' = Queued(d)
      BY <1>1, CountedFrame
    <2>2. \A x : x \in Written(d)' <=> x \in Written(d)
      BY <1>1, InWritten
    <2>3. Called(d)' = Called(d)
      BY <1>1 DEF Called
    <2> QED  BY <2>1, <2>2, <2>3
  <1>3. Counted'
    BY <1>2 DEF Counted
  <1>4. \A d \in StationId : UnderWay(d)' = UnderWay(d)
    BY <1>1, <1>2 DEF UnderWay
  <1> QED  BY <1>1, <1>3, <1>4, ServedStutter

\* A request that is transmitted goes on to the inbox, one whose write fails is
\* lost.
LEMMA ServedTransfer ==
    ASSUME TypeInv, Counted, NEW s \in Session, Transmit(s) \/ WriteFail(s)
    PROVE  Served
  <1> DEFINE e == device[s]
  <1>1. /\ UNCHANGED <<asked, meant, went, answers, todo, device, call>>
        /\ writes[s] # <<>> /\ completeWrite(s)
        /\ e \in StationId /\ output_[s] \in Frontend
    BY DEF Transmit, WriteFail, tcp, request, past, TypeInv, TypeOK, LiveSessions
  <1>2. ASSUME NEW d \in StationId
        PROVE  /\ Queued(d)' = Queued(d) /\ Called(d)' = Called(d)
               /\ IsFiniteSet(Written(d)')
               /\ d # e => Written(d)' = Written(d)
               /\ d = e => /\ Cardinality(Written(d)) > 0
                           /\ Cardinality(Written(d)') = Cardinality(Written(d)) - 1
    BY <1>1, CountedFrame, WrittenTail DEF Counted
  <1>3. Counted'
    BY <1>2 DEF Counted
  <1>4. CASE Transmit(s)
    <2>1. inbox' = [inbox EXCEPT ![e] = Append(@, output_[s])]
      BY <1>4 DEF Transmit
    <2>2. /\ inbox[e] \in Seq(Frontend) /\ inbox'[e] = Append(inbox[e], output_[s])
          /\ \A d \in StationId \ {e} : inbox'[d] = inbox[d]
      BY <1>1, <2>1 DEF TypeInv, TypeOK
    <2>3. Len(inbox'[e]) = Len(inbox[e]) + 1
      BY <1>1, <2>2
    <2>4. ASSUME NEW d \in StationId
          PROVE  UnderWay(d)' = UnderWay(d)
      <3>1. CASE d = e
        <4>1. /\ Cardinality(Queued(d)) \in Nat /\ Cardinality(Written(d)) \in Nat
              /\ Len(inbox[d]) \in Nat /\ Cardinality(Called(d)) \in Nat
          BY UnderWayNat
        <4>2. /\ Len(inbox'[d]) = Len(inbox[d]) + 1
              /\ Cardinality(Written(d)') = Cardinality(Written(d)) - 1
              /\ Queued(d)' = Queued(d) /\ Called(d)' = Called(d)
          BY <1>2, <2>3, <3>1
        <4> QED  BY <4>1, <4>2 DEF UnderWay
      <3>2. CASE d # e
        BY <1>2, <2>2, <3>2 DEF UnderWay
      <3> QED  BY <3>1, <3>2
    <2> QED  BY <1>1, <1>3, <2>4, ServedStutter
  <1>5. CASE WriteFail(s)
    <2>1. inbox' = inbox
      BY <1>5 DEF WriteFail
    <2>2. ASSUME NEW d \in StationId
          PROVE  UnderWay(d)' = IF d = e THEN UnderWay(d) - 1 ELSE UnderWay(d)
      BY <1>2, <2>1, UnderWayNat DEF UnderWay
    <2>3. UnderWay(e) > 0
      BY <1>1, <1>2, UnderWayNat DEF UnderWay
    <2> QED  BY <1>1, <1>3, <2>2, <2>3, ServedLose
  <1> QED  BY <1>4, <1>5

\* An answer of the device calls the frontend's callback, and is lost if there
\* is none.
LEMMA ServedWeather ==
    ASSUME TypeInv, Counted, NEW s \in Session, handleWeatherStatusPacket(s)
    PROVE  Served
  <1> DEFINE e == device[s]
  <1>1. /\ UNCHANGED <<asked, meant, went, answers, todo, device, writes>>
        /\ e \in StationId /\ call[s] = None
        /\ inbox[e] \in Seq(Frontend) /\ inbox[e] # <<>>
        /\ inbox' = [inbox EXCEPT ![e] = Tail(@)]
    BY DEF handleWeatherStatusPacket, Reading, tcp, request, past, TypeInv, TypeOK, LiveSessions
  <1>2. /\ Len(inbox'[e]) = Len(inbox[e]) - 1 /\ Len(inbox[e]) > 0
        /\ \A d \in StationId \ {e} : inbox'[d] = inbox[d]
    <2>1. inbox'[e] = Tail(inbox[e]) /\ \A d \in StationId \ {e} : inbox'[d] = inbox[d]
      BY <1>1 DEF TypeInv, TypeOK
    <2>2. Len(Tail(inbox[e])) = Len(inbox[e]) - 1 /\ Len(inbox[e]) > 0
      BY <1>1, HeadTailProperties, LenProperties
    <2> QED  BY <2>1, <2>2
  <1>3. \A d \in StationId : Queued(d)' = Queued(d) /\ Written(d)' = Written(d)
    BY <1>1, CountedFrame
  <1>4. CASE call' = call
    <2>1. \A d \in StationId : Called(d)' = Called(d)
      BY <1>1, <1>4, CountedFrame
    <2>2. Counted'
      BY <1>3, <2>1 DEF Counted
    <2>3. ASSUME NEW d \in StationId
          PROVE  UnderWay(d)' = IF d = e THEN UnderWay(d) - 1 ELSE UnderWay(d)
      <3>1. CASE d = e
        BY <1>2, <1>3, <2>1, <3>1, UnderWayNat DEF UnderWay
      <3>2. CASE d # e
        BY <1>2, <1>3, <2>1, <3>2 DEF UnderWay
      <3> QED  BY <3>1, <3>2
    <2>4. UnderWay(e) > 0
      BY <1>1, <1>2, UnderWayNat DEF UnderWay
    <2> QED  BY <1>1, <2>2, <2>3, <2>4, ServedLose
  <1>5. CASE call' # call
    <2>1. PICK f \in Frontend : call' = [call EXCEPT ![s] = [to |-> f, id |-> stationId_[s]]]
      BY <1>1, <1>5 DEF handleWeatherStatusPacket, findWebSocketSession
    <2>2. [to |-> f, id |-> stationId_[s]] # None
      BY <1>1, <1>5, <2>1 DEF TypeInv, TypeOK
    <2>3. ASSUME NEW d \in StationId
          PROVE  /\ IsFiniteSet(Called(d)')
                 /\ d # e => Called(d)' = Called(d)
                 /\ d = e => Cardinality(Called(d)') = Cardinality(Called(d)) + 1
      <3> DEFINE c == [to |-> f, id |-> stationId_[s]]
      <3> HIDE DEF c
      <3>1. call' = [call EXCEPT ![s] = c] /\ c # None
        BY <2>1, <2>2 DEF c
      <3> QED  BY <1>1, <3>1, CalledSet DEF Counted
    <2>4. Counted'
      BY <1>3, <2>3 DEF Counted
    <2>5. ASSUME NEW d \in StationId
          PROVE  UnderWay(d)' = UnderWay(d)
      <3>1. CASE d = e
        <4>1. /\ Cardinality(Queued(d)) \in Nat /\ Cardinality(Written(d)) \in Nat
              /\ Len(inbox[d]) \in Nat /\ Cardinality(Called(d)) \in Nat
          BY UnderWayNat
        <4>2. /\ Len(inbox'[d]) = Len(inbox[d]) - 1
              /\ Cardinality(Called(d)') = Cardinality(Called(d)) + 1
              /\ Cardinality(Queued(d)') = Cardinality(Queued(d))
              /\ Cardinality(Written(d)') = Cardinality(Written(d))
          BY <1>2, <1>3, <2>3, <3>1
        <4> QED  BY <4>1, <4>2, SMTT(30) DEF UnderWay
      <3>2. CASE d # e
        BY <1>2, <1>3, <2>3, <3>2 DEF UnderWay
      <3> QED  BY <3>1, <3>2
    <2> QED  BY <1>1, <2>4, <2>5, ServedStutter
  <1> QED  BY <1>4, <1>5

\* A frontend is told of a station it asked for, or has left.
LEMMA ServedNotification ==
    ASSUME TypeInv, AskedInv, Counted, NEW s \in Session, onWeatherStatusNotification(s)
    PROVE  Served
  <1> DEFINE e == device[s]
             f == call[s].to
             a == [of |-> e, id |-> call[s].id, acked |-> reply[s] = "ACK"]
  <1>1. /\ UNCHANGED <<asked, meant, went, todo, device, writes, inbox>>
        /\ e \in StationId /\ f \in Frontend /\ a \in Answer
        /\ call[s] # None /\ call' = [call EXCEPT ![s] = None]
        /\ answers' = answers \/ answers' = [answers EXCEPT ![f] = Append(@, a)]
    <2>1. call[s] # None /\ call[s] \in Notification \cup {None} /\ up[s]
      BY DEF onWeatherStatusNotification, TypeInv, TypeOK, LiveSessions
    <2>2. e \in StationId /\ f \in Frontend /\ call[s].id \in StationId \cup {InvalidId}
      BY <2>1 DEF TypeInv, LiveSessions, Notification
    <2>3. a \in Answer
      BY <2>2 DEF Answer
    <2> QED  BY <2>1, <2>2, <2>3 DEF onWeatherStatusNotification, tcp, wire, request, past
  <1>2. \A d \in StationId : Queued(d)' = Queued(d) /\ Written(d)' = Written(d)
    BY <1>1, CountedFrame
  <1>3. ASSUME NEW d \in StationId
        PROVE  /\ IsFiniteSet(Called(d)')
               /\ d # e => Called(d)' = Called(d)
               /\ d = e => /\ Cardinality(Called(d)) > 0
                           /\ Cardinality(Called(d)') = Cardinality(Called(d)) - 1
    BY <1>1, CalledReset DEF Counted
  <1>4. Counted'
    BY <1>2, <1>3 DEF Counted
  <1>5. ASSUME NEW d \in StationId
        PROVE  UnderWay(d)' = IF d = e THEN UnderWay(d) - 1 ELSE UnderWay(d)
    <2>1. /\ Cardinality(Queued(d)) \in Nat /\ Cardinality(Written(d)) \in Nat
          /\ Len(inbox[d]) \in Nat /\ Cardinality(Called(d)) \in Nat
      BY UnderWayNat
    <2>2. /\ Queued(d)' = Queued(d) /\ Written(d)' = Written(d) /\ inbox' = inbox
          /\ Cardinality(Called(d)') =
                IF d = e THEN Cardinality(Called(d)) - 1 ELSE Cardinality(Called(d))
      BY <1>1, <1>2, <1>3
    <2> HIDE DEF e
    <2> QED  BY <2>1, <2>2 DEF UnderWay
  <1>6. UnderWay(e) > 0
    BY <1>1, <1>3, UnderWayNat DEF UnderWay
  <1>7. CASE answers' = answers
    BY <1>1, <1>4, <1>5, <1>6, <1>7, ServedLose
  <1>8. CASE answers' = [answers EXCEPT ![f] = Append(@, a)]
    <2>1. Service!Occurrences(e, asked[f]) + Service!Occurrences(e, went[f]) > 0
      <3>1. Among(e, asked[f]) \/ Among(e, went[f])
        BY <1>1 DEF AskedInv, Answered, Entitled
      <3>2. asked[f] \in Seq(StationId) /\ went[f] \in Seq(StationId)
        BY <1>1 DEF TypeInv, TypeOK
      <3> QED  BY <3>1, <3>2, OccursOnce
    <2>2. Told' = [Told EXCEPT ![f] = Append(@, e)]
      <3>1. a.of = e
        OBVIOUS
      <3> HIDE DEF a
      <3> QED  BY <1>1, <1>8, <3>1, ToldAppend
    <2>3. Service!Settle(e)
      BY <1>5, <1>6, <1>1, SettleIs
    <2>4. PICK g \in Frontend, d \in StationId : g = f /\ d = e
      BY <1>1
    <2>5. Service!Answer(g, d)
      BY <1>1, <2>1, <2>2, <2>3, <2>4 DEF Service!Answer, Told
    <2> QED  BY <1>4, <2>5, ServedAnswer
  <1> QED  BY <1>1, <1>7, <1>8

\* What is asked is under way from then on.
LEMMA ServedRequest ==
    ASSUME TypeInv, Counted, NEW f \in Frontend, handleWeatherStatusRequest(f)
    PROVE  Served
  <1>1. PICK ids \in Requests :
            nextStation(f, ids) /\ asked' = [asked EXCEPT ![f] = @ \o ids]
    BY DEF handleWeatherStatusRequest
  <1>2. /\ ids \in Seq(StationId) /\ todo[f] = <<>>
        /\ UNCHANGED <<writes, device, inbox, call, answers, meant, went>>
    BY ExchangeAssumption DEF handleWeatherStatusRequest, TypeInv, TypeOK, tcp, wire
  <1>3. ASSUME NEW d \in StationId
        PROVE  /\ IsFiniteSet(Queued(d)') /\ Written(d)' = Written(d) /\ Called(d)' = Called(d)
               /\ Cardinality(Queued(d)') = Cardinality(Queued(d)) + Service!Occurrences(d, ids)
    BY <1>1, <1>2, CountedFrame, QueuedRequest DEF Counted
  <1>4. Counted'
    BY <1>3 DEF Counted
  <1>5. ASSUME NEW d \in StationId
        PROVE  UnderWay(d)' = UnderWay(d) + Service!Occurrences(d, ids)
    <2>1. Service!Occurrences(d, ids) \in Nat
      BY <1>2, OccursOnce
    <2>2. Len(inbox'[d]) = Len(inbox[d])
      BY <1>2
    <2> QED  BY <1>3, <2>1, <2>2, UnderWayNat DEF UnderWay
  <1>6. Told' = Told
    BY <1>2 DEF Told
  <1>7. Service!Ask(f, ids)
    BY <1>1, <1>2, <1>5, <1>6 DEF Service!Ask, Told
  <1>8. Service!Next
    BY <1>7 DEF Service!Next
  <1> QED  BY <1>4, <1>8 DEF Served

\* The request for a station is handed to the session found, be it that of
\* another station, and is lost if none is.
LEMMA ServedWritePacket ==
    ASSUME TypeInv, Counted, NEW f \in Frontend, writePacket(f)
    PROVE  Served
  <1> DEFINE e == Head(todo[f])
             s == ptr[f]
             e2 == device[s]
  <1>1. /\ nextStation(f, Tail(todo[f]))
        /\ UNCHANGED <<asked, answers, device, inbox, call>>
    BY DEF writePacket, tcp
  <1>2. todo[f] # <<>> /\ e \in StationId
    BY DEF writePacket, TypeInv, TypeOK
  <1>3. ASSUME NEW d \in StationId
        PROVE  /\ IsFiniteSet(Queued(d)') /\ Called(d)' = Called(d)
               /\ d # e => Cardinality(Queued(d)') = Cardinality(Queued(d))
               /\ d = e => /\ Cardinality(Queued(d)) > 0
                           /\ Cardinality(Queued(d)') = Cardinality(Queued(d)) - 1
    BY <1>1, <1>2, CountedFrame, QueuedTail DEF Counted
  <1>4. CASE ptr[f] = None
    <2>1. writes' = writes
      BY <1>4 DEF writePacket
    <2>2. \A d \in StationId : Written(d)' = Written(d)
      BY <1>1, <2>1, CountedFrame
    <2>3. Counted'
      BY <1>3, <2>2 DEF Counted
    <2>4. ASSUME NEW d \in StationId
          PROVE  UnderWay(d)' = IF d = e THEN UnderWay(d) - 1 ELSE UnderWay(d)
      BY <1>1, <1>3, <2>2, UnderWayNat DEF UnderWay
    <2>5. UnderWay(e) > 0
      BY <1>2, <1>3, UnderWayNat DEF UnderWay
    <2>6. UNCHANGED <<meant, went>>
      BY <1>4 DEF writePacket
    <2> QED  BY <1>1, <1>2, <2>3, <2>4, <2>5, <2>6, ServedLose
  <1>5. CASE ptr[f] # None
    <2>1. /\ s \in Session /\ e2 \in StationId
          /\ writes' = [writes EXCEPT ![s] = Append(@, f)]
      BY <1>5 DEF writePacket, TypeInv, TypeOK, LiveSessions, HeldPointers
    <2>2. ASSUME NEW d \in StationId
          PROVE  /\ IsFiniteSet(Written(d)')
                 /\ d # e2 => Written(d)' = Written(d)
                 /\ d = e2 => Cardinality(Written(d)') = Cardinality(Written(d)) + 1
      BY <1>1, <2>1, WrittenAppend DEF Counted
    <2>3. Counted'
      BY <1>3, <2>2 DEF Counted
    <2>4. UnderWay(e) > 0
      BY <1>2, <1>3, UnderWayNat DEF UnderWay
    <2>5. CASE e2 = e
      <3>1. ASSUME NEW d \in StationId
            PROVE  UnderWay(d)' = UnderWay(d)
        BY <1>1, <1>3, <2>2, <2>5, UnderWayNat DEF UnderWay
      <3>2. UNCHANGED <<meant, went>>
        BY <2>5 DEF writePacket
      <3> QED  BY <1>1, <2>3, <3>1, <3>2, ServedStutter
    <2>6. CASE e2 # e
      <3>1. ASSUME NEW d \in StationId
            PROVE  UnderWay(d)' = IF d = e THEN UnderWay(d) - 1
                                  ELSE IF d = e2 THEN UnderWay(d) + 1 ELSE UnderWay(d)
        <4>1. /\ Cardinality(Queued(d)) \in Nat /\ Cardinality(Written(d)) \in Nat
              /\ Len(inbox[d]) \in Nat /\ Cardinality(Called(d)) \in Nat
          BY UnderWayNat
        <4> QED  BY <1>1, <1>3, <2>2, <2>6, <4>1 DEF UnderWay
      <3>2. /\ meant' = [meant EXCEPT ![f] = Append(@, e)]
            /\ went' = [went EXCEPT ![f] = Append(@, e2)]
        BY <1>5, <2>6 DEF writePacket
      <3>3. Pending' = [Pending EXCEPT ![e] = @ - 1, ![e2] = @ + 1]
        <4> HIDE DEF e, e2
        <4> QED  BY <1>2, <2>1, <2>6, <3>1 DEF Pending
      <3>4. Told' = Told
        BY <1>1 DEF Told
      <3>5. PICK a \in StationId, b \in StationId : a = e /\ b = e2
        BY <1>2, <2>1
      <3>6. Service!Misdirect(f, a, b)
        BY <1>1, <1>2, <2>4, <2>6, <3>2, <3>3, <3>4, <3>5 DEF Service!Misdirect, Pending, Told
      <3> QED  BY <2>3, <3>6 DEF Served, Service!Next
    <2> QED  BY <2>5, <2>6
  <1> QED  BY <1>4, <1>5

LEMMA ServedStep ==
    TypeInv /\ AskedInv /\ Counted /\ [Next]_vars => Served
  <1> SUFFICES ASSUME TypeInv, AskedInv, Counted, [Next]_vars
               PROVE  Served
    OBVIOUS
  <1>1. ASSUME NEW s \in Session, SessionStep(s)
        PROVE  Served
    <2>1. CASE \/ handleHandshakePacket(s) \/ RefuseHandshake(s) \/ acceptHandshake(s)
               \/ PeerClose(s) \/ ReadError(s) \/ UnknownPacket(s) \/ TimersEnd(s)
               \/ Destroy(s)
      <3>1. UNCHANGED <<asked, meant, went, answers, todo, writes, device, inbox, call>>
        BY <2>1 DEF handleHandshakePacket, RefuseHandshake, acceptHandshake, PeerClose, ReadError,
             UnknownPacket, TimersEnd, Destroy, wire, request, past
      <3> QED  BY <3>1, ServedFrame
    <2> QED  BY <1>1, <2>1, ServedAccept, ServedTransfer, ServedWeather, ServedNotification
             DEF SessionStep
  <1>2. ASSUME NEW f \in Frontend, FrontendStep(f)
        PROVE  Served
    <2>1. CASE \/ findPlainStation(f) \/ lockPlain(f) \/ findSSLStation(f) \/ lockSSL(f)
               \/ FreedRead(f) \/ Left(f)
      <3>1. UNCHANGED <<asked, meant, went, answers, todo, writes, device, inbox, call>>
        BY <2>1 DEF findPlainStation, readEntry, lockPlain, findSSLStation, lockSSL, lock,
             FreedRead, Left, tcp, wire, request, past
      <3> QED  BY <3>1, ServedFrame
    <2> QED  BY <1>2, <2>1, ServedRequest, ServedWritePacket DEF FrontendStep, Lookup
  <1>3. CASE UNCHANGED vars
    BY <1>3, ServedFrame DEF vars, tcp, wire, request, past
  <1> QED  BY <1>1, <1>2, <1>3 DEF Next

LEMMA InitServed == Init => Counted /\ Service!Init
  <1> SUFFICES ASSUME Init
               PROVE  Counted /\ Service!Init
    OBVIOUS
  <1>1. ASSUME NEW d \in StationId
        PROVE  Queued(d) = {} /\ Written(d) = {} /\ Called(d) = {} /\ Len(inbox[d]) = 0
    <2>1. \A x : x \notin Queued(d) /\ x \notin Written(d)
      BY InQueued, InWritten DEF Init
    <2>2. Called(d) = {} /\ Len(inbox[d]) = 0
      BY DEF Init, Called
    <2> QED  BY <2>1, <2>2
  <1>2. Counted
    BY <1>1, FS_EmptySet DEF Counted
  <1>3. ASSUME NEW d \in StationId
        PROVE  UnderWay(d) = 0
    <2>1. /\ Cardinality(Queued(d)) = 0 /\ Cardinality(Written(d)) = 0
          /\ Cardinality(Called(d)) = 0 /\ Len(inbox[d]) = 0
      BY <1>1, FS_EmptySet
    <2> QED  BY <2>1 DEF UnderWay
  <1>4. Told = [f \in Frontend |-> <<>>]
    BY DEF Init, Told
  <1> QED  BY <1>2, <1>3, <1>4 DEF Service!Init, Init, Told

\* The server as a whole gives the frontends what WeatherService promises: every
\* request is under way in one place at a time, is answered at most once and only
\* to a frontend that asked for that station or whose request was led to it, and
\* what is lost is lost for good.
THEOREM ExchangeImplementsService == Spec => ServiceSpec
  <1> DEFINE I == TypeInv /\ DirectoryInv /\ AskedInv /\ Counted
  <1>1. I /\ [Next]_vars => I' /\ [Service!Next]_(Service!vars)
    BY TypeInvStep, DirectoryStep, AskedStep, ServedStep DEF Served
  <1>2. Init => I /\ Service!Init
    BY InitTypeInv, InitDirectoryInv, InitAskedInv, InitServed
  <1> QED  BY <1>1, <1>2, PTL DEF Spec, ServiceSpec, Service!Spec

Promise == INSTANCE WeatherServiceProofs WITH pending <- Pending, told <- Told

\* In numbers: of each station the frontends are told no more often than they
\* asked, but for the requests that were led to it or away from it.
THEOREM AnswersOnce == Spec => []AnsweredAtMostOnce
  <1>1. Requests \subseteq Seq(StationId)
    BY ExchangeAssumption
  <1>2. Promise!Spec => []Promise!AnsweredAtMostOnce
    BY <1>1, Promise!ServiceAnswersOnce
  <1>3. Service!Init => Promise!Init
    BY Zenon DEF Service!Init, Promise!Init, Pending, Told
  <1>4. [Service!Next]_(Service!vars) => [Promise!Next]_(Promise!vars)
    BY Zenon DEF Service!Next, Service!Ask, Service!Answer, Service!Lose, Service!Misdirect, Service!Settle,
         Service!Occurrences, Service!Cardinality, Service!vars,
         Promise!Next, Promise!Ask, Promise!Answer, Promise!Lose, Promise!Misdirect, Promise!Settle,
         Promise!Occurrences, Promise!Cardinality, Promise!vars, Pending, Told
  <1>5. Promise!AnsweredAtMostOnce => AnsweredAtMostOnce
    BY Zenon DEF AnsweredAtMostOnce, Service!AnsweredAtMostOnce, Service!Places,
         Service!Cardinality, Promise!AnsweredAtMostOnce, Promise!Places, Promise!Cardinality,
         Pending, Told
  <1>6. ServiceSpec => Promise!Spec
    BY <1>3, <1>4, PTL DEF ServiceSpec, Service!Spec, Promise!Spec
  <1> QED  BY <1>2, <1>5, <1>6, ExchangeImplementsService, PTL
============================================================================
