------------------------- MODULE WeatherServiceProofs ------------------------
(***************************************************************************)
(* What follows from WeatherService alone, and so for whatever implements  *)
(* it.                                                                     *)
(***************************************************************************)
EXTENDS WeatherService, FiniteSetTheorems, FunctionTheorems, SequenceTheorems, TLAPS

TypeInv ==
    /\ asked \in [Frontend -> Seq(StationId)]
    /\ told \in [Frontend -> Seq(StationId)]
    /\ meant \in [Frontend -> Seq(StationId)]
    /\ went \in [Frontend -> Seq(StationId)]
    /\ pending \in [StationId -> Nat]

\* The places are finitely many, and so can be counted.
FiniteInv ==
    \A d \in StationId :
        /\ IsFiniteSet(Places(d, told)) /\ IsFiniteSet(Places(d, asked))
        /\ IsFiniteSet(Places(d, meant)) /\ IsFiniteSet(Places(d, went))

Inv == TypeInv /\ FiniteInv /\ AnsweredAtMostOnce

LEMMA InPlaces ==
    \A d, lists, x : x \in Places(d, lists) <=>
        \E f \in Frontend : \E n \in DOMAIN lists[f] : x = <<f, n>> /\ lists[f][n] = d
  BY DEF Places

LEMMA PlacesAfter ==
    \A d : /\ Places(d, told)' = Places(d, told') /\ Places(d, asked)' = Places(d, asked')
           /\ Places(d, meant)' = Places(d, meant') /\ Places(d, went)' = Places(d, went')
  BY DEF Places

LEMMA OccurrencesNat ==
    ASSUME NEW ids \in Seq(StationId), NEW d
    PROVE  /\ IsFiniteSet({n \in DOMAIN ids : ids[n] = d})
           /\ Occurrences(d, ids) \in Nat
  <1> DEFINE places == {n \in DOMAIN ids : ids[n] = d}
  <1>1. IsFiniteSet(1..Len(ids)) /\ places \in SUBSET (1..Len(ids))
    BY FS_Interval
  <1> QED  BY <1>1, FS_Subset, FS_CardinalityType DEF Occurrences

\* A list that is longer by some ids has the station in as many places more as
\* it is among them.
LEMMA PlacesConcat ==
    ASSUME NEW lists \in [Frontend -> Seq(StationId)], NEW f \in Frontend,
           NEW ids \in Seq(StationId), NEW d \in StationId, IsFiniteSet(Places(d, lists))
    PROVE  LET longer == [lists EXCEPT ![f] = @ \o ids] IN
           /\ IsFiniteSet(Places(d, longer))
           /\ Cardinality(Places(d, longer))
                 = Cardinality(Places(d, lists)) + Occurrences(d, ids)
  <1> DEFINE longer == [lists EXCEPT ![f] = @ \o ids]
             l == Len(lists[f])
             places == {n \in DOMAIN ids : ids[n] = d}
             new == {<<f, l + n>> : n \in places}
             move == [n \in places |-> <<f, l + n>>]
  <1>1. /\ l \in Nat /\ Len(ids) \in Nat
        /\ DOMAIN lists[f] = 1..l /\ DOMAIN ids = 1..Len(ids)
        /\ longer[f] = lists[f] \o ids
        /\ \A g \in Frontend \ {f} : longer[g] = lists[g]
    OBVIOUS
  <1>2. /\ DOMAIN longer[f] = 1..(l + Len(ids))
        /\ \A n \in 1..l : longer[f][n] = lists[f][n]
        /\ \A n \in 1..Len(ids) : longer[f][l + n] = ids[n]
    BY <1>1, ConcatProperties
  <1>3. \A n : n \in DOMAIN longer[f] /\ longer[f][n] = d <=>
            \/ n \in DOMAIN lists[f] /\ lists[f][n] = d
            \/ \E m \in places : n = l + m
    <2>1. ASSUME NEW n \in DOMAIN longer[f]
          PROVE  n \in 1..l \/ (n - l \in 1..Len(ids) /\ n = l + (n - l))
      BY <1>1, <1>2
    <2>2. \A m \in places : l + m \in DOMAIN longer[f] /\ longer[f][l + m] = d
      BY <1>1, <1>2
    <2>3. ASSUME NEW n \in DOMAIN longer[f], longer[f][n] = d
          PROVE  (n \in DOMAIN lists[f] /\ lists[f][n] = d) \/ \E m \in places : n = l + m
      BY <1>1, <1>2, <2>1, <2>3
    <2>4. \A n \in DOMAIN lists[f] : n \in DOMAIN longer[f] /\ longer[f][n] = lists[f][n]
      BY <1>1, <1>2
    <2> QED  BY <2>2, <2>3, <2>4
  <1>4. Places(d, longer) = Places(d, lists) \cup new
    <2> HIDE DEF longer, places
    <2>1. \A g \in Frontend : \A n :
              n \in DOMAIN longer[g] /\ longer[g][n] = d <=>
                  \/ n \in DOMAIN lists[g] /\ lists[g][n] = d
                  \/ g = f /\ \E m \in places : n = l + m
      BY <1>1, <1>3
    <2>2. \A g \in Frontend : \A n : (g = f /\ \E m \in places : n = l + m) <=> <<g, n>> \in new
      OBVIOUS
    <2>3. \A x \in new : \E g \in Frontend : \E n : x = <<g, n>>
      OBVIOUS
    <2> HIDE DEF new
    <2>4. ASSUME NEW x
          PROVE  x \in Places(d, longer) <=> x \in Places(d, lists) \/ x \in new
      BY <2>1, <2>2, <2>3, InPlaces
    <2> QED  BY <2>4
  <1>5. Places(d, lists) \cap new = {}
    <2>1. \A m \in places : l + m \notin DOMAIN lists[f]
      BY <1>1
    <2> HIDE DEF places
    <2> QED  BY <2>1, InPlaces
  <1>6. IsFiniteSet(new) /\ Cardinality(new) = Occurrences(d, ids)
    <2>1. \A n, m \in places : l + n = l + m => n = m
      BY <1>1
    <2>2. move \in Bijection(places, new)
      <3> HIDE DEF places
      <3>1. move \in [places -> new]
        OBVIOUS
      <3>2. \A n, m \in places : move[n] = move[m] => n = m
        BY <2>1
      <3>3. \A y \in new : \E n \in places : move[n] = y
        OBVIOUS
      <3> QED  BY <3>1, <3>2, <3>3, Fun_IsBij
    <2>3. ExistsBijection(places, new)
      BY <2>2 DEF ExistsBijection
    <2>4. IsFiniteSet(places) /\ Cardinality(places) = Occurrences(d, ids)
      BY OccurrencesNat DEF Occurrences
    <2> HIDE DEF places, new
    <2> QED  BY <2>3, <2>4, FS_Bijection
  <1>7. Cardinality(Places(d, lists) \cap new) = 0
    BY <1>5, FS_EmptySet
  <1> HIDE DEF longer, new
  <1>8. /\ IsFiniteSet(Places(d, lists) \cup new)
        /\ Cardinality(Places(d, lists) \cup new)
              = Cardinality(Places(d, lists)) + Cardinality(new) - 0
    BY <1>6, <1>7, FS_Union
  <1>9. Cardinality(Places(d, lists)) \in Nat /\ Cardinality(new) \in Nat
    BY <1>6, FS_CardinalityType
  <1>10. /\ IsFiniteSet(Places(d, longer))
         /\ Cardinality(Places(d, longer)) = Cardinality(Places(d, lists)) + Occurrences(d, ids)
    BY <1>4, <1>6, <1>8, <1>9
  <1> QED  BY <1>10 DEF longer

\* An answer is one place more.
LEMMA PlacesAppend ==
    ASSUME NEW lists \in [Frontend -> Seq(StationId)], NEW f \in Frontend,
           NEW e \in StationId, NEW d \in StationId, IsFiniteSet(Places(d, lists)),
           NEW after, after = [lists EXCEPT ![f] = Append(@, e)]
    PROVE  /\ IsFiniteSet(Places(d, after))
           /\ Cardinality(Places(d, after))
                 = Cardinality(Places(d, lists)) + (IF d = e THEN 1 ELSE 0)
  <1>1. Append(lists[f], e) = lists[f] \o <<e>> /\ <<e>> \in Seq(StationId)
    BY AppendIsConcat
  <1>2. Occurrences(d, <<e>>) = IF d = e THEN 1 ELSE 0
    <2>1. {n \in DOMAIN <<e>> : <<e>>[n] = d} = IF d = e THEN {1} ELSE {}
      OBVIOUS
    <2> QED  BY <2>1, FS_Singleton, FS_EmptySet DEF Occurrences
  <1>3. after = [lists EXCEPT ![f] = @ \o <<e>>]
    BY <1>1
  <1>4. /\ IsFiniteSet(Places(d, [lists EXCEPT ![f] = @ \o <<e>>]))
        /\ Cardinality(Places(d, [lists EXCEPT ![f] = @ \o <<e>>]))
              = Cardinality(Places(d, lists)) + Occurrences(d, <<e>>)
    BY <1>1, PlacesConcat
  <1> QED  BY <1>2, <1>3, <1>4

\* What is counted of a station is counted in numbers.
LEMMA CountsNat ==
    ASSUME Inv, NEW d \in StationId
    PROVE  /\ Cardinality(Places(d, told)) \in Nat /\ Cardinality(Places(d, asked)) \in Nat
           /\ Cardinality(Places(d, meant)) \in Nat /\ Cardinality(Places(d, went)) \in Nat
           /\ pending[d] \in Nat
           /\ Cardinality(Places(d, told)) + pending[d] + Cardinality(Places(d, meant))
                 <= Cardinality(Places(d, asked)) + Cardinality(Places(d, went))
  <1>1. /\ Cardinality(Places(d, told)) \in Nat /\ Cardinality(Places(d, asked)) \in Nat
        /\ Cardinality(Places(d, meant)) \in Nat /\ Cardinality(Places(d, went)) \in Nat
    BY FS_CardinalityType DEF Inv, FiniteInv
  <1> QED  BY <1>1 DEF Inv, TypeInv, AnsweredAtMostOnce

LEMMA InitInv == Init => Inv
  <1> SUFFICES ASSUME Init
               PROVE  Inv
    OBVIOUS
  <1>1. \A d : /\ Places(d, told) = {} /\ Places(d, asked) = {}
               /\ Places(d, meant) = {} /\ Places(d, went) = {}
    <2>1. \A d, x : /\ x \notin Places(d, told) /\ x \notin Places(d, asked)
                    /\ x \notin Places(d, meant) /\ x \notin Places(d, went)
      BY InPlaces DEF Init
    <2> QED  BY <2>1
  <1>2. FiniteInv
    BY <1>1, FS_EmptySet DEF FiniteInv
  <1>3. AnsweredAtMostOnce
    <2>1. \A d \in StationId : pending[d] = 0
      BY DEF Init
    <2> QED  BY <1>1, <2>1, FS_EmptySet DEF AnsweredAtMostOnce
  <1> QED  BY <1>2, <1>3 DEF Init, Inv, TypeInv

LEMMA AskInv ==
    ASSUME Inv, NEW f \in Frontend, NEW ids \in Seq(StationId), Ask(f, ids)
    PROVE  Inv'
  <1>1. /\ asked' = [asked EXCEPT ![f] = @ \o ids]
        /\ told' = told /\ meant' = meant /\ went' = went
        /\ pending' = [d \in StationId |-> pending[d] + Occurrences(d, ids)]
    BY DEF Ask
  <1>2. \A d \in StationId : Occurrences(d, ids) \in Nat
    BY OccurrencesNat
  <1>3. TypeInv'
    BY <1>1, <1>2 DEF Inv, TypeInv
  <1>4. ASSUME NEW d \in StationId
        PROVE  /\ IsFiniteSet(Places(d, asked'))
               /\ Cardinality(Places(d, asked'))
                     = Cardinality(Places(d, asked)) + Occurrences(d, ids)
    <2>1. asked \in [Frontend -> Seq(StationId)] /\ IsFiniteSet(Places(d, asked))
      BY DEF Inv, TypeInv, FiniteInv
    <2>2. /\ IsFiniteSet(Places(d, [asked EXCEPT ![f] = @ \o ids]))
          /\ Cardinality(Places(d, [asked EXCEPT ![f] = @ \o ids]))
                = Cardinality(Places(d, asked)) + Occurrences(d, ids)
      BY <2>1, PlacesConcat
    <2> QED  BY <1>1, <2>2
  <1>5. FiniteInv'
    BY <1>1, <1>4, PlacesAfter DEF Inv, FiniteInv
  <1>6. ASSUME NEW d \in StationId
        PROVE  Cardinality(Places(d, told')) + pending'[d] + Cardinality(Places(d, meant'))
                   <= Cardinality(Places(d, asked')) + Cardinality(Places(d, went'))
    <2>1. pending'[d] = pending[d] + Occurrences(d, ids) /\ Occurrences(d, ids) \in Nat
      BY <1>1, <1>2
    <2>2. /\ Cardinality(Places(d, told')) = Cardinality(Places(d, told))
          /\ Cardinality(Places(d, meant')) = Cardinality(Places(d, meant))
          /\ Cardinality(Places(d, went')) = Cardinality(Places(d, went))
      BY <1>1
    <2> QED  BY <1>4, <2>1, <2>2, CountsNat
  <1> QED  BY <1>3, <1>5, <1>6, PlacesAfter DEF Inv, AnsweredAtMostOnce

LEMMA SettleInv ==
    ASSUME Inv, NEW e \in StationId, Lose(e) \/ \E f \in Frontend : Answer(f, e)
    PROVE  Inv'
  <1>1. /\ asked' = asked /\ meant' = meant /\ went' = went /\ pending[e] > 0
        /\ pending' = [pending EXCEPT ![e] = @ - 1]
    BY DEF Answer, Lose, Settle
  <1>2. /\ pending[e] \in Nat /\ pending'[e] = pending[e] - 1
        /\ \A d \in StationId \ {e} : pending'[d] = pending[d]
    BY <1>1 DEF Inv, TypeInv
  <1>3. told' = told \/ \E f \in Frontend : told' = [told EXCEPT ![f] = Append(@, e)]
    BY DEF Answer, Lose
  <1>4. TypeInv'
    <2>1. told' \in [Frontend -> Seq(StationId)]
      <3>1. CASE told' = told
        BY <3>1 DEF Inv, TypeInv
      <3>2. ASSUME NEW f \in Frontend, told' = [told EXCEPT ![f] = Append(@, e)]
            PROVE  told' \in [Frontend -> Seq(StationId)]
        <4>1. Append(told[f], e) \in Seq(StationId)
          BY DEF Inv, TypeInv
        <4> QED  BY <3>2, <4>1 DEF Inv, TypeInv
      <3> QED  BY <1>3, <3>1, <3>2
    <2>2. pending' \in [StationId -> Nat]
      BY <1>1, <1>2 DEF Inv, TypeInv
    <2> QED  BY <1>1, <2>1, <2>2 DEF Inv, TypeInv
  <1>5. ASSUME NEW d \in StationId
        PROVE  /\ IsFiniteSet(Places(d, told'))
               /\ Cardinality(Places(d, told'))
                     <= Cardinality(Places(d, told)) + (IF d = e THEN 1 ELSE 0)
    <2>1. IsFiniteSet(Places(d, told)) /\ Cardinality(Places(d, told)) \in Nat
      BY FS_CardinalityType DEF Inv, FiniteInv
    <2>2. CASE told' = told
      BY <2>1, <2>2
    <2>3. ASSUME NEW f \in Frontend, told' = [told EXCEPT ![f] = Append(@, e)]
          PROVE  /\ IsFiniteSet(Places(d, told'))
                 /\ Cardinality(Places(d, told'))
                       <= Cardinality(Places(d, told)) + (IF d = e THEN 1 ELSE 0)
      <3>1. Cardinality(Places(d, told')) = Cardinality(Places(d, told)) + (IF d = e THEN 1 ELSE 0)
            /\ IsFiniteSet(Places(d, told'))
        <4>1. told \in [Frontend -> Seq(StationId)]
          BY DEF Inv, TypeInv
        <4>2. \A after : after = [told EXCEPT ![f] = Append(@, e)] =>
                 /\ IsFiniteSet(Places(d, after))
                 /\ Cardinality(Places(d, after))
                       = Cardinality(Places(d, told)) + (IF d = e THEN 1 ELSE 0)
          BY <2>1, <4>1, PlacesAppend, ZenonT(40)
        <4> QED  BY <2>3, <4>2
      <3> QED  BY <2>1, <3>1
    <2> QED  BY <1>3, <2>2, <2>3
  <1>6. FiniteInv'
    BY <1>1, <1>5, PlacesAfter DEF Inv, FiniteInv
  <1>7. ASSUME NEW d \in StationId
        PROVE  Cardinality(Places(d, told')) + pending'[d] + Cardinality(Places(d, meant'))
                   <= Cardinality(Places(d, asked')) + Cardinality(Places(d, went'))
    <2>1. Cardinality(Places(d, told')) \in Nat
      BY <1>5, FS_CardinalityType
    <2>2. pending'[d] = pending[d] - (IF d = e THEN 1 ELSE 0)
      BY <1>2, CountsNat
    <2>3. /\ Cardinality(Places(d, asked')) = Cardinality(Places(d, asked))
          /\ Cardinality(Places(d, meant')) = Cardinality(Places(d, meant))
          /\ Cardinality(Places(d, went')) = Cardinality(Places(d, went))
      BY <1>1
    <2> QED  BY <1>5, <2>1, <2>2, <2>3, CountsNat
  <1> QED  BY <1>4, <1>6, <1>7, PlacesAfter DEF Inv, AnsweredAtMostOnce

\* A request led astray is one place more on either side, and its answer is owed by
\* another station.
LEMMA MisdirectInv ==
    ASSUME Inv, NEW f \in Frontend, NEW d \in StationId, NEW e \in StationId,
           Misdirect(f, d, e)
    PROVE  Inv'
  <1>1. /\ asked' = asked /\ told' = told /\ d # e /\ pending[d] > 0
        /\ pending' = [pending EXCEPT ![d] = @ - 1, ![e] = @ + 1]
        /\ meant' = [meant EXCEPT ![f] = Append(@, d)]
        /\ went' = [went EXCEPT ![f] = Append(@, e)]
    BY DEF Misdirect
  <1>2. /\ pending \in [StationId -> Nat] /\ meant \in [Frontend -> Seq(StationId)]
        /\ went \in [Frontend -> Seq(StationId)]
    BY DEF Inv, TypeInv
  <1>3. \A x \in StationId : pending'[x] =
            pending[x] + (IF x = e THEN 1 ELSE 0) - (IF x = d THEN 1 ELSE 0)
    BY <1>1, <1>2
  <1>4. TypeInv'
    <2>1. pending' \in [StationId -> Nat]
      BY <1>1, <1>2
    <2>2. Append(meant[f], d) \in Seq(StationId) /\ Append(went[f], e) \in Seq(StationId)
      BY <1>2
    <2>3. /\ meant' \in [Frontend -> Seq(StationId)]
          /\ went' \in [Frontend -> Seq(StationId)]
      BY <1>1, <1>2, <2>2
    <2> QED  BY <1>1, <2>1, <2>3 DEF Inv, TypeInv
  <1>5. ASSUME NEW x \in StationId
        PROVE  /\ IsFiniteSet(Places(x, meant')) /\ IsFiniteSet(Places(x, went'))
               /\ Cardinality(Places(x, meant'))
                     = Cardinality(Places(x, meant)) + (IF x = d THEN 1 ELSE 0)
               /\ Cardinality(Places(x, went'))
                     = Cardinality(Places(x, went)) + (IF x = e THEN 1 ELSE 0)
    <2>1. IsFiniteSet(Places(x, meant)) /\ IsFiniteSet(Places(x, went))
      BY DEF Inv, FiniteInv
    <2>2. \A after : after = [meant EXCEPT ![f] = Append(@, d)] =>
             /\ IsFiniteSet(Places(x, after))
             /\ Cardinality(Places(x, after))
                   = Cardinality(Places(x, meant)) + (IF x = d THEN 1 ELSE 0)
      BY <1>2, <2>1, PlacesAppend, ZenonT(40)
    <2>3. \A after : after = [went EXCEPT ![f] = Append(@, e)] =>
             /\ IsFiniteSet(Places(x, after))
             /\ Cardinality(Places(x, after))
                   = Cardinality(Places(x, went)) + (IF x = e THEN 1 ELSE 0)
      BY <1>2, <2>1, PlacesAppend, ZenonT(40)
    <2> QED  BY <1>1, <2>2, <2>3
  <1>6. FiniteInv'
    BY <1>1, <1>5, PlacesAfter DEF Inv, FiniteInv
  <1>7. ASSUME NEW x \in StationId
        PROVE  Cardinality(Places(x, told')) + pending'[x] + Cardinality(Places(x, meant'))
                   <= Cardinality(Places(x, asked')) + Cardinality(Places(x, went'))
    <2>1. /\ Cardinality(Places(x, told')) = Cardinality(Places(x, told))
          /\ Cardinality(Places(x, asked')) = Cardinality(Places(x, asked))
      BY <1>1
    <2> QED  BY <1>3, <1>5, <2>1, CountsNat
  <1> QED  BY <1>4, <1>6, <1>7, PlacesAfter DEF Inv, AnsweredAtMostOnce

\* No request is answered twice: what the frontends have been told of a station,
\* what the station owes and what was led away from it is no more than they asked
\* for and was led to it.
THEOREM ServiceAnswersOnce ==
    ASSUME Requests \subseteq Seq(StationId)
    PROVE  Spec => []AnsweredAtMostOnce
  <1>1. Inv /\ [Next]_vars => Inv'
    <2> SUFFICES ASSUME Inv, [Next]_vars
                 PROVE  Inv'
      OBVIOUS
    <2>1. ASSUME NEW f \in Frontend, NEW ids \in Requests, Ask(f, ids)
          PROVE  Inv'
      BY <2>1, AskInv
    <2>2. ASSUME NEW f \in Frontend, NEW d \in StationId, Answer(f, d)
          PROVE  Inv'
      BY <2>2, SettleInv
    <2>3. ASSUME NEW d \in StationId, Lose(d)
          PROVE  Inv'
      BY <2>3, SettleInv
    <2>4. ASSUME NEW f \in Frontend, NEW d \in StationId, NEW e \in StationId,
                 Misdirect(f, d, e)
          PROVE  Inv'
      BY <2>4, MisdirectInv
    <2>5. CASE UNCHANGED vars
      BY <2>5, PlacesAfter DEF vars, Inv, TypeInv, FiniteInv, AnsweredAtMostOnce
    <2> QED  BY <2>1, <2>2, <2>3, <2>4, <2>5 DEF Next
  <1>2. Inv => AnsweredAtMostOnce
    BY DEF Inv
  <1> QED  BY InitInv, <1>1, <1>2, PTL DEF Spec
============================================================================
