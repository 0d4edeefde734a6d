---------------------------- MODULE SandboxProofs ----------------------------
(***************************************************************************)
(* A container of the sandbox pool has one owner and the pool keeps to its *)
(* limits (SandboxPool), for any number of keys, containers, requests and  *)
(* replenishments, and any limits, crashes and lost answers.               *)
(*                                                                         *)
(* The argument: every step hands a container from one holder to another,  *)
(* and what is created was held by nobody.                                 *)
(***************************************************************************)
EXTENDS SandboxPool, FiniteSetTheorems, TLAPS

(***************************************************************************)
(* Slots hold each container once, no container twice, and the eviction    *)
(* order lists the keys of the pool once each.                             *)
(***************************************************************************)
WarmShape ==
    /\ DOMAIN warm \subseteq Keys
    /\ \A k \in DOMAIN warm :
          /\ warm[k] \in Seq(Containers) /\ Len(warm[k]) <= MaxWarm /\ IsInjective(warm[k])
          /\ \A l \in DOMAIN warm : k # l => Elements(warm[k]) \cap Elements(warm[l]) = {}
    /\ keyOrder \in Seq(Keys) /\ IsInjective(keyOrder) /\ Len(keyOrder) <= MaxKeys
    /\ Elements(keyOrder) = DOMAIN warm
    /\ closed => warm = <<>>

Made == [key : Keys, id : Containers, by : {"replenish", "warm"}, ready : BOOLEAN]

FreshShape ==
    /\ fresh \subseteq Made /\ removing \subseteq Containers /\ warmTodo \in Seq(Keys)
    /\ \A f, g \in fresh : f.id = g.id => f = g

Holding == {"check", "attach", "wait", "leave"}
RequestRecords ==
    {Idle} \cup [at : {"create", "acquire"}, key : Keys] \cup Waits
    \cup [at : {"check", "attach"}, key : Keys, id : Containers]
    \cup [at : {"leave"}, id : Containers]

RequestShape ==
    /\ DOMAIN request = Requests
    /\ \A r \in Requests : request[r] \in RequestRecords
    /\ \A r, q \in Requests :
          request[r].at \in Holding /\ request[q].at \in Holding
             /\ request[r].id = request[q].id => r = q

(***************************************************************************)
(* The four kinds of holders share nothing, and hold what the daemon has.  *)
(***************************************************************************)
FreshIds == {f.id : f \in fresh}

Apart ==
    /\ Pooled \cap FreshIds = {} /\ Pooled \cap removing = {} /\ Pooled \cap InUse = {}
    /\ FreshIds \cap removing = {} /\ FreshIds \cap InUse = {} /\ removing \cap InUse = {}

Accounted == exists \ strays \subseteq Held

PoolInvariant == WarmShape /\ FreshShape /\ RequestShape /\ Apart /\ Accounted

-----------------------------------------------------------------------------
(***************************************************************************)
(* Sequences without repetitions.                                          *)
(***************************************************************************)
LEMMA TailIsRest ==
    ASSUME NEW S, NEW s \in Seq(S), s # <<>>, IsInjective(s)
    PROVE  /\ Tail(s) \in Seq(S) /\ Len(Tail(s)) = Len(s) - 1 /\ Len(s) \in Nat /\ Len(s) > 0
           /\ IsInjective(Tail(s))
           /\ Head(s) \in Elements(s) /\ Elements(Tail(s)) = Elements(s) \ {Head(s)}
<1>1. /\ Len(s) \in Nat /\ Len(s) > 0 /\ DOMAIN s = 1 .. Len(s) /\ Head(s) = s[1]
      /\ Tail(s) \in Seq(S) /\ Len(Tail(s)) = Len(s) - 1 /\ DOMAIN Tail(s) = 1 .. Len(s) - 1
      /\ \A i \in 1 .. Len(s) - 1 : Tail(s)[i] = s[i + 1]
  OBVIOUS
<1>2. IsInjective(Tail(s))
  BY <1>1 DEF IsInjective
<1>3. ASSUME NEW x \in Elements(s), x # s[1] PROVE x \in Elements(Tail(s))
  <2>1. PICK i \in 1 .. Len(s) : x = s[i]
    BY <1>1 DEF Elements
  <2>2. i - 1 \in 1 .. Len(s) - 1 /\ Tail(s)[i - 1] = x
    BY <1>1, <1>3, <2>1
  <2> QED
    BY <1>1, <2>2 DEF Elements
<1>4. ASSUME NEW i \in 1 .. Len(s) - 1 PROVE s[i + 1] \in Elements(s) /\ s[i + 1] # s[1]
  <2>1. i + 1 \in 1 .. Len(s) /\ 1 \in 1 .. Len(s) /\ i + 1 # 1
    BY <1>1
  <2> QED
    BY <1>1, <2>1 DEF Elements, IsInjective
<1>5. \A x \in Elements(Tail(s)) : x \in Elements(s) /\ x # s[1]
  BY <1>1, <1>4 DEF Elements
<1>6. s[1] \in Elements(s)
  <2>1. 1 \in DOMAIN s
    BY <1>1
  <2> QED
    BY <2>1 DEF Elements
<1> QED
  BY <1>1, <1>2, <1>3, <1>5, <1>6

LEMMA AppendIsMore ==
    ASSUME NEW S, NEW s \in Seq(S), NEW e \in S, IsInjective(s), e \notin Elements(s)
    PROVE  /\ Append(s, e) \in Seq(S) /\ Len(Append(s, e)) = Len(s) + 1 /\ Len(s) \in Nat
           /\ IsInjective(Append(s, e)) /\ Elements(Append(s, e)) = Elements(s) \cup {e}
<1>1. /\ Len(s) \in Nat /\ DOMAIN s = 1 .. Len(s)
      /\ Append(s, e) \in Seq(S) /\ Len(Append(s, e)) = Len(s) + 1
      /\ DOMAIN Append(s, e) = 1 .. Len(s) + 1
      /\ \A i \in 1 .. Len(s) : Append(s, e)[i] = s[i]
      /\ Append(s, e)[Len(s) + 1] = e
  OBVIOUS
<1>2. \A i \in 1 .. Len(s) : s[i] \in Elements(s) /\ s[i] # e
  BY <1>1 DEF Elements
<1>3. IsInjective(Append(s, e))
  <2>1. SUFFICES ASSUME NEW i \in 1 .. Len(s) + 1, NEW j \in 1 .. Len(s) + 1,
                        Append(s, e)[i] = Append(s, e)[j]
                 PROVE  i = j
    BY <1>1 DEF IsInjective
  <2>2. i \in 1 .. Len(s) \/ i = Len(s) + 1
    BY <1>1
  <2>3. j \in 1 .. Len(s) \/ j = Len(s) + 1
    BY <1>1
  <2> QED
    BY <1>1, <1>2, <2>1, <2>2, <2>3 DEF IsInjective
<1>4. Elements(Append(s, e)) \subseteq Elements(s) \cup {e}
  <2>1. SUFFICES ASSUME NEW i \in 1 .. Len(s) + 1
                 PROVE  Append(s, e)[i] \in Elements(s) \cup {e}
    BY <1>1 DEF Elements
  <2>2. i \in 1 .. Len(s) \/ i = Len(s) + 1
    BY <1>1
  <2> QED
    BY <1>1, <1>2, <2>2
<1>5. Elements(s) \cup {e} \subseteq Elements(Append(s, e))
  <2>1. Len(s) + 1 \in 1 .. Len(s) + 1 /\ \A i \in 1 .. Len(s) : i \in 1 .. Len(s) + 1
    BY <1>1
  <2> QED
    BY <1>1, <2>1 DEF Elements
<1> QED
  BY <1>1, <1>3, <1>4, <1>5

LEMMA DistinctCounts ==
    ASSUME NEW S, NEW s \in Seq(S), IsInjective(s)
    PROVE  IsFiniteSet(Elements(s)) /\ Cardinality(Elements(s)) = Len(s)
<1>1. Len(s) \in Nat /\ DOMAIN s = 1 .. Len(s)
  OBVIOUS
<1>2. s \in Bijection(1 .. Len(s), Elements(s))
  <2>1. s \in [1 .. Len(s) -> Elements(s)]
    BY <1>1 DEF Elements
  <2>2. \A x \in Elements(s) : \E i \in 1 .. Len(s) : s[i] = x
    BY <1>1 DEF Elements
  <2>3. \A i, j \in 1 .. Len(s) : s[i] = s[j] => i = j
    BY <1>1 DEF IsInjective
  <2> QED
    BY <2>1, <2>2, <2>3 DEF Bijection, Injection, Surjection, IsInjective
<1>3. IsFiniteSet(1 .. Len(s)) /\ Cardinality(1 .. Len(s)) = Len(s)
  <2>1. /\ IsFiniteSet(1 .. Len(s))
        /\ Cardinality(1 .. Len(s)) = IF 1 > Len(s) THEN 0 ELSE Len(s) - 1 + 1
    BY <1>1, FS_Interval
  <2> QED
    BY <1>1, <2>1
<1> QED
  BY <1>2, <1>3, FS_Bijection DEF ExistsBijection

\* A key that is touched moves to the end of the order.
LEMMA TouchReorders ==
    ASSUME WarmShape, NEW k \in DOMAIN warm
    PROVE  /\ TouchKey(k) \in Seq(Keys) /\ IsInjective(TouchKey(k))
           /\ Len(TouchKey(k)) = Len(keyOrder) /\ Elements(TouchKey(k)) = DOMAIN warm
<1>1. /\ keyOrder \in Seq(Keys) /\ IsInjective(keyOrder) /\ Elements(keyOrder) = DOMAIN warm
      /\ k \in Keys /\ k \in Elements(keyOrder)
  BY DEF WarmShape
<1>2. PICK n \in Nat : n = Len(keyOrder) /\ DOMAIN keyOrder = 1 .. n
  BY <1>1
<1>3. PICK p : p = CHOOSE i \in DOMAIN keyOrder : keyOrder[i] = k
  OBVIOUS
<1>4. p \in 1 .. n /\ keyOrder[p] = k
  BY <1>1, <1>2, <1>3 DEF Elements
<1>5. PICK rest : rest = [i \in 1 .. n - 1 |-> keyOrder[IF i < p THEN i ELSE i + 1]]
  OBVIOUS
<1>6. TouchKey(k) = Append(rest, k)
  BY <1>1, <1>2, <1>3, <1>5 DEF TouchKey
<1>7. \A i \in 1 .. n - 1 : (IF i < p THEN i ELSE i + 1) \in (1 .. n) \ {p}
  BY <1>2, <1>4
<1>8. rest \in Seq(Keys) /\ Len(rest) = n - 1 /\ DOMAIN rest = 1 .. n - 1
  <2>1. \A i \in 1 .. n : keyOrder[i] \in Keys
    BY <1>1, <1>2
  <2>2. n - 1 \in Nat /\ rest \in [1 .. n - 1 -> Keys]
    BY <1>2, <1>4, <1>5, <1>7, <2>1
  <2> QED
    BY <2>2
<1>9. IsInjective(rest)
  <2>1. SUFFICES ASSUME NEW i \in 1 .. n - 1, NEW j \in 1 .. n - 1, rest[i] = rest[j]
                 PROVE  i = j
    BY <1>8 DEF IsInjective
  <2>2. (IF i < p THEN i ELSE i + 1) = (IF j < p THEN j ELSE j + 1)
    BY <1>1, <1>2, <1>5, <1>7, <2>1 DEF IsInjective
  <2> QED
    BY <1>4, <2>2
<1>10. Elements(rest) = Elements(keyOrder) \ {k}
  <2>1. ASSUME NEW i \in 1 .. n - 1 PROVE rest[i] \in Elements(keyOrder) \ {k}
    <3>1. PICK j \in (1 .. n) \ {p} : rest[i] = keyOrder[j]
      BY <1>5, <1>7
    <3> QED
      BY <1>1, <1>2, <1>4, <3>1 DEF Elements, IsInjective
  <2>2. ASSUME NEW x \in Elements(keyOrder), x # k PROVE x \in Elements(rest)
    <3>1. PICK j \in 1 .. n : keyOrder[j] = x
      BY <1>2 DEF Elements
    <3>2. j # p
      BY <1>4, <2>2, <3>1
    <3>3. CASE j < p
      <4>1. j \in 1 .. n - 1 /\ rest[j] = x
        BY <1>2, <1>4, <1>5, <3>1, <3>3
      <4> QED
        BY <1>8, <4>1 DEF Elements
    <3>4. CASE j > p
      <4>1. j - 1 \in 1 .. n - 1 /\ ~(j - 1 < p) /\ j - 1 + 1 = j
        BY <1>2, <1>4, <3>4
      <4>2. rest[j - 1] = x
        BY <1>5, <3>1, <4>1
      <4> QED
        BY <1>8, <4>1, <4>2 DEF Elements
    <3> QED
      BY <1>4, <3>2, <3>3, <3>4
  <2> QED
    BY <1>8, <2>1, <2>2 DEF Elements
<1>11. /\ Append(rest, k) \in Seq(Keys) /\ Len(Append(rest, k)) = n - 1 + 1
       /\ IsInjective(Append(rest, k)) /\ Elements(Append(rest, k)) = Elements(rest) \cup {k}
  BY <1>1, <1>8, <1>9, <1>10, AppendIsMore
<1>12. Elements(rest) \cup {k} = DOMAIN warm
  BY <1>1, <1>10
<1>13. Len(TouchKey(k)) = Len(keyOrder)
  BY <1>2, <1>6, <1>11
<1> QED
  BY <1>6, <1>11, <1>12, <1>13

-----------------------------------------------------------------------------
(***************************************************************************)
(* What the operations on the pool do to the set of pooled containers.     *)
(***************************************************************************)
LEMMA TakesKeeps ==
    ASSUME WarmShape, NEW k, Slot(k) # <<>>, TakesHead(k), UNCHANGED closed
    PROVE  /\ WarmShape' /\ k \in Keys
           /\ Head(Slot(k)) \in Pooled /\ Head(Slot(k)) \in Containers
           /\ Pooled' = Pooled \ {Head(Slot(k))}
<1>1. k \in DOMAIN warm /\ Slot(k) = warm[k]
  BY DEF Slot
<1>2. k \in Keys /\ warm[k] \in Seq(Containers) /\ IsInjective(warm[k]) /\ warm[k] # <<>>
      /\ Len(warm[k]) <= MaxWarm
  BY <1>1 DEF WarmShape
<1>3. PICK c : c = Head(warm[k])
  OBVIOUS
<1>4. /\ Tail(warm[k]) \in Seq(Containers) /\ Len(Tail(warm[k])) = Len(warm[k]) - 1
      /\ Len(warm[k]) \in Nat /\ Len(warm[k]) > 0 /\ IsInjective(Tail(warm[k]))
      /\ c \in Elements(warm[k]) /\ Elements(Tail(warm[k])) = Elements(warm[k]) \ {c}
  BY <1>2, <1>3, TailIsRest
<1>5. c \in Containers /\ Len(Tail(warm[k])) <= MaxWarm
  BY <1>2, <1>3, <1>4, PoolLimits
<1>6. /\ DOMAIN warm' = DOMAIN warm /\ warm'[k] = Tail(warm[k])
      /\ \A l \in DOMAIN warm : l # k => warm'[l] = warm[l]
  BY <1>1 DEF TakesHead
<1>7. /\ Elements(warm'[k]) = Elements(warm[k]) \ {c}
      /\ \A l \in DOMAIN warm : l # k => Elements(warm'[l]) = Elements(warm[l])
      /\ \A l \in DOMAIN warm : l # k => Elements(warm[k]) \cap Elements(warm[l]) = {}
  BY <1>1, <1>4, <1>6 DEF WarmShape
<1>8. /\ keyOrder' \in Seq(Keys) /\ IsInjective(keyOrder') /\ Len(keyOrder') <= MaxKeys
      /\ Elements(keyOrder') = DOMAIN warm
  BY <1>1, TouchReorders DEF TakesHead, WarmShape
<1>9. ~closed
  BY <1>1 DEF WarmShape
<1>10. \A l \in DOMAIN warm :
          /\ warm'[l] \in Seq(Containers) /\ Len(warm'[l]) <= MaxWarm /\ IsInjective(warm'[l])
          /\ \A m \in DOMAIN warm : l # m => Elements(warm'[l]) \cap Elements(warm'[m]) = {}
  <2>1. \A l \in DOMAIN warm :
           warm'[l] \in Seq(Containers) /\ Len(warm'[l]) <= MaxWarm /\ IsInjective(warm'[l])
    BY <1>4, <1>5, <1>6 DEF WarmShape
  <2>2. \A l, m \in DOMAIN warm : l # m => Elements(warm[l]) \cap Elements(warm[m]) = {}
    BY DEF WarmShape
  <2>3. \A l \in DOMAIN warm : Elements(warm'[l]) \subseteq Elements(warm[l])
    BY <1>7
  <2> QED
    BY <2>1, <2>2, <2>3
<1>11. WarmShape'
  <2>1. DOMAIN warm' \subseteq Keys
    BY <1>6 DEF WarmShape
  <2> QED
    BY <1>6, <1>8, <1>9, <1>10, <2>1 DEF WarmShape
<1>12. Pooled' = Pooled \ {c}
  <2>1. ASSUME NEW x PROVE x \in Pooled' <=> x \in Pooled \ {c}
    <3>1. x \in Pooled' <=> \E l \in DOMAIN warm : x \in Elements(warm'[l])
      BY <1>6 DEF Pooled
    <3>2. x \in Pooled <=> \E l \in DOMAIN warm : x \in Elements(warm[l])
      BY DEF Pooled
    <3> QED
      BY <1>1, <1>4, <1>7, <3>1, <3>2
  <2> QED
    BY <2>1
<1>13. c \in Pooled
  BY <1>1, <1>4 DEF Pooled
<1> QED
  BY <1>1, <1>2, <1>3, <1>5, <1>11, <1>12, <1>13

\* What a key's slot becomes, and the order, when a container is added.
LEMMA AddKeeps ==
    ASSUME WarmShape, NEW k \in Keys, NEW c \in Containers, c \notin Pooled, ~Refuses(k),
           AddToKey(k, c), UNCHANGED closed
    PROVE  /\ WarmShape' /\ Victims(k) \subseteq Pooled /\ Victims(k) \subseteq Containers
           /\ Pooled' = (Pooled \ Victims(k)) \cup {c}
<1>1. ~closed /\ ~(Len(Slot(k)) >= MaxWarm)
  BY DEF Refuses
<1>2. /\ Slot(k) \in Seq(Containers) /\ IsInjective(Slot(k)) /\ Len(Slot(k)) \in Nat
      /\ Elements(Slot(k)) \subseteq Pooled
      /\ k \in DOMAIN warm => Elements(Slot(k)) = Elements(warm[k])
      /\ k \notin DOMAIN warm => Elements(Slot(k)) = {}
  <2>1. CASE k \in DOMAIN warm
    BY <2>1 DEF WarmShape, Slot, Pooled
  <2>2. CASE k \notin DOMAIN warm
    BY <2>2 DEF Slot, Elements, IsInjective
  <2> QED
    BY <2>1, <2>2
<1>3. /\ Append(Slot(k), c) \in Seq(Containers) /\ IsInjective(Append(Slot(k), c))
      /\ Len(Append(Slot(k), c)) = Len(Slot(k)) + 1
      /\ Elements(Append(Slot(k), c)) = Elements(Slot(k)) \cup {c}
  BY <1>2, AppendIsMore
<1>4. Len(Append(Slot(k), c)) <= MaxWarm
  BY <1>1, <1>2, <1>3, PoolLimits
<1>5. PICK evicted : evicted = IF Evicts(k) THEN {Head(keyOrder)} ELSE {}
  OBVIOUS
<1>6. /\ DOMAIN warm' = (DOMAIN warm \ evicted) \cup {k}
      /\ warm'[k] = Append(Slot(k), c)
      /\ \A l \in DOMAIN warm \ evicted : l # k => warm'[l] = warm[l]
      /\ keyOrder' = IF k \in DOMAIN warm THEN keyOrder
                     ELSE Append(IF Evicts(k) THEN Tail(keyOrder) ELSE keyOrder, k)
  BY <1>5 DEF AddToKey
<1>7. /\ keyOrder \in Seq(Keys) /\ IsInjective(keyOrder) /\ Len(keyOrder) <= MaxKeys
      /\ Elements(keyOrder) = DOMAIN warm /\ Len(keyOrder) \in Nat
  BY DEF WarmShape
<1>8. /\ keyOrder' \in Seq(Keys) /\ IsInjective(keyOrder') /\ Len(keyOrder') <= MaxKeys
      /\ Elements(keyOrder') = (DOMAIN warm \ evicted) \cup {k}
      /\ evicted \subseteq DOMAIN warm
  <2>1. CASE k \in DOMAIN warm
    BY <1>5, <1>6, <1>7, <2>1 DEF Evicts
  <2>2. CASE k \notin DOMAIN warm /\ ~Evicts(k)
    <3>1. Len(keyOrder) < MaxKeys
      BY <1>7, <2>2, PoolLimits DEF Evicts
    <3>2. /\ keyOrder' = Append(keyOrder, k) /\ evicted = {}
          /\ Append(keyOrder, k) \in Seq(Keys) /\ IsInjective(Append(keyOrder, k))
          /\ Len(Append(keyOrder, k)) = Len(keyOrder) + 1
          /\ Elements(Append(keyOrder, k)) = Elements(keyOrder) \cup {k}
      BY <1>5, <1>6, <1>7, <2>2, AppendIsMore
    <3>3. Len(keyOrder') <= MaxKeys
      BY <1>7, <3>1, <3>2, PoolLimits
    <3> QED
      BY <1>7, <3>2, <3>3
  <2>3. CASE Evicts(k)
    <3>1. k \notin DOMAIN warm /\ Len(keyOrder) >= MaxKeys /\ keyOrder # <<>>
          /\ evicted = {Head(keyOrder)}
      BY <1>5, <1>7, <2>3, PoolLimits DEF Evicts
    <3>2. /\ Tail(keyOrder) \in Seq(Keys) /\ Len(Tail(keyOrder)) = Len(keyOrder) - 1
          /\ IsInjective(Tail(keyOrder))
          /\ Head(keyOrder) \in Elements(keyOrder)
          /\ Elements(Tail(keyOrder)) = Elements(keyOrder) \ {Head(keyOrder)}
      BY <1>7, <3>1, TailIsRest
    <3>3. k \notin Elements(Tail(keyOrder))
      BY <1>7, <3>1, <3>2
    <3>4. PICK rest \in Seq(Keys) :
             rest = Tail(keyOrder) /\ IsInjective(rest) /\ k \notin Elements(rest)
      BY <3>2, <3>3
    <3>5. /\ Append(rest, k) \in Seq(Keys) /\ IsInjective(Append(rest, k))
          /\ Len(Append(rest, k)) = Len(rest) + 1
          /\ Elements(Append(rest, k)) = Elements(rest) \cup {k}
      <4>1. rest \in Seq(Keys) /\ k \in Keys /\ IsInjective(rest) /\ k \notin Elements(rest)
        BY <1>5, <3>4
      <4> QED
        BY <4>1, AppendIsMore, Zenon
    <3>6. keyOrder' = Append(rest, k)
      BY <1>6, <2>3, <3>1, <3>4
    <3>7. Len(keyOrder') <= MaxKeys
      BY <1>7, <3>2, <3>4, <3>5, <3>6, PoolLimits
    <3> QED
      BY <1>7, <3>1, <3>2, <3>4, <3>5, <3>6, <3>7
  <2> QED
    BY <2>1, <2>2, <2>3
<1>9. \A l, m \in DOMAIN warm : l # m => Elements(warm[l]) \cap Elements(warm[m]) = {}
  BY DEF WarmShape
<1>10. \A l \in DOMAIN warm : Elements(warm[l]) \subseteq Pooled
  BY DEF Pooled
<1>11. /\ Elements(warm'[k]) = Elements(Slot(k)) \cup {c}
       /\ \A l \in DOMAIN warm \ evicted : l # k => Elements(warm'[l]) = Elements(warm[l])
  BY <1>3, <1>6
<1>12. k \notin evicted
  BY <1>5, <1>7, <1>8 DEF Evicts
<1>13. \A l \in DOMAIN warm' :
          warm'[l] \in Seq(Containers) /\ Len(warm'[l]) <= MaxWarm /\ IsInjective(warm'[l])
  BY <1>3, <1>4, <1>6 DEF WarmShape
<1>14. ASSUME NEW l \in DOMAIN warm', NEW m \in DOMAIN warm', l # m
       PROVE  Elements(warm'[l]) \cap Elements(warm'[m]) = {}
  <2>1. \A x \in DOMAIN warm' : x # k =>
           /\ x \in DOMAIN warm /\ Elements(warm'[x]) = Elements(warm[x])
           /\ c \notin Elements(warm[x]) /\ Elements(Slot(k)) \cap Elements(warm[x]) = {}
    BY <1>2, <1>6, <1>9, <1>10, <1>11
  <2> QED
    BY <1>9, <1>11, <1>14, <2>1
<1>15. WarmShape'
  <2>1. DOMAIN warm' \subseteq Keys
    BY <1>6 DEF WarmShape
  <2> QED
    BY <1>1, <1>6, <1>8, <1>13, <1>14, <2>1 DEF WarmShape
<1>16. Victims(k) = UNION {Elements(warm[l]) : l \in evicted}
  BY <1>5 DEF Victims
<1>17. Victims(k) \subseteq Pooled
  BY <1>8, <1>10, <1>16
<1>18. Victims(k) \subseteq Containers
  <2>1. \A l \in DOMAIN warm : Elements(warm[l]) \subseteq Containers
    BY DEF WarmShape, Elements
  <2> QED
    BY <1>8, <1>16, <2>1
<1>19. ASSUME NEW x PROVE x \in Pooled' <=> x \in (Pooled \ Victims(k)) \cup {c}
  <2>1. x \in Pooled' <=> \E l \in DOMAIN warm' : x \in Elements(warm'[l])
    BY DEF Pooled
  <2>2. x \in Pooled <=> \E l \in DOMAIN warm : x \in Elements(warm[l])
    BY DEF Pooled
  <2>3. x \in Victims(k) <=> \E l \in evicted : x \in Elements(warm[l])
    BY <1>16
  <2>4. ASSUME x \in Pooled' PROVE x \in (Pooled \ Victims(k)) \cup {c}
    <3>1. PICK l \in DOMAIN warm' : x \in Elements(warm'[l])
      BY <2>1, <2>4
    <3>2. CASE l = k
      <4>1. x \in Elements(Slot(k)) \/ x = c
        BY <1>11, <3>1, <3>2
      <4>2. x \in Elements(Slot(k)) => k \in DOMAIN warm /\ x \in Elements(warm[k])
        BY <1>2
      <4>3. x \in Elements(Slot(k)) => x \notin Victims(k)
        BY <1>8, <1>9, <1>12, <2>3, <4>2
      <4> QED
        BY <2>2, <4>1, <4>2, <4>3
    <3>3. CASE l # k
      <4>1. l \in DOMAIN warm \ evicted /\ x \in Elements(warm[l])
        BY <1>6, <1>11, <3>1, <3>3
      <4>2. x \notin Victims(k)
        BY <1>8, <1>9, <2>3, <4>1
      <4> QED
        BY <2>2, <4>1, <4>2
    <3> QED
      BY <3>2, <3>3
  <2>5. ASSUME x \in Pooled, x \notin Victims(k) PROVE x \in Pooled'
    <3>1. PICK l \in DOMAIN warm : x \in Elements(warm[l])
      BY <2>2, <2>5
    <3>2. l \notin evicted
      BY <2>3, <2>5, <3>1
    <3>3. l \in DOMAIN warm' /\ x \in Elements(warm'[l])
      BY <1>2, <1>6, <1>11, <3>1, <3>2
    <3> QED
      BY <2>1, <3>3
  <2>6. c \in Pooled'
    BY <1>6, <1>11 DEF Pooled
  <2> QED
    BY <2>4, <2>5, <2>6
<1> QED
  BY <1>15, <1>17, <1>18, <1>19

(***************************************************************************)
(* A request that moves on with one record for another.                    *)
(***************************************************************************)
HoldOf(r) == IF request[r].at \in Holding THEN {request[r].id} ELSE {}

RequestGoes(r, rec) ==
    /\ rec \in RequestRecords /\ request' = [request EXCEPT ![r] = rec]
    /\ rec.at \in Holding => rec.id \notin InUse \/ rec.id \in HoldOf(r)

LEMMA RequestMoves ==
    ASSUME RequestShape, NEW r \in Requests, NEW rec, RequestGoes(r, rec)
    PROVE  /\ RequestShape' /\ HoldOf(r) \subseteq InUse
           /\ InUse' = (InUse \ HoldOf(r)) \cup (IF rec.at \in Holding THEN {rec.id} ELSE {})
<1> USE DEF RequestGoes
<1>1. /\ DOMAIN request' = Requests /\ request'[r] = rec
      /\ \A q \in Requests : q # r => request'[q] = request[q]
  BY DEF RequestShape
<1>2. \A q \in Requests : request'[q] \in RequestRecords
  BY <1>1 DEF RequestShape
<1>3. \A x : x \in InUse <=> \E q \in Requests : request[q].at \in Holding /\ request[q].id = x
  BY DEF InUse, Holding
<1>4. \A x : x \in InUse' <=> \E q \in Requests : request'[q].at \in Holding /\ request'[q].id = x
  BY DEF InUse, Holding
<1>5. \A q, p \in Requests :
         request[q].at \in Holding /\ request[p].at \in Holding
            /\ request[q].id = request[p].id => q = p
  BY DEF RequestShape
<1>6. rec.at \in Holding =>
         \A q \in Requests : q # r /\ request[q].at \in Holding => request[q].id # rec.id
  BY <1>3, <1>5 DEF HoldOf
<1>7. RequestShape'
  BY <1>1, <1>2, <1>5, <1>6 DEF RequestShape
<1>8. HoldOf(r) \subseteq InUse
  BY <1>3 DEF HoldOf
<1>9. ASSUME NEW x
      PROVE  x \in InUse' <=>
                x \in (InUse \ HoldOf(r)) \cup (IF rec.at \in Holding THEN {rec.id} ELSE {})
  <2>1. x \in InUse \ HoldOf(r) <=>
           \E q \in Requests : q # r /\ request[q].at \in Holding /\ request[q].id = x
    BY <1>3, <1>5 DEF HoldOf
  <2> QED
    BY <1>1, <1>4, <2>1
<1> QED
  BY <1>7, <1>8, <1>9

-----------------------------------------------------------------------------
(***************************************************************************)
(* Steps of the daemon and of the process that move no container.          *)
(***************************************************************************)
HoldersStay ==
    /\ UNCHANGED <<warm, keyOrder, fresh, removing, request>>
    /\ closed' => closed
    /\ warmTodo' \in Seq(Keys)
    /\ exists' \ strays' \subseteq exists \ strays

LEMMA StayKeeps ==
    ASSUME PoolInvariant, HoldersStay
    PROVE  PoolInvariant'
<1> USE DEF PoolInvariant, HoldersStay
<1>1. WarmShape' /\ FreshShape' /\ RequestShape'
  BY DEF WarmShape, FreshShape, RequestShape
<1>2. Pooled' = Pooled /\ FreshIds' = FreshIds /\ InUse' = InUse
  BY DEF Pooled, FreshIds, InUse
<1>3. Apart' /\ Accounted'
  BY <1>2 DEF Apart, Accounted, Held, FreshIds
<1> QED
  BY <1>1, <1>3

LEMMA RemovalLoses ==
    ASSUME NEW c, Removed(c) \/ RemovalLost(c)
    PROVE  exists' \ strays' \subseteq (exists \ strays) \ {c}
BY DEF Removed, RemovalLost

\* The ids of fresh when an entry goes.
LEMMA FreshGoes ==
    ASSUME FreshShape, NEW f \in fresh, fresh' = fresh \ {f}
    PROVE  /\ FreshIds' = FreshIds \ {f.id} /\ f.id \in FreshIds
           /\ f.id \in Containers /\ f.key \in Keys
           /\ fresh' \subseteq Made /\ \A g, h \in fresh' : g.id = h.id => g = h
BY DEF FreshShape, FreshIds, Made

\* A request that moves on, and what the other holders give to it or take from it.
RequestServed(r, rec) ==
    /\ RequestGoes(r, rec)
    /\ UNCHANGED <<warm, keyOrder, closed, fresh, warmTodo>>
    /\ removing' = removing \/ removing' = removing \cup HoldOf(r)
    /\ removing' # removing => rec.at \notin Holding
    /\ rec.at \in Holding => rec.id \notin Held \/ rec.id \in HoldOf(r)
    /\ exists' \ strays' \subseteq
          (exists \ strays) \cup (IF rec.at \in Holding THEN {rec.id} ELSE {})
    /\ \A c \in HoldOf(r) :
          \/ c \in removing' \/ c \notin exists' \ strays'
          \/ rec.at \in Holding /\ rec.id = c

LEMMA ServedKeeps ==
    ASSUME PoolInvariant, NEW r \in Requests, NEW rec, RequestServed(r, rec)
    PROVE  PoolInvariant'
<1> USE DEF RequestServed
<1>1. WarmShape /\ FreshShape /\ RequestShape /\ Apart /\ Accounted
  BY DEF PoolInvariant
<1>2. /\ RequestShape' /\ HoldOf(r) \subseteq InUse
      /\ InUse' = (InUse \ HoldOf(r)) \cup (IF rec.at \in Holding THEN {rec.id} ELSE {})
  BY <1>1, RequestMoves
<1>3. Pooled' = Pooled /\ FreshIds' = FreshIds /\ WarmShape'
  BY <1>1 DEF Pooled, FreshIds, WarmShape
<1>4. \A c \in HoldOf(r) : c \in Containers
  <2>1. request[r] \in RequestRecords
    BY <1>1 DEF RequestShape
  <2>2. request[r].at \in Holding => request[r].id \in Containers
    BY <2>1 DEF RequestRecords, Holding, Idle, Waits
  <2> QED
    BY <2>2 DEF HoldOf
<1>5. FreshShape'
  BY <1>1, <1>4 DEF FreshShape
<1>6. Held = Pooled \cup FreshIds \cup removing \cup InUse
      /\ Held' = Pooled' \cup FreshIds' \cup removing' \cup InUse'
  BY DEF Held, FreshIds
<1>7. Apart'
  <2>1. rec.at \in Holding => removing' = removing
    OBVIOUS
  <2>2. removing' \cap InUse' = {}
    BY <1>1, <1>2, <1>6, <2>1 DEF Apart
  <2>3. Pooled \cap InUse' = {} /\ FreshIds \cap InUse' = {}
    BY <1>1, <1>2, <1>6 DEF Apart
  <2>4. Pooled \cap removing' = {} /\ FreshIds \cap removing' = {}
    BY <1>1, <1>2 DEF Apart
  <2> QED
    BY <1>1, <1>3, <2>2, <2>3, <2>4 DEF Apart
<1>8. Accounted'
  <2>1. ASSUME NEW c \in exists' \ strays' PROVE c \in Held'
    <3>1. CASE rec.at \in Holding /\ c = rec.id
      BY <1>2, <1>6, <3>1
    <3>2. CASE c \in HoldOf(r)
      BY <1>2, <1>6, <2>1, <3>2
    <3>3. CASE c \notin HoldOf(r) /\ c \in exists \ strays
      BY <1>1, <1>2, <1>3, <1>6, <3>3 DEF Accounted
    <3> QED
      BY <3>1, <3>2, <3>3, <2>1
  <2> QED
    BY <2>1 DEF Accounted
<1> QED
  BY <1>2, <1>3, <1>5, <1>7, <1>8 DEF PoolInvariant

(***************************************************************************)
(* A container made for the pool.                                          *)
(***************************************************************************)
PoolCreates(k, c, by) ==
    /\ c \in Free /\ by \in {"replenish", "warm"} /\ Created(k, c, by)
    /\ UNCHANGED <<strays, warm, keyOrder, closed, removing, request>>
    /\ warmTodo' \in Seq(Keys)

LEMMA CreatedKeeps ==
    ASSUME PoolInvariant, NEW k \in Keys, NEW c, NEW by, PoolCreates(k, c, by)
    PROVE  PoolInvariant'
<1> USE DEF PoolCreates
<1>1. WarmShape /\ FreshShape /\ RequestShape /\ Apart /\ Accounted
  BY DEF PoolInvariant
<1>2. PICK rec : rec = [key |-> k, id |-> c, by |-> by, ready |-> backend = "docker"]
  OBVIOUS
<1>3. fresh' = fresh \cup {rec} /\ exists' = exists \cup {c}
  BY <1>2 DEF Created
<1>4. c \in Containers /\ c \notin Held
  BY DEF Free
<1>5. (backend = "docker") \in BOOLEAN
  OBVIOUS
<1>6. rec \in Made /\ rec.id = c
  BY <1>2, <1>4, <1>5 DEF Made
<1>7. \A f \in fresh : f.id # c
  BY <1>4 DEF Held
<1>8. FreshShape'
  BY <1>1, <1>3, <1>6, <1>7 DEF FreshShape
<1>9. WarmShape' /\ RequestShape' /\ Pooled' = Pooled /\ InUse' = InUse
  BY <1>1 DEF WarmShape, RequestShape, Pooled, InUse
<1>10. FreshIds' = FreshIds \cup {c}
  BY <1>3, <1>6 DEF FreshIds
<1>11. Held = Pooled \cup FreshIds \cup removing \cup InUse
       /\ Held' = Pooled' \cup FreshIds' \cup removing' \cup InUse'
  BY DEF Held, FreshIds
<1>12. Apart'
  BY <1>1, <1>4, <1>9, <1>10, <1>11 DEF Apart
<1>13. Accounted'
  BY <1>1, <1>3, <1>9, <1>10, <1>11 DEF Accounted
<1> QED
  BY <1>8, <1>9, <1>12, <1>13 DEF PoolInvariant

LEMMA PodReadyKeeps ==
    ASSUME PoolInvariant, NEW f \in fresh, PodReady(f)
    PROVE  PoolInvariant'
<1>1. WarmShape /\ FreshShape /\ RequestShape /\ Apart /\ Accounted
  BY DEF PoolInvariant
<1>2. /\ UNCHANGED <<strays, warm, keyOrder, closed, warmTodo, removing, request>>
  BY DEF PodReady
<1>3. WarmShape' /\ RequestShape' /\ Pooled' = Pooled /\ InUse' = InUse
  BY <1>1, <1>2 DEF WarmShape, RequestShape, Pooled, InUse
<1>4. Held = Pooled \cup FreshIds \cup removing \cup InUse
      /\ Held' = Pooled' \cup FreshIds' \cup removing' \cup InUse'
  BY DEF Held, FreshIds
<1>5. CASE fresh' = (fresh \ {f}) \cup {[f EXCEPT !.ready = TRUE]} /\ UNCHANGED exists
  <2>1. PICK g : g = [f EXCEPT !.ready = TRUE]
    OBVIOUS
  <2>2. g \in Made /\ g.id = f.id
    BY <1>1, <2>1 DEF FreshShape, Made
  <2>3. FreshShape'
    BY <1>1, <1>2, <1>5, <2>1, <2>2 DEF FreshShape
  <2>4. FreshIds' = FreshIds
    BY <1>5, <2>1, <2>2 DEF FreshIds
  <2>5. Apart' /\ Accounted'
    BY <1>1, <1>2, <1>3, <1>4, <1>5, <2>4 DEF Apart, Accounted
  <2> QED
    BY <1>3, <2>3, <2>5 DEF PoolInvariant
<1>6. CASE fresh' = fresh \ {f} /\ exists' = exists \ {f.id}
  <2>1. FreshIds' = FreshIds \ {f.id} /\ FreshShape'
    BY <1>1, <1>2, <1>6, FreshGoes DEF FreshShape
  <2>2. Apart' /\ Accounted'
    BY <1>1, <1>2, <1>3, <1>4, <1>6, <2>1 DEF Apart, Accounted
  <2> QED
    BY <1>3, <2>1, <2>2 DEF PoolInvariant
<1> QED
  BY <1>5, <1>6 DEF PodReady

\* A container made for the pool is added, or refused and removed, or refused and forgotten.
LEMMA ReplenishKeeps ==
    ASSUME PoolInvariant, NEW f \in fresh, Replenish(f)
    PROVE  PoolInvariant'
<1>1. WarmShape /\ FreshShape /\ RequestShape /\ Apart /\ Accounted
  BY DEF PoolInvariant
<1>2. /\ fresh' = fresh \ {f}
      /\ UNCHANGED <<exists, closed, warmTodo, request>>
  BY DEF Replenish
<1>3. /\ FreshIds' = FreshIds \ {f.id} /\ f.id \in FreshIds
      /\ f.id \in Containers /\ f.key \in Keys
      /\ fresh' \subseteq Made /\ \A g, h \in fresh' : g.id = h.id => g = h
  BY <1>1, <1>2, FreshGoes
<1>4. RequestShape' /\ InUse' = InUse
  BY <1>1, <1>2 DEF RequestShape, InUse
<1>5. Held = Pooled \cup FreshIds \cup removing \cup InUse
      /\ Held' = Pooled' \cup FreshIds' \cup removing' \cup InUse'
  BY DEF Held, FreshIds
<1>6. CASE Refuses(f.key)
  <2>1. UNCHANGED <<warm, keyOrder>>
    BY <1>6 DEF Replenish
  <2>2. WarmShape' /\ Pooled' = Pooled
    BY <1>1, <1>2, <2>1 DEF WarmShape, Pooled
  <2>3. \/ removing' = removing \cup {f.id} /\ strays' = strays
        \/ removing' = removing /\ strays' = strays \cup ({f.id} \cap exists)
    BY <1>6 DEF Replenish
  <2>4. FreshShape'
    BY <1>1, <1>2, <1>3, <2>3 DEF FreshShape
  <2>5. Apart'
    BY <1>1, <1>3, <1>4, <2>2, <2>3 DEF Apart
  <2>6. Accounted'
    BY <1>1, <1>2, <1>3, <1>4, <1>5, <2>2, <2>3 DEF Accounted
  <2> QED
    BY <1>4, <2>2, <2>4, <2>5, <2>6 DEF PoolInvariant
<1>7. CASE ~Refuses(f.key)
  <2>1. /\ AddToKey(f.key, f.id) /\ removing' = removing \cup Victims(f.key) /\ UNCHANGED strays
    BY <1>7 DEF Replenish
  <2>2. f.id \notin Pooled
    BY <1>1, <1>3 DEF Apart
  <2>3. /\ WarmShape' /\ Victims(f.key) \subseteq Pooled /\ Victims(f.key) \subseteq Containers
        /\ Pooled' = (Pooled \ Victims(f.key)) \cup {f.id}
    BY <1>1, <1>2, <1>3, <1>7, <2>1, <2>2, AddKeeps
  <2>4. FreshShape'
    BY <1>1, <1>2, <1>3, <2>1, <2>3 DEF FreshShape
  <2>5. Apart'
    BY <1>1, <1>3, <1>4, <2>1, <2>2, <2>3 DEF Apart
  <2>6. Accounted'
    BY <1>1, <1>2, <1>3, <1>4, <1>5, <2>1, <2>3 DEF Accounted
  <2> QED
    BY <1>4, <2>3, <2>4, <2>5, <2>6 DEF PoolInvariant
<1> QED
  BY <1>6, <1>7

LEMMA RemoveKeeps ==
    ASSUME PoolInvariant, NEW c, Remove(c)
    PROVE  PoolInvariant'
<1>1. WarmShape /\ FreshShape /\ RequestShape /\ Apart /\ Accounted
  BY DEF PoolInvariant
<1>2. /\ c \in removing /\ removing' = removing \ {c}
      /\ UNCHANGED <<warm, keyOrder, closed, warmTodo, fresh, request>>
      /\ exists' \ strays' \subseteq (exists \ strays) \ {c}
  BY RemovalLoses DEF Remove
<1>3. WarmShape' /\ FreshShape' /\ RequestShape'
  BY <1>1, <1>2 DEF WarmShape, FreshShape, RequestShape
<1>4. Pooled' = Pooled /\ FreshIds' = FreshIds /\ InUse' = InUse
  BY <1>2 DEF Pooled, FreshIds, InUse
<1>5. Held = Pooled \cup FreshIds \cup removing \cup InUse
      /\ Held' = Pooled' \cup FreshIds' \cup removing' \cup InUse'
  BY DEF Held, FreshIds
<1>6. Apart' /\ Accounted'
  BY <1>1, <1>2, <1>4, <1>5 DEF Apart, Accounted
<1> QED
  BY <1>3, <1>6 DEF PoolInvariant

LEMMA ReplenishmentKeeps == PoolInvariant /\ Replenishment => PoolInvariant'
<1> SUFFICES ASSUME PoolInvariant, Replenishment PROVE PoolInvariant'
  OBVIOUS
<1>1. warmTodo \in Seq(Keys)
  BY DEF PoolInvariant, FreshShape
<1>2. ASSUME NEW k \in Keys, ReplenishChecks(k) PROVE PoolInvariant'
  <2>1. HoldersStay
    BY <1>1, <1>2 DEF ReplenishChecks, HoldersStay, daemonVars
  <2> QED
    BY <2>1, StayKeeps
<1>3. ASSUME NEW k \in Keys, NEW c \in Containers, CreateWarm(k, c) PROVE PoolInvariant'
  <2>1. PoolCreates(k, c, "replenish")
    BY <1>1, <1>3 DEF CreateWarm, PoolCreates
  <2> QED
    BY <2>1, CreatedKeeps
<1>4. ASSUME NEW k \in Keys, NEW c \in Containers, CreateWarmFails(k, c) PROVE PoolInvariant'
  <2>1. exists' \ strays' \subseteq exists \ strays
    BY <1>4 DEF CreateWarmFails, daemonVars
  <2>2. HoldersStay
    BY <1>1, <1>4, <2>1 DEF CreateWarmFails, HoldersStay
  <2> QED
    BY <2>2, StayKeeps
<1>5. ASSUME NEW c \in Containers, Warm(c) PROVE PoolInvariant'
  <2>1. warmTodo # <<>> /\ warmTodo' = Tail(warmTodo)
    BY <1>5 DEF Warm
  <2>2. warmTodo' \in Seq(Keys) /\ Head(warmTodo) \in Keys
    BY <1>1, <2>1
  <2>3. CASE UNCHANGED <<exists, alive, fresh>>
    <3>1. HoldersStay
      BY <1>5, <2>2, <2>3 DEF Warm, HoldersStay
    <3> QED
      BY <3>1, StayKeeps
  <2>4. CASE c \in Free /\ Created(Head(warmTodo), c, "warm")
    <3>1. PoolCreates(Head(warmTodo), c, "warm")
      BY <1>5, <2>2, <2>4 DEF Warm, PoolCreates
    <3> QED
      BY <2>2, <3>1, CreatedKeeps
  <2> QED
    BY <1>5, <2>3, <2>4 DEF Warm
<1> QED
  BY <1>2, <1>3, <1>4, <1>5, PodReadyKeeps, ReplenishKeeps, RemoveKeeps DEF Replenishment

-----------------------------------------------------------------------------
(***************************************************************************)
(* Requests.                                                               *)
(***************************************************************************)
LEMMA TakeKeeps ==
    ASSUME PoolInvariant, NEW r \in Requests, NEW k, NEW at \in {"check", "attach"},
           Slot(k) # <<>>, request[r].at \notin Holding,
           TakesHead(k), Holds(r, at, k, Head(Slot(k))),
           UNCHANGED <<exists, strays, closed, warmTodo, fresh, removing>>
    PROVE  PoolInvariant'
<1>1. WarmShape /\ FreshShape /\ RequestShape /\ Apart /\ Accounted
  BY DEF PoolInvariant
<1>2. PICK c : c = Head(Slot(k))
  OBVIOUS
<1>3. /\ WarmShape' /\ k \in Keys /\ c \in Pooled /\ c \in Containers
      /\ Pooled' = Pooled \ {c}
  BY <1>1, <1>2, TakesKeeps
<1>4. PICK rec : rec = [at |-> at, key |-> k, id |-> c]
  OBVIOUS
<1>5. rec \in RequestRecords /\ rec.at \in Holding /\ rec.id = c
  BY <1>3, <1>4 DEF RequestRecords, Holding
<1>6. RequestGoes(r, rec)
  BY <1>1, <1>2, <1>3, <1>4, <1>5 DEF RequestGoes, Holds, Apart
<1>7. RequestShape' /\ InUse' = (InUse \ HoldOf(r)) \cup {c}
  BY <1>1, <1>5, <1>6, RequestMoves
<1>8. HoldOf(r) = {}
  BY DEF HoldOf
<1>9. FreshShape' /\ FreshIds' = FreshIds
  BY <1>1 DEF FreshShape, FreshIds
<1>10. Held = Pooled \cup FreshIds \cup removing \cup InUse
       /\ Held' = Pooled' \cup FreshIds' \cup removing' \cup InUse'
  BY DEF Held, FreshIds
<1>11. Apart' /\ Accounted'
  BY <1>1, <1>3, <1>7, <1>8, <1>9, <1>10 DEF Apart, Accounted
<1> QED
  BY <1>3, <1>7, <1>9, <1>11 DEF PoolInvariant

LEMMA RequestedKeeps ==
    ASSUME PoolInvariant, NEW r \in Requests, Requested(r)
    PROVE  PoolInvariant'
<1>1. RequestShape /\ Accounted
  BY DEF PoolInvariant
<1>2. ASSUME NEW k \in Keys, Misses(r, k), request[r].at \notin Holding,
             UNCHANGED <<exists, strays, warm, keyOrder, closed, fresh, warmTodo, removing>>
      PROVE  PoolInvariant'
  <2>1. PICK rec : rec = [at |-> "create", key |-> k]
    OBVIOUS
  <2>2. rec \in RequestRecords /\ rec.at \notin Holding /\ request' = [request EXCEPT ![r] = rec]
    BY <1>2, <2>1 DEF RequestRecords, Holding, Misses
  <2>3. RequestServed(r, rec)
    BY <1>2, <2>2 DEF RequestServed, RequestGoes, HoldOf
  <2> QED
    BY <2>3, ServedKeeps
<1>3. ASSUME NEW k \in Keys, Acquire(r, k) PROVE PoolInvariant'
  <2>1. request[r].at \notin Holding
        /\ UNCHANGED <<exists, strays, closed, warmTodo, fresh, removing>>
    BY <1>3 DEF Acquire, Idle, Holding, daemonVars
  <2>2. CASE Slot(k) = <<>>
    BY <1>2, <1>3, <2>1, <2>2 DEF Acquire
  <2>3. CASE Slot(k) # <<>>
    <3>1. TakesHead(k) /\ Holds(r, "attach", k, Head(Slot(k)))
      BY <1>3, <2>3 DEF Acquire
    <3> QED
      BY <2>1, <2>3, <3>1, TakeKeeps
  <2> QED
    BY <2>2, <2>3
<1>4. ASSUME NEW k \in Keys, AcquirePod(r, k) PROVE PoolInvariant'
  <2>1. request[r].at \notin Holding
        /\ UNCHANGED <<exists, strays, closed, warmTodo, fresh, removing>>
    BY <1>4 DEF AcquirePod, Idle, Holding, daemonVars
  <2>2. CASE Slot(k) = <<>>
    BY <1>2, <1>4, <2>1, <2>2 DEF AcquirePod
  <2>3. CASE Slot(k) # <<>>
    <3>1. TakesHead(k) /\ Holds(r, "check", k, Head(Slot(k)))
      BY <1>4, <2>3 DEF AcquirePod
    <3> QED
      BY <2>1, <2>3, <3>1, TakeKeeps
  <2> QED
    BY <2>2, <2>3
<1>5. ASSUME CheckPod(r) PROVE PoolInvariant'
  <2>1. /\ request[r].at = "check"
        /\ UNCHANGED <<exists, strays, warm, keyOrder, closed, fresh, warmTodo>>
    BY <1>5 DEF CheckPod, daemonVars
  <2>2. PICK k, c : /\ request[r] = [at |-> "check", key |-> k, id |-> c]
                    /\ k \in Keys /\ c \in Containers
    <3>1. request[r] \in RequestRecords
      BY <1>1 DEF RequestShape
    <3>2. request[r] \in [at : {"check", "attach"}, key : Keys, id : Containers]
      BY <2>1, <3>1 DEF RequestRecords, Idle, Waits
    <3> QED
      BY <2>1, <3>2
  <2>3. HoldOf(r) = {c}
    BY <2>2 DEF HoldOf, Holding
  <2>4. CASE c \in alive
    <3>1. PICK rec : rec = [request[r] EXCEPT !.at = "attach"]
      OBVIOUS
    <3>2. request' = [request EXCEPT ![r].at = "attach"] /\ UNCHANGED removing
      BY <1>5, <2>2, <2>4 DEF CheckPod
    <3>3. request' = [request EXCEPT ![r] = rec]
      BY <3>1, <3>2
    <3>4. rec = [at |-> "attach", key |-> k, id |-> c]
      BY <2>2, <3>1
    <3>5. rec \in RequestRecords /\ rec.at \in Holding /\ rec.id = c
      BY <2>2, <3>4 DEF RequestRecords, Holding
    <3>6. RequestServed(r, rec)
      BY <2>1, <2>3, <3>2, <3>3, <3>5 DEF RequestServed, RequestGoes
    <3> QED
      BY <3>6, ServedKeeps
  <2>5. CASE c \notin alive
    <3>1. PICK rec : rec = [at |-> "acquire", key |-> k]
      OBVIOUS
    <3>2. request' = [request EXCEPT ![r] = rec] /\ removing' = removing \cup {c}
      BY <1>5, <2>2, <2>5, <3>1 DEF CheckPod
    <3>3. rec \in RequestRecords /\ rec.at \notin Holding
      BY <2>2, <3>1 DEF RequestRecords, Holding
    <3>4. RequestServed(r, rec)
      BY <2>1, <2>3, <3>2, <3>3 DEF RequestServed, RequestGoes
    <3> QED
      BY <3>4, ServedKeeps
  <2> QED
    BY <2>4, <2>5
<1>6. ASSUME NEW c \in Containers, ColdStart(r, c) PROVE PoolInvariant'
  <2>1. /\ request[r].at = "create"
        /\ UNCHANGED <<strays, warm, keyOrder, closed, fresh, warmTodo, removing>>
    BY <1>6 DEF ColdStart, poolVars
  <2>2. HoldOf(r) = {}
    BY <2>1 DEF HoldOf, Holding
  <2>3. CASE c \in Free /\ exists' = exists \cup {c} /\ Holds(r, "attach", request[r].key, c)
    <3>1. request[r] \in [at : {"create", "acquire"}, key : Keys]
      <4>1. request[r] \in RequestRecords
        BY <1>1 DEF RequestShape
      <4> QED
        BY <2>1, <4>1 DEF RequestRecords, Idle, Waits
    <3>2. PICK rec : rec = [at |-> "attach", key |-> request[r].key, id |-> c]
      OBVIOUS
    <3>3. rec \in RequestRecords /\ rec.at \in Holding /\ rec.id = c
          /\ request' = [request EXCEPT ![r] = rec]
      BY <2>3, <3>1, <3>2 DEF RequestRecords, Holding, Holds
    <3>4. c \notin Held /\ InUse \subseteq Held
      BY <2>3 DEF Free, Held
    <3>5. RequestServed(r, rec)
      BY <2>1, <2>2, <2>3, <3>3, <3>4 DEF RequestServed, RequestGoes
    <3> QED
      BY <3>5, ServedKeeps
  <2>4. CASE request' = [request EXCEPT ![r] = Idle] /\ UNCHANGED exists
    <3>1. Idle \in RequestRecords /\ Idle.at \notin Holding
      BY DEF RequestRecords, Holding, Idle
    <3>2. RequestServed(r, Idle)
      BY <2>1, <2>2, <2>4, <3>1 DEF RequestServed, RequestGoes
    <3> QED
      BY <3>2, ServedKeeps
  <2> QED
    BY <1>6, <2>3, <2>4 DEF ColdStart
<1> QED
  BY <1>3, <1>4, <1>5, <1>6 DEF Requested

\* A request that has its container keeps it until it leaves, and then gives it up.
LEMMA ServedStays ==
    ASSUME PoolInvariant, NEW r \in Requests, Served(r)
    PROVE  PoolInvariant'
<1>1. RequestShape /\ Accounted
  BY DEF PoolInvariant
<1>2. request[r] \in RequestRecords
  BY <1>1 DEF RequestShape
<1>3. ASSUME NEW rec \in RequestRecords, rec.at \in Holding, request[r].at \in Holding,
             rec.id = request[r].id, request' = [request EXCEPT ![r] = rec],
             UNCHANGED <<exists, strays, poolVars>>
      PROVE  PoolInvariant'
  <2>1. HoldOf(r) = {rec.id}
    BY <1>3 DEF HoldOf
  <2>2. RequestServed(r, rec)
    BY <1>3, <2>1 DEF RequestServed, RequestGoes, poolVars
  <2> QED
    BY <2>2, ServedKeeps
<1>4. ASSUME Leaves(r), request[r].at \in Holding, UNCHANGED <<exists, strays, poolVars>>
      PROVE  PoolInvariant'
  <2>1. PICK rec : rec = [at |-> "leave", id |-> request[r].id]
    OBVIOUS
  <2>2. request[r].id \in Containers
    BY <1>2, <1>4 DEF RequestRecords, Holding, Idle, Waits
  <2>3. rec \in RequestRecords /\ rec.at \in Holding /\ rec.id = request[r].id
    BY <2>1, <2>2 DEF RequestRecords, Holding
  <2>4. request' = [request EXCEPT ![r] = rec]
    BY <1>4, <2>1 DEF Leaves
  <2> QED
    BY <1>3, <1>4, <2>3, <2>4
<1>5. ASSUME Attach(r) PROVE PoolInvariant'
  <2>1. /\ request[r].at = "attach" /\ request[r].at \in Holding
        /\ UNCHANGED <<exists, strays, poolVars>>
    BY <1>5 DEF Attach, Holding, daemonVars
  <2>2. CASE Leaves(r)
    BY <1>4, <2>1, <2>2
  <2>3. ASSUME NEW w \in Waits, w.id = request[r].id, request' = [request EXCEPT ![r] = w]
        PROVE  PoolInvariant'
    <3>1. w \in RequestRecords /\ w.at \in Holding
      BY DEF RequestRecords, Waits, Holding
    <3> QED
      BY <1>3, <2>1, <2>3, <3>1
  <2> QED
    BY <1>5, <2>2, <2>3 DEF Attach
<1>6. ASSUME Waited(r) PROVE PoolInvariant'
  <2>1. request[r].at \in Holding /\ Leaves(r) /\ UNCHANGED <<exists, strays, poolVars>>
    BY <1>6 DEF Waited, Waits, Holding, daemonVars
  <2> QED
    BY <1>4, <2>1
<1>7. ASSUME Release(r) PROVE PoolInvariant'
  <2>1. /\ request[r].at = "leave" /\ request' = [request EXCEPT ![r] = Idle]
        /\ UNCHANGED poolVars
        /\ exists' \ strays' \subseteq (exists \ strays) \ {request[r].id}
    BY <1>7, RemovalLoses DEF Release
  <2>2. HoldOf(r) = {request[r].id}
    BY <2>1 DEF HoldOf, Holding
  <2>3. Idle \in RequestRecords /\ Idle.at \notin Holding
    BY DEF RequestRecords, Holding, Idle
  <2>4. RequestServed(r, Idle)
    BY <2>1, <2>2, <2>3 DEF RequestServed, RequestGoes, poolVars
  <2> QED
    BY <2>4, ServedKeeps
<1> QED
  BY <1>5, <1>6, <1>7 DEF Served, Run, StreamRun, StreamPod

-----------------------------------------------------------------------------
(***************************************************************************)
(* The process starts, cleans up, closes, and goes.                        *)
(***************************************************************************)
LEMMA CloseKeeps == PoolInvariant /\ ClosePool => PoolInvariant'
<1> SUFFICES ASSUME PoolInvariant, ClosePool PROVE PoolInvariant'
  OBVIOUS
<1>1. WarmShape /\ FreshShape /\ RequestShape /\ Apart /\ Accounted
  BY DEF PoolInvariant
<1>2. /\ warm' = <<>> /\ keyOrder' = <<>> /\ removing' = removing \cup Pooled
      /\ UNCHANGED <<exists, strays, warmTodo, fresh, request>>
  BY DEF ClosePool, daemonVars
<1>3. Pooled' = {} /\ WarmShape'
  <2>1. DOMAIN warm' = {}
    BY <1>2
  <2>2. Elements(keyOrder') = {} /\ IsInjective(keyOrder') /\ keyOrder' \in Seq(Keys)
        /\ Len(keyOrder') <= MaxKeys
    BY <1>2, PoolLimits DEF Elements, IsInjective
  <2>3. Pooled' = {}
    BY <2>1 DEF Pooled
  <2> QED
    BY <1>2, <2>1, <2>2, <2>3 DEF WarmShape
<1>4. Pooled \subseteq Containers
  BY <1>1 DEF Pooled, WarmShape, Elements
<1>5. FreshShape' /\ RequestShape' /\ FreshIds' = FreshIds /\ InUse' = InUse
  BY <1>1, <1>2, <1>4 DEF FreshShape, RequestShape, FreshIds, InUse
<1>6. Held = Pooled \cup FreshIds \cup removing \cup InUse
      /\ Held' = Pooled' \cup FreshIds' \cup removing' \cup InUse'
  BY DEF Held, FreshIds
<1>7. Apart' /\ Accounted'
  BY <1>1, <1>2, <1>3, <1>5, <1>6 DEF Apart, Accounted
<1> QED
  BY <1>3, <1>5, <1>7 DEF PoolInvariant

\* Nothing is held by a process that is not there.
Emptied ==
    /\ warm = <<>> /\ keyOrder = <<>> /\ warmTodo = <<>> /\ fresh = {} /\ removing = {}
    /\ request = [r \in Requests |-> Idle] /\ exists \ strays = {}

LEMMA EmptyIsSound == Emptied => PoolInvariant
<1> SUFFICES ASSUME Emptied PROVE PoolInvariant
  OBVIOUS
<1> USE DEF Emptied
<1>1. DOMAIN warm = {} /\ Pooled = {}
  BY DEF Pooled
<1>2. WarmShape
  <2>1. Elements(keyOrder) = {} /\ IsInjective(keyOrder) /\ keyOrder \in Seq(Keys)
        /\ Len(keyOrder) <= MaxKeys
    BY PoolLimits DEF Elements, IsInjective
  <2> QED
    BY <1>1, <2>1 DEF WarmShape
<1>3. \A r \in Requests : request[r] = Idle /\ Idle.at \notin Holding
  BY DEF Idle, Holding
<1>4. FreshShape /\ RequestShape
  BY <1>3 DEF FreshShape, RequestShape, RequestRecords
<1>5. InUse = {} /\ FreshIds = {}
  BY <1>3 DEF InUse, FreshIds, Holding
<1>6. Apart /\ Accounted
  BY <1>1, <1>5 DEF Apart, Accounted
<1> QED
  BY <1>2, <1>4, <1>6 DEF PoolInvariant

LEMMA LifecycleKeeps == PoolInvariant /\ Lifecycle => PoolInvariant'
<1> SUFFICES ASSUME PoolInvariant, Lifecycle PROVE PoolInvariant'
  OBVIOUS
<1>1. warmTodo \in Seq(Keys) /\ DefaultKeys \in Seq(Keys)
  BY PoolLimits DEF PoolInvariant, FreshShape
<1>2. CASE \/ StartProcess \/ NewPool \/ OtherStarts
           \/ \E c \in Containers : CleanupOrphans(c) \/ OtherCleans(c) \/ PodDies(c)
  <2>1. exists' \ strays' \subseteq exists \ strays
    <3>1. ASSUME NEW c, CleanupOrphans(c) \/ OtherCleans(c)
          PROVE  exists' \ strays' \subseteq exists \ strays
      <4>1. Removed(c) \/ RemovalLost(c)
        BY <3>1 DEF CleanupOrphans, OtherCleans
      <4> QED
        BY <4>1, RemovalLoses
    <3> QED
      BY <1>2, <3>1 DEF StartProcess, NewPool, OtherStarts, PodDies, daemonVars
  <2>2. UNCHANGED <<warm, keyOrder, fresh, removing, request>>
    BY <1>2 DEF StartProcess, NewPool, OtherStarts, CleanupOrphans, OtherCleans, PodDies, poolVars
  <2>3. (closed' => closed) /\ warmTodo' \in Seq(Keys)
    BY <1>1, <1>2
       DEF StartProcess, NewPool, OtherStarts, CleanupOrphans, OtherCleans, PodDies, poolVars
  <2>4. HoldersStay
    BY <2>1, <2>2, <2>3 DEF HoldersStay
  <2> QED
    BY <2>4, StayKeeps
<1>3. CASE Exit \/ Killed
  <2>1. Emptied'
    BY <1>3 DEF Exit, Killed, Gone, Emptied
  <2> QED
    BY <2>1, EmptyIsSound, PTL
<1> QED
  BY <1>2, <1>3, CloseKeeps DEF Lifecycle

(***************************************************************************)
(* Counting the places of a container.                                     *)
(***************************************************************************)
Single(s) == \A x, y \in s : x = y

LEMMA SingleCounts ==
    ASSUME NEW s, Single(s)
    PROVE  Cardinality(s) = IF s = {} THEN 0 ELSE 1
<1>1. CASE s = {}
  BY <1>1, FS_EmptySet
<1>2. CASE s # {}
  <2>1. PICK x : s = {x}
    BY <1>2 DEF Single
  <2> QED
    BY <1>2, <2>1, FS_Singleton
<1> QED
  BY <1>1, <1>2

LEMMA PlacesCounted ==
    ASSUME PoolInvariant, NEW c \in Containers
    PROVE  Places(c) = IF c \in Held THEN 1 ELSE 0
<1>1. WarmShape /\ FreshShape /\ RequestShape /\ Apart
  BY DEF PoolInvariant
<1> DEFINE inPool == {p \in Keys \X (1..MaxWarm) :
                        p[2] \in DOMAIN Slot(p[1]) /\ Slot(p[1])[p[2]] = c}
<1> DEFINE inFresh == {f \in fresh : f.id = c}
<1> DEFINE inRemoval == {x \in removing : x = c}
<1> DEFINE inRequest == {r \in Requests : request[r].at \in {"check", "attach", "wait", "leave"}
                                          /\ request[r].id = c}
<1>2. Places(c) = Cardinality(inPool) + Cardinality(inFresh) + Cardinality(inRemoval)
                  + Cardinality(inRequest)
  BY DEF Places
<1>3. Single(inPool) /\ (inPool = {} <=> c \notin Pooled)
  <2>1. ASSUME NEW p \in inPool
        PROVE  /\ p[1] \in DOMAIN warm /\ p[2] \in DOMAIN warm[p[1]] /\ warm[p[1]][p[2]] = c
               /\ c \in Elements(warm[p[1]]) /\ p = <<p[1], p[2]>>
    BY DEF Slot, Elements
  <2>2. Single(inPool)
    <3>1. SUFFICES ASSUME NEW p \in inPool, NEW q \in inPool PROVE p = q
      BY DEF Single
    <3>2. p[1] = q[1]
      BY <1>1, <2>1 DEF WarmShape
    <3>3. p[2] = q[2]
      BY <1>1, <2>1, <3>2 DEF WarmShape, IsInjective
    <3> QED
      BY <2>1, <3>2, <3>3
  <2>3. ASSUME c \in Pooled PROVE inPool # {}
    <3>1. PICK k \in DOMAIN warm : c \in Elements(warm[k])
      BY <2>3 DEF Pooled
    <3>2. PICK i \in DOMAIN warm[k] : warm[k][i] = c
      BY <3>1 DEF Elements
    <3>3. k \in Keys /\ warm[k] \in Seq(Containers) /\ Len(warm[k]) <= MaxWarm
      BY <1>1 DEF WarmShape
    <3>4. i \in 1 .. MaxWarm
      BY <3>2, <3>3, PoolLimits
    <3>5. <<k, i>> \in inPool
      BY <3>1, <3>2, <3>3, <3>4 DEF Slot
    <3> QED
      BY <3>5
  <2>4. ASSUME inPool # {} PROVE c \in Pooled
    BY <2>1, <2>4 DEF Pooled
  <2> QED
    BY <2>2, <2>3, <2>4
<1>4. Single(inFresh) /\ (inFresh = {} <=> c \notin FreshIds)
  BY <1>1 DEF Single, FreshShape, FreshIds
<1>5. Single(inRemoval) /\ (inRemoval = {} <=> c \notin removing)
  BY DEF Single
<1>6. Single(inRequest) /\ (inRequest = {} <=> c \notin InUse)
  BY <1>1 DEF Single, RequestShape, InUse, Holding
<1> HIDE DEF inPool, inFresh, inRemoval, inRequest
<1>7. /\ Cardinality(inPool) = IF c \in Pooled THEN 1 ELSE 0
      /\ Cardinality(inFresh) = IF c \in FreshIds THEN 1 ELSE 0
      /\ Cardinality(inRemoval) = IF c \in removing THEN 1 ELSE 0
      /\ Cardinality(inRequest) = IF c \in InUse THEN 1 ELSE 0
  BY <1>3, <1>4, <1>5, <1>6, SingleCounts
<1>8. Held = Pooled \cup FreshIds \cup removing \cup InUse
  BY DEF Held, FreshIds
<1>9. \/ c \notin Pooled /\ c \notin FreshIds /\ c \notin removing
      \/ c \notin Pooled /\ c \notin FreshIds /\ c \notin InUse
      \/ c \notin Pooled /\ c \notin removing /\ c \notin InUse
      \/ c \notin FreshIds /\ c \notin removing /\ c \notin InUse
  BY <1>1 DEF Apart
<1> QED
  BY <1>2, <1>7, <1>8, <1>9

\* For any number of keys, containers, requests, limits, faults and restarts: a container
\* has one owner or, once it is gone or lost, none, and the pool keeps to its limits.
THEOREM PoolStaysSound == SandboxSpec => []PoolSound
<1>1. SandboxInit => PoolInvariant
  <2>1. SandboxInit => Emptied
    BY DEF SandboxInit, Emptied
  <2> QED
    BY <2>1, EmptyIsSound
<1>2. PoolInvariant /\ [SandboxNext]_sandboxVars => PoolInvariant'
  <2>1. ASSUME PoolInvariant, SandboxNext PROVE PoolInvariant'
    BY <2>1, ReplenishmentKeeps, LifecycleKeeps, RequestedKeeps, ServedStays DEF SandboxNext
  <2>2. ASSUME PoolInvariant, UNCHANGED sandboxVars PROVE PoolInvariant'
    <3>1. HoldersStay
      BY <2>2 DEF PoolInvariant, FreshShape, HoldersStay, sandboxVars, poolVars, daemonVars
    <3> QED
      BY <2>2, <3>1, StayKeeps
  <2> QED
    BY <2>1, <2>2
<1>3. PoolInvariant => PoolSound
  <2> SUFFICES ASSUME PoolInvariant PROVE PoolSound
    OBVIOUS
  <2>1. WarmShape /\ Accounted
    BY DEF PoolInvariant
  <2>2. OneOwner
    <3>1. \A c \in Containers : Places(c) = IF c \in Held THEN 1 ELSE 0
      BY PlacesCounted
    <3>2. Held \subseteq Containers
      <4>1. Pooled \subseteq Containers
        BY <2>1 DEF Pooled, WarmShape, Elements
      <4>2. FreshIds \subseteq Containers /\ removing \subseteq Containers
        BY DEF PoolInvariant, FreshShape, FreshIds, Made
      <4>3. ASSUME NEW r \in Requests, request[r].at \in Holding PROVE request[r].id \in Containers
        <5>1. request[r] \in RequestRecords
          BY DEF PoolInvariant, RequestShape
        <5> QED
          BY <4>3, <5>1 DEF RequestRecords, Holding, Idle, Waits
      <4>4. InUse \subseteq Containers
        BY <4>3 DEF InUse, Holding
      <4> QED
        BY <4>1, <4>2, <4>4 DEF Held, FreshIds
    <3>3. \A c \in Containers : Places(c) <= 1
      BY <3>1
    <3>4. \A c \in exists \ strays : Places(c) = 1
      BY <2>1, <3>1, <3>2 DEF Accounted
    <3> QED
      BY <3>3, <3>4 DEF OneOwner
  <2>3. PoolBounded
    <3>1. Cardinality(Elements(keyOrder)) = Len(keyOrder)
      BY <2>1, DistinctCounts DEF WarmShape
    <3> QED
      BY <2>1, <3>1 DEF WarmShape, PoolBounded
  <2> QED
    BY <2>2, <2>3 DEF PoolSound
<1> QED
  BY <1>1, <1>2, <1>3, PTL DEF SandboxSpec

=============================================================================
