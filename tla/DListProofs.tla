---------------------------- MODULE DListProofs ----------------------------
(***************************************************************************)
(* What the list operations preserve: facts about DList that the proofs    *)
(* about the modules that keep such lists cite.                            *)
(***************************************************************************)
EXTENDS DList, TLAPS

(* Deleting the node at position i (dlist_delete) closes the gap and keeps *)
(* the other nodes in order.                                                *)
LEMMA RemoveAtProperties ==
    ASSUME NEW S, NEW s \in Seq(S), NEW i \in DOMAIN s
    PROVE  /\ RemoveAt(s, i) \in Seq(S)
           /\ Len(RemoveAt(s, i)) = Len(s) - 1
           /\ DOMAIN RemoveAt(s, i) = 1..(Len(s) - 1)
           /\ \A j \in 1..(Len(s) - 1) :
                 RemoveAt(s, i)[j] = IF j < i THEN s[j] ELSE s[j + 1]
  <1> DEFINE a == SubSeq(s, 1, i - 1)
             b == SubSeq(s, i + 1, Len(s))
  <1>1. i \in 1..Len(s) /\ Len(s) \in Nat
    OBVIOUS
  <1>2. a \in Seq(S) /\ Len(a) = i - 1 /\ \A j \in 1..(i - 1) : a[j] = s[j]
    BY <1>1
  <1>3. /\ b \in Seq(S) /\ Len(b) = Len(s) - i
        /\ \A j \in 1..(Len(s) - i) : b[j] = s[i + j]
    BY <1>1
  <1>4. RemoveAt(s, i) = a \o b
    BY DEF RemoveAt
  <1> HIDE DEF a, b
  <1>5. a \o b \in Seq(S) /\ Len(a \o b) = Len(s) - 1
    BY <1>1, <1>2, <1>3
  <1>6. ASSUME NEW j \in 1..(Len(s) - 1)
        PROVE  (a \o b)[j] = IF j < i THEN s[j] ELSE s[j + 1]
    <2>1. CASE j < i
      BY <1>1, <1>2, <1>3, <2>1
    <2>2. CASE ~(j < i)
      <3>1. (a \o b)[j] = b[j - (i - 1)]
        BY <1>1, <1>2, <1>3, <2>2
      <3>2. j - (i - 1) \in 1..(Len(s) - i)
        BY <1>1, <2>2
      <3>3. b[j - (i - 1)] = s[i + (j - (i - 1))]
        BY <1>3, <3>2
      <3> QED BY <3>1, <3>3, <2>2, <1>1
    <2> QED BY <2>1, <2>2
  <1> QED BY <1>4, <1>5, <1>6

(* A list without its node i holds what the list held, except that datum   *)
(* when it was there once.                                                  *)
LEMMA RemoveAtRange ==
    ASSUME NEW S, NEW s \in Seq(S), NEW i \in DOMAIN s
    PROVE  /\ ToSet(RemoveAt(s, i)) \subseteq ToSet(s)
           /\ ToSet(s) \ {s[i]} \subseteq ToSet(RemoveAt(s, i))
           /\ IsInjective(s) => ToSet(RemoveAt(s, i)) = ToSet(s) \ {s[i]}
           /\ IsInjective(s) => IsInjective(RemoveAt(s, i))
  <1> DEFINE r == RemoveAt(s, i)
  <1>a. /\ DOMAIN r = 1..(Len(s) - 1)
        /\ \A j \in 1..(Len(s) - 1) : r[j] = IF j < i THEN s[j] ELSE s[j + 1]
    BY RemoveAtProperties, Zenon
  <1>b. Len(s) \in Nat /\ i \in 1..Len(s) /\ DOMAIN s = 1..Len(s)
    OBVIOUS
  <1> HIDE DEF r
  <1>0. /\ DOMAIN r = 1..(Len(s) - 1) /\ Len(s) \in Nat /\ i \in 1..Len(s)
        /\ DOMAIN s = 1..Len(s)
        /\ \A j \in 1..(Len(s) - 1) : r[j] = IF j < i THEN s[j] ELSE s[j + 1]
    BY <1>a, <1>b
  <1>1. ToSet(r) \subseteq ToSet(s)
    BY <1>0 DEF ToSet
  <1>2. ASSUME NEW j \in DOMAIN s, j # i
        PROVE  \E k \in DOMAIN r : r[k] = s[j]
    <2>1. CASE j < i
      BY <1>0, <2>1
    <2>2. CASE j > i
      <3>1. j - 1 \in DOMAIN r /\ r[j - 1] = s[j]
        BY <1>0, <2>2
      <3> QED BY <3>1
    <2> QED BY <1>0, <1>2, <2>1, <2>2
  <1>3. ToSet(s) \ {s[i]} \subseteq ToSet(r)
    BY <1>2 DEF ToSet
  <1>4. IsInjective(s) => s[i] \notin ToSet(r)
    BY <1>0 DEF ToSet, IsInjective
  <1>5. IsInjective(s) => IsInjective(r)
    <2> SUFFICES ASSUME IsInjective(s), NEW j \in DOMAIN r, NEW k \in DOMAIN r,
                        r[j] = r[k]
                 PROVE  j = k
      BY DEF IsInjective
    <2> DEFINE at(n) == IF n < i THEN n ELSE n + 1
    <2>1. at(j) \in DOMAIN s /\ at(k) \in DOMAIN s
      BY <1>0
    <2>2. s[at(j)] = s[at(k)]
      BY <1>0
    <2>3. at(j) = at(k)
      BY <2>1, <2>2, Zenon DEF IsInjective
    <2> QED BY <1>0, <2>3
  <1>6. IsInjective(s) => ToSet(r) = ToSet(s) \ {s[i]}
    BY <1>1, <1>3, <1>4
  <1> QED BY <1>1, <1>3, <1>5, <1>6 DEF r

(* dlist_add with a compare function keeps the nodes of a list unique. *)
LEMMA DListAddKeeps ==
    ASSUME NEW S, NEW s \in Seq(S), NEW x \in S, NEW key, DListUnique(s, key)
    PROVE  /\ DListAdd(s, x, key) \in Seq(S)
           /\ DListUnique(DListAdd(s, x, key), key)
           /\ ToSet(DListAdd(s, x, key)) \in {ToSet(s), ToSet(s) \cup {x}}
  <1>1. CASE DListHas(s, x, key)
    BY <1>1 DEF DListAdd
  <1>2. CASE ~DListHas(s, x, key)
    <2> DEFINE a == Append(s, x)
    <2>1. /\ a \in Seq(S) /\ Len(s) \in Nat /\ DOMAIN s = 1..Len(s)
          /\ DOMAIN a = 1..(Len(s) + 1) /\ a[Len(s) + 1] = x
          /\ \A j \in 1..Len(s) : a[j] = s[j]
      OBVIOUS
    <2>2. DListAdd(s, x, key) = a
      BY <1>2 DEF DListAdd
    <2> HIDE DEF a
    <2>3. DListUnique(a, key)
      <3> SUFFICES ASSUME NEW j \in DOMAIN a, NEW k \in DOMAIN a,
                          key[a[j]] = key[a[k]]
                   PROVE  j = k
        BY DEF DListUnique
      <3>1. \A n \in 1..Len(s) : key[a[n]] # key[x]
        BY <1>2, <2>1 DEF DListHas
      <3>2. \A m, n \in 1..Len(s) : key[a[m]] = key[a[n]] => m = n
        BY <2>1 DEF DListUnique
      <3>3. \A n \in DOMAIN a : n \in 1..Len(s) \/ (n = Len(s) + 1 /\ a[n] = x)
        BY <2>1
      <3> QED BY <3>1, <3>2, <3>3
    <2>4. ToSet(a) = ToSet(s) \cup {x}
      <3>1. ASSUME NEW y \in ToSet(a) PROVE y \in ToSet(s) \cup {x}
        <4>1. PICK j \in DOMAIN a : y = a[j]
          BY DEF ToSet
        <4>2. CASE j = Len(s) + 1
          BY <2>1, <4>1, <4>2
        <4>3. CASE j \in 1..Len(s)
          BY <2>1, <4>1, <4>3 DEF ToSet
        <4> QED BY <2>1, <4>2, <4>3
      <3>2. ASSUME NEW y \in ToSet(s) PROVE y \in ToSet(a)
        <4>1. PICK j \in DOMAIN s : y = s[j]
          BY DEF ToSet
        <4>2. j \in DOMAIN a /\ a[j] = y
          BY <2>1, <4>1
        <4> QED BY <4>2 DEF ToSet
      <3>3. x \in ToSet(a)
        <4>1. Len(s) + 1 \in DOMAIN a /\ a[Len(s) + 1] = x
          BY <2>1
        <4> QED BY <4>1 DEF ToSet
      <3> QED BY <3>1, <3>2, <3>3
    <2> QED BY <2>1, <2>2, <2>3, <2>4
  <1> QED BY <1>1, <1>2

(* dlist_delete of the data of the head of a list removes the head, and     *)
(* leaves no other node with that data when the nodes were unique.          *)
LEMMA DListDeleteHead ==
    ASSUME NEW S, NEW s \in Seq(S), s # <<>>, NEW key, DListUnique(s, key)
    PROVE  /\ DListDelete(s, s[1], key) = RemoveAt(s, 1)
           /\ DListDelete(s, s[1], key) \in Seq(S)
           /\ DListUnique(DListDelete(s, s[1], key), key)
           /\ ToSet(DListDelete(s, s[1], key)) = ToSet(s) \ {s[1]}
  <1> DEFINE r == RemoveAt(s, 1)
             IsFirst(i) == /\ key[s[i]] = key[s[1]]
                           /\ \A j \in DOMAIN s : key[s[j]] = key[s[1]] => i <= j
  <1>1. Len(s) \in Nat /\ DOMAIN s = 1..Len(s) /\ 1 \in DOMAIN s
    OBVIOUS
  <1>2. IsFirst(1) /\ \A i \in DOMAIN s : IsFirst(i) => i = 1
    BY <1>1 DEF DListUnique
  <1>3. (CHOOSE i \in DOMAIN s : IsFirst(i)) = 1
    BY <1>1, <1>2
  <1>4. DListHas(s, s[1], key)
    BY <1>1 DEF DListHas
  <1>5. DListDelete(s, s[1], key) = r
    BY <1>3, <1>4 DEF DListDelete
  <1>6. /\ r \in Seq(S) /\ DOMAIN r = 1..(Len(s) - 1)
        /\ \A j \in 1..(Len(s) - 1) : r[j] = IF j < 1 THEN s[j] ELSE s[j + 1]
    BY <1>1, RemoveAtProperties, Zenon
  <1>7. IsInjective(s)
    BY DEF IsInjective, DListUnique
  <1>8. ToSet(r) = ToSet(s) \ {s[1]}
    BY <1>1, <1>7, RemoveAtRange, Zenon
  <1> HIDE DEF r
  <1>9. DListUnique(r, key)
    <2> SUFFICES ASSUME NEW j \in DOMAIN r, NEW k \in DOMAIN r,
                        key[r[j]] = key[r[k]]
                 PROVE  j = k
      BY DEF DListUnique
    <2>1. /\ j + 1 \in DOMAIN s /\ k + 1 \in DOMAIN s
          /\ r[j] = s[j + 1] /\ r[k] = s[k + 1]
      BY <1>1, <1>6
    <2>2. j + 1 = k + 1
      BY <2>1 DEF DListUnique
    <2> QED BY <2>2, <1>1, <1>6
  <1> QED BY <1>5, <1>6, <1>8, <1>9 DEF r

(* callback_list_add, without a compare function, keeps the nodes of a list *)
(* distinct only when the caller knows that the datum has no node yet.      *)
LEMMA AppendKeepsInjective ==
    ASSUME NEW S, NEW s \in Seq(S), NEW x \in S
    PROVE  /\ Append(s, x) \in Seq(S)
           /\ Append(s, x) # <<>>
           /\ ToSet(Append(s, x)) = ToSet(s) \cup {x}
           /\ IsInjective(s) /\ x \notin ToSet(s) => IsInjective(Append(s, x))
  <1> DEFINE a == Append(s, x)
  <1>1. /\ a \in Seq(S) /\ Len(s) \in Nat /\ DOMAIN s = 1..Len(s)
        /\ DOMAIN a = 1..(Len(s) + 1) /\ a[Len(s) + 1] = x /\ a # <<>>
        /\ \A j \in 1..Len(s) : a[j] = s[j]
    OBVIOUS
  <1> HIDE DEF a
  <1>2. ToSet(a) \subseteq ToSet(s) \cup {x}
    <2>1. SUFFICES ASSUME NEW j \in DOMAIN a PROVE a[j] \in ToSet(s) \cup {x}
      BY DEF ToSet
    <2>2. j \in DOMAIN s \/ j = Len(s) + 1
      BY <1>1
    <2> QED BY <1>1, <2>2 DEF ToSet
  <1>3. ToSet(s) \cup {x} \subseteq ToSet(a)
    <2>1. ASSUME NEW j \in DOMAIN s PROVE \E k \in DOMAIN a : a[k] = s[j]
      BY <1>1
    <2>2. \E k \in DOMAIN a : a[k] = x
      BY <1>1
    <2> QED BY <2>1, <2>2 DEF ToSet
  <1>4. ASSUME IsInjective(s), x \notin ToSet(s),
               NEW j \in DOMAIN a, NEW k \in DOMAIN a, a[j] = a[k]
        PROVE  j = k
    <2>1. \A n \in DOMAIN s : s[n] # x
      BY <1>4 DEF ToSet
    <2>2. \A m, n \in DOMAIN s : s[m] = s[n] => m = n
      BY <1>4 DEF IsInjective
    <2>3. \A n \in DOMAIN a : (n \in DOMAIN s /\ a[n] = s[n]) \/ (n = Len(s) + 1 /\ a[n] = x)
      BY <1>1
    <2> QED BY <1>4, <2>1, <2>2, <2>3
  <1>5. IsInjective(s) /\ x \notin ToSet(s) => IsInjective(a)
    BY <1>4 DEF IsInjective
  <1> QED BY <1>1, <1>2, <1>3, <1>5 DEF a
=============================================================================
