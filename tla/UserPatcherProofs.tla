-------------------------- MODULE UserPatcherProofs --------------------------
(***************************************************************************)
(* The lookup storage of UserPatcher, for any numbers of storages and      *)
(* references, any growth factors, and whichever allocations fail: no      *)
(* vector overestimates its array, every block has exactly one owner, and  *)
(* the storages are a list.  And the wrappers in front of a program's      *)
(* entry point, for every alignment of the stack: main() runs as if it had *)
(* been entered first.                                                     *)
(***************************************************************************)
EXTENDS UserPatcher, TLAPS

(* The strengthening of the invariants *)

\* A vector of elements of S with as many slots as it believes to have.
SoundVector(v, S) ==
    /\ v \in [ptr : Seq(S \cup {Null}), cnt : Nat, rsvd : Nat]
    /\ v.cnt <= v.rsvd
    /\ v.rsvd = Len(v.ptr)
    /\ \A i \in 1 .. v.cnt : v.ptr[i] \in S

SoundVectors(f, Owners, S) ==
    /\ f = [o \in Owners |-> f[o]]
    /\ \A o \in Owners : SoundVector(f[o], S)

LookupTypeOK ==
    /\ SoundVector(lookupStorage, Storages)
    /\ page \in [Storages -> BOOLEAN]
    /\ SoundVectors(refs, Storages, PatchRefs)
    /\ SoundVectors(pageOffs, PatchRefs, {0})
    /\ SoundVectors(segOffs, PatchRefs, {0})
    /\ newStorage \in Storages \cup {Null}
    /\ newRef \in PatchRefs \cup {Null}
    /\ creating \in BOOLEAN
    /\ creating => newStorage # Null

\* What nobody reaches is blank: it may be created anew.
UnreachedIsBlank ==
    /\ \A s \in Storages \ Reachable : ~ page[s] /\ refs[s] = V!Empty
    /\ \A r \in PatchRefs \ ReachableRefs : pageOffs[r] = V!Empty /\ segOffs[r] = V!Empty

-----------------------------------------------------------------------------
(* evector *)

\* A sequence without its element i.
LEMMA RemoveAtIs ==
    ASSUME NEW S, NEW s \in Seq(S), NEW i \in 1 .. Len(s)
    PROVE  /\ RemoveAt(s, i) \in Seq(S)
           /\ Len(RemoveAt(s, i)) = Len(s) - 1
           /\ \A j \in 1 .. Len(s) - 1 :
                 RemoveAt(s, i)[j] = IF j < i THEN s[j] ELSE s[j + 1]
<1> DEFINE front == SubSeq(s, 1, i - 1)
           back == SubSeq(s, i + 1, Len(s))
<1>1. front \in Seq(S) /\ Len(front) = i - 1 /\ \A j \in 1 .. i - 1 : front[j] = s[j]
  OBVIOUS
<1>2. back \in Seq(S) /\ Len(back) = Len(s) - i
          /\ \A j \in 1 .. Len(s) - i : back[j] = s[i + j]
  OBVIOUS
<1>3. RemoveAt(s, i) = front \o back
  BY DEF RemoveAt
<1> HIDE DEF front, back
<1>4. front \o back \in Seq(S) /\ Len(front \o back) = Len(s) - 1
  BY <1>1, <1>2
<1>5. \A j \in 1 .. Len(s) - 1 : (front \o back)[j] = IF j < i THEN front[j] ELSE back[j - (i - 1)]
  BY <1>1, <1>2
<1>6. \A j \in 1 .. Len(s) - 1 : (front \o back)[j] = IF j < i THEN s[j] ELSE s[j + 1]
  BY <1>1, <1>2, <1>5
<1> QED
  BY <1>3, <1>4, <1>6

\* A vector is born without an array.
LEMMA EmptyIs == V!Empty = [ptr |-> << >>, cnt |-> 0, rsvd |-> 0]
  BY Zenon DEF V!Empty

\* A vector that has just been made, or torn down, is sound and has no elements.
LEMMA EmptyIsSound ==
    ASSUME NEW S
    PROVE  /\ SoundVector(V!Empty, S)
           /\ V!Stored(V!Empty) = << >>
           /\ Range(V!Stored(V!Empty)) = {}
<1> DEFINE e == [ptr |-> << >>, cnt |-> 0, rsvd |-> 0]
<1>1. SoundVector(e, S)
  BY DEF SoundVector
<1>2. V!Stored(e) = << >>
  BY DEF V!Stored
<1>3. Range(<< >>) = {}
  BY DEF Range
<1> QED
  BY <1>1, <1>2, <1>3, EmptyIs

\* size() elements of data().
LEMMA StoredIs ==
    ASSUME NEW S, NEW v, SoundVector(v, S)
    PROVE  /\ V!Stored(v) \in Seq(S)
           /\ Len(V!Stored(v)) = v.cnt
           /\ \A i \in 1 .. v.cnt : V!Stored(v)[i] = v.ptr[i]
           /\ DOMAIN V!Stored(v) = 1 .. v.cnt
  BY DEF V!Stored, SoundVector

\* reserve<MUL>(num) asks for no less than num slots.
LEMMA FactorGrows ==
    ASSUME NEW mul \in Nat \ {0}, NEW num \in Nat
    PROVE  mul * num \in Nat /\ num <= mul * num
<1>1. mul - 1 \in Nat
  OBVIOUS
<1>2. (mul - 1) * num \in Nat
  BY <1>1
<1>3. mul * num = (mul - 1) * num + num
  OBVIOUS
<1> QED
  BY <1>2, <1>3

\* reserve() makes room and moves nothing.
LEMMA ReserveIsSound ==
    ASSUME NEW S, NEW v, SoundVector(v, S), NEW mul \in Nat \ {0}
    PROVE  LET r == V!Reserve(v, mul, v.cnt + 1)
           IN  /\ SoundVector(r, S)
               /\ r.cnt = v.cnt
               /\ v.cnt + 1 <= r.rsvd
               /\ \A i \in 1 .. v.cnt : r.ptr[i] = v.ptr[i]
<1> DEFINE num == v.cnt + 1
           grown == [i \in 1 .. mul * num |-> IF i <= Len(v.ptr) THEN v.ptr[i] ELSE Null]
<1>1. v.cnt \in Nat /\ v.rsvd \in Nat /\ v.ptr \in Seq(S \cup {Null}) /\ v.rsvd = Len(v.ptr)
  BY DEF SoundVector
<1>2. CASE num <= v.rsvd
  BY <1>1, <1>2 DEF V!Reserve, V!Fits
<1>3. CASE ~ (num <= v.rsvd)
  <2> num \in Nat
    BY <1>1
  <2>1. mul * num \in Nat /\ num <= mul * num
    <3> HIDE DEF num
    <3> QED
      BY FactorGrows
  <2>2. grown \in Seq(S \cup {Null}) /\ Len(grown) = mul * num
    <3> DEFINE n == mul * num
               T == S \cup {Null}
    <3>1. n \in Nat /\ Null \in T /\ v.ptr \in Seq(T)
      BY <1>1, <2>1
    <3>2. grown = [i \in 1 .. n |-> IF i <= Len(v.ptr) THEN v.ptr[i] ELSE Null]
      OBVIOUS
    <3> HIDE DEF n, T, grown
    <3>3. grown \in Seq(T) /\ Len(grown) = n
      BY <3>1, <3>2
    <3> QED
      BY <3>3 DEF n, T
  <2>3. V!Reserve(v, mul, num) = [v EXCEPT !.ptr = grown, !.rsvd = mul * num]
    BY <1>3, Zenon DEF V!Reserve, V!Fits
  <2> DEFINE r == V!Reserve(v, mul, num)
  <2>4. v = [ptr |-> v.ptr, cnt |-> v.cnt, rsvd |-> v.rsvd]
    BY DEF SoundVector
  <2>5. r = [ptr |-> grown, cnt |-> v.cnt, rsvd |-> mul * num]
    BY <2>3, <2>4
  <2>6. \A i \in 1 .. v.cnt : v.ptr[i] \in S /\ grown[i] = v.ptr[i]
    <3>1. v.cnt <= Len(v.ptr) /\ v.cnt <= mul * num /\ \A i \in 1 .. v.cnt : v.ptr[i] \in S
      BY <1>1, <2>1 DEF SoundVector
    <3> QED
      BY <3>1, <1>1, <2>1
  <2>7. v.cnt <= mul * num
    BY <1>1, <2>1
  <2> HIDE DEF grown, r
  <2>8. SoundVector(r, S)
    BY <1>1, <2>1, <2>2, <2>5, <2>6, <2>7 DEF SoundVector
  <2> QED
    BY <1>1, <2>1, <2>5, <2>6, <2>8 DEF r
<1> QED
  BY <1>2, <1>3

\* push_back() appends, and leaves a sound vector.
LEMMA PushBackAppends ==
    ASSUME NEW S, NEW v, SoundVector(v, S), NEW mul \in Nat \ {0}, NEW e \in S
    PROVE  /\ SoundVector(V!PushBack(v, mul, e), S)
           /\ V!Stored(V!PushBack(v, mul, e)) = Append(V!Stored(v), e)
           /\ V!PushBack(v, mul, e).ptr # << >>
<1> DEFINE r == V!Reserve(v, mul, v.cnt + 1)
           p == V!PushBack(v, mul, e)
<1>1. SoundVector(r, S) /\ r.cnt = v.cnt /\ v.cnt + 1 <= r.rsvd
          /\ \A i \in 1 .. v.cnt : r.ptr[i] = v.ptr[i]
  BY ReserveIsSound, SMTT(60)
<1>2. p = [r EXCEPT !.ptr[v.cnt + 1] = e, !.cnt = @ + 1]
  BY DEF V!PushBack
<1> HIDE DEF r, p
<1>3. v.cnt \in Nat /\ r.rsvd \in Nat /\ r.rsvd = Len(r.ptr) /\ r.ptr \in Seq(S \cup {Null})
  BY <1>1 DEF SoundVector
<1>4. p.ptr = [r.ptr EXCEPT ![v.cnt + 1] = e] /\ p.cnt = v.cnt + 1 /\ p.rsvd = r.rsvd
          /\ p = [ptr |-> p.ptr, cnt |-> p.cnt, rsvd |-> p.rsvd]
  BY <1>1, <1>2 DEF SoundVector
<1>5. p.ptr \in Seq(S \cup {Null}) /\ Len(p.ptr) = r.rsvd /\ p.ptr[v.cnt + 1] = e
          /\ \A i \in 1 .. v.cnt : p.ptr[i] = v.ptr[i]
  BY <1>1, <1>3, <1>4
<1>6. p \in [ptr : Seq(S \cup {Null}), cnt : Nat, rsvd : Nat]
  BY <1>3, <1>4, <1>5
<1>7. SoundVector(p, S)
  BY <1>1, <1>3, <1>4, <1>5, <1>6 DEF SoundVector
<1>8. V!Stored(p) = Append(V!Stored(v), e)
  <2>1. V!Stored(p) \in Seq(S) /\ Len(V!Stored(p)) = v.cnt + 1
            /\ \A i \in 1 .. v.cnt + 1 : V!Stored(p)[i] = p.ptr[i]
    BY <1>4, <1>7, StoredIs
  <2>2. V!Stored(v) \in Seq(S) /\ Len(V!Stored(v)) = v.cnt
            /\ \A i \in 1 .. v.cnt : V!Stored(v)[i] = v.ptr[i]
    BY StoredIs
  <2>3. Append(V!Stored(v), e) \in Seq(S) /\ Len(Append(V!Stored(v), e)) = v.cnt + 1
            /\ \A i \in 1 .. v.cnt + 1 :
                  Append(V!Stored(v), e)[i] = IF i = v.cnt + 1 THEN e ELSE v.ptr[i]
    BY <2>2, <1>3
  <2>4. \A i \in 1 .. v.cnt + 1 : V!Stored(p)[i] = Append(V!Stored(v), e)[i]
    BY <2>1, <2>3, <1>5, <1>3
  <2> HIDE DEF p
  <2> QED
    BY <2>1, <2>3, <2>4, SMT
<1>9. p.ptr # << >>
  BY <1>1, <1>3, <1>5
<1> QED
  BY <1>7, <1>8, <1>9 DEF p

\* erase() moves the elements behind the erased one down by one.
LEMMA EraseRemoves ==
    ASSUME NEW S, NEW v, SoundVector(v, S), NEW index \in Nat, index < v.cnt, NEW free \in BOOLEAN
    PROVE  /\ SoundVector(V!Erase(v, index, free), S)
           /\ V!Stored(V!Erase(v, index, free)) = RemoveAt(V!Stored(v), index + 1)
           /\ V!Erase(v, index, free).ptr # << >> => v.ptr # << >>
<1> DEFINE p == V!Erase(v, index, free)
           s == V!Stored(v)
<1>1. v.cnt \in Nat /\ v.rsvd \in Nat /\ v.rsvd = Len(v.ptr) /\ v.ptr \in Seq(S \cup {Null})
          /\ v.cnt <= v.rsvd /\ v = [ptr |-> v.ptr, cnt |-> v.cnt, rsvd |-> v.rsvd]
          /\ \A i \in 1 .. v.cnt : v.ptr[i] \in S
  BY DEF SoundVector
<1>2. s \in Seq(S) /\ Len(s) = v.cnt /\ \A i \in 1 .. v.cnt : s[i] = v.ptr[i]
  BY StoredIs
<1>3. CASE free /\ v.cnt = 1
  <2>1. p = V!Empty
    BY <1>3, Zenon DEF V!Erase
  <2>2. index = 0
    BY <1>3
  <2>3. RemoveAt(s, 1) = << >>
    <3> HIDE DEF s
    <3> QED
      BY <1>2, <1>3 DEF RemoveAt
  <2> QED
    BY <2>1, <2>2, <2>3, EmptyIsSound, EmptyIs
<1>4. CASE ~ (free /\ v.cnt = 1)
  <2> DEFINE moved == [i \in 1 .. Len(v.ptr) |->
                 IF i > index /\ i < v.cnt THEN v.ptr[i + 1] ELSE v.ptr[i]]
  <2>1. p = [v EXCEPT !.cnt = @ - 1, !.ptr = moved]
    BY <1>4, Zenon DEF V!Erase
  <2>2. moved \in Seq(S \cup {Null}) /\ Len(moved) = Len(v.ptr)
    BY <1>1
  <2>3. \A i \in 1 .. v.cnt - 1 :
            moved[i] = (IF i > index THEN v.ptr[i + 1] ELSE v.ptr[i]) /\ moved[i] \in S
    BY <1>1
  <2> HIDE DEF moved, s, p
  <2>4. p.ptr = moved /\ p.cnt = v.cnt - 1 /\ p.rsvd = v.rsvd
            /\ p = [ptr |-> moved, cnt |-> v.cnt - 1, rsvd |-> v.rsvd]
    BY <1>1, <2>1
  <2>5. SoundVector(p, S)
    BY <1>1, <2>2, <2>3, <2>4 DEF SoundVector
  <2>6. V!Stored(p) \in Seq(S) /\ Len(V!Stored(p)) = v.cnt - 1
            /\ \A i \in 1 .. v.cnt - 1 : V!Stored(p)[i] = moved[i]
    BY <2>4, <2>5, StoredIs
  <2>7. RemoveAt(s, index + 1) \in Seq(S) /\ Len(RemoveAt(s, index + 1)) = v.cnt - 1
            /\ \A i \in 1 .. v.cnt - 1 :
                  RemoveAt(s, index + 1)[i] = IF i < index + 1 THEN s[i] ELSE s[i + 1]
    <3> DEFINE n == index + 1
    <3>1. n \in 1 .. Len(s)
      BY <1>1, <1>2
    <3> HIDE DEF n
    <3>2. /\ RemoveAt(s, n) \in Seq(S)
          /\ Len(RemoveAt(s, n)) = Len(s) - 1
          /\ \A i \in 1 .. Len(s) - 1 : RemoveAt(s, n)[i] = IF i < n THEN s[i] ELSE s[i + 1]
      BY <1>2, <3>1, RemoveAtIs, Zenon
    <3>3. Len(s) = v.cnt
      BY <1>2
    <3> QED
      BY <3>2, <3>3, Zenon DEF n
  <2>8. ASSUME NEW i \in 1 .. v.cnt - 1
        PROVE  V!Stored(p)[i] = RemoveAt(s, index + 1)[i]
    <3>1. i \in 1 .. v.cnt /\ i + 1 \in 1 .. v.cnt /\ (i > index <=> ~ (i < index + 1))
      BY <1>1
    <3>2. s[i] = v.ptr[i] /\ s[i + 1] = v.ptr[i + 1]
      BY <1>2, <3>1
    <3> QED
      BY <2>3, <2>6, <2>7, <3>1, <3>2
  <2>9. V!Stored(p) = RemoveAt(s, index + 1)
    <3> DEFINE a == V!Stored(p)
               b == RemoveAt(s, index + 1)
    <3>1. a \in Seq(S) /\ b \in Seq(S) /\ Len(a) = Len(b) /\ \A i \in 1 .. Len(a) : a[i] = b[i]
      BY <2>6, <2>7, <2>8
    <3> HIDE DEF a, b
    <3>2. a = b
      BY <3>1
    <3> QED
      BY <3>2 DEF a, b
  <2>10. v.ptr # << >>
    BY <1>1
  <2> QED
    BY <2>5, <2>9, <2>10 DEF p, s
<1> QED
  BY <1>3, <1>4

\* deinit() leaves an empty vector, also one that never had an array.
LEMMA DeinitEmpties ==
    ASSUME NEW S, NEW v, SoundVector(v, S)
    PROVE  V!Deinit(v) = V!Empty
<1>1. CASE v.ptr = << >>
  <2>1. V!Deinit(v) = v
    BY <1>1, Zenon DEF V!Deinit
  <2>2. v.rsvd = 0 /\ v.cnt = 0 /\ v = [ptr |-> << >>, cnt |-> 0, rsvd |-> 0]
    BY <1>1 DEF SoundVector
  <2> QED
    BY <2>1, <2>2, EmptyIs
<1>2. CASE v.ptr # << >>
  BY <1>2, Zenon DEF V!Deinit
<1> QED
  BY <1>1, <1>2

-----------------------------------------------------------------------------
(* Elements as a set, and the array as a block *)

\* The elements after an insertion.
LEMMA AppendAddsOne ==
    ASSUME NEW S, NEW s \in Seq(S), NEW e
    PROVE  /\ Range(Append(s, e)) = Range(s) \cup {e}
           /\ IsInjective(s) /\ e \notin Range(s) => IsInjective(Append(s, e))
<1> DEFINE t == Append(s, e)
<1>1. DOMAIN s = 1 .. Len(s) /\ DOMAIN t = 1 .. Len(s) + 1 /\ Len(s) \in Nat
          /\ \A i \in 1 .. Len(s) + 1 : t[i] = IF i = Len(s) + 1 THEN e ELSE s[i]
  OBVIOUS
<1> HIDE DEF t
<1>2. Range(t) = Range(s) \cup {e}
  <2>1. e \in Range(t)
    BY <1>1 DEF Range
  <2>2. \A x \in Range(s) : x \in Range(t)
    BY <1>1 DEF Range
  <2>3. \A x \in Range(t) : x \in Range(s) \cup {e}
    BY <1>1 DEF Range
  <2> QED
    BY <2>1, <2>2, <2>3
<1>3. ASSUME IsInjective(s), e \notin Range(s)
      PROVE  IsInjective(t)
  BY <1>1, <1>3 DEF IsInjective, Range
<1> QED
  BY <1>2, <1>3 DEF t

\* The elements after a removal, when none is there twice.
LEMMA RemoveTakesOne ==
    ASSUME NEW S, NEW s \in Seq(S), NEW i \in 1 .. Len(s), IsInjective(s)
    PROVE  /\ Range(RemoveAt(s, i)) = Range(s) \ {s[i]}
           /\ IsInjective(RemoveAt(s, i))
<1> DEFINE t == RemoveAt(s, i)
<1>1. t \in Seq(S) /\ Len(t) = Len(s) - 1
          /\ \A j \in 1 .. Len(s) - 1 : t[j] = IF j < i THEN s[j] ELSE s[j + 1]
  BY RemoveAtIs
<1> HIDE DEF t
<1>2. DOMAIN s = 1 .. Len(s) /\ DOMAIN t = 1 .. Len(s) - 1 /\ Len(s) \in Nat /\ i \in Nat
  BY <1>1
<1>3. \A a, b \in 1 .. Len(s) : s[a] = s[b] => a = b
  BY <1>2 DEF IsInjective
<1>4. IsInjective(t)
  <2> SUFFICES ASSUME NEW a \in 1 .. Len(s) - 1, NEW b \in 1 .. Len(s) - 1, t[a] = t[b]
               PROVE  a = b
    BY <1>2 DEF IsInjective
  <2>1. a \in 1 .. Len(s) /\ a + 1 \in 1 .. Len(s) /\ b \in 1 .. Len(s) /\ b + 1 \in 1 .. Len(s)
    BY <1>2
  <2> QED
    BY <1>1, <1>2, <1>3, <2>1
<1>5. ASSUME NEW x \in Range(t)
      PROVE  x \in Range(s) \ {s[i]}
  <2>1. PICK a \in 1 .. Len(s) - 1 : x = t[a]
    BY <1>2 DEF Range
  <2>2. a \in 1 .. Len(s) /\ a + 1 \in 1 .. Len(s)
    BY <1>2
  <2>3. PICK b \in 1 .. Len(s) : x = s[b] /\ b # i
    BY <1>1, <1>2, <2>1, <2>2
  <2> QED
    BY <1>2, <1>3, <2>3 DEF Range
<1>6. ASSUME NEW x \in Range(s) \ {s[i]}
      PROVE  x \in Range(t)
  <2>1. PICK a \in 1 .. Len(s) : x = s[a] /\ a # i
    BY <1>2 DEF Range
  <2>2. CASE a < i
    <3>1. a \in 1 .. Len(s) - 1 /\ t[a] = x
      BY <1>1, <1>2, <2>1, <2>2
    <3> QED
      BY <1>2, <3>1 DEF Range
  <2>3. CASE a > i
    <3>1. a - 1 \in 1 .. Len(s) - 1 /\ t[a - 1] = x
      BY <1>1, <1>2, <2>1, <2>3
    <3> QED
      BY <1>2, <3>1 DEF Range
  <2> QED
    BY <1>2, <2>1, <2>2, <2>3
<1> QED
  BY <1>4, <1>5, <1>6 DEF t

\* The array of a vector after an insertion: the one it had, or a new one.
LEMMA PushArray ==
    ASSUME NEW S, NEW v, SoundVector(v, S), NEW mul \in Nat \ {0}, NEW e \in S,
           NEW kind, NEW owner
    PROVE  Array(V!PushBack(v, mul, e), kind, owner)
               = Array(v, kind, owner) \cup Grown(v, kind, owner)
<1>1. V!PushBack(v, mul, e).ptr # << >>
  BY PushBackAppends
<1>2. V!Fits(v, v.cnt + 1) => v.ptr # << >>
  BY DEF SoundVector, V!Fits
<1> QED
  BY <1>1, <1>2 DEF Array, Grown

\* A vector without slots owns no memory.
LEMMA EmptyArray ==
    ASSUME NEW kind, NEW owner
    PROVE  Array(V!Empty, kind, owner) = {}
  BY EmptyIs DEF Array

-----------------------------------------------------------------------------
(* Types: no vector overestimates its array *)

\* Replacing one vector of several.
LEMMA OneVectorChanges ==
    ASSUME NEW O, NEW S, NEW f, SoundVectors(f, O, S), NEW o \in O, NEW v, SoundVector(v, S)
    PROVE  SoundVectors([f EXCEPT ![o] = v], O, S)
<1> DEFINE g == [f EXCEPT ![o] = v]
<1>1. f = [p \in O |-> f[p]]
  BY DEF SoundVectors
<1>2. g = [p \in O |-> IF p = o THEN v ELSE f[p]]
  BY <1>1
<1> HIDE DEF g
<1>3. g = [p \in O |-> g[p]] /\ \A p \in O : g[p] = IF p = o THEN v ELSE f[p]
  BY <1>2
<1>4. \A p \in O : SoundVector(g[p], S)
  BY <1>3 DEF SoundVectors
<1> QED
  BY <1>3, <1>4 DEF SoundVectors, g

\* Emptying some vectors of several.
LEMMA SomeAreEmptied ==
    ASSUME NEW O, NEW S, NEW f, SoundVectors(f, O, S), NEW gone,
           NEW g, g = [o \in O |-> IF o \in gone THEN V!Empty ELSE f[o]]
    PROVE  SoundVectors(g, O, S)
<1>1. \A o \in O : SoundVector(g[o], S)
  BY EmptyIsSound DEF SoundVectors
<1> QED
  BY <1>1 DEF SoundVectors

\* The deleters leave what is left sound.
LEMMA ForgetTypes ==
    ASSUME LookupTypeOK, NEW gone, NEW goneRefs, Forget(gone, goneRefs)
    PROVE  /\ page' \in [Storages -> BOOLEAN]
           /\ SoundVectors(refs', Storages, PatchRefs)
           /\ SoundVectors(pageOffs', PatchRefs, {0})
           /\ SoundVectors(segOffs', PatchRefs, {0})
<1>1. page' \in [Storages -> BOOLEAN]
  BY DEF Forget, LookupTypeOK
<1>2. SoundVectors(refs', Storages, PatchRefs)
  BY SomeAreEmptied DEF Forget, LookupTypeOK
<1>3. SoundVectors(pageOffs', PatchRefs, {0})
  BY SomeAreEmptied DEF Forget, LookupTypeOK
<1>4. SoundVectors(segOffs', PatchRefs, {0})
  BY SomeAreEmptied DEF Forget, LookupTypeOK
<1> QED
  BY <1>1, <1>2, <1>3, <1>4

\* What the loader can reach are storages and references.
LEMMA ReachableTypes ==
    ASSUME LookupTypeOK
    PROVE  /\ Reachable \subseteq Storages
           /\ Range(V!Stored(lookupStorage)) \subseteq Storages
           /\ \A s \in Storages : RefsOf(s) \subseteq PatchRefs
           /\ ReachableRefs \subseteq PatchRefs
<1>1. ASSUME NEW S, NEW v, SoundVector(v, S)
      PROVE  Range(V!Stored(v)) \subseteq S
  BY <1>1, StoredIs DEF Range
<1>2. Range(V!Stored(lookupStorage)) \subseteq Storages
  BY <1>1 DEF LookupTypeOK
<1>3. Reachable \subseteq Storages
  BY <1>2 DEF Reachable, LookupTypeOK
<1>4. \A s \in Storages : RefsOf(s) \subseteq PatchRefs
  BY <1>1 DEF LookupTypeOK, SoundVectors, RefsOf
<1>5. ReachableRefs \subseteq PatchRefs
  <2>1. \A s \in Reachable : RefsOf(s) \subseteq PatchRefs
    BY <1>3, <1>4
  <2>2. {newRef} \ {Null} \subseteq PatchRefs
    BY DEF LookupTypeOK
  <2> QED
    BY <2>1, <2>2 DEF ReachableRefs
<1> QED
  BY <1>2, <1>3, <1>4, <1>5

\* The patcher starts without storages, references or arrays.
LEMMA TypeInit == Init => LookupTypeOK
  BY EmptyIsSound, UserLookupAssumption
     DEF Init, LookupInit, LookupTypeOK, SoundVectors

\* Each operation keeps the types, and every vector sound.
LEMMA TypeStep == LookupTypeOK /\ [Next]_vars => LookupTypeOK'
<1> SUFFICES ASSUME LookupTypeOK, [Next]_vars
             PROVE  LookupTypeOK'
  OBVIOUS
<1> USE UserLookupAssumption, UserPatcherAssumption
<1>1. CASE CreateNew
  BY <1>1 DEF CreateNew, LookupTypeOK, objects, Unused
<1>2. CASE CreatePage
  BY <1>2 DEF CreatePage, LookupTypeOK
<1>3. CASE CreatePageFails
  BY <1>3, ForgetTypes DEF CreatePageFails, DeleteStorage, LookupTypeOK
<1>4. CASE DropStorage
  BY <1>4, ForgetTypes DEF DropStorage, DeleteStorage, LookupTypeOK
<1>5. CASE CreateRef
  BY <1>5 DEF CreateRef, LookupTypeOK, objects, Unused
<1>6. CASE DropRef
  BY <1>6, ForgetTypes DEF DropRef, LookupTypeOK
<1>7. CASE DeinitStorage
  <2>1. SoundVector(lookupStorage', Storages)
    BY <1>7, DeinitEmpties, EmptyIsSound DEF DeinitStorage, LookupTypeOK
  <2> QED
    BY <1>7, <2>1, ForgetTypes DEF DeinitStorage, LookupTypeOK, loader
<1>8. ASSUME NEW mul \in Factors, PushStorage(mul)
      PROVE  LookupTypeOK'
  <2>1. SoundVector(lookupStorage', Storages)
    BY <1>8, PushBackAppends DEF PushStorage, LookupTypeOK
  <2> QED
    BY <1>8, <2>1 DEF PushStorage, LookupTypeOK, objects
<1>9. ASSUME NEW r \in ReachableRefs, NEW mul \in Factors, PushPageOff(r, mul)
      PROVE  LookupTypeOK'
  <2>1. r \in PatchRefs
    BY ReachableTypes
  <2>2. SoundVector(V!PushBack(pageOffs[r], mul, 0), {0})
    BY <2>1, PushBackAppends DEF LookupTypeOK, SoundVectors
  <2>3. SoundVectors(pageOffs', PatchRefs, {0})
    BY <1>9, <2>1, <2>2, OneVectorChanges DEF PushPageOff, LookupTypeOK
  <2> QED
    BY <1>9, <2>3 DEF PushPageOff, LookupTypeOK, loader
<1>10. ASSUME NEW r \in ReachableRefs, NEW mul \in Factors, PushSegOff(r, mul)
       PROVE  LookupTypeOK'
  <2>1. r \in PatchRefs
    BY ReachableTypes
  <2>2. SoundVector(V!PushBack(segOffs[r], mul, 0), {0})
    BY <2>1, PushBackAppends DEF LookupTypeOK, SoundVectors
  <2>3. SoundVectors(segOffs', PatchRefs, {0})
    BY <1>10, <2>1, <2>2, OneVectorChanges DEF PushSegOff, LookupTypeOK
  <2> QED
    BY <1>10, <2>3 DEF PushSegOff, LookupTypeOK, loader
<1>11. ASSUME NEW s \in Reachable, NEW mul \in Factors, PushRef(s, mul)
       PROVE  LookupTypeOK'
  <2>1. s \in Storages /\ newRef \in PatchRefs
    BY <1>11, ReachableTypes DEF PushRef, LookupTypeOK
  <2>2. SoundVector(V!PushBack(refs[s], mul, newRef), PatchRefs)
    BY <2>1, PushBackAppends DEF LookupTypeOK, SoundVectors
  <2>3. SoundVectors(refs', Storages, PatchRefs)
    BY <1>11, <2>1, <2>2, OneVectorChanges DEF PushRef, LookupTypeOK
  <2> QED
    BY <1>11, <2>3 DEF PushRef, LookupTypeOK
<1>12. ASSUME NEW index \in 0 .. (lookupStorage.cnt - 1), NEW free \in BOOLEAN,
              EraseStorage(index, free)
       PROVE  LookupTypeOK'
  <2>1. index \in Nat /\ index < lookupStorage.cnt /\ SoundVector(lookupStorage, Storages)
    BY <1>12 DEF LookupTypeOK, SoundVector
  <2>2. SoundVector(lookupStorage', Storages)
    BY <1>12, <2>1, EraseRemoves DEF EraseStorage
  <2>3. Forget({lookupStorage.ptr[index + 1]}, RefsOf(lookupStorage.ptr[index + 1]))
    BY <1>12 DEF EraseStorage
  <2> QED
    BY <1>12, <2>2, <2>3, ForgetTypes DEF EraseStorage, LookupTypeOK, loader
<1>13. CASE UNCHANGED lvars
  BY <1>13 DEF lvars, objects, loader, memory, LookupTypeOK
<1> QED
  BY <1>1, <1>2, <1>3, <1>4, <1>5, <1>6, <1>7, <1>8, <1>9, <1>10, <1>11, <1>12, <1>13
     DEF Next, Activate, Running, vars

\* Types, for any numbers of storages and references and any growth factors.
THEOREM TypeCorrect == Spec => []LookupTypeOK
<1> QED
  BY TypeInit, TypeStep, PTL DEF Spec

\* A vector never believes it has more slots than were allocated, so that no
\* element is written outside of its array.
THEOREM SlotsAreAlwaysReal == Spec => []SlotsAreReal
<1>1. LookupTypeOK => SlotsAreReal
  <2> SUFFICES ASSUME LookupTypeOK
               PROVE  SlotsAreReal
    OBVIOUS
  <2>1. \A s \in Storages : refs[s].cnt <= refs[s].rsvd /\ refs[s].rsvd = Len(refs[s].ptr)
    BY DEF LookupTypeOK, SoundVectors, SoundVector
  <2>2. \A r \in PatchRefs : pageOffs[r].cnt <= pageOffs[r].rsvd /\ pageOffs[r].rsvd = Len(pageOffs[r].ptr)
    BY DEF LookupTypeOK, SoundVectors, SoundVector
  <2>3. \A r \in PatchRefs : segOffs[r].cnt <= segOffs[r].rsvd /\ segOffs[r].rsvd = Len(segOffs[r].ptr)
    BY DEF LookupTypeOK, SoundVectors, SoundVector
  <2>4. lookupStorage.cnt <= lookupStorage.rsvd /\ lookupStorage.rsvd = Len(lookupStorage.ptr)
    BY DEF LookupTypeOK, SoundVector
  <2> QED
    BY <2>1, <2>2, <2>3, <2>4 DEF SlotsAreReal, Range
<1> QED
  BY <1>1, TypeCorrect, PTL

-----------------------------------------------------------------------------
(* Who owns which block *)

\* What a LookupStorage owns besides its references.
OfStorage(s) ==
    {Block("LookupStorage", s)}
        \cup (IF page[s] THEN {Block("Page", s)} ELSE {})
        \cup Array(refs[s], "refs", s)

OwnedBy(R, Q) == (UNION {OfStorage(s) : s \in R}) \cup (UNION {FreedByRef(r) : r \in Q})

ListArray == Array(lookupStorage, "lookupStorage", Null)

\* Owned, by owner.
LEMMA OwnedParts == Owned = OwnedBy(Reachable, ReachableRefs) \cup ListArray
<1>1. Owned \subseteq OwnedBy(Reachable, ReachableRefs) \cup ListArray
  BY DEF Owned, OwnedBy, OfStorage, FreedByRef, ListArray
<1>2. \A s \in Reachable : OfStorage(s) \subseteq Owned
  BY DEF Owned, OfStorage
<1>3. \A r \in ReachableRefs : FreedByRef(r) \subseteq Owned
  BY DEF Owned, FreedByRef
<1>4. ListArray \subseteq Owned
  BY DEF Owned, ListArray
<1> QED
  BY <1>1, <1>2, <1>3, <1>4 DEF OwnedBy

\* No two objects share a block: a block has its kind and its owner in it.
LEMMA BlocksApart ==
    /\ \A s : \A b \in OfStorage(s) : b[1] \in {"LookupStorage", "Page", "refs"} /\ b[2] = s
    /\ \A r : \A b \in FreedByRef(r) : b[1] \in {"PatchRef", "pageOffs", "segOffs"} /\ b[2] = r
    /\ \A b \in ListArray : b[1] = "lookupStorage"
  BY DEF OfStorage, FreedByRef, ListArray, Array, Block

\* The deleter of a storage frees what it and its references own.
LEMMA StorageFrees ==
    \A s : FreedByStorage(s) = OfStorage(s) \cup (UNION {FreedByRef(r) : r \in RefsOf(s)})
  BY DEF FreedByStorage, OfStorage, RefsOf

\* An object is allocated exactly if somebody reaches it.
LEMMA ReachedIsLive ==
    ASSUME live = Owned
    PROVE  /\ \A s : Block("LookupStorage", s) \in live <=> s \in Reachable
           /\ \A r : Block("PatchRef", r) \in live <=> r \in ReachableRefs
<1>1. \A s : Block("LookupStorage", s) \in live => s \in Reachable
  BY BlocksApart, OwnedParts DEF OwnedBy, Block
<1>2. \A s : Block("LookupStorage", s) \in OfStorage(s)
  BY DEF OfStorage
<1>3. \A r : Block("PatchRef", r) \in live => r \in ReachableRefs
  BY BlocksApart, OwnedParts DEF OwnedBy, Block
<1>4. \A r : Block("PatchRef", r) \in FreedByRef(r)
  BY DEF FreedByRef
<1> QED
  BY <1>1, <1>2, <1>3, <1>4, OwnedParts DEF OwnedBy

\* What the loader can reach beyond the list: the object it is making.
LEMMA InReachable ==
    /\ \A s : s \in Reachable <=> (s \in Range(V!Stored(lookupStorage)) \/ (s = newStorage /\ s # Null))
    /\ \A r : r \in ReachableRefs <=> ((\E s \in Reachable : r \in RefsOf(s)) \/ (r = newRef /\ r # Null))
<1>1. \A s : s \in Reachable <=> (s \in Range(V!Stored(lookupStorage)) \/ (s = newStorage /\ s # Null))
  BY DEF Reachable
<1> DEFINE attached == UNION {RefsOf(s) : s \in Reachable}
<1>2. \A r : r \in attached <=> \E s \in Reachable : r \in RefsOf(s)
  OBVIOUS
<1>3. ReachableRefs = attached \cup ({newRef} \ {Null})
  BY DEF ReachableRefs
<1> HIDE DEF attached
<1> QED
  BY <1>1, <1>2, <1>3

\* A block is owned by a storage, by a reference, or by the list.
LEMMA InOwned ==
    \A b : b \in Owned <=>
            ((\E s \in Reachable : b \in OfStorage(s)) \/ (\E r \in ReachableRefs : b \in FreedByRef(r))
                \/ b \in ListArray)
  BY OwnedParts DEF OwnedBy

\* The same of the next state.
LEMMA InOwnedNext ==
    /\ \A b : b \in Owned' <=>
            ((\E s \in Reachable' : b \in OfStorage(s)') \/ (\E r \in ReachableRefs' : b \in FreedByRef(r)')
                \/ b \in ListArray')
    /\ \A s : s \in Reachable' <=> (s \in Range(V!Stored(lookupStorage')) \/ (s = newStorage' /\ s # Null))
    /\ \A r : r \in ReachableRefs' <=> ((\E s \in Reachable' : r \in RefsOf(s)') \/ (r = newRef' /\ r # Null))
<1>1. (\A b : b \in Owned <=>
            ((\E s \in Reachable : b \in OfStorage(s)) \/ (\E r \in ReachableRefs : b \in FreedByRef(r))
                \/ b \in ListArray))'
  BY InOwned, PTL
<1>2. (/\ \A s : s \in Reachable <=> (s \in Range(V!Stored(lookupStorage)) \/ (s = newStorage /\ s # Null))
       /\ \A r : r \in ReachableRefs <=> ((\E s \in Reachable : r \in RefsOf(s)) \/ (r = newRef /\ r # Null)))'
  BY InReachable, PTL
<1> QED
  BY <1>1, <1>2

\* Nothing is owned before the first storage is created.
LEMMA OwnershipInit == Init => OwnedOnce /\ UnreachedIsBlank
<1> SUFFICES ASSUME Init
             PROVE  OwnedOnce /\ UnreachedIsBlank
  OBVIOUS
<1>1. V!Stored(lookupStorage) = << >> /\ Range(V!Stored(lookupStorage)) = {}
  BY EmptyIsSound DEF Init, LookupInit
<1>2. Reachable = {} /\ ReachableRefs = {}
  BY <1>1, InReachable DEF Init, LookupInit
<1>3. ListArray = {}
  BY EmptyArray DEF ListArray, Init, LookupInit
<1>4. Owned = {}
  BY <1>2, <1>3, InOwned
<1>5. OneOwner
  BY <1>1, <1>2 DEF OneOwner, IsInjective
<1>6. UnreachedIsBlank
  BY <1>2 DEF UnreachedIsBlank, Init, LookupInit
<1> QED
  BY <1>4, <1>5, <1>6 DEF OwnedOnce, Init, LookupInit

\* create() makes a storage that nobody reached before.
LEMMA CreateNewOwns ==
    ASSUME LookupTypeOK, OwnedOnce, UnreachedIsBlank, CreateNew
    PROVE  OwnedOnce' /\ UnreachedIsBlank'
<1>1. PICK s0 \in Storages : /\ Block("LookupStorage", s0) \notin live
                            /\ newStorage' = s0
                            /\ live' = live \cup {Block("LookupStorage", s0)}
                            /\ badFree' = badFree
  BY DEF CreateNew, Unused, Allocate
<1>2. UNCHANGED <<lookupStorage, page, refs, pageOffs, segOffs, newRef>> /\ newStorage = Null
  BY DEF CreateNew, objects
<1>3. s0 \notin Reachable /\ s0 # Null
  BY <1>1, ReachedIsLive, UserLookupAssumption DEF OwnedOnce
<1>4. ~ page[s0] /\ refs[s0] = V!Empty
  BY <1>1, <1>3 DEF UnreachedIsBlank
<1>5. RefsOf(s0) = {} /\ OfStorage(s0) = {Block("LookupStorage", s0)}
  BY <1>4, EmptyIsSound, EmptyArray DEF RefsOf, OfStorage
<1>6. /\ \A s : RefsOf(s)' = RefsOf(s) /\ OfStorage(s)' = OfStorage(s)
      /\ \A r : FreedByRef(r)' = FreedByRef(r)
      /\ ListArray' = ListArray
  BY <1>2 DEF RefsOf, OfStorage, FreedByRef, ListArray
<1>7. Reachable' = Reachable \cup {s0}
  BY <1>1, <1>2, <1>3, InReachable, InOwnedNext
<1>8. ReachableRefs' = ReachableRefs
  BY <1>2, <1>5, <1>6, <1>7, InReachable, InOwnedNext
<1>9. Owned' = Owned \cup {Block("LookupStorage", s0)}
  BY <1>5, <1>6, <1>7, <1>8, InOwned, InOwnedNext
<1>10. OneOwner'
  <2>1. s0 \notin Range(V!Stored(lookupStorage))
    BY <1>3, InReachable
  <2>2. IsInjective(V!Stored(refs[s0]))
    BY <1>4, EmptyIsSound DEF IsInjective
  <2>3. \A s \in Reachable' :
            /\ IsInjective(V!Stored(refs'[s]))
            /\ newRef' \notin RefsOf(s)'
            /\ \A t \in Reachable' \ {s} : RefsOf(s)' \cap RefsOf(t)' = {}
    BY <1>2, <1>5, <1>6, <1>7, <2>2 DEF OwnedOnce, OneOwner
  <2> QED
    BY <1>1, <1>2, <2>1, <2>3 DEF OwnedOnce, OneOwner
<1>11. UnreachedIsBlank'
  BY <1>2, <1>7, <1>8 DEF UnreachedIsBlank
<1> QED
  BY <1>1, <1>9, <1>10, <1>11 DEF OwnedOnce

\* create() gives the storage its page.
LEMMA CreatePageOwns ==
    ASSUME LookupTypeOK, OwnedOnce, UnreachedIsBlank, CreatePage
    PROVE  OwnedOnce' /\ UnreachedIsBlank'
<1>1. /\ newStorage \in Storages /\ newStorage # Null
      /\ page' = [page EXCEPT ![newStorage] = TRUE]
      /\ live' = live \cup {Block("Page", newStorage)} /\ badFree' = badFree
      /\ UNCHANGED <<lookupStorage, refs, pageOffs, segOffs, newStorage, newRef>>
  BY DEF CreatePage, Allocate, LookupTypeOK
<1>2. newStorage \in Reachable
  BY <1>1, InReachable
<1>3. \A s \in Storages : page'[s] = (page[s] \/ s = newStorage)
  BY <1>1 DEF LookupTypeOK
<1>4. /\ \A s \in Storages : OfStorage(s)' = OfStorage(s)
                 \cup (IF s = newStorage THEN {Block("Page", newStorage)} ELSE {})
      /\ \A s : RefsOf(s)' = RefsOf(s)
      /\ \A r : FreedByRef(r)' = FreedByRef(r)
      /\ ListArray' = ListArray
  BY <1>1, <1>3 DEF RefsOf, OfStorage, FreedByRef, ListArray
<1>5. Reachable' = Reachable /\ ReachableRefs' = ReachableRefs
  BY <1>1, <1>4, InReachable, InOwnedNext
<1>6. Reachable \subseteq Storages
  BY ReachableTypes
<1>7. Owned' = Owned \cup {Block("Page", newStorage)}
  BY <1>2, <1>4, <1>5, <1>6, InOwned, InOwnedNext
<1>8. OneOwner'
  BY <1>1, <1>4, <1>5 DEF OwnedOnce, OneOwner
<1>9. UnreachedIsBlank'
  BY <1>1, <1>2, <1>3, <1>5 DEF UnreachedIsBlank
<1> QED
  BY <1>1, <1>7, <1>8, <1>9 DEF OwnedOnce

\* push_back() takes the storage from the loader; the list may get an array.
LEMMA PushStorageOwns ==
    ASSUME LookupTypeOK, OwnedOnce, UnreachedIsBlank, NEW mul \in Nat \ {0}, PushStorage(mul)
    PROVE  OwnedOnce' /\ UnreachedIsBlank'
<1> DEFINE grown == Grown(lookupStorage, "lookupStorage", Null)
<1>1. /\ newStorage \in Storages /\ newStorage # Null /\ newStorage' = Null
      /\ lookupStorage' = V!PushBack(lookupStorage, mul, newStorage)
      /\ live' = live \cup grown /\ badFree' = badFree
      /\ UNCHANGED <<page, refs, pageOffs, segOffs, newRef>>
  BY DEF PushStorage, Allocate, LookupTypeOK, objects
<1>2. SoundVector(lookupStorage, Storages)
  BY DEF LookupTypeOK
<1>3. V!Stored(lookupStorage') = Append(V!Stored(lookupStorage), newStorage)
  <2>1. /\ newStorage \in Storages /\ SoundVector(lookupStorage, Storages)
        /\ mul \in Nat \ {0}
    BY <1>1, <1>2
  <2>2. V!Stored(V!PushBack(lookupStorage, mul, newStorage)) = Append(V!Stored(lookupStorage), newStorage)
    BY <2>1, PushBackAppends, SMTT(60)
  <2> QED
    BY <1>1, <2>2, Zenon
<1>4. ListArray' = ListArray \cup grown
  BY <1>1, <1>2, PushArray DEF ListArray
<1> HIDE DEF grown
<1>5. newStorage \notin Range(V!Stored(lookupStorage)) /\ IsInjective(V!Stored(lookupStorage))
  BY DEF OwnedOnce, OneOwner
<1>6. /\ Range(V!Stored(lookupStorage')) = Range(V!Stored(lookupStorage)) \cup {newStorage}
      /\ IsInjective(V!Stored(lookupStorage'))
  <2>1. V!Stored(lookupStorage) \in Seq(Storages)
    BY <1>2, StoredIs
  <2> QED
    BY <1>3, <1>5, <2>1, AppendAddsOne
<1>7. /\ \A s : RefsOf(s)' = RefsOf(s) /\ OfStorage(s)' = OfStorage(s)
      /\ \A r : FreedByRef(r)' = FreedByRef(r)
  BY <1>1 DEF RefsOf, OfStorage, FreedByRef
<1>8. Reachable' = Reachable
  BY <1>1, <1>6, InReachable, InOwnedNext
<1>9. ReachableRefs' = ReachableRefs
  BY <1>1, <1>7, <1>8, InReachable, InOwnedNext
<1>10. Owned' = Owned \cup grown
  BY <1>4, <1>7, <1>8, <1>9, InOwned, InOwnedNext
<1>11. OneOwner'
  <2>1. Null \notin Range(V!Stored(lookupStorage'))
    BY <1>1, <1>6, ReachableTypes, UserLookupAssumption
  <2> QED
    BY <1>1, <1>6, <1>7, <1>8, <2>1 DEF OwnedOnce, OneOwner
<1>12. UnreachedIsBlank'
  BY <1>1, <1>8, <1>9 DEF UnreachedIsBlank
<1> QED
  BY <1>1, <1>10, <1>11, <1>12 DEF OwnedOnce

\* The loader makes a reference that nobody reached before.
LEMMA CreateRefOwns ==
    ASSUME LookupTypeOK, OwnedOnce, UnreachedIsBlank, CreateRef
    PROVE  OwnedOnce' /\ UnreachedIsBlank'
<1>1. PICK r0 \in PatchRefs : /\ Block("PatchRef", r0) \notin live
                             /\ newRef' = r0
                             /\ live' = live \cup {Block("PatchRef", r0)}
                             /\ badFree' = badFree
  BY DEF CreateRef, Unused, Allocate
<1>2. UNCHANGED <<lookupStorage, page, refs, pageOffs, segOffs, newStorage>> /\ newRef = Null
  BY DEF CreateRef, objects
<1>3. r0 \notin ReachableRefs /\ r0 # Null
  BY <1>1, ReachedIsLive, UserLookupAssumption DEF OwnedOnce
<1>4. FreedByRef(r0) = {Block("PatchRef", r0)}
  BY <1>1, <1>3, EmptyArray DEF UnreachedIsBlank, FreedByRef
<1>5. /\ \A s : RefsOf(s)' = RefsOf(s) /\ OfStorage(s)' = OfStorage(s)
      /\ \A r : FreedByRef(r)' = FreedByRef(r)
      /\ ListArray' = ListArray
  BY <1>2 DEF RefsOf, OfStorage, FreedByRef, ListArray
<1>6. Reachable' = Reachable
  BY <1>2, InReachable, InOwnedNext
<1>7. ReachableRefs' = ReachableRefs \cup {r0}
  BY <1>1, <1>2, <1>3, <1>5, <1>6, InReachable, InOwnedNext
<1>8. Owned' = Owned \cup {Block("PatchRef", r0)}
  BY <1>4, <1>5, <1>6, <1>7, InOwned, InOwnedNext
<1>9. OneOwner'
  <2>1. \A s \in Reachable : r0 \notin RefsOf(s)
    BY <1>3, InReachable
  <2> QED
    BY <1>1, <1>2, <1>5, <1>6, <2>1 DEF OwnedOnce, OneOwner
<1>10. UnreachedIsBlank'
  BY <1>2, <1>6, <1>7 DEF UnreachedIsBlank
<1> QED
  BY <1>1, <1>8, <1>9, <1>10 DEF OwnedOnce

\* A page offset is pushed; the vector may get an array.
LEMMA PushPageOffOwns ==
    ASSUME LookupTypeOK, OwnedOnce, UnreachedIsBlank,
           NEW r0 \in ReachableRefs, NEW mul \in Nat \ {0}, PushPageOff(r0, mul)
    PROVE  OwnedOnce' /\ UnreachedIsBlank'
<1> DEFINE grown == Grown(pageOffs[r0], "pageOffs", r0)
<1>1. /\ pageOffs' = [pageOffs EXCEPT ![r0] = V!PushBack(pageOffs[r0], mul, 0)]
      /\ live' = live \cup grown /\ badFree' = badFree
      /\ UNCHANGED <<lookupStorage, page, refs, segOffs, newStorage, newRef>>
  BY DEF PushPageOff, Allocate, loader
<1>2. r0 \in PatchRefs /\ SoundVector(pageOffs[r0], {0})
  BY ReachableTypes DEF LookupTypeOK, SoundVectors
<1>3. \A r : pageOffs'[r] = IF r = r0 THEN V!PushBack(pageOffs[r0], mul, 0) ELSE pageOffs[r]
  <2>1. pageOffs = [r \in PatchRefs |-> pageOffs[r]]
    BY DEF LookupTypeOK, SoundVectors
  <2> QED
    BY <1>1, <1>2, <2>1
<1>4. Array(pageOffs'[r0], "pageOffs", r0) = Array(pageOffs[r0], "pageOffs", r0) \cup grown
  BY <1>2, <1>3, PushArray
<1> HIDE DEF grown
<1>5. /\ \A r : FreedByRef(r)' = FreedByRef(r) \cup (IF r = r0 THEN grown ELSE {})
      /\ \A s : RefsOf(s)' = RefsOf(s) /\ OfStorage(s)' = OfStorage(s)
      /\ ListArray' = ListArray
  BY <1>1, <1>3, <1>4 DEF RefsOf, OfStorage, FreedByRef, ListArray
<1>6. Reachable' = Reachable
  BY <1>1, InReachable, InOwnedNext
<1>7. ReachableRefs' = ReachableRefs
  BY <1>1, <1>5, <1>6, InReachable, InOwnedNext
<1>8. Owned' = Owned \cup grown
  BY <1>5, <1>6, <1>7, InOwned, InOwnedNext
<1>9. OneOwner'
  BY <1>1, <1>5, <1>6 DEF OwnedOnce, OneOwner
<1>10. UnreachedIsBlank'
  BY <1>1, <1>3, <1>6, <1>7 DEF UnreachedIsBlank
<1> QED
  BY <1>1, <1>8, <1>9, <1>10 DEF OwnedOnce

\* A segment offset is pushed; the vector may get an array.
LEMMA PushSegOffOwns ==
    ASSUME LookupTypeOK, OwnedOnce, UnreachedIsBlank,
           NEW r0 \in ReachableRefs, NEW mul \in Nat \ {0}, PushSegOff(r0, mul)
    PROVE  OwnedOnce' /\ UnreachedIsBlank'
<1> DEFINE grown == Grown(segOffs[r0], "segOffs", r0)
<1>1. /\ segOffs' = [segOffs EXCEPT ![r0] = V!PushBack(segOffs[r0], mul, 0)]
      /\ live' = live \cup grown /\ badFree' = badFree
      /\ UNCHANGED <<lookupStorage, page, refs, pageOffs, newStorage, newRef>>
  BY DEF PushSegOff, Allocate, loader
<1>2. r0 \in PatchRefs /\ SoundVector(segOffs[r0], {0})
  BY ReachableTypes DEF LookupTypeOK, SoundVectors
<1>3. \A r : segOffs'[r] = IF r = r0 THEN V!PushBack(segOffs[r0], mul, 0) ELSE segOffs[r]
  <2>1. segOffs = [r \in PatchRefs |-> segOffs[r]]
    BY DEF LookupTypeOK, SoundVectors
  <2> QED
    BY <1>1, <1>2, <2>1
<1>4. Array(segOffs'[r0], "segOffs", r0) = Array(segOffs[r0], "segOffs", r0) \cup grown
  BY <1>2, <1>3, PushArray
<1> HIDE DEF grown
<1>5. /\ \A r : FreedByRef(r)' = FreedByRef(r) \cup (IF r = r0 THEN grown ELSE {})
      /\ \A s : RefsOf(s)' = RefsOf(s) /\ OfStorage(s)' = OfStorage(s)
      /\ ListArray' = ListArray
  BY <1>1, <1>3, <1>4 DEF RefsOf, OfStorage, FreedByRef, ListArray
<1>6. Reachable' = Reachable
  BY <1>1, InReachable, InOwnedNext
<1>7. ReachableRefs' = ReachableRefs
  BY <1>1, <1>5, <1>6, InReachable, InOwnedNext
<1>8. Owned' = Owned \cup grown
  BY <1>5, <1>6, <1>7, InOwned, InOwnedNext
<1>9. OneOwner'
  BY <1>1, <1>5, <1>6 DEF OwnedOnce, OneOwner
<1>10. UnreachedIsBlank'
  BY <1>1, <1>3, <1>6, <1>7 DEF UnreachedIsBlank
<1> QED
  BY <1>1, <1>8, <1>9, <1>10 DEF OwnedOnce

\* push_back() takes the reference from the loader.
LEMMA PushRefOwns ==
    ASSUME LookupTypeOK, OwnedOnce, UnreachedIsBlank,
           NEW s0 \in Reachable, NEW mul \in Nat \ {0}, PushRef(s0, mul)
    PROVE  OwnedOnce' /\ UnreachedIsBlank'
<1> DEFINE grown == Grown(refs[s0], "refs", s0)
<1>1. /\ newRef \in PatchRefs /\ newRef # Null /\ newRef' = Null
      /\ refs' = [refs EXCEPT ![s0] = V!PushBack(refs[s0], mul, newRef)]
      /\ live' = live \cup grown /\ badFree' = badFree
      /\ UNCHANGED <<lookupStorage, page, pageOffs, segOffs, newStorage>>
  BY DEF PushRef, Allocate, LookupTypeOK
<1>2. s0 \in Storages /\ SoundVector(refs[s0], PatchRefs)
  BY ReachableTypes DEF LookupTypeOK, SoundVectors
<1>3. \A s : refs'[s] = IF s = s0 THEN V!PushBack(refs[s0], mul, newRef) ELSE refs[s]
  <2>1. refs = [s \in Storages |-> refs[s]]
    BY DEF LookupTypeOK, SoundVectors
  <2> QED
    BY <1>1, <1>2, <2>1
<1>4. Array(refs'[s0], "refs", s0) = Array(refs[s0], "refs", s0) \cup grown
  BY <1>1, <1>2, <1>3, PushArray
<1>5. V!Stored(refs'[s0]) = Append(V!Stored(refs[s0]), newRef)
  <2>1. refs'[s0] = V!PushBack(refs[s0], mul, newRef)
    BY <1>3
  <2>2. V!Stored(V!PushBack(refs[s0], mul, newRef)) = Append(V!Stored(refs[s0]), newRef)
    BY <1>1, <1>2, PushBackAppends
  <2> QED
    BY <2>1, <2>2
<1> HIDE DEF grown
<1>6. /\ Range(V!Stored(refs'[s0])) = RefsOf(s0) \cup {newRef}
      /\ IsInjective(V!Stored(refs'[s0]))
  <2>1. V!Stored(refs[s0]) \in Seq(PatchRefs)
    BY <1>2, StoredIs
  <2>2. newRef \notin RefsOf(s0) /\ IsInjective(V!Stored(refs[s0]))
    BY DEF OwnedOnce, OneOwner
  <2> QED
    BY <1>5, <2>1, <2>2, AppendAddsOne DEF RefsOf
<1>7. /\ \A s : RefsOf(s)' = RefsOf(s) \cup (IF s = s0 THEN {newRef} ELSE {})
      /\ \A s : OfStorage(s)' = OfStorage(s) \cup (IF s = s0 THEN grown ELSE {})
      /\ \A r : FreedByRef(r)' = FreedByRef(r)
      /\ ListArray' = ListArray
  <2>1. \A s : RefsOf(s)' = RefsOf(s) \cup (IF s = s0 THEN {newRef} ELSE {})
    BY <1>3, <1>6 DEF RefsOf
  <2>2. \A s : OfStorage(s)' = OfStorage(s) \cup (IF s = s0 THEN grown ELSE {})
    BY <1>1, <1>3, <1>4 DEF OfStorage
  <2> QED
    BY <1>1, <2>1, <2>2 DEF FreedByRef, ListArray
<1>8. Reachable' = Reachable
  <2>1. UNCHANGED <<lookupStorage, newStorage>>
    BY <1>1
  <2> QED
    BY <2>1 DEF Reachable
<1>9. ReachableRefs' = ReachableRefs
  BY <1>1, <1>7, <1>8, InReachable, InOwnedNext
<1>10. Owned' = Owned \cup grown
  BY <1>7, <1>8, <1>9, InOwned, InOwnedNext
<1>11. OneOwner'
  <2>1. \A s \in Reachable : newRef \notin RefsOf(s)
    BY DEF OwnedOnce, OneOwner
  <2>2. ASSUME NEW s \in Reachable
        PROVE  IsInjective(V!Stored(refs'[s])) /\ Null \notin RefsOf(s)'
    <3>1. Null \notin RefsOf(s)
      BY ReachableTypes, UserLookupAssumption
    <3> QED
      BY <1>1, <1>3, <1>6, <1>7, <3>1 DEF OwnedOnce, OneOwner
  <2>3. ASSUME NEW s \in Reachable, NEW t \in Reachable \ {s}
        PROVE  RefsOf(s)' \cap RefsOf(t)' = {}
    <3>1. RefsOf(s) \cap RefsOf(t) = {}
      BY DEF OwnedOnce, OneOwner
    <3> QED
      BY <1>7, <2>1, <3>1
  <2> QED
    BY <1>1, <1>8, <2>2, <2>3 DEF OwnedOnce, OneOwner
<1>12. UnreachedIsBlank'
  BY <1>1, <1>3, <1>8, <1>9 DEF UnreachedIsBlank
<1> QED
  BY <1>1, <1>10, <1>11, <1>12 DEF OwnedOnce

\* A reference the loader could not insert takes its memory with it.
LEMMA DropRefOwns ==
    ASSUME LookupTypeOK, OwnedOnce, UnreachedIsBlank, DropRef
    PROVE  OwnedOnce' /\ UnreachedIsBlank'
<1>1. /\ newRef # Null /\ newRef' = Null /\ newRef \in PatchRefs
      /\ live' = live \ FreedByRef(newRef)
      /\ badFree' = (badFree \/ ~ FreedByRef(newRef) \subseteq live)
      /\ Forget({}, {newRef})
      /\ UNCHANGED <<lookupStorage, newStorage>>
  BY DEF DropRef, Release, LookupTypeOK
<1>2. /\ \A s \in Storages : page'[s] = page[s] /\ refs'[s] = refs[s]
      /\ \A r \in PatchRefs : r # newRef => pageOffs'[r] = pageOffs[r] /\ segOffs'[r] = segOffs[r]
      /\ pageOffs'[newRef] = V!Empty /\ segOffs'[newRef] = V!Empty
  BY <1>1 DEF Forget
<1>3. Reachable \subseteq Storages /\ ReachableRefs \subseteq PatchRefs
  BY ReachableTypes
<1>4. /\ \A s \in Storages : RefsOf(s)' = RefsOf(s) /\ OfStorage(s)' = OfStorage(s)
      /\ \A r \in PatchRefs : r # newRef => FreedByRef(r)' = FreedByRef(r)
      /\ ListArray' = ListArray
  BY <1>1, <1>2 DEF RefsOf, OfStorage, FreedByRef, ListArray
<1>5. Reachable' = Reachable
  BY <1>1, InReachable, InOwnedNext
<1>6. \A s \in Reachable : newRef \notin RefsOf(s)
  BY DEF OwnedOnce, OneOwner
<1>7. ReachableRefs' = ReachableRefs \ {newRef} /\ newRef \in ReachableRefs
  BY <1>1, <1>3, <1>4, <1>5, <1>6, InReachable, InOwnedNext
<1>8. \A s : \A b \in OfStorage(s) : b \notin FreedByRef(newRef)
  BY BlocksApart
<1>9. \A r : r # newRef => \A b \in FreedByRef(r) : b \notin FreedByRef(newRef)
  BY BlocksApart
<1>10. \A b \in ListArray : b \notin FreedByRef(newRef)
  BY BlocksApart
<1>11. Owned' = Owned \ FreedByRef(newRef)
  BY <1>3, <1>4, <1>5, <1>7, <1>8, <1>9, <1>10, InOwned, InOwnedNext
<1>12. FreedByRef(newRef) \subseteq Owned
  BY <1>7, InOwned
<1>13. OneOwner'
  <2>1. \A s \in Reachable : Null \notin RefsOf(s)
    BY <1>3, ReachableTypes, UserLookupAssumption
  <2> QED
    BY <1>1, <1>2, <1>3, <1>4, <1>5, <2>1 DEF OwnedOnce, OneOwner
<1>14. UnreachedIsBlank'
  BY <1>2, <1>5, <1>7 DEF UnreachedIsBlank
<1> QED
  BY <1>1, <1>11, <1>12, <1>13, <1>14 DEF OwnedOnce

\* The deleters of some storages, and an array of the list that goes with
\* them, free what these owned and nothing else.
LEMMA DeletersFree ==
    ASSUME LookupTypeOK, OwnedOnce, UnreachedIsBlank,
           NEW gone \in SUBSET Reachable,
           NEW goneRefs, goneRefs = UNION {RefsOf(s) : s \in gone},
           NEW freed, freed = UNION {FreedByStorage(s) : s \in gone},
           NEW array \in SUBSET ListArray,
           Forget(gone, goneRefs),
           Release(freed \cup array),
           newRef' = newRef,
           Reachable' = Reachable \ gone,
           ListArray' = ListArray \ array,
           IsInjective(V!Stored(lookupStorage')),
           newStorage' \notin Range(V!Stored(lookupStorage'))
    PROVE  OwnedOnce' /\ UnreachedIsBlank'
<1>1. Reachable \subseteq Storages /\ ReachableRefs \subseteq PatchRefs
  BY ReachableTypes
<1>2. /\ \A s \in Storages \ gone : page'[s] = page[s] /\ refs'[s] = refs[s]
      /\ \A s \in gone : page'[s] = FALSE /\ refs'[s] = V!Empty
      /\ \A r \in PatchRefs \ goneRefs : pageOffs'[r] = pageOffs[r] /\ segOffs'[r] = segOffs[r]
      /\ \A r \in PatchRefs \cap goneRefs : pageOffs'[r] = V!Empty /\ segOffs'[r] = V!Empty
  BY <1>1 DEF Forget
<1>3. \A r : r \in goneRefs <=> \E s \in gone : r \in RefsOf(s)
  OBVIOUS
<1>4. \A b : b \in freed <=> \E s \in gone : b \in FreedByStorage(s)
  OBVIOUS
<1>5. \A b : b \in freed <=> ((\E s \in gone : b \in OfStorage(s))
                              \/ (\E r \in goneRefs : b \in FreedByRef(r)))
  <2>1. \A s : \A b : b \in FreedByStorage(s) <=>
            (b \in OfStorage(s) \/ \E r \in RefsOf(s) : b \in FreedByRef(r))
    BY StorageFrees
  <2> QED
    BY <1>3, <1>4, <2>1
<1>6. /\ \A s \in Storages \ gone : RefsOf(s)' = RefsOf(s) /\ OfStorage(s)' = OfStorage(s)
      /\ \A r \in PatchRefs \ goneRefs : FreedByRef(r)' = FreedByRef(r)
  BY <1>2 DEF RefsOf, OfStorage, FreedByRef
<1>7. \A s \in Reachable \ gone : RefsOf(s) \cap goneRefs = {}
  <2> SUFFICES ASSUME NEW s \in Reachable \ gone, NEW t \in gone
               PROVE  RefsOf(s) \cap RefsOf(t) = {}
    BY <1>3
  <2> QED
    BY DEF OwnedOnce, OneOwner
<1>8. newRef \notin goneRefs
  BY <1>3 DEF OwnedOnce, OneOwner
<1>9. ReachableRefs' = ReachableRefs \ goneRefs
  <2>1. \A s \in Reachable \ gone : RefsOf(s)' = RefsOf(s)
    BY <1>1, <1>6
  <2>2. ASSUME NEW r
        PROVE  r \in ReachableRefs' <=> r \in ReachableRefs \ goneRefs
    BY <1>3, <1>7, <1>8, <2>1, InReachable, InOwnedNext
  <2> QED
    BY <2>2
<1>10. goneRefs \subseteq ReachableRefs
  BY <1>3, InReachable
<1>11. freed \cup array \subseteq Owned
  BY <1>5, <1>10, InOwned
<1>12. Owned' = Owned \ (freed \cup array)
  <2> SUFFICES ASSUME NEW b
               PROVE  b \in Owned' <=> b \in Owned /\ b \notin freed /\ b \notin array
    OBVIOUS
  <2>1. b \in Owned' <=> ((\E s \in Reachable \ gone : b \in OfStorage(s))
                            \/ (\E r \in ReachableRefs \ goneRefs : b \in FreedByRef(r))
                            \/ b \in ListArray \ array)
    BY <1>1, <1>6, <1>9, InOwnedNext
  <2>2. ASSUME NEW s \in Reachable, b \in OfStorage(s)
        PROVE  b \notin ListArray /\ (b \in freed <=> s \in gone)
    BY <1>5, <2>2, BlocksApart
  <2>3. ASSUME NEW r \in ReachableRefs, b \in FreedByRef(r)
        PROVE  b \notin ListArray /\ (b \in freed <=> r \in goneRefs)
    BY <1>5, <2>3, BlocksApart
  <2>4. ASSUME b \in ListArray
        PROVE  b \notin freed
    BY <1>5, <2>4, BlocksApart
  <2> QED
    BY <2>1, <2>2, <2>3, <2>4, InOwned
<1>13. OneOwner'
  <2> SUFFICES ASSUME NEW s \in Reachable \ gone
               PROVE  /\ IsInjective(V!Stored(refs'[s]))
                      /\ newRef' \notin RefsOf(s)'
                      /\ \A t \in (Reachable \ gone) \ {s} : RefsOf(s)' \cap RefsOf(t)' = {}
    BY DEF OneOwner
  <2> QED
    BY <1>1, <1>2, <1>6 DEF OwnedOnce, OneOwner
<1>14. UnreachedIsBlank'
  BY <1>2, <1>9 DEF UnreachedIsBlank
<1> QED
  BY <1>11, <1>12, <1>13, <1>14 DEF OwnedOnce, Release

\* A storage the loader still has is deleted: because its page could not be
\* allocated, or because the loader has no use for it.
LEMMA DeleteStorageOwns ==
    ASSUME LookupTypeOK, OwnedOnce, UnreachedIsBlank,
           newStorage # Null, DeleteStorage(newStorage), newStorage' = Null,
           UNCHANGED <<lookupStorage, newRef>>
    PROVE  OwnedOnce' /\ UnreachedIsBlank'
<1>1. newStorage \in Reachable /\ newStorage \notin Range(V!Stored(lookupStorage))
          /\ IsInjective(V!Stored(lookupStorage))
  BY InReachable DEF OwnedOnce, OneOwner
<1>2. Reachable' = Reachable \ {newStorage}
  BY <1>1, InReachable, InOwnedNext
<1>3. Null \notin Range(V!Stored(lookupStorage))
  BY ReachableTypes, UserLookupAssumption
<1>4. ListArray' = ListArray \ {}
  BY DEF ListArray
<1>5. RefsOf(newStorage) = UNION {RefsOf(s) : s \in {newStorage}}
  OBVIOUS
<1>6. FreedByStorage(newStorage) = UNION {FreedByStorage(s) : s \in {newStorage}}
  OBVIOUS
<1>7. Forget({newStorage}, RefsOf(newStorage)) /\ Release(FreedByStorage(newStorage) \cup {})
  <2>1. FreedByStorage(newStorage) \cup {} = FreedByStorage(newStorage)
    OBVIOUS
  <2> QED
    BY <2>1 DEF DeleteStorage
<1>8. {newStorage} \in SUBSET Reachable /\ {} \in SUBSET ListArray
  BY <1>1
<1> QED
  BY <1>1, <1>2, <1>3, <1>4, <1>5, <1>6, <1>7, <1>8, DeletersFree

\* erase() deletes the element, closes the gap and may free the array.
LEMMA EraseStorageOwns ==
    ASSUME LookupTypeOK, OwnedOnce, UnreachedIsBlank,
           NEW index \in Nat, NEW free \in BOOLEAN, EraseStorage(index, free)
    PROVE  OwnedOnce' /\ UnreachedIsBlank'
<1> DEFINE s0 == lookupStorage.ptr[index + 1]
           array == ListArray \ ListArray'
           list == V!Stored(lookupStorage)
<1>1. /\ index < lookupStorage.cnt
      /\ lookupStorage' = V!Erase(lookupStorage, index, free)
      /\ Release(FreedByStorage(s0) \cup array)
      /\ Forget({s0}, RefsOf(s0))
      /\ UNCHANGED <<newStorage, newRef>>
  BY DEF EraseStorage, loader, ListArray
<1>2. SoundVector(lookupStorage, Storages) /\ lookupStorage.cnt \in Nat
  BY DEF LookupTypeOK, SoundVector
<1>3. /\ V!Stored(lookupStorage') = RemoveAt(list, index + 1)
      /\ lookupStorage'.ptr # << >> => lookupStorage.ptr # << >>
  BY <1>1, <1>2, EraseRemoves
<1>4. list \in Seq(Storages) /\ Len(list) = lookupStorage.cnt
          /\ \A i \in 1 .. lookupStorage.cnt : list[i] = lookupStorage.ptr[i]
  BY <1>2, StoredIs
<1>5. IsInjective(list) /\ newStorage \notin Range(list)
  BY DEF OwnedOnce, OneOwner
<1>6. index + 1 \in 1 .. Len(list) /\ list[index + 1] = s0
  BY <1>1, <1>2, <1>4
<1>7. s0 \in Range(list)
  BY <1>4, <1>6 DEF Range
<1>8. ListArray' = ListArray \ array /\ array \in SUBSET ListArray
  BY <1>3 DEF ListArray, Array
<1> HIDE DEF list, s0, array
<1>9. /\ Range(V!Stored(lookupStorage')) = Range(list) \ {s0}
      /\ IsInjective(V!Stored(lookupStorage'))
  <2> DEFINE n == index + 1
  <2>1. n \in 1 .. Len(list) /\ list[n] = s0 /\ V!Stored(lookupStorage') = RemoveAt(list, n)
    BY <1>3, <1>6
  <2> HIDE DEF n
  <2> QED
    BY <1>4, <1>5, <2>1, RemoveTakesOne
<1>10. Reachable' = Reachable \ {s0} /\ s0 \in Reachable
  <2>1. \A s : s \in Reachable <=> (s \in Range(list) \/ (s = newStorage /\ s # Null))
    BY InReachable DEF list
  <2>2. \A s : s \in Reachable' <=> (s \in Range(V!Stored(lookupStorage')) \/ (s = newStorage' /\ s # Null))
    BY InOwnedNext
  <2> QED
    BY <1>1, <1>5, <1>7, <1>9, <2>1, <2>2
<1>11. RefsOf(s0) = UNION {RefsOf(s) : s \in {s0}}
  OBVIOUS
<1>12. FreedByStorage(s0) = UNION {FreedByStorage(s) : s \in {s0}}
  OBVIOUS
<1>13. newStorage' \notin Range(V!Stored(lookupStorage'))
  BY <1>1, <1>5, <1>9
<1>14. {s0} \in SUBSET Reachable
  BY <1>10
<1> QED
  BY <1>1, <1>8, <1>9, <1>10, <1>11, <1>12, <1>13, <1>14, DeletersFree

\* deinit() deletes every element and frees the array.
LEMMA DeinitStorageOwns ==
    ASSUME LookupTypeOK, OwnedOnce, UnreachedIsBlank, DeinitStorage
    PROVE  OwnedOnce' /\ UnreachedIsBlank'
<1> DEFINE gone == Range(V!Stored(lookupStorage))
           goneRefs == UNION {RefsOf(s) : s \in gone}
           freed == UNION {FreedByStorage(s) : s \in gone}
<1>1. /\ lookupStorage' = V!Empty
      /\ Release(freed \cup ListArray)
      /\ Forget(gone, goneRefs)
      /\ UNCHANGED <<newStorage, newRef>>
  BY DeinitEmpties DEF DeinitStorage, loader, ListArray, LookupTypeOK
<1>2. V!Stored(lookupStorage') = << >> /\ Range(V!Stored(lookupStorage')) = {}
  BY <1>1, EmptyIsSound
<1>3. IsInjective(V!Stored(lookupStorage'))
  BY <1>2 DEF IsInjective
<1>4. ListArray' = ListArray \ ListArray
  BY <1>1, EmptyArray DEF ListArray
<1>5. newStorage \notin gone
  BY DEF OwnedOnce, OneOwner
<1>6. Reachable' = Reachable \ gone /\ gone \in SUBSET Reachable
  BY <1>1, <1>2, <1>5, InReachable, InOwnedNext
<1>7. goneRefs = UNION {RefsOf(s) : s \in gone} /\ freed = UNION {FreedByStorage(s) : s \in gone}
  OBVIOUS
<1>8. newStorage' \notin Range(V!Stored(lookupStorage'))
  BY <1>2
<1> HIDE DEF gone, goneRefs, freed
<1> QED
  BY <1>1, <1>3, <1>4, <1>6, <1>7, <1>8, DeletersFree

\* Every operation keeps the ownership.
LEMMA OwnershipStep ==
    LookupTypeOK /\ OwnedOnce /\ UnreachedIsBlank /\ [Next]_vars => OwnedOnce' /\ UnreachedIsBlank'
<1> SUFFICES ASSUME LookupTypeOK, OwnedOnce, UnreachedIsBlank, [Next]_vars
             PROVE  OwnedOnce' /\ UnreachedIsBlank'
  OBVIOUS
<1>0. Factors \subseteq Nat \ {0}
  BY UserPatcherAssumption
<1>1. CASE CreateNew
  BY <1>1, CreateNewOwns
<1>2. CASE CreatePage
  BY <1>2, CreatePageOwns
<1>3. CASE CreatePageFails
  <2>1. newStorage # Null
    BY <1>3 DEF CreatePageFails, LookupTypeOK
  <2> QED
    BY <1>3, <2>1, DeleteStorageOwns DEF CreatePageFails
<1>4. CASE DropStorage
  BY <1>4, DeleteStorageOwns DEF DropStorage
<1>5. CASE CreateRef
  BY <1>5, CreateRefOwns
<1>6. CASE DropRef
  BY <1>6, DropRefOwns
<1>7. CASE DeinitStorage
  BY <1>7, DeinitStorageOwns
<1>8. ASSUME NEW mul \in Factors, PushStorage(mul)
      PROVE  OwnedOnce' /\ UnreachedIsBlank'
  BY <1>0, <1>8, PushStorageOwns
<1>9. ASSUME NEW r \in ReachableRefs, NEW mul \in Factors, PushPageOff(r, mul)
      PROVE  OwnedOnce' /\ UnreachedIsBlank'
  BY <1>0, <1>9, PushPageOffOwns
<1>10. ASSUME NEW r \in ReachableRefs, NEW mul \in Factors, PushSegOff(r, mul)
       PROVE  OwnedOnce' /\ UnreachedIsBlank'
  BY <1>0, <1>10, PushSegOffOwns
<1>11. ASSUME NEW s \in Reachable, NEW mul \in Factors, PushRef(s, mul)
       PROVE  OwnedOnce' /\ UnreachedIsBlank'
  BY <1>0, <1>11, PushRefOwns
<1>12. ASSUME NEW index \in 0 .. (lookupStorage.cnt - 1), NEW free \in BOOLEAN,
              EraseStorage(index, free)
       PROVE  OwnedOnce' /\ UnreachedIsBlank'
  <2>1. index \in Nat
    OBVIOUS
  <2> QED
    BY <1>12, <2>1, EraseStorageOwns
<1>13. CASE UNCHANGED lvars
  <2>1. /\ \A s : RefsOf(s)' = RefsOf(s) /\ OfStorage(s)' = OfStorage(s)
        /\ \A r : FreedByRef(r)' = FreedByRef(r)
        /\ ListArray' = ListArray
    BY <1>13 DEF RefsOf, OfStorage, FreedByRef, ListArray, lvars, objects
  <2>2. UNCHANGED <<lookupStorage, newStorage, newRef, live, badFree, page, refs, pageOffs, segOffs>>
    BY <1>13 DEF lvars, objects, loader, memory
  <2>3. Reachable' = Reachable
    BY <2>2 DEF Reachable
  <2>4. ReachableRefs' = ReachableRefs
    BY <2>1, <2>2, <2>3, InReachable, InOwnedNext
  <2>5. Owned' = Owned
    BY <2>1, <2>3, <2>4, InOwned, InOwnedNext
  <2>6. OneOwner'
    BY <2>1, <2>2, <2>3 DEF OwnedOnce, OneOwner
  <2>7. UnreachedIsBlank'
    BY <2>2, <2>3, <2>4 DEF UnreachedIsBlank
  <2> QED
    BY <2>2, <2>5, <2>6, <2>7 DEF OwnedOnce
<1> QED
  BY <1>1, <1>2, <1>3, <1>4, <1>5, <1>6, <1>7, <1>8, <1>9, <1>10, <1>11, <1>12, <1>13
     DEF Next, Activate, Running, vars

\* Ownership with what it rests on.
LEMMA OwnershipAlways == Spec => [](LookupTypeOK /\ OwnedOnce /\ UnreachedIsBlank)
<1> DEFINE IInv == LookupTypeOK /\ OwnedOnce /\ UnreachedIsBlank
<1>1. Init => IInv
  BY TypeInit, OwnershipInit
<1>2. IInv /\ [Next]_vars => IInv'
  BY TypeStep, OwnershipStep
<1> QED
  BY <1>1, <1>2, PTL DEF Spec

\* Whichever allocation fails, and whatever order the loader works in, each
\* object has one owner, nothing leaks and nothing is freed twice.
THEOREM EverythingIsOwnedOnce == Spec => []OwnedOnce
  BY OwnershipAlways, PTL

-----------------------------------------------------------------------------
(* The storages are a list *)

\* The abstract operators are the ones used here.
LEMMA ListOperators ==
    /\ \A f : List!Range(f) = Range(f)
    /\ \A f, i : List!RemoveAt(f, i) = RemoveAt(f, i)
  BY DEF List!Range, Range, List!RemoveAt, RemoveAt

\* The storages that exist are those of the list and the loader's.
LEMMA AliveIs ==
    ASSUME LookupTypeOK, OwnedOnce
    PROVE  /\ \A s : s \in Alive <=> (s \in Range(Listed) \/ (s = newStorage /\ s # Null))
           /\ \A s : s \in List!Outside <=> (s = newStorage /\ s # Null)
<1>1. \A s : s \in Alive <=> s \in Reachable
  BY ReachedIsLive, ReachableTypes DEF Alive, OwnedOnce
<1>2. newStorage \notin Range(Listed)
  BY DEF OwnedOnce, OneOwner, Listed
<1>3. \A s : s \in Alive <=> (s \in Range(Listed) \/ (s = newStorage /\ s # Null))
  BY <1>1, InReachable DEF Listed
<1>4. List!Outside = Alive \ Range(Listed)
  BY ListOperators DEF List!Outside
<1> QED
  BY <1>2, <1>3, <1>4

\* The deleter of a storage ends that storage and no other.
LEMMA DeleterEndsOne ==
    \A s, t : Block("LookupStorage", s) \in FreedByStorage(t) <=> s = t
<1>1. \A s, t : Block("LookupStorage", s) \in OfStorage(t) <=> s = t
  BY BlocksApart DEF OfStorage, Block
<1>2. \A s, r : Block("LookupStorage", s) \notin FreedByRef(r)
  BY BlocksApart DEF Block
<1> QED
  BY <1>1, <1>2, StorageFrees

\* The empty list of storages is one.
LEMMA ListInit == Init => List!Init
<1> SUFFICES ASSUME Init
             PROVE  List!Init
  OBVIOUS
<1>1. Listed = << >>
  BY EmptyIsSound DEF Init, LookupInit, Listed
<1>2. Alive = {}
  BY DEF Init, LookupInit, Alive
<1> QED
  BY <1>1, <1>2 DEF List!Init

\* A storage of the loader is deleted: the list stays as it is.
LEMMA DeleteDestroys ==
    ASSUME LookupTypeOK, OwnedOnce, newStorage # Null, DeleteStorage(newStorage),
           UNCHANGED lookupStorage
    PROVE  List!Destroy
<1>1. newStorage \in List!Outside
  BY AliveIs
<1>2. Listed' = Listed
  BY DEF Listed
<1>3. Alive' = Alive \ {newStorage}
  BY DeleterEndsOne DEF Alive, DeleteStorage, Release
<1> QED
  BY <1>1, <1>2, <1>3 DEF List!Destroy

\* Each operation is one of a list, or leaves the list alone.
LEMMA ListStep ==
    ASSUME LookupTypeOK, OwnedOnce, LookupTypeOK', OwnedOnce', [Next]_vars
    PROVE  [List!Next]_(List!vars)
<1> USE DEF List!vars
<1>0. Factors \subseteq Nat \ {0}
  BY UserPatcherAssumption
<1>1. CASE CreateNew
  <2>1. PICK s0 \in Storages : /\ Block("LookupStorage", s0) \notin live
                              /\ live' = live \cup {Block("LookupStorage", s0)}
                              /\ lookupStorage' = lookupStorage
    BY <1>1 DEF CreateNew, Unused, Allocate
  <2>2. Listed' = Listed
    BY <2>1 DEF Listed
  <2>3. s0 \in Storages \ Alive /\ Alive' = Alive \cup {s0}
    BY <2>1 DEF Alive, Block
  <2> QED
    BY <2>2, <2>3 DEF List!Next, List!Create
<1>2. CASE CreatePage
  <2>1. Listed' = Listed
    BY <1>2 DEF CreatePage, Listed
  <2>2. Alive' = Alive
    BY <1>2 DEF CreatePage, Allocate, Alive, Block
  <2> QED
    BY <2>1, <2>2
<1>3. CASE CreatePageFails
  <2>1. newStorage # Null
    BY <1>3 DEF CreatePageFails, LookupTypeOK
  <2> QED
    BY <1>3, <2>1, DeleteDestroys DEF CreatePageFails, List!Next
<1>4. CASE DropStorage
  BY <1>4, DeleteDestroys DEF DropStorage, List!Next
<1>5. CASE CreateRef
  <2>1. Listed' = Listed
    BY <1>5 DEF CreateRef, Listed
  <2>2. Alive' = Alive
    BY <1>5 DEF CreateRef, Allocate, Alive, Block
  <2> QED
    BY <2>1, <2>2
<1>6. CASE DropRef
  <2>1. Listed' = Listed
    BY <1>6 DEF DropRef, Listed
  <2>2. \A s : Block("LookupStorage", s) \notin FreedByRef(newRef)
    BY BlocksApart DEF Block
  <2>3. Alive' = Alive
    BY <1>6, <2>2 DEF DropRef, Release, Alive
  <2> QED
    BY <2>1, <2>3
<1>7. CASE DeinitStorage
  <2>1. Listed' = << >>
    BY <1>7, DeinitEmpties, EmptyIsSound DEF DeinitStorage, LookupTypeOK, Listed
  <2> DEFINE freed == UNION {FreedByStorage(s) : s \in Range(Listed)}
  <2>2. live' = live \ (freed \cup ListArray)
    BY <1>7 DEF DeinitStorage, Release, Listed, ListArray
  <2>3. \A s : Block("LookupStorage", s) \in freed <=> s \in Range(Listed)
    BY DeleterEndsOne
  <2>4. \A s : Block("LookupStorage", s) \notin ListArray
    BY BlocksApart DEF Block
  <2> HIDE DEF freed
  <2>5. Alive' = Alive \ Range(Listed)
    BY <2>2, <2>3, <2>4 DEF Alive
  <2>6. Alive' = List!Outside
    BY <2>5, ListOperators DEF List!Outside
  <2> QED
    BY <2>1, <2>6 DEF List!Next, List!Deinit
<1>8. ASSUME NEW mul \in Factors, PushStorage(mul)
      PROVE  List!Next
  <2>1. newStorage \in Storages /\ newStorage # Null
    BY <1>8 DEF PushStorage, LookupTypeOK
  <2>2. Listed' = Append(Listed, newStorage)
    <3>1. SoundVector(lookupStorage, Storages) /\ mul \in Nat \ {0}
      BY <1>0 DEF LookupTypeOK
    <3>2. lookupStorage' = V!PushBack(lookupStorage, mul, newStorage)
      BY <1>8 DEF PushStorage
    <3> QED
      BY <2>1, <3>1, <3>2, PushBackAppends DEF Listed
  <2>3. Alive' = Alive
    BY <1>8 DEF PushStorage, Allocate, Grown, Alive, Block
  <2>4. newStorage \in List!Outside
    BY <2>1, AliveIs
  <2> QED
    BY <2>2, <2>3, <2>4 DEF List!Next, List!Push
<1>9. ASSUME NEW r \in ReachableRefs, NEW mul \in Factors, PushPageOff(r, mul)
      PROVE  UNCHANGED List!vars
  <2>1. Listed' = Listed
    BY <1>9 DEF PushPageOff, Listed
  <2>2. Alive' = Alive
    BY <1>9 DEF PushPageOff, Allocate, Grown, Alive, Block
  <2> QED
    BY <2>1, <2>2
<1>10. ASSUME NEW r \in ReachableRefs, NEW mul \in Factors, PushSegOff(r, mul)
       PROVE  UNCHANGED List!vars
  <2>1. Listed' = Listed
    BY <1>10 DEF PushSegOff, Listed
  <2>2. Alive' = Alive
    BY <1>10 DEF PushSegOff, Allocate, Grown, Alive, Block
  <2> QED
    BY <2>1, <2>2
<1>11. ASSUME NEW s \in Reachable, NEW mul \in Factors, PushRef(s, mul)
       PROVE  UNCHANGED List!vars
  <2>1. Listed' = Listed
    BY <1>11 DEF PushRef, Listed
  <2>2. Alive' = Alive
    BY <1>11 DEF PushRef, Allocate, Grown, Alive, Block
  <2> QED
    BY <2>1, <2>2
<1>12. ASSUME NEW index \in 0 .. (lookupStorage.cnt - 1), NEW free \in BOOLEAN,
              EraseStorage(index, free)
       PROVE  List!Next
  <2> DEFINE s0 == lookupStorage.ptr[index + 1]
             n == index + 1
             array == ListArray \ ListArray'
  <2>1. /\ index \in Nat /\ index < lookupStorage.cnt
        /\ lookupStorage' = V!Erase(lookupStorage, index, free)
        /\ live' = live \ (FreedByStorage(s0) \cup array)
    BY <1>12 DEF EraseStorage, Release, ListArray
  <2>2. SoundVector(lookupStorage, Storages) /\ lookupStorage.cnt \in Nat
    BY DEF LookupTypeOK, SoundVector
  <2>3. Listed' = RemoveAt(Listed, n)
    BY <2>1, <2>2, EraseRemoves DEF Listed
  <2>4. n \in 1 .. Len(Listed) /\ Listed[n] = s0
    BY <2>1, <2>2, StoredIs DEF Listed
  <2>5. \A s : Block("LookupStorage", s) \notin array
    BY BlocksApart DEF Block
  <2> HIDE DEF s0, n, array
  <2>6. Alive' = Alive \ {s0}
    BY <2>1, <2>5, DeleterEndsOne DEF Alive
  <2>7. Listed' = List!RemoveAt(Listed, n)
    BY <2>3, ListOperators
  <2> QED
    BY <2>4, <2>6, <2>7 DEF List!Next, List!Erase
<1>13. CASE UNCHANGED lvars
  <2>1. Listed' = Listed
    BY <1>13 DEF lvars, Listed
  <2>2. Alive' = Alive
    BY <1>13 DEF lvars, memory, Alive
  <2> QED
    BY <2>1, <2>2
<1> QED
  BY <1>1, <1>2, <1>3, <1>4, <1>5, <1>6, <1>7, <1>8, <1>9, <1>10, <1>11, <1>12, <1>13
     DEF Next, Activate, Running, vars

\* The storages form a list in the order of their insertion: erase() destroys
\* what leaves the list, and a failed insertion leaves it as it was.
THEOREM StoragesAreAList == Spec => ImplementsList
<1> DEFINE IInv == LookupTypeOK /\ OwnedOnce /\ UnreachedIsBlank
<1>1. IInv /\ IInv' /\ [Next]_vars => [List!Next]_(List!vars)
  BY ListStep
<1> QED
  BY <1>1, ListInit, OwnershipAlways, PTL DEF Spec, ImplementsList, List!Spec

-----------------------------------------------------------------------------
(* The entry wrapper: the frame it builds *)

EntrySp == entry.reg["sp"]

\* Where the stack is after the alignment to so many words.
Aligned(words) == (EntrySp - 1) - ((EntrySp - 1) % words)

\* The program's part of the stack is never written.
FrameTypes ==
    /\ at \in {"wrapper", "booter", "main"}
    /\ EntrySp \in EntrySps
    /\ reg \in [Registers -> Int]
    /\ stack \in [0 .. EntrySp + 4 -> Int]
    /\ entry.reg \in [Registers -> Int]
    /\ \A a \in EntrySp .. EntrySp + 4 : stack[a] = entry.stack[a]

\* The base pointer is saved in the first word and points to it.
BaseSaved ==
    /\ ip \in 3 .. 15 => reg["bp"] = EntrySp - 1
    /\ ip \notin 3 .. 15 => reg["bp"] = entry.reg["bp"]
    /\ ip \in 2 .. 15 => stack[EntrySp - 1] = entry.reg["bp"]

\* Where the stack pointer of the 64-bit wrapper is.
Pointer64 ==
    /\ ip \in {1, 16} => reg["sp"] = EntrySp
    /\ ip \in {2, 3, 15} => reg["sp"] = EntrySp - 1
    /\ ip \in 4 .. 8 => reg["sp"] = Aligned(2) - (ip - 4)
    /\ ip \in 9 .. 10 => reg["sp"] = Aligned(2) - 4
    /\ ip \in 11 .. 14 => reg["sp"] = Aligned(2) - (14 - ip)

\* Each argument is in its register or, around the call, on the stack.
Arguments64 ==
    \A k \in Args :
        /\ entry.reg[ArgRegister[k]] = Arg(k)
        /\ ip \in (4 + k) .. (14 - k) => stack[Aligned(2) - k] = Arg(k)
        /\ ip \notin 9 .. (14 - k) => reg[ArgRegister[k]] = Arg(k)

Frame64 ==
    /\ mode = "entry64" /\ ip \in 1 .. 16
    /\ at = "booter" => ip = 8
    /\ at = "main" => ip = 16
    /\ FrameTypes /\ BaseSaved /\ Pointer64 /\ Arguments64
    /\ ip >= 10 => reg["ax"] = 0

\* Where the stack pointer of the 32-bit wrapper is.
Pointer32 ==
    /\ ip \in {1, 16, 19, 20} => reg["sp"] = EntrySp
    /\ ip \in {2, 3, 15, 18} => reg["sp"] = EntrySp - 1
    /\ ip \in 4 .. 8 => reg["sp"] = Aligned(4) - (ip - 4)
    /\ ip = 10 => reg["sp"] = Aligned(4) - 5
    /\ ip \in 11 .. 14 => reg["sp"] = Aligned(4) - 4

\* What is on its way to %edx to be called or jumped to.
Target32 ==
    /\ ip = 10 => stack[Aligned(4) - 5] = EntryWrapperBooter
    /\ ip = 11 => reg["dx"] = EntryWrapperBooter
    /\ ip = 12 => reg["dx"] = Booter
    /\ ip = 18 => stack[EntrySp - 1] = EntryWrapperEntry
    /\ ip = 19 => reg["dx"] = EntryWrapperEntry
    /\ ip = 20 => reg["dx"] = Main

\* The arguments are copied in front of the booter's frame.
Arguments32 ==
    \A k \in Args :
        /\ stack[EntrySp + k] = Arg(k)
        /\ ip \in (9 - k) .. 12 => stack[Aligned(4) - 5 + k] = Arg(k)

Frame32 ==
    /\ mode = "entry32" /\ ip \in (1 .. 20) \ {9, 17}
    /\ at = "booter" => ip = 12
    /\ at = "main" => ip = 20
    /\ FrameTypes /\ BaseSaved /\ Pointer32 /\ Target32 /\ Arguments32
    /\ \A r \in {"di", "si"} : reg[r] = entry.reg[r]
    /\ ip >= 14 => reg["ax"] = 0

FrameHolds == at = "idle" \/ Frame64 \/ Frame32

\* The instructions of the 64-bit wrapper.
LEMMA Table64 ==
    /\ Code64[1].op = "push" /\ Code64[1].a = "bp"
    /\ Code64[2].op = "mov" /\ Code64[2].a = "sp" /\ Code64[2].b = "bp"
    /\ Code64[3].op = "and" /\ Code64[3].a = 2
    /\ Code64[4].op = "push" /\ Code64[4].a = "di"
    /\ Code64[5].op = "push" /\ Code64[5].a = "si"
    /\ Code64[6].op = "push" /\ Code64[6].a = "dx"
    /\ Code64[7].op = "push" /\ Code64[7].a = "cx"
    /\ Code64[8].op = "callmem" /\ Code64[8].a = 24 /\ Code64[8].size = 6
    /\ Code64[9].op = "xor" /\ Code64[9].a = "ax"
    /\ Code64[10].op = "pop" /\ Code64[10].a = "cx"
    /\ Code64[11].op = "pop" /\ Code64[11].a = "dx"
    /\ Code64[12].op = "pop" /\ Code64[12].a = "si"
    /\ Code64[13].op = "pop" /\ Code64[13].a = "di"
    /\ Code64[14].op = "mov" /\ Code64[14].a = "bp" /\ Code64[14].b = "sp"
    /\ Code64[15].op = "pop" /\ Code64[15].a = "bp"
    /\ Code64[16].op = "jmpmem" /\ Code64[16].a = 0 /\ Code64[16].size = 6
  BY DEF Code64, I

\* The steps that execute an instruction of the wrapper.
Executed ==
    \/ Push \/ PushArg \/ Pop \/ Mov \/ Xor \/ Align
    \/ CallOver \/ Load \/ Call \/ Jump

\* Each step executes the instruction that is next, and no other.
LEMMA Dispatch ==
    ASSUME Executed
    PROVE  /\ Code[ip].op = "push" => Push
           /\ Code[ip].op = "pusharg" => PushArg
           /\ Code[ip].op = "pop" => Pop
           /\ Code[ip].op = "mov" => Mov
           /\ Code[ip].op = "xor" => Xor
           /\ Code[ip].op = "and" => Align
           /\ Code[ip].op = "callover" => CallOver
           /\ Code[ip].op = "load" => Load
           /\ Code[ip].op \in {"callmem", "callreg"} => Call
           /\ Code[ip].op \in {"jmpmem", "jmpreg"} => Jump
  BY DEF Executed, Executes, Push, PushArg, Pop, Mov, Xor, Align, CallOver, Load, Call, Jump

\* What the 64-bit wrapper does at each instruction.
LEMMA Fetch64 ==
    ASSUME mode = "entry64", ip \in 1 .. 16, Executed
    PROVE  /\ ip = 1 => Push /\ A = "bp"
           /\ ip = 2 => Mov /\ A = "sp" /\ B = "bp"
           /\ ip = 3 => Align /\ A = 2
           /\ ip = 4 => Push /\ A = "di"
           /\ ip = 5 => Push /\ A = "si"
           /\ ip = 6 => Push /\ A = "dx"
           /\ ip = 7 => Push /\ A = "cx"
           /\ ip = 8 => Call
           /\ ip = 9 => Xor /\ A = "ax"
           /\ ip = 10 => Pop /\ A = "cx"
           /\ ip = 11 => Pop /\ A = "dx"
           /\ ip = 12 => Pop /\ A = "si"
           /\ ip = 13 => Pop /\ A = "di"
           /\ ip = 14 => Mov /\ A = "bp" /\ B = "sp"
           /\ ip = 15 => Pop /\ A = "bp"
           /\ ip = 16 => Jump
<1>1. Code = Code64
  BY DEF Code
<1>2. A = Code64[ip].a /\ B = Code64[ip].b
  BY <1>1 DEF A, B
<1> QED
  BY <1>1, <1>2, Table64, Dispatch

\* Where the alignment puts the stack pointer.
LEMMA AlignedIs ==
    ASSUME EntrySp \in EntrySps
    PROVE  /\ EntrySp \in Nat /\ EntrySp >= 16
           /\ Aligned(2) \in Int /\ EntrySp - 2 <= Aligned(2) /\ Aligned(2) <= EntrySp - 1
           /\ Aligned(2) % 2 = 0
           /\ Aligned(4) \in Int /\ EntrySp - 4 <= Aligned(4) /\ Aligned(4) <= EntrySp - 1
           /\ Aligned(4) % 4 = 0
<1>1. EntrySp \in Nat /\ EntrySp >= 16
  BY EntryWrapperAssumption
<1> QED
  BY <1>1 DEF Aligned

\* A push writes one word below the stack and no register but %sp.
LEMMA PushEffect ==
    ASSUME FrameTypes, NEW v \in Int, Pushed(v), reg["sp"] \in 1 .. EntrySp
    PROVE  /\ reg' \in [Registers -> Int]
           /\ stack' \in [0 .. EntrySp + 4 -> Int]
           /\ reg'["sp"] = reg["sp"] - 1
           /\ \A r \in Registers \ {"sp"} : reg'[r] = reg[r]
           /\ \A a \in 0 .. EntrySp + 4 : stack'[a] = IF a = reg["sp"] - 1 THEN v ELSE stack[a]
<1>1. /\ reg \in [Registers -> Int] /\ "sp" \in Registers
      /\ stack \in [0 .. EntrySp + 4 -> Int]
      /\ EntrySp \in Nat
  BY EntryWrapperAssumption DEF FrameTypes, Registers
<1>2. /\ reg' = [reg EXCEPT !["sp"] = reg["sp"] - 1]
      /\ stack' = [stack EXCEPT ![reg["sp"] - 1] = v]
  BY DEF Pushed
<1>3. reg["sp"] - 1 \in 0 .. EntrySp + 4
  BY <1>1
<1> QED
  BY <1>1, <1>2, <1>3

\* A pop reads the lowest word into a register.
LEMMA PopEffect ==
    ASSUME FrameTypes, Pop, A \in Registers \ {"sp"}, reg["sp"] \in 0 .. EntrySp
    PROVE  /\ reg' \in [Registers -> Int]
           /\ stack' = stack
           /\ reg'["sp"] = reg["sp"] + 1
           /\ reg'[A] = stack[reg["sp"]]
           /\ \A r \in Registers \ {"sp", A} : reg'[r] = reg[r]
<1>1. /\ reg \in [Registers -> Int] /\ "sp" \in Registers
      /\ stack \in [0 .. EntrySp + 4 -> Int]
      /\ EntrySp \in Nat
  BY EntryWrapperAssumption DEF FrameTypes, Registers
<1>2. reg' = [reg EXCEPT ![A] = stack[reg["sp"]], !["sp"] = reg["sp"] + 1] /\ stack' = stack
  BY DEF Pop
<1>3. reg["sp"] \in 0 .. EntrySp + 4 /\ stack[reg["sp"]] \in Int
  BY <1>1
<1> QED
  BY <1>1, <1>2, <1>3

\* What a step that writes one register leaves.
LEMMA WriteEffect ==
    ASSUME FrameTypes, NEW r0 \in Registers, NEW v \in Int, reg' = [reg EXCEPT ![r0] = v]
    PROVE  /\ reg' \in [Registers -> Int]
           /\ reg'[r0] = v
           /\ \A r \in Registers \ {r0} : reg'[r] = reg[r]
  BY DEF FrameTypes

\* The types hold as long as the program's part of the stack is left alone.
LEMMA TypesKept ==
    ASSUME FrameTypes, entry' = entry, at' \in {"wrapper", "booter", "main"},
           reg' \in [Registers -> Int], stack' \in [0 .. EntrySp + 4 -> Int],
           \A a \in EntrySp .. EntrySp + 4 : stack'[a] = stack[a]
    PROVE  FrameTypes' /\ EntrySp' = EntrySp /\ \A w : Aligned(w)' = Aligned(w)
<1>1. EntrySp' = EntrySp
  BY DEF EntrySp
<1> QED
  BY <1>1 DEF FrameTypes, Aligned

\* Each offset is the sum of the sizes before it.
LEMMA Offsets64 == Offsets(Code64)[8] = 12 /\ Offsets(Code64)[16] = 28
<1> DEFINE o == CHOOSE f : f = [i \in 1 .. Len(Code64) |->
                                 IF i = 1 THEN 0 ELSE f[i - 1] + Code64[i - 1].size]
           g == <<0, 1, 4, 8, 9, 10, 11, 12, 18, 20, 21, 22, 23, 24, 27, 28>>
<1>1. Offsets(Code64) = o
  BY DEF Offsets
<1>2. /\ Len(Code64) = 16
      /\ Code64[1].size = 1 /\ Code64[2].size = 3 /\ Code64[3].size = 4 /\ Code64[4].size = 1
      /\ Code64[5].size = 1 /\ Code64[6].size = 1 /\ Code64[7].size = 1 /\ Code64[8].size = 6
      /\ Code64[9].size = 2 /\ Code64[10].size = 1 /\ Code64[11].size = 1 /\ Code64[12].size = 1
      /\ Code64[13].size = 1 /\ Code64[14].size = 3 /\ Code64[15].size = 1
  BY DEF Code64, I
<1>3. g = [i \in 1 .. 16 |-> IF i = 1 THEN 0 ELSE g[i - 1] + Code64[i - 1].size]
  <2>1. g \in [1 .. 16 -> Int]
    OBVIOUS
  <2>2. g[1] = 0 /\ g[2] = g[1] + 1 /\ g[3] = g[2] + 3
    OBVIOUS
  <2> QED
    BY <1>2
<1>4. o = [i \in 1 .. 16 |-> IF i = 1 THEN 0 ELSE o[i - 1] + Code64[i - 1].size]
  <2> HIDE DEF g
  <2> QED
    BY <1>2, <1>3
<1> HIDE DEF o
<1>5. /\ o[1] = 0 /\ o[2] = o[1] + 1 /\ o[3] = o[2] + 3 /\ o[4] = o[3] + 4 /\ o[5] = o[4] + 1
      /\ o[6] = o[5] + 1 /\ o[7] = o[6] + 1 /\ o[8] = o[7] + 1
      /\ o[9] = o[8] + 6 /\ o[10] = o[9] + 2 /\ o[11] = o[10] + 1 /\ o[12] = o[11] + 1
      /\ o[13] = o[12] + 1 /\ o[14] = o[13] + 1 /\ o[15] = o[14] + 3 /\ o[16] = o[15] + 1
  BY <1>2, <1>4
<1> QED
  BY <1>1, <1>5

\* Both displacements lead to the pointers the injector has written.
LEMMA Targets64 ==
    ASSUME mode = "entry64"
    PROVE  (ip = 8 => Target = Booter) /\ (ip = 16 => Target = Main)
<1>1. Code = Code64
  BY DEF Code
<1>2. CASE ip = 8
  <2>1. Target = Pointer(42)
    BY <1>1, <1>2, Table64, Offsets64 DEF Target, Offset, A
  <2> QED
    BY <2>1, <1>2 DEF Pointer, EntryWrapperBooter, EntryWrapperEntry
<1>3. CASE ip = 16
  <2>1. Target = Pointer(34)
    BY <1>1, <1>3, Table64, Offsets64 DEF Target, Offset, A
  <2> QED
    BY <2>1, <1>3 DEF Pointer, EntryWrapperBooter, EntryWrapperEntry
<1> QED
  BY <1>2, <1>3

\* Each instruction of the 64-bit wrapper keeps the frame.
LEMMA Step64 ==
    ASSUME Frame64, Executed
    PROVE  Frame64'
<1> DEFINE t == Aligned(2)
<1>0. /\ mode = "entry64" /\ ip \in 1 .. 16 /\ FrameTypes /\ BaseSaved
      /\ Pointer64 /\ Arguments64
      /\ ip >= 10 => reg["ax"] = 0
      /\ at = "wrapper"
  BY DEF Frame64, Executed, Executes, Push, PushArg, Pop, Mov, Xor, Align, CallOver, Load, Call, Jump
<1>1. /\ EntrySp \in Nat /\ EntrySp >= 16
      /\ t \in Int /\ EntrySp - 2 <= t /\ t <= EntrySp - 1
  BY <1>0, AlignedIs DEF FrameTypes
<1>2. mode' = mode /\ entry' = entry
  BY DEF Executed, Push, PushArg, Pop, Mov, Xor, Align, CallOver, Load, Call, Jump, Step
<1>3. \A k \in Args : ArgRegister[k] \in Registers \ {"ax", "bp", "sp"}
  BY DEF ArgRegister, Registers, Args
<1>4. /\ reg \in [Registers -> Int]
      /\ stack \in [0 .. EntrySp + 4 -> Int]
  BY <1>0 DEF FrameTypes
<1>5. \A r \in {"ax", "bp", "cx", "di", "dx", "si", "sp"} : r \in Registers
  BY DEF Registers
<1>6. /\ \A k \in Args : Arg(k) \in Int
      /\ \A j, k \in Args : ArgRegister[j] = ArgRegister[k] => j = k
  BY DEF Arg, ArgRegister, Args
<1>7. t = Aligned(2) /\ t' = Aligned(2)'
  OBVIOUS
<1> HIDE DEF t
<1>8. CASE ip = 1
  <2>1. Push /\ A = "bp"
    BY <1>0, <1>8, Fetch64
  <2>2. Pushed(reg["bp"]) /\ ip' = 2 /\ at' = "wrapper"
    BY <2>1, <1>0, <1>8 DEF Push, Step
  <2>3. reg["sp"] = EntrySp /\ reg["bp"] = entry.reg["bp"]
    BY <1>0, <1>8 DEF Pointer64, BaseSaved
  <2> reg["bp"] \in Int /\ reg["sp"] \in 1 .. EntrySp
    BY <2>3, <1>1, <1>4, <1>5
  <2>4. /\ reg' \in [Registers -> Int]
        /\ stack' \in [0 .. EntrySp + 4 -> Int]
        /\ reg'["sp"] = reg["sp"] - 1
        /\ \A r \in Registers \ {"sp"} : reg'[r] = reg[r]
        /\ \A a \in 0 .. EntrySp + 4 : stack'[a] = IF a = reg["sp"] - 1 THEN reg["bp"] ELSE stack[a]
    BY <2>2, <2>3, <1>0, <1>1, <1>4, <1>5, PushEffect
  <2>5. FrameTypes' /\ EntrySp' = EntrySp /\ t' = t
    BY <2>2, <2>3, <2>4, <1>0, <1>1, <1>2, <1>7, TypesKept
  <2>6. BaseSaved'
    <3>1. EntrySp - 1 \in 0 .. EntrySp + 4 /\ reg["sp"] - 1 = EntrySp - 1
      BY <2>3, <1>1
    <3>2. stack'[EntrySp - 1] = entry.reg["bp"] /\ reg'["bp"] = entry.reg["bp"]
      BY <2>3, <2>4, <3>1, <1>5
    <3> QED
      BY <2>2, <2>5, <3>2, <1>2 DEF BaseSaved
  <2>7. Pointer64'
    BY <2>2, <2>3, <2>4, <2>5, <1>1, <1>7 DEF Pointer64
  <2>8. Arguments64'
    <3> SUFFICES ASSUME NEW k \in Args
                 PROVE  /\ entry.reg[ArgRegister[k]]' = Arg(k)
                        /\ ip' \notin (4 + k) .. (14 - k)
                        /\ reg'[ArgRegister[k]] = Arg(k)
      BY <2>2 DEF Arguments64
    <3> QED
      BY <2>2, <2>4, <1>0, <1>2, <1>3, <1>8 DEF Arguments64, Args
  <2> QED
    BY <2>2, <2>5, <2>6, <2>7, <2>8, <1>0, <1>2 DEF Frame64
<1>9. CASE ip = 2
  <2>1. Mov /\ A = "sp" /\ B = "bp"
    BY <1>0, <1>9, Fetch64
  <2>2. reg["sp"] = EntrySp - 1
    BY <1>0, <1>1, <1>9 DEF Pointer64
  <2>3. reg' = [reg EXCEPT !["bp"] = reg["sp"]] /\ stack' = stack /\ ip' = 3 /\ at' = "wrapper"
    BY <2>1, <2>2, <1>0, <1>9 DEF Mov, Step
  <2>4. /\ reg' \in [Registers -> Int]
        /\ reg'["bp"] = reg["sp"]
        /\ \A r \in Registers \ {"bp"} : reg'[r] = reg[r]
    <3>1. reg["sp"] \in Int
      BY <1>1, <1>4, <1>5
    <3> QED
      BY <2>3, <3>1, <1>0, <1>5, WriteEffect
  <2>5. FrameTypes' /\ EntrySp' = EntrySp /\ t' = t
    BY <2>3, <2>4, <1>0, <1>1, <1>2, <1>4, <1>7, TypesKept
  <2>6. BaseSaved'
    BY <2>2, <2>3, <2>4, <2>5, <1>0, <1>1, <1>2, <1>5, <1>9 DEF BaseSaved
  <2>7. Pointer64'
    BY <2>2, <2>3, <2>4, <2>5, <1>0, <1>1, <1>5, <1>7, <1>9 DEF Pointer64
  <2>8. Arguments64'
    BY <2>3, <2>4, <2>5, <1>0, <1>2, <1>3, <1>7, <1>9 DEF Arguments64, Args
  <2> QED
    BY <2>3, <2>4, <2>5, <2>6, <2>7, <2>8, <1>0, <1>2, <1>5, <1>9 DEF Frame64
<1>10. CASE ip = 3
  <2>1. Align /\ A = 2
    BY <1>0, <1>10, Fetch64
  <2>2. reg["sp"] - (reg["sp"] % 2) = t
    BY <1>0, <1>1, <1>10 DEF Pointer64, Aligned, t
  <2>3. reg' = [reg EXCEPT !["sp"] = t] /\ stack' = stack /\ ip' = 4 /\ at' = "wrapper"
    <3>1. reg' = [reg EXCEPT !["sp"] = reg["sp"] - (reg["sp"] % 2)]
      BY <2>1 DEF Align
    <3>2. stack' = stack /\ ip' = 4 /\ at' = "wrapper"
      BY <2>1, <1>0, <1>10 DEF Align, Step
    <3> QED
      BY <2>2, <3>1, <3>2
  <2>4. /\ reg' \in [Registers -> Int]
        /\ reg'["sp"] = t
        /\ \A r \in Registers \ {"sp"} : reg'[r] = reg[r]
    <3>1. t \in Int
      BY <1>1, <1>4, <1>5
    <3> QED
      BY <2>3, <3>1, <1>0, <1>5, WriteEffect
  <2>5. FrameTypes' /\ EntrySp' = EntrySp /\ t' = t
    BY <2>3, <2>4, <1>0, <1>1, <1>2, <1>4, <1>7, TypesKept
  <2>6. BaseSaved'
    BY <2>2, <2>3, <2>4, <2>5, <1>0, <1>1, <1>2, <1>5, <1>10 DEF BaseSaved
  <2>7. Pointer64'
    BY <2>2, <2>3, <2>4, <2>5, <1>0, <1>1, <1>5, <1>7, <1>10 DEF Pointer64
  <2>8. Arguments64'
    BY <2>3, <2>4, <2>5, <1>0, <1>2, <1>3, <1>7, <1>10 DEF Arguments64, Args
  <2> QED
    BY <2>3, <2>4, <2>5, <2>6, <2>7, <2>8, <1>0, <1>2, <1>5, <1>10 DEF Frame64
<1>11. CASE ip \in 4 .. 7
  <2> DEFINE k0 == ip - 3
  <2>0. k0 \in Args /\ ip = 3 + k0
    BY <1>11 DEF Args
  <2>1. Push /\ A = ArgRegister[k0]
    BY <1>0, <1>11, Fetch64 DEF ArgRegister
  <2> HIDE DEF k0
  <2>2. Pushed(Arg(k0)) /\ ip' = 4 + k0 /\ at' = "wrapper"
    <3>1. reg[ArgRegister[k0]] = Arg(k0)
      BY <2>0, <1>0 DEF Arguments64, Args
    <3> QED
      BY <2>0, <2>1, <3>1, <1>0 DEF Push, Step, Args
  <2>3. reg["sp"] = t - (k0 - 1) /\ reg["sp"] \in 1 .. EntrySp
    BY <2>0, <1>0, <1>1, <1>7 DEF Pointer64, Args
  <2>4. /\ reg' \in [Registers -> Int]
        /\ stack' \in [0 .. EntrySp + 4 -> Int]
        /\ reg'["sp"] = t - k0
        /\ \A r \in Registers \ {"sp"} : reg'[r] = reg[r]
        /\ \A a \in 0 .. EntrySp + 4 : stack'[a] = IF a = t - k0 THEN Arg(k0) ELSE stack[a]
    <3>1. Arg(k0) \in Int /\ reg["sp"] - 1 = t - k0
      BY <2>0, <2>3, <1>1, <1>6 DEF Args
    <3> QED
      BY <2>2, <2>3, <3>1, <1>0, PushEffect
  <2>5. FrameTypes' /\ EntrySp' = EntrySp /\ t' = t
    <3>1. \A a \in EntrySp .. EntrySp + 4 : stack'[a] = stack[a]
      BY <2>0, <2>4, <1>1 DEF Args
    <3> QED
      BY <2>2, <2>4, <3>1, <1>0, <1>2, <1>7, TypesKept
  <2>6. BaseSaved'
    <3>1. /\ reg'["bp"] = EntrySp - 1 /\ ip' \in 5 .. 8
          /\ stack[EntrySp - 1] = entry.reg["bp"]
      BY <2>0, <2>2, <2>4, <1>0, <1>5 DEF BaseSaved, Args
    <3>2. EntrySp - 1 \in 0 .. EntrySp + 4 /\ EntrySp - 1 # t - k0
      BY <2>0, <1>1 DEF Args
    <3>3. stack'[EntrySp - 1] = entry.reg["bp"]
      BY <2>4, <3>1, <3>2
    <3> QED
      BY <2>5, <3>1, <3>3, <1>2 DEF BaseSaved
  <2>7. Pointer64'
    <3>1. ip' \in 5 .. 8 /\ reg'["sp"] = t' - (ip' - 4)
      BY <2>0, <2>2, <2>4, <2>5, <1>1 DEF Args
    <3> QED
      BY <3>1, <1>7 DEF Pointer64
  <2>8. Arguments64'
    <3> SUFFICES ASSUME NEW k \in Args
                 PROVE  /\ entry.reg[ArgRegister[k]]' = Arg(k)
                        /\ ip' \in (4 + k) .. (14 - k) => stack'[t - k] = Arg(k)
                        /\ ip' \notin 9 .. (14 - k) => reg'[ArgRegister[k]] = Arg(k)
      BY <2>5, <1>7 DEF Arguments64
    <3>0. entry.reg[ArgRegister[k]] = Arg(k) /\ reg[ArgRegister[k]] = Arg(k)
      BY <2>0, <1>0 DEF Arguments64, Args
    <3>1. entry.reg[ArgRegister[k]]' = Arg(k) /\ reg'[ArgRegister[k]] = Arg(k)
      BY <3>0, <2>4, <1>2, <1>3
    <3>2. CASE k = k0
      BY <2>0, <2>4, <3>1, <3>2, <1>1 DEF Args
    <3>3. CASE k < k0
      <4>1. stack[t - k] = Arg(k)
        BY <2>0, <3>3, <1>0, <1>7 DEF Arguments64, Args
      <4>2. t - k \in 0 .. EntrySp + 4 /\ t - k # t - k0
        BY <2>0, <3>3, <1>1 DEF Args
      <4>3. stack'[t - k] = Arg(k)
        BY <2>4, <4>1, <4>2
      <4> QED
        BY <3>1, <4>3
    <3>4. CASE k > k0
      BY <2>0, <2>2, <3>1, <3>4 DEF Args
    <3> QED
      BY <2>0, <3>2, <3>3, <3>4 DEF Args
  <2>9. ip' \in 5 .. 8
    BY <2>0, <2>2 DEF Args
  <2> QED
    BY <2>2, <2>5, <2>6, <2>7, <2>8, <2>9, <1>0, <1>2 DEF Frame64
<1>12. CASE ip = 8 \/ ip = 16
  <2>1. /\ UNCHANGED <<mode, ip, reg, stack, entry>>
        /\ at' \in {"booter", "main", "lost"}
        /\ ip = 8 => at' = IF Target = Booter THEN "booter" ELSE "lost"
        /\ ip = 16 => at' = IF Target = Main THEN "main" ELSE "lost"
    BY <1>0, <1>12, Fetch64 DEF Call, Jump
  <2>2. (ip = 8 => Target = Booter) /\ (ip = 16 => Target = Main)
    BY <1>0, <1>12, Targets64
  <2>3. /\ ip = 8 => at' = "booter"
        /\ ip = 16 => at' = "main"
    BY <2>1, <2>2
  <2>4. FrameTypes' /\ BaseSaved' /\ Pointer64' /\ Arguments64'
    BY <2>1, <2>3, <1>0, <1>12 DEF FrameTypes, BaseSaved, Pointer64, Arguments64, EntrySp, Aligned
  <2> QED
    BY <2>1, <2>3, <2>4, <1>0, <1>12 DEF Frame64
<1>13. CASE ip = 9
  <2>1. Xor /\ A = "ax"
    BY <1>0, <1>13, Fetch64
  <2>2. reg["sp"] = t - 4
    BY <1>0, <1>1, <1>13 DEF Pointer64, t
  <2>3. reg' = [reg EXCEPT !["ax"] = 0] /\ stack' = stack /\ ip' = 10 /\ at' = "wrapper"
    BY <2>1, <2>2, <1>0, <1>13 DEF Xor, Step
  <2>4. /\ reg' \in [Registers -> Int]
        /\ reg'["ax"] = 0
        /\ \A r \in Registers \ {"ax"} : reg'[r] = reg[r]
    <3>1. 0 \in Int
      BY <1>1, <1>4, <1>5
    <3> QED
      BY <2>3, <3>1, <1>0, <1>5, WriteEffect
  <2>5. FrameTypes' /\ EntrySp' = EntrySp /\ t' = t
    BY <2>3, <2>4, <1>0, <1>1, <1>2, <1>4, <1>7, TypesKept
  <2>6. BaseSaved'
    BY <2>2, <2>3, <2>4, <2>5, <1>0, <1>1, <1>2, <1>5, <1>13 DEF BaseSaved
  <2>7. Pointer64'
    BY <2>2, <2>3, <2>4, <2>5, <1>0, <1>1, <1>5, <1>7, <1>13 DEF Pointer64
  <2>8. Arguments64'
    BY <2>3, <2>4, <2>5, <1>0, <1>2, <1>3, <1>7, <1>13 DEF Arguments64, Args
  <2> QED
    BY <2>3, <2>4, <2>5, <2>6, <2>7, <2>8, <1>0, <1>2, <1>5, <1>13 DEF Frame64
<1>14. CASE ip \in 10 .. 13
  <2> DEFINE k0 == 14 - ip
  <2>0. k0 \in Args /\ ip = 14 - k0
    BY <1>14 DEF Args
  <2>1. Pop /\ A = ArgRegister[k0]
    BY <1>0, <1>14, Fetch64 DEF ArgRegister
  <2> HIDE DEF k0
  <2>2. ip' = 15 - k0 /\ at' = "wrapper"
    BY <2>0, <2>1, <1>0 DEF Pop, Step, Args
  <2>3. reg["sp"] = t - k0 /\ reg["sp"] \in 0 .. EntrySp /\ stack[t - k0] = Arg(k0)
    BY <2>0, <1>0, <1>1, <1>7 DEF Pointer64, Arguments64, Args
  <2>4. /\ reg' \in [Registers -> Int]
        /\ stack' = stack
        /\ reg'["sp"] = t - k0 + 1
        /\ reg'[ArgRegister[k0]] = Arg(k0)
        /\ \A r \in Registers \ {"sp", ArgRegister[k0]} : reg'[r] = reg[r]
    <3>1. ArgRegister[k0] \in Registers \ {"sp"}
      BY <2>0, <1>3
    <3> QED
      BY <2>1, <2>3, <3>1, <1>0, PopEffect
  <2>5. FrameTypes' /\ EntrySp' = EntrySp /\ t' = t
    BY <2>2, <2>4, <1>0, <1>1, <1>2, <1>4, <1>7, TypesKept
  <2>6. BaseSaved'
    BY <2>0, <2>2, <2>4, <2>5, <1>0, <1>1, <1>2, <1>3, <1>5 DEF BaseSaved, Args
  <2>7. Pointer64'
    BY <2>0, <2>2, <2>4, <2>5, <1>1, <1>7 DEF Pointer64, Args
  <2>8. Arguments64'
    <3> SUFFICES ASSUME NEW k \in Args
                 PROVE  /\ entry.reg[ArgRegister[k]]' = Arg(k)
                        /\ ip' \in (4 + k) .. (14 - k) => stack'[t - k] = Arg(k)
                        /\ ip' \notin 9 .. (14 - k) => reg'[ArgRegister[k]] = Arg(k)
      BY <2>5, <1>7 DEF Arguments64
    <3>1. CASE k = k0
      BY <2>0, <2>2, <2>3, <2>4, <3>1, <1>0, <1>2 DEF Arguments64, Args
    <3>2. CASE k # k0
      <4>1. ArgRegister[k] \in Registers \ {"sp", ArgRegister[k0]}
        BY <2>0, <3>2, <1>3, <1>6
      <4> QED
        BY <2>0, <2>2, <2>4, <3>2, <4>1, <1>0, <1>2, <1>7 DEF Arguments64, Args
    <3> QED
      BY <3>1, <3>2
  <2>9. ip' \in 11 .. 14 /\ reg'["ax"] = 0
    BY <2>0, <2>2, <2>4, <1>0, <1>3, <1>5 DEF Args
  <2> QED
    BY <2>2, <2>5, <2>6, <2>7, <2>8, <2>9, <1>0, <1>2 DEF Frame64
<1>15. CASE ip = 14
  <2>1. Mov /\ A = "bp" /\ B = "sp"
    BY <1>0, <1>15, Fetch64
  <2>2. reg["bp"] = EntrySp - 1
    BY <1>0, <1>1, <1>15 DEF BaseSaved
  <2>3. reg' = [reg EXCEPT !["sp"] = reg["bp"]] /\ stack' = stack /\ ip' = 15 /\ at' = "wrapper"
    BY <2>1, <2>2, <1>0, <1>15 DEF Mov, Step
  <2>4. /\ reg' \in [Registers -> Int]
        /\ reg'["sp"] = reg["bp"]
        /\ \A r \in Registers \ {"sp"} : reg'[r] = reg[r]
    <3>1. reg["bp"] \in Int
      BY <1>1, <1>4, <1>5
    <3> QED
      BY <2>3, <3>1, <1>0, <1>5, WriteEffect
  <2>5. FrameTypes' /\ EntrySp' = EntrySp /\ t' = t
    BY <2>3, <2>4, <1>0, <1>1, <1>2, <1>4, <1>7, TypesKept
  <2>6. BaseSaved'
    BY <2>2, <2>3, <2>4, <2>5, <1>0, <1>1, <1>2, <1>5, <1>15 DEF BaseSaved
  <2>7. Pointer64'
    BY <2>2, <2>3, <2>4, <2>5, <1>0, <1>1, <1>5, <1>7, <1>15 DEF Pointer64
  <2>8. Arguments64'
    BY <2>3, <2>4, <2>5, <1>0, <1>2, <1>3, <1>7, <1>15 DEF Arguments64, Args
  <2> QED
    BY <2>3, <2>4, <2>5, <2>6, <2>7, <2>8, <1>0, <1>2, <1>5, <1>15 DEF Frame64
<1>16. CASE ip = 15
  <2>1. Pop /\ A = "bp"
    BY <1>0, <1>16, Fetch64
  <2>2. ip' = 16 /\ at' = "wrapper"
    BY <2>1, <1>0, <1>16 DEF Pop, Step
  <2>3. /\ reg["sp"] = EntrySp - 1 /\ reg["sp"] \in 0 .. EntrySp
        /\ stack[EntrySp - 1] = entry.reg["bp"]
    BY <1>0, <1>1, <1>16 DEF Pointer64, BaseSaved
  <2>4. /\ reg' \in [Registers -> Int]
        /\ stack' = stack
        /\ reg'["sp"] = EntrySp
        /\ reg'["bp"] = entry.reg["bp"]
        /\ \A r \in Registers \ {"sp", "bp"} : reg'[r] = reg[r]
    BY <2>1, <2>3, <1>0, <1>1, <1>5, PopEffect
  <2>5. FrameTypes' /\ EntrySp' = EntrySp /\ t' = t
    BY <2>2, <2>4, <1>0, <1>1, <1>2, <1>4, <1>7, TypesKept
  <2>6. BaseSaved'
    BY <2>2, <2>4, <1>2 DEF BaseSaved
  <2>7. Pointer64'
    BY <2>2, <2>4, <2>5 DEF Pointer64
  <2>8. Arguments64'
    BY <2>2, <2>4, <1>0, <1>2, <1>3, <1>16 DEF Arguments64, Args
  <2> QED
    BY <2>2, <2>4, <2>5, <2>6, <2>7, <2>8, <1>0, <1>2, <1>5, <1>16 DEF Frame64
<1> QED
  BY <1>0, <1>8, <1>9, <1>10, <1>11, <1>12, <1>13, <1>14, <1>15, <1>16

\* The instructions of the 32-bit wrapper.
LEMMA Table32 ==
    /\ Code32[1].op = "push" /\ Code32[1].a = "bp"
    /\ Code32[2].op = "mov" /\ Code32[2].a = "sp" /\ Code32[2].b = "bp"
    /\ Code32[3].op = "and" /\ Code32[3].a = 4
    /\ Code32[4].op = "pusharg" /\ Code32[4].a = 5
    /\ Code32[5].op = "pusharg" /\ Code32[5].a = 4
    /\ Code32[6].op = "pusharg" /\ Code32[6].a = 3
    /\ Code32[7].op = "pusharg" /\ Code32[7].a = 2
    /\ Code32[8].op = "callover"
    /\ Code32[10].op = "pop" /\ Code32[10].a = "dx"
    /\ Code32[11].op = "load" /\ Code32[11].a = "dx"
    /\ Code32[12].op = "callreg" /\ Code32[12].a = "dx"
    /\ Code32[13].op = "xor" /\ Code32[13].a = "ax"
    /\ Code32[14].op = "mov" /\ Code32[14].a = "bp" /\ Code32[14].b = "sp"
    /\ Code32[15].op = "pop" /\ Code32[15].a = "bp"
    /\ Code32[16].op = "callover"
    /\ Code32[18].op = "pop" /\ Code32[18].a = "dx"
    /\ Code32[19].op = "load" /\ Code32[19].a = "dx"
    /\ Code32[20].op = "jmpreg" /\ Code32[20].a = "dx"
  BY DEF Code32, I

\* What the 32-bit wrapper does at each instruction.
LEMMA Fetch32 ==
    ASSUME mode = "entry32", ip \in (1 .. 20) \ {9, 17}, Executed
    PROVE  /\ ip = 1 => Push /\ A = "bp"
           /\ ip = 2 => Mov /\ A = "sp" /\ B = "bp"
           /\ ip = 3 => Align /\ A = 4
           /\ ip = 4 => PushArg /\ A = 5
           /\ ip = 5 => PushArg /\ A = 4
           /\ ip = 6 => PushArg /\ A = 3
           /\ ip = 7 => PushArg /\ A = 2
           /\ ip = 8 => CallOver
           /\ ip = 10 => Pop /\ A = "dx"
           /\ ip = 11 => Load /\ A = "dx"
           /\ ip = 12 => Call /\ A = "dx"
           /\ ip = 13 => Xor /\ A = "ax"
           /\ ip = 14 => Mov /\ A = "bp" /\ B = "sp"
           /\ ip = 15 => Pop /\ A = "bp"
           /\ ip = 16 => CallOver
           /\ ip = 18 => Pop /\ A = "dx"
           /\ ip = 19 => Load /\ A = "dx"
           /\ ip = 20 => Jump /\ A = "dx"
<1>1. Code = Code32
  BY DEF Code
<1>2. A = Code32[ip].a /\ B = Code32[ip].b
  BY <1>1 DEF A, B
<1> QED
  BY <1>1, <1>2, Table32, Dispatch

\* Each call over a pointer pushes where the injector has written it.
LEMMA Offsets32 == Offsets(Code32)[9] = 23 /\ Offsets(Code32)[17] = 42
<1> DEFINE o == CHOOSE f : f = [i \in 1 .. Len(Code32) |->
                                 IF i = 1 THEN 0 ELSE f[i - 1] + Code32[i - 1].size]
           g == <<0, 1, 3, 6, 9, 12, 15, 18, 23, 27, 28, 30, 32, 34, 36, 37, 42, 46, 47, 49>>
<1>1. Offsets(Code32) = o
  BY DEF Offsets
<1>2. /\ Len(Code32) = 20
      /\ Code32[1].size = 1 /\ Code32[2].size = 2 /\ Code32[3].size = 3 /\ Code32[4].size = 3
      /\ Code32[5].size = 3 /\ Code32[6].size = 3 /\ Code32[7].size = 3 /\ Code32[8].size = 5
      /\ Code32[9].size = 4 /\ Code32[10].size = 1 /\ Code32[11].size = 2 /\ Code32[12].size = 2
      /\ Code32[13].size = 2 /\ Code32[14].size = 2 /\ Code32[15].size = 1 /\ Code32[16].size = 5
      /\ Code32[17].size = 4 /\ Code32[18].size = 1 /\ Code32[19].size = 2
  BY DEF Code32, I
<1>3. g = [i \in 1 .. 20 |-> IF i = 1 THEN 0 ELSE g[i - 1] + Code32[i - 1].size]
  <2>1. g \in [1 .. 20 -> Int]
    OBVIOUS
  <2> QED
    BY <1>2
<1>4. o = [i \in 1 .. 20 |-> IF i = 1 THEN 0 ELSE o[i - 1] + Code32[i - 1].size]
  <2> HIDE DEF g
  <2> QED
    BY <1>2, <1>3
<1> HIDE DEF o
<1>5. /\ o[1] = 0
      /\ o[2] = o[1] + 1 /\ o[3] = o[2] + 2 /\ o[4] = o[3] + 3 /\ o[5] = o[4] + 3
      /\ o[6] = o[5] + 3 /\ o[7] = o[6] + 3 /\ o[8] = o[7] + 3 /\ o[9] = o[8] + 5
      /\ o[10] = o[9] + 4 /\ o[11] = o[10] + 1 /\ o[12] = o[11] + 2 /\ o[13] = o[12] + 2
      /\ o[14] = o[13] + 2 /\ o[15] = o[14] + 2 /\ o[16] = o[15] + 1 /\ o[17] = o[16] + 5
  BY <1>2, <1>4
<1> QED
  BY <1>1, <1>5

\* Each instruction of the 32-bit wrapper keeps the frame.
LEMMA Step32 ==
    ASSUME Frame32, Executed
    PROVE  Frame32'
<1> DEFINE t == Aligned(4)
<1>0. /\ mode = "entry32" /\ ip \in (1 .. 20) \ {9, 17} /\ FrameTypes /\ BaseSaved
      /\ Pointer32 /\ Target32 /\ Arguments32
      /\ \A r \in {"di", "si"} : reg[r] = entry.reg[r]
      /\ ip >= 14 => reg["ax"] = 0
      /\ at = "wrapper"
  BY DEF Frame32, Executed, Executes, Push, PushArg, Pop, Mov, Xor, Align, CallOver, Load, Call, Jump
<1>1. /\ EntrySp \in Nat /\ EntrySp >= 16
      /\ t \in Int /\ EntrySp - 4 <= t /\ t <= EntrySp - 1
  BY <1>0, AlignedIs DEF FrameTypes
<1>2. mode' = mode /\ entry' = entry
  BY DEF Executed, Push, PushArg, Pop, Mov, Xor, Align, CallOver, Load, Call, Jump, Step
<1>3. EntryWrapperBooter = 23 /\ EntryWrapperEntry = 42 /\ EntryWrapperBooter' = 23 /\ EntryWrapperEntry' = 42
  BY <1>0, <1>2 DEF EntryWrapperBooter, EntryWrapperEntry
<1>4. /\ reg \in [Registers -> Int]
      /\ stack \in [0 .. EntrySp + 4 -> Int]
  BY <1>0 DEF FrameTypes
<1>5. \A r \in {"ax", "bp", "cx", "di", "dx", "si", "sp"} : r \in Registers
  BY DEF Registers
<1>6. (\A k \in Args : Arg(k) \in Int) /\ Booter \in Int /\ Main \in Int
  BY DEF Arg, Args, Booter, Main
<1>7. t = Aligned(4) /\ t' = Aligned(4)'
  OBVIOUS
<1> HIDE DEF t
<1>8. CASE ip = 1
  <2>1. Push /\ A = "bp"
    BY <1>0, <1>8, Fetch32
  <2>2. reg["sp"] = EntrySp /\ reg["sp"] \in 1 .. EntrySp
    BY <1>0, <1>1, <1>7, <1>8 DEF Pointer32
  <2>3. Pushed(reg["bp"]) /\ ip' = 2 /\ at' = "wrapper"
    BY <2>1, <1>0, <1>8 DEF Push, Step
  <2>4. /\ reg' \in [Registers -> Int]
        /\ stack' \in [0 .. EntrySp + 4 -> Int]
        /\ reg'["sp"] = EntrySp - 1
        /\ \A r \in Registers \ {"sp"} : reg'[r] = reg[r]
        /\ \A a \in 0 .. EntrySp + 4 : stack'[a] = IF a = EntrySp - 1 THEN reg["bp"] ELSE stack[a]
    <3>1. reg["bp"] \in Int
      BY <1>4, <1>5
    <3> QED
      BY <2>2, <2>3, <3>1, <1>0, PushEffect
  <2>5. FrameTypes' /\ EntrySp' = EntrySp /\ t' = t
    <3>1. \A a \in EntrySp .. EntrySp + 4 : stack'[a] = stack[a]
      BY <2>4, <1>1
    <3> QED
      BY <2>3, <2>4, <3>1, <1>0, <1>2, <1>7, TypesKept
  <2>6. BaseSaved'
    BY <2>2, <2>3, <2>4, <2>5, <1>0, <1>1, <1>2, <1>5, <1>8 DEF BaseSaved
  <2>7. Pointer32'
    BY <2>2, <2>3, <2>4, <2>5, <1>0, <1>1, <1>5, <1>7, <1>8 DEF Pointer32
  <2>8. Target32'
    BY <2>2, <2>3, <2>4, <2>5, <1>0, <1>1, <1>3, <1>5, <1>7, <1>8 DEF Target32
  <2>9. Arguments32'
    <3> SUFFICES ASSUME NEW k \in Args
                 PROVE  /\ stack'[EntrySp + k] = Arg(k)
                        /\ ip' \in (9 - k) .. 12 => stack'[t - 5 + k] = Arg(k)
      BY <2>5, <1>7 DEF Arguments32
    <3>1. /\ stack[EntrySp + k] = Arg(k)
          /\ ip' \in (9 - k) .. 12 => stack[t - 5 + k] = Arg(k)
      BY <2>3, <1>0, <1>7, <1>8 DEF Arguments32, Args
    <3>2. /\ EntrySp + k \in 0 .. EntrySp + 4 /\ EntrySp + k # EntrySp - 1
          /\ t - 5 + k \in 0 .. EntrySp + 4 /\ t - 5 + k # EntrySp - 1
      BY <1>1 DEF Args
    <3>3. stack'[EntrySp + k] = stack[EntrySp + k] /\ stack'[t - 5 + k] = stack[t - 5 + k]
      BY <2>4, <3>2
    <3> QED
      BY <3>1, <3>3
  <2> QED
    BY <2>2, <2>3, <2>4, <2>5, <2>6, <2>7, <2>8, <2>9, <1>0, <1>2, <1>5, <1>8 DEF Frame32
<1>9. CASE ip = 2
  <2>1. Mov /\ A = "sp" /\ B = "bp"
    BY <1>0, <1>9, Fetch32
  <2>2. reg["sp"] = EntrySp - 1
    BY <1>0, <1>1, <1>3, <1>9 DEF Pointer32
  <2>3. reg' = [reg EXCEPT !["bp"] = reg["sp"]] /\ stack' = stack /\ ip' = 3 /\ at' = "wrapper"
    <3>1. reg' = [reg EXCEPT !["bp"] = reg["sp"]]
      BY <2>1, <1>0 DEF Mov
    <3>2. stack' = stack /\ ip' = 3 /\ at' = "wrapper"
      BY <2>1, <1>0, <1>9 DEF Mov, Step
    <3> QED
      BY <2>2, <3>1, <3>2
  <2>4. /\ reg' \in [Registers -> Int]
        /\ reg'["bp"] = reg["sp"]
        /\ \A r \in Registers \ {"bp"} : reg'[r] = reg[r]
    <3>1. reg["sp"] \in Int
      BY <1>1, <1>4, <1>5, <1>6
    <3> QED
      BY <2>3, <3>1, <1>0, <1>5, WriteEffect
  <2>5. FrameTypes' /\ EntrySp' = EntrySp /\ t' = t
    BY <2>3, <2>4, <1>0, <1>1, <1>2, <1>4, <1>7, TypesKept
  <2>6. BaseSaved'
    BY <2>2, <2>3, <2>4, <2>5, <1>0, <1>1, <1>2, <1>5, <1>9 DEF BaseSaved
  <2>7. Pointer32'
    BY <2>2, <2>3, <2>4, <2>5, <1>0, <1>1, <1>5, <1>7, <1>9 DEF Pointer32
  <2>8. Target32'
    BY <2>2, <2>3, <2>4, <2>5, <1>0, <1>1, <1>3, <1>5, <1>7, <1>9 DEF Target32
  <2>9. Arguments32'
    BY <2>2, <2>3, <2>4, <2>5, <1>0, <1>1, <1>2, <1>7, <1>9 DEF Arguments32, Args
  <2> QED
    BY <2>2, <2>3, <2>4, <2>5, <2>6, <2>7, <2>8, <2>9, <1>0, <1>2, <1>5, <1>9 DEF Frame32
<1>10. CASE ip = 3
  <2>1. Align /\ A = 4
    BY <1>0, <1>10, Fetch32
  <2>2. reg["sp"] - (reg["sp"] % 4) = t
    BY <1>0, <1>1, <1>3, <1>10 DEF Pointer32, Aligned, t
  <2>3. reg' = [reg EXCEPT !["sp"] = t] /\ stack' = stack /\ ip' = 4 /\ at' = "wrapper"
    <3>1. reg' = [reg EXCEPT !["sp"] = reg["sp"] - (reg["sp"] % 4)]
      BY <2>1, <1>0 DEF Align
    <3>2. stack' = stack /\ ip' = 4 /\ at' = "wrapper"
      BY <2>1, <1>0, <1>10 DEF Align, Step
    <3> QED
      BY <2>2, <3>1, <3>2
  <2>4. /\ reg' \in [Registers -> Int]
        /\ reg'["sp"] = t
        /\ \A r \in Registers \ {"sp"} : reg'[r] = reg[r]
    <3>1. t \in Int
      BY <1>1, <1>4, <1>5, <1>6
    <3> QED
      BY <2>3, <3>1, <1>0, <1>5, WriteEffect
  <2>5. FrameTypes' /\ EntrySp' = EntrySp /\ t' = t
    BY <2>3, <2>4, <1>0, <1>1, <1>2, <1>4, <1>7, TypesKept
  <2>6. BaseSaved'
    BY <2>2, <2>3, <2>4, <2>5, <1>0, <1>1, <1>2, <1>5, <1>10 DEF BaseSaved
  <2>7. Pointer32'
    BY <2>2, <2>3, <2>4, <2>5, <1>0, <1>1, <1>5, <1>7, <1>10 DEF Pointer32
  <2>8. Target32'
    BY <2>2, <2>3, <2>4, <2>5, <1>0, <1>1, <1>3, <1>5, <1>7, <1>10 DEF Target32
  <2>9. Arguments32'
    BY <2>2, <2>3, <2>4, <2>5, <1>0, <1>1, <1>2, <1>7, <1>10 DEF Arguments32, Args
  <2> QED
    BY <2>2, <2>3, <2>4, <2>5, <2>6, <2>7, <2>8, <2>9, <1>0, <1>2, <1>5, <1>10 DEF Frame32
<1>11. CASE ip \in 4 .. 7
  <2> DEFINE k0 == 8 - ip
  <2>0. k0 \in Args /\ ip = 8 - k0
    BY <1>11 DEF Args
  <2>1. PushArg /\ A = 1 + k0
    BY <1>0, <1>11, Fetch32
  <2> HIDE DEF k0
  <2>2. reg["sp"] = t - 4 + k0 /\ reg["sp"] \in 1 .. EntrySp
    BY <2>0, <1>0, <1>1, <1>7 DEF Pointer32, Args
  <2>3. Pushed(Arg(k0)) /\ ip' = 9 - k0 /\ at' = "wrapper"
    <3>1. reg["bp"] + A = EntrySp + k0
      BY <2>0, <2>1, <1>0, <1>1 DEF BaseSaved, Args
    <3>2. stack[EntrySp + k0] = Arg(k0)
      BY <2>0, <1>0 DEF Arguments32
    <3>3. stack[reg["bp"] + A] = Arg(k0)
      BY <3>1, <3>2
    <3> QED
      BY <2>0, <2>1, <3>3, <1>0 DEF PushArg, Step, Args
  <2>4. /\ reg' \in [Registers -> Int]
        /\ stack' \in [0 .. EntrySp + 4 -> Int]
        /\ reg'["sp"] = t - 5 + k0
        /\ \A r \in Registers \ {"sp"} : reg'[r] = reg[r]
        /\ \A a \in 0 .. EntrySp + 4 : stack'[a] = IF a = t - 5 + k0 THEN Arg(k0) ELSE stack[a]
    <3>1. Arg(k0) \in Int /\ reg["sp"] - 1 = t - 5 + k0
      BY <2>0, <2>2, <1>1, <1>6 DEF Args
    <3> QED
      BY <2>2, <2>3, <3>1, <1>0, PushEffect
  <2>5. FrameTypes' /\ EntrySp' = EntrySp /\ t' = t
    <3>1. \A a \in EntrySp .. EntrySp + 4 : stack'[a] = stack[a]
      BY <2>0, <2>4, <1>1 DEF Args
    <3> QED
      BY <2>3, <2>4, <3>1, <1>0, <1>2, <1>7, TypesKept
  <2>6. BaseSaved'
    <3>1. /\ reg'["bp"] = EntrySp - 1 /\ ip' \in 5 .. 8
          /\ stack[EntrySp - 1] = entry.reg["bp"]
      BY <2>0, <2>3, <2>4, <1>0, <1>5 DEF BaseSaved, Args
    <3>2. EntrySp - 1 \in 0 .. EntrySp + 4 /\ EntrySp - 1 # t - 5 + k0
      BY <2>0, <1>1 DEF Args
    <3>3. stack'[EntrySp - 1] = entry.reg["bp"]
      BY <2>4, <3>1, <3>2
    <3> QED
      BY <2>5, <3>1, <3>3, <1>2 DEF BaseSaved
  <2>7. Pointer32'
    <3>1. ip' \in 5 .. 8 /\ reg'["sp"] = t' - (ip' - 4)
      BY <2>0, <2>3, <2>4, <2>5, <1>1 DEF Args
    <3> QED
      BY <3>1, <1>7 DEF Pointer32
  <2>8. Target32'
    BY <2>0, <2>3 DEF Target32, Args
  <2>9. Arguments32'
    <3> SUFFICES ASSUME NEW k \in Args
                 PROVE  /\ stack'[EntrySp + k] = Arg(k)
                        /\ ip' \in (9 - k) .. 12 => stack'[t - 5 + k] = Arg(k)
      BY <2>5, <1>7 DEF Arguments32
    <3>1. stack'[EntrySp + k] = Arg(k)
      <4>1. EntrySp + k \in 0 .. EntrySp + 4 /\ EntrySp + k # t - 5 + k0
        BY <2>0, <1>1 DEF Args
      <4>2. stack[EntrySp + k] = Arg(k)
        BY <1>0 DEF Arguments32
      <4> QED
        BY <2>4, <4>1, <4>2
    <3>2. CASE k = k0
      <4>1. t - 5 + k0 \in 0 .. EntrySp + 4
        BY <2>0, <1>1 DEF Args
      <4> QED
        BY <2>4, <3>1, <3>2, <4>1
    <3>3. CASE k > k0
      <4>1. stack[t - 5 + k] = Arg(k)
        BY <2>0, <3>3, <1>0, <1>7 DEF Arguments32, Args
      <4>2. t - 5 + k \in 0 .. EntrySp + 4 /\ t - 5 + k # t - 5 + k0
        BY <2>0, <3>3, <1>1 DEF Args
      <4>3. stack'[t - 5 + k] = Arg(k)
        BY <2>4, <4>1, <4>2
      <4> QED
        BY <3>1, <4>3
    <3>4. CASE k < k0
      BY <2>0, <2>3, <3>1, <3>4 DEF Args
    <3> QED
      BY <2>0, <3>2, <3>3, <3>4 DEF Args
  <2>10. ip' \in 5 .. 8
    BY <2>0, <2>3 DEF Args
  <2>11. \A r \in {"di", "si"} : reg'[r] = entry.reg[r]'
    BY <2>4, <1>0, <1>2, <1>5
  <2> QED
    BY <2>3, <2>5, <2>6, <2>7, <2>8, <2>9, <2>10, <2>11, <1>0, <1>2 DEF Frame32
<1>12. CASE ip = 8
  <2>1. CallOver
    BY <1>0, <1>12, Fetch32
  <2>2. reg["sp"] = t - 4 /\ reg["sp"] \in 1 .. EntrySp
    BY <1>0, <1>1, <1>7, <1>12 DEF Pointer32
  <2>3. Pushed(23) /\ ip' = 10 /\ at' = "wrapper"
    <3>1. Offset(9) = 23
      BY <1>0, Offsets32 DEF Offset, Code
    <3>2. Pushed(Offset(ip + 1)) /\ ip' = ip + 2 /\ at' = at
      BY <2>1 DEF CallOver
    <3>3. Pushed(Offset(9)) /\ ip' = 10 /\ at' = "wrapper"
      BY <3>2, <1>0, <1>12
    <3> QED
      BY <3>1, <3>3 DEF Pushed
  <2>4. /\ reg' \in [Registers -> Int]
        /\ stack' \in [0 .. EntrySp + 4 -> Int]
        /\ reg'["sp"] = t - 4 - 1
        /\ \A r \in Registers \ {"sp"} : reg'[r] = reg[r]
        /\ \A a \in 0 .. EntrySp + 4 : stack'[a] = IF a = t - 4 - 1 THEN 23 ELSE stack[a]
    <3>1. 23 \in Int
      BY <1>4, <1>5
    <3> QED
      BY <2>2, <2>3, <3>1, <1>0, PushEffect
  <2>5. FrameTypes' /\ EntrySp' = EntrySp /\ t' = t
    <3>1. \A a \in EntrySp .. EntrySp + 4 : stack'[a] = stack[a]
      BY <2>4, <1>1
    <3> QED
      BY <2>3, <2>4, <3>1, <1>0, <1>2, <1>7, TypesKept
  <2>6. BaseSaved'
    <3>1. EntrySp - 1 \in 0 .. EntrySp + 4 /\ EntrySp - 1 # t - 4 - 1
      BY <1>1
    <3>2. stack'[EntrySp - 1] = stack[EntrySp - 1]
      BY <2>4, <3>1
    <3>3. /\ reg'["bp"] = EntrySp - 1
          /\ stack[EntrySp - 1] = entry.reg["bp"]
      BY <2>4, <1>0, <1>5, <1>12 DEF BaseSaved
    <3> QED
      BY <2>3, <2>5, <3>2, <3>3, <1>2 DEF BaseSaved
  <2>7. Pointer32'
    BY <2>2, <2>3, <2>4, <2>5, <1>0, <1>1, <1>5, <1>7, <1>12 DEF Pointer32
  <2>8. Target32'
    <3>1. t - 5 \in 0 .. EntrySp + 4 /\ t - 5 = t - 4 - 1
      BY <1>1
    <3>2. stack'[t - 5] = 23
      BY <2>4, <3>1
    <3> QED
      BY <2>3, <2>5, <3>2, <1>3, <1>7 DEF Target32
  <2>9. Arguments32'
    <3> SUFFICES ASSUME NEW k \in Args
                 PROVE  /\ stack'[EntrySp + k] = Arg(k)
                        /\ ip' \in (9 - k) .. 12 => stack'[t - 5 + k] = Arg(k)
      BY <2>5, <1>7 DEF Arguments32
    <3>1. /\ stack[EntrySp + k] = Arg(k)
          /\ ip' \in (9 - k) .. 12 => stack[t - 5 + k] = Arg(k)
      BY <2>3, <1>0, <1>7, <1>12 DEF Arguments32, Args
    <3>2. /\ EntrySp + k \in 0 .. EntrySp + 4 /\ EntrySp + k # t - 4 - 1
          /\ t - 5 + k \in 0 .. EntrySp + 4 /\ t - 5 + k # t - 4 - 1
      BY <1>1 DEF Args
    <3>3. stack'[EntrySp + k] = stack[EntrySp + k] /\ stack'[t - 5 + k] = stack[t - 5 + k]
      BY <2>4, <3>2
    <3> QED
      BY <3>1, <3>3
  <2> QED
    BY <2>2, <2>3, <2>4, <2>5, <2>6, <2>7, <2>8, <2>9, <1>0, <1>2, <1>5, <1>12 DEF Frame32
<1>13. CASE ip = 10
  <2>1. Pop /\ A = "dx"
    BY <1>0, <1>13, Fetch32
  <2>2. reg["sp"] = t - 5 /\ reg["sp"] \in 0 .. EntrySp /\ stack[t - 5] = 23
    BY <1>0, <1>1, <1>3, <1>7, <1>13 DEF Pointer32, Target32, BaseSaved
  <2>3. ip' = 11 /\ at' = "wrapper"
    BY <2>1, <1>0, <1>13 DEF Pop, Step
  <2>4. /\ reg' \in [Registers -> Int]
        /\ stack' = stack
        /\ reg'["sp"] = t - 5 + 1
        /\ reg'["dx"] = 23
        /\ \A r \in Registers \ {"sp", "dx"} : reg'[r] = reg[r]
    BY <2>1, <2>2, <1>0, <1>1, <1>5, PopEffect
  <2>5. FrameTypes' /\ EntrySp' = EntrySp /\ t' = t
    BY <2>3, <2>4, <1>0, <1>1, <1>2, <1>4, <1>7, TypesKept
  <2>6. BaseSaved'
    BY <2>2, <2>3, <2>4, <2>5, <1>0, <1>1, <1>2, <1>5, <1>13 DEF BaseSaved
  <2>7. Pointer32'
    BY <2>2, <2>3, <2>4, <2>5, <1>0, <1>1, <1>5, <1>7, <1>13 DEF Pointer32
  <2>8. Target32'
    BY <2>2, <2>3, <2>4, <2>5, <1>0, <1>1, <1>3, <1>5, <1>7, <1>13 DEF Target32
  <2>9. Arguments32'
    BY <2>2, <2>3, <2>4, <2>5, <1>0, <1>1, <1>2, <1>7, <1>13 DEF Arguments32, Args
  <2> QED
    BY <2>2, <2>3, <2>4, <2>5, <2>6, <2>7, <2>8, <2>9, <1>0, <1>2, <1>5, <1>13 DEF Frame32
<1>14. CASE ip = 11
  <2>1. Load /\ A = "dx"
    BY <1>0, <1>14, Fetch32
  <2>2. Pointer(reg["dx"]) = Booter
    BY <1>0, <1>1, <1>3, <1>14 DEF Target32, Pointer
  <2>3. reg' = [reg EXCEPT !["dx"] = Booter] /\ stack' = stack /\ ip' = 12 /\ at' = "wrapper"
    <3>1. reg' = [reg EXCEPT !["dx"] = Pointer(reg["dx"])]
      BY <2>1, <1>0 DEF Load
    <3>2. stack' = stack /\ ip' = 12 /\ at' = "wrapper"
      BY <2>1, <1>0, <1>14 DEF Load, Step
    <3> QED
      BY <2>2, <3>1, <3>2
  <2>4. /\ reg' \in [Registers -> Int]
        /\ reg'["dx"] = Booter
        /\ \A r \in Registers \ {"dx"} : reg'[r] = reg[r]
    <3>1. Booter \in Int
      BY <1>1, <1>4, <1>5, <1>6
    <3> QED
      BY <2>3, <3>1, <1>0, <1>5, WriteEffect
  <2>5. FrameTypes' /\ EntrySp' = EntrySp /\ t' = t
    BY <2>3, <2>4, <1>0, <1>1, <1>2, <1>4, <1>7, TypesKept
  <2>6. BaseSaved'
    BY <2>2, <2>3, <2>4, <2>5, <1>0, <1>1, <1>2, <1>5, <1>14 DEF BaseSaved
  <2>7. Pointer32'
    BY <2>2, <2>3, <2>4, <2>5, <1>0, <1>1, <1>5, <1>7, <1>14 DEF Pointer32
  <2>8. Target32'
    BY <2>2, <2>3, <2>4, <2>5, <1>0, <1>1, <1>3, <1>5, <1>7, <1>14 DEF Target32
  <2>9. Arguments32'
    BY <2>2, <2>3, <2>4, <2>5, <1>0, <1>1, <1>2, <1>7, <1>14 DEF Arguments32, Args
  <2> QED
    BY <2>2, <2>3, <2>4, <2>5, <2>6, <2>7, <2>8, <2>9, <1>0, <1>2, <1>5, <1>14 DEF Frame32
<1>15. CASE ip = 12 \/ ip = 20
  <2>1. /\ UNCHANGED <<mode, ip, reg, stack, entry>>
        /\ ip = 12 => at' = IF Target = Booter THEN "booter" ELSE "lost"
        /\ ip = 20 => at' = IF Target = Main THEN "main" ELSE "lost"
    BY <1>0, <1>15, Fetch32 DEF Call, Jump
  <2>2. Target = reg["dx"]
    <3>1. Code[ip].op \in {"callreg", "jmpreg"} /\ A = "dx"
      BY <1>0, <1>15, Table32 DEF Code, A
    <3> QED
      BY <3>1 DEF Target
  <2>3. /\ ip = 12 => at' = "booter"
        /\ ip = 20 => at' = "main"
    BY <2>1, <2>2, <1>0 DEF Target32
  <2>4. FrameTypes' /\ BaseSaved' /\ Pointer32' /\ Arguments32'
    BY <2>1, <2>3, <1>0, <1>15 DEF FrameTypes, BaseSaved, Pointer32, Arguments32, EntrySp, Aligned
  <2>5. Target32'
    BY <2>1, <1>0, <1>15 DEF Target32
  <2> QED
    BY <2>1, <2>3, <2>4, <2>5, <1>0, <1>15 DEF Frame32
<1>16. CASE ip = 13
  <2>1. Xor /\ A = "ax"
    BY <1>0, <1>16, Fetch32
  <2>2. reg["sp"] = t - 4
    BY <1>0, <1>1, <1>3, <1>16 DEF Pointer32, t
  <2>3. reg' = [reg EXCEPT !["ax"] = 0] /\ stack' = stack /\ ip' = 14 /\ at' = "wrapper"
    <3>1. reg' = [reg EXCEPT !["ax"] = 0]
      BY <2>1, <1>0 DEF Xor
    <3>2. stack' = stack /\ ip' = 14 /\ at' = "wrapper"
      BY <2>1, <1>0, <1>16 DEF Xor, Step
    <3> QED
      BY <2>2, <3>1, <3>2
  <2>4. /\ reg' \in [Registers -> Int]
        /\ reg'["ax"] = 0
        /\ \A r \in Registers \ {"ax"} : reg'[r] = reg[r]
    <3>1. 0 \in Int
      BY <1>1, <1>4, <1>5, <1>6
    <3> QED
      BY <2>3, <3>1, <1>0, <1>5, WriteEffect
  <2>5. FrameTypes' /\ EntrySp' = EntrySp /\ t' = t
    BY <2>3, <2>4, <1>0, <1>1, <1>2, <1>4, <1>7, TypesKept
  <2>6. BaseSaved'
    BY <2>2, <2>3, <2>4, <2>5, <1>0, <1>1, <1>2, <1>5, <1>16 DEF BaseSaved
  <2>7. Pointer32'
    BY <2>2, <2>3, <2>4, <2>5, <1>0, <1>1, <1>5, <1>7, <1>16 DEF Pointer32
  <2>8. Target32'
    BY <2>2, <2>3, <2>4, <2>5, <1>0, <1>1, <1>3, <1>5, <1>7, <1>16 DEF Target32
  <2>9. Arguments32'
    BY <2>2, <2>3, <2>4, <2>5, <1>0, <1>1, <1>2, <1>7, <1>16 DEF Arguments32, Args
  <2> QED
    BY <2>2, <2>3, <2>4, <2>5, <2>6, <2>7, <2>8, <2>9, <1>0, <1>2, <1>5, <1>16 DEF Frame32
<1>17. CASE ip = 14
  <2>1. Mov /\ A = "bp" /\ B = "sp"
    BY <1>0, <1>17, Fetch32
  <2>2. reg["bp"] = EntrySp - 1
    BY <1>0, <1>1, <1>3, <1>17 DEF BaseSaved
  <2>3. reg' = [reg EXCEPT !["sp"] = reg["bp"]] /\ stack' = stack /\ ip' = 15 /\ at' = "wrapper"
    <3>1. reg' = [reg EXCEPT !["sp"] = reg["bp"]]
      BY <2>1, <1>0 DEF Mov
    <3>2. stack' = stack /\ ip' = 15 /\ at' = "wrapper"
      BY <2>1, <1>0, <1>17 DEF Mov, Step
    <3> QED
      BY <2>2, <3>1, <3>2
  <2>4. /\ reg' \in [Registers -> Int]
        /\ reg'["sp"] = reg["bp"]
        /\ \A r \in Registers \ {"sp"} : reg'[r] = reg[r]
    <3>1. reg["bp"] \in Int
      BY <1>1, <1>4, <1>5, <1>6
    <3> QED
      BY <2>3, <3>1, <1>0, <1>5, WriteEffect
  <2>5. FrameTypes' /\ EntrySp' = EntrySp /\ t' = t
    BY <2>3, <2>4, <1>0, <1>1, <1>2, <1>4, <1>7, TypesKept
  <2>6. BaseSaved'
    BY <2>2, <2>3, <2>4, <2>5, <1>0, <1>1, <1>2, <1>5, <1>17 DEF BaseSaved
  <2>7. Pointer32'
    BY <2>2, <2>3, <2>4, <2>5, <1>0, <1>1, <1>5, <1>7, <1>17 DEF Pointer32
  <2>8. Target32'
    BY <2>2, <2>3, <2>4, <2>5, <1>0, <1>1, <1>3, <1>5, <1>7, <1>17 DEF Target32
  <2>9. Arguments32'
    BY <2>2, <2>3, <2>4, <2>5, <1>0, <1>1, <1>2, <1>7, <1>17 DEF Arguments32, Args
  <2> QED
    BY <2>2, <2>3, <2>4, <2>5, <2>6, <2>7, <2>8, <2>9, <1>0, <1>2, <1>5, <1>17 DEF Frame32
<1>18. CASE ip = 15
  <2>1. Pop /\ A = "bp"
    BY <1>0, <1>18, Fetch32
  <2>2. reg["sp"] = EntrySp - 1 /\ reg["sp"] \in 0 .. EntrySp /\ stack[EntrySp - 1] = entry.reg["bp"]
    BY <1>0, <1>1, <1>3, <1>7, <1>18 DEF Pointer32, Target32, BaseSaved
  <2>3. ip' = 16 /\ at' = "wrapper"
    BY <2>1, <1>0, <1>18 DEF Pop, Step
  <2>4. /\ reg' \in [Registers -> Int]
        /\ stack' = stack
        /\ reg'["sp"] = EntrySp - 1 + 1
        /\ reg'["bp"] = entry.reg["bp"]
        /\ \A r \in Registers \ {"sp", "bp"} : reg'[r] = reg[r]
    BY <2>1, <2>2, <1>0, <1>1, <1>5, PopEffect
  <2>5. FrameTypes' /\ EntrySp' = EntrySp /\ t' = t
    BY <2>3, <2>4, <1>0, <1>1, <1>2, <1>4, <1>7, TypesKept
  <2>6. BaseSaved'
    BY <2>2, <2>3, <2>4, <2>5, <1>0, <1>1, <1>2, <1>5, <1>18 DEF BaseSaved
  <2>7. Pointer32'
    BY <2>2, <2>3, <2>4, <2>5, <1>0, <1>1, <1>5, <1>7, <1>18 DEF Pointer32
  <2>8. Target32'
    BY <2>2, <2>3, <2>4, <2>5, <1>0, <1>1, <1>3, <1>5, <1>7, <1>18 DEF Target32
  <2>9. Arguments32'
    BY <2>2, <2>3, <2>4, <2>5, <1>0, <1>1, <1>2, <1>7, <1>18 DEF Arguments32, Args
  <2> QED
    BY <2>2, <2>3, <2>4, <2>5, <2>6, <2>7, <2>8, <2>9, <1>0, <1>2, <1>5, <1>18 DEF Frame32
<1>19. CASE ip = 16
  <2>1. CallOver
    BY <1>0, <1>19, Fetch32
  <2>2. reg["sp"] = EntrySp /\ reg["sp"] \in 1 .. EntrySp
    BY <1>0, <1>1, <1>7, <1>19 DEF Pointer32
  <2>3. Pushed(42) /\ ip' = 18 /\ at' = "wrapper"
    <3>1. Offset(17) = 42
      BY <1>0, Offsets32 DEF Offset, Code
    <3>2. Pushed(Offset(ip + 1)) /\ ip' = ip + 2 /\ at' = at
      BY <2>1 DEF CallOver
    <3>3. Pushed(Offset(17)) /\ ip' = 18 /\ at' = "wrapper"
      BY <3>2, <1>0, <1>19
    <3> QED
      BY <3>1, <3>3 DEF Pushed
  <2>4. /\ reg' \in [Registers -> Int]
        /\ stack' \in [0 .. EntrySp + 4 -> Int]
        /\ reg'["sp"] = EntrySp - 1
        /\ \A r \in Registers \ {"sp"} : reg'[r] = reg[r]
        /\ \A a \in 0 .. EntrySp + 4 : stack'[a] = IF a = EntrySp - 1 THEN 42 ELSE stack[a]
    <3>1. 42 \in Int
      BY <1>4, <1>5
    <3> QED
      BY <2>2, <2>3, <3>1, <1>0, PushEffect
  <2>5. FrameTypes' /\ EntrySp' = EntrySp /\ t' = t
    <3>1. \A a \in EntrySp .. EntrySp + 4 : stack'[a] = stack[a]
      BY <2>4, <1>1
    <3> QED
      BY <2>3, <2>4, <3>1, <1>0, <1>2, <1>7, TypesKept
  <2>6. BaseSaved'
    BY <2>2, <2>3, <2>4, <2>5, <1>0, <1>1, <1>2, <1>5, <1>19 DEF BaseSaved
  <2>7. Pointer32'
    BY <2>2, <2>3, <2>4, <2>5, <1>0, <1>1, <1>5, <1>7, <1>19 DEF Pointer32
  <2>8. Target32'
    BY <2>2, <2>3, <2>4, <2>5, <1>0, <1>1, <1>3, <1>5, <1>7, <1>19 DEF Target32
  <2>9. Arguments32'
    <3> SUFFICES ASSUME NEW k \in Args
                 PROVE  /\ stack'[EntrySp + k] = Arg(k)
                        /\ ip' \in (9 - k) .. 12 => stack'[t - 5 + k] = Arg(k)
      BY <2>5, <1>7 DEF Arguments32
    <3>1. /\ stack[EntrySp + k] = Arg(k)
          /\ ip' \in (9 - k) .. 12 => stack[t - 5 + k] = Arg(k)
      BY <2>3, <1>0, <1>7, <1>19 DEF Arguments32, Args
    <3>2. /\ EntrySp + k \in 0 .. EntrySp + 4 /\ EntrySp + k # EntrySp - 1
          /\ t - 5 + k \in 0 .. EntrySp + 4 /\ t - 5 + k # EntrySp - 1
      BY <1>1 DEF Args
    <3>3. stack'[EntrySp + k] = stack[EntrySp + k] /\ stack'[t - 5 + k] = stack[t - 5 + k]
      BY <2>4, <3>2
    <3> QED
      BY <3>1, <3>3
  <2> QED
    BY <2>2, <2>3, <2>4, <2>5, <2>6, <2>7, <2>8, <2>9, <1>0, <1>2, <1>5, <1>19 DEF Frame32
<1>20. CASE ip = 18
  <2>1. Pop /\ A = "dx"
    BY <1>0, <1>20, Fetch32
  <2>2. reg["sp"] = EntrySp - 1 /\ reg["sp"] \in 0 .. EntrySp /\ stack[EntrySp - 1] = 42
    BY <1>0, <1>1, <1>3, <1>7, <1>20 DEF Pointer32, Target32, BaseSaved
  <2>3. ip' = 19 /\ at' = "wrapper"
    BY <2>1, <1>0, <1>20 DEF Pop, Step
  <2>4. /\ reg' \in [Registers -> Int]
        /\ stack' = stack
        /\ reg'["sp"] = EntrySp - 1 + 1
        /\ reg'["dx"] = 42
        /\ \A r \in Registers \ {"sp", "dx"} : reg'[r] = reg[r]
    BY <2>1, <2>2, <1>0, <1>1, <1>5, PopEffect
  <2>5. FrameTypes' /\ EntrySp' = EntrySp /\ t' = t
    BY <2>3, <2>4, <1>0, <1>1, <1>2, <1>4, <1>7, TypesKept
  <2>6. BaseSaved'
    BY <2>2, <2>3, <2>4, <2>5, <1>0, <1>1, <1>2, <1>5, <1>20 DEF BaseSaved
  <2>7. Pointer32'
    BY <2>2, <2>3, <2>4, <2>5, <1>0, <1>1, <1>5, <1>7, <1>20 DEF Pointer32
  <2>8. Target32'
    BY <2>2, <2>3, <2>4, <2>5, <1>0, <1>1, <1>3, <1>5, <1>7, <1>20 DEF Target32
  <2>9. Arguments32'
    BY <2>2, <2>3, <2>4, <2>5, <1>0, <1>1, <1>2, <1>7, <1>20 DEF Arguments32, Args
  <2> QED
    BY <2>2, <2>3, <2>4, <2>5, <2>6, <2>7, <2>8, <2>9, <1>0, <1>2, <1>5, <1>20 DEF Frame32
<1>21. CASE ip = 19
  <2>1. Load /\ A = "dx"
    BY <1>0, <1>21, Fetch32
  <2>2. Pointer(reg["dx"]) = Main
    BY <1>0, <1>1, <1>3, <1>21 DEF Target32, Pointer
  <2>3. reg' = [reg EXCEPT !["dx"] = Main] /\ stack' = stack /\ ip' = 20 /\ at' = "wrapper"
    <3>1. reg' = [reg EXCEPT !["dx"] = Pointer(reg["dx"])]
      BY <2>1, <1>0 DEF Load
    <3>2. stack' = stack /\ ip' = 20 /\ at' = "wrapper"
      BY <2>1, <1>0, <1>21 DEF Load, Step
    <3> QED
      BY <2>2, <3>1, <3>2
  <2>4. /\ reg' \in [Registers -> Int]
        /\ reg'["dx"] = Main
        /\ \A r \in Registers \ {"dx"} : reg'[r] = reg[r]
    <3>1. Main \in Int
      BY <1>1, <1>4, <1>5, <1>6
    <3> QED
      BY <2>3, <3>1, <1>0, <1>5, WriteEffect
  <2>5. FrameTypes' /\ EntrySp' = EntrySp /\ t' = t
    BY <2>3, <2>4, <1>0, <1>1, <1>2, <1>4, <1>7, TypesKept
  <2>6. BaseSaved'
    BY <2>2, <2>3, <2>4, <2>5, <1>0, <1>1, <1>2, <1>5, <1>21 DEF BaseSaved
  <2>7. Pointer32'
    BY <2>2, <2>3, <2>4, <2>5, <1>0, <1>1, <1>5, <1>7, <1>21 DEF Pointer32
  <2>8. Target32'
    BY <2>2, <2>3, <2>4, <2>5, <1>0, <1>1, <1>3, <1>5, <1>7, <1>21 DEF Target32
  <2>9. Arguments32'
    BY <2>2, <2>3, <2>4, <2>5, <1>0, <1>1, <1>2, <1>7, <1>21 DEF Arguments32, Args
  <2> QED
    BY <2>2, <2>3, <2>4, <2>5, <2>6, <2>7, <2>8, <2>9, <1>0, <1>2, <1>5, <1>21 DEF Frame32
<1> QED
  BY <1>0, <1>8, <1>9, <1>10, <1>11, <1>12, <1>13, <1>14, <1>15, <1>16, <1>17, <1>18, <1>19, <1>20, <1>21

\* The 64-bit booter may destroy the saved arguments' registers, never the words
\* they are saved in.
LEMMA BooterReturns64 ==
    ASSUME Frame64, BooterReturns
    PROVE  Frame64'
<1> DEFINE t == Aligned(2)
<1>0. /\ mode = "entry64" /\ at = "booter" /\ ip = 8
      /\ FrameTypes /\ BaseSaved /\ Pointer64 /\ Arguments64
  BY DEF Frame64, BooterReturns
<1>1. /\ EntrySp \in Nat /\ EntrySp >= 16
      /\ t \in Int /\ EntrySp - 2 <= t /\ t <= EntrySp - 1
  BY <1>0, AlignedIs DEF FrameTypes
<1>2. mode' = mode /\ entry' = entry /\ ip' = 9 /\ at' = "wrapper"
  BY <1>0 DEF BooterReturns
<1>3. /\ reg \in [Registers -> Int]
      /\ stack \in [0 .. EntrySp + 4 -> Int]
      /\ Junk \in Int
  BY <1>0 DEF FrameTypes, Junk
<1>4. t = Aligned(2) /\ t' = Aligned(2)'
  OBVIOUS
<1> HIDE DEF t
<1>5. reg["sp"] = t - 4
  BY <1>0, <1>4 DEF Pointer64
<1>6. /\ reg' \in [Registers -> Int]
      /\ reg'["sp"] = reg["sp"] /\ reg'["bp"] = reg["bp"]
  <2>1. PICK gone \in SUBSET Volatile :
            reg' = [r \in Registers |-> IF r \in gone THEN Junk ELSE reg[r]]
    BY DEF BooterReturns
  <2>2. "sp" \in Registers \ gone /\ "bp" \in Registers \ gone
    BY <1>0, <2>1 DEF Volatile, Registers
  <2> QED
    BY <2>1, <2>2, <1>3
<1>7. /\ stack' \in [0 .. EntrySp + 4 -> Int]
      /\ \A a \in 0 .. EntrySp + 4 : a >= t - 4 => stack'[a] = stack[a]
  <2>1. stack' = [a \in 0 .. EntrySp + 4 |-> IF Owns(a) THEN Junk ELSE stack[a]]
    BY <1>3 DEF BooterReturns
  <2>2. \A a \in 0 .. EntrySp + 4 : a >= t - 4 => ~ Owns(a)
    BY <1>0, <1>1, <1>5 DEF Owns
  <2> QED
    BY <2>1, <2>2, <1>3
<1>8. FrameTypes' /\ EntrySp' = EntrySp /\ t' = t
  <2>1. \A a \in EntrySp .. EntrySp + 4 : stack'[a] = stack[a]
    BY <1>1, <1>7
  <2> QED
    BY <2>1, <1>0, <1>2, <1>4, <1>6, <1>7, TypesKept
<1>9. BaseSaved'
  BY <1>0, <1>1, <1>2, <1>6, <1>7, <1>8 DEF BaseSaved
<1>10. Pointer64'
  BY <1>2, <1>4, <1>5, <1>6, <1>8 DEF Pointer64
<1>11. Arguments64'
  <2> SUFFICES ASSUME NEW k \in Args
               PROVE  entry.reg[ArgRegister[k]]' = Arg(k) /\ stack'[t - k] = Arg(k)
    BY <1>2, <1>4, <1>8 DEF Arguments64, Args
  <2>1. entry.reg[ArgRegister[k]] = Arg(k) /\ stack[t - k] = Arg(k)
    BY <1>0, <1>4 DEF Arguments64, Args
  <2>2. t - k \in 0 .. EntrySp + 4 /\ t - k >= t - 4
    BY <1>1 DEF Args
  <2> QED
    BY <2>1, <2>2, <1>2, <1>7
<1> QED
  BY <1>0, <1>2, <1>8, <1>9, <1>10, <1>11 DEF Frame64

\* The 32-bit booter may destroy its copies of the arguments, never the
\* program's own.
LEMMA BooterReturns32 ==
    ASSUME Frame32, BooterReturns
    PROVE  Frame32'
<1> DEFINE t == Aligned(4)
<1>0. /\ mode = "entry32" /\ at = "booter" /\ ip = 12
      /\ FrameTypes /\ BaseSaved /\ Pointer32 /\ Arguments32
      /\ \A r \in {"di", "si"} : reg[r] = entry.reg[r]
  BY DEF Frame32, BooterReturns
<1>1. /\ EntrySp \in Nat /\ EntrySp >= 16
      /\ t \in Int /\ EntrySp - 4 <= t /\ t <= EntrySp - 1
  BY <1>0, AlignedIs DEF FrameTypes
<1>2. mode' = mode /\ entry' = entry /\ ip' = 13 /\ at' = "wrapper"
  BY <1>0 DEF BooterReturns
<1>3. /\ reg \in [Registers -> Int]
      /\ stack \in [0 .. EntrySp + 4 -> Int]
      /\ Junk \in Int
  BY <1>0 DEF FrameTypes, Junk
<1>4. t = Aligned(4) /\ t' = Aligned(4)'
  OBVIOUS
<1> HIDE DEF t
<1>5. reg["sp"] = t - 4
  BY <1>0, <1>4 DEF Pointer32
<1>6. /\ reg' \in [Registers -> Int]
      /\ reg'["sp"] = reg["sp"] /\ reg'["bp"] = reg["bp"]
      /\ reg'["di"] = reg["di"] /\ reg'["si"] = reg["si"]
  <2>1. PICK gone \in SUBSET Volatile :
            reg' = [r \in Registers |-> IF r \in gone THEN Junk ELSE reg[r]]
    BY DEF BooterReturns
  <2>2. \A r \in {"bp", "di", "si", "sp"} : r \in Registers \ gone
    BY <1>0, <2>1 DEF Volatile, Registers
  <2> QED
    BY <2>1, <2>2, <1>3
<1>7. /\ stack' \in [0 .. EntrySp + 4 -> Int]
      /\ \A a \in 0 .. EntrySp + 4 : a >= t => stack'[a] = stack[a]
  <2>1. stack' = [a \in 0 .. EntrySp + 4 |-> IF Owns(a) THEN Junk ELSE stack[a]]
    BY <1>3 DEF BooterReturns
  <2>2. \A a \in 0 .. EntrySp + 4 : a >= t => ~ Owns(a)
    BY <1>0, <1>1, <1>5 DEF Owns
  <2> QED
    BY <2>1, <2>2, <1>3
<1>8. FrameTypes' /\ EntrySp' = EntrySp /\ t' = t
  <2>1. \A a \in EntrySp .. EntrySp + 4 : stack'[a] = stack[a]
    BY <1>1, <1>7
  <2> QED
    BY <2>1, <1>0, <1>2, <1>4, <1>6, <1>7, TypesKept
<1>9. BaseSaved'
  BY <1>0, <1>1, <1>2, <1>6, <1>7, <1>8 DEF BaseSaved
<1>10. Pointer32' /\ Target32'
  BY <1>2, <1>4, <1>5, <1>6, <1>8 DEF Pointer32, Target32
<1>11. Arguments32'
  <2> SUFFICES ASSUME NEW k \in Args
               PROVE  stack'[EntrySp + k] = Arg(k)
    BY <1>2, <1>8 DEF Arguments32, Args
  <2>1. stack[EntrySp + k] = Arg(k)
    BY <1>0 DEF Arguments32
  <2>2. EntrySp + k \in 0 .. EntrySp + 4 /\ EntrySp + k >= t
    BY <1>1 DEF Args
  <2> QED
    BY <2>1, <2>2, <1>7
<1> QED
  BY <1>0, <1>2, <1>6, <1>8, <1>9, <1>10, <1>11 DEF Frame32

\* A program is entered with its arguments where its mode passes them.
LEMMA EnterFrames ==
    ASSUME NEW m \in Modes, NEW esp \in EntrySps, Enter(m, esp)
    PROVE  Frame64' \/ Frame32'
<1>0. esp \in Nat /\ esp >= 16 /\ m \in {"entry32", "entry64"}
  BY EntryWrapperAssumption
<1> DEFINE arg(r) == CHOOSE k \in Args : ArgRegister[k] = r
           value(r) == IF r = "sp" THEN esp
                       ELSE IF m = "entry64" /\ r \in Range(ArgRegister) THEN Arg(arg(r))
                       ELSE Junk - 20
           word(a) == IF m = "entry32" /\ a > esp THEN Arg(a - esp) ELSE Junk - 30
<1>1. /\ mode' = m /\ at' = "wrapper" /\ ip' = 1
      /\ reg' = [r \in Registers |-> value(r)]
      /\ stack' = [a \in 0 .. (esp + 4) |-> word(a)]
      /\ entry' = [reg |-> reg', stack |-> stack']
  BY DEF Enter
<1>2. \A k \in Args : /\ ArgRegister[k] \in Registers \ {"sp"}
                      /\ ArgRegister[k] \in Range(ArgRegister)
                      /\ \A j \in Args : ArgRegister[j] = ArgRegister[k] => j = k
  BY DEF ArgRegister, Registers, Args, Range
<1>3. \A k \in Args : arg(ArgRegister[k]) = k
  BY <1>2
<1>4. \A r \in Range(ArgRegister) : arg(r) \in Args
  <2>1. Range(ArgRegister) = {ArgRegister[k] : k \in Args}
    BY DEF Range, ArgRegister, Args
  <2> QED
    BY <2>1, <1>3
<1>5. \A k \in Args : Arg(k) \in Int
  BY DEF Arg, Args
<1>6. \A r \in Registers : value(r) \in Int
  BY <1>0, <1>4, <1>5 DEF Junk
<1>7. \A a \in 0 .. (esp + 4) : word(a) \in Int
  BY <1>0 DEF Arg, Junk
<1>8. value("sp") = esp /\ (m = "entry64" => \A k \in Args : value(ArgRegister[k]) = Arg(k))
  BY <1>2, <1>3
<1>9. m = "entry32" => \A k \in Args : word(esp + k) = Arg(k)
  BY <1>0 DEF Args
<1> HIDE DEF value, word
<1>10. \A r \in {"bp", "di", "si", "sp"} : r \in Registers
  BY DEF Registers
<1>11. EntrySp' = esp
  BY <1>1, <1>8, <1>10 DEF EntrySp
<1>12. FrameTypes'
  BY <1>0, <1>1, <1>6, <1>7, <1>11 DEF FrameTypes
<1>13. BaseSaved'
  BY <1>1 DEF BaseSaved
<1>14. CASE m = "entry64"
  <2>1. Pointer64'
    BY <1>1, <1>8, <1>10, <1>11 DEF Pointer64
  <2>2. Arguments64'
    BY <1>1, <1>2, <1>8, <1>14 DEF Arguments64, Args
  <2> QED
    BY <1>1, <1>12, <1>13, <1>14, <2>1, <2>2 DEF Frame64
<1>15. CASE m = "entry32"
  <2>1. Pointer32' /\ Target32'
    BY <1>1, <1>8, <1>10, <1>11 DEF Pointer32, Target32
  <2>2. Arguments32'
    <3>1. \A k \in Args : esp + k \in 0 .. (esp + 4)
      BY <1>0 DEF Args
    <3> QED
      BY <1>1, <1>9, <1>11, <1>15, <3>1 DEF Arguments32, Args
  <2> QED
    BY <1>1, <1>10, <1>12, <1>13, <1>15, <2>1, <2>2 DEF Frame32
<1> QED
  BY <1>0, <1>14, <1>15

\* The frame says that the booter is served and that main() is left alone.
LEMMA FrameIsTransparent == FrameHolds => Transparent
<1>1. CASE at = "idle"
  BY <1>1 DEF Transparent, BooterServed, MainUntouched
<1>2. ASSUME Frame64
      PROVE  Transparent
  <2>0. /\ mode = "entry64" /\ FrameTypes /\ BaseSaved /\ Pointer64 /\ Arguments64
        /\ at = "booter" => ip = 8
        /\ at = "main" => ip = 16 /\ reg["ax"] = 0
    BY <1>2 DEF Frame64
  <2>1. at # "lost"
    BY <2>0 DEF FrameTypes
  <2>2. BooterServed
    <3> SUFFICES ASSUME at = "booter"
                 PROVE  reg["sp"] % 2 = 0 /\ \A k \in Args : reg[ArgRegister[k]] = Arg(k)
      BY <2>0 DEF BooterServed
    <3>1. reg["sp"] = Aligned(2) - 4
      BY <2>0 DEF Pointer64
    <3>2. Aligned(2) \in Int /\ Aligned(2) % 2 = 0
      BY <2>0, AlignedIs DEF FrameTypes
    <3> QED
      BY <2>0, <3>1, <3>2 DEF Arguments64
  <2>3. MainUntouched
    <3> SUFFICES ASSUME at = "main"
                 PROVE  /\ \A r \in Registers \ {"ax"} : reg[r] = entry.reg[r]
                        /\ \A a \in DOMAIN stack : a >= reg["sp"] => stack[a] = entry.stack[a]
      BY <2>0 DEF MainUntouched
    <3>1. reg["sp"] = EntrySp /\ reg["bp"] = entry.reg["bp"]
      BY <2>0 DEF Pointer64, BaseSaved
    <3>2. \A k \in Args : reg[ArgRegister[k]] = entry.reg[ArgRegister[k]]
      BY <2>0 DEF Arguments64, Args
    <3>3. \A r \in Registers \ {"ax", "bp", "sp"} : \E k \in Args : r = ArgRegister[k]
      BY DEF Registers, ArgRegister, Args
    <3>4. \A r \in Registers \ {"ax"} : reg[r] = entry.reg[r]
      BY <3>1, <3>2, <3>3 DEF EntrySp
    <3>5. \A a \in DOMAIN stack : a >= reg["sp"] => stack[a] = entry.stack[a]
      BY <2>0, <3>1, EntryWrapperAssumption DEF FrameTypes
    <3> QED
      BY <3>4, <3>5
  <2> QED
    BY <2>1, <2>2, <2>3 DEF Transparent
<1>3. ASSUME Frame32
      PROVE  Transparent
  <2>0. /\ mode = "entry32" /\ FrameTypes /\ BaseSaved /\ Pointer32 /\ Arguments32
        /\ at = "booter" => ip = 12
        /\ at = "main" => ip = 20 /\ reg["ax"] = 0
        /\ \A r \in {"di", "si"} : reg[r] = entry.reg[r]
    BY <1>3 DEF Frame32
  <2>1. at # "lost"
    BY <2>0 DEF FrameTypes
  <2>2. BooterServed
    <3> SUFFICES ASSUME at = "booter"
                 PROVE  reg["sp"] % 4 = 0 /\ \A k \in Args : stack[reg["sp"] + k - 1] = Arg(k)
      BY <2>0 DEF BooterServed
    <3>1. reg["sp"] = Aligned(4) - 4
      BY <2>0 DEF Pointer32
    <3>2. Aligned(4) \in Int /\ Aligned(4) % 4 = 0
      BY <2>0, AlignedIs DEF FrameTypes
    <3>3. reg["sp"] % 4 = 0
      BY <3>1, <3>2
    <3>4. \A k \in Args : stack[Aligned(4) - 5 + k] = Arg(k)
      BY <2>0 DEF Arguments32, Args
    <3>5. \A k \in Args : reg["sp"] + k - 1 = Aligned(4) - 5 + k
      BY <3>1, <3>2 DEF Args
    <3> QED
      BY <3>3, <3>4, <3>5
  <2>3. MainUntouched
    <3> SUFFICES ASSUME at = "main"
                 PROVE  /\ \A r \in Registers \ {"ax", "cx", "dx"} : reg[r] = entry.reg[r]
                        /\ \A a \in DOMAIN stack : a >= reg["sp"] => stack[a] = entry.stack[a]
      BY <2>0 DEF MainUntouched, Volatile
    <3>1. reg["sp"] = EntrySp /\ reg["bp"] = entry.reg["bp"]
      BY <2>0 DEF Pointer32, BaseSaved
    <3>2. \A r \in Registers \ {"ax", "cx", "dx"} : reg[r] = entry.reg[r]
      BY <2>0, <3>1 DEF EntrySp, Registers
    <3>3. \A a \in DOMAIN stack : a >= reg["sp"] => stack[a] = entry.stack[a]
      BY <2>0, <3>1, EntryWrapperAssumption DEF FrameTypes
    <3> QED
      BY <3>2, <3>3
  <2> QED
    BY <2>1, <2>2, <2>3 DEF Transparent
<1> QED
  BY <1>1, <1>2, <1>3 DEF FrameHolds

\* Steps that do not concern the wrapper leave its frame alone.
LEMMA FrameUnchanged ==
    ASSUME FrameHolds, UNCHANGED wvars
    PROVE  FrameHolds'
<1>1. UNCHANGED <<mode, at, ip, reg, stack, entry>>
  BY DEF wvars
<1>2. CASE at = "idle"
  BY <1>1, <1>2 DEF FrameHolds
<1>3. CASE Frame64
  BY <1>1, <1>3 DEF FrameHolds, Frame64, FrameTypes, BaseSaved, Pointer64, Arguments64, EntrySp, Aligned
<1>4. CASE Frame32
  <2>1. FrameTypes' /\ BaseSaved' /\ Pointer32' /\ Arguments32'
    BY <1>1, <1>4 DEF Frame32, FrameTypes, BaseSaved, Pointer32, Arguments32, EntrySp, Aligned
  <2>2. Target32'
    BY <1>1, <1>4 DEF Frame32, Target32, EntryWrapperBooter, EntryWrapperEntry, EntrySp, Aligned
  <2> QED
    BY <1>1, <1>4, <2>1, <2>2 DEF FrameHolds, Frame32
<1> QED
  BY <1>2, <1>3, <1>4 DEF FrameHolds

\* From entry to main() the wrapper's frame is intact, whatever the booter
\* destroys; nothing else of the patcher touches it.
LEMMA FrameAlways == Spec => []FrameHolds
<1>1. Init => FrameHolds
  BY DEF Init, WrapperInit, FrameHolds
<1>2. FrameHolds /\ [Next]_vars => FrameHolds'
  <2> SUFFICES ASSUME FrameHolds, [Next]_vars
               PROVE  FrameHolds'
    OBVIOUS
  <2>1. CASE UNCHANGED wvars
    BY <2>1, FrameUnchanged
  <2>2. ASSUME NEW m \in Modes, NEW sp \in EntrySps, Enter(m, sp)
        PROVE  FrameHolds'
    BY <2>2, EnterFrames DEF FrameHolds
  <2>3. CASE Executed
    <3>1. at = "wrapper"
      BY <2>3 DEF Executed, Executes, Push, PushArg, Pop, Mov, Xor, Align, CallOver, Load, Call, Jump
    <3> QED
      BY <2>3, <3>1, Step64, Step32 DEF FrameHolds
  <2>4. CASE BooterReturns
    <3>1. at = "booter"
      BY <2>4 DEF BooterReturns
    <3> QED
      BY <2>4, <3>1, BooterReturns64, BooterReturns32 DEF FrameHolds
  <2> QED
    BY <2>1, <2>2, <2>3, <2>4
       DEF Next, Loading, Running, Activate, vars, Executed
<1> QED
  BY <1>1, <1>2, PTL DEF Spec

\* For every alignment of the stack and whatever the booter destroys, it is
\* called with the arguments of main() on an aligned stack, and then main() runs
\* as if it had been entered first.
THEOREM WrappersAreTransparent == Spec => []Transparent
  BY FrameAlways, FrameIsTransparent, PTL
=============================================================================
