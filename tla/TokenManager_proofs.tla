------------------------ MODULE TokenManager_proofs ------------------------
(***************************************************************************)
(* Proofs about the token manager, for any periods that satisfy            *)
(* LagAssumption and any list of types.                                    *)
(*                                                                         *)
(* The keys are removed one at a time, from the front, while they are      *)
(* added a set at a time, at the back.  The inductive invariant therefore  *)
(* looks at them through a window of the size of a set (n): a key and the  *)
(* one n further on have the same type, and the second was made soon after *)
(* the first had to be replaced (Good).  That is what bounds the age of    *)
(* the newest settled key, which signs, and what keeps a key of every      *)
(* type.  The file and the memory may differ: the memory is a part of the  *)
(* file followed by keys that were not saved and are too recent to sign    *)
(* (Split), and has every key of the file that is not too old (Kept).  A   *)
(* key that signed is in the file until its tokens expire (Lasting), and   *)
(* in a cache of the served keys that may still be used (Covers).          *)
(*                                                                         *)
(* All that (Safe) holds as long as every key parses.  Whatever does not,  *)
(* the keys of the newest set are there or are counted as lost (Whole).    *)
(* What DeleteFunc leaves of a list of keys (Parsed, a recursive function) *)
(* is shown by least counterexamples, since the natural numbers are well   *)
(* founded (Least).                                                        *)
(***************************************************************************)
EXTENDS TokenManager, WellFoundedInduction, TLAPS

\* The size of a set of keys.
n == Len(KeyTypes)

\* Keys as rotateKeys leaves them: the last n are a set made together; a key is
\* followed, n places on, by one of its type, made within NewAfter + MaxLag; the
\* first n have every type, and are of the first set ever made or old enough to
\* sign.
Good(ks, t) ==
    /\ ks \in Seq(Key) /\ n <= Len(ks)
    /\ \A j \in 1..n : /\ ks[Len(ks) - n + j].type = KeyTypes[j]
                       /\ ks[Len(ks) - n + j].born = Last(ks).born
    /\ \A i \in 1..(Len(ks) - n) : /\ ks[i + n].type = ks[i].type
                                   /\ ks[i + n].born <= ks[i].born + NewAfter + MaxLag
    /\ \A i \in 1..n : ks[i].id[1] = 0 \/ ks[i].born + SettleFor < t
    /\ \A ty \in Types : \E i \in 1..n : ks[i].type = ty

\* The saved keys: the newest set is not too old, and no key is of a set that is
\* still to come (g).
GoodFile(fs, t, g) ==
    /\ Good(fs, t) /\ g # 0
    /\ t - Last(fs).born <= NewAfter + MaxLag
    /\ \A i \in DOMAIN fs : fs[i].id[1] < g

\* There is no file until the first start.
FileInv ==
    IF file = << >>
    THEN gen = 0 /\ ~up /\ tok = None /\ cache = None
    ELSE GoodFile(file, now, gen)

\* The key k is among the keys fs.
Saved(k, fs) == \E i \in DOMAIN fs : fs[i] = k

\* The first m keys in memory are saved, and have a whole set among them; the rest,
\* if there is a rest, is one set that could not be saved and is recent.
Split(ks, fs, t, m) ==
    /\ n <= m /\ \A i \in 1..m : Saved(ks[i], fs)
    /\ IF m = Len(ks)
       THEN Last(ks) = Last(fs)
       ELSE /\ ~Saved(Last(ks), fs) /\ t - Last(ks).born <= MaxUnsaved
            /\ \A i \in (m + 1)..Len(ks) : ks[i].born = Last(ks).born

\* The memory has every saved key that is not older than RetainFor.
Kept(ks, fs, t) ==
    \A i \in DOMAIN fs : fs[i].born + RetainFor >= t => Saved(fs[i], ks)

\* The keys in memory, while the process runs.
MemoryInv ==
    up => /\ Good(keys, now) /\ Kept(keys, file, now)
          /\ \E m \in 1..Len(keys) : Split(keys, file, now, m)

\* The key of the token is saved, and is not removed before the token expires.
Lasting(tk, fs) ==
    \E i \in DOMAIN fs :
        fs[i].id = tk.id /\ fs[i].born + RetainFor + 1 >= tk.issued + TokenLife

\* The token that has not expired.
TokenInv ==
    tok # None => now < tok.issued + TokenLife /\ tok.known /\ Lasting(tok, file)

\* The cache has every saved key that is not too old and was made before the cache
\* was filled, or first of all.
Covers(c, fs, t) ==
    \A i \in DOMAIN fs :
        /\ fs[i].born < c.at \/ fs[i].id[1] = 0
        /\ fs[i].born + RetainFor >= t
        => fs[i].id \in c.ids

\* The cache that may still be used.
CacheInv ==
    cache # None => cache.at <= now /\ now <= cache.at + CacheFor /\ Covers(cache, file, now)

\* What holds as long as every key parses.
Safe == TypeOK /\ FileInv /\ MemoryInv /\ TokenInv /\ CacheInv

\* A set of numbers has a least one, which the second CHOOSE of SigningKey finds.
LEMMA Least ==
    ASSUME NEW T, T \subseteq Nat, T # {}
    PROVE  \E x \in T : \A y \in T : x <= y
<1> DEFINE R == {ss \in Nat \X Nat : ss[1] < ss[2]}
<1>1. IsWellFoundedOn(R, Nat)
  BY NatLessThanWellFounded DEF OpToRel
<1>2. \A x, y \in Nat : <<y, x>> \in R <=> y < x
  OBVIOUS
<1> HIDE DEF R
<1>3. PICK x \in T : \A y \in T : ~(<<y, x>> \in R)
  BY <1>1, WFMin
<1>4. ASSUME NEW y \in T PROVE x <= y
  <2>1. x \in Nat /\ y \in Nat
    OBVIOUS
  <2>2. ~(<<y, x>> \in R)
    BY <1>3
  <2>3. ~(y < x)
    BY <1>2, <2>1, <2>2
  <2> QED
    BY <2>1, <2>3
<1> QED
  BY <1>4

\* A bounded set has a greatest one, which the first CHOOSE of SigningKey finds.
LEMMA Greatest ==
    ASSUME NEW b \in Nat, NEW T, T \subseteq 1..b, T # {}
    PROVE  \E x \in T : \A y \in T : y <= x
<1> DEFINE U == {u \in Nat : \E x \in T : u = b - x}
<1>0. PICK z \in T : TRUE
  OBVIOUS
<1>1. b - z \in U
  OBVIOUS
<1>2. PICK u \in U : \A v \in U : u <= v
  BY <1>1, Least
<1>3. PICK x \in T : u = b - x
  OBVIOUS
<1>4. \A y \in T : b - y \in U
  OBVIOUS
<1>5. \A y \in T : u <= b - y /\ y \in Nat
  <2> HIDE DEF U
  <2> QED
    BY <1>2, <1>4
<1>6. \A y \in T : y <= x
  BY <1>3, <1>5
<1> QED
  BY <1>6

\* The fields of a key.
LEMMA KeyFields ==
    \A k \in Key : k.born \in Nat /\ k.type \in Types /\ k.id[1] \in Nat
<1> SUFFICES ASSUME NEW k \in Key PROVE k.born \in Nat /\ k.type \in Types /\ k.id[1] \in Nat
  OBVIOUS
<1>1. k.born \in Nat /\ k.type \in Types /\ k.id \in Nat \X Types
  BY DEF Key
<1>2. k.id[1] \in Nat
  BY <1>1
<1> QED
  BY <1>1, <1>2

\* A record that createNewTokenKeys makes is a key.
LEMMA KeyOf ==
    ASSUME NEW g \in Nat, NEW t \in Types, NEW b \in Nat
    PROVE  [id |-> <<g, t>>, type |-> t, born |-> b] \in Key
<1>1. <<g, t>> \in Nat \X Types
  OBVIOUS
<1> DEFINE i == <<g, t>>
<1> HIDE DEF i
<1>2. [id |-> i, type |-> t, born |-> b] \in [id : Nat \X Types, type : Types, born : Nat]
  BY <1>1 DEF i
<1> QED
  BY <1>2 DEF Key, i

\* A function on 1..len is a sequence.
LEMMA FunctionIsSeq ==
    ASSUME NEW S, NEW len \in Nat, NEW f, f = [i \in 1..len |-> f[i]], \A i \in 1..len : f[i] \in S
    PROVE  f \in Seq(S) /\ Len(f) = len
OBVIOUS

\* The elements of a concatenation.
LEMMA ConcatAt ==
    ASSUME NEW S, NEW s \in Seq(S), NEW t \in Seq(S)
    PROVE  /\ s \o t \in Seq(S) /\ Len(s \o t) = Len(s) + Len(t)
           /\ \A i \in 1..(Len(s) + Len(t)) :
                 (s \o t)[i] = IF i <= Len(s) THEN s[i] ELSE t[i - Len(s)]
OBVIOUS

\* The elements of the rest of a sequence.
LEMMA TailAt ==
    ASSUME NEW S, NEW s \in Seq(S), s # << >>
    PROVE  /\ Tail(s) \in Seq(S) /\ Len(Tail(s)) = Len(s) - 1
           /\ \A i \in 1..(Len(s) - 1) : Tail(s)[i] = s[i + 1]
OBVIOUS

\* A new set has one key of every type, in order, all made now.
LEMMA NewKeysAre ==
    ASSUME TypeOK
    PROVE  /\ NewKeys \in Seq(Key) /\ Len(NewKeys) = n /\ n \in Nat \ {0}
           /\ \A i \in 1..n : /\ NewKeys[i].type = KeyTypes[i]
                              /\ NewKeys[i].born = now
                              /\ NewKeys[i].id[1] = gen
           /\ \A t \in Types : \E i \in 1..n : KeyTypes[i] = t
<1>1. KeyTypes \in Seq(STRING) /\ DOMAIN KeyTypes = 1..n /\ n \in Nat \ {0}
  BY TypesAssumption DEF n
<1>2. \A i \in 1..n : KeyTypes[i] \in Types
  BY <1>1 DEF Types
<1>3. \A t \in Types : \E i \in 1..n : KeyTypes[i] = t
  BY <1>1 DEF Types
<1>4. now \in Nat /\ gen \in Nat
  BY DEF TypeOK
<1>5. \A i \in 1..n : <<gen, KeyTypes[i]>> \in Nat \X Types
  BY <1>2, <1>4
<1>6. NewKeys = [i \in 1..n |-> [id |-> <<gen, KeyTypes[i]>>, type |-> KeyTypes[i], born |-> now]]
  BY <1>1 DEF NewKeys
<1>7. \A i \in 1..n : NewKeys[i] = [id |-> <<gen, KeyTypes[i]>>, type |-> KeyTypes[i], born |-> now]
  BY <1>6
<1>8. \A i \in 1..n : NewKeys[i] \in Key
  BY <1>7, <1>2, <1>4, KeyOf
<1>9. NewKeys \in Seq(Key) /\ Len(NewKeys) = n
  <2>1. NewKeys = [i \in 1..n |-> NewKeys[i]]
    BY <1>6
  <2> QED
    BY <1>1, <1>8, <2>1, FunctionIsSeq
<1> QED
  BY <1>1, <1>3, <1>7, <1>9

\* p lists the keys of ks up to each place that are not bad.
Lists(p, ks, bad, m) ==
    /\ DOMAIN p = 0..m
    /\ p[0] = << >>
    /\ \A i \in 1..m : p[i] = IF ks[i].id \in bad THEN p[i - 1] ELSE Append(p[i - 1], ks[i])

\* There is such a list for every length.
LEMMA ListsExist ==
    ASSUME NEW ks \in Seq(Key), NEW bad, NEW m \in 0..Len(ks)
    PROVE  \E p : Lists(p, ks, bad, m)
<1> DEFINE T == {k \in 0..Len(ks) : ~ \E p : Lists(p, ks, bad, k)}
<1> SUFFICES ASSUME T # {} PROVE FALSE
  OBVIOUS
<1>1. PICK k \in T : \A y \in T : k <= y
  <2>1. T \subseteq Nat
    OBVIOUS
  <2> QED
    BY <2>1, Least
<1>2. k \in 0..Len(ks) /\ ~ \E p : Lists(p, ks, bad, k)
  OBVIOUS
<1>3. k # 0
  <2> DEFINE p == [i \in 0..0 |-> << >>]
  <2>1. Lists(p, ks, bad, 0)
    BY DEF Lists
  <2> QED
    BY <1>2, <2>1
<1>4. k - 1 \in 0..Len(ks) /\ ~(k <= k - 1)
  BY <1>2, <1>3
<1>5. k - 1 \notin T
  BY <1>1, <1>4
<1>6. PICK p : Lists(p, ks, bad, k - 1)
  BY <1>4, <1>5
<1> DEFINE last == IF ks[k].id \in bad THEN p[k - 1] ELSE Append(p[k - 1], ks[k])
           q == [i \in 0..k |-> IF i = k THEN last ELSE p[i]]
<1>7. DOMAIN q = 0..k /\ q[k] = last /\ (\A i \in 0..(k - 1) : q[i] = p[i])
  BY <1>2, <1>3
<1> HIDE DEF q
<1>8. q[0] = << >>
  BY <1>2, <1>3, <1>6, <1>7 DEF Lists
<1>9. ASSUME NEW i \in 1..k
      PROVE  q[i] = IF ks[i].id \in bad THEN q[i - 1] ELSE Append(q[i - 1], ks[i])
  <2>1. CASE i = k
    <3>1. q[k - 1] = p[k - 1]
      BY <1>2, <1>3, <1>7
    <3> QED
      BY <1>7, <2>1, <3>1
  <2>2. CASE i # k
    <3>1. i \in 1..(k - 1) /\ i \in 0..(k - 1) /\ i - 1 \in 0..(k - 1)
      BY <1>2, <2>2
    <3>2. q[i] = p[i] /\ q[i - 1] = p[i - 1]
      BY <1>7, <3>1
    <3>3. p[i] = IF ks[i].id \in bad THEN p[i - 1] ELSE Append(p[i - 1], ks[i])
      BY <1>6, <3>1 DEF Lists
    <3> QED
      BY <3>2, <3>3
  <2> QED
    BY <2>1, <2>2
<1>10. Lists(q, ks, bad, k)
  BY <1>7, <1>8, <1>9 DEF Lists
<1> QED
  BY <1>2, <1>10

\* Parsed is the last of such a list.
LEMMA ParsedLists ==
    ASSUME NEW ks \in Seq(Key), NEW bad
    PROVE  \E p : Lists(p, ks, bad, Len(ks)) /\ Parsed(ks, bad) = p[Len(ks)]
<1> DEFINE D(f) == [i \in 0..Len(ks) |->
                      IF i = 0 THEN << >>
                      ELSE IF ks[i].id \in bad THEN f[i - 1]
                      ELSE Append(f[i - 1], ks[i])]
           c == CHOOSE f : f = D(f)
<1>0. Len(ks) \in Nat
  OBVIOUS
<1>1. Parsed(ks, bad) = c[Len(ks)]
  BY Zenon DEF Parsed
<1>2. PICK p : Lists(p, ks, bad, Len(ks))
  <2>1. Len(ks) \in 0..Len(ks)
    BY <1>0
  <2> HIDE DEF c, D
  <2> QED
    BY <2>1, ListsExist
<1> DEFINE p1 == [i \in 0..Len(ks) |-> p[i]]
<1>3. p1 = D(p1)
  <2>1. ASSUME NEW i \in 0..Len(ks) PROVE p1[i] = D(p1)[i]
    <3>1. CASE i = 0
      BY <1>2, <3>1 DEF Lists
    <3>2. CASE i # 0
      <4>1. i \in 1..Len(ks) /\ i - 1 \in 0..Len(ks)
        BY <1>0, <3>2
      <4> QED
        BY <1>2, <3>2, <4>1 DEF Lists
    <3> QED
      BY <3>1, <3>2
  <2> QED
    BY <2>1
<1>4. c = D(c)
  <2> HIDE DEF p1, D
  <2> QED
    BY <1>3, Zenon
<1> HIDE DEF c
<1>5. Lists(c, ks, bad, Len(ks))
  <2>1. DOMAIN c = 0..Len(ks)
    BY <1>4
  <2>2. \A i \in 0..Len(ks) : c[i] = D(c)[i]
    BY <1>4
  <2>3. c[0] = << >>
    BY <1>0, <2>2
  <2>4. ASSUME NEW i \in 1..Len(ks)
        PROVE  c[i] = IF ks[i].id \in bad THEN c[i - 1] ELSE Append(c[i - 1], ks[i])
    <3>1. i \in 0..Len(ks) /\ i # 0
      BY <1>0
    <3> QED
      BY <2>2, <3>1
  <2> QED
    BY <2>1, <2>3, <2>4 DEF Lists
<1> QED
  BY <1>1, <1>5

\* s has those of the first m keys of ks that are not bad, and all of them if none is.
Picks(s, ks, bad, m) ==
    /\ s \in Seq(Key)
    /\ \A i \in 1..Len(s) : \E j \in 1..m : s[i] = ks[j]
    /\ \A j \in 1..m : ks[j].id \in bad \/ \E i \in 1..Len(s) : s[i] = ks[j]
    /\ bad = {} => Len(s) = m /\ \A j \in 1..m : s[j] = ks[j]

\* One key more.
LEMMA PicksStep ==
    ASSUME NEW ks \in Seq(Key), NEW bad, NEW k \in 1..Len(ks), NEW s, Picks(s, ks, bad, k - 1)
    PROVE  Picks(IF ks[k].id \in bad THEN s ELSE Append(s, ks[k]), ks, bad, k)
<1>0. /\ s \in Seq(Key) /\ Len(s) \in Nat /\ k \in Nat /\ k \in 1..k
      /\ \A j \in 1..k : j = k \/ j \in 1..(k - 1)
      /\ \A j \in 1..(k - 1) : j \in 1..k
      /\ ks[k] \in Key
  BY DEF Picks
<1>1. CASE ks[k].id \in bad
  <2>1. bad # {}
    BY <1>1
  <2>2. \A i \in 1..Len(s) : \E j \in 1..k : s[i] = ks[j]
    BY <1>0 DEF Picks
  <2>3. \A j \in 1..k : ks[j].id \in bad \/ \E i \in 1..Len(s) : s[i] = ks[j]
    BY <1>0, <1>1 DEF Picks
  <2>4. Picks(s, ks, bad, k)
    BY <1>0, <2>1, <2>2, <2>3 DEF Picks
  <2> QED
    BY <1>1, <2>4
<1>2. CASE ks[k].id \notin bad
  <2> DEFINE a == Append(s, ks[k])
  <2>1. /\ a \in Seq(Key) /\ Len(a) = Len(s) + 1 /\ a[Len(s) + 1] = ks[k]
        /\ \A i \in 1..Len(s) : a[i] = s[i] /\ i \in 1..Len(a)
        /\ Len(s) + 1 \in 1..Len(a)
        /\ \A i \in 1..Len(a) : i \in 1..Len(s) \/ i = Len(s) + 1
    BY <1>0
  <2> HIDE DEF a
  <2>2. ASSUME NEW i \in 1..Len(a) PROVE \E j \in 1..k : a[i] = ks[j]
    <3>1. CASE i = Len(s) + 1
      BY <1>0, <2>1, <3>1
    <3>2. CASE i \in 1..Len(s)
      <4>1. PICK j \in 1..(k - 1) : s[i] = ks[j]
        BY <3>2 DEF Picks
      <4>2. j \in 1..k /\ a[i] = s[i]
        BY <1>0, <2>1, <3>2
      <4> QED
        BY <4>1, <4>2
    <3> QED
      BY <2>1, <3>1, <3>2
  <2>3. ASSUME NEW j \in 1..k PROVE ks[j].id \in bad \/ \E i \in 1..Len(a) : a[i] = ks[j]
    <3>1. CASE j = k
      BY <2>1, <3>1
    <3>2. CASE j \in 1..(k - 1)
      <4>1. ks[j].id \in bad \/ \E i \in 1..Len(s) : s[i] = ks[j]
        BY <3>2 DEF Picks
      <4> QED
        BY <2>1, <4>1
    <3> QED
      BY <1>0, <3>1, <3>2
  <2>4. ASSUME bad = {} PROVE Len(a) = k /\ \A j \in 1..k : a[j] = ks[j]
    <3>1. Len(s) = k - 1 /\ \A j \in 1..(k - 1) : s[j] = ks[j]
      BY <2>4 DEF Picks
    <3>2. Len(a) = k /\ a[k] = ks[k]
      BY <1>0, <2>1, <3>1
    <3> QED
      BY <1>0, <2>1, <3>1, <3>2
  <2>5. Picks(a, ks, bad, k)
    BY <2>1, <2>2, <2>3, <2>4 DEF Picks
  <2> QED
    BY <1>2, <2>5 DEF a
<1> QED
  BY <1>1, <1>2

\* What is left of keys after DeleteFunc: the good ones.
LEMMA ParsedPicks ==
    ASSUME NEW ks \in Seq(Key), NEW bad
    PROVE  Picks(Parsed(ks, bad), ks, bad, Len(ks))
<1>0. Len(ks) \in Nat
  OBVIOUS
<1>1. PICK p : Lists(p, ks, bad, Len(ks)) /\ Parsed(ks, bad) = p[Len(ks)]
  BY ParsedLists
<1> DEFINE T == {k \in 0..Len(ks) : ~ Picks(p[k], ks, bad, k)}
<1>2. T = {}
  <2> SUFFICES ASSUME T # {} PROVE FALSE
    OBVIOUS
  <2>1. PICK k \in T : \A y \in T : k <= y
    <3>1. T \subseteq Nat
      OBVIOUS
    <3> QED
      BY <3>1, Least
  <2>2. k \in 0..Len(ks) /\ ~ Picks(p[k], ks, bad, k)
    OBVIOUS
  <2>3. k # 0
    <3>1. p[0] = << >>
      BY <1>1 DEF Lists
    <3>2. Picks(<< >>, ks, bad, 0)
      BY DEF Picks
    <3> QED
      BY <2>2, <3>1, <3>2
  <2>4. k \in 1..Len(ks) /\ k - 1 \in 0..Len(ks) /\ ~(k <= k - 1)
    BY <1>0, <2>2, <2>3
  <2>5. Picks(p[k - 1], ks, bad, k - 1)
    BY <2>1, <2>4
  <2>6. p[k] = IF ks[k].id \in bad THEN p[k - 1] ELSE Append(p[k - 1], ks[k])
    BY <1>1, <2>4 DEF Lists
  <2>7. PICK s : s = p[k - 1]
    OBVIOUS
  <2>8. Picks(IF ks[k].id \in bad THEN s ELSE Append(s, ks[k]), ks, bad, k)
    BY <2>4, <2>5, <2>7, PicksStep
  <2> QED
    BY <2>2, <2>6, <2>7, <2>8
<1>3. Len(ks) \in 0..Len(ks)
  BY <1>0
<1> QED
  BY <1>1, <1>2, <1>3

\* If every key parses, rotateKeys drops none.
LEMMA AllParse ==
    ASSUME NEW ks \in Seq(Key)
    PROVE  Parsed(ks, {}) = ks
<1>1. PICK s : s = Parsed(ks, {})
  OBVIOUS
<1>2. Picks(s, ks, {}, Len(ks))
  BY <1>1, ParsedPicks
<1>3. s \in Seq(Key) /\ Len(s) = Len(ks) /\ \A j \in 1..Len(ks) : s[j] = ks[j]
  BY <1>2 DEF Picks
<1>4. s = ks
  BY <1>3
<1> QED
  BY <1>1, <1>4
\* What rotateKeys computes from the file are keys.
LEMMA RotatedType ==
    ASSUME TypeOK
    PROVE  Rotated(file) \in Seq(Key)
<1> USE NewKeysAre
<1>1. file \in Seq(Key)
  BY DEF TypeOK
<1>2. WithFirst(file) \in Seq(Key) /\ WithFirst(file) # << >>
  BY <1>1 DEF WithFirst
<1>3. PICK f : f = WithFirst(file)
  OBVIOUS
<1>4. WithNew(f) \in Seq(Key) /\ WithNew(f) # << >>
  <2>1. CASE TooOld(f)
    BY <1>2, <1>3, <2>1, ConcatAt DEF WithNew
  <2>2. CASE ~TooOld(f)
    BY <1>2, <1>3, <2>2 DEF WithNew
  <2> QED
    BY <2>1, <2>2
<1>5. PICK w : w = WithNew(f)
  OBVIOUS
<1>6. WithoutOld(w) \in Seq(Key)
  <2>1. Tail(w) \in Seq(Key)
    BY <1>4, <1>5, TailAt
  <2> QED
    BY <1>4, <1>5, <2>1 DEF WithoutOld
<1> QED
  BY <1>3, <1>5, <1>6 DEF Rotated

\* What a rotation that gets to the end does, whatever fails to parse.
LEMMA RotateSome ==
    ASSUME TypeOK, NEW saved \in BOOLEAN, RotateKeys(saved)
    PROVE  /\ \E bad \in SUBSET (Nat \X Types) :
                 /\ keys' = Parsed(Rotated(file), bad)
                 /\ file' = IF saved THEN Parsed(Rotated(file), bad) ELSE file
                 /\ unparsed' = unparsed \union bad
           /\ gen' = IF file = << >> \/ TooOld(file) THEN gen + 1 ELSE gen
<1>1. PICK r : r = Rotated(file)
  OBVIOUS
<1>2. PICK bad \in SUBSET {r[i].id : i \in DOMAIN r} :
              /\ keys' = Parsed(r, bad)
              /\ file' = IF saved THEN Parsed(r, bad) ELSE file
              /\ unparsed' = unparsed \union bad
  BY <1>1, Zenon DEF RotateKeys
<1>3. r \in Seq(Key)
  BY <1>1, RotatedType
<1>4. \A i \in DOMAIN r : r[i].id \in Nat \X Types
  <2>1. \A i \in DOMAIN r : r[i] \in Key
    BY <1>3
  <2>2. \A k \in Key : k.id \in Nat \X Types
    BY DEF Key
  <2> QED
    BY <2>1, <2>2
<1>5. bad \in SUBSET (Nat \X Types)
  BY <1>2, <1>4
<1> QED
  BY <1>1, <1>2, <1>5 DEF RotateKeys

\* If everything parses, the rotated keys are the new keys.
LEMMA RotateAll ==
    ASSUME TypeOK, NEW saved \in BOOLEAN, RotateKeys(saved), unparsed' = {}
    PROVE  /\ keys' = Rotated(file)
           /\ file' = IF saved THEN Rotated(file) ELSE file
           /\ gen' = IF file = << >> \/ TooOld(file) THEN gen + 1 ELSE gen
<1>1. PICK bad \in SUBSET (Nat \X Types) :
              /\ keys' = Parsed(Rotated(file), bad)
              /\ file' = IF saved THEN Parsed(Rotated(file), bad) ELSE file
              /\ unparsed' = unparsed \union bad
  BY RotateSome
<1>2. bad = {}
  BY <1>1
<1>3. Parsed(Rotated(file), {}) = Rotated(file)
  BY RotatedType, AllParse
<1>4. gen' = IF file = << >> \/ TooOld(file) THEN gen + 1 ELSE gen
  BY RotateSome
<1> QED
  BY <1>1, <1>2, <1>3, <1>4

\* r is the file after d keys were removed from the front and e keys were added at
\* the back.
Shape(r, d, e) ==
    /\ r \in Seq(Key) /\ Len(r) = Len(file) - d + e
    /\ \A i \in 1..Len(r) :
          r[i] = IF i + d <= Len(file) THEN file[i + d] ELSE NewKeys[i + d - Len(file)]
    /\ d = 1 => file[1].born + RetainFor < now
    /\ d = 0 => file[1].born + RetainFor >= now
    /\ e = n <=> TooOld(file)
    /\ n <= Len(file) - d

\* rotateKeys removes at most one key and adds at most one set, and never removes a
\* key of the only set.
LEMMA RotatedShape ==
    ASSUME TypeOK, FileInv, file # << >>
    PROVE  \E d \in {0, 1}, e \in {0, n} : Shape(Rotated(file), d, e)
<1>0. NewKeys \in Seq(Key) /\ Len(NewKeys) = n /\ n \in Nat \ {0}
  BY NewKeysAre
<1> USE <1>0
<1>1. file \in Seq(Key) /\ Len(file) \in Nat /\ n <= Len(file)
  BY DEF TypeOK, FileInv, GoodFile, Good
<1>2. WithFirst(file) = file
  BY DEF WithFirst
<1> DEFINE w == WithNew(file)
           e == IF TooOld(file) THEN n ELSE 0
<1>3. /\ w \in Seq(Key) /\ Len(w) = Len(file) + e
      /\ \A i \in 1..Len(w) : w[i] = IF i <= Len(file) THEN file[i] ELSE NewKeys[i - Len(file)]
  <2>1. CASE TooOld(file)
    <3>1. w = file \o NewKeys
      BY <2>1 DEF WithNew
    <3>2. e = n
      BY <2>1
    <3> HIDE DEF w, e
    <3>3. /\ file \o NewKeys \in Seq(Key) /\ Len(file \o NewKeys) = Len(file) + Len(NewKeys)
          /\ \A i \in 1..(Len(file) + Len(NewKeys)) :
                (file \o NewKeys)[i] = IF i <= Len(file) THEN file[i] ELSE NewKeys[i - Len(file)]
      BY <1>0, <1>1, ConcatAt, Zenon
    <3> QED
      BY <1>1, <3>1, <3>2, <3>3
  <2>2. CASE ~TooOld(file)
    BY <1>1, <2>2 DEF WithNew
  <2> QED
    BY <2>1, <2>2
<1>4. e \in {0, n} /\ (e = n <=> TooOld(file))
  OBVIOUS
<1>5. Rotated(file) = WithoutOld(w)
  BY <1>2 DEF Rotated
<1> HIDE DEF w, e
<1>6. w[1] = file[1]
  BY <1>1, <1>3, <1>4
<1>7. CASE file[1].born + RetainFor < now
  <2>1. Rotated(file) = Tail(w)
    BY <1>5, <1>6, <1>7 DEF WithoutOld
  <2>2. n # Len(file)
    <3>1. SUFFICES ASSUME n = Len(file) PROVE FALSE
      OBVIOUS
    <3>2. file[Len(file) - n + 1].born = Last(file).born
      BY DEF FileInv, GoodFile, Good
    <3>3. file[1].born = Last(file).born
      BY <3>1, <3>2, <1>1
    <3>4. now - file[1].born <= NewAfter + MaxLag /\ file[1].born \in Nat
      BY <3>3, <1>1, KeyFields DEF FileInv, GoodFile
    <3> QED
      BY <3>4, <1>7, TimesAssumption, LagAssumption DEF TypeOK
  <2>3. /\ Tail(w) \in Seq(Key) /\ Len(Tail(w)) = Len(file) - 1 + e
        /\ \A i \in 1..Len(Tail(w)) : Tail(w)[i] = w[i + 1]
    <3>1. w # << >> /\ Len(w) - 1 = Len(file) - 1 + e
      BY <1>1, <1>3, <1>4
    <3>2. /\ Tail(w) \in Seq(Key) /\ Len(Tail(w)) = Len(w) - 1
          /\ \A i \in 1..(Len(w) - 1) : Tail(w)[i] = w[i + 1]
      BY <1>3, <3>1, TailAt, Zenon
    <3> QED
      BY <3>1, <3>2
  <2>4. Shape(Tail(w), 1, e)
    BY <1>1, <1>3, <1>4, <1>7, <2>2, <2>3, TimesAssumption, KeyFields DEF Shape, TypeOK
  <2> QED
    BY <1>4, <2>1, <2>4
<1>8. CASE file[1].born + RetainFor >= now
  <2>1. file[1].born \in Nat /\ now \in Nat
    BY <1>1, KeyFields DEF TypeOK
  <2>2. Rotated(file) = w
    BY <1>5, <1>6, <1>8, <2>1, TimesAssumption DEF WithoutOld
  <2>3. Shape(w, 0, e)
    BY <1>1, <1>3, <1>4, <1>8, <2>1, TimesAssumption DEF Shape
  <2> QED
    BY <1>4, <2>2, <2>3
<1>9. file[1].born \in Nat /\ now \in Nat
  BY <1>1, KeyFields DEF TypeOK
<1> QED
  BY <1>7, <1>8, <1>9, TimesAssumption

\* The types of what the arguments count.
LEMMA NumbersOf ==
    ASSUME TypeOK
    PROVE  /\ now \in Nat /\ gen \in Nat /\ n \in Nat \ {0}
           /\ file \in Seq(Key) /\ Len(file) \in Nat /\ DOMAIN file = 1..Len(file)
           /\ keys \in Seq(Key) /\ Len(keys) \in Nat /\ DOMAIN keys = 1..Len(keys)
           /\ \A i \in 1..Len(file) : file[i] \in Key
           /\ \A i \in 1..Len(keys) : keys[i] \in Key
BY NewKeysAre DEF TypeOK

\* The first rotation makes the first set, and keeps it.
LEMMA NewIsGood ==
    ASSUME TypeOK, FileInv, file = << >>
    PROVE  /\ Rotated(file) = NewKeys /\ Good(NewKeys, now) /\ Last(NewKeys).born = now
           /\ gen = 0 /\ \A i \in DOMAIN NewKeys : NewKeys[i].id[1] = 0
<1> USE NewKeysAre, NumbersOf
<1>1. DOMAIN NewKeys = 1..n /\ gen = 0
  BY DEF FileInv
<1>2. Last(NewKeys).born = now
  BY DEF Last
<1>3. ~TooOld(NewKeys)
  BY <1>2, TimesAssumption DEF TooOld
<1>4. Rotated(file) = NewKeys
  <2>1. WithNew(WithFirst(file)) = NewKeys
    BY <1>3 DEF WithNew, WithFirst
  <2>2. ~(NewKeys[1].born + RetainFor < now)
    BY TimesAssumption
  <2> QED
    BY <2>1, <2>2 DEF Rotated, WithoutOld
<1>5. Good(NewKeys, now)
  BY <1>1, <1>2 DEF Good
<1> QED
  BY <1>1, <1>2, <1>4, <1>5

\* Rotation preserves the window, and every key that is not older than RetainFor.
\* The interesting places are the seam between the old keys and the new set, and
\* the key that becomes the last of the first n when one is removed.
LEMMA RotatedIsGood ==
    ASSUME TypeOK, FileInv, file # << >>, NEW d \in {0, 1}, NEW e \in {0, n},
           NEW r, Shape(r, d, e)
    PROVE  /\ Good(r, now)
           /\ IF e = 0 THEN Last(r) = Last(file) ELSE Last(r) = NewKeys[n]
           /\ \A i \in DOMAIN r : (\E j \in DOMAIN file : r[i] = file[j])
                                  \/ (e = n /\ \E j \in 1..n : r[i] = NewKeys[j])
           /\ \A j \in DOMAIN file : file[j].born + RetainFor >= now
                                     => Saved(file[j], r)
<1> DEFINE f == Len(file)
<1>0. /\ n \in Nat \ {0} /\ now \in Nat /\ f \in Nat /\ DOMAIN file = 1..f
      /\ NewAfter \in Nat /\ MaxLag \in Nat /\ RetainFor \in Nat
      /\ SettleFor \in Nat /\ TokenLife \in Nat \ {0}
  BY NumbersOf, TimesAssumption
<1>1. /\ r \in Seq(Key) /\ Len(r) = f - d + e /\ DOMAIN r = 1..Len(r) /\ f \in Nat
      /\ n <= f - d /\ n <= f /\ n \in Nat \ {0}
  BY <1>0 DEF Shape
<1>2. \A i \in 1..Len(r) : i + d <= f => r[i] = file[i + d]
  BY <1>1 DEF Shape
<1>3. \A i \in 1..Len(r) : i + d > f => r[i] = NewKeys[i + d - f] /\ i + d - f \in 1..n
  BY <1>1 DEF Shape
<1>3a. \A j \in 1..n : NewKeys[j].type = KeyTypes[j] /\ NewKeys[j].born = now
  BY NewKeysAre
<1>4. Good(file, now) /\ now - Last(file).born <= NewAfter + MaxLag
  BY DEF FileInv, GoodFile
<1>5. \A i \in 1..f : file[i] \in Key /\ file[i].born \in Nat
  BY KeyFields, NumbersOf
<1>6. Last(file).born \in Nat /\ Last(file) = file[f]
  BY <1>1, <1>5 DEF Last
<1> HIDE DEF f
<1>7. IF e = 0 THEN Last(r) = Last(file) ELSE Last(r) = NewKeys[n]
  BY <1>1, <1>2, <1>3, <1>6 DEF Last
<1>8. \A j \in 1..n : r[Len(r) - n + j].type = KeyTypes[j] /\ r[Len(r) - n + j].born = Last(r).born
  <2>1. CASE e = 0
    <3>1. \A j \in 1..n : Len(r) - n + j \in 1..Len(r) /\ Len(r) - n + j + d = f - n + j
      BY <1>1, <2>1
    <3>2. \A j \in 1..n : f - n + j <= f
      BY <1>1
    <3>3. \A j \in 1..n : r[Len(r) - n + j] = file[f - n + j]
      BY <1>2, <3>1, <3>2
    <3> QED
      BY <1>4, <1>7, <2>1, <3>3 DEF Good, f
  <2>2. CASE e = n
    <3>1. \A j \in 1..n : /\ Len(r) - n + j \in 1..Len(r) /\ Len(r) - n + j + d > f
                           /\ Len(r) - n + j + d - f = j
      BY <1>1, <2>2
    <3>2. \A j \in 1..n : r[Len(r) - n + j] = NewKeys[j]
      BY <1>3, <3>1
    <3>3. Last(r).born = now
      BY <1>1, <1>3a, <1>7, <2>2
    <3> QED
      BY <1>3a, <3>2, <3>3
  <2> QED
    BY <2>1, <2>2
<1>9. ASSUME NEW i \in 1..(Len(r) - n)
      PROVE  r[i + n].type = r[i].type /\ r[i + n].born <= r[i].born + NewAfter + MaxLag
  <2>1. CASE i + n + d <= f
    <3>1. /\ i + d \in 1..(f - n) /\ i \in 1..Len(r) /\ i + n \in 1..Len(r)
          /\ i + d <= f /\ i + n + d = i + d + n
      BY <1>1, <2>1
    <3>2. r[i + n] = file[i + d + n] /\ r[i] = file[i + d]
      BY <1>2, <2>1, <3>1
    <3>3. /\ file[i + d + n].type = file[i + d].type
          /\ file[i + d + n].born <= file[i + d].born + NewAfter + MaxLag
      BY <1>4, <3>1 DEF Good, f
    <3> QED
      BY <3>2, <3>3
  <2>2. CASE i + n + d > f
    <3>1. e = n /\ i + d - f + n \in 1..n
      BY <1>1, <2>2
    <3>1a. /\ i \in 1..Len(r) /\ i + d <= f /\ i + n \in 1..Len(r)
           /\ i + n + d - f = i + d - f + n
      BY <1>1, <3>1
    <3>2. r[i + n] = NewKeys[i + d - f + n]
      BY <1>3, <2>2, <3>1a
    <3>3. r[i] = file[i + d]
      BY <1>2, <3>1a
    <3> DEFINE j == i + d - f + n
    <3>4. i + d = f - n + j /\ j \in 1..n
      BY <1>1, <3>1
    <3>5. file[f - n + j].type = KeyTypes[j] /\ file[f - n + j].born = Last(file).born
      BY <1>4, <3>4 DEF Good, f
    <3>6. NewKeys[j].type = KeyTypes[j] /\ NewKeys[j].born = now
      BY <1>3a, <3>4
    <3> HIDE DEF j
    <3>7. r[i].type = KeyTypes[j] /\ r[i].born = Last(file).born
      BY <3>3, <3>4, <3>5
    <3>8. r[i + n].type = KeyTypes[j] /\ r[i + n].born = now
      BY <3>2, <3>6 DEF j
    <3> DEFINE x == Last(file).born
    <3>9. x \in Nat /\ now - x <= NewAfter + MaxLag /\ r[i].born = x
      BY <1>4, <1>6, <3>7
    <3> HIDE DEF x
    <3>10. now <= x + NewAfter + MaxLag
      BY <1>0, <3>9
    <3> QED
      BY <3>7, <3>8, <3>9, <3>10
  <2> QED
    BY <1>1, <2>1, <2>2
<1>10. ASSUME NEW i \in 1..n PROVE r[i].id[1] = 0 \/ r[i].born + SettleFor < now
  <2>0. i \in 1..Len(r) /\ i + d \in 1..f
    BY <1>1
  <2>1. r[i] = file[i + d] /\ i + d \in 1..f
    BY <1>2, <2>0
  <2>2. CASE i + d <= n
    <3>1. i + d \in 1..n
      BY <1>1, <2>2
    <3> QED
      BY <1>4, <2>1, <3>1 DEF Good
  <2>3. CASE i + d > n
    <3>1. d = 1 /\ i = n /\ 1 \in 1..(f - n) /\ i + d = 1 + n
      BY <1>1, <2>3
    <3>2. file[1].born + RetainFor < now
      BY <3>1 DEF Shape
    <3>3. file[1 + n].born <= file[1].born + NewAfter + MaxLag
      BY <1>4, <3>1 DEF Good, f
    <3>4. file[1].born \in Nat /\ file[1 + n].born \in Nat
      BY <1>1, <1>5, <3>1
    <3>5. file[1 + n].born + SettleFor < now
      <4> DEFINE x == file[1].born
                 y == file[1 + n].born
      <4>1. x \in Nat /\ y \in Nat /\ x + RetainFor < now /\ y <= x + NewAfter + MaxLag
        BY <3>2, <3>3, <3>4
      <4> HIDE DEF x, y
      <4>2. y + SettleFor < now
        BY <1>0, <4>1, LagAssumption
      <4> QED
        BY <4>2 DEF y
    <3> QED
      BY <2>1, <3>1, <3>5
  <2> QED
    BY <1>1, <2>2, <2>3
<1>11. ASSUME NEW t \in Types PROVE \E i \in 1..n : r[i].type = t
  <2>1. PICK k \in 1..n : file[k].type = t
    BY <1>4 DEF Good
  <2>2. CASE k > d
    <3>1. k - d \in 1..n /\ k - d \in 1..Len(r) /\ k - d + d = k /\ k <= f
      BY <1>1, <2>2
    <3>2. r[k - d] = file[k]
      BY <1>2, <3>1
    <3> QED
      BY <2>1, <3>1, <3>2
  <2>3. CASE k <= d
    <3>1. d = 1 /\ k = 1
      BY <2>3
    <3>2. r[n] = file[1 + n]
      <4>1. n \in 1..Len(r) /\ n + d <= f /\ n + d = 1 + n
        BY <1>1, <3>1
      <4> QED
        BY <1>2, <4>1
    <3>3. file[1 + n].type = file[1].type
      <4>1. 1 \in 1..(f - n)
        BY <1>1, <3>1
      <4> QED
        BY <1>4, <4>1 DEF Good, f
    <3>4. n \in 1..n /\ r[n].type = t
      BY <1>1, <2>1, <3>1, <3>2, <3>3
    <3> QED
      BY <3>4
  <2> QED
    BY <2>2, <2>3
<1>12. Good(r, now)
  <2>1. n <= Len(r)
    BY <1>1
  <2> QED
    BY <1>1, <1>8, <1>9, <1>10, <1>11, <2>1 DEF Good
<1>13. \A i \in DOMAIN r : (\E j \in DOMAIN file : r[i] = file[j])
                           \/ (e = n /\ \E j \in 1..n : r[i] = NewKeys[j])
  <2> SUFFICES ASSUME NEW i \in 1..Len(r)
               PROVE  \/ (\E j \in DOMAIN file : r[i] = file[j])
                      \/ (e = n /\ \E j \in 1..n : r[i] = NewKeys[j])
    BY <1>1
  <2>1. CASE i + d <= f
    <3>1. i + d \in DOMAIN file
      BY <1>0, <1>1, <2>1
    <3> QED
      BY <1>2, <2>1, <3>1
  <2>2. CASE i + d > f
    <3>1. e = n
      BY <1>1, <2>2
    <3> QED
      BY <1>3, <2>2, <3>1
  <2> QED
    BY <1>1, <2>1, <2>2
<1>14. ASSUME NEW j \in DOMAIN file, file[j].born + RetainFor >= now
       PROVE  Saved(file[j], r)
  <2>1. j \in 1..f /\ file[j].born \in Nat
    BY <1>0, <1>5
  <2>2. j > d
    <3>1. SUFFICES ASSUME j <= d PROVE FALSE
      BY <2>1
    <3>2. d = 1 /\ j = 1
      BY <2>1, <3>1
    <3>3. file[1].born + RetainFor < now
      BY <3>2 DEF Shape
    <3> QED
      BY <1>0, <1>14, <2>1, <3>2, <3>3
  <2>3. j - d \in 1..Len(r) /\ j - d + d = j /\ j <= f
    BY <1>1, <2>1, <2>2
  <2>4. r[j - d] = file[j]
    BY <1>2, <2>3
  <2> QED
    BY <1>1, <2>3, <2>4 DEF Saved
<1> QED
  BY <1>7, <1>12, <1>13, <1>14

\* After a rotation, saved or not, the memory is as Split says.
LEMMA RotatedSplit ==
    ASSUME TypeOK, FileInv, file # << >>, NEW d \in {0, 1}, NEW e \in {0, n},
           NEW r, Shape(r, d, e), NEW saved \in BOOLEAN
    PROVE  \E m \in 1..Len(r) : Split(r, IF saved THEN r ELSE file, now, m)
<1>1. /\ n \in Nat \ {0} /\ now \in Nat /\ Len(file) \in Nat /\ DOMAIN file = 1..Len(file)
      /\ MaxUnsaved \in Nat
  BY NumbersOf, TimesAssumption
<1>2. /\ r \in Seq(Key) /\ Len(r) = Len(file) - d + e /\ DOMAIN r = 1..Len(r) /\ Len(r) \in Nat
      /\ n <= Len(file) - d
  BY <1>1 DEF Shape
<1>3. \A j \in 1..n : NewKeys[j].born = now /\ NewKeys[j].id[1] = gen
  BY NewKeysAre
<1>4. Len(r) \in 1..Len(r) /\ n <= Len(r)
  BY <1>1, <1>2
<1>5. CASE saved
  <2>1. Split(r, r, now, Len(r))
    BY <1>2, <1>4 DEF Split, Saved
  <2> QED
    BY <1>4, <1>5, <2>1
<1>6. CASE ~saved /\ e = 0
  <2>1. Split(r, file, now, Len(r))
    <3>1. Last(r) = Last(file)
      BY <1>6, RotatedIsGood
    <3>2. \A i \in 1..Len(r) : Saved(r[i], file)
      BY <1>1, <1>2, <1>6, RotatedIsGood DEF Saved
    <3> QED
      BY <1>4, <3>1, <3>2 DEF Split
  <2> QED
    BY <1>4, <1>6, <2>1
<1>7. CASE ~saved /\ e = n
  <2> DEFINE m == Len(r) - n
  <2>0. Len(r) = Len(file) - d + n
    BY <1>2, <1>7
  <2>1. m \in 1..Len(r) /\ m # Len(r) /\ n <= m /\ m = Len(file) - d
    BY <1>1, <1>2, <2>0
  <2>2. Last(r) = NewKeys[n]
    <3>1. e # 0
      BY <1>1, <1>7
    <3>2. IF e = 0 THEN Last(r) = Last(file) ELSE Last(r) = NewKeys[n]
      BY RotatedIsGood
    <3> QED
      BY <3>1, <3>2
  <2>3. Last(r).born = now /\ Last(r).id[1] = gen
    BY <1>1, <1>3, <2>2
  <2>4. ~Saved(Last(r), file)
    <3>1. \A i \in DOMAIN file : file[i].id[1] < gen
      BY DEF FileInv, GoodFile
    <3>2. gen \in Nat
      BY DEF TypeOK
    <3> QED
      BY <2>3, <3>1, <3>2 DEF Saved
  <2>5. now - Last(r).born <= MaxUnsaved
    BY <1>1, <2>3
  <2>6. ASSUME NEW i \in 1..m PROVE Saved(r[i], file)
    <3>1. i \in 1..Len(r) /\ i + d <= Len(file) /\ i + d \in DOMAIN file
      BY <1>1, <2>1
    <3>2. r[i] = file[i + d]
      BY <3>1 DEF Shape
    <3> QED
      BY <3>1, <3>2 DEF Saved
  <2>7. ASSUME NEW i \in (m + 1)..Len(r) PROVE r[i].born = Last(r).born
    <3>1. i \in 1..Len(r) /\ ~(i + d <= Len(file)) /\ i + d - Len(file) \in 1..n
      BY <1>1, <1>2, <2>0, <2>1
    <3>2. \A k \in 1..Len(r) :
              r[k] = IF k + d <= Len(file) THEN file[k + d] ELSE NewKeys[k + d - Len(file)]
      BY DEF Shape
    <3>3. r[i] = NewKeys[i + d - Len(file)]
      BY <3>1, <3>2
    <3> HIDE DEF m
    <3> QED
      BY <1>3, <2>3, <3>1, <3>3
  <2> HIDE DEF m
  <2>8. Split(r, file, now, m)
    BY <2>1, <2>4, <2>5, <2>6, <2>7 DEF Split
  <2> QED
    BY <1>7, <2>1, <2>8
<1> QED
  BY <1>5, <1>6, <1>7

\* After a rotation, saved or not, the file is as GoodFile says.
LEMMA RotatedFile ==
    ASSUME TypeOK, FileInv, file # << >>, NEW d \in {0, 1}, NEW e \in {0, n},
           NEW r, Shape(r, d, e), NEW g, g = IF TooOld(file) THEN gen + 1 ELSE gen
    PROVE  GoodFile(r, now, g) /\ GoodFile(file, now, g)
<1>1. /\ n \in Nat \ {0} /\ now \in Nat /\ gen \in Nat /\ NewAfter \in Nat /\ MaxLag \in Nat
      /\ \A i \in DOMAIN file : file[i].id[1] \in Nat
  BY NumbersOf, KeyFields, TimesAssumption
<1>2. GoodFile(file, now, gen)
  BY DEF FileInv
<1>3. gen # 0 /\ g \in {gen, gen + 1} /\ (e = n => g = gen + 1)
  BY <1>2 DEF GoodFile, Shape
<1>4. GoodFile(file, now, g)
  BY <1>1, <1>2, <1>3 DEF GoodFile
<1>5. \A j \in 1..n : NewKeys[j].born = now /\ NewKeys[j].id[1] = gen
  BY NewKeysAre
<1>6. Good(r, now)
  BY RotatedIsGood
<1>7. now - Last(r).born <= NewAfter + MaxLag
  <2>1. Last(r) = Last(file) \/ Last(r) = NewKeys[n]
    BY RotatedIsGood
  <2>2. NewKeys[n].born = now
    BY <1>1, <1>5
  <2> QED
    BY <1>1, <1>2, <2>1, <2>2 DEF GoodFile
<1>8. ASSUME NEW i \in DOMAIN r PROVE r[i].id[1] < g
  <2>1. (\E j \in DOMAIN file : r[i] = file[j]) \/ (e = n /\ \E j \in 1..n : r[i] = NewKeys[j])
    BY RotatedIsGood
  <2>2. CASE \E j \in DOMAIN file : r[i] = file[j]
    BY <1>4, <2>2 DEF GoodFile
  <2>3. CASE e = n /\ \E j \in 1..n : r[i] = NewKeys[j]
    BY <1>1, <1>3, <1>5, <2>3
  <2> QED
    BY <2>1, <2>2, <2>3
<1>9. g # 0
  BY <1>1, <1>3
<1> QED
  BY <1>4, <1>6, <1>7, <1>8, <1>9 DEF GoodFile

\* A rotation keeps the key of the token, and adds no key that a cache in use
\* should have.
LEMMA RotatedServes ==
    ASSUME TypeOK, FileInv, TokenInv, CacheInv, file # << >>, NEW d \in {0, 1}, NEW e \in {0, n},
           NEW r, Shape(r, d, e)
    PROVE  /\ tok # None => Lasting(tok, r)
           /\ cache # None => Covers(cache, r, now)
<1>1. /\ now \in Nat /\ gen \in Nat /\ RetainFor \in Nat /\ TokenLife \in Nat
      /\ \A i \in DOMAIN file : file[i].born \in Nat
  BY NumbersOf, KeyFields, TimesAssumption
<1>2. ASSUME tok # None PROVE Lasting(tok, r)
  <2>1. tok.issued \in Nat /\ now < tok.issued + TokenLife
    BY <1>2 DEF TypeOK, TokenInv
  <2>2. PICK i \in DOMAIN file :
            file[i].id = tok.id /\ file[i].born + RetainFor + 1 >= tok.issued + TokenLife
    BY <1>2 DEF TokenInv, Lasting
  <2>3. file[i].born + RetainFor >= now
    BY <1>1, <2>1, <2>2
  <2>4. Saved(file[i], r)
    BY <2>3, RotatedIsGood
  <2> QED
    BY <2>2, <2>4 DEF Saved, Lasting
<1>3. ASSUME cache # None, NEW i \in DOMAIN r, r[i].born < cache.at \/ r[i].id[1] = 0,
             r[i].born + RetainFor >= now
      PROVE  r[i].id \in cache.ids
  <2>1. cache.at \in Nat /\ cache.at <= now /\ Covers(cache, file, now)
    BY <1>3 DEF TypeOK, CacheInv
  <2>2. (\E j \in DOMAIN file : r[i] = file[j]) \/ (\E j \in 1..n : r[i] = NewKeys[j])
    BY RotatedIsGood
  <2>3. CASE \E j \in DOMAIN file : r[i] = file[j]
    BY <1>3, <2>1, <2>3 DEF Covers
  <2>4. CASE \E j \in 1..n : r[i] = NewKeys[j]
    <3>1. r[i].born = now /\ r[i].id[1] = gen
      BY <2>4, NewKeysAre
    <3>2. gen # 0
      BY DEF FileInv, GoodFile
    <3> QED
      BY <1>1, <1>3, <2>1, <3>1, <3>2
  <2> QED
    BY <2>2, <2>3, <2>4
<1> QED
  BY <1>2, <1>3 DEF Covers

\* A rotation that gets to the end, saved or not.
LEMMA Rotation ==
    ASSUME Safe, NEW saved \in BOOLEAN, file = << >> => saved, RotateKeys(saved), unparsed' = {},
           up' = TRUE, due' = FALSE, UNCHANGED <<now, tok, cache>>
    PROVE  Safe'
<1> USE DEF Safe
<1>0. n \in Nat \ {0} /\ gen \in Nat
  BY NumbersOf
<1>a. /\ keys' = Rotated(file)
      /\ file' = IF saved THEN Rotated(file) ELSE file
      /\ gen' = IF file = << >> \/ TooOld(file) THEN gen + 1 ELSE gen
  BY RotateAll
<1>1. CASE file = << >>
  <2>1. PICK r : r = NewKeys
    OBVIOUS
  <2>2. /\ Rotated(file) = r /\ Good(r, now) /\ Last(r).born = now
        /\ gen = 0 /\ \A i \in DOMAIN r : r[i].id[1] = 0
    BY <1>1, <2>1, NewIsGood
  <2>3. r \in Seq(Key) /\ Len(r) = n /\ DOMAIN r = 1..n
    BY <2>1, NewKeysAre
  <2>4. keys' = r /\ file' = r /\ gen' = 1
    BY <1>1, <1>a, <2>2
  <2>5. tok = None /\ cache = None
    BY <1>1 DEF FileInv
  <2>6. TypeOK'
    BY <2>3, <2>4 DEF TypeOK
  <2>7. FileInv'
    <3>1. GoodFile(r, now, 1)
      BY <2>2, TimesAssumption DEF GoodFile, TypeOK
    <3>2. r # << >>
      BY <1>0, <2>3
    <3> QED
      BY <2>4, <3>1, <3>2 DEF FileInv
  <2>8. MemoryInv'
    <3>1. Kept(r, r, now) /\ Split(r, r, now, n)
      BY <1>0, <2>3 DEF Kept, Split, Saved
    <3> QED
      BY <1>0, <2>2, <2>3, <2>4, <3>1 DEF MemoryInv
  <2> QED
    BY <2>5, <2>6, <2>7, <2>8 DEF TokenInv, CacheInv
<1>2. CASE file # << >>
  <2>1. PICK r : r = Rotated(file)
    OBVIOUS
  <2>2. PICK d \in {0, 1}, e \in {0, n} : Shape(r, d, e)
    BY <1>2, <2>1, RotatedShape
  <2>3. PICK g : g = IF TooOld(file) THEN gen + 1 ELSE gen
    OBVIOUS
  <2>4. PICK fs : fs = IF saved THEN r ELSE file
    OBVIOUS
  <2>5. keys' = r /\ file' = fs /\ gen' = g
    BY <1>2, <1>a, <2>1, <2>3, <2>4
  <2>6. r \in Seq(Key) /\ DOMAIN r = 1..Len(r)
    BY <2>2 DEF Shape
  <2>7. TypeOK'
    <3>1. fs \in Seq(Key)
      BY <2>4, <2>6 DEF TypeOK
    <3>2. g \in Nat
      BY <1>0, <2>3
    <3> QED
      BY <2>5, <2>6, <3>1, <3>2 DEF TypeOK
  <2>8. GoodFile(r, now, g) /\ GoodFile(file, now, g)
    BY <1>2, <2>2, <2>3, RotatedFile
  <2>9. GoodFile(fs, now, g) /\ fs # << >>
    <3>1. r # << >>
      BY <1>0, <2>8 DEF GoodFile, Good
    <3> QED
      BY <1>2, <2>4, <2>8, <3>1
  <2>10. FileInv'
    BY <2>5, <2>9 DEF FileInv
  <2>11. MemoryInv'
    <3>1. \E m \in 1..Len(r) : Split(r, fs, now, m)
      BY <1>2, <2>2, <2>4, RotatedSplit
    <3>2. Kept(r, r, now)
      BY DEF Kept, Saved
    <3>3. Kept(r, file, now)
      BY <1>2, <2>2, RotatedIsGood DEF Kept
    <3>4. Kept(r, fs, now)
      BY <2>4, <3>2, <3>3
    <3>5. Good(r, now)
      BY <2>8 DEF GoodFile
    <3> QED
      BY <2>5, <3>1, <3>4, <3>5 DEF MemoryInv
  <2>12. TokenInv'
    <3>1. tok # None => Lasting(tok, fs)
      BY <1>2, <2>2, <2>4, RotatedServes DEF TokenInv
    <3> QED
      BY <2>5, <3>1 DEF TokenInv
  <2>13. CacheInv'
    <3>1. cache # None => Covers(cache, fs, now)
      BY <1>2, <2>2, <2>4, RotatedServes DEF CacheInv
    <3> QED
      BY <2>5, <3>1 DEF CacheInv
  <2> QED
    BY <2>7, <2>10, <2>11, <2>12, <2>13
<1> QED
  BY <1>1, <1>2

\* The key that CreateToken chooses: the newest settled one of its type, or the
\* oldest of its type if none is settled.
LEMMA SigningKeyIs ==
    ASSUME TypeOK, NEW t \in Types, OfType(t) # {}
    PROVE  LET i == SigningKey(t)
           IN  /\ i \in OfType(t)
               /\ \/ i \in Settled(t) /\ \A j \in Settled(t) : j <= i
                  \/ Settled(t) = {} /\ \A j \in OfType(t) : i <= j
<1>1. Len(keys) \in Nat /\ DOMAIN keys = 1..Len(keys)
  BY NumbersOf
<1>2. OfType(t) \subseteq 1..Len(keys) /\ Settled(t) \subseteq OfType(t)
  BY <1>1 DEF OfType, Settled
<1>3. CASE Settled(t) # {}
  <2>1. \E i \in Settled(t) : \A j \in Settled(t) : j <= i
    BY <1>1, <1>2, <1>3, Greatest
  <2>2. SigningKey(t) = CHOOSE i \in Settled(t) : \A j \in Settled(t) : j <= i
    BY <1>3 DEF SigningKey
  <2> QED
    BY <1>2, <2>1, <2>2
<1>4. CASE Settled(t) = {}
  <2>1. \E i \in OfType(t) : \A j \in OfType(t) : i <= j
    <3>1. OfType(t) \subseteq Nat
      BY <1>1, <1>2
    <3> QED
      BY <3>1, Least
  <2>2. SigningKey(t) = CHOOSE i \in OfType(t) : \A j \in OfType(t) : i <= j
    BY <1>4 DEF SigningKey
  <2> QED
    BY <1>4, <2>1, <2>2
<1> QED
  BY <1>3, <1>4

\* That key is saved and lasts longer than the token.  If it is settled, then the
\* key n places on is not, or there is none and the key is of the newest set: it is
\* not too old either way.  If none is settled, it is among the first n and thus of
\* the first set.
LEMMA SigningKeyLasts ==
    ASSUME Safe, up, NEW t \in Types, NEW i \in OfType(t),
           \/ i \in Settled(t) /\ \A j \in Settled(t) : j <= i
           \/ Settled(t) = {} /\ \A j \in OfType(t) : i <= j
    PROVE  /\ Saved(keys[i], file)
           /\ keys[i].born + RetainFor + 1 >= now + TokenLife
           /\ keys[i].born + SettleFor < now \/ keys[i].id[1] = 0
<1> USE DEF Safe
<1> DEFINE l == Len(keys)
<1>1. /\ n \in Nat \ {0} /\ now \in Nat /\ l \in Nat /\ DOMAIN keys = 1..l
      /\ NewAfter \in Nat /\ MaxLag \in Nat /\ RetainFor \in Nat /\ SettleFor \in Nat
      /\ TokenLife \in Nat \ {0} /\ MaxUnsaved \in Nat
  BY NumbersOf, TimesAssumption
<1>2. i \in 1..l /\ keys[i].type = t
  BY <1>1 DEF OfType
<1>3. \A j \in 1..l : keys[j].born \in Nat
  BY NumbersOf, KeyFields
<1>4. Good(keys, now) /\ n <= l
  BY DEF MemoryInv, Good
<1>5. PICK m \in 1..l : Split(keys, file, now, m)
  BY DEF MemoryInv
<1>6. Last(keys) = keys[l]
  BY DEF Last
<1> HIDE DEF l
<1>7. CASE i \in Settled(t) /\ \A j \in Settled(t) : j <= i
  <2>1. keys[i].born + SettleFor < now
    BY <1>7 DEF Settled
  <2>2. i <= m
    <3>1. SUFFICES ASSUME i > m PROVE FALSE
      BY <1>1, <1>2
    <3>2. i \in (m + 1)..l /\ m # l
      BY <1>1, <1>2, <3>1
    <3>3. keys[i].born = Last(keys).born /\ now - Last(keys).born <= MaxUnsaved
      BY <1>5, <3>2 DEF Split, l
    <3> QED
      BY <1>1, <1>2, <1>3, <2>1, <3>3, LagAssumption
  <2>3. Saved(keys[i], file)
    <3>1. i \in 1..m
      BY <1>1, <1>2, <2>2
    <3> QED
      BY <1>5, <3>1 DEF Split
  <2>4. CASE i + n <= l
    <3>1. i \in 1..(l - n) /\ i + n \in 1..l /\ ~(i + n <= i)
      BY <1>1, <1>2, <2>4
    <3>2. keys[i + n].type = t /\ keys[i + n].born <= keys[i].born + NewAfter + MaxLag
      BY <1>2, <1>4, <3>1 DEF Good, l
    <3>3. i + n \notin Settled(t)
      BY <1>7, <3>1
    <3>4. ~(keys[i + n].born + SettleFor < now)
      BY <1>1, <3>1, <3>2, <3>3 DEF Settled, OfType
    <3> DEFINE x == keys[i].born
               y == keys[i + n].born
    <3>5. x \in Nat /\ y \in Nat /\ y <= x + NewAfter + MaxLag /\ ~(y + SettleFor < now)
      BY <1>2, <1>3, <3>1, <3>2, <3>4
    <3> HIDE DEF x, y
    <3>6. x + RetainFor + 1 >= now + TokenLife
      BY <1>1, <3>5, LagAssumption
    <3> QED
      BY <2>1, <2>3, <3>6 DEF x
  <2>5. CASE ~(i + n <= l)
    <3>1. i - l + n \in 1..n /\ l - n + (i - l + n) = i
      BY <1>1, <1>2, <1>4, <2>5
    <3>2. keys[i].born = Last(keys).born
      <4>1. \A j \in 1..n : keys[l - n + j].born = Last(keys).born
        BY <1>4 DEF Good, l
      <4>2. keys[l - n + (i - l + n)].born = Last(keys).born
        BY <3>1, <4>1
      <4> QED
        BY <3>1, <4>2
    <3>3. m = l
      <4>1. SUFFICES ASSUME m # l PROVE FALSE
        OBVIOUS
      <4>2. now - Last(keys).born <= MaxUnsaved
        BY <1>5, <4>1 DEF Split, l
      <4> QED
        BY <1>1, <1>2, <1>3, <2>1, <3>2, <4>2, LagAssumption
    <3>4. Last(keys) = Last(file)
      BY <1>5, <3>3 DEF Split, l
    <3>5. now - Last(file).born <= NewAfter + MaxLag
      BY DEF FileInv, GoodFile, MemoryInv
    <3> DEFINE x == keys[i].born
    <3>6. x \in Nat /\ now - x <= NewAfter + MaxLag
      BY <1>2, <1>3, <3>2, <3>4, <3>5
    <3> HIDE DEF x
    <3>7. x + RetainFor + 1 >= now + TokenLife
      BY <1>1, <3>6, LagAssumption
    <3> QED
      BY <2>1, <2>3, <3>7 DEF x
  <2> QED
    BY <2>4, <2>5
<1>8. CASE Settled(t) = {} /\ \A j \in OfType(t) : i <= j
  <2>1. ~(keys[i].born + SettleFor < now)
    BY <1>8 DEF Settled
  <2>2. i \in 1..n
    <3>1. PICK k \in 1..n : keys[k].type = t
      BY <1>4 DEF Good
    <3>2. k \in 1..l
      BY <1>1, <1>4
    <3>3. k \in OfType(t)
      BY <1>1, <3>1, <3>2 DEF OfType
    <3> QED
      BY <1>1, <1>2, <1>8, <3>3
  <2>3. keys[i].id[1] = 0
    BY <1>4, <2>1, <2>2 DEF Good
  <2>4. Saved(keys[i], file)
    <3>1. n <= m /\ \A j \in 1..m : Saved(keys[j], file)
      BY <1>5 DEF Split
    <3>2. i \in 1..m
      BY <1>1, <2>2, <3>1
    <3> QED
      BY <3>1, <3>2
  <2> DEFINE x == keys[i].born
  <2>5. x \in Nat /\ ~(x + SettleFor < now)
    BY <1>2, <1>3, <2>1
  <2> HIDE DEF x
  <2>6. x + RetainFor + 1 >= now + TokenLife
    BY <1>1, <2>5, LagAssumption
  <2> QED
    BY <2>3, <2>4, <2>6 DEF x
<1> QED
  BY <1>7, <1>8

\* CreateToken: a cache in use has the key, by CacheFor <= SettleFor.
LEMMA CreateStep ==
    ASSUME Safe, NEW t \in Types, CreateToken(t)
    PROVE  Safe'
<1> USE DEF Safe
<1>1. /\ up /\ OfType(t) # {} /\ UNCHANGED <<now, file, up, keys, gen, due, cache, unparsed>>
  BY DEF CreateToken
<1>2. PICK i : i = SigningKey(t)
  OBVIOUS
<1>3. /\ i \in OfType(t)
      /\ \/ i \in Settled(t) /\ \A j \in Settled(t) : j <= i
         \/ Settled(t) = {} /\ \A j \in OfType(t) : i <= j
  BY <1>1, <1>2, SigningKeyIs
<1>4. /\ Saved(keys[i], file)
      /\ keys[i].born + RetainFor + 1 >= now + TokenLife
      /\ keys[i].born + SettleFor < now \/ keys[i].id[1] = 0
  BY <1>1, <1>3, SigningKeyLasts
<1>5. i \in DOMAIN keys /\ keys[i] \in Key /\ now \in Nat
  BY <1>3, NumbersOf DEF OfType
<1>6. keys[i].id \in Nat \X Types /\ keys[i].born \in Nat
  BY <1>5 DEF Key
<1>7. cache # None => keys[i].id \in cache.ids
  <2>1. SUFFICES ASSUME cache # None PROVE keys[i].id \in cache.ids
    OBVIOUS
  <2>2. cache.at \in Nat /\ now <= cache.at + CacheFor /\ Covers(cache, file, now)
    BY <2>1 DEF TypeOK, CacheInv
  <2>3. PICK j \in DOMAIN file : file[j] = keys[i]
    BY <1>4 DEF Saved
  <2> DEFINE x == keys[i].born
  <2>4. x \in Nat /\ x + RetainFor + 1 >= now + TokenLife
    BY <1>4, <1>6
  <2> HIDE DEF x
  <2>5. x + RetainFor >= now
    BY <1>5, <2>4, TimesAssumption
  <2>6. x + SettleFor < now => x < cache.at
    BY <1>5, <2>2, <2>4, TimesAssumption
  <2>7. x < cache.at \/ keys[i].id[1] = 0
    BY <1>4, <2>6 DEF x
  <2> QED
    BY <2>2, <2>3, <2>5, <2>7 DEF Covers, x
<1>8. PICK k : k = (cache # None => keys[i].id \in cache.ids)
  OBVIOUS
<1>9. tok' = [id |-> keys[i].id, issued |-> now, known |-> k]
  BY <1>2, <1>8 DEF CreateToken
<1>10. k = TRUE
  BY <1>7, <1>8
<1>11. tok'.id = keys[i].id /\ tok'.issued = now /\ tok'.known = TRUE
  BY <1>9, <1>10
<1>12. TypeOK'
  <2>1. tok' \in [id : Nat \X Types, issued : Nat, known : BOOLEAN]
    BY <1>5, <1>6, <1>9, <1>10
  <2> QED
    BY <1>1, <2>1 DEF TypeOK
<1>13. FileInv'
  <2>1. file # << >>
    BY <1>1 DEF FileInv
  <2> QED
    BY <1>1, <2>1 DEF FileInv
<1>14. MemoryInv' /\ CacheInv'
  BY <1>1 DEF MemoryInv, CacheInv
<1>15. TokenInv'
  <2>1. Lasting(tok', file)
    BY <1>4, <1>11 DEF Lasting, Saved
  <2>2. now < tok'.issued + TokenLife
    BY <1>5, <1>11, TimesAssumption
  <2> QED
    BY <1>1, <1>11, <2>1, <2>2 DEF TokenInv
<1> QED
  BY <1>12, <1>13, <1>14, <1>15

\* ServeJWKS: the cache is filled with all keys in memory.
LEMMA ServeStep ==
    ASSUME Safe, ServeJWKS
    PROVE  Safe'
<1> USE DEF Safe
<1>1. up /\ UNCHANGED <<now, file, up, keys, gen, due, tok, unparsed>>
  BY DEF ServeJWKS
<1>2. cache' = [ids |-> KeyIDs, at |-> now]
  BY DEF ServeJWKS
<1>3. KeyIDs \in SUBSET (Nat \X Types)
  <2>1. \A i \in DOMAIN keys : keys[i] \in Key
    BY NumbersOf
  <2>2. \A k \in Key : k.id \in Nat \X Types
    BY DEF Key
  <2> QED
    BY <2>1, <2>2 DEF KeyIDs
<1>4. TypeOK'
  <2>1. now \in Nat
    BY DEF TypeOK
  <2>2. cache' \in [ids : SUBSET (Nat \X Types), at : Nat]
    BY <1>2, <1>3, <2>1
  <2> QED
    BY <1>1, <2>2 DEF TypeOK
<1>5. FileInv'
  <2>1. file # << >>
    BY <1>1 DEF FileInv
  <2> QED
    BY <1>1, <2>1 DEF FileInv
<1>6. MemoryInv' /\ TokenInv'
  BY <1>1 DEF MemoryInv, TokenInv
<1>7. CacheInv'
  <2>1. cache'.ids = KeyIDs /\ cache'.at = now
    BY <1>2
  <2>2. ASSUME NEW i \in DOMAIN file, file[i].born + RetainFor >= now
        PROVE  file[i].id \in KeyIDs
    <3>1. Saved(file[i], keys)
      BY <1>1, <2>2 DEF MemoryInv, Kept
    <3> QED
      BY <3>1 DEF Saved, KeyIDs
  <2>3. Covers(cache', file, now)
    BY <2>1, <2>2 DEF Covers
  <2>4. now <= now + CacheFor /\ now <= now
    BY TimesAssumption DEF TypeOK
  <2> QED
    BY <1>1, <2>1, <2>3, <2>4 DEF CacheInv
<1> QED
  BY <1>4, <1>5, <1>6, <1>7

\* Time passes, and the keys stay as they are.
LEMMA GoodLater ==
    ASSUME NEW ks, NEW t \in Nat, Good(ks, t)
    PROVE  Good(ks, t + 1)
<1>1. n \in Nat \ {0} /\ SettleFor \in Nat
  BY TypesAssumption, TimesAssumption DEF n
<1>2. \A i \in 1..n : ks[i].born \in Nat
  <2>1. \A i \in 1..n : ks[i] \in Key
    BY <1>1 DEF Good
  <2> QED
    BY <2>1, KeyFields
<1>3. \A i \in 1..n : ks[i].id[1] = 0 \/ ks[i].born + SettleFor < t + 1
  BY <1>1, <1>2 DEF Good
<1> QED
  BY <1>3 DEF Good

\* An hour passes, within the bounds on failures and outages.
LEMMA TickStep ==
    ASSUME Safe, Tick
    PROVE  Safe'
<1> USE DEF Safe
<1>0. PICK later : later = now + 1
  OBVIOUS
<1>1. /\ now' = later /\ due' = TRUE /\ UNCHANGED <<file, up, keys, gen, unparsed>>
  BY <1>0 DEF Tick
<1>1a. /\ file # << >> => later - Last(file).born <= NewAfter + MaxLag
       /\ up => \/ \E i \in DOMAIN file : file[i] = Last(keys)
                \/ later - Last(keys).born <= MaxUnsaved
  <2>1. WithinBounds
    BY DEF Tick
  <2>2a. up => keys # << >>
    BY NumbersOf DEF MemoryInv, Good
  <2>2. /\ file # << >> => now + 1 - Last(file).born <= NewAfter + MaxLag
        /\ up => \/ \E i \in DOMAIN file : file[i] = Last(keys)
                 \/ now + 1 - Last(keys).born <= MaxUnsaved
    BY <2>1, <2>2a, Zenon DEF WithinBounds
  <2>3. file # << >> => Last(file).born \in Nat
    BY NumbersOf, KeyFields DEF Last
  <2>4. up => Last(keys).born \in Nat
    <3>1. up => Len(keys) \in 1..Len(keys)
      BY NumbersOf DEF MemoryInv, Good
    <3> QED
      BY <3>1, NumbersOf, KeyFields DEF Last
  <2>5. now \in Nat /\ NewAfter + MaxLag \in Nat /\ MaxUnsaved \in Nat
    BY TimesAssumption DEF TypeOK
  <2>6. file # << >> => later - Last(file).born <= NewAfter + MaxLag
    BY <1>0, <2>2, <2>3, <2>5
  <2>7. up => \/ \E i \in DOMAIN file : file[i] = Last(keys)
              \/ later - Last(keys).born <= MaxUnsaved
    BY <1>0, <2>2, <2>4, <2>5
  <2> QED
    BY <2>6, <2>7
<1>2. /\ now \in Nat /\ later \in Nat /\ later = now + 1 /\ RetainFor \in Nat
      /\ DOMAIN file = 1..Len(file)
      /\ \A i \in DOMAIN file : file[i].born \in Nat
  BY <1>0, NumbersOf, KeyFields, TimesAssumption
<1>3. (tok' = tok /\ later < tok.issued + TokenLife) \/ tok' = None
  BY <1>0 DEF Tick
<1>4. (cache' = cache /\ later <= cache.at + CacheFor) \/ cache' = None
  BY <1>0 DEF Tick
<1>5. TypeOK'
  <2>1. tok' \in {tok, None} /\ cache' \in {cache, None}
    BY <1>3, <1>4
  <2>2. later \in Nat
    BY <1>2
  <2> QED
    BY <1>1, <2>1, <2>2 DEF TypeOK
<1>6. FileInv'
  <2>1. CASE file = << >>
    BY <1>1, <1>3, <1>4, <2>1 DEF FileInv
  <2>2. CASE file # << >>
    <3>1. GoodFile(file, now, gen)
      BY <2>2 DEF FileInv
    <3>2. later - Last(file).born <= NewAfter + MaxLag
      BY <1>1a, <2>2
    <3>3. Good(file, later)
      BY <1>2, <3>1, GoodLater DEF GoodFile
    <3>4. GoodFile(file, later, gen)
      BY <3>1, <3>2, <3>3 DEF GoodFile
    <3> QED
      BY <1>1, <2>2, <3>4 DEF FileInv
  <2> QED
    BY <2>1, <2>2
<1>7. MemoryInv'
  <2> SUFFICES ASSUME up PROVE MemoryInv'
    BY <1>1 DEF MemoryInv
  <2>1. Good(keys, later)
    BY <1>2, GoodLater DEF MemoryInv
  <2>2. Kept(keys, file, later)
    <3>1. Kept(keys, file, now)
      BY DEF MemoryInv
    <3>2. \A i \in DOMAIN file :
              file[i].born + RetainFor >= later => file[i].born + RetainFor >= now
      BY <1>2
    <3> QED
      BY <3>1, <3>2 DEF Kept
  <2>3. PICK m \in 1..Len(keys) : Split(keys, file, now, m)
    BY DEF MemoryInv
  <2>4. Split(keys, file, later, m)
    <3>1. CASE m = Len(keys)
      BY <2>3, <3>1 DEF Split
    <3>2. CASE m # Len(keys)
      <4>1. ~Saved(Last(keys), file)
        BY <2>3, <3>2 DEF Split
      <4>2. later - Last(keys).born <= MaxUnsaved
        BY <1>1a, <4>1, Zenon DEF Saved
      <4> QED
        BY <2>3, <3>2, <4>1, <4>2 DEF Split
    <3> QED
      BY <3>1, <3>2
  <2> QED
    BY <1>1, <2>1, <2>2, <2>3, <2>4 DEF MemoryInv
<1>8. TokenInv'
  BY <1>1, <1>3 DEF TokenInv
<1>9. CacheInv'
  <2> SUFFICES ASSUME cache' # None PROVE CacheInv'
    BY DEF CacheInv
  <2>1. cache' = cache /\ cache # None /\ later <= cache.at + CacheFor
    BY <1>4
  <2>2. cache.at \in Nat /\ cache.at <= now /\ Covers(cache, file, now)
    BY <2>1 DEF TypeOK, CacheInv
  <2>3. Covers(cache, file, later)
    <3>1. \A i \in DOMAIN file :
              file[i].born + RetainFor >= later => file[i].born + RetainFor >= now
      BY <1>2
    <3> QED
      BY <2>2, <3>1 DEF Covers
  <2>4. cache.at <= later
    BY <1>2, <2>2
  <2> QED
    BY <1>1, <2>1, <2>3, <2>4 DEF CacheInv
<1> QED
  BY <1>5, <1>6, <1>7, <1>8, <1>9

\* Every step preserves the types.
LEMMA TypeStep == TypeOK /\ [Next]_vars => TypeOK'
<1> SUFFICES ASSUME TypeOK, [Next]_vars PROVE TypeOK'
  OBVIOUS
<1>1. ASSUME NEW saved \in BOOLEAN, RotateKeys(saved)
      PROVE  /\ keys' \in Seq(Key) /\ file' \in Seq(Key) /\ gen' \in Nat
             /\ unparsed' \in SUBSET (Nat \X Types)
  <2>1. PICK bad \in SUBSET (Nat \X Types) :
                /\ keys' = Parsed(Rotated(file), bad)
                /\ file' = IF saved THEN Parsed(Rotated(file), bad) ELSE file
                /\ unparsed' = unparsed \union bad
    BY <1>1, RotateSome
  <2>2. PICK r : r = Rotated(file)
    OBVIOUS
  <2>3. PICK s : s = Parsed(r, bad)
    OBVIOUS
  <2>4. s \in Seq(Key)
    <3>1. r \in Seq(Key)
      BY <2>2, RotatedType
    <3> QED
      BY <2>3, <3>1, ParsedPicks DEF Picks
  <2>5. gen' \in Nat
    BY <1>1, RotateSome DEF TypeOK
  <2> QED
    BY <2>1, <2>2, <2>3, <2>4, <2>5 DEF TypeOK
<1>2. CASE Rotate
  <2>1. due' = FALSE /\ UNCHANGED <<now, up, tok, cache>>
    BY <1>2 DEF Rotate
  <2>2. CASE \E saved \in BOOLEAN : RotateKeys(saved)
    BY <1>1, <2>1, <2>2 DEF TypeOK
  <2>3. CASE RotateNothing
    BY <2>1, <2>3 DEF RotateNothing, TypeOK
  <2> QED
    BY <1>2, <2>2, <2>3 DEF Rotate
<1>3. CASE Start
  BY <1>1, <1>3 DEF Start, TypeOK
<1>4. CASE Crash
  <2>1. << >> \in Seq(Key)
    OBVIOUS
  <2> QED
    BY <1>4, <2>1 DEF Crash, TypeOK
<1>5. CASE Tick
  <2>1. now' \in Nat /\ due' = TRUE /\ UNCHANGED <<file, up, keys, gen, unparsed>>
    BY <1>5 DEF Tick, TypeOK
  <2>2. tok' \in {tok, None} /\ cache' \in {cache, None}
    BY <1>5 DEF Tick
  <2> QED
    BY <2>1, <2>2 DEF TypeOK
<1>6. CASE ServeJWKS
  <2>1. cache' = [ids |-> KeyIDs, at |-> now] /\ UNCHANGED <<now, file, up, keys, gen, due, tok, unparsed>>
    BY <1>6 DEF ServeJWKS
  <2>2. KeyIDs \in SUBSET (Nat \X Types)
    <3>1. \A i \in DOMAIN keys : keys[i] \in Key
      BY NumbersOf
    <3>2. \A k \in Key : k.id \in Nat \X Types
      BY DEF Key
    <3> QED
      BY <3>1, <3>2 DEF KeyIDs
  <2>3. now \in Nat
    BY DEF TypeOK
  <2>4. cache' \in [ids : SUBSET (Nat \X Types), at : Nat]
    BY <2>1, <2>2, <2>3
  <2> QED
    BY <2>1, <2>4 DEF TypeOK
<1>7. ASSUME NEW t \in Types, CreateToken(t) PROVE TypeOK'
  <2>1. PICK i : i = SigningKey(t)
    OBVIOUS
  <2>2. i \in OfType(t)
    BY <1>7, <2>1, SigningKeyIs DEF CreateToken
  <2>3. i \in DOMAIN keys /\ keys[i] \in Key /\ now \in Nat
    BY <2>2, NumbersOf DEF OfType
  <2>4. keys[i].id \in Nat \X Types
    BY <2>3 DEF Key
  <2>5. PICK k \in BOOLEAN : k = (cache # None => keys[i].id \in cache.ids)
    OBVIOUS
  <2>6. tok' = [id |-> keys[i].id, issued |-> now, known |-> k]
    BY <1>7, <2>1, <2>5 DEF CreateToken
  <2>7. tok' \in [id : Nat \X Types, issued : Nat, known : BOOLEAN]
    BY <2>3, <2>4, <2>6
  <2>8. UNCHANGED <<now, file, up, keys, gen, due, cache, unparsed>>
    BY <1>7 DEF CreateToken
  <2> QED
    BY <2>7, <2>8 DEF TypeOK
<1>8. CASE UNCHANGED vars
  BY <1>8 DEF vars, TypeOK
<1> QED
  BY <1>2, <1>3, <1>4, <1>5, <1>6, <1>7, <1>8 DEF Next

\* What every step keeps as long as every key parses.
LEMMA SafeStep ==
    ASSUME Safe, [Next]_vars, unparsed' = {}
    PROVE  Safe'
<1>1. CASE Rotate
  <2>1. up /\ due' = FALSE /\ UNCHANGED <<now, up, tok, cache>>
    BY <1>1 DEF Rotate
  <2>2. file # << >>
    BY <2>1 DEF Safe, FileInv
  <2>3. up' = TRUE
    BY <2>1 DEF Safe, TypeOK
  <2>4. CASE RotateKeys(TRUE)
    BY <2>1, <2>2, <2>3, <2>4, Rotation
  <2>5. CASE RotateKeys(FALSE)
    BY <2>1, <2>2, <2>3, <2>5, Rotation
  <2>6. CASE RotateNothing
    BY <2>1, <2>6 DEF RotateNothing, Safe, TypeOK, FileInv, MemoryInv, TokenInv, CacheInv
  <2> QED
    BY <1>1, <2>4, <2>5, <2>6 DEF Rotate
<1>2. CASE Start
  <2>1. RotateKeys(TRUE) /\ up' = TRUE /\ due' = FALSE /\ UNCHANGED <<now, tok, cache>>
    BY <1>2 DEF Start
  <2> QED
    BY <2>1, Rotation
<1>3. CASE Crash
  <2>1. << >> \in Seq(Key)
    OBVIOUS
  <2>2. up' = FALSE /\ keys' = << >> /\ UNCHANGED <<now, file, gen, due, tok, cache, unparsed>>
    BY <1>3 DEF Crash
  <2> QED
    BY <2>1, <2>2 DEF Safe, TypeOK, FileInv, MemoryInv, TokenInv, CacheInv
<1>4. CASE Tick
  BY <1>4, TickStep
<1>5. CASE ServeJWKS
  BY <1>5, ServeStep
<1>6. ASSUME NEW t \in Types, CreateToken(t) PROVE Safe'
  BY <1>6, CreateStep
<1>7. CASE UNCHANGED vars
  BY <1>7 DEF vars, Safe, TypeOK, FileInv, MemoryInv, TokenInv, CacheInv
<1> QED
  BY <1>1, <1>2, <1>3, <1>4, <1>5, <1>6, <1>7 DEF Next

\* Keys as createNewTokenKeys makes them, before g sets and up to the time t: an ID
\* names the type, and a set is not older than an earlier one.
Sound(ks, g, t) ==
    /\ \A i \in 1..Len(ks) : ks[i].id[2] = ks[i].type /\ ks[i].id[1] < g /\ ks[i].born <= t
    /\ \A i, j \in 1..Len(ks) : ks[i].id[1] <= ks[j].id[1] => ks[i].born <= ks[j].born

\* Every type has a key of the newest set among them, or lost one, at least as
\* recent, that did not parse (un).
Whole(ks, un) ==
    \A ty \in Types :
        \/ \E i \in 1..Len(ks) : /\ ks[i].type = ty
                                  /\ \A j \in 1..Len(ks) : ks[j].id[1] <= ks[i].id[1]
        \/ \E u \in un : u[2] = ty /\ \A j \in 1..Len(ks) : ks[j].id[1] <= u[1]

\* Saved and used keys are whole, whatever fails to parse.
WholeInv ==
    /\ Sound(file, gen, now)
    /\ file # << >> => Whole(file, unparsed)
    /\ up => Whole(keys, unparsed)

\* The inductive invariant.
IndInv == TypeOK /\ WholeInv /\ (unparsed = {} => Safe)

\* The numbers of a sequence of keys.
LEMMA KeysOf ==
    ASSUME NEW ks \in Seq(Key)
    PROVE  /\ Len(ks) \in Nat
           /\ \A i \in 1..Len(ks) : /\ ks[i] \in Key /\ ks[i].born \in Nat
                                     /\ ks[i].id[1] \in Nat /\ ks[i].type \in Types
           /\ ks # << >> => 1 \in 1..Len(ks) /\ Len(ks) \in 1..Len(ks)
<1>1. Len(ks) \in Nat /\ \A i \in 1..Len(ks) : ks[i] \in Key
  OBVIOUS
<1>2. ks # << >> => 1 \in 1..Len(ks) /\ Len(ks) \in 1..Len(ks)
  OBVIOUS
<1> QED
  BY <1>1, <1>2, KeyFields

\* A new set is whole.
LEMMA NewWhole ==
    ASSUME TypeOK, NEW un
    PROVE  Sound(NewKeys, gen + 1, now) /\ Whole(NewKeys, un) /\ NewKeys # << >>
<1>1. /\ NewKeys \in Seq(Key) /\ Len(NewKeys) = n /\ n \in Nat \ {0}
      /\ \A i \in 1..n : /\ NewKeys[i].type = KeyTypes[i]
                         /\ NewKeys[i].born = now
                         /\ NewKeys[i].id[1] = gen
      /\ \A t \in Types : \E i \in 1..n : KeyTypes[i] = t
  BY NewKeysAre
<1>2. now \in Nat /\ gen \in Nat
  BY DEF TypeOK
<1>3. \A i \in 1..n : NewKeys[i].id[2] = NewKeys[i].type
  <2>1. DOMAIN KeyTypes = 1..n
    BY TypesAssumption DEF n
  <2> QED
    BY <2>1 DEF NewKeys
<1>4. NewKeys # << >>
  BY <1>1
<1> QED
  BY <1>1, <1>2, <1>3, <1>4 DEF Sound, Whole

\* A set at the back of sound keys: it is the newest.
LEMMA AddedWhole ==
    ASSUME TypeOK, Sound(file, gen, now), NEW un, NEW w, w = file \o NewKeys
    PROVE  w \in Seq(Key) /\ w # << >> /\ Sound(w, gen + 1, now) /\ Whole(w, un) /\ Last(w).born = now
<1>1. /\ NewKeys \in Seq(Key) /\ Len(NewKeys) = n /\ n \in Nat \ {0}
      /\ \A i \in 1..n : /\ NewKeys[i].type = KeyTypes[i]
                         /\ NewKeys[i].born = now
                         /\ NewKeys[i].id[1] = gen
      /\ \A t \in Types : \E i \in 1..n : KeyTypes[i] = t
      /\ \A i \in 1..n : NewKeys[i].id[2] = NewKeys[i].type
  BY NewKeysAre, NewWhole DEF Sound
<1>2. now \in Nat /\ gen \in Nat /\ file \in Seq(Key)
  BY DEF TypeOK
<1>3. PICK f \in Nat : f = Len(file)
  BY <1>2
<1>4. /\ w \in Seq(Key) /\ Len(w) = f + n
      /\ \A i \in 1..(f + n) : w[i] = IF i <= f THEN file[i] ELSE NewKeys[i - f]
  BY <1>1, <1>2, <1>3, ConcatAt
<1>5. \A i \in 1..f : file[i].born \in Nat /\ file[i].id[1] \in Nat
  BY <1>2, <1>3, KeysOf
<1>6. ASSUME NEW i \in 1..(f + n)
      PROVE  \/ i \in 1..f /\ w[i] = file[i]
             \/ w[i].born = now /\ w[i].id[1] = gen /\ w[i].id[2] = w[i].type
  <2>1. CASE i <= f
    BY <1>4, <2>1
  <2>2. CASE ~(i <= f)
    <3>1. i - f \in 1..n /\ w[i] = NewKeys[i - f]
      BY <1>1, <1>4, <2>2
    <3> QED
      BY <1>1, <3>1
  <2> QED
    BY <2>1, <2>2
<1>7. \A i \in 1..f : file[i].id[2] = file[i].type /\ file[i].id[1] < gen /\ file[i].born <= now
  BY <1>3 DEF Sound
<1>8. ASSUME NEW i \in 1..(f + n)
      PROVE  w[i].id[2] = w[i].type /\ w[i].id[1] < gen + 1 /\ w[i].id[1] <= gen /\ w[i].born <= now
  <2>1. CASE i \in 1..f /\ w[i] = file[i]
    <3>1. PICK x \in Nat : x = w[i].id[1]
      BY <1>5, <2>1
    <3>2. x < gen
      BY <1>7, <2>1, <3>1
    <3>3. x < gen + 1 /\ x <= gen
      BY <1>2, <3>2
    <3> QED
      BY <1>7, <2>1, <3>1, <3>3
  <2>2. CASE w[i].born = now /\ w[i].id[1] = gen /\ w[i].id[2] = w[i].type
    BY <1>2, <2>2
  <2> QED
    BY <1>6, <2>1, <2>2
<1>9. ASSUME NEW i \in 1..(f + n), NEW j \in 1..(f + n), w[i].id[1] <= w[j].id[1]
      PROVE  w[i].born <= w[j].born
  <2>1. CASE w[j].born = now
    BY <1>8, <2>1
  <2>2. CASE j \in 1..f /\ w[j] = file[j]
    <3>1. CASE i \in 1..f /\ w[i] = file[i]
      BY <1>3, <1>9, <2>2, <3>1 DEF Sound
    <3>2. CASE w[i].id[1] = gen
      <4>1. w[j].id[1] < gen /\ w[j].id[1] \in Nat
        BY <1>5, <1>7, <2>2
      <4>2. PICK y : y = w[j].id[1]
        OBVIOUS
      <4>3. y \in Nat /\ y < gen /\ gen <= y
        BY <1>9, <3>2, <4>1, <4>2
      <4> QED
        BY <1>2, <4>3
    <3> QED
      BY <1>6, <3>1, <3>2
  <2> QED
    BY <1>6, <2>1, <2>2
<1>10. Sound(w, gen + 1, now)
  BY <1>4, <1>8, <1>9 DEF Sound
<1>11. Whole(w, un)
  <2> SUFFICES ASSUME NEW ty \in Types
               PROVE  \E i \in 1..Len(w) : /\ w[i].type = ty
                                            /\ \A j \in 1..Len(w) : w[j].id[1] <= w[i].id[1]
    BY DEF Whole
  <2>1. PICK k \in 1..n : KeyTypes[k] = ty
    BY <1>1
  <2>2. f + k \in 1..(f + n) /\ ~(f + k <= f) /\ f + k - f = k
    BY <1>1
  <2>3. w[f + k] = NewKeys[k]
    BY <1>4, <2>2
  <2>4. w[f + k].type = ty /\ w[f + k].id[1] = gen
    BY <1>1, <2>1, <2>3
  <2> QED
    BY <1>4, <1>8, <2>2, <2>4
<1>12. Last(w).born = now
  <2>1. f + n \in 1..(f + n) /\ ~(f + n <= f) /\ f + n - f = n /\ n \in 1..n
    BY <1>1
  <2> QED
    BY <1>1, <1>4, <2>1 DEF Last
<1> QED
  BY <1>1, <1>4, <1>10, <1>11, <1>12

\* The removal of a key that is too old: if it is of the newest set, then so is the
\* last one, which is not too old.
LEMMA RemovedWhole ==
    ASSUME TypeOK, NEW w \in Seq(Key), w # << >>, NEW g, NEW un, Sound(w, g, now), Whole(w, un),
           Last(w).born + NewAfter >= now
    PROVE  Sound(WithoutOld(w), g, now) /\ Whole(WithoutOld(w), un)
<1>0. /\ now \in Nat /\ NewAfter \in Nat /\ RetainFor \in Nat /\ NewAfter <= RetainFor
      /\ Len(w) \in Nat /\ 1 \in 1..Len(w) /\ Len(w) \in 1..Len(w)
      /\ \A i \in 1..Len(w) : w[i].born \in Nat /\ w[i].id[1] \in Nat
  BY TimesAssumption, LagAssumption, KeysOf DEF TypeOK
<1>1. CASE ~(w[1].born + RetainFor < now)
  BY <1>1 DEF WithoutOld
<1>2. CASE w[1].born + RetainFor < now
  <2>1. PICK v : v = Tail(w)
    OBVIOUS
  <2>2. /\ v \in Seq(Key) /\ Len(v) = Len(w) - 1
        /\ \A i \in 1..(Len(w) - 1) : v[i] = w[i + 1]
    BY <2>1, TailAt
  <2>3. \A i \in 1..Len(v) : i + 1 \in 1..Len(w) /\ v[i] = w[i + 1]
    BY <1>0, <2>2
  <2>4. Sound(v, g, now)
    BY <2>3 DEF Sound
  <2>5. ASSUME NEW ty \in Types
        PROVE  \/ \E i \in 1..Len(v) : /\ v[i].type = ty
                                         /\ \A j \in 1..Len(v) : v[j].id[1] <= v[i].id[1]
               \/ \E u \in un : u[2] = ty /\ \A j \in 1..Len(v) : v[j].id[1] <= u[1]
    <3>1. CASE \E u \in un : u[2] = ty /\ \A j \in 1..Len(w) : w[j].id[1] <= u[1]
      BY <2>3, <3>1
    <3>2. CASE \E i \in 1..Len(w) : /\ w[i].type = ty
                                     /\ \A j \in 1..Len(w) : w[j].id[1] <= w[i].id[1]
      <4>1. PICK i \in 1..Len(w) : /\ w[i].type = ty
                                   /\ \A j \in 1..Len(w) : w[j].id[1] <= w[i].id[1]
        BY <3>2
      <4>2. i # 1
        <5>1. SUFFICES ASSUME i = 1 PROVE FALSE
          OBVIOUS
        <5>2. w[Len(w)].id[1] <= w[1].id[1]
          BY <1>0, <4>1, <5>1
        <5>3. w[Len(w)].born <= w[1].born
          BY <1>0, <5>2 DEF Sound
        <5>4. PICK x \in Nat : x = w[1].born
          BY <1>0
        <5>5. PICK y \in Nat : y = w[Len(w)].born
          BY <1>0
        <5>6. y + NewAfter >= now /\ y <= x /\ x + RetainFor < now
          BY <1>2, <5>3, <5>4, <5>5 DEF Last
        <5> QED
          BY <1>0, <5>6
      <4>3. i - 1 \in 1..Len(v) /\ i - 1 + 1 = i
        BY <1>0, <2>2, <4>2
      <4>4. v[i - 1] = w[i]
        BY <2>3, <4>3
      <4> QED
        BY <2>3, <4>1, <4>3, <4>4
    <3> QED
      BY <3>1, <3>2 DEF Whole
  <2>6. Whole(v, un)
    BY <2>5 DEF Whole
  <2>7. WithoutOld(w) = v
    BY <1>2, <2>1 DEF WithoutOld
  <2> QED
    BY <2>4, <2>6, <2>7
<1> QED
  BY <1>1, <1>2

\* rotateKeys keeps keys whole, before it parses them.
LEMMA RotatedWhole ==
    ASSUME TypeOK, WholeInv, NEW g, g = IF file = << >> \/ TooOld(file) THEN gen + 1 ELSE gen
    PROVE  Sound(Rotated(file), g, now) /\ Whole(Rotated(file), unparsed)
<1> DEFINE Fit(w) == /\ w \in Seq(Key) /\ w # << >> /\ Sound(w, g, now) /\ Whole(w, unparsed)
                     /\ Last(w).born + NewAfter >= now
<1>0. now \in Nat /\ NewAfter \in Nat /\ file \in Seq(Key)
  BY TimesAssumption DEF TypeOK
<1>1. PICK w : w = WithNew(WithFirst(file))
  OBVIOUS
<1>2. CASE file = << >>
  <2>1. NewKeys \in Seq(Key) /\ Len(NewKeys) = n /\ n \in Nat \ {0} /\ NewKeys[n].born = now
    BY NewKeysAre
  <2>2. Last(NewKeys).born = now
    BY <2>1 DEF Last
  <2>3. ~TooOld(NewKeys)
    BY <1>0, <2>2 DEF TooOld
  <2>4. w = NewKeys
    BY <1>1, <1>2, <2>3 DEF WithNew, WithFirst
  <2> QED
    <3>1. Fit(w)
      BY <1>0, <1>2, <2>1, <2>2, <2>4, NewWhole
    <3> QED
      BY <1>1, <3>1, RemovedWhole DEF Rotated
<1>3. CASE file # << >> /\ TooOld(file)
  <2>1. w = file \o NewKeys
    BY <1>1, <1>3 DEF WithNew, WithFirst
  <2>2. /\ w \in Seq(Key) /\ w # << >> /\ Sound(w, gen + 1, now) /\ Whole(w, unparsed)
        /\ Last(w).born = now
    BY <2>1, AddedWhole DEF WholeInv
  <2>3. g = gen + 1 /\ Last(w).born + NewAfter >= now
    BY <1>0, <1>3, <2>2
  <2> QED
    BY <1>1, <2>2, <2>3, RemovedWhole DEF Rotated
<1>4. CASE file # << >> /\ ~TooOld(file)
  <2>1. w = file
    BY <1>1, <1>4 DEF WithNew, WithFirst
  <2>2. Last(file).born \in Nat
    BY <1>0, <1>4, KeysOf DEF Last
  <2>3. Last(file).born + NewAfter >= now
    BY <1>0, <1>4, <2>2 DEF TooOld
  <2>4. Fit(w)
    BY <1>0, <1>4, <2>1, <2>3 DEF WholeInv
  <2> QED
    BY <1>1, <2>4, RemovedWhole DEF Rotated
<1> QED
  BY <1>2, <1>3, <1>4

\* Keys stay whole when some of them are dropped: each of those counts as lost.
LEMMA ParsedWhole ==
    ASSUME NEW r \in Seq(Key), NEW g, NEW t, NEW un, NEW bad, Sound(r, g, t), Whole(r, un)
    PROVE  Sound(Parsed(r, bad), g, t) /\ Whole(Parsed(r, bad), un \union bad)
<1>1. PICK s : s = Parsed(r, bad)
  OBVIOUS
<1>2. Picks(s, r, bad, Len(r))
  BY <1>1, ParsedPicks
<1>3. /\ \A i \in 1..Len(s) : \E j \in 1..Len(r) : s[i] = r[j]
      /\ \A j \in 1..Len(r) : r[j].id \in bad \/ \E i \in 1..Len(s) : s[i] = r[j]
  BY <1>2 DEF Picks
<1>4. Sound(s, g, t)
  <2>1. ASSUME NEW i \in 1..Len(s)
        PROVE  s[i].id[2] = s[i].type /\ s[i].id[1] < g /\ s[i].born <= t
    <3>1. PICK k \in 1..Len(r) : s[i] = r[k]
      BY <1>3
    <3>2. r[k].id[2] = r[k].type /\ r[k].id[1] < g /\ r[k].born <= t
      BY DEF Sound
    <3> QED
      BY <3>1, <3>2
  <2>2. ASSUME NEW i \in 1..Len(s), NEW j \in 1..Len(s), s[i].id[1] <= s[j].id[1]
        PROVE  s[i].born <= s[j].born
    <3>1. PICK i1 \in 1..Len(r) : s[i] = r[i1]
      BY <1>3
    <3>2. PICK j1 \in 1..Len(r) : s[j] = r[j1]
      BY <1>3
    <3>3. r[i1].id[1] <= r[j1].id[1] => r[i1].born <= r[j1].born
      BY DEF Sound
    <3> QED
      BY <2>2, <3>1, <3>2, <3>3
  <2> QED
    BY <2>1, <2>2 DEF Sound
<1>5. ASSUME NEW ty \in Types
      PROVE  \/ \E i \in 1..Len(s) : /\ s[i].type = ty
                                       /\ \A j \in 1..Len(s) : s[j].id[1] <= s[i].id[1]
             \/ \E u \in un \union bad : u[2] = ty /\ \A j \in 1..Len(s) : s[j].id[1] <= u[1]
  <2>1. CASE \E u \in un : u[2] = ty /\ \A j \in 1..Len(r) : r[j].id[1] <= u[1]
    BY <1>3, <2>1
  <2>2. CASE \E i \in 1..Len(r) : /\ r[i].type = ty
                                   /\ \A j \in 1..Len(r) : r[j].id[1] <= r[i].id[1]
    <3>1. PICK i \in 1..Len(r) : /\ r[i].type = ty
                                 /\ \A j \in 1..Len(r) : r[j].id[1] <= r[i].id[1]
      BY <2>2
    <3>2. CASE r[i].id \in bad
      <4>1. r[i].id[2] = ty
        BY <3>1 DEF Sound
      <4> QED
        BY <1>3, <3>1, <3>2, <4>1
    <3>3. CASE \E k \in 1..Len(s) : s[k] = r[i]
      BY <1>3, <3>1, <3>3
    <3> QED
      BY <1>3, <3>2, <3>3
  <2> QED
    BY <2>1, <2>2 DEF Whole
<1>6. Whole(s, un \union bad)
  BY <1>5 DEF Whole
<1> QED
  BY <1>1, <1>4, <1>6

\* A rotation keeps what is saved and what is used whole.
LEMMA WholeRotation ==
    ASSUME TypeOK, WholeInv, NEW saved \in BOOLEAN, RotateKeys(saved), UNCHANGED now
    PROVE  WholeInv'
<1>1. PICK r : r = Rotated(file)
  OBVIOUS
<1>2. PICK bad \in SUBSET (Nat \X Types) :
              /\ keys' = Parsed(r, bad)
              /\ file' = IF saved THEN Parsed(r, bad) ELSE file
              /\ unparsed' = unparsed \union bad
  BY <1>1, RotateSome
<1>3. PICK g : g = IF file = << >> \/ TooOld(file) THEN gen + 1 ELSE gen
  OBVIOUS
<1>4. gen' = g
  BY <1>3, RotateSome
<1>5. PICK s : s = Parsed(r, bad)
  OBVIOUS
<1>6. Sound(s, g, now) /\ Whole(s, unparsed \union bad)
  <2>1. Sound(r, g, now) /\ Whole(r, unparsed)
    BY <1>1, <1>3, RotatedWhole
  <2>2. r \in Seq(Key)
    BY <1>1, RotatedType
  <2> QED
    BY <1>5, <2>1, <2>2, ParsedWhole
<1>7. Sound(file, g, now) /\ (file # << >> => Whole(file, unparsed \union bad))
  <2>1. gen \in Nat /\ g \in {gen, gen + 1}
    BY <1>3 DEF TypeOK
  <2>2. \A i \in 1..Len(file) : file[i].id[1] \in Nat
    BY KeysOf DEF TypeOK
  <2>3. Sound(file, g, now)
    BY <2>1, <2>2 DEF WholeInv, Sound
  <2>4. file # << >> => Whole(file, unparsed \union bad)
    BY DEF WholeInv, Whole
  <2> QED
    BY <2>3, <2>4
<1>8. Sound(file', g, now) /\ (file' # << >> => Whole(file', unparsed \union bad))
  BY <1>2, <1>5, <1>6, <1>7
<1>9. keys' = s /\ unparsed' = unparsed \union bad /\ now' = now
  BY <1>2, <1>5
<1> QED
  BY <1>4, <1>6, <1>8, <1>9 DEF WholeInv

\* Every step keeps what is saved and what is used whole.
LEMMA WholeStep ==
    ASSUME TypeOK, WholeInv, [Next]_vars
    PROVE  WholeInv'
<1>1. CASE Rotate
  <2>1. UNCHANGED <<now, up>>
    BY <1>1 DEF Rotate
  <2>2. CASE \E saved \in BOOLEAN : RotateKeys(saved)
    BY <2>1, <2>2, WholeRotation
  <2>3. CASE RotateNothing
    BY <2>1, <2>3 DEF RotateNothing, WholeInv
  <2> QED
    BY <1>1, <2>2, <2>3 DEF Rotate
<1>2. CASE Start
  <2>1. RotateKeys(TRUE) /\ UNCHANGED now
    BY <1>2 DEF Start
  <2> QED
    BY <2>1, WholeRotation
<1>3. CASE Crash
  BY <1>3 DEF Crash, WholeInv
<1>4. CASE Tick
  <2>1. now' = now + 1 /\ UNCHANGED <<file, up, keys, gen, unparsed>>
    BY <1>4 DEF Tick
  <2>2. now \in Nat /\ \A i \in 1..Len(file) : file[i].born \in Nat
    BY KeysOf DEF TypeOK
  <2>3. PICK later : later = now + 1
    OBVIOUS
  <2>4. Sound(file, gen, later)
    BY <2>2, <2>3 DEF WholeInv, Sound
  <2> QED
    BY <2>1, <2>3, <2>4 DEF WholeInv
<1>5. CASE ServeJWKS
  BY <1>5 DEF ServeJWKS, WholeInv
<1>6. ASSUME NEW t \in Types, CreateToken(t) PROVE WholeInv'
  BY <1>6 DEF CreateToken, WholeInv
<1>7. CASE UNCHANGED vars
  BY <1>7 DEF vars, WholeInv
<1> QED
  BY <1>1, <1>2, <1>3, <1>4, <1>5, <1>6, <1>7 DEF Next

\* The invariant holds at first.
LEMMA InitEstablishes == Init => IndInv
<1> SUFFICES ASSUME Init PROVE IndInv
  OBVIOUS
<1>1. TypeOK
  <2>1. << >> \in Seq(Key)
    OBVIOUS
  <2> QED
    BY <2>1 DEF Init, TypeOK
<1>2. WholeInv
  BY DEF Init, WholeInv, Sound
<1> QED
  BY <1>1, <1>2 DEF Init, IndInv, Safe, FileInv, MemoryInv, TokenInv, CacheInv

\* No step forgets a key that failed to parse.
LEMMA UnparsedGrows ==
    ASSUME TypeOK, [Next]_vars, unparsed' = {}
    PROVE  unparsed = {}
<1>1. ASSUME NEW saved \in BOOLEAN, RotateKeys(saved) PROVE unparsed = {}
  <2>1. \E bad : unparsed' = unparsed \union bad
    BY <1>1, RotateSome
  <2> QED
    BY <2>1
<1>2. CASE Rotate
  BY <1>1, <1>2 DEF Rotate, RotateNothing
<1>3. CASE Start
  BY <1>1, <1>3 DEF Start
<1>4. CASE Crash \/ Tick \/ ServeJWKS \/ UNCHANGED vars
  BY <1>4 DEF Crash, Tick, ServeJWKS, vars
<1>5. ASSUME NEW t \in Types, CreateToken(t) PROVE unparsed = {}
  BY <1>5 DEF CreateToken
<1> QED
  BY <1>2, <1>3, <1>4, <1>5 DEF Next

\* Every step preserves the invariant.
LEMMA NextPreserves == IndInv /\ [Next]_vars => IndInv'
<1> SUFFICES ASSUME IndInv, [Next]_vars PROVE IndInv'
  OBVIOUS
<1>1. TypeOK' /\ WholeInv'
  BY TypeStep, WholeStep DEF IndInv
<1>2. unparsed' = {} => Safe'
  BY UnparsedGrows, SafeStep DEF IndInv
<1> QED
  BY <1>1, <1>2 DEF IndInv

\* The invariant holds of every state.
THEOREM Inductive == Spec => []IndInv
BY InitEstablishes, NextPreserves, PTL DEF Spec

\* Type correctness of the token manager.
THEOREM TypeCorrect == Spec => []TypeOK
<1>1. IndInv => TypeOK
  BY DEF IndInv
<1> QED
  BY <1>1, Inductive, PTL

\* As long as every key parses, a token that has not expired validates whenever the
\* process is up (ValidateToken, getKey), through failed saves and restarts, for any
\* periods under LagAssumption.
THEOREM OutlivesRotation == Spec => []TokenOutlivesRotation
<1>1. IndInv => TokenOutlivesRotation
  <2> SUFFICES ASSUME Safe, up, tok # None PROVE GetKey(tok.id)
    BY DEF TokenOutlivesRotation, IndInv
  <2>1. /\ now \in Nat /\ RetainFor \in Nat /\ TokenLife \in Nat
        /\ \A i \in DOMAIN file : file[i].born \in Nat
    BY NumbersOf, KeyFields, TimesAssumption DEF Safe
  <2>2. tok.issued \in Nat /\ now < tok.issued + TokenLife
    BY DEF Safe, TypeOK, TokenInv
  <2>3. PICK i \in DOMAIN file :
            file[i].id = tok.id /\ file[i].born + RetainFor + 1 >= tok.issued + TokenLife
    BY DEF Safe, TokenInv, Lasting
  <2>4. file[i].born + RetainFor >= now
    BY <2>1, <2>2, <2>3
  <2>5. Saved(file[i], keys)
    BY <2>4 DEF Safe, MemoryInv, Kept
  <2> QED
    BY <2>3, <2>5 DEF Saved, GetKey, KeyIDs
<1> QED
  BY <1>1, Inductive, PTL

\* As long as every key parses, a service that caches the answer of ServeJWKS for
\* CacheFor recognizes the key of every token that CreateToken makes meanwhile.
THEOREM CachesKnow == Spec => []CachesKnowNewTokens
<1>1. IndInv => CachesKnowNewTokens
  BY DEF IndInv, Safe, TokenInv, CachesKnowNewTokens
<1> QED
  BY <1>1, Inductive, PTL

\* CreateToken finds a key of every type whenever the process is up, whatever fails
\* to parse, to be saved or to run, unless the key of that type that is as recent as
\* any in memory is one that did not parse.
THEOREM KeysToSign == Spec => []CanSign
<1>1. IndInv => CanSign
  <2> SUFFICES ASSUME IndInv, up, NEW t \in Types
               PROVE  \/ OfType(t) # {}
                      \/ \E u \in unparsed : u[2] = t /\ \A i \in DOMAIN keys : keys[i].id[1] <= u[1]
    BY DEF CanSign
  <2>1. Whole(keys, unparsed) /\ DOMAIN keys = 1..Len(keys)
    BY NumbersOf DEF IndInv, WholeInv
  <2> QED
    BY <2>1 DEF Whole, OfType
<1> QED
  BY <1>1, Inductive, PTL
====
