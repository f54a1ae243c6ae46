------------------------- MODULE SubscriptionProofs -------------------------
(***************************************************************************)
(* One Bundle per change, for any number of replicas, digests and moves of  *)
(* the source, whatever the caches lag and wherever a reconcile is cut off, *)
(* as long as a digest is found under one tag.                              *)
(*                                                                         *)
(* The names carry the argument.  The generations of a digest's Bundles     *)
(* rise in the order of creation and leave no gap.  A reconcile about to    *)
(* create generation g saw a prefix of the Bundles that holds generation    *)
(* g - 1 and does not end with its digest.  If the newest Bundle were for   *)
(* that digest, it would lie behind the prefix, so generation g would exist *)
(* and the create would meet AlreadyExists.                                 *)
(*                                                                         *)
(* And for one replica: no more Bundles than changes, and none is missed.   *)
(***************************************************************************)
EXTENDS Subscription, TLAPS, WellFoundedInduction

-----------------------------------------------------------------------------
\* A reconcile past the poll knows its digest and tag.
DigestKnown ==
    \A p \in Procs : run[p].pc \in {"list", "create", "patch"} =>
        run[p].digest \in Digests /\ run[p].tag \in Tags

\* Bundles, and creates to come, carry the tag of their digest.
TagKept ==
    /\ \A i \in 1 .. Len(bundles) : bundles[i].tag = tag[bundles[i].digest]
    /\ \A p \in Procs : run[p].pc \in {"list", "create"} => run[p].tag = tag[run[p].digest]

\* A generation is at most the Bundle's place.
GenBound == \A i \in 1 .. Len(bundles) : bundles[i].gen <= i

\* The generations of a digest rise.
Rising ==
    \A i, j \in 1 .. Len(bundles) :
        i < j /\ bundles[i].digest = bundles[j].digest => bundles[i].gen < bundles[j].gen

\* The generations of a digest leave no gap.
NoGap ==
    \A i \in 1 .. Len(bundles) : \A g \in 1 .. bundles[i].gen :
        \E j \in 1 .. i : bundles[j].digest = bundles[i].digest /\ bundles[j].gen = g

\* Generation g of d follows the first n Bundles of bs, the last of which is not d's.
Follows(bs, d, g, n) ==
    /\ \A i \in 1 .. n : bs[i].digest = d => bs[i].gen < g
    /\ g = 1 \/ \E i \in 1 .. n : bs[i].digest = d /\ bs[i].gen = g - 1
    /\ ~(n > 0 /\ bs[n].digest = d)

\* A create to come is for the generation after a prefix the reconcile saw.
CreatesNext ==
    \A p \in Procs : run[p].pc = "create" =>
        /\ run[p].gen # 0
        /\ \E n \in 0 .. Len(bundles) : Follows(bundles, run[p].digest, run[p].gen, n)

TypeInv == TypeOK /\ DigestKnown /\ GenBound /\ CreatesNext

\* The order of the Bundles, which holds while digests keep their tags.
Order == TagKept /\ Rising /\ NoGap /\ Apart

DedupInv == TypeInv /\ ("retag" \notin odd => Order)

-----------------------------------------------------------------------------
\* A non-empty bounded set of naturals has a greatest element, and Max is it.
LEMMA MaxExists ==
    ASSUME NEW S \in SUBSET Nat, S # {}, NEW b \in Nat, \A x \in S : x <= b
    PROVE  Max(S) \in S /\ \A x \in S : x <= Max(S)
<1> DEFINE U == {m \in Nat : \A x \in S : x <= m}
<1> DEFINE R == OpToRel(<, Nat)
<1>1. IsWellFoundedOn(R, Nat)
  BY NatLessThanWellFounded
<1>2. \A y, z \in Nat : <<y, z>> \in R <=> y < z
  BY DEF OpToRel
<1>3. U \subseteq Nat /\ U # {}
  OBVIOUS
<1> HIDE DEF R
<1>4. PICK m \in U : \A y \in U : ~(<<y, m>> \in R)
  <2> HIDE DEF U
  <2> QED BY <1>1, <1>3, WFMin
<1>5. \A y \in U : ~(y < m)
  BY <1>2, <1>3, <1>4
<1>6. m \in S
  <2>1. SUFFICES ASSUME m \notin S PROVE FALSE
    OBVIOUS
  <2>2. \A x \in S : x \in Nat /\ x <= m /\ x # m
    BY <2>1
  <2>3. PICK x \in S : TRUE
    OBVIOUS
  <2>4. m \in Nat /\ m - 1 \in Nat
    BY <2>2, <2>3
  <2>5. m - 1 \in U
    BY <2>2, <2>4
  <2> QED BY <2>4, <2>5, <1>5
<1>7. \E x \in S : \A y \in S : x >= y
  BY <1>6
<1> QED BY <1>7 DEF Max

\* What the type of the Bundles says of each.
LEMMA BundleFields ==
    ASSUME TypeOK
    PROVE  /\ bundles \in Seq(Bundle) /\ Len(bundles) \in Nat /\ DOMAIN bundles = 1 .. Len(bundles)
           /\ \A i \in 1 .. Len(bundles) : bundles[i].digest \in Digests /\ bundles[i].tag \in Tags /\ bundles[i].gen \in Nat \ {0}
<1>1. bundles \in Seq(Bundle)
  BY DEF TypeOK
<1>2. Len(bundles) \in Nat /\ DOMAIN bundles = 1 .. Len(bundles)
  BY <1>1
<1>3. \A i \in 1 .. Len(bundles) : bundles[i] \in Bundle
  BY <1>1
<1> QED BY <1>1, <1>2, <1>3 DEF Bundle

\* The highest generation listed is a number.
LEMMA HighestNat ==
    ASSUME TypeOK, GenBound, NEW d \in Digests, NEW n \in 0 .. Len(bundles)
    PROVE  Highest(d, n) \in Nat
<1>1. n \in Nat /\ \A i \in 1 .. n : bundles[i].gen \in Nat /\ bundles[i].gen <= n
  BY BundleFields DEF GenBound
<1>2. Generations(d, n) \subseteq Nat /\ \A g \in Generations(d, n) : g <= n
  BY <1>1 DEF Generations
<1>3. CASE Generations(d, n) # {}
  <2> HIDE DEF Generations
  <2>1. Max(Generations(d, n)) \in Generations(d, n)
    BY <1>1, <1>2, <1>3, MaxExists
  <2> QED BY <1>2, <1>3, <2>1 DEF Highest
<1> QED BY <1>3 DEF Highest

\* The next generation after the listed Bundles follows them.
LEMMA ListedFollows ==
    ASSUME TypeOK, GenBound, NEW d \in Digests, NEW n \in 0 .. Len(bundles), ~NewestIs(d, n)
    PROVE  Highest(d, n) \in Nat /\ Follows(bundles, d, Highest(d, n) + 1, n)
<1>1. CASE Generations(d, n) = {}
  <2>1. \A i \in 1 .. n : bundles[i].digest # d
    BY <1>1 DEF Generations
  <2>2. Highest(d, n) = 0
    BY <1>1 DEF Highest
  <2> QED BY <2>1, <2>2 DEF Follows, NewestIs
<1>2. CASE Generations(d, n) # {}
  <2>1. \A i \in 1 .. n : bundles[i].gen \in Nat /\ bundles[i].gen <= n
    BY BundleFields DEF GenBound
  <2>2. Generations(d, n) \subseteq Nat /\ \A g \in Generations(d, n) : g <= n
    BY <2>1 DEF Generations
  <2>3. /\ Max(Generations(d, n)) \in Generations(d, n)
        /\ \A g \in Generations(d, n) : g <= Max(Generations(d, n))
    <3>1. n \in Nat
      BY BundleFields
    <3> HIDE DEF Generations
    <3> QED BY <1>2, <2>2, <3>1, MaxExists
  <2>4. Highest(d, n) = Max(Generations(d, n)) /\ Highest(d, n) \in Nat
    BY <1>2, <2>2, <2>3 DEF Highest
  <2>5. PICK i \in 1 .. n : bundles[i].digest = d /\ bundles[i].gen = Highest(d, n)
    BY <2>3, <2>4 DEF Generations
  <2>6. \A j \in 1 .. n : bundles[j].digest = d => bundles[j].gen <= Highest(d, n)
    BY <2>3, <2>4 DEF Generations
  <2>7. \A j \in 1 .. n : bundles[j].digest = d => bundles[j].gen < Highest(d, n) + 1
    BY <2>1, <2>4, <2>6
  <2>8. \E j \in 1 .. n : bundles[j].digest = d /\ bundles[j].gen = (Highest(d, n) + 1) - 1
    BY <2>4, <2>5
  <2> QED BY <2>4, <2>7, <2>8 DEF Follows, NewestIs
<1> QED BY <1>1, <1>2

\* A created Bundle extends the sequence, and its generation is at most its place.
LEMMA CreatedTyped ==
    ASSUME TypeOK, GenBound, NEW d \in Digests, NEW t \in Tags, NEW g \in Nat \ {0},
           NEW n \in 0 .. Len(bundles), Follows(bundles, d, g, n),
           bundles' = Append(bundles, [digest |-> d, tag |-> t, gen |-> g])
    PROVE  /\ bundles' \in Seq(Bundle) /\ Len(bundles') = Len(bundles) + 1
           /\ \A i \in 1 .. Len(bundles) : bundles'[i] = bundles[i]
           /\ bundles'[Len(bundles) + 1] = [digest |-> d, tag |-> t, gen |-> g]
           /\ GenBound'
<1> DEFINE L == Len(bundles)
<1>1. /\ bundles \in Seq(Bundle) /\ L \in Nat
      /\ \A i \in 1 .. L : bundles[i].gen \in Nat \ {0}
  BY BundleFields
<1>2. /\ bundles' \in Seq(Bundle) /\ Len(bundles') = L + 1
      /\ \A i \in 1 .. L : bundles'[i] = bundles[i]
      /\ bundles'[L + 1] = [digest |-> d, tag |-> t, gen |-> g]
  BY <1>1 DEF Bundle
<1>5. g <= L + 1
  <2>1. CASE g = 1
    BY <2>1, <1>1
  <2>2. CASE g # 1
    <3>1. PICK i \in 1 .. n : bundles[i].gen = g - 1
      BY <2>2 DEF Follows
    <3> QED BY <1>1, <3>1 DEF GenBound
  <2> QED BY <2>1, <2>2
<1>6. GenBound'
  <2>1. SUFFICES ASSUME NEW i \in 1 .. L + 1 PROVE bundles'[i].gen <= i
    BY <1>2 DEF GenBound
  <2>2. CASE i \in 1 .. L
    BY <1>2, <2>2 DEF GenBound
  <2>3. CASE i = L + 1
    BY <1>2, <1>5, <2>3
  <2> QED BY <2>1, <2>2, <2>3, <1>1
<1> QED BY <1>2, <1>6

\* A Bundle whose name is free keeps the order of the generations, and the
\* Bundle before it is for another digest.
LEMMA CreatedKeeps ==
    ASSUME TypeOK, GenBound, Rising, NoGap, Apart,
           \A i \in 1 .. Len(bundles) : bundles[i].tag = tag[bundles[i].digest],
           NEW d \in Digests, NEW g \in Nat \ {0}, NEW n \in 0 .. Len(bundles),
           Follows(bundles, d, g, n), ~Named(d, tag[d], g),
           bundles' = Append(bundles, [digest |-> d, tag |-> tag[d], gen |-> g])
    PROVE  Rising' /\ NoGap' /\ Apart'
<1> DEFINE L == Len(bundles)
<1>1. /\ bundles \in Seq(Bundle) /\ L \in Nat /\ DOMAIN bundles = 1 .. L
      /\ \A i \in 1 .. L : bundles[i] \in Bundle
      /\ \A i \in 1 .. L : bundles[i].digest \in Digests /\ bundles[i].gen \in Nat \ {0}
  BY BundleFields
<1>2. /\ bundles' \in Seq(Bundle) /\ Len(bundles') = L + 1
      /\ \A i \in 1 .. L : bundles'[i] = bundles[i]
      /\ bundles'[L + 1].digest = d /\ bundles'[L + 1].gen = g
  <2>1. tag[d] \in Tags
    BY DEF TypeOK
  <2> QED BY <2>1, CreatedTyped
<1>3. \A i \in 1 .. L : bundles[i].digest = d => bundles[i].gen < g
  <2>1. SUFFICES ASSUME NEW i \in 1 .. L, bundles[i].digest = d, ~(bundles[i].gen < g) PROVE FALSE
    OBVIOUS
  <2>2. g \in 1 .. bundles[i].gen
    BY <1>1, <2>1
  <2>3. PICK j \in 1 .. i : bundles[j].digest = d /\ bundles[j].gen = g
    BY <2>1, <2>2 DEF NoGap
  <2>4. j \in DOMAIN bundles /\ bundles[j].tag = tag[d]
    BY <1>1, <2>3
  <2>5. bundles[j] = [digest |-> d, tag |-> tag[d], gen |-> g]
    BY <1>1, <2>3, <2>4 DEF Bundle
  <2> QED BY <2>4, <2>5 DEF Named
<1>4. \A k \in 1 .. g - 1 : \E j \in 1 .. L : bundles[j].digest = d /\ bundles[j].gen = k
  <2>1. SUFFICES ASSUME NEW k \in 1 .. g - 1
                 PROVE  \E j \in 1 .. L : bundles[j].digest = d /\ bundles[j].gen = k
    OBVIOUS
  <2>2. PICK i \in 1 .. n : bundles[i].digest = d /\ bundles[i].gen = g - 1
    BY <2>1 DEF Follows
  <2>3. i \in 1 .. L /\ k \in 1 .. bundles[i].gen
    BY <2>1, <2>2
  <2>4. \E j \in 1 .. i : bundles[j].digest = bundles[i].digest /\ bundles[j].gen = k
    BY <2>3 DEF NoGap
  <2> QED BY <2>2, <2>3, <2>4
<1>7. Rising'
  <2>1. SUFFICES ASSUME NEW i \in 1 .. L + 1, NEW j \in 1 .. L + 1, i < j,
                        bundles'[i].digest = bundles'[j].digest
                 PROVE  bundles'[i].gen < bundles'[j].gen
    BY <1>2 DEF Rising
  <2>2. i \in 1 .. L
    BY <1>1, <2>1
  <2>3. CASE j \in 1 .. L
    BY <1>2, <2>1, <2>2, <2>3 DEF Rising
  <2>4. CASE j = L + 1
    BY <1>2, <1>3, <2>1, <2>2, <2>4
  <2>5. j \in 1 .. L \/ j = L + 1
    BY <1>1
  <2> QED BY <2>3, <2>4, <2>5
<1>8. NoGap'
  <2>1. SUFFICES ASSUME NEW i \in 1 .. L + 1, NEW k \in 1 .. bundles'[i].gen
                 PROVE  \E j \in 1 .. i : bundles'[j].digest = bundles'[i].digest /\ bundles'[j].gen = k
    BY <1>2 DEF NoGap
  <2>2. CASE i \in 1 .. L
    <3>1. PICK j \in 1 .. i : bundles[j].digest = bundles[i].digest /\ bundles[j].gen = k
      BY <1>2, <2>1, <2>2 DEF NoGap
    <3>2. j \in 1 .. L
      BY <2>2, <3>1
    <3> QED BY <1>2, <2>2, <3>1, <3>2
  <2>3. CASE i = L + 1
    <3>1. CASE k = g
      BY <1>1, <1>2, <2>3, <3>1
    <3>2. CASE k # g
      <4>1. k \in 1 .. g - 1
        BY <1>2, <2>1, <2>3, <3>2
      <4>2. PICK j \in 1 .. L : bundles[j].digest = d /\ bundles[j].gen = k
        BY <1>4, <4>1
      <4>3. j \in 1 .. i /\ bundles'[j] = bundles[j]
        BY <1>1, <1>2, <2>3, <4>2
      <4> QED BY <1>2, <2>3, <4>2, <4>3
    <3> QED BY <3>1, <3>2
  <2> QED BY <2>1, <2>2, <2>3, <1>1
<1>9. L = 0 \/ bundles[L].digest # d
  <2>1. SUFFICES ASSUME L # 0, bundles[L].digest = d PROVE FALSE
    OBVIOUS
  <2>2. L \in 1 .. L /\ n < L
    BY <1>1, <2>1 DEF Follows
  <2>3. bundles[L].gen < g
    BY <1>3, <2>1, <2>2
  <2>4. g # 1
    BY <1>1, <2>2, <2>3
  <2>5. PICK i \in 1 .. n : bundles[i].digest = d /\ bundles[i].gen = g - 1
    BY <2>4 DEF Follows
  <2>6. bundles[i].gen < bundles[L].gen
    BY <1>1, <2>1, <2>2, <2>5 DEF Rising
  <2> QED BY <1>1, <2>2, <2>3, <2>5, <2>6
<1>10. Apart'
  <2>1. SUFFICES ASSUME NEW i \in 1 .. L PROVE bundles'[i].digest # bundles'[i + 1].digest
    BY <1>1, <1>2 DEF Apart
  <2>2. CASE i = L
    BY <1>2, <1>9, <2>2, <1>1
  <2>3. CASE i # L
    <3>1. i \in 1 .. L - 1 /\ i + 1 \in 1 .. L
      <4> HIDE DEF L
      <4> QED BY <1>1, <2>3
    <3> QED BY <1>2, <3>1 DEF Apart
  <2> QED BY <2>2, <2>3
<1> QED BY <1>7, <1>8, <1>10

-----------------------------------------------------------------------------
\* What follows a prefix of the Bundles still follows it when more are created.
LEMMA FollowsKept ==
    ASSUME TypeOK, NEW d, NEW g, NEW n \in 0 .. Len(bundles), Follows(bundles, d, g, n),
           \A i \in 1 .. Len(bundles) : bundles'[i] = bundles[i]
    PROVE  Follows(bundles', d, g, n)
<1>1. Len(bundles) \in Nat
  BY BundleFields
<1>2. \A i \in 1 .. n : bundles'[i] = bundles[i]
  BY <1>1
<1>3. n > 0 => bundles'[n] = bundles[n]
  BY <1>1
<1> QED BY <1>2, <1>3 DEF Follows

\* The Bundle is created, or its name was taken: either way the Bundles seen stay.
LEMMA CreatedType ==
    ASSUME TypeInv, NEW p \in Procs, run[p].pc = "create", Created(p)
    PROVE  /\ bundles' \in Seq(Bundle) /\ Len(bundles') \in Nat /\ Len(bundles') >= Len(bundles)
           /\ \A i \in 1 .. Len(bundles) : bundles'[i] = bundles[i]
           /\ GenBound' /\ taken' \in Digests \cup {None}
<1> DEFINE d == run[p].digest
           t == run[p].tag
           g == run[p].gen
<1>1. d \in Digests /\ t \in Tags /\ g \in Nat \ {0}
  <2>1. run[p] \in Run /\ run[p].gen # 0 /\ run[p].digest \in Digests /\ run[p].tag \in Tags
    BY DEF TypeInv, TypeOK, DigestKnown, CreatesNext
  <2> QED BY <2>1 DEF Run
<1>2. PICK n \in 0 .. Len(bundles) : Follows(bundles, d, g, n)
  BY DEF TypeInv, CreatesNext
<1>3. bundles \in Seq(Bundle) /\ Len(bundles) \in Nat
  BY BundleFields DEF TypeInv
<1>4. CASE Named(d, t, g)
  <2>1. UNCHANGED bundles /\ UNCHANGED taken
    BY <1>4 DEF Created
  <2>2. GenBound'
    BY <2>1 DEF TypeInv, GenBound
  <2> QED BY <1>3, <2>1, <2>2 DEF TypeInv, TypeOK
<1>5. CASE ~Named(d, t, g)
  <2>1. bundles' = Append(bundles, [digest |-> d, tag |-> t, gen |-> g]) /\ taken' = d
    BY <1>5 DEF Created
  <2>2. TypeOK /\ GenBound
    BY DEF TypeInv
  <2>3. /\ bundles' \in Seq(Bundle) /\ Len(bundles') = Len(bundles) + 1
        /\ \A i \in 1 .. Len(bundles) : bundles'[i] = bundles[i]
        /\ GenBound'
    <3> HIDE DEF d, t, g
    <3> QED BY <1>1, <1>2, <2>1, <2>2, CreatedTyped
  <2> QED BY <1>1, <1>3, <2>1, <2>3
<1> QED BY <1>4, <1>5

\* The caches and the creates to come after a Bundle was created.
LEMMA CreateType ==
    ASSUME TypeInv, NEW p \in Procs, run[p].pc = "create", Created(p),
           NEW c \in {"patch", "idle"}, run' = [run EXCEPT ![p].pc = c],
           UNCHANGED <<head, tag, shown, had, sub, cached, known, rejected, moves, edits>>,
           odd' \subseteq {"back", "retag", "cut"}
    PROVE  TypeInv'
<1>1. /\ bundles' \in Seq(Bundle) /\ Len(bundles') \in Nat /\ Len(bundles') >= Len(bundles)
      /\ \A i \in 1 .. Len(bundles) : bundles'[i] = bundles[i]
      /\ GenBound' /\ taken' \in Digests \cup {None}
  BY CreatedType
<1>2. Len(bundles) \in Nat
  BY DEF TypeInv, TypeOK
<1>3. run' \in [Procs -> Run]
  <2>1. [run[p] EXCEPT !.pc = c] \in Run
    BY DEF TypeInv, TypeOK, Run
  <2> QED BY <2>1 DEF TypeInv, TypeOK
<1>4. known' \in [Procs -> 0 .. Len(bundles')]
  BY <1>1, <1>2 DEF TypeInv, TypeOK
<1>5. TypeOK'
  BY <1>1, <1>3, <1>4 DEF TypeInv, TypeOK
<1>6. \A q \in Procs : run'[q].gen = run[q].gen /\ run'[q].digest = run[q].digest /\ run'[q].tag = run[q].tag
  BY DEF TypeInv, TypeOK, Run
<1>7. \A q \in Procs : run'[q].pc = "create" => run[q].pc = "create"
  BY DEF TypeInv, TypeOK, Run
<1>8. DigestKnown'
  <2>1. SUFFICES ASSUME NEW q \in Procs, run'[q].pc \in {"list", "create", "patch"}
                 PROVE  run'[q].digest \in Digests /\ run'[q].tag \in Tags
    BY DEF DigestKnown
  <2>2. CASE q = p
    BY <1>6, <2>2 DEF TypeInv, DigestKnown
  <2>3. CASE q # p
    BY <1>6, <2>1, <2>3 DEF TypeInv, TypeOK, DigestKnown
  <2> QED BY <2>2, <2>3
<1>9. CreatesNext'
  <2>1. SUFFICES ASSUME NEW q \in Procs, run'[q].pc = "create"
                 PROVE  /\ run'[q].gen # 0
                        /\ \E n \in 0 .. Len(bundles') : Follows(bundles', run'[q].digest, run'[q].gen, n)
    BY DEF CreatesNext
  <2>2. /\ run[q].gen # 0
        /\ \E n \in 0 .. Len(bundles) : Follows(bundles, run[q].digest, run[q].gen, n)
    BY <1>7, <2>1 DEF TypeInv, CreatesNext
  <2>3. PICK n \in 0 .. Len(bundles) : Follows(bundles, run[q].digest, run[q].gen, n)
    BY <2>2
  <2>4. Follows(bundles', run[q].digest, run[q].gen, n)
    BY <1>1, <2>3, FollowsKept DEF TypeInv
  <2>5. n \in 0 .. Len(bundles')
    BY <1>1, <1>2
  <2> QED BY <1>6, <2>2, <2>4, <2>5
<1> QED BY <1>1, <1>5, <1>8, <1>9 DEF TypeInv

\* A step of a reconcile that leaves the Bundles and sets its own run.
LEMMA RunStep ==
    ASSUME TypeInv, NEW p \in Procs, NEW r \in Run, run' = [run EXCEPT ![p] = r],
           r.pc \in {"list", "create", "patch"} => r.digest \in Digests /\ r.tag \in Tags,
           r.pc = "create" => /\ r.gen # 0
                              /\ \E n \in 0 .. Len(bundles) : Follows(bundles, r.digest, r.gen, n),
           UNCHANGED bundles
    PROVE  run' \in [Procs -> Run] /\ DigestKnown' /\ GenBound' /\ CreatesNext'
<1>1. run \in [Procs -> Run]
  BY DEF TypeInv, TypeOK
<1>2. run' \in [Procs -> Run] /\ run'[p] = r /\ \A q \in Procs \ {p} : run'[q] = run[q]
  BY <1>1
<1>3. DigestKnown'
  BY <1>2 DEF TypeInv, DigestKnown
<1>4. GenBound'
  BY DEF TypeInv, GenBound
<1>5. CreatesNext'
  BY <1>2 DEF TypeInv, CreatesNext
<1> QED BY <1>2, <1>3, <1>4, <1>5

-----------------------------------------------------------------------------
\* The invariant holds at the start.
LEMMA InitInv == Init => DedupInv
<1> SUFFICES ASSUME Init PROVE DedupInv
  OBVIOUS
<1>1. sub \in Object
  BY DEF Init, Object
<1>2. run \in [Procs -> Run]
  BY <1>1 DEF Init, Run
<1>3. bundles \in Seq(Bundle) /\ Len(bundles) = 0
  BY DEF Init
<1>4. moves \in 0 .. MaxMoves /\ edits \in 0 .. MaxEdits
  BY SubscriptionAssumption DEF Init
<1>5. shown \subseteq Digests /\ had \subseteq Selections /\ known \in [Procs -> 0 .. Len(bundles)]
  BY <1>3 DEF Init
<1>6. TypeOK
  BY <1>1, <1>2, <1>3, <1>4, <1>5 DEF Init, TypeOK
<1>7. DigestKnown /\ CreatesNext
  BY DEF Init, DigestKnown, CreatesNext
<1>8. GenBound /\ Rising /\ NoGap /\ Apart
  BY <1>3 DEF GenBound, Rising, NoGap, Apart
<1>9. TagKept
  BY <1>3 DEF Init, TagKept
<1> QED BY <1>6, <1>7, <1>8, <1>9 DEF TypeInv, DedupInv, Order

\* Every step keeps the types, the bound of the generations and what the
\* creates to come follow.
LEMMA NextType == TypeInv /\ [Next]_vars => TypeInv'
<1> SUFFICES ASSUME TypeInv, [Next]_vars PROVE TypeInv'
  OBVIOUS
<1>1. TypeOK
  BY DEF TypeInv
<1>2. Len(bundles) \in Nat
  BY <1>1, BundleFields
<1>3. ASSUME NEW p \in Procs, Begin(p) PROVE TypeInv'
  <2> DEFINE r == [pc |-> "watch", base |-> cached[p], digest |-> None, tag |-> None, gen |-> 0]
  <2>1. r \in Run /\ r.pc = "watch"
    BY <1>1 DEF TypeOK, Run
  <2>2. run' = [run EXCEPT ![p] = r]
    BY <1>1, <1>3 DEF Begin, TypeOK
  <2>3. run' \in [Procs -> Run] /\ DigestKnown' /\ GenBound' /\ CreatesNext'
    <3> HIDE DEF r
    <3> QED BY <1>3, <2>1, <2>2, RunStep DEF Begin
  <2>4. TypeOK'
    BY <1>1, <1>3, <2>3 DEF TypeOK, Begin
  <2> QED BY <2>3, <2>4 DEF TypeInv
<1>4. ASSUME NEW p \in Procs, Watch(p) PROVE TypeInv'
  <2> DEFINE d == head[run[p].base.spec]
             t == tag[d]
             c == IF Baseline(run[p].base) \/ d = run[p].base.seen THEN "patch" ELSE "list"
             r == [run[p] EXCEPT !.digest = d, !.tag = t, !.pc = c]
  <2>1. d \in Digests
    BY <1>1 DEF TypeOK, Run, Object
  <2>2. t \in Tags /\ c \in {"patch", "list"}
    <3> HIDE DEF d
    <3> QED BY <1>1, <2>1 DEF TypeOK
  <2>3. run' = [run EXCEPT ![p] = r]
    BY <1>1, <1>4 DEF Watch, TypeOK
  <2>4. r \in Run /\ r.digest = d /\ r.tag = t /\ r.pc = c
    <3> HIDE DEF d, t, c
    <3> QED BY <1>1, <2>1, <2>2 DEF TypeOK, Run
  <2>5. run' \in [Procs -> Run] /\ DigestKnown' /\ GenBound' /\ CreatesNext'
    <3> HIDE DEF d, t, c, r
    <3> QED BY <1>4, <2>1, <2>2, <2>3, <2>4, RunStep DEF Watch
  <2>6. TypeOK'
    BY <1>1, <1>4, <2>5 DEF TypeOK, Watch
  <2> QED BY <2>5, <2>6 DEF TypeInv
<1>5. ASSUME NEW p \in Procs, createBundle(p) PROVE TypeInv'
  <2> DEFINE d == run[p].digest
             n == known[p]
             c == IF NewestIs(d, n) \/ d \in rejected THEN "patch" ELSE "create"
             h == Highest(d, n) + 1
             r == [run[p] EXCEPT !.pc = c, !.gen = h]
  <2>1. d \in Digests /\ run[p].tag \in Tags /\ n \in 0 .. Len(bundles)
    BY <1>1, <1>5 DEF TypeInv, DigestKnown, createBundle, TypeOK
  <2>2. c \in {"patch", "create"} /\ (c = "create" => ~NewestIs(d, n))
    OBVIOUS
  <2>3. run' = [run EXCEPT ![p] = r]
    BY <1>1, <1>5 DEF createBundle, TypeOK
  <2>4. Highest(d, n) \in Nat
    <3> HIDE DEF d, n
    <3> QED BY <2>1, HighestNat DEF TypeInv
  <2>5. c = "create" => Follows(bundles, d, h, n)
    <3> HIDE DEF d, n, c
    <3> QED BY <2>1, <2>2, ListedFollows DEF TypeInv
  <2>6. r \in Run /\ r.digest = d /\ r.tag = run[p].tag /\ r.pc = c /\ r.gen = h /\ r.gen # 0
    <3>1. run[p] \in Run
      BY <1>1 DEF TypeOK
    <3>2. h \in Nat \ {0}
      <4> HIDE DEF d, n
      <4> QED BY <2>4
    <3> HIDE DEF c, h
    <3> QED BY <2>2, <3>1, <3>2 DEF Run
  <2>7. run' \in [Procs -> Run] /\ DigestKnown' /\ GenBound' /\ CreatesNext'
    <3>1. UNCHANGED bundles
      BY <1>5 DEF createBundle
    <3> HIDE DEF d, n, c, h, r
    <3> QED BY <2>1, <2>3, <2>5, <2>6, <3>1, RunStep
  <2>8. TypeOK'
    BY <1>1, <1>5, <2>7 DEF TypeOK, createBundle
  <2> QED BY <2>7, <2>8 DEF TypeInv
<1>6. ASSUME NEW p \in Procs, Create(p) PROVE TypeInv'
  BY <1>1, <1>6, CreateType DEF Create, TypeOK
<1>7. ASSUME NEW p \in Procs, CreateLost(p) PROVE TypeInv'
  BY <1>1, <1>7, CreateType DEF CreateLost, Ends, TypeOK
<1>8. ASSUME NEW p \in Procs, Ends(p), UNCHANGED bundles
      PROVE  run' \in [Procs -> Run] /\ DigestKnown' /\ GenBound' /\ CreatesNext'
  <2> DEFINE r == [run[p] EXCEPT !.pc = "idle"]
  <2>1. r \in Run /\ r.pc = "idle"
    BY <1>1 DEF TypeOK, Run
  <2>2. run' = [run EXCEPT ![p] = r]
    BY <1>1, <1>8 DEF Ends, TypeOK
  <2> HIDE DEF r
  <2> QED BY <1>8, <2>1, <2>2, RunStep
<1>9. ASSUME NEW p \in Procs, patchStatus(p) PROVE TypeInv'
  <2>1. run' \in [Procs -> Run] /\ DigestKnown' /\ GenBound' /\ CreatesNext'
    BY <1>8, <1>9 DEF patchStatus
  <2>2. run[p].digest \in Digests /\ run[p].base.spec \in Selections
    BY <1>1, <1>9 DEF TypeInv, DigestKnown, patchStatus, TypeOK, Run, Object
  <2>3. sub' \in Object
    BY <1>1, <1>9, <2>2 DEF patchStatus, TypeOK, Object
  <2>4. taken' \in Digests \cup {None}
    BY <1>1, <1>9, <2>2 DEF patchStatus, TypeOK
  <2>5. TypeOK'
    BY <1>1, <1>9, <2>1, <2>3, <2>4 DEF TypeOK, patchStatus
  <2> QED BY <2>1, <2>5 DEF TypeInv
<1>10. ASSUME NEW p \in Procs, writeError(p) \/ Crash(p) PROVE TypeInv'
  <2>1. Ends(p) /\ UNCHANGED <<head, tag, shown, had, sub, cached, bundles, known, rejected, taken, moves, edits>>
       /\ odd' \subseteq {"back", "retag", "cut"}
    BY <1>1, <1>10 DEF TypeOK, writeError, Crash
  <2>2. run' \in [Procs -> Run] /\ DigestKnown' /\ GenBound' /\ CreatesNext'
    BY <1>8, <2>1
  <2>3. TypeOK'
    BY <1>1, <2>1, <2>2 DEF TypeOK
  <2> QED BY <2>2, <2>3 DEF TypeInv
<1>11. ASSUME UNCHANGED <<bundles, run>> PROVE DigestKnown' /\ GenBound' /\ CreatesNext'
  BY <1>11 DEF TypeInv, DigestKnown, GenBound, CreatesNext
<1>12. ASSUME Move PROVE TypeInv'
  <2>1. head' \in [Selections -> Digests] /\ shown' \subseteq Digests
    BY <1>1, <1>12 DEF TypeOK, Move
  <2>2. moves' \in 0 .. MaxMoves
    BY <1>1, <1>12, SubscriptionAssumption DEF TypeOK, Move
  <2>3. TypeOK'
    BY <1>1, <1>12, <2>1, <2>2 DEF TypeOK, Move
  <2> QED BY <1>11, <1>12, <2>3 DEF TypeInv, Move
<1>13. ASSUME Retag PROVE TypeInv'
  <2>1. tag' \in [Digests -> Tags]
    BY <1>1, <1>13 DEF TypeOK, Retag
  <2>2. TypeOK'
    BY <1>1, <1>13, <2>1 DEF TypeOK, Retag
  <2> QED BY <1>11, <1>13, <2>2 DEF TypeInv, Retag
<1>14. ASSUME Edit PROVE TypeInv'
  <2>1. sub' \in Object /\ had' \subseteq Selections
    BY <1>1, <1>14 DEF TypeOK, Edit, Object
  <2>2. edits' \in 0 .. MaxEdits
    BY <1>1, <1>14, SubscriptionAssumption DEF TypeOK, Edit
  <2>3. TypeOK'
    BY <1>1, <1>14, <2>1, <2>2 DEF TypeOK, Edit
  <2> QED BY <1>11, <1>14, <2>3 DEF TypeInv, Edit
<1>15. ASSUME Reject PROVE TypeInv'
  <2>1. rejected' \subseteq Digests
    BY <1>1, <1>15, BundleFields DEF TypeOK, Reject
  <2>2. TypeOK'
    BY <1>1, <1>15, <2>1 DEF TypeOK, Reject
  <2> QED BY <1>11, <1>15, <2>2 DEF TypeInv, Reject
<1>16. ASSUME NEW p \in Procs, SyncCache(p) PROVE TypeInv'
  <2>1. TypeOK'
    BY <1>1, <1>16 DEF TypeOK, SyncCache
  <2> QED BY <1>11, <1>16, <2>1 DEF TypeInv, SyncCache
<1>17. ASSUME NEW p \in Procs, SyncBundles(p) PROVE TypeInv'
  <2>1. known' \in [Procs -> 0 .. Len(bundles)]
    BY <1>1, <1>2, <1>17 DEF TypeOK, SyncBundles
  <2>2. TypeOK'
    BY <1>1, <1>17, <2>1 DEF TypeOK, SyncBundles
  <2> QED BY <1>11, <1>17, <2>2 DEF TypeInv, SyncBundles
<1>18. CASE UNCHANGED vars
  <2>1. TypeOK'
    BY <1>1, <1>18 DEF TypeOK, vars
  <2> QED BY <1>11, <1>18, <2>1 DEF TypeInv, vars
<1> QED BY <1>3, <1>4, <1>5, <1>6, <1>7, <1>9, <1>10, <1>12, <1>13, <1>14, <1>15, <1>16, <1>17, <1>18
        DEF Next

\* What a step of one reconcile does to its run, as far as tags are concerned.
TagStep(p) ==
    /\ \A q \in Procs \ {p} : run'[q] = run[q]
    /\ run'[p].pc \in {"list", "create"} => run'[p].tag = tag[run'[p].digest]

\* A step that leaves the Bundles and the tags keeps their order.
LEMMA OrderKept ==
    ASSUME Order, UNCHANGED <<bundles, tag>>,
           run' = run \/ \E p \in Procs : TagStep(p)
    PROVE  Order'
<1>1. Rising' /\ NoGap' /\ Apart'
  BY DEF Order, Rising, NoGap, Apart
<1>2. TagKept'
  BY DEF Order, TagKept, TagStep
<1> QED BY <1>1, <1>2 DEF Order

\* A Bundle created or found keeps the order of the Bundles and their tags.
LEMMA OrderCreated ==
    ASSUME TypeInv, Order, NEW p \in Procs, run[p].pc = "create", Created(p), TagStep(p), UNCHANGED tag
    PROVE  Order'
<1> DEFINE d == run[p].digest
           g == run[p].gen
           L == Len(bundles)
<1>1. d \in Digests /\ g \in Nat \ {0} /\ run[p].tag = tag[d] /\ tag[d] \in Tags
  <2>1. run[p] \in Run /\ run[p].gen # 0 /\ run[p].digest \in Digests /\ run[p].tag = tag[d]
    BY DEF Order, TypeInv, TypeOK, DigestKnown, CreatesNext, TagKept
  <2> QED BY <2>1 DEF Run, TypeInv, TypeOK
<1>2. PICK n \in 0 .. Len(bundles) : Follows(bundles, d, g, n)
  BY DEF TypeInv, CreatesNext
<1>3. CASE Named(d, tag[d], g)
  BY <1>1, <1>3, OrderKept DEF Created
<1>4. CASE ~Named(d, tag[d], g)
  <2>1. bundles' = Append(bundles, [digest |-> d, tag |-> tag[d], gen |-> g])
    BY <1>1, <1>4 DEF Created
  <2>2. TypeOK /\ GenBound /\ Rising /\ NoGap /\ Apart
        /\ \A i \in 1 .. Len(bundles) : bundles[i].tag = tag[bundles[i].digest]
    BY DEF Order, TypeInv, TagKept
  <2>3. Rising' /\ NoGap' /\ Apart'
    <3> HIDE DEF d, g
    <3> QED BY <1>1, <1>2, <1>4, <2>1, <2>2, CreatedKeeps
  <2>4. /\ L \in Nat /\ Len(bundles') = L + 1
        /\ \A i \in 1 .. L : bundles'[i] = bundles[i]
        /\ bundles'[L + 1] = [digest |-> d, tag |-> tag[d], gen |-> g]
    <3>1. L \in Nat
      BY <2>2, BundleFields
    <3> HIDE DEF d, g
    <3> QED BY <1>1, <1>2, <2>1, <2>2, <3>1, CreatedTyped
  <2>5. \A i \in 1 .. Len(bundles') : bundles'[i].tag = tag'[bundles'[i].digest]
    <3>1. SUFFICES ASSUME NEW i \in 1 .. L + 1 PROVE bundles'[i].tag = tag[bundles'[i].digest]
      BY <2>4
    <3>2. CASE i \in 1 .. L
      BY <2>2, <2>4, <3>2
    <3>3. CASE i = L + 1
      BY <2>4, <3>3
    <3> QED BY <2>4, <3>2, <3>3
  <2>6. TagKept'
    BY <2>5 DEF Order, TagKept, TagStep
  <2> QED BY <2>3, <2>6 DEF Order
<1> QED BY <1>3, <1>4

\* Every step keeps the order of the Bundles, or a digest has got another tag.
LEMMA NextInv == DedupInv /\ [Next]_vars => DedupInv'
<1> SUFFICES ASSUME DedupInv, [Next]_vars PROVE DedupInv'
  OBVIOUS
<1>1. TypeInv /\ TypeInv'
  BY NextType DEF DedupInv
<1>2. run \in [Procs -> Run] /\ \A q \in Procs : run[q] \in Run
  BY <1>1 DEF TypeInv, TypeOK
<1> SUFFICES ASSUME "retag" \notin odd' PROVE Order'
  BY <1>1 DEF DedupInv
<1>0. ~Retag /\ "retag" \notin odd
  BY DEF Next, Begin, Watch, createBundle, Create, CreateLost, patchStatus, writeError, Crash,
         SyncCache, SyncBundles, Move, Retag, Edit, Reject, vars
<1>a. Order
  BY <1>0 DEF DedupInv
<1>3. ASSUME NEW p \in Procs, Begin(p) PROVE Order'
  <2>1. TagStep(p)
    BY <1>2, <1>3 DEF Begin, TagStep
  <2> QED BY <1>3, <2>1, <1>a, OrderKept DEF Begin
<1>4. ASSUME NEW p \in Procs, Watch(p) PROVE Order'
  <2>1. TagStep(p)
    BY <1>2, <1>4 DEF Watch, TagStep, Run
  <2> QED BY <1>4, <2>1, <1>a, OrderKept DEF Watch
<1>5. ASSUME NEW p \in Procs, createBundle(p) PROVE Order'
  <2>1. run[p].tag = tag[run[p].digest]
    BY <1>5, <1>a DEF createBundle, Order, TagKept
  <2>2. run'[p].tag = run[p].tag /\ run'[p].digest = run[p].digest
    BY <1>2, <1>5 DEF createBundle, Run
  <2>3. TagStep(p)
    BY <1>2, <1>5, <2>1, <2>2 DEF createBundle, TagStep
  <2> QED BY <1>5, <2>3, <1>a, OrderKept DEF createBundle
<1>6. ASSUME NEW p \in Procs, Create(p) \/ CreateLost(p)
      PROVE  Order'
  <2>1. TagStep(p) /\ run[p].pc = "create" /\ Created(p) /\ UNCHANGED tag
    BY <1>2, <1>6 DEF Create, CreateLost, Ends, TagStep, Run
  <2> QED BY <1>1, <1>a, <2>1, OrderCreated
<1>7. ASSUME NEW p \in Procs, patchStatus(p) \/ writeError(p) \/ Crash(p)
      PROVE  Order'
  <2>1. TagStep(p) /\ UNCHANGED <<bundles, tag>>
    BY <1>2, <1>7 DEF patchStatus, writeError, Crash, Ends, TagStep, Run
  <2> QED BY <2>1, <1>a, OrderKept
<1>8. ASSUME NEW p \in Procs, SyncCache(p) \/ SyncBundles(p)
      PROVE  Order'
  BY <1>8, <1>a, OrderKept DEF SyncCache, SyncBundles
<1>9. CASE Move \/ Edit \/ Reject
  BY <1>9, <1>a, OrderKept DEF Move, Edit, Reject
<1>10. CASE UNCHANGED vars
  BY <1>10, <1>a, OrderKept DEF vars
<1> QED BY <1>0, <1>3, <1>4, <1>5, <1>6, <1>7, <1>8, <1>9, <1>10 DEF Next

-----------------------------------------------------------------------------
\* Every variable keeps its type; a Bundle always has a digest and a tag of the
\* source and a generation from 1, whatever is polled, cut off and tried again.
THEOREM TypeCorrect == Spec => []TypeOK
<1>1. Init => TypeInv
  BY InitInv DEF DedupInv
<1>2. TypeInv /\ [Next]_vars => TypeInv'
  BY NextType
<1>3. TypeInv => TypeOK
  BY DEF TypeInv
<1> QED BY <1>1, <1>2, <1>3, PTL DEF Spec

\* While digests keep their tags, two Bundles in a row are never for one digest,
\* whatever the number of replicas, the lag of their caches, and the crashes
\* between the poll, the create and the status write.
THEOREM OneBundleInARow == Spec => []NoDuplicate
<1>1. Init => DedupInv
  BY InitInv
<1>2. DedupInv /\ [Next]_vars => DedupInv'
  BY NextInv
<1>3. DedupInv => NoDuplicate
  BY DEF DedupInv, Order, NoDuplicate
<1> QED BY <1>1, <1>2, <1>3, PTL DEF Spec
-----------------------------------------------------------------------------
(* What holds of one replica *)

\* One replica reconciles, the only one or the elected leader.
One == \E p : Procs = {p}

Polled(p) == run[p].pc \in {"list", "create", "patch"}

\* The copies of the Subscription that replica p works with.
CopiesOf(p) == {sub, cached[p], run[p].base}

\* Each Bundle answers a move of its own.  The newest answers the last one, or a move is left
\* for the digest the source shows; a digest that waits for its Bundle has a move of its own, and
\* when the source has moved on since it was polled there is another.
SameSelection == \A p \in Procs : \A o \in CopiesOf(p) : o.spec = sub.spec /\ o.observed \in {None, sub.spec}

BeforeTheFirstMove ==
    moves = 0 => \A p \in Procs :
        /\ \A o \in CopiesOf(p) : o.seen \in {None, head[sub.spec]}
        /\ run[p].pc \notin {"list", "create"}
        /\ run[p].pc = "patch" => run[p].digest = head[sub.spec]

NewestAnswers == moves > 0 /\ Len(bundles) = moves => NewestIs(head[sub.spec], Len(bundles))

MoveIsLeft ==
    \A p \in Procs : run[p].pc \in {"list", "create"} /\ ~NewestIs(run[p].digest, Len(bundles)) =>
        /\ Len(bundles) < moves
        /\ run[p].digest # head[sub.spec] => Len(bundles) + 1 < moves

Counted ==
    Len(bundles) <= moves /\ SameSelection /\ BeforeTheFirstMove /\ NewestAnswers /\ MoveIsLeft

CountInv == edits = 0 /\ "retag" \notin odd => Counted

-----------------------------------------------------------------------------
\* The digest was the last one taken up, is the newest Bundle's or is rejected.
IsTaken(d) == taken = d \/ NewestIs(d, Len(bundles)) \/ d \in rejected

\* A reconcile from caches that are not behind, and never cut off, writes what it took up.
Straight(p) ==
    /\ run[p].pc # "idle" => run[p].base.seen = sub.seen
    /\ run[p].pc \in {"watch", "list", "create"} => known[p] = Len(bundles)
    /\ run[p].pc # "patch" /\ sub.seen # None => IsTaken(sub.seen)
    /\ run[p].pc = "create" =>
         \A i \in 1 .. Len(bundles) : bundles[i].digest = run[p].digest => bundles[i].gen < run[p].gen
    /\ run[p].pc = "patch" => Baseline(run[p].base) \/ IsTaken(run[p].digest)

UncutInv == "cut" \notin odd => \A p \in Procs : Straight(p)

-----------------------------------------------------------------------------
\* Whatever the replica knows of, the source showed and the Subscription selected.
DigestsShown ==
    /\ \A s \in Selections : head[s] \in shown
    /\ \A i \in 1 .. Len(bundles) : bundles[i].digest \in shown
    /\ \A p \in Procs : /\ \A o \in CopiesOf(p) : o.seen \in shown \cup {None}
                        /\ Polled(p) => run[p].digest \in shown

SelectionsHad ==
    \A p \in Procs : \A o \in CopiesOf(p) :
        /\ o.spec \in had /\ o.observed \in had \cup {None}
        /\ o.seen = None <=> o.observed = None
        /\ o.seen # None => sub.seen # None

\* A selection that is not taken back is known to the cache when it was acted on.
CacheFollows(p) ==
    /\ run[p].pc # "idle" /\ run[p].base.spec = sub.spec => cached[p].spec = sub.spec
    /\ sub.observed = sub.spec =>
         cached[p].spec = sub.spec /\ (run[p].pc # "idle" => run[p].base.spec = sub.spec)

\* The digests replica p has heard of.
HeardOf(p) ==
    {bundles[i].digest : i \in 1 .. Len(bundles)} \cup {sub.seen, cached[p].seen}
      \cup {o.seen : o \in IF run[p].pc = "idle" THEN {} ELSE {run[p].base}}

\* A digest that is not shown again is unheard of until it is taken up.
NewOrTaken(p) ==
    /\ Polled(p) /\ run[p].digest # head[run[p].base.spec] => head[run[p].base.spec] \notin HeardOf(p)
    /\ run[p].pc = "patch" => \/ Baseline(run[p].base) \/ run[p].digest = run[p].base.seen
                              \/ run[p].digest \in rejected
                              \/ \E i \in 1 .. Len(bundles) : bundles[i].digest = run[p].digest
    /\ sub.observed = sub.spec => IsTaken(head[sub.spec]) \/ head[sub.spec] \notin HeardOf(p)

ForwardInv ==
    /\ DigestsShown /\ SelectionsHad
    /\ "back" \notin odd => \A p \in Procs : CacheFollows(p) /\ NewOrTaken(p)


-----------------------------------------------------------------------------
(* One replica: what a step does to its run. *)

LEMMA RunTyped ==
    ASSUME TypeOK, NEW p \in Procs
    PROVE  /\ run \in [Procs -> Run] /\ run[p] \in Run /\ cached[p] \in Object /\ run[p].base \in Object
           /\ sub \in Object /\ Len(bundles) \in Nat
BY BundleFields DEF TypeOK, Run

LEMMA BeginRun ==
    ASSUME TypeOK, NEW p \in Procs, Begin(p)
    PROVE  /\ run'[p].pc = "watch" /\ run'[p].base = cached[p] /\ run[p].pc = "idle"
           /\ UNCHANGED <<head, tag, shown, had, sub, cached, bundles, known, rejected, taken, moves, edits>>
BY RunTyped DEF Begin

LEMMA WatchRun ==
    ASSUME TypeOK, NEW p \in Procs, Watch(p)
    PROVE  /\ run[p].pc = "watch" /\ run'[p].base = run[p].base
           /\ run'[p].digest = head[run[p].base.spec] /\ run'[p].digest \in Digests
           /\ IF Baseline(run[p].base) \/ head[run[p].base.spec] = run[p].base.seen
              THEN run'[p].pc = "patch" ELSE run'[p].pc = "list"
           /\ UNCHANGED <<head, tag, shown, had, sub, cached, bundles, known, rejected, taken, moves, edits, odd>>
<1>1. head[run[p].base.spec] \in Digests
  BY RunTyped DEF TypeOK, Object
<1> QED BY <1>1, RunTyped DEF Watch, Run

LEMMA ListRun ==
    ASSUME TypeOK, NEW p \in Procs, createBundle(p)
    PROVE  /\ run[p].pc = "list" /\ run'[p].base = run[p].base /\ run'[p].digest = run[p].digest
           /\ run'[p].gen = Highest(run[p].digest, known[p]) + 1
           /\ IF NewestIs(run[p].digest, known[p]) \/ run[p].digest \in rejected
              THEN run'[p].pc = "patch" ELSE run'[p].pc = "create"
           /\ UNCHANGED <<head, tag, shown, had, sub, cached, bundles, known, rejected, taken, moves, edits, odd>>
BY RunTyped DEF createBundle, Run

LEMMA CreateRun ==
    ASSUME TypeOK, NEW p \in Procs, Create(p) \/ CreateLost(p)
    PROVE  /\ run[p].pc = "create" /\ Created(p)
           /\ run'[p].base = run[p].base /\ run'[p].digest = run[p].digest
           /\ run'[p].pc \in {"idle", "patch"} /\ (run'[p].pc = "idle" => "cut" \in odd')
           /\ odd \subseteq odd' /\ odd' \subseteq odd \cup {"cut"}
           /\ UNCHANGED <<head, tag, shown, had, sub, cached, known, rejected, moves, edits>>
BY RunTyped DEF Create, CreateLost, Ends, Run

LEMMA EndsRun ==
    ASSUME TypeOK, NEW p \in Procs, Ends(p)
    PROVE  run'[p].pc = "idle" /\ run'[p].base = run[p].base /\ run'[p].digest = run[p].digest
BY RunTyped DEF Ends, Run

\* A new Bundle is the newest.
LEMMA CreatedNewest ==
    ASSUME TypeOK, NEW p \in Procs, Created(p)
    PROVE  \/ UNCHANGED <<bundles, taken>> /\ Named(run[p].digest, run[p].tag, run[p].gen)
           \/ /\ ~Named(run[p].digest, run[p].tag, run[p].gen)
              /\ taken' = run[p].digest /\ Len(bundles') = Len(bundles) + 1 /\ Len(bundles) \in Nat
              /\ \A i \in 1 .. Len(bundles) : bundles'[i] = bundles[i]
              /\ bundles'[Len(bundles) + 1].digest = run[p].digest
BY BundleFields DEF Created

\* What an environment that is not the replica's does not touch.
LEMMA OthersRun ==
    ASSUME Move \/ Retag \/ Edit \/ Reject \/ \E p \in Procs : SyncCache(p) \/ SyncBundles(p)
    PROVE  UNCHANGED <<run, bundles, taken>>
BY DEF Move, Retag, Edit, Reject, SyncCache, SyncBundles

-----------------------------------------------------------------------------
(* One Bundle per change. *)

LEMMA CountInit == ASSUME Init PROVE CountInv
<1>1. bundles = <<>> /\ Len(bundles) = 0 /\ moves = 0
  BY DEF Init
<1>2. \A p \in Procs : run[p].pc = "idle" /\ \A o \in CopiesOf(p) : o = sub
  BY DEF Init, CopiesOf
<1>3. sub.seen = None /\ sub.observed = None
  BY DEF Init
<1> QED BY <1>1, <1>2, <1>3 DEF CountInv, Counted, SameSelection, BeforeTheFirstMove, NewestAnswers, MoveIsLeft

\* A step that leaves the Bundles and the moves, and gives the replica no new digest to create.
LEMMA CountKept ==
    ASSUME Counted, One, NEW p \in Procs,
           UNCHANGED <<head, bundles, moves>>, sub'.spec = sub.spec,
           \A o \in CopiesOf(p)' : \/ o \in CopiesOf(p)
                                  \/ /\ o.spec = sub.spec /\ o.observed \in {None, sub.spec}
                                     /\ moves = 0 => o.seen \in {None, head[sub.spec]},
           \/ run'[p].pc \in {"idle", "watch"}
           \/ /\ run'[p].digest = run[p].digest
              /\ run'[p].pc = run[p].pc \/ (run'[p].pc = "create" /\ run[p].pc = "list")
           \/ run'[p].pc = "patch" /\ (moves = 0 => run'[p].digest = head[sub.spec])
    PROVE  Counted'
<1>0. \A q \in Procs : q = p
  BY DEF One
<1>1. SameSelection'
  BY <1>0 DEF Counted, SameSelection
<1>2. BeforeTheFirstMove'
  BY <1>0 DEF Counted, BeforeTheFirstMove
<1>3. NewestAnswers'
  BY DEF Counted, NewestAnswers, NewestIs
<1>4. MoveIsLeft'
  BY <1>0 DEF Counted, MoveIsLeft, NewestIs
<1> QED BY <1>1, <1>2, <1>3, <1>4 DEF Counted

LEMMA CountNext == ASSUME One, DedupInv, CountInv, [Next]_vars PROVE CountInv'
<1> SUFFICES ASSUME edits' = 0, "retag" \notin odd' PROVE Counted'
  BY DEF CountInv
<1>a. TypeOK /\ DedupInv' /\ TypeInv
  BY NextInv DEF DedupInv, TypeInv
<1>b. edits \in Nat /\ moves \in Nat /\ Len(bundles) \in Nat
  BY <1>a, BundleFields DEF TypeOK
<1>0. ~Retag /\ ~Edit /\ "retag" \notin odd /\ edits = 0
  <2>1. ~Retag /\ ~Edit
    BY <1>b DEF Retag, Edit
  <2>2. edits' = edits /\ odd \subseteq odd'
    BY <2>1 DEF Next, Begin, Watch, createBundle, Create, CreateLost, patchStatus, writeError, Crash,
         SyncCache, SyncBundles, Move, Reject, vars
  <2> QED BY <2>1, <2>2
<1>c. Counted
  BY <1>0 DEF CountInv
<1>d. \A p \in Procs : \A o \in CopiesOf(p) : o.spec = sub.spec /\ o.observed \in {None, sub.spec}
  BY <1>c DEF Counted, SameSelection
<1>1. ASSUME NEW p \in Procs, Begin(p) PROVE Counted'
  <2>1. /\ run'[p].pc = "watch" /\ run'[p].base = cached[p]
        /\ UNCHANGED <<head, tag, shown, had, sub, cached, bundles, known, rejected, taken, moves, edits>>
    BY <1>1, <1>a, BeginRun
  <2>2. CopiesOf(p)' \subseteq CopiesOf(p)
    BY <2>1 DEF CopiesOf
  <2> QED BY <1>c, <2>1, <2>2, CountKept
<1>2. ASSUME NEW p \in Procs, Watch(p) PROVE Counted'
  <2> DEFINE d == head[sub.spec]
  <2>1. /\ run[p].pc = "watch" /\ run'[p].base = run[p].base
        /\ run'[p].digest = d
        /\ IF Baseline(run[p].base) \/ d = run[p].base.seen
           THEN run'[p].pc = "patch" ELSE run'[p].pc = "list"
        /\ UNCHANGED <<head, tag, shown, had, sub, cached, bundles, known, rejected, taken, moves, edits, odd>>
    BY <1>2, <1>a, <1>d, WatchRun DEF CopiesOf
  <2>2. CopiesOf(p)' = CopiesOf(p) /\ run[p].base \in CopiesOf(p)
    BY <2>1 DEF CopiesOf
  <2>3. CASE run'[p].pc = "patch"
    BY <1>c, <2>1, <2>2, <2>3, CountKept
  <2>4. CASE run'[p].pc = "list"
    <3>0. \A q \in Procs : q = p
      BY DEF One
    <3>1. d # run[p].base.seen /\ run[p].base.seen # None
      BY <2>1, <2>4 DEF Baseline
    <3>2. moves > 0
      BY <1>b, <1>c, <2>2, <3>1 DEF Counted, BeforeTheFirstMove
    <3>3. SameSelection' /\ BeforeTheFirstMove'
      BY <1>c, <2>1, <2>2, <3>0, <3>2 DEF Counted, SameSelection, BeforeTheFirstMove
    <3>4. NewestAnswers'
      BY <1>c, <2>1 DEF Counted, NewestAnswers, NewestIs
    <3>5. MoveIsLeft'
      <4>1. ~NewestIs(d, Len(bundles)) => Len(bundles) < moves
        BY <1>b, <1>c, <3>2 DEF Counted, NewestAnswers
      <4> QED BY <2>1, <2>4, <3>0, <4>1 DEF MoveIsLeft, NewestIs
    <3> QED BY <1>c, <2>1, <3>3, <3>4, <3>5 DEF Counted
  <2> QED BY <2>1, <2>3, <2>4
<1>3. ASSUME NEW p \in Procs, createBundle(p) PROVE Counted'
  <2>1. /\ run[p].pc = "list" /\ run'[p].base = run[p].base /\ run'[p].digest = run[p].digest
        /\ run'[p].pc \in {"patch", "create"}
        /\ UNCHANGED <<head, tag, shown, had, sub, cached, bundles, known, rejected, taken, moves, edits, odd>>
    BY <1>3, <1>a, ListRun
  <2>2. CopiesOf(p)' = CopiesOf(p)
    BY <2>1 DEF CopiesOf
  <2>3. moves # 0
    BY <1>c, <2>1 DEF Counted, BeforeTheFirstMove
  <2> QED BY <1>c, <2>1, <2>2, <2>3, CountKept
<1>4. ASSUME NEW p \in Procs, Create(p) \/ CreateLost(p) PROVE Counted'
  <2>0. \A q \in Procs : q = p
    BY DEF One
  <2>1. /\ run[p].pc = "create" /\ Created(p)
        /\ run'[p].base = run[p].base /\ run'[p].digest = run[p].digest
        /\ run'[p].pc \in {"idle", "patch"}
        /\ UNCHANGED <<head, tag, shown, had, sub, cached, known, rejected, moves, edits>>
    BY <1>4, <1>a, CreateRun
  <2>2. CopiesOf(p)' = CopiesOf(p)
    BY <2>1 DEF CopiesOf
  <2>3. moves # 0
    BY <1>c, <2>1 DEF Counted, BeforeTheFirstMove
  <2>4. CASE UNCHANGED <<bundles, taken>>
    BY <1>c, <2>1, <2>2, <2>3, <2>4, CountKept
  <2>5. CASE /\ Len(bundles') = Len(bundles) + 1
             /\ \A i \in 1 .. Len(bundles) : bundles'[i] = bundles[i]
             /\ bundles'[Len(bundles) + 1].digest = run[p].digest
    <3> DEFINE L == Len(bundles)
    <3>1. ~NewestIs(run[p].digest, L)
      <4>1. SUFFICES ASSUME L > 0, bundles[L].digest = run[p].digest PROVE FALSE
        BY DEF NewestIs
      <4>2. Apart'
        BY <1>a DEF DedupInv, Order
      <4>3. L \in 1 .. Len(bundles') - 1 /\ L \in 1 .. L
        BY <1>b, <2>5, <4>1
      <4>4. bundles'[L].digest # bundles'[L + 1].digest
        BY <4>2, <4>3 DEF Apart
      <4> QED BY <2>5, <4>1, <4>3, <4>4
    <3>2. L < moves /\ (run[p].digest # head[sub.spec] => L + 1 < moves)
      BY <1>c, <2>1, <3>1 DEF Counted, MoveIsLeft
    <3>3. SameSelection' /\ BeforeTheFirstMove'
      BY <1>c, <2>0, <2>1, <2>2, <2>3 DEF Counted, SameSelection, BeforeTheFirstMove
    <3>4. Len(bundles') <= moves'
      BY <1>b, <2>1, <2>5, <3>2
    <3>5. NewestAnswers'
      <4>1. SUFFICES ASSUME L + 1 = moves PROVE NewestIs(head[sub.spec], Len(bundles))'
        BY <2>1, <2>5 DEF NewestAnswers
      <4>2. run[p].digest = head[sub.spec]
        BY <1>b, <3>2, <4>1
      <4> QED BY <1>b, <2>1, <2>5, <4>2 DEF NewestIs
    <3>6. MoveIsLeft'
      BY <2>0, <2>1 DEF MoveIsLeft
    <3> QED BY <3>3, <3>4, <3>5, <3>6 DEF Counted
  <2> QED BY <1>a, <2>1, <2>4, <2>5, CreatedNewest
<1>5. ASSUME NEW p \in Procs, patchStatus(p) PROVE Counted'
  <2>1. /\ run'[p].pc = "idle" /\ run'[p].base = run[p].base
        /\ UNCHANGED <<head, cached, bundles, moves>>
    BY <1>5, <1>a, EndsRun DEF patchStatus
  <2>2. /\ sub'.spec = sub.spec /\ sub'.seen \in {sub.seen, run[p].digest}
        /\ sub'.observed \in {sub.observed, run[p].base.spec}
    BY <1>5, <1>a DEF patchStatus, TypeOK, Object
  <2>3. sub'.observed \in {None, sub.spec}
    BY <1>d, <2>2 DEF CopiesOf
  <2>4. moves = 0 => sub'.seen \in {None, head[sub.spec]}
    BY <1>5, <1>c, <2>2 DEF patchStatus, Counted, BeforeTheFirstMove, CopiesOf
  <2>5. CopiesOf(p)' \subseteq CopiesOf(p) \cup {sub'}
    BY <2>1 DEF CopiesOf
  <2> QED BY <1>c, <2>1, <2>2, <2>3, <2>4, <2>5, CountKept
<1>6. ASSUME NEW p \in Procs, writeError(p) \/ Crash(p) PROVE Counted'
  <2>1. /\ run'[p].pc = "idle" /\ run'[p].base = run[p].base
        /\ UNCHANGED <<head, sub, cached, bundles, moves>>
    BY <1>6, <1>a, EndsRun DEF writeError, Crash
  <2>2. CopiesOf(p)' = CopiesOf(p)
    BY <2>1 DEF CopiesOf
  <2> QED BY <1>c, <2>1, <2>2, CountKept
<1>7. ASSUME NEW p \in Procs, SyncCache(p) \/ SyncBundles(p) PROVE Counted'
  <2>1. /\ UNCHANGED <<head, sub, bundles, moves, run>> /\ cached'[p] \in {cached[p], sub}
    BY <1>7, <1>a DEF SyncCache, SyncBundles, TypeOK
  <2>2. CopiesOf(p)' \subseteq CopiesOf(p)
    BY <2>1 DEF CopiesOf
  <2>3. /\ run'[p].digest = run[p].digest /\ run'[p].pc = run[p].pc /\ sub'.spec = sub.spec
        /\ UNCHANGED <<head, bundles, moves>>
    BY <2>1
  <2> QED BY <1>c, <2>2, <2>3, CountKept
<1>8. CASE Reject \/ UNCHANGED vars
  <2>1. UNCHANGED <<head, sub, cached, bundles, moves, run>>
    BY <1>8 DEF Reject, vars
  <2>2. SameSelection' /\ BeforeTheFirstMove'
    BY <1>c, <2>1 DEF Counted, SameSelection, BeforeTheFirstMove, CopiesOf
  <2>3. NewestAnswers' /\ MoveIsLeft'
    BY <1>c, <2>1 DEF Counted, NewestAnswers, MoveIsLeft, NewestIs
  <2> QED BY <1>c, <2>1, <2>2, <2>3 DEF Counted
<1>9. CASE Move
  <2>1. UNCHANGED <<sub, cached, bundles, run>> /\ moves' = moves + 1
    BY <1>9 DEF Move
  <2>2. SameSelection'
    BY <1>c, <2>1 DEF Counted, SameSelection, CopiesOf
  <2>3. BeforeTheFirstMove' /\ NewestAnswers'
    BY <1>b, <1>c, <2>1 DEF Counted, BeforeTheFirstMove, NewestAnswers
  <2>4. MoveIsLeft'
    BY <1>b, <1>c, <2>1 DEF Counted, MoveIsLeft, NewestIs
  <2> QED BY <1>b, <1>c, <2>1, <2>2, <2>3, <2>4 DEF Counted
<1> QED BY <1>0, <1>1, <1>2, <1>3, <1>4, <1>5, <1>6, <1>7, <1>8, <1>9 DEF Next

\* Of one replica, while the selection and the tags stay, there are never more Bundles than
\* moves of the source, however the caches lag and wherever a reconcile is cut off.
THEOREM ChangeCounted == ASSUME One PROVE Spec => []OneBundlePerChange
<1> DEFINE Inv == DedupInv /\ CountInv
<1>1. Init => Inv
  BY InitInv, CountInit
<1>2. Inv /\ [Next]_vars => Inv'
  BY NextInv, CountNext
<1>3. Inv => OneBundlePerChange
  BY DEF CountInv, Counted, OneBundlePerChange
<1> QED BY <1>1, <1>2, <1>3, PTL DEF Spec

-----------------------------------------------------------------------------
(* A change is not missed: no reconcile was cut off. *)

LEMMA UncutInit == ASSUME Init PROVE UncutInv
<1>1. \A p \in Procs : run[p].pc = "idle"
  BY DEF Init
<1>2. sub.seen = None
  BY DEF Init
<1> QED BY <1>1, <1>2 DEF UncutInv, Straight

\* What happened stays known.
LEMMA OddKept == ASSUME TypeOK, [Next]_vars PROVE odd \subseteq odd'
BY DEF Next, Begin, Watch, createBundle, Create, CreateLost, patchStatus, writeError, Crash,
       SyncCache, SyncBundles, Move, Retag, Edit, Reject, vars

LEMMA UncutNext == ASSUME One, DedupInv, UncutInv, [Next]_vars PROVE UncutInv'
<1> SUFFICES ASSUME "cut" \notin odd', NEW p \in Procs PROVE Straight(p)'
  BY DEF UncutInv
<1>a. TypeOK /\ GenBound /\ DigestKnown
  BY DEF DedupInv, TypeInv
<1>b. Straight(p) /\ "cut" \notin odd
  BY <1>a, OddKept DEF UncutInv
<1>c. \A q \in Procs : q = p
  BY DEF One
<1>d. /\ run \in [Procs -> Run] /\ run[p] \in Run /\ cached[p] \in Object /\ run[p].base \in Object
      /\ sub \in Object /\ Len(bundles) \in Nat /\ known[p] \in 0 .. Len(bundles)
  BY <1>a, RunTyped DEF TypeOK
<1>1. CASE Begin(p)
  <2>1. cached[p] = sub /\ known[p] = Len(bundles)
    BY <1>1 DEF Begin
  <2>2. /\ run'[p].pc = "watch" /\ run'[p].base = cached[p] /\ run[p].pc = "idle"
        /\ UNCHANGED <<head, tag, shown, had, sub, cached, bundles, known, rejected, taken, moves, edits>>
    BY <1>1, <1>a, BeginRun
  <2> QED BY <1>b, <2>1, <2>2 DEF Straight, IsTaken, NewestIs
<1>2. CASE Watch(p)
  <2>1. /\ run[p].pc = "watch" /\ run'[p].base = run[p].base /\ run'[p].digest = head[run[p].base.spec]
        /\ IF Baseline(run[p].base) \/ head[run[p].base.spec] = run[p].base.seen
           THEN run'[p].pc = "patch" ELSE run'[p].pc = "list"
        /\ UNCHANGED <<head, tag, shown, had, sub, cached, bundles, known, rejected, taken, moves, edits, odd>>
    BY <1>2, <1>a, WatchRun
  <2>2. run[p].base.seen = sub.seen /\ (sub.seen # None => IsTaken(sub.seen)) /\ known[p] = Len(bundles)
    BY <1>b, <2>1 DEF Straight
  <2>3. CASE run'[p].pc = "patch"
    <3>1. Baseline(run[p].base) \/ IsTaken(run'[p].digest)
      BY <2>1, <2>2, <2>3 DEF Baseline
    <3> QED BY <2>1, <2>2, <2>3, <3>1 DEF Straight, IsTaken, NewestIs, Baseline, selectionChanged
  <2>4. CASE run'[p].pc = "list"
    BY <2>1, <2>2, <2>4 DEF Straight, IsTaken, NewestIs
  <2> QED BY <2>1, <2>3, <2>4
<1>3. CASE createBundle(p)
  <2>1. /\ run[p].pc = "list" /\ run'[p].base = run[p].base /\ run'[p].digest = run[p].digest
        /\ run'[p].gen = Highest(run[p].digest, known[p]) + 1
        /\ IF NewestIs(run[p].digest, known[p]) \/ run[p].digest \in rejected
           THEN run'[p].pc = "patch" ELSE run'[p].pc = "create"
        /\ UNCHANGED <<head, tag, shown, had, sub, cached, bundles, known, rejected, taken, moves, edits, odd>>
    BY <1>3, <1>a, ListRun
  <2>2. run[p].base.seen = sub.seen /\ (sub.seen # None => IsTaken(sub.seen)) /\ known[p] = Len(bundles)
    BY <1>b, <2>1 DEF Straight
  <2>3. CASE run'[p].pc = "patch"
    <3>1. IsTaken(run[p].digest)
      BY <2>1, <2>2, <2>3 DEF IsTaken
    <3> QED BY <2>1, <2>2, <2>3, <3>1 DEF Straight, IsTaken, NewestIs
  <2>4. CASE run'[p].pc = "create"
    <3>1. ~NewestIs(run[p].digest, Len(bundles)) /\ run[p].digest \in Digests
      BY <1>a, <2>1, <2>2, <2>4 DEF DigestKnown
    <3>2. Len(bundles) \in 0 .. Len(bundles)
      BY <1>d
    <3>3. Follows(bundles, run[p].digest, Highest(run[p].digest, Len(bundles)) + 1, Len(bundles))
      BY <1>a, <3>1, <3>2, ListedFollows
    <3>4. \A i \in 1 .. Len(bundles) : bundles[i].digest = run[p].digest => bundles[i].gen < run'[p].gen
      BY <2>1, <2>2, <3>3 DEF Follows
    <3> QED BY <2>1, <2>2, <2>4, <3>4 DEF Straight, IsTaken, NewestIs
  <2> QED BY <2>1, <2>3, <2>4
<1>4. CASE Create(p) \/ CreateLost(p)
  <2>1. /\ run[p].pc = "create" /\ Created(p)
        /\ run'[p].base = run[p].base /\ run'[p].digest = run[p].digest
        /\ run'[p].pc = "patch"
        /\ UNCHANGED <<head, tag, shown, had, sub, cached, known, rejected, moves, edits>>
    BY <1>4, <1>a, CreateRun
  <2>2. ~Named(run[p].digest, run[p].tag, run[p].gen)
    <3>1. SUFFICES ASSUME NEW i \in DOMAIN bundles,
                          bundles[i] = [digest |-> run[p].digest, tag |-> run[p].tag, gen |-> run[p].gen]
                   PROVE  FALSE
      BY DEF Named
    <3>2. i \in 1 .. Len(bundles) /\ bundles[i].gen \in Nat
      BY <1>a, BundleFields
    <3>3. bundles[i].digest = run[p].digest /\ bundles[i].gen = run[p].gen
      BY <3>1
    <3>4. bundles[i].gen < run[p].gen
      BY <1>b, <2>1, <3>2, <3>3 DEF Straight
    <3> QED BY <3>2, <3>3, <3>4
  <2>3. taken' = run[p].digest
    BY <2>1, <2>2 DEF Created
  <2>4. run[p].base.seen = sub.seen
    BY <1>b, <2>1 DEF Straight
  <2> QED BY <2>1, <2>3, <2>4 DEF Straight, IsTaken
<1>5. CASE patchStatus(p)
  <2>1. /\ run[p].pc = "patch" /\ run'[p].pc = "idle" /\ UNCHANGED <<bundles, rejected>>
        /\ taken' = IF Baseline(run[p].base) THEN run[p].digest ELSE taken
    BY <1>5, <1>a, EndsRun DEF patchStatus
  <2>2. run[p].base.seen = sub.seen /\ (Baseline(run[p].base) \/ IsTaken(run[p].digest))
    BY <1>b, <2>1 DEF Straight
  <2>3. sub'.seen = run[p].digest
    BY <1>5, <1>d, <2>2 DEF patchStatus, Object
  <2>4. taken' = run[p].digest \/ NewestIs(run[p].digest, Len(bundles)) \/ run[p].digest \in rejected
    BY <2>1, <2>2 DEF IsTaken
  <2> QED BY <2>1, <2>3, <2>4 DEF Straight, IsTaken, NewestIs
<1>6. CASE writeError(p) \/ Crash(p)
  <2>1. run[p].pc # "patch" /\ run'[p].pc = "idle" /\ UNCHANGED <<sub, bundles, rejected, taken>>
    BY <1>6, <1>a, EndsRun DEF writeError, Crash
  <2> QED BY <1>b, <2>1 DEF Straight, IsTaken, NewestIs
<1>7. CASE SyncCache(p) \/ Move \/ Retag \/ Edit \/ Reject \/ UNCHANGED vars
  <2>1. UNCHANGED <<run, bundles, taken, known>> /\ sub'.seen = sub.seen /\ rejected \subseteq rejected'
    BY <1>7, <1>d DEF SyncCache, Move, Retag, Edit, Reject, vars, Object
  <2>2. \A d : IsTaken(d) => IsTaken(d)'
    BY <2>1 DEF IsTaken, NewestIs
  <2> QED BY <1>b, <2>1, <2>2 DEF Straight, Baseline, selectionChanged
<1>8. CASE SyncBundles(p)
  <2>1. UNCHANGED <<run, bundles, taken, sub, rejected>> /\ known[p] < Len(bundles)
    BY <1>8 DEF SyncBundles
  <2>2. run[p].pc \notin {"watch", "list", "create"}
    BY <1>b, <1>d, <2>1 DEF Straight
  <2> QED BY <1>b, <2>1, <2>2 DEF Straight, IsTaken, NewestIs, Baseline, selectionChanged
<1> QED BY <1>c, <1>1, <1>2, <1>3, <1>4, <1>5, <1>6, <1>7, <1>8 DEF Next

-----------------------------------------------------------------------------
(* A change is not missed: the source and the selection never go back. *)

LEMMA ForwardInit == ASSUME Init PROVE ForwardInv
<1>1. \A p \in Procs : /\ run[p].pc = "idle" /\ \A o \in CopiesOf(p) : o = sub
  BY DEF Init, CopiesOf
<1>2. /\ bundles = <<>> /\ sub.seen = None /\ sub.observed = None /\ sub.spec \in Selections
      /\ shown = {head[s] : s \in Selections} /\ had = {sub.spec}
  BY DEF Init
<1>3. DigestsShown
  BY <1>1, <1>2 DEF DigestsShown, Polled
<1>4. SelectionsHad
  BY <1>1, <1>2 DEF SelectionsHad
<1>5. \A p \in Procs : CacheFollows(p) /\ NewOrTaken(p)
  BY <1>1, <1>2, SubscriptionAssumption DEF CacheFollows, NewOrTaken, Polled
<1> QED BY <1>3, <1>4, <1>5 DEF ForwardInv

\* What a status patch of the replica writes.
LEMMA PatchWrites ==
    ASSUME TypeInv, SelectionsHad, NEW p \in Procs, patchStatus(p)
    PROVE  /\ sub'.spec = sub.spec /\ sub'.seen \in {sub.seen, run[p].digest}
           /\ sub'.observed = IF run[p].base.spec = run[p].base.observed THEN sub.observed ELSE run[p].base.spec
           /\ sub'.seen # None /\ sub'.observed # None
           /\ run[p].pc = "patch" /\ run'[p].pc = "idle"
           /\ run'[p].base = run[p].base /\ run'[p].digest = run[p].digest
           /\ taken' = IF Baseline(run[p].base) THEN run[p].digest ELSE taken
           /\ UNCHANGED <<head, tag, shown, had, cached, bundles, known, rejected, moves, edits, odd>>
<1>1. /\ run[p] \in Run /\ run[p].base \in Object /\ sub \in Object /\ run[p].digest \in Digests
      /\ run[p].base.spec \in Selections
  BY RunTyped DEF TypeInv, DigestKnown, patchStatus, Object
<1>2. /\ sub'.spec = sub.spec
      /\ sub'.seen = IF run[p].digest = run[p].base.seen THEN sub.seen ELSE run[p].digest
      /\ sub'.observed = IF run[p].base.spec = run[p].base.observed THEN sub.observed ELSE run[p].base.spec
  BY <1>1 DEF patchStatus, Object
<1>3. /\ sub.seen = None <=> sub.observed = None
      /\ run[p].base.seen = None <=> run[p].base.observed = None
      /\ run[p].base.seen # None => sub.seen # None
  BY DEF SelectionsHad, CopiesOf
<1>4. sub'.seen # None /\ sub'.observed # None
  BY <1>1, <1>2, <1>3, SubscriptionAssumption
<1> QED BY <1>2, <1>4, EndsRun DEF TypeInv, patchStatus

\* What the replica knows of stays among what was shown and selected.
LEMMA ShownNext ==
    ASSUME One, TypeInv, DigestsShown, SelectionsHad, [Next]_vars
    PROVE  DigestsShown' /\ SelectionsHad'
<1>a. TypeOK
  BY DEF TypeInv
<1>b. head \in [Selections -> Digests] /\ shown \subseteq Digests /\ Len(bundles) \in Nat
  BY <1>a, BundleFields DEF TypeOK
\* A step of the replica that shows nothing.
<1>c. ASSUME NEW p \in Procs, UNCHANGED <<head, shown, had, bundles>>, sub'.spec \in had,
             \A o \in CopiesOf(p)' : o \in CopiesOf(p) \/ o = sub',
             sub'.seen \in shown \cup {None}, sub'.observed \in had \cup {None},
             sub'.seen = None <=> sub'.observed = None, sub.seen # None => sub'.seen # None,
             Polled(p)' => run'[p].digest \in shown
      PROVE  DigestsShown' /\ SelectionsHad'
  <2>1. \A q \in Procs : q = p
    BY DEF One
  <2>2. DigestsShown'
    BY <1>c, <2>1 DEF DigestsShown
  <2>3. SelectionsHad'
    BY <1>c, <2>1 DEF SelectionsHad
  <2> QED BY <2>2, <2>3
<1>d. \A p \in Procs : sub \in CopiesOf(p) /\ cached[p] \in CopiesOf(p) /\ run[p].base \in CopiesOf(p)
  BY DEF CopiesOf
<1>e. Procs # {} => /\ sub.spec \in had /\ sub.seen \in shown \cup {None} /\ sub.observed \in had \cup {None}
                    /\ sub.seen = None <=> sub.observed = None
  BY <1>d DEF DigestsShown, SelectionsHad
<1>1. ASSUME NEW p \in Procs, Begin(p) PROVE DigestsShown' /\ SelectionsHad'
  <2>1. /\ run'[p].pc = "watch" /\ run'[p].base = cached[p] /\ run[p].pc = "idle"
        /\ UNCHANGED <<head, tag, shown, had, sub, cached, bundles, known, rejected, taken, moves, edits>>
    BY <1>1, <1>a, BeginRun
  <2>2. \A o \in CopiesOf(p)' : o \in CopiesOf(p)
    BY <2>1 DEF CopiesOf
  <2> QED BY <1>c, <1>e, <2>1, <2>2 DEF Polled
<1>2. ASSUME NEW p \in Procs, Watch(p) PROVE DigestsShown' /\ SelectionsHad'
  <2>1. /\ run[p].pc = "watch" /\ run'[p].base = run[p].base
        /\ run'[p].digest = head[run[p].base.spec]
        /\ UNCHANGED <<head, tag, shown, had, sub, cached, bundles, known, rejected, taken, moves, edits, odd>>
    BY <1>2, <1>a, WatchRun
  <2>2. \A o \in CopiesOf(p)' : o \in CopiesOf(p)
    BY <2>1 DEF CopiesOf
  <2>3. head[run[p].base.spec] \in shown
    BY <1>a, RunTyped DEF DigestsShown, Object
  <2> QED BY <1>c, <1>e, <2>1, <2>2, <2>3
<1>3. ASSUME NEW p \in Procs, createBundle(p) PROVE DigestsShown' /\ SelectionsHad'
  <2>1. /\ run[p].pc = "list" /\ run'[p].base = run[p].base /\ run'[p].digest = run[p].digest
        /\ UNCHANGED <<head, tag, shown, had, sub, cached, bundles, known, rejected, taken, moves, edits, odd>>
    BY <1>3, <1>a, ListRun
  <2>2. \A o \in CopiesOf(p)' : o \in CopiesOf(p)
    BY <2>1 DEF CopiesOf
  <2>3. run[p].digest \in shown
    BY <2>1 DEF DigestsShown, Polled
  <2> QED BY <1>c, <1>e, <2>1, <2>2, <2>3
<1>4. ASSUME NEW p \in Procs, Create(p) \/ CreateLost(p) PROVE DigestsShown' /\ SelectionsHad'
  <2>0. \A q \in Procs : q = p
    BY DEF One
  <2>1. /\ run[p].pc = "create" /\ Created(p)
        /\ run'[p].base = run[p].base /\ run'[p].digest = run[p].digest
        /\ UNCHANGED <<head, tag, shown, had, sub, cached, known, rejected, moves, edits>>
    BY <1>4, <1>a, CreateRun
  <2>2. CopiesOf(p)' = CopiesOf(p)
    BY <2>1 DEF CopiesOf
  <2>3. run[p].digest \in shown
    BY <2>1 DEF DigestsShown, Polled
  <2>4. \A i \in 1 .. Len(bundles') : bundles'[i].digest \in shown
    <3>1. CASE UNCHANGED bundles
      BY <3>1 DEF DigestsShown
    <3>2. CASE /\ Len(bundles') = Len(bundles) + 1
               /\ \A i \in 1 .. Len(bundles) : bundles'[i] = bundles[i]
               /\ bundles'[Len(bundles) + 1].digest = run[p].digest
      <4>1. \A i \in 1 .. Len(bundles) + 1 : i \in 1 .. Len(bundles) \/ i = Len(bundles) + 1
        BY <1>b
      <4> QED BY <2>3, <3>2, <4>1 DEF DigestsShown
    <3> QED BY <1>a, <2>1, <3>1, <3>2, CreatedNewest
  <2>5. DigestsShown'
    BY <2>0, <2>1, <2>2, <2>3, <2>4 DEF DigestsShown
  <2>6. SelectionsHad'
    BY <2>0, <2>1, <2>2 DEF SelectionsHad
  <2> QED BY <2>5, <2>6
<1>5. ASSUME NEW p \in Procs, patchStatus(p) PROVE DigestsShown' /\ SelectionsHad'
  <2>1. /\ sub'.spec = sub.spec /\ sub'.seen \in {sub.seen, run[p].digest}
        /\ sub'.observed \in {sub.observed, run[p].base.spec}
        /\ sub'.seen # None /\ sub'.observed # None
        /\ run[p].pc = "patch" /\ run'[p].pc = "idle" /\ run'[p].base = run[p].base
        /\ UNCHANGED <<head, tag, shown, had, cached, bundles, known, rejected, moves, edits, odd>>
    BY <1>5, PatchWrites
  <2>2. \A o \in CopiesOf(p)' : o \in CopiesOf(p) \/ o = sub'
    BY <2>1 DEF CopiesOf
  <2>3. run[p].digest \in shown /\ run[p].base.spec \in had
    BY <1>d, <2>1 DEF DigestsShown, SelectionsHad, Polled
  <2>4. ~Polled(p)'
    BY <2>1 DEF Polled
  <2> QED BY <1>c, <1>e, <2>1, <2>2, <2>3, <2>4
<1>6. ASSUME NEW p \in Procs, writeError(p) \/ Crash(p) PROVE DigestsShown' /\ SelectionsHad'
  <2>1. /\ run'[p].pc = "idle" /\ run'[p].base = run[p].base
        /\ UNCHANGED <<head, shown, had, sub, cached, bundles>>
    BY <1>6, <1>a, EndsRun DEF writeError, Crash
  <2>2. \A o \in CopiesOf(p)' : o \in CopiesOf(p)
    BY <2>1 DEF CopiesOf
  <2>3. ~Polled(p)'
    BY <2>1 DEF Polled
  <2> QED BY <1>c, <1>e, <2>1, <2>2, <2>3
<1>7. ASSUME NEW p \in Procs, SyncCache(p) \/ SyncBundles(p) PROVE DigestsShown' /\ SelectionsHad'
  <2>1. UNCHANGED <<head, shown, had, sub, bundles, run>> /\ cached'[p] \in {cached[p], sub}
    BY <1>7, <1>a DEF SyncCache, SyncBundles, TypeOK
  <2>2. \A o \in CopiesOf(p)' : o \in CopiesOf(p)
    BY <2>1 DEF CopiesOf
  <2>3. Polled(p)' => run'[p].digest \in shown
    BY <2>1 DEF Polled, DigestsShown
  <2> QED BY <1>c, <1>e, <2>1, <2>2, <2>3
<1>8. CASE Retag \/ Reject \/ UNCHANGED vars
  <2>1. UNCHANGED <<head, shown, had, sub, cached, bundles, run>>
    BY <1>8 DEF Retag, Reject, vars
  <2> QED BY <2>1 DEF DigestsShown, SelectionsHad, CopiesOf, Polled
<1>9. CASE Move
  <2>1. /\ UNCHANGED <<had, sub, cached, bundles, run>> /\ shown \subseteq shown'
        /\ \A s \in Selections : head'[s] \in shown'
    BY <1>9, <1>b DEF Move, DigestsShown
  <2> QED BY <2>1 DEF DigestsShown, SelectionsHad, CopiesOf, Polled
<1>10. CASE Edit
  <2>1. /\ UNCHANGED <<head, shown, cached, bundles, run>> /\ had \subseteq had'
        /\ sub'.spec \in had' /\ sub'.seen = sub.seen /\ sub'.observed = sub.observed
    BY <1>10, <1>a DEF Edit, TypeOK, Object
  <2>2. PICK p \in Procs : \A q \in Procs : q = p
    BY DEF One
  <2>3. \A o \in CopiesOf(p)' : o \in CopiesOf(p) \/ o = sub'
    BY <2>1 DEF CopiesOf
  <2>4. DigestsShown'
    BY <1>e, <2>1, <2>2, <2>3 DEF DigestsShown, Polled
  <2>5. SelectionsHad'
    BY <1>e, <2>1, <2>2, <2>3 DEF SelectionsHad
  <2> QED BY <2>4, <2>5
<1> QED BY <1>1, <1>2, <1>3, <1>4, <1>5, <1>6, <1>7, <1>8, <1>9, <1>10 DEF Next

\* Nothing that is not shown was heard of.
LEMMA NotShownUnknown ==
    ASSUME DigestsShown, NEW p \in Procs, NEW d \in Digests, d \notin shown
    PROVE  d \notin HeardOf(p)
<1>1. d # None
  BY SubscriptionAssumption
<1>2. \A o \in CopiesOf(p) : o.seen # d
  BY <1>1 DEF DigestsShown
<1> QED BY <1>2 DEF DigestsShown, HeardOf, CopiesOf

\* While no selection is taken back, the cache follows the selection acted on.
LEMMA FollowsNext ==
    ASSUME One, TypeInv, SelectionsHad, [Next]_vars, "back" \notin odd', NEW p \in Procs, CacheFollows(p)
    PROVE  CacheFollows(p)'
<1>a. TypeOK /\ \A q \in Procs : q = p
  BY DEF TypeInv, One
<1>1. CASE Begin(p)
  <2>1. /\ run'[p].pc = "watch" /\ run'[p].base = cached[p] /\ UNCHANGED <<sub, cached>>
    BY <1>1, <1>a, BeginRun
  <2> QED BY <2>1 DEF CacheFollows
<1>2. CASE Watch(p) \/ createBundle(p)
  <2>1. run[p].pc # "idle" /\ run'[p].base = run[p].base /\ UNCHANGED <<sub, cached>>
    BY <1>2, <1>a, WatchRun, ListRun
  <2> QED BY <2>1 DEF CacheFollows
<1>3. CASE Create(p) \/ CreateLost(p)
  <2>1. run[p].pc # "idle" /\ run'[p].base = run[p].base /\ UNCHANGED <<sub, cached>>
    BY <1>3, <1>a, CreateRun
  <2> QED BY <2>1 DEF CacheFollows
<1>4. CASE patchStatus(p)
  <2>1. /\ sub'.spec = sub.spec
        /\ sub'.observed = IF run[p].base.spec = run[p].base.observed THEN sub.observed ELSE run[p].base.spec
        /\ run[p].pc = "patch" /\ run'[p].pc = "idle" /\ UNCHANGED cached
    BY <1>4, PatchWrites
  <2> QED BY <2>1 DEF CacheFollows
<1>5. CASE writeError(p) \/ Crash(p)
  <2>1. run'[p].pc = "idle" /\ UNCHANGED <<sub, cached>>
    BY <1>5, <1>a, EndsRun DEF writeError, Crash
  <2> QED BY <2>1 DEF CacheFollows
<1>6. CASE SyncCache(p)
  <2>1. cached'[p] = sub /\ UNCHANGED <<sub, run>>
    BY <1>6, <1>a DEF SyncCache, TypeOK
  <2> QED BY <2>1 DEF CacheFollows
<1>7. CASE Edit
  <2>1. sub'.spec \notin had /\ sub'.spec \in Selections /\ sub'.observed = sub.observed /\ UNCHANGED <<run, cached>>
    BY <1>7, <1>a DEF Edit, TypeOK, Object
  <2>2. run[p].base.spec \in had /\ sub.observed \in had \cup {None}
    BY DEF SelectionsHad, CopiesOf
  <2> QED BY <2>1, <2>2, SubscriptionAssumption DEF CacheFollows
<1>8. CASE SyncBundles(p) \/ Move \/ Retag \/ Reject \/ UNCHANGED vars
  <2>1. UNCHANGED <<sub, cached, run>>
    BY <1>8 DEF SyncBundles, Move, Retag, Reject, vars
  <2> QED BY <2>1 DEF CacheFollows
<1> QED BY <1>a, <1>1, <1>2, <1>3, <1>4, <1>5, <1>6, <1>7, <1>8 DEF Next

\* While no digest is shown again and no selection is taken back, a digest stays unheard of
\* until it is taken up.
LEMMA TakenNext ==
    ASSUME One, TypeInv, DigestsShown, SelectionsHad, [Next]_vars, "back" \notin odd',
           NEW p \in Procs, CacheFollows(p), NewOrTaken(p)
    PROVE  NewOrTaken(p)'
<1>a. TypeOK /\ \A q \in Procs : q = p
  BY DEF TypeInv, One
<1>b. /\ run[p] \in Run /\ run[p].base \in Object /\ sub \in Object /\ Len(bundles) \in Nat
      /\ known[p] \in 0 .. Len(bundles)
  BY <1>a, RunTyped DEF TypeOK
<1>c. Baseline(run[p].base) \/ run[p].base.observed = run[p].base.spec
  <2>1. run[p].base.seen = None <=> run[p].base.observed = None
    BY DEF SelectionsHad, CopiesOf
  <2> QED BY <2>1 DEF Baseline, selectionChanged
<1>1. CASE Begin(p)
  <2>1. /\ run'[p].pc = "watch" /\ run'[p].base = cached[p]
        /\ UNCHANGED <<head, sub, cached, bundles, rejected, taken>>
    BY <1>1, <1>a, BeginRun
  <2> QED BY <2>1 DEF NewOrTaken, HeardOf, IsTaken, NewestIs, Polled
<1>2. CASE Watch(p)
  <2>1. /\ run[p].pc = "watch" /\ run'[p].base = run[p].base /\ run'[p].digest = head[run[p].base.spec]
        /\ IF Baseline(run[p].base) \/ head[run[p].base.spec] = run[p].base.seen
           THEN run'[p].pc = "patch" ELSE run'[p].pc = "list"
        /\ UNCHANGED <<head, tag, shown, had, sub, cached, bundles, known, rejected, taken, moves, edits, odd>>
    BY <1>2, <1>a, WatchRun
  <2>2. Baseline(run[p].base)' <=> Baseline(run[p].base)
    BY <2>1 DEF Baseline, selectionChanged
  <2> QED BY <2>1, <2>2 DEF NewOrTaken, HeardOf, IsTaken, NewestIs, Polled
<1>3. CASE createBundle(p)
  <2>1. /\ run[p].pc = "list" /\ run'[p].base = run[p].base /\ run'[p].digest = run[p].digest
        /\ IF NewestIs(run[p].digest, known[p]) \/ run[p].digest \in rejected
           THEN run'[p].pc = "patch" ELSE run'[p].pc = "create"
        /\ UNCHANGED <<head, tag, shown, had, sub, cached, bundles, known, rejected, taken, moves, edits, odd>>
    BY <1>3, <1>a, ListRun
  <2>2. NewestIs(run[p].digest, known[p]) => \E i \in 1 .. Len(bundles) : bundles[i].digest = run[p].digest
    BY <1>b DEF NewestIs
  <2> QED BY <2>1, <2>2 DEF NewOrTaken, HeardOf, IsTaken, NewestIs, Polled
<1>4. CASE Create(p) \/ CreateLost(p)
  <2> DEFINE L == Len(bundles)
  <2>1. /\ run[p].pc = "create" /\ Created(p)
        /\ run'[p].base = run[p].base /\ run'[p].digest = run[p].digest /\ run'[p].pc \in {"idle", "patch"}
        /\ UNCHANGED <<head, tag, shown, had, sub, cached, known, rejected, moves, edits>>
    BY <1>4, <1>a, CreateRun
  <2>2. CASE UNCHANGED <<bundles, taken>> /\ Named(run[p].digest, run[p].tag, run[p].gen)
    <3>1. \E i \in 1 .. L : bundles[i].digest = run[p].digest
      BY <1>a, <2>2, BundleFields DEF Named
    <3> QED BY <2>1, <2>2, <3>1 DEF NewOrTaken, HeardOf, IsTaken, NewestIs, Polled
  <2>3. CASE /\ taken' = run[p].digest /\ Len(bundles') = L + 1
             /\ \A i \in 1 .. L : bundles'[i] = bundles[i]
             /\ bundles'[L + 1].digest = run[p].digest
    <3>1. \A i \in 1 .. L + 1 : i \in 1 .. L \/ i = L + 1
      BY <1>b
    <3>2. L + 1 \in 1 .. L + 1
      BY <1>b
    <3>3. HeardOf(p)' \subseteq HeardOf(p) \cup {run[p].digest}
      BY <2>1, <2>3, <3>1 DEF HeardOf
    <3>4. \E i \in 1 .. Len(bundles') : bundles'[i].digest = run'[p].digest
      BY <2>1, <2>3, <3>2
    <3>5. run[p].digest # head[run[p].base.spec] => head[run[p].base.spec] \notin HeardOf(p)
      BY <2>1 DEF NewOrTaken, Polled
    <3>6. run[p].digest # head[run[p].base.spec] => head[run[p].base.spec] \notin HeardOf(p)'
      BY <3>3, <3>5
    <3>7. sub.observed = sub.spec => run[p].base.spec = sub.spec
      BY <2>1 DEF CacheFollows
    <3>8. sub.observed = sub.spec => taken' = head[sub.spec] \/ head[sub.spec] \notin HeardOf(p)'
      BY <2>3, <3>6, <3>7
    <3> HIDE DEF L
    <3> QED BY <2>1, <3>4, <3>6, <3>8 DEF NewOrTaken, IsTaken
  <2> QED BY <1>a, <2>1, <2>2, <2>3, CreatedNewest
<1>5. CASE patchStatus(p)
  <2> DEFINE h == head[sub.spec]
  <2>1. /\ sub'.spec = sub.spec /\ sub'.seen \in {sub.seen, run[p].digest}
        /\ sub'.observed = IF run[p].base.spec = run[p].base.observed THEN sub.observed ELSE run[p].base.spec
        /\ run[p].pc = "patch" /\ run'[p].pc = "idle"
        /\ taken' = IF Baseline(run[p].base) THEN run[p].digest ELSE taken
        /\ UNCHANGED <<head, tag, shown, had, cached, bundles, known, rejected, moves, edits, odd>>
    BY <1>5, PatchWrites
  <2>2. SUFFICES ASSUME sub'.observed = sub.spec
                 PROVE  taken' = h \/ NewestIs(h, Len(bundles)) \/ h \in rejected \/ h \notin HeardOf(p)'
    BY <2>1 DEF NewOrTaken, IsTaken, NewestIs, Polled
  <2>3. run[p].base.spec = sub.spec
    BY <2>1, <2>2 DEF CacheFollows
  <2>4. CASE run[p].digest # h
    <3>1. h \notin HeardOf(p)
      BY <2>1, <2>3, <2>4 DEF NewOrTaken, Polled
    <3> QED BY <2>1, <2>4, <3>1 DEF HeardOf
  <2>5. CASE run[p].digest = h /\ ~Baseline(run[p].base)
    <3>1. sub.observed = sub.spec /\ taken' = taken
      BY <1>c, <2>1, <2>2, <2>5
    <3>2. CASE IsTaken(h)
      BY <3>1, <3>2 DEF IsTaken
    <3>3. CASE h \notin HeardOf(p)
      BY <2>1, <2>5, <3>3 DEF NewOrTaken, HeardOf
    <3> QED BY <3>1, <3>2, <3>3 DEF NewOrTaken
  <2> QED BY <2>1, <2>4, <2>5
<1>6. CASE writeError(p) \/ Crash(p)
  <2>1. run'[p].pc = "idle" /\ UNCHANGED <<head, sub, cached, bundles, rejected, taken>>
    BY <1>6, <1>a, EndsRun DEF writeError, Crash
  <2> QED BY <2>1 DEF NewOrTaken, HeardOf, IsTaken, NewestIs, Polled
<1>7. CASE SyncCache(p)
  <2>1. cached'[p] = sub /\ UNCHANGED <<head, sub, run, bundles, rejected, taken>>
    BY <1>7, <1>a DEF SyncCache, TypeOK
  <2>2. HeardOf(p)' \subseteq HeardOf(p)
    BY <2>1 DEF HeardOf
  <2>3. Baseline(run[p].base)' <=> Baseline(run[p].base)
    BY <2>1 DEF Baseline, selectionChanged
  <2> QED BY <2>1, <2>2, <2>3 DEF NewOrTaken, IsTaken, NewestIs, Polled
<1>8. CASE SyncBundles(p) \/ Retag \/ Reject \/ UNCHANGED vars
  <2>1. UNCHANGED <<head, sub, cached, run, bundles, taken>> /\ rejected \subseteq rejected'
    BY <1>8 DEF SyncBundles, Retag, Reject, vars
  <2>2. HeardOf(p)' \subseteq HeardOf(p)
    BY <2>1 DEF HeardOf
  <2>3. Baseline(run[p].base)' <=> Baseline(run[p].base)
    BY <2>1 DEF Baseline, selectionChanged
  <2> QED BY <2>1, <2>2, <2>3 DEF NewOrTaken, IsTaken, NewestIs, Polled
<1>9. CASE Move
  <2>1. PICK s \in Selections, d \in Digests : head' = [head EXCEPT ![s] = d] /\ d \notin shown
    BY <1>9 DEF Move
  <2>2. UNCHANGED <<sub, cached, run, bundles, rejected, taken>>
    BY <1>9 DEF Move
  <2>3. HeardOf(p)' \subseteq HeardOf(p)
    BY <2>2 DEF HeardOf
  <2>4. \A t \in Selections : head'[t] = head[t] \/ head'[t] \notin HeardOf(p)'
    <3>1. d \notin HeardOf(p)
      BY <2>1, NotShownUnknown
    <3>2. \A t \in Selections : head'[t] = IF t = s THEN d ELSE head[t]
      BY <1>a, <2>1 DEF TypeOK
    <3> QED BY <2>3, <3>1, <3>2
  <2>5. run[p].base.spec \in Selections /\ sub.spec \in Selections
    BY <1>b DEF Object
  <2>6. Baseline(run[p].base)' <=> Baseline(run[p].base)
    BY <2>2 DEF Baseline, selectionChanged
  <2>7. Polled(p)' /\ run'[p].digest # head'[run'[p].base.spec] => head'[run'[p].base.spec] \notin HeardOf(p)'
    <3>1. SUFFICES ASSUME Polled(p), run[p].digest # head'[run[p].base.spec]
                   PROVE  head'[run[p].base.spec] \notin HeardOf(p)'
      BY <2>2 DEF Polled
    <3>2. CASE head'[run[p].base.spec] = head[run[p].base.spec]
      BY <2>3, <3>1, <3>2 DEF NewOrTaken
    <3> QED BY <2>4, <2>5, <3>2
  <2>8. sub'.observed = sub'.spec => IsTaken(head[sub.spec])' \/ head'[sub'.spec] \notin HeardOf(p)'
    <3>1. SUFFICES ASSUME sub.observed = sub.spec
                   PROVE  \/ taken = head'[sub.spec] \/ NewestIs(head'[sub.spec], Len(bundles))
                          \/ head'[sub.spec] \in rejected \/ head'[sub.spec] \notin HeardOf(p)'
      BY <2>2 DEF IsTaken, NewestIs
    <3>2. CASE head'[sub.spec] = head[sub.spec]
      BY <2>3, <3>1, <3>2 DEF NewOrTaken, IsTaken
    <3> QED BY <2>4, <2>5, <3>2
  <2> QED BY <2>2, <2>6, <2>7, <2>8 DEF NewOrTaken
<1>10. CASE Edit
  <2>1. sub'.spec \notin had /\ sub'.spec \in Selections /\ sub'.observed = sub.observed /\ sub'.seen = sub.seen
        /\ UNCHANGED <<head, run, cached, bundles, rejected, taken>>
    BY <1>10, <1>a DEF Edit, TypeOK, Object
  <2>2. sub.observed \in had \cup {None}
    BY DEF SelectionsHad, CopiesOf
  <2>3. sub'.observed # sub'.spec
    BY <2>1, <2>2, SubscriptionAssumption
  <2>4. HeardOf(p)' \subseteq HeardOf(p)
    BY <2>1 DEF HeardOf
  <2>5. Baseline(run[p].base)' <=> Baseline(run[p].base)
    BY <2>1 DEF Baseline, selectionChanged
  <2> QED BY <2>1, <2>3, <2>4, <2>5 DEF NewOrTaken, Polled
<1> QED BY <1>a, <1>1, <1>2, <1>3, <1>4, <1>5, <1>6, <1>7, <1>8, <1>9, <1>10 DEF Next

LEMMA ForwardNext == ASSUME One, DedupInv, ForwardInv, [Next]_vars PROVE ForwardInv'
<1>1. TypeInv /\ odd \subseteq odd'
  BY OddKept DEF DedupInv, TypeInv
<1>2. DigestsShown' /\ SelectionsHad'
  BY <1>1, ShownNext DEF ForwardInv
<1>3. ASSUME "back" \notin odd', NEW p \in Procs PROVE CacheFollows(p)' /\ NewOrTaken(p)'
  <2>1. CacheFollows(p) /\ NewOrTaken(p)
    BY <1>1, <1>3 DEF ForwardInv
  <2> QED BY <1>1, <1>3, <2>1, FollowsNext, TakenNext DEF ForwardInv
<1> QED BY <1>2, <1>3 DEF ForwardInv

\* Of one replica a change is not missed: with no reconcile running, a digest that the status
\* says was seen and the source still shows was taken up, has the newest Bundle or is rejected,
\* unless a reconcile was cut off and the source or the selection also went back.
THEOREM NoChangeMissed == ASSUME One PROVE Spec => []SeenIsTaken
<1> DEFINE Inv == DedupInv /\ UncutInv /\ ForwardInv
<1>1. Init => Inv
  BY InitInv, UncutInit, ForwardInit
<1>2. Inv /\ [Next]_vars => Inv'
  BY NextInv, UncutNext, ForwardNext
<1>3. Inv => SeenIsTaken
  <2> SUFFICES ASSUME Inv, \A p \in Procs : run[p].pc = "idle", sub.observed = sub.spec,
                      sub.seen = head[sub.spec], ~({"back", "cut"} \subseteq odd)
               PROVE  IsTaken(head[sub.spec])
    BY DEF SeenIsTaken, Shown, IsTaken
  <2>1. PICK p \in Procs : TRUE
    BY DEF One
  <2>2. sub \in Object /\ head[sub.spec] \in Digests /\ head[sub.spec] # None
    BY SubscriptionAssumption DEF DedupInv, TypeInv, TypeOK, Object
  <2>3. CASE "cut" \notin odd
    BY <2>1, <2>2, <2>3 DEF UncutInv, Straight
  <2>4. CASE "back" \notin odd
    BY <2>1, <2>4 DEF ForwardInv, NewOrTaken, HeardOf
  <2> QED BY <2>3, <2>4
<1> QED BY <1>1, <1>2, <1>3, PTL DEF Spec
====
