--------------------------- MODULE SignedEventProofs ---------------------------
(***************************************************************************)
(* Proofs about what signed events can bring about: the editions of a      *)
(* community's control plane, folded by ControlFold, for every set of      *)
(* editions and members and every fetch of them; and the signed requests   *)
(* that pass both replay caches of RequestReplay, for every set of events, *)
(* tools and broker threads and every skew and lifetime of a cache entry   *)
(* with more than twice the skew to live.                                  *)
(***************************************************************************)
EXTENDS RequestReplay, ControlFold, FiniteSetTheorems, WellFoundedInduction, TLAPS

CONSTANT Limit

(* How the editions are fetched. *)
Fetch == INSTANCE ControlFetch

-----------------------------------------------------------------------------
(* Recursion.                                                              *)

LEMMA Least ==
  ASSUME NEW S \in SUBSET Nat, S # {}
  PROVE  \E x \in S : \A y \in S : x <= y
<1>1. PICK x \in S : \A y \in S : ~ (<<y, x>> \in OpToRel(<, Nat))
  BY NatLessThanWellFounded, WFMin
<1>2. ASSUME NEW y \in S PROVE x <= y
  <2>1. y \in Nat /\ x \in Nat
    OBVIOUS
  <2>2. ~(y < x)
    BY <1>1, <2>1 DEF OpToRel
  <2>3. QED
    BY <2>1, <2>2
<1>3. QED
  BY <1>2

LEMMA Greatest ==
  ASSUME NEW n \in Nat, NEW S \in SUBSET (1..n), S # {}
  PROVE  /\ Max(S) \in S
         /\ \A y \in S : y <= Max(S)
<1> DEFINE T == {n - x : x \in S}
<1>0. \A x \in S : x \in Nat /\ n - x \in Nat
  OBVIOUS
<1>1. T \in SUBSET Nat /\ T # {}
  BY <1>0
<1>2. PICK t \in T : \A u \in T : t <= u
  BY <1>1, Least
<1>3. PICK x \in S : t = n - x
  OBVIOUS
<1>4. ASSUME NEW y \in S PROVE x >= y
  <2>1. n - y \in T
    OBVIOUS
  <2>2. n - x <= n - y /\ x \in Nat /\ y \in Nat
    BY <1>0, <1>2, <1>3, <2>1
  <2>3. QED
    BY <2>2
<1>5. QED
  BY <1>4 DEF Max

(* What holds at 0 and passes from each number to the next holds up to N.   *)
LEMMA Climb ==
  ASSUME NEW N \in Nat, NEW S \in SUBSET (0..N), 0 \in S,
         \A n \in 1..N : n - 1 \in S => n \in S
  PROVE  S = 0..N
<1> SUFFICES ASSUME (0..N) \ S # {} PROVE FALSE
  OBVIOUS
<1>1. (0..N) \ S \in SUBSET Nat
  OBVIOUS
<1>2. PICK n \in (0..N) \ S : \A m \in (0..N) \ S : n <= m
  BY <1>1, Least
<1>3. n \in 1..N /\ n - 1 \in 0..N /\ ~(n <= n - 1)
  BY <1>2
<1>4. n - 1 \in S
  BY <1>2, <1>3
<1>5. QED
  BY <1>2, <1>3, <1>4

(* A function defined by what it is at 0 and how each value follows from    *)
(* the one before exists.                                                   *)
Unfolds(f, N, D, a, g) ==
  /\ f \in [0..N -> D]
  /\ f[0] = a
  /\ \A v \in 1..N : f[v] = g[<<v, f[v - 1]>>]

LEMMA Recursion ==
  ASSUME NEW N \in Nat, NEW D, NEW a \in D, NEW g \in [(1..N) \X D -> D]
  PROVE  \E f : Unfolds(f, N, D, a, g)
<1> DEFINE S == {n \in 0..N : \E f : Unfolds(f, n, D, a, g)}
<1>1. 0 \in S
  <2> DEFINE f == [v \in 0..0 |-> a]
  <2>1. f \in [0..0 -> D] /\ f[0] = a
    OBVIOUS
  <2>2. \A v \in 1..0 : f[v] = g[<<v, f[v - 1]>>]
    OBVIOUS
  <2> HIDE DEF f
  <2>3. Unfolds(f, 0, D, a, g)
    BY <2>1, <2>2 DEF Unfolds
  <2>4. QED
    BY <2>3
<1>2. ASSUME NEW n \in 1..N, n - 1 \in S PROVE n \in S
  <2>1. PICK f : Unfolds(f, n - 1, D, a, g)
    BY <1>2
  <2> DEFINE h == [v \in 0..n |-> IF v = n THEN g[<<n, f[n - 1]>>] ELSE f[v]]
  <2>2. /\ f \in [0..(n - 1) -> D]
        /\ f[0] = a
        /\ \A v \in 1..(n - 1) : f[v] = g[<<v, f[v - 1]>>]
    BY <2>1 DEF Unfolds
  <2>3. n - 1 \in 0..(n - 1) /\ f[n - 1] \in D /\ g[<<n, f[n - 1]>>] \in D
    BY <2>2
  <2>4. \A v \in 0..n : v # n => v \in 0..(n - 1)
    OBVIOUS
  <2>5. h \in [0..n -> D]
    BY <2>2, <2>3, <2>4
  <2>6. h[0] = a
    BY <2>2
  <2>7. ASSUME NEW v \in 1..n PROVE h[v] = g[<<v, h[v - 1]>>]
    <3>1. v - 1 \in 0..n /\ v - 1 # n /\ h[v - 1] = f[v - 1]
      OBVIOUS
    <3>2. CASE v = n
      BY <3>1, <3>2
    <3>3. CASE v # n
      <4>1. v \in 1..(n - 1) /\ h[v] = f[v]
        BY <3>3
      <4>2. QED
        BY <2>2, <3>1, <4>1
    <3>4. QED
      BY <3>2, <3>3
  <2> HIDE DEF h
  <2>8. Unfolds(h, n, D, a, g)
    BY <2>5, <2>6, <2>7 DEF Unfolds
  <2>9. QED
    BY <2>8
<1> HIDE DEF S
<1>3. S = 0..N
  <2>1. S \in SUBSET (0..N)
    BY DEF S
  <2>2. QED
    BY <1>1, <1>2, <2>1, Climb
<1>4. N \in S
  BY <1>3
<1>5. QED
  BY <1>4 DEF S

-----------------------------------------------------------------------------
(* Chains.                                                                 *)

LEMMA LowestIs ==
  ASSUME NEW es \in SUBSET Edition, es # {}
  PROVE  /\ Lowest(es) \in es
         /\ \A o \in es : Lowest(es).id <= o.id
<1> DEFINE ids == {o.id : o \in es}
<1>1. ids \in SUBSET Nat /\ ids # {}
  BY EditionAssumption
<1>2. \E x \in ids : \A y \in ids : x <= y
  BY <1>1, Least
<1>3. Min(ids) \in ids /\ \A y \in ids : Min(ids) <= y
  BY <1>2 DEF Min
<1>4. \E e \in es : e.id = Min(ids)
  BY <1>3
<1>5. Lowest(es) \in es /\ Lowest(es).id = Min(ids)
  BY <1>4 DEF Lowest
<1>6. QED
  BY <1>3, <1>5

(* A chain takes one edition, or none, of each version.                     *)
Chains(es) == [0..MaxVersion -> es \cup {Nobody}]

LEMMA NextIs ==
  ASSUME NEW es \in SUBSET Edition, NEW v \in 1..MaxVersion, NEW before
  PROVE  /\ RosterNext(es, v, before) \in es \cup {Nobody}
         /\ ChannelNext(es, v, before) \in es \cup {Nobody}
<1>1. {e \in es : e.version = v /\ Follows(e, before)} \in SUBSET Edition
  OBVIOUS
<1>2. {e \in es : e.version = v} \in SUBSET Edition
  OBVIOUS
<1>3. RosterNext(es, v, before) \in es \cup {Nobody}
  BY <1>1, LowestIs DEF RosterNext
<1>4. ChannelNext(es, v, before) \in es \cup {Nobody}
  BY <1>2, LowestIs DEF ChannelNext
<1>5. QED
  BY <1>3, <1>4

LEMMA RosterChainIs ==
  ASSUME NEW es \in SUBSET Edition
  PROVE  /\ RosterChain(es) \in Chains(es)
         /\ RosterChain(es)[0] = Nobody
         /\ \A v \in 1..MaxVersion :
              RosterChain(es)[v] = RosterNext(es, v, RosterChain(es)[v - 1])
<1> DEFINE D == es \cup {Nobody}
           g == [x \in (1..MaxVersion) \X D |-> RosterNext(es, x[1], x[2])]
           Is(f) == f = [v \in 0..MaxVersion |->
                           IF v = 0 THEN Nobody ELSE RosterNext(es, v, f[v - 1])]
<1>1. MaxVersion \in Nat
  BY EditionAssumption
<1>2. g \in [(1..MaxVersion) \X D -> D]
  BY NextIs
<1>3. \A v \in 1..MaxVersion, d \in D : g[<<v, d>>] = RosterNext(es, v, d)
  OBVIOUS
<1> HIDE DEF g
<1>4. PICK f : Unfolds(f, MaxVersion, D, Nobody, g)
  <2>1. Nobody \in D
    OBVIOUS
  <2>2. QED
    BY <1>1, <1>2, <2>1, Recursion
<1>4a. /\ f \in [0..MaxVersion -> D]
       /\ f[0] = Nobody
       /\ \A v \in 1..MaxVersion : f[v] = g[<<v, f[v - 1]>>]
  BY <1>4 DEF Unfolds
<1>5. \A v \in 1..MaxVersion : f[v] = RosterNext(es, v, f[v - 1])
  <2>1. \A v \in 1..MaxVersion : v - 1 \in 0..MaxVersion
    BY <1>1
  <2>2. QED
    BY <1>3, <1>4a, <2>1
<1>6. \A v \in 0..MaxVersion :
        f[v] = IF v = 0 THEN Nobody ELSE RosterNext(es, v, f[v - 1])
  BY <1>1, <1>4a, <1>5
<1>7. Is(f)
  BY <1>4a, <1>6
<1>8. RosterChain(es) = CHOOSE h : Is(h)
  BY DEF RosterChain
<1>9. Is(RosterChain(es))
  <2> HIDE DEF Is
  <2>1. QED
    BY <1>7, <1>8
<1> DEFINE c == RosterChain(es)
<1>10. c = [v \in 0..MaxVersion |->
              IF v = 0 THEN Nobody ELSE RosterNext(es, v, c[v - 1])]
  BY <1>9
<1> HIDE DEF c
<1>11. c[0] = Nobody /\ \A v \in 1..MaxVersion : c[v] = RosterNext(es, v, c[v - 1])
  BY <1>1, <1>10
<1>12. \A v \in 0..MaxVersion : c[v] \in D
  BY <1>1, <1>11, NextIs
<1>13. c \in [0..MaxVersion -> D]
  BY <1>10, <1>12
<1>14. QED
  BY <1>11, <1>13 DEF c, Chains

LEMMA ChannelChainIs ==
  ASSUME NEW es \in SUBSET Edition
  PROVE  /\ ChannelChain(es) \in Chains(es)
         /\ ChannelChain(es)[0] = Nobody
         /\ \A v \in 1..MaxVersion :
              ChannelChain(es)[v] = ChannelNext(es, v, ChannelChain(es)[v - 1])
<1> DEFINE D == es \cup {Nobody}
           g == [x \in (1..MaxVersion) \X D |-> ChannelNext(es, x[1], x[2])]
           Is(f) == f = [v \in 0..MaxVersion |->
                           IF v = 0 THEN Nobody ELSE ChannelNext(es, v, f[v - 1])]
<1>1. MaxVersion \in Nat
  BY EditionAssumption
<1>2. g \in [(1..MaxVersion) \X D -> D]
  BY NextIs
<1>3. \A v \in 1..MaxVersion, d \in D : g[<<v, d>>] = ChannelNext(es, v, d)
  OBVIOUS
<1> HIDE DEF g
<1>4. PICK f : Unfolds(f, MaxVersion, D, Nobody, g)
  <2>1. Nobody \in D
    OBVIOUS
  <2>2. QED
    BY <1>1, <1>2, <2>1, Recursion
<1>4a. /\ f \in [0..MaxVersion -> D]
       /\ f[0] = Nobody
       /\ \A v \in 1..MaxVersion : f[v] = g[<<v, f[v - 1]>>]
  BY <1>4 DEF Unfolds
<1>5. \A v \in 1..MaxVersion : f[v] = ChannelNext(es, v, f[v - 1])
  <2>1. \A v \in 1..MaxVersion : v - 1 \in 0..MaxVersion
    BY <1>1
  <2>2. QED
    BY <1>3, <1>4a, <2>1
<1>6. \A v \in 0..MaxVersion :
        f[v] = IF v = 0 THEN Nobody ELSE ChannelNext(es, v, f[v - 1])
  BY <1>1, <1>4a, <1>5
<1>7. Is(f)
  BY <1>4a, <1>6
<1>8. ChannelChain(es) = CHOOSE h : Is(h)
  BY DEF ChannelChain
<1>9. Is(ChannelChain(es))
  <2> HIDE DEF Is
  <2>1. QED
    BY <1>7, <1>8
<1> DEFINE c == ChannelChain(es)
<1>10. c = [v \in 0..MaxVersion |->
              IF v = 0 THEN Nobody ELSE ChannelNext(es, v, c[v - 1])]
  BY <1>9
<1> HIDE DEF c
<1>11. c[0] = Nobody /\ \A v \in 1..MaxVersion : c[v] = ChannelNext(es, v, c[v - 1])
  BY <1>1, <1>10
<1>12. \A v \in 0..MaxVersion : c[v] \in D
  BY <1>1, <1>11, NextIs
<1>13. c \in [0..MaxVersion -> D]
  BY <1>10, <1>12
<1>14. QED
  BY <1>11, <1>13 DEF c, Chains

(* The newest of a chain is the last of its editions. *)
LEMMA NewestIs ==
  ASSUME NEW es \in SUBSET Edition, NEW chain \in Chains(es), chain[0] = Nobody,
         Newest(chain) # Nobody
  PROVE  \E m \in 1..MaxVersion :
           /\ Newest(chain) = chain[m] /\ chain[m] \in es
           /\ \A v \in (m + 1)..MaxVersion : chain[v] = Nobody
<1> DEFINE some == {v \in DOMAIN chain : chain[v] # Nobody}
<1>1. MaxVersion \in Nat
  BY EditionAssumption
<1>2. DOMAIN chain = 0..MaxVersion /\ \A v \in 0..MaxVersion : chain[v] \in es \cup {Nobody}
  BY DEF Chains
<1>3. some \in SUBSET (1..MaxVersion)
  BY <1>1, <1>2
<1>4. some # {}
  BY DEF Newest
<1>5. Newest(chain) = chain[Max(some)]
  BY <1>4 DEF Newest
<1> HIDE DEF some
<1>6. Max(some) \in some /\ \A v \in some : v <= Max(some)
  BY <1>1, <1>3, <1>4, Greatest
<1> DEFINE m == Max(some)
<1>7. m \in 1..MaxVersion /\ chain[m] # Nobody
  BY <1>3, <1>6 DEF some
<1> HIDE DEF m
<1>8. chain[m] \in es
  BY <1>1, <1>2, <1>7
<1>9. ASSUME NEW v \in (m + 1)..MaxVersion PROVE chain[v] = Nobody
  <2>1. v \in 0..MaxVersion /\ ~(v <= m)
    BY <1>1, <1>7
  <2>2. v \notin some
    BY <1>6, <2>1 DEF m
  <2>3. QED
    BY <1>2, <2>1, <2>2 DEF some
<1>10. Newest(chain) = chain[m]
  BY <1>5 DEF m
<1>11. QED
  BY <1>7, <1>8, <1>9, <1>10

(* A head is an edition of its kind and entity, and there is one of each.   *)
LEMMA ChainOfIs ==
  ASSUME NEW es \in SUBSET Edition, NEW kind, NEW n
  PROVE  /\ {e \in Of(kind, es) : e.entity = n} \in SUBSET Edition
         /\ Newest(ChainOf(kind, n, es)) # Nobody =>
              /\ Newest(ChainOf(kind, n, es)) \in Of(kind, es)
              /\ Newest(ChainOf(kind, n, es)).entity = n
<1> DEFINE some == {e \in Of(kind, es) : e.entity = n}
<1>1. some \in SUBSET Edition
  BY DEF Of
<1>2. RosterChain(some) \in Chains(some) /\ RosterChain(some)[0] = Nobody
  BY <1>1, RosterChainIs
<1>3. Newest(RosterChain(some)) # Nobody => Newest(RosterChain(some)) \in some
  BY <1>1, <1>2, NewestIs
<1>4. QED
  BY <1>1, <1>3 DEF ChainOf

LEMMA HeadsAre ==
  ASSUME NEW es \in SUBSET Edition, NEW kind
  PROVE  /\ HeadsOf(kind, es) \subseteq Of(kind, es)
         /\ \A g, h \in HeadsOf(kind, es) : g.entity = h.entity => g = h
         /\ \A g \in HeadsOf(kind, es) : g = Newest(ChainOf(kind, g.entity, es))
<1>1. ASSUME NEW g \in HeadsOf(kind, es)
      PROVE  g \in Of(kind, es) /\ g = Newest(ChainOf(kind, g.entity, es))
  <2>1. PICK n \in Entities(Of(kind, es)) : g = Newest(ChainOf(kind, n, es)) /\ g # Nobody
    BY DEF HeadsOf
  <2>2. QED
    BY <2>1, ChainOfIs
<1>2. QED
  BY <1>1

-----------------------------------------------------------------------------
(* The order of arrival.                                                   *)

Grants(es) == Of("grant", es)

(* OneGrantEach, of any set of editions. *)
OneEach(es) ==
  \A g, h \in Grants(es) : g.content.member = h.content.member => g.entity = h.entity

LEMMA ToSetIs ==
  ASSUME NEW s \in Seq(Edition)
  PROVE  /\ ToSet(s) \in SUBSET Edition
         /\ Len(s) \in Nat /\ DOMAIN s = 1..Len(s)
         /\ \A e : e \in ToSet(s) <=> \E i \in 1..Len(s) : s[i] = e
BY DEF ToSet

(* Where one member has one grant there is no choice between grants. *)
LEMMA MembersAgree ==
  ASSUME NEW s \in Seq(Edition), NEW t \in Seq(Edition), ToSet(s) = ToSet(t),
         OneEach(ToSet(s)), NEW acc \in SUBSET ToSet(s), NEW roles
  PROVE  Members(acc, roles, HeadsOf("grant", acc), s)
           = Members(acc, roles, HeadsOf("grant", acc), t)
<1> DEFINE grants == HeadsOf("grant", acc)
           mine(p) == {g \in grants : g.content.member = p /\ RolesOf(g, roles) # {}}
           Latest(p, q) ==
             CHOOSE g \in mine(p) : \A o \in mine(p) : Came(o, acc, q) <= Came(g, acc, q)
<1>1. acc \in SUBSET Edition /\ grants \subseteq Of("grant", acc)
  BY ToSetIs, HeadsAre
<1>2. ASSUME NEW p, NEW g \in mine(p), NEW h \in mine(p) PROVE g = h
  <2>1. g \in Of("grant", ToSet(s)) /\ h \in Of("grant", ToSet(s))
    BY <1>1 DEF Of
  <2>2. g.entity = h.entity
    BY <2>1 DEF OneEach, Grants
  <2>3. QED
    BY <1>1, <2>2, HeadsAre
<1>3. ASSUME NEW q \in Seq(Edition), acc \subseteq ToSet(q), NEW g \in grants
      PROVE  Came(g, acc, q) <= Came(g, acc, q)
  <2> DEFINE at == {i \in DOMAIN q :
                      q[i] \in acc /\ q[i].kind = "grant" /\ q[i].entity = g.entity}
  <2>1. PICK i \in 1..Len(q) : q[i] = g
    BY <1>1, <1>3, ToSetIs DEF Of
  <2>2. i \in at
    BY <1>1, <2>1, ToSetIs DEF Of
  <2>3. at \in SUBSET Nat /\ at # {}
    BY <2>2, ToSetIs
  <2> HIDE DEF at
  <2>4. Min(at) \in Nat
    BY <2>3, Least DEF Min
  <2>5. QED
    BY <2>4 DEF Came, at
<1>4. ASSUME NEW p, mine(p) # {}
      PROVE  Latest(p, s) = Latest(p, t)
  <2>1. PICK g \in mine(p) : TRUE
    BY <1>4
  <2>2. mine(p) = {g}
    BY <1>2, <2>1
  <2>3. /\ \A o \in mine(p) : Came(o, acc, s) <= Came(g, acc, s)
        /\ \A o \in mine(p) : Came(o, acc, t) <= Came(g, acc, t)
    BY <1>3, <2>2
  <2> HIDE DEF mine
  <2>4. Latest(p, s) \in mine(p) /\ Latest(p, t) \in mine(p)
    BY <2>1, <2>3
  <2>5. QED
    BY <2>2, <2>4
<1> HIDE DEF Latest, mine, grants
<1>5. QED
  BY <1>4 DEF Members, Latest, mine, grants

LEMMA AdmittedAgree ==
  ASSUME NEW s \in Seq(Edition), NEW t \in Seq(Edition), ToSet(s) = ToSet(t),
         OneEach(ToSet(s)), NEW acc \in SUBSET ToSet(s)
  PROVE  Admitted(acc, s) = Admitted(acc, t)
<1>1. Members(acc, HeadsOf("role", acc), HeadsOf("grant", acc), s)
        = Members(acc, HeadsOf("role", acc), HeadsOf("grant", acc), t)
  BY MembersAgree
<1>2. QED
  BY <1>1 DEF Admitted

(* What is accepted after each round. *)
Rounds(after, seq) ==
  /\ after \in [0..RoundsOf(seq) -> SUBSET ToSet(seq)]
  /\ after[0] = SignedBy(Owner, seq)
  /\ \A n \in 1..RoundsOf(seq) : after[n] = after[n - 1] \cup Admitted(after[n - 1], seq)

LEMMA AcceptedIs ==
  ASSUME NEW seq \in Seq(Edition)
  PROVE  \E after : Rounds(after, seq) /\ Accepted(seq) = after[RoundsOf(seq)]
<1> DEFINE N == RoundsOf(seq)
           D == SUBSET ToSet(seq)
           a == SignedBy(Owner, seq)
           g == [x \in (1..N) \X D |-> Round(x[2], seq[x[1]], seq)]
           Is(f) == f = [n \in 0..N |-> IF n = 0 THEN a ELSE Round(f[n - 1], seq[n], seq)]
<1>1. N \in Nat
  BY ToSetIs, EditionAssumption DEF RoundsOf
<1>2. a \in D
  BY DEF SignedBy
<1>3. \A n \in 1..N, d \in D : Round(d, seq[n], seq) = d \cup Admitted(d, seq)
                               /\ Round(d, seq[n], seq) \in D
  BY DEF Round, Admitted
<1>4. g \in [(1..N) \X D -> D]
  <2> HIDE DEF D, N
  <2>1. \A x \in (1..N) \X D : x[1] \in 1..N /\ x[2] \in D
    OBVIOUS
  <2>2. \A x \in (1..N) \X D : Round(x[2], seq[x[1]], seq) \in D
    BY <1>3, <2>1
  <2>3. QED
    BY <2>2
<1>5. \A n \in 1..N, d \in D : g[<<n, d>>] = Round(d, seq[n], seq)
  OBVIOUS
<1> HIDE DEF g, D, a
<1>6. PICK f : Unfolds(f, N, D, a, g)
  BY <1>1, <1>2, <1>4, Recursion
<1>7. /\ f \in [0..N -> D]
      /\ f[0] = a
      /\ \A n \in 1..N : f[n] = g[<<n, f[n - 1]>>]
  BY <1>6 DEF Unfolds
<1> HIDE DEF N
<1>8. \A n \in 1..N : n - 1 \in 0..N /\ f[n - 1] \in D
  BY <1>1, <1>7
<1>9. \A n \in 1..N : f[n] = Round(f[n - 1], seq[n], seq)
  BY <1>5, <1>7, <1>8
<1>10. \A n \in 0..N : f[n] = IF n = 0 THEN a ELSE Round(f[n - 1], seq[n], seq)
  BY <1>1, <1>7, <1>9
<1>11. Is(f)
  BY <1>7, <1>10
<1> DEFINE after == CHOOSE h : Is(h)
<1>12. Is(after)
  <2> HIDE DEF Is
  <2>1. QED
    BY <1>11
<1>13. Accepted(seq) = after[N]
  BY DEF Accepted, N, a
<1> HIDE DEF after
<1>14. after[0] = a /\ \A n \in 1..N : after[n] = Round(after[n - 1], seq[n], seq)
  BY <1>1, <1>12
<1> DEFINE S == {n \in 0..N : after[n] \in D}
<1>15. S = 0..N
  <2>1. 0 \in S
    BY <1>1, <1>2, <1>14
  <2>2. ASSUME NEW n \in 1..N, n - 1 \in S PROVE n \in S
    BY <1>1, <1>3, <1>14, <2>2
  <2>3. S \in SUBSET (0..N)
    OBVIOUS
  <2> HIDE DEF S
  <2>4. QED
    BY <1>1, <2>1, <2>2, <2>3, Climb
<1>16. \A n \in 0..N : after[n] \in D
  BY <1>15
<1>17. after \in [0..N -> D]
  BY <1>12, <1>16
<1>18. \A n \in 1..N : after[n] = after[n - 1] \cup Admitted(after[n - 1], seq)
  <2>1. \A n \in 1..N : n - 1 \in 0..N
    BY <1>1
  <2>2. QED
    BY <1>3, <1>14, <1>16, <2>1
<1>19. Rounds(after, seq)
  BY <1>14, <1>17, <1>18 DEF Rounds, N, D, a
<1>20. QED
  BY <1>13, <1>19 DEF N

LEMMA AcceptedAgree ==
  ASSUME NEW s \in Seq(Edition), NEW t \in Seq(Edition), ToSet(s) = ToSet(t),
         Len(s) = Len(t), OneEach(ToSet(s))
  PROVE  Accepted(s) = Accepted(t) /\ Accepted(s) \in SUBSET ToSet(s)
<1>1. PICK f : Rounds(f, s) /\ Accepted(s) = f[RoundsOf(s)]
  BY AcceptedIs
<1>2. PICK h : Rounds(h, t) /\ Accepted(t) = h[RoundsOf(t)]
  BY AcceptedIs
<1> DEFINE N == RoundsOf(s)
           S == {n \in 0..N : f[n] = h[n]}
<1>3. N \in Nat /\ N = RoundsOf(t)
  BY ToSetIs, EditionAssumption DEF RoundsOf
<1>4. /\ f \in [0..N -> SUBSET ToSet(s)]
      /\ f[0] = SignedBy(Owner, s) /\ h[0] = SignedBy(Owner, t)
      /\ \A n \in 1..N : f[n] = f[n - 1] \cup Admitted(f[n - 1], s)
      /\ \A n \in 1..N : h[n] = h[n - 1] \cup Admitted(h[n - 1], t)
  BY <1>1, <1>2, <1>3 DEF Rounds
<1> HIDE DEF N
<1>5. 0 \in S
  <2>1. SignedBy(Owner, s) = SignedBy(Owner, t)
    BY DEF SignedBy
  <2>2. f[0] = h[0]
    BY <1>4, <2>1
  <2>3. QED
    BY <1>3, <2>2
<1>6. ASSUME NEW n \in 1..N, n - 1 \in S PROVE n \in S
  <2>1. n - 1 \in 0..N /\ f[n - 1] = h[n - 1]
    BY <1>6
  <2>2. f[n - 1] \in SUBSET ToSet(s)
    BY <1>4, <2>1
  <2>3. Admitted(f[n - 1], s) = Admitted(f[n - 1], t)
    BY <2>2, AdmittedAgree
  <2>4. f[n] = h[n]
    BY <1>4, <2>1, <2>3
  <2>5. QED
    BY <1>3, <2>4
<1>7. S = 0..N
  <2>1. S \in SUBSET (0..N)
    OBVIOUS
  <2> HIDE DEF S
  <2>2. QED
    BY <1>3, <1>5, <1>6, <2>1, Climb
<1>8. N \in 0..N
  BY <1>3
<1>9. f[N] = h[N] /\ f[N] \in SUBSET ToSet(s)
  BY <1>4, <1>7, <1>8
<1>10. QED
  BY <1>1, <1>2, <1>3, <1>9 DEF N

(* Two fetches of the same editions show the same channels. *)
LEMMA ChannelsAgree ==
  ASSUME NEW s \in Seq(Edition), NEW t \in Seq(Edition), ToSet(s) = ToSet(t),
         Len(s) = Len(t), OneEach(ToSet(s))
  PROVE  Channels(s) = Channels(t)
<1> DEFINE acc == Accepted(s)
<1>1. acc = Accepted(t) /\ acc \in SUBSET ToSet(s)
  BY AcceptedAgree
<1>2. Members(acc, HeadsOf("role", acc), HeadsOf("grant", acc), s)
        = Members(acc, HeadsOf("role", acc), HeadsOf("grant", acc), t)
  BY <1>1, MembersAgree
<1>3. Entitled(acc, s) = Entitled(acc, t)
  BY <1>2 DEF Entitled
<1>4. Believed(s) = Entitled(acc, s) /\ Believed(t) = Entitled(acc, t)
  BY <1>1 DEF Believed
<1>5. QED
  BY <1>3, <1>4 DEF Channels, ChannelHeads

(* Two neighbours that change places are such a pair of fetches. *)
LEMMA ExchangeChangesNothing == fetched \in Seq(Edition) => OrderDoesNotMatter
<1> SUFFICES ASSUME fetched \in Seq(Edition), OneGrantEach, NEW i \in 1..(Len(fetched) - 1)
             PROVE  Channels(Exchanged(fetched, i)) = Channels(fetched)
  BY DEF OrderDoesNotMatter
<1> DEFINE t == Exchanged(fetched, i)
           N == Len(fetched)
<1>1. N \in Nat /\ DOMAIN fetched = 1..N /\ i \in 1..N /\ i + 1 \in 1..N /\ i # i + 1
  BY ToSetIs
<1>2. \A j \in 1..N : fetched[j] \in Edition
  BY <1>1
<1>3. /\ t \in [1..N -> Edition]
      /\ t[i] = fetched[i + 1] /\ t[i + 1] = fetched[i]
      /\ \A j \in 1..N : j # i /\ j # i + 1 => t[j] = fetched[j]
  BY <1>1, <1>2 DEF Exchanged
<1> HIDE DEF t
<1>4. t \in Seq(Edition) /\ Len(t) = N
  BY <1>1, <1>3
<1>5. ToSet(t) = ToSet(fetched)
  <2>1. ASSUME NEW e \in ToSet(t) PROVE e \in ToSet(fetched)
    BY <1>1, <1>3, <1>4, ToSetIs
  <2>2. ASSUME NEW e \in ToSet(fetched) PROVE e \in ToSet(t)
    <3>1. PICK j \in 1..N : fetched[j] = e
      BY ToSetIs
    <3>2. QED
      BY <1>1, <1>3, <1>4, <3>1, ToSetIs
  <2>3. QED
    BY <2>1, <2>2
<1>6. OneEach(ToSet(t))
  BY <1>5 DEF OneGrantEach, OneEach, Grants
<1>7. QED
  BY <1>4, <1>5, <1>6, ChannelsAgree DEF t


-----------------------------------------------------------------------------
(* The way back.                                                           *)

LEMMA ChannelNextIs ==
  ASSUME NEW es \in SUBSET Edition, NEW v \in 1..MaxVersion, NEW before,
         ChannelNext(es, v, before) # Nobody
  PROVE  LET e == ChannelNext(es, v, before)
         IN /\ e \in es /\ e.version = v /\ Follows(e, before)
            /\ \A o \in es : o.version = v => e.id <= o.id
<1> DEFINE rivals == {e \in es : e.version = v}
<1>1. /\ rivals # {} /\ Follows(Lowest(rivals), before)
      /\ ChannelNext(es, v, before) = Lowest(rivals)
  BY DEF ChannelNext
<1>2. rivals \in SUBSET Edition
  OBVIOUS
<1>3. Lowest(rivals) \in rivals /\ \A o \in rivals : Lowest(rivals).id <= o.id
  BY <1>1, <1>2, LowestIs
<1>4. QED
  BY <1>1, <1>3

LEMMA PathIs ==
  ASSUME NEW es \in SUBSET Edition, Newest(ChannelChain(es)) # Nobody
  PROVE  LET c == Newest(ChannelChain(es))
             chain == ChannelChain(es)
         IN /\ c \in es /\ c.version \in 1..MaxVersion /\ chain[c.version] = c
            /\ chain[1].prev = Nobody
            /\ \A v \in 1..c.version : chain[v] \in es /\ chain[v].version = v
            /\ \A v \in 1..c.version :
                 v # c.version => chain[v + 1].prev = Hash(chain[v])
            /\ \A e \in es : e.version = c.version => c.id <= e.id
<1> DEFINE chain == ChannelChain(es)
           c == Newest(chain)
<1>1. /\ chain \in Chains(es) /\ chain[0] = Nobody
      /\ \A v \in 1..MaxVersion : chain[v] = ChannelNext(es, v, chain[v - 1])
  BY ChannelChainIs
<1>2. MaxVersion \in Nat
  BY EditionAssumption
<1>3. PICK m \in 1..MaxVersion : c = chain[m] /\ chain[m] \in es
  BY <1>1, NewestIs
<1>4. ASSUME NEW v \in 1..MaxVersion, chain[v] # Nobody
      PROVE  /\ chain[v] \in es /\ chain[v].version = v
             /\ Follows(chain[v], chain[v - 1])
             /\ \A o \in es : o.version = v => chain[v].id <= o.id
  BY <1>1, <1>4, ChannelNextIs
<1>5. c # Nobody
  OBVIOUS
<1> HIDE DEF c, chain
<1>6. c.version = m
  BY <1>3, <1>4, <1>5
<1> DEFINE gaps == {v \in 1..m : chain[v] = Nobody}
<1>7. gaps = {}
  <2> SUFFICES ASSUME gaps # {} PROVE FALSE
    OBVIOUS
  <2> DEFINE last == Max(gaps)
  <2>1. m \in Nat /\ gaps \in SUBSET (1..m)
    BY <1>2
  <2> HIDE DEF gaps
  <2>2. last \in gaps /\ \A v \in gaps : v <= last
    BY <2>1, Greatest
  <2> HIDE DEF last
  <2>3. last \in 1..m /\ chain[last] = Nobody /\ last # m
    BY <1>3, <1>5, <2>2 DEF gaps
  <2>4. last + 1 \in 1..m /\ last + 1 \in 1..MaxVersion /\ last + 1 # 1
        /\ (last + 1) - 1 = last /\ ~(last + 1 <= last)
    BY <1>2, <2>3
  <2>5. chain[last + 1] # Nobody
    BY <2>2, <2>4 DEF gaps
  <2>6. Follows(chain[last + 1], chain[last]) /\ chain[last + 1].version = last + 1
    BY <1>4, <2>4, <2>5
  <2>7. QED
    BY <2>3, <2>4, <2>6 DEF Follows
<1>8. ASSUME NEW v \in 1..m
      PROVE  /\ chain[v] \in es /\ chain[v].version = v
             /\ Follows(chain[v], chain[v - 1])
  <2>1. v \in 1..MaxVersion /\ chain[v] # Nobody
    BY <1>2, <1>7
  <2>2. QED
    BY <1>4, <2>1
<1>9. chain[1].prev = Nobody
  <2>1. 1 \in 1..m
    BY <1>2
  <2>2. QED
    BY <1>8, <2>1 DEF Follows
<1>10. ASSUME NEW v \in 1..m, v # m PROVE chain[v + 1].prev = Hash(chain[v])
  <2>1. v + 1 \in 1..m /\ (v + 1) - 1 = v /\ v + 1 # 1
    BY <1>2, <1>10
  <2>2. Follows(chain[v + 1], chain[v]) /\ chain[v + 1].version = v + 1
    BY <1>8, <2>1
  <2>3. QED
    BY <2>1, <2>2 DEF Follows
<1>11. \A e \in es : e.version = m => c.id <= e.id
  BY <1>3, <1>4, <1>5
<1>12. QED
  BY <1>3, <1>6, <1>8, <1>9, <1>10, <1>11 DEF c, chain

LEMMA BelievedIs ==
  ASSUME NEW s \in Seq(Edition)
  PROVE  Believed(s) = Entitled(Accepted(s), s) /\ Believed(s) \in SUBSET Edition
BY ToSetIs DEF Believed, Entitled, Of

(* The chain of a channel, as the way back from its newest edition. *)
LEMMA WayBackIs == fetched \in Seq(Edition) => Unbroken
<1> DEFINE es == Believed(fetched)
<1> SUFFICES ASSUME fetched \in Seq(Edition), NEW c \in ChannelHeads(fetched)
             PROVE
       /\ \E back \in [1..c.version -> es] :
            /\ back[1].prev = Nobody
            /\ \A v \in 1..c.version :
                 /\ back[v].entity = c.entity /\ back[v].version = v
                 /\ IF v = c.version THEN back[v] = c
                    ELSE back[v + 1].prev = Hash(back[v])
       /\ \A e \in es :
            e.entity = c.entity /\ e.version = c.version => c.id <= e.id
  BY DEF Unbroken
<1>1. es \in SUBSET Edition
  BY BelievedIs
<1>2. PICK n \in Entities(es) :
        c = Newest(ChannelChain({e \in es : e.entity = n})) /\ c # Nobody
  BY DEF ChannelHeads
<1> HIDE DEF es
<1> DEFINE some == {e \in es : e.entity = n}
           chain == ChannelChain(some)
           back == [v \in 1..c.version |-> chain[v]]
<1>3. some \in SUBSET Edition
  BY <1>1
<1>4. /\ c \in some /\ c.version \in 1..MaxVersion /\ chain[c.version] = c
      /\ chain[1].prev = Nobody
      /\ \A v \in 1..c.version : chain[v] \in some /\ chain[v].version = v
      /\ \A v \in 1..c.version :
           v # c.version => chain[v + 1].prev = Hash(chain[v])
      /\ \A e \in some : e.version = c.version => c.id <= e.id
  BY <1>2, <1>3, PathIs
<1> HIDE DEF chain
<1>5. c.version \in Nat /\ 1 \in 1..c.version
  BY <1>4, EditionAssumption
<1>6. back \in [1..c.version -> es]
  BY <1>4
<1>7. back[1].prev = Nobody
  BY <1>4, <1>5
<1>8. ASSUME NEW v \in 1..c.version
      PROVE  /\ back[v].entity = c.entity /\ back[v].version = v
             /\ IF v = c.version THEN back[v] = c
                ELSE back[v + 1].prev = Hash(back[v])
  <2>1. back[v] = chain[v] /\ chain[v].entity = n /\ c.entity = n /\ chain[v].version = v
    BY <1>4
  <2>2. CASE v = c.version
    BY <1>4, <2>1, <2>2
  <2>3. CASE v # c.version
    <3>1. v + 1 \in 1..c.version
      BY <1>5, <2>3
    <3>2. back[v + 1] = chain[v + 1]
      BY <3>1
    <3>3. QED
      BY <1>4, <2>1, <2>3, <3>2
  <2>4. QED
    BY <2>2, <2>3, <2>1
<1>9. \A e \in es : e.entity = c.entity /\ e.version = c.version => c.id <= e.id
  BY <1>4
<1> HIDE DEF back
<1>10. QED
  BY <1>6, <1>7, <1>8, <1>9

-----------------------------------------------------------------------------
(* A member dismissed.                                                     *)

LEMMA RosterNextIs ==
  ASSUME NEW es \in SUBSET Edition, NEW v \in 1..MaxVersion, NEW before
  PROVE  LET e == RosterNext(es, v, before)
             next == {o \in es : o.version = v /\ Follows(o, before)}
         IN /\ next = {} => e = Nobody
            /\ next # {} => /\ e \in next /\ e # Nobody
                            /\ \A o \in next : e.id <= o.id
<1> DEFINE next == {o \in es : o.version = v /\ Follows(o, before)}
<1>1. next \in SUBSET Edition
  OBVIOUS
<1>2. next # {} => Lowest(next) \in next /\ \A o \in next : Lowest(next).id <= o.id
  BY <1>1, LowestIs
<1>3. Nobody \notin next
  BY EditionAssumption
<1>4. QED
  BY <1>2, <1>3 DEF RosterNext

(* What two sets of editions agree on, all between them agree on.           *)
LEMMA ChainBetween ==
  ASSUME NEW A, NEW B, NEW C \in SUBSET Edition, A \subseteq B, B \subseteq C,
         RosterChain(A) = RosterChain(C)
  PROVE  RosterChain(B) = RosterChain(C)
<1> DEFINE a == RosterChain(A)
           b == RosterChain(B)
           c == RosterChain(C)
           S == {v \in 0..MaxVersion : b[v] = c[v]}
<1>1. A \in SUBSET Edition /\ B \in SUBSET Edition /\ MaxVersion \in Nat
  BY EditionAssumption
<1>2. /\ a[0] = Nobody
      /\ \A v \in 1..MaxVersion : a[v] = RosterNext(A, v, a[v - 1])
  BY <1>1, RosterChainIs
<1>3. /\ b \in Chains(B) /\ b[0] = Nobody
      /\ \A v \in 1..MaxVersion : b[v] = RosterNext(B, v, b[v - 1])
  BY <1>1, RosterChainIs
<1>4. /\ c \in Chains(C) /\ c[0] = Nobody
      /\ \A v \in 1..MaxVersion : c[v] = RosterNext(C, v, c[v - 1])
  BY RosterChainIs
<1>5. a = c
  OBVIOUS
<1> HIDE DEF a, b, c
<1>6. ASSUME NEW v \in 1..MaxVersion, NEW before,
             RosterNext(A, v, before) = RosterNext(C, v, before)
      PROVE  RosterNext(B, v, before) = RosterNext(C, v, before)
  <2> DEFINE next(es) == {o \in es : o.version = v /\ Follows(o, before)}
             e == RosterNext(B, v, before)
             h == RosterNext(C, v, before)
  <2>1. next(A) \subseteq next(B) /\ next(B) \subseteq next(C) /\ next(C) \subseteq Edition
    OBVIOUS
  <2>2. /\ next(A) = {} => h = Nobody
        /\ next(A) # {} => h \in next(A)
    BY <1>1, <1>6, RosterNextIs
  <2>3. /\ next(B) = {} => e = Nobody
        /\ next(B) # {} => e \in next(B) /\ \A o \in next(B) : e.id <= o.id
    BY <1>1, RosterNextIs
  <2>4. /\ next(C) = {} => h = Nobody
        /\ next(C) # {} => h # Nobody /\ \A o \in next(C) : h.id <= o.id
    BY RosterNextIs
  <2> HIDE DEF next, e, h
  <2>5. CASE next(A) = {}
    BY <2>1, <2>2, <2>3, <2>4, <2>5 DEF e, h
  <2>6. CASE next(A) # {}
    <3>1. h \in next(B) /\ e \in next(B)
      BY <2>1, <2>2, <2>3, <2>6
    <3>2. e.id <= h.id /\ h.id <= e.id /\ e \in Edition /\ h \in Edition
      BY <2>1, <2>3, <2>4, <3>1
    <3>3. e.id \in Nat /\ h.id \in Nat
      BY <3>2, EditionAssumption
    <3>4. e.id = h.id
      BY <3>2, <3>3
    <3>5. e = h
      BY <3>2, <3>4, EditionAssumption
    <3>6. QED
      BY <3>5 DEF e, h
  <2>7. QED
    BY <2>5, <2>6
<1>7. S = 0..MaxVersion
  <2>1. S \in SUBSET (0..MaxVersion) /\ 0 \in S
    BY <1>1, <1>3, <1>4
  <2>2. ASSUME NEW v \in 1..MaxVersion, v - 1 \in S PROVE v \in S
    <3>1. b[v - 1] = c[v - 1] /\ a[v - 1] = c[v - 1] /\ a[v] = c[v]
      BY <1>5, <2>2
    <3>2. RosterNext(A, v, c[v - 1]) = RosterNext(C, v, c[v - 1])
      BY <1>2, <1>4, <3>1
    <3>3. b[v] = c[v]
      BY <1>3, <1>4, <1>6, <3>1, <3>2
    <3>4. QED
      BY <1>1, <3>3
  <2> HIDE DEF S
  <2>3. QED
    BY <1>1, <2>1, <2>2, Climb
<1>8. \A v \in 0..MaxVersion : b[v] = c[v]
  BY <1>7
<1>9. b = c
  <2> HIDE DEF S
  <2>1. b = [v \in 0..MaxVersion |-> b[v]]
    BY <1>3 DEF Chains
  <2>2. c = [v \in 0..MaxVersion |-> c[v]]
    BY <1>4 DEF Chains
  <2>3. [v \in 0..MaxVersion |-> b[v]] = [v \in 0..MaxVersion |-> c[v]]
    BY <1>8
  <2>4. QED
    BY <2>1, <2>2, <2>3
<1>10. QED
  BY <1>9 DEF b, c

(* Every round keeps what was accepted before it. *)
LEMMA RoundsGrow ==
  ASSUME NEW s \in Seq(Edition), NEW after, Rounds(after, s), NEW k \in 0..RoundsOf(s)
  PROVE  after[0] \subseteq after[k] /\ after[k] \subseteq after[RoundsOf(s)]
<1> DEFINE N == RoundsOf(s)
           S == {n \in 0..N : \A j \in 0..n : after[j] \subseteq after[n]}
<1>1. N \in Nat
  BY ToSetIs, EditionAssumption DEF RoundsOf
<1>2. \A n \in 1..N : after[n - 1] \subseteq after[n]
  BY DEF Rounds
<1> HIDE DEF N
<1>3. S = 0..N
  <2>1. S \in SUBSET (0..N) /\ 0 \in S
    BY <1>1
  <2>2. ASSUME NEW n \in 1..N, n - 1 \in S PROVE n \in S
    <3>1. ASSUME NEW j \in 0..n PROVE after[j] \subseteq after[n]
      <4>1. j = n \/ j \in 0..(n - 1)
        OBVIOUS
      <4>2. QED
        BY <1>2, <2>2, <4>1
    <3>2. QED
      BY <1>1, <3>1
  <2> HIDE DEF S
  <2>3. QED
    BY <1>1, <2>1, <2>2, Climb
<1>4. 0 \in 0..k /\ k \in 0..N /\ N \in 0..N
  BY <1>1 DEF N
<1>5. k \in S /\ N \in S
  BY <1>3, <1>4
<1>6. QED
  BY <1>4, <1>5 DEF N

(* The last word on one's only grant, that one has no role, leaves one with *)
(* no say.                                                                  *)
LEMMA NoSay ==
  ASSUME NEW s \in Seq(Edition), OneEach(ToSet(s)), NEW acc \in SUBSET ToSet(s),
         NEW p \in Person, p # Owner, NEW g \in Of("grant", acc),
         g.content = [member |-> p, roles |-> {}],
         Newest(ChainOf("grant", g.entity, acc)) = g, NEW roles
  PROVE  Members(acc, roles, HeadsOf("grant", acc), s)[p] = Nobody
<1> DEFINE grants == HeadsOf("grant", acc)
           mine == {h \in grants : h.content.member = p /\ RolesOf(h, roles) # {}}
<1>1. acc \in SUBSET Edition /\ g # Nobody
  BY ToSetIs, EditionAssumption DEF Of
<1>2. g \in grants
  BY <1>1 DEF HeadsOf, Entities
<1>3. ASSUME NEW h \in mine PROVE FALSE
  <2>1. h \in Of("grant", ToSet(s)) /\ g \in Of("grant", ToSet(s))
    BY <1>1, HeadsAre DEF Of
  <2>2. h.content.member = g.content.member
    OBVIOUS
  <2>3. h.entity = g.entity
    BY <2>1, <2>2 DEF OneEach, Grants
  <2>4. h = g
    BY <1>1, <1>2, <2>3, HeadsAre
  <2>5. RolesOf(g, roles) = {}
    BY DEF RolesOf
  <2>6. QED
    BY <2>4, <2>5
<1>4. mine = {}
  BY <1>3
<1> HIDE DEF grants
<1>5. QED
  BY <1>4 DEF Members, grants

(* In no round is the dismissed a member: nothing of it is admitted. *)
LEMMA DismissalHolds == fetched \in Seq(Edition) => RevocationHolds
<1> SUFFICES ASSUME fetched \in Seq(Edition), OneGrantEach,
                    NEW p \in Person \ {Owner}, Dismissed(p)
             PROVE  \A e \in Accepted(fetched) \cup Believed(fetched) : e.actor # p
  BY DEF RevocationHolds
<1> DEFINE N == RoundsOf(fetched)
<1>1. N \in Nat /\ ToSet(fetched) \in SUBSET Edition /\ OneEach(ToSet(fetched))
  BY ToSetIs, EditionAssumption DEF OneGrantEach, OneEach, Grants, RoundsOf
<1>2. PICK after : Rounds(after, fetched) /\ Accepted(fetched) = after[N]
  BY AcceptedIs
<1>3. /\ \A k \in 0..N : after[k] \in SUBSET ToSet(fetched)
      /\ after[0] = SignedBy(Owner, fetched)
      /\ \A k \in 1..N : after[k] = after[k - 1] \cup Admitted(after[k - 1], fetched)
  BY <1>2 DEF Rounds
<1>4. \A k \in 0..N : after[0] \subseteq after[k] /\ after[k] \subseteq after[N]
  BY <1>2, RoundsGrow
<1>5. PICK g \in Of("grant", ToSet(fetched)) :
        /\ g.content = [member |-> p, roles |-> {}]
        /\ ChainOf("grant", g.entity, after[0]) = ChainOf("grant", g.entity, after[N])
        /\ Newest(ChainOf("grant", g.entity, after[N])) = g
  BY <1>2, <1>3 DEF Dismissed
<1> HIDE DEF N
<1>6. ASSUME NEW k \in 0..N, NEW roles
      PROVE  Members(after[k], roles, HeadsOf("grant", after[k]), fetched)[p] = Nobody
  <2> DEFINE on(es) == {e \in Of("grant", es) : e.entity = g.entity}
  <2>1. on(after[0]) \subseteq on(after[k]) /\ on(after[k]) \subseteq on(after[N])
    BY <1>4 DEF Of
  <2>2. on(after[N]) \in SUBSET Edition
    BY <1>1, <1>3 DEF Of
  <2>3. RosterChain(on(after[0])) = RosterChain(on(after[N]))
    BY <1>5 DEF ChainOf
  <2>4. RosterChain(on(after[k])) = RosterChain(on(after[N]))
    <3> HIDE DEF on
    <3>1. QED
      BY <2>1, <2>2, <2>3, ChainBetween
  <2>5. Newest(ChainOf("grant", g.entity, after[k])) = g
    BY <1>5, <2>4 DEF ChainOf
  <2>6. after[k] \in SUBSET ToSet(fetched) /\ after[k] \in SUBSET Edition
    BY <1>1, <1>3
  <2>7. g # Nobody
    BY <1>1, EditionAssumption DEF Of
  <2>8. g \in Of("grant", after[k])
    BY <2>5, <2>6, <2>7, ChainOfIs
  <2>9. QED
    BY <1>1, <1>5, <2>5, <2>6, <2>8, NoSay
<1> DEFINE S == {k \in 0..N : \A e \in after[k] : e.actor # p}
<1>7. S = 0..N
  <2>1. 0 \in S
    BY <1>1, <1>3 DEF SignedBy
  <2>2. ASSUME NEW k \in 1..N, k - 1 \in S PROVE k \in S
    <3>1. k - 1 \in 0..N
      BY <1>1
    <3>2. \A e \in Admitted(after[k - 1], fetched) : e.actor # p
      BY <1>6, <3>1 DEF Admitted
    <3>3. after[k] = after[k - 1] \cup Admitted(after[k - 1], fetched)
      BY <1>3
    <3>4. \A e \in after[k - 1] : e.actor # p
      BY <2>2
    <3>5. QED
      BY <1>1, <3>2, <3>3, <3>4
  <2>3. S \in SUBSET (0..N)
    OBVIOUS
  <2> HIDE DEF S
  <2>4. QED
    BY <1>1, <2>1, <2>2, <2>3, Climb
<1>8. N \in 0..N
  BY <1>1
<1>9. \A e \in after[N] : e.actor # p
  BY <1>7, <1>8
<1>10. \A e \in Entitled(after[N], fetched) : e.actor # p
  BY <1>6, <1>8 DEF Entitled
<1>11. QED
  BY <1>2, <1>9, <1>10, BelievedIs

-----------------------------------------------------------------------------
(* A reader of the control plane.                                          *)

LEMMA FetchedIs == Fetch!Spec => [](fetched \in Seq(Edition))
<1>1. Fetch!Init => fetched \in Seq(Edition)
  BY DEF Fetch!Init
<1>2. fetched \in Seq(Edition) /\ [Fetch!Next]_Fetch!vars => (fetched \in Seq(Edition))'
  <2> SUFFICES ASSUME fetched \in Seq(Edition), [Fetch!Next]_Fetch!vars
               PROVE  fetched' \in Seq(Edition)
    OBVIOUS
  <2>1. ASSUME NEW e \in Edition, Fetch!Receive(e) PROVE fetched' \in Seq(Edition)
    <3>1. fetched' = Append(fetched, e)
      BY <2>1 DEF Fetch!Receive
    <3>2. QED
      BY <3>1
  <2>2. CASE Fetch!Refetch
    BY <2>2 DEF Fetch!Refetch
  <2>3. CASE UNCHANGED Fetch!vars
    BY <2>3 DEF Fetch!vars
  <2>4. QED
    BY <2>1, <2>2, <2>3 DEF Fetch!Next
<1>3. QED
  BY <1>1, <1>2, PTL DEF Fetch!Spec

(* The channels a reader sees do not depend on the order in which relays    *)
(* return the editions, whatever editions there are, as long as no member   *)
(* holds two grants (concord_control.py 106).                               *)
THEOREM OrderIsForgotten == Fetch!Spec => []OrderDoesNotMatter
BY FetchedIs, ExchangeChangesNothing, PTL

(* A member whose grant the owner has emptied has no say: nothing it ever   *)
(* signed is accepted, whatever was fetched and in whatever order           *)
(* (concord_control.py 172), as long as no member holds two grants.         *)
THEOREM RevocationIsFinal == Fetch!Spec => []RevocationHolds
BY FetchedIs, DismissalHolds, PTL

(* Whatever was fetched, the edition shown of a channel has its whole       *)
(* history behind it and no rival with a lower id (concord_control.py 322). *)
THEOREM HistoryIsWhole == Fetch!Spec => []Unbroken
BY FetchedIs, WayBackIs, PTL

-----------------------------------------------------------------------------
(* Requests: types, and what the caches say of the history.                *)

USE ReplayAssumption

Request == [tool : Tool, call : Nat, sent : BOOLEAN]

Job == [event : Event, call : Nat, stage : {"received", "unseen", "verified"}]

ClocksOK ==
  /\ now \in Nat
  /\ created \in [Event -> Nat]
  /\ admitted \in [Event -> Nat]
  /\ seen \in [Event -> Nat]
  /\ entered \in [Event -> 0..2]

WorkOK ==
  /\ request \in [Event -> Request \cup {NoRequest}]
  /\ job \in [Thread -> Job \cup {NoJob}]
  /\ recent \in [Event -> SUBSET Nat]

(* The cache remembers the event until it is not fresh any more. *)
Outlasts(cache, e) == cache[e] > created[e] + Skew

(* An event the frontend has admitted is remembered for as long as it is    *)
(* fresh.                                                                   *)
EntriesLast ==
  \A e \in Event : entered[e] <= 1 /\ (entered[e] = 1 => Outlasts(admitted, e))

(* What is remembered so long is known whenever the event is fresh. *)
LEMMA OutlastsMeansKnown ==
  ASSUME ClocksOK, NEW e \in Event, Fresh(e)
  PROVE  /\ Outlasts(admitted, e) => Known(admitted, e)
         /\ Outlasts(seen, e) => Known(seen, e)
BY DEF ClocksOK, Fresh, Outlasts, Known

(* An entry made while its event is fresh, dated ahead of the clock or not, *)
(* outlasts it.                                                             *)
LEMMA RememberOutlasts ==
  ASSUME ClocksOK, NEW e \in Event, Fresh(e)
  PROVE  now + Ttl > created[e] + Skew
BY DEF ClocksOK, Fresh

LEMMA ClocksStep ==
  ASSUME ClocksOK, EntriesLast, [Next]_vars
  PROVE  ClocksOK' /\ EntriesLast'
<1>1. ASSUME NEW e \in Event, NEW tool \in Tool, Admit(e, tool)
      PROVE  ClocksOK' /\ EntriesLast'
  <2>1. /\ admitted' = [admitted EXCEPT ![e] = now + Ttl]
        /\ entered' = [entered EXCEPT ![e] = CountUp(@)]
        /\ UNCHANGED <<now, created, seen>>
    BY <1>1 DEF Admit, Remember
  <2>2. entered[e] = 0
    BY <1>1, OutlastsMeansKnown DEF Admit, EntriesLast, ClocksOK
  <2>3. now + Ttl > created[e] + Skew
    BY <1>1, RememberOutlasts DEF Admit
  <2>4. ClocksOK'
    <3>1. entered' = [entered EXCEPT ![e] = 1]
      BY <2>1, <2>2 DEF CountUp
    <3>2. QED
      BY <2>1, <3>1 DEF ClocksOK
  <2>5. EntriesLast'
    BY <2>1, <2>2, <2>3 DEF ClocksOK, EntriesLast, Outlasts, CountUp
  <2>6. QED
    BY <2>4, <2>5
<1>2. ASSUME NEW b \in Thread, Record(b) PROVE ClocksOK' /\ EntriesLast'
  <2>1. /\ seen' = [seen EXCEPT ![job[b].event] = now + Ttl]
        /\ UNCHANGED <<now, created, admitted, entered>>
    BY <1>2 DEF Record, Remember
  <2>2. now + Ttl \in Nat
    BY DEF ClocksOK
  <2>3. QED
    BY <2>1, <2>2 DEF ClocksOK, EntriesLast, Outlasts
<1>3. CASE BrokerRestart
  <2>1. seen' = [e \in Event |-> 0] /\ UNCHANGED <<now, created, admitted, entered>>
    BY <1>3 DEF BrokerRestart
  <2>2. QED
    BY <2>1 DEF ClocksOK, EntriesLast, Outlasts
<1>4. CASE Tick
  BY <1>4 DEF Tick, ClocksOK, EntriesLast, Outlasts
<1>5. CASE UNCHANGED <<now, created, admitted, seen, entered>>
  BY <1>5 DEF ClocksOK, EntriesLast, Outlasts
<1>6. QED
  BY <1>1, <1>2, <1>3, <1>4, <1>5 DEF Next, Handle, Forward, GiveUp, Deny, Refuse,
     RefuseReplay, LookUp, Invoke, vars

(* A signed request is admitted once, however often it is delivered: the    *)
(* lifetime of an entry, counted from its first arrival, outlasts the       *)
(* freshness of an event dated up to a skew ahead (auth/nip98.py:83).       *)
THEOREM EventsAdmittedOnce == Spec => []AdmittedOnce
<1>1. Init => ClocksOK /\ EntriesLast
  BY DEF Init, ClocksOK, EntriesLast
<1>2. ClocksOK /\ EntriesLast /\ [Next]_vars => (ClocksOK /\ EntriesLast)'
  BY ClocksStep
<1>3. EntriesLast => AdmittedOnce
  BY DEF EntriesLast, AdmittedOnce
<1>4. QED
  BY <1>1, <1>2, <1>3, PTL DEF Spec

-----------------------------------------------------------------------------
(* One privileged call for each life of the broker.                        *)

On(b, e) == job[b] # NoJob /\ job[b].event = e

(* One thread at most works on an event, sent there by the request that     *)
(* waits for it or has given up; once a call of the event was invoked the   *)
(* broker remembers the event and any thread on it is yet to find that out. *)
Alone(e) ==
  /\ entered[e] = 0 =>
       request[e] = NoRequest /\ recent[e] = {} /\ \A b \in Thread : ~On(b, e)
  /\ entered[e] # 0 => created[e] <= now + Skew
  /\ \A b, c \in Thread : On(b, e) /\ On(c, e) => b = c
  /\ request[e] # NoRequest /\ ~request[e].sent => \A b \in Thread : ~On(b, e)
  /\ \A b \in Thread : On(b, e) /\ job[b].stage = "verified" => Outlasts(seen, e)
  /\ recent[e] # {} =>
       /\ Outlasts(seen, e)
       /\ \A b \in Thread : On(b, e) => job[b].stage = "received"
  /\ \A m, n \in recent[e] : m = n

OneAtATime == \A e \in Event : Alone(e)

Inv == ClocksOK /\ EntriesLast /\ WorkOK /\ OneAtATime

(* A step that adds no thread, leaves the requests or ends them, and keeps  *)
(* what the broker remembers.                                               *)
LEMMA Quiet ==
  ASSUME OneAtATime,
         \A e \in Event :
           request'[e] \in {request[e], NoRequest},
         \A b \in Thread : job'[b] \in {job[b], NoJob},
         now' >= now, ClocksOK, ClocksOK',
         UNCHANGED <<created, seen, entered, recent>>
  PROVE  OneAtATime'
<1>1. \A b \in Thread, e \in Event : On(b, e)' => On(b, e) /\ job'[b] = job[b]
  BY DEF On
<1>2. \A e \in Event : Outlasts(seen, e)' = Outlasts(seen, e)
  BY DEF Outlasts
<1>3. \A e \in Event : created[e] <= now + Skew => created[e] <= now' + Skew
  BY DEF ClocksOK
<1>4. ASSUME NEW e \in Event, request'[e] # NoRequest
      PROVE  request'[e] = request[e] /\ request[e] # NoRequest
  BY <1>4
<1>5. QED
  BY <1>1, <1>2, <1>3, <1>4 DEF OneAtATime, Alone

LEMMA AdmitAlone ==
  ASSUME Inv, NEW e \in Event, NEW tool \in Tool, Admit(e, tool)
  PROVE  WorkOK' /\ OneAtATime'
<1>1. /\ request' = [request EXCEPT ![e] = [tool |-> tool, call |-> 1, sent |-> FALSE]]
      /\ entered' = [entered EXCEPT ![e] = CountUp(@)]
      /\ UNCHANGED <<now, created, seen, job, recent>>
  BY DEF Admit
<1>2. entered[e] = 0
  BY OutlastsMeansKnown DEF Admit, Inv, EntriesLast, ClocksOK
<1>3. created[e] <= now + Skew
  BY DEF Admit, Fresh, Inv, ClocksOK
<1>4. WorkOK'
  BY <1>1 DEF Inv, WorkOK, Request, Call
<1>5. \A b \in Thread, f \in Event : On(b, f)' = On(b, f)
  BY <1>1 DEF On
<1>6. \A f \in Event : Outlasts(seen, f)' = Outlasts(seen, f)
  BY <1>1 DEF Outlasts
<1>7. /\ recent[e] = {} /\ \A b \in Thread : ~On(b, e)
      /\ \A f \in Event \ {e} : request'[f] = request[f] /\ entered'[f] = entered[f]
      /\ request'[e] = [tool |-> tool, call |-> 1, sent |-> FALSE]
      /\ entered'[e] = 1
  BY <1>1, <1>2 DEF Inv, OneAtATime, Alone, ClocksOK, WorkOK, CountUp
<1>8. OneAtATime'
  BY <1>1, <1>3, <1>5, <1>6, <1>7 DEF Inv, OneAtATime, Alone
<1>9. QED
  BY <1>4, <1>8

LEMMA ForwardAlone ==
  ASSUME Inv, NEW e \in Event, NEW b \in Thread, Forward(e, b)
  PROVE  WorkOK' /\ OneAtATime'
<1>1. request[e] \in Request /\ ~request[e].sent /\ request[e] # NoRequest
  BY DEF Forward, Inv, WorkOK
<1>2. /\ job' = [job EXCEPT ![b] =
             [event |-> e, call |-> request[e].call, stage |-> "received"]]
      /\ request' = [request EXCEPT ![e].sent = TRUE]
      /\ UNCHANGED <<now, created, seen, entered, recent>>
  BY DEF Forward
<1>3. [event |-> e, call |-> request[e].call, stage |-> "received"] \in Job
  BY <1>1 DEF Job, Request
<1>4. [request[e] EXCEPT !.sent = TRUE] \in Request
  BY <1>1 DEF Request
<1>5. WorkOK'
  BY <1>1, <1>2, <1>3, <1>4 DEF Inv, WorkOK
<1>6. /\ \A f \in Event \ {e} : request'[f] = request[f]
      /\ request'[e].sent
      /\ \A c \in Thread \ {b} : job'[c] = job[c]
      /\ job'[b].event = e /\ job'[b].stage = "received"
  BY <1>1, <1>2 DEF Inv, WorkOK, Request
<1>7. \A c \in Thread : ~On(c, e)
  BY <1>1 DEF Inv, OneAtATime, Alone
<1>8. /\ \A c \in Thread, f \in Event :
           On(c, f)' => (c = b /\ f = e) \/ (On(c, f) /\ c # b /\ f # e)
      /\ \A f \in Event : Outlasts(seen, f)' = Outlasts(seen, f)
  BY <1>2, <1>6, <1>7 DEF On, Outlasts
<1>9. entered[e] # 0
  BY <1>1 DEF Inv, OneAtATime, Alone
<1>10. OneAtATime'
  BY <1>2, <1>6, <1>8, <1>9 DEF Inv, OneAtATime, Alone
<1>11. QED
  BY <1>5, <1>10

(* The requests and the threads after a call was refused or given up. *)
LEMMA QuietSteps ==
  ASSUME Inv, ClocksOK',
         \/ Tick \/ UNCHANGED vars
         \/ \E e \in Event : GiveUp(e)
         \/ \E b \in Thread : Deny(b) \/ RefuseReplay(b)
  PROVE  WorkOK' /\ OneAtATime'
<1>1. /\ \A e \in Event : request'[e] \in {request[e], NoRequest}
      /\ request' \in [Event -> Request \cup {NoRequest}]
      /\ \A b \in Thread : job'[b] \in {job[b], NoJob}
      /\ job' \in [Thread -> Job \cup {NoJob}]
  BY DEF Inv, WorkOK, Tick, vars, GiveUp, Deny, RefuseReplay, Refuse
<1>2. now' >= now /\ UNCHANGED <<created, seen, entered, recent>>
  BY DEF Inv, ClocksOK, Tick, vars, GiveUp, Deny, RefuseReplay, Refuse
<1>3. QED
  BY <1>1, <1>2, Quiet DEF Inv, WorkOK

LEMMA LookUpAlone ==
  ASSUME Inv, NEW b \in Thread, LookUp(b)
  PROVE  WorkOK' /\ OneAtATime'
<1>0. job[b] \in Job /\ job[b] # NoJob
  BY DEF LookUp, At, Inv, WorkOK
<1>1. PICK e \in Event : job[b].event = e
  BY <1>0 DEF Job
<1>2. /\ job' = [job EXCEPT ![b].stage = "unseen"]
      /\ UNCHANGED <<now, created, seen, request, entered, recent>>
  BY DEF LookUp
<1>3. [job[b] EXCEPT !.stage = "unseen"] \in Job
  BY <1>0 DEF Job
<1>4. WorkOK'
  BY <1>2, <1>3 DEF Inv, WorkOK
<1>5. /\ job'[b].event = e /\ job'[b].stage = "unseen"
      /\ \A c \in Thread \ {b} : job'[c] = job[c]
  BY <1>0, <1>1, <1>2 DEF Inv, WorkOK, Job
<1>6. On(b, e) /\ ~Outlasts(seen, e)
  BY <1>0, <1>1, OutlastsMeansKnown DEF LookUp, On, Inv
<1>7. /\ \A c \in Thread, f \in Event :
           On(c, f)' => On(c, f) /\ (c # b \/ f = e)
      /\ \A f \in Event : Outlasts(seen, f)' = Outlasts(seen, f)
  BY <1>0, <1>1, <1>2, <1>5 DEF On, Outlasts
<1>8. recent[e] = {}
  BY <1>6 DEF Inv, OneAtATime, Alone
<1>9. OneAtATime'
  BY <1>2, <1>5, <1>7, <1>8 DEF Inv, OneAtATime, Alone
<1>10. QED
  BY <1>4, <1>9

(* The entry is made some time after the event was found to be fresh. *)
LEMMA RecordAlone ==
  ASSUME Inv, NEW b \in Thread, Record(b)
  PROVE  WorkOK' /\ OneAtATime'
<1>0. job[b] \in Job /\ job[b] # NoJob /\ job[b].stage = "unseen"
  BY DEF Record, At, Inv, WorkOK
<1>1. PICK e \in Event : job[b].event = e
  BY <1>0 DEF Job
<1>2. /\ job' = [job EXCEPT ![b].stage = "verified"]
      /\ seen' = [seen EXCEPT ![e] = now + Ttl]
      /\ UNCHANGED <<now, created, request, entered, recent>>
  BY <1>1 DEF Record, Remember
<1>3. [job[b] EXCEPT !.stage = "verified"] \in Job
  BY <1>0 DEF Job
<1>4. WorkOK'
  BY <1>2, <1>3 DEF Inv, WorkOK
<1>5. /\ job'[b].event = e /\ job'[b].stage = "verified"
      /\ \A c \in Thread \ {b} : job'[c] = job[c]
  BY <1>0, <1>1, <1>2 DEF Inv, WorkOK, Job
<1>6. On(b, e)
  BY <1>0, <1>1 DEF On
<1>7. recent[e] = {} /\ entered[e] # 0 /\ created[e] <= now + Skew
  BY <1>0, <1>6 DEF Inv, OneAtATime, Alone
<1>8. /\ Outlasts(seen, e)'
      /\ \A f \in Event \ {e} : Outlasts(seen, f)' = Outlasts(seen, f)
  <2>1. now + Ttl > created[e] + Skew
    BY <1>7 DEF Inv, ClocksOK
  <2>2. QED
    BY <1>2, <2>1 DEF Inv, ClocksOK, Outlasts
<1>9. \A c \in Thread, f \in Event :
        On(c, f)' => On(c, f) /\ (c # b \/ f = e)
  BY <1>0, <1>1, <1>5 DEF On
<1>10. \A c \in Thread : On(c, e)' => c = b
  BY <1>6, <1>9 DEF Inv, OneAtATime, Alone
<1>11. \A c \in Thread, f \in Event \ {e} : On(c, f)' => On(c, f) /\ job'[c] = job[c]
  BY <1>5, <1>9
<1>12. Alone(e)'
  BY <1>2, <1>6, <1>7, <1>8, <1>10 DEF Inv, OneAtATime, Alone
<1>13. ASSUME NEW f \in Event \ {e} PROVE Alone(f)'
  BY <1>2, <1>8, <1>11 DEF Inv, OneAtATime, Alone
<1>14. QED
  BY <1>4, <1>12, <1>13 DEF OneAtATime

(* The one thread on the event is done, and the request goes on to its next *)
(* call or is over.                                                         *)
LEMMA InvokeAlone ==
  ASSUME Inv, NEW b \in Thread, Invoke(b)
  PROVE  WorkOK' /\ OneAtATime'
<1>0. job[b] \in Job /\ job[b] # NoJob /\ job[b].stage = "verified"
  BY DEF Invoke, At, Inv, WorkOK
<1>1. PICK e \in Event : job[b].event = e
  BY <1>0 DEF Job
<1>2. /\ job' = [job EXCEPT ![b] = NoJob]
      /\ recent' = [recent EXCEPT ![e] = @ \cup {job[b].call}]
      /\ request' = IF ~Awaited(b) THEN request
                    ELSE [request EXCEPT ![e] =
                            IF request[e].call = BrokerCalls(request[e].tool)
                            THEN NoRequest
                            ELSE [request[e] EXCEPT !.call = @ + 1, !.sent = FALSE]]
      /\ UNCHANGED <<now, created, seen, entered>>
  BY <1>1 DEF Invoke
<1>3. Awaited(b) => request[e] \in Request
  BY <1>1 DEF Awaited, Inv, WorkOK
<1>4. ASSUME Awaited(b)
      PROVE  [request[e] EXCEPT !.call = @ + 1, !.sent = FALSE] \in Request
  <2>1. request[e] \in [tool : Tool, call : Nat, sent : BOOLEAN]
    BY <1>3, <1>4 DEF Request
  <2>2. request[e].call + 1 \in Nat
    BY <2>1
  <2>3. QED
    BY <2>1, <2>2 DEF Request
<1>5. request' \in [Event -> Request \cup {NoRequest}]
  BY <1>2, <1>4 DEF Inv, WorkOK
<1>6. WorkOK'
  BY <1>0, <1>2, <1>5 DEF Inv, WorkOK, Job
<1>7. On(b, e)
  BY <1>0, <1>1 DEF On
<1>8. recent[e] = {} /\ Outlasts(seen, e) /\ entered[e] # 0
      /\ \A c \in Thread : On(c, e) => c = b
  BY <1>0, <1>7 DEF Inv, OneAtATime, Alone
<1>9. /\ \A c \in Thread, f \in Event :
           On(c, f)' => On(c, f) /\ f # e /\ job'[c] = job[c]
      /\ \A f \in Event : Outlasts(seen, f)' = Outlasts(seen, f)
      /\ \A f \in Event \ {e} : request'[f] = request[f] /\ recent'[f] = recent[f]
      /\ recent'[e] = {job[b].call}
  BY <1>2, <1>8 DEF On, Outlasts, Inv, WorkOK
<1>10. OneAtATime'
  BY <1>2, <1>8, <1>9 DEF Inv, OneAtATime, Alone
<1>11. QED
  BY <1>6, <1>10

LEMMA RestartAlone ==
  ASSUME Inv, BrokerRestart
  PROVE  WorkOK' /\ OneAtATime'
<1>1. /\ job' = [b \in Thread |-> NoJob]
      /\ request' = [e \in Event |->
           IF request[e] # NoRequest /\ request[e].sent THEN NoRequest ELSE request[e]]
      /\ recent' = [e \in Event |-> {}]
      /\ UNCHANGED <<now, created, entered>>
  BY DEF BrokerRestart
<1>2. WorkOK'
  BY <1>1 DEF Inv, WorkOK
<1>3. OneAtATime'
  BY <1>1 DEF Inv, OneAtATime, Alone, On
<1>4. QED
  BY <1>2, <1>3

LEMMA InvStep == ASSUME Inv, [Next]_vars PROVE Inv'
<1>1. ClocksOK' /\ EntriesLast'
  BY ClocksStep DEF Inv
<1>2. WorkOK' /\ OneAtATime'
  BY <1>1, AdmitAlone, ForwardAlone, QuietSteps, LookUpAlone, RecordAlone,
     InvokeAlone, RestartAlone DEF Next, Handle
<1>3. QED
  BY <1>1, <1>2 DEF Inv

(* As long as the broker stays up a signed request authorises one           *)
(* privileged call and no more, though the look-up and the entry are two    *)
(* steps of threads that share no lock (auth/replay.py:28): the frontend    *)
(* never has two calls of one request under way.                            *)
THEOREM OneCallEach == Spec => []OneCallPerEvent
<1>1. Init => Inv
  BY DEF Init, Inv, ClocksOK, EntriesLast, WorkOK, OneAtATime, Alone, On
<1>2. Inv /\ [Next]_vars => Inv'
  BY InvStep
<1>3. Inv => OneCallPerEvent
  BY DEF Inv, OneAtATime, Alone, OneCallPerEvent
<1>4. QED
  BY <1>1, <1>2, <1>3, PTL DEF Spec
=============================================================================
