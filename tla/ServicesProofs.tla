--------------------------- MODULE ServicesProofs ---------------------------
(***************************************************************************)
(* The parts of MCServices that are not of the publishing engine or the    *)
(* sign-in sessions, and proofs about them: the crawl, the creation of a   *)
(* campaign, the paid work, the saved searches.  Each part has constants   *)
(* and variables of its own, declared where its proofs begin, and each     *)
(* theorem is about one part, for all behaviours of it and any values of   *)
(* its constants.                                                          *)
(*                                                                         *)
(* That a crawl is complete follows a page: it is queued, asked for, being *)
(* read, recorded, or it failed, until what it links to was offered to the *)
(* queue.                                                                  *)
(***************************************************************************)
EXTENDS Naturals, Sequences, FiniteSets, FiniteSetTheorems, TLAPS

\* Among subsets of a finite set there is one that has none of the others in it.
LEMMA SmallestSet ==
  ASSUME NEW S, IsFiniteSet(S), NEW T, T \subseteq SUBSET S, T # {}
  PROVE  \E m \in T : \A t \in SUBSET m : t # m => t \notin T
<1>1. T \subseteq FiniteSubsetsOf(S)
  BY FS_Subset DEF FiniteSubsetsOf
<1>2. IsWellFoundedOn(StrictSubsetOrdering(S), FiniteSubsetsOf(S))
  BY FS_StrictSubsetOrderingWellFounded
<1>3. PICK m \in T : \A t \in T : <<t, m>> \notin StrictSubsetOrdering(S)
  BY <1>1, <1>2, WFMin
<1>4. ASSUME NEW t \in SUBSET m, t # m, t \in T
      PROVE  FALSE
  BY <1>3, <1>4 DEF StrictSubsetOrdering
<1> QED
  BY <1>3, <1>4

-----------------------------------------------------------------------------
(* The crawl *)

CONSTANTS Pages, Home, Sites, Crawlers, Caps, MaxQueued, MaxHops
VARIABLES wSite, wMaxPages, wPhase, wPages, wSeen, wCrawled, wQueue, wLane, wAborted, wMapped,
          wRequested, wBroken

Crawl == INSTANCE Crawler WITH
  Lanes <- Crawlers, site <- wSite, maxPages <- wMaxPages, phase <- wPhase, pages <- wPages, seen <- wSeen,
  crawled <- wCrawled, queue <- wQueue, lane <- wLane, aborted <- wAborted, mapped <- wMapped,
  requested <- wRequested, broken <- wBroken

\* What a site is.
LEMMA SiteIs ==
  ASSUME Crawl!CrawlerParameters, wSite \in Sites
  PROVE  /\ wSite.links \in [Pages -> Seq(Pages)] /\ wSite.sitemap \in Seq(Pages)
         /\ wSite.to \in [Pages -> Pages]
         /\ Home \in Pages /\ MaxQueued \in Nat /\ MaxHops \in Nat
         /\ \A p : Crawl!Crawlable(p) => p \in Pages
BY DEF Crawl!CrawlerParameters, Crawl!Crawlable

LEMMA InSequence ==
  ASSUME NEW s \in Seq(Pages)
  PROVE  /\ \A p : p \in Crawl!ToSet(s) <=> \E i \in 1..Len(s) : s[i] = p
         /\ Crawl!ToSet(s) \subseteq Pages
         /\ s = <<>> <=> Len(s) = 0
         /\ s = <<>> => Crawl!ToSet(s) = {}
BY DEF Crawl!ToSet

LEMMA SetOfAppend ==
  ASSUME NEW s \in Seq(Pages), NEW p \in Pages
  PROVE  /\ Append(s, p) \in Seq(Pages) /\ Append(s, p) # <<>>
         /\ Crawl!ToSet(Append(s, p)) = Crawl!ToSet(s) \cup {p}
         /\ Crawl!Last(Append(s, p)) = p
<1>1. Append(s, p) \in Seq(Pages) /\ Len(Append(s, p)) = Len(s) + 1 /\ Len(s) \in Nat
  OBVIOUS
<1>2. \A i \in 1..Len(s) : Append(s, p)[i] = s[i]
  OBVIOUS
<1>3. Append(s, p)[Len(s) + 1] = p
  OBVIOUS
<1>4. ASSUME NEW x PROVE x \in Crawl!ToSet(Append(s, p)) <=> x \in Crawl!ToSet(s) \cup {p}
  <2>1. x \in Crawl!ToSet(Append(s, p)) <=> \E i \in 1..(Len(s) + 1) : Append(s, p)[i] = x
    BY <1>1, InSequence
  <2>2. x \in Crawl!ToSet(s) <=> \E i \in 1..Len(s) : s[i] = x
    BY InSequence
  <2>3. ASSUME NEW i \in 1..(Len(s) + 1) PROVE i = Len(s) + 1 \/ i \in 1..Len(s)
    BY <1>1
  <2>4. 1..Len(s) \subseteq 1..(Len(s) + 1) /\ Len(s) + 1 \in 1..(Len(s) + 1)
    BY <1>1
  <2> HIDE <1>1
  <2> QED
    BY <1>2, <1>3, <2>1, <2>2, <2>3, <2>4
<1>5. Crawl!Last(Append(s, p)) = p
  BY <1>1, <1>3 DEF Crawl!Last
<1> QED
  BY <1>1, <1>4, <1>5

LEMMA SetOfTail ==
  ASSUME NEW s \in Seq(Pages), s # <<>>
  PROVE  /\ Tail(s) \in Seq(Pages) /\ Head(s) \in Pages
         /\ Crawl!ToSet(s) = {Head(s)} \cup Crawl!ToSet(Tail(s))
<1>1. Tail(s) \in Seq(Pages) /\ Len(Tail(s)) = Len(s) - 1 /\ Len(s) \in Nat \ {0}
  BY InSequence
<1>2. \A i \in 1..Len(Tail(s)) : Tail(s)[i] = s[i + 1]
  OBVIOUS
<1>3. Head(s) = s[1] /\ Head(s) \in Pages
  BY <1>1
<1>4. ASSUME NEW x PROVE x \in Crawl!ToSet(s) <=> x = Head(s) \/ x \in Crawl!ToSet(Tail(s))
  <2>1. ASSUME NEW i \in 1..Len(s), s[i] = x
        PROVE  x = Head(s) \/ \E j \in 1..Len(Tail(s)) : Tail(s)[j] = x
    <3>1. CASE i = 1
      BY <2>1, <3>1, <1>3
    <3>2. CASE i # 1
      <4>1. i - 1 \in 1..Len(Tail(s)) /\ Tail(s)[i - 1] = s[i]
        BY <1>1, <1>2, <3>2
      <4> QED
        BY <2>1, <4>1
    <3> QED
      BY <3>1, <3>2
  <2>2. ASSUME NEW j \in 1..Len(Tail(s)), Tail(s)[j] = x
        PROVE  \E i \in 1..Len(s) : s[i] = x
    <3>1. j + 1 \in 1..Len(s) /\ s[j + 1] = x
      BY <1>1, <1>2, <2>2
    <3> QED
      BY <3>1
  <2>3. x = Head(s) => \E i \in 1..Len(s) : s[i] = x
    BY <1>1, <1>3
  <2> QED
    BY <1>1, <2>1, <2>2, <2>3, InSequence
<1> QED
  BY <1>1, <1>3, <1>4

-----------------------------------------------------------------------------
(* Hops *)

\* What a chain of requests from p on is followed by.
Follow(p, c) ==
  IF wSite.to[Crawl!Last(c)] # Crawl!Last(c) /\ (p = Home \/ Crawl!Crawlable(wSite.to[Crawl!Last(c)]))
  THEN Append(c, wSite.to[Crawl!Last(c)]) ELSE c
\* h is the chain after each number of redirects.
Leads(p, n, h) == h = [i \in 0..n |-> IF i = 0 THEN <<p>> ELSE Follow(p, h[i - 1])]

LEMMA LeadsOne ==
  ASSUME NEW p, NEW n, NEW h, Leads(p, n, h), NEW i \in 0..n
  PROVE  /\ i = 0 => h[i] = <<p>>
         /\ i # 0 => h[i] = Follow(p, h[i - 1])
<1>1. h[i] = IF i = 0 THEN <<p>> ELSE Follow(p, h[i - 1])
  BY Zenon DEF Leads
<1> QED
  BY <1>1

LEMMA LeadsExists ==
  ASSUME NEW p, NEW n \in Nat
  PROVE  \E h : Leads(p, n, h)
<1> DEFINE Upto(k) == 0..k
           Without == {Upto(k) : k \in {j \in Upto(n) : \A h : ~ Leads(p, j, h)}}
<1>1. \A k \in Upto(n) : Upto(k) \subseteq Upto(n)
  OBVIOUS
<1> SUFFICES ASSUME \A h : ~ Leads(p, n, h) PROVE FALSE
  OBVIOUS
<1>2. Without # {}
  OBVIOUS
<1>3. PICK m \in Without : \A t \in SUBSET m : t # m => t \notin Without
  <2>1. Without \subseteq SUBSET Upto(n)
    BY <1>1
  <2>2. IsFiniteSet(Upto(n))
    BY FS_Interval
  <2> HIDE DEF Without, Upto
  <2> QED
    BY <1>2, <2>1, <2>2, SmallestSet
<1>4. PICK k \in Upto(n) : m = Upto(k) /\ \A h : ~ Leads(p, k, h)
  BY <1>3
<1>5. k # 0
  <2> SUFFICES ASSUME k = 0 PROVE FALSE
    OBVIOUS
  <2> DEFINE one == [i \in 0..0 |-> <<p>>]
  <2>1. one = [i \in 0..0 |-> IF i = 0 THEN <<p>> ELSE Follow(p, one[i - 1])]
    OBVIOUS
  <2> HIDE DEF one
  <2>2. Leads(p, 0, one)
    BY <2>1, Zenon DEF Leads
  <2> QED
    BY <1>4, <2>2
<1>6. k - 1 \in Upto(n) /\ Upto(k - 1) \in SUBSET m /\ Upto(k - 1) # m
  <2>1. k \in Upto(k) /\ k \notin Upto(k - 1)
    BY <1>4, <1>5
  <2> QED
    BY <1>4, <1>5, <2>1
<1>7. PICK h : Leads(p, k - 1, h)
  <2>1. Upto(k - 1) \notin Without
    BY <1>3, <1>6
  <2> QED
    BY <1>6, <2>1
<1> DEFINE g == [i \in 0..k |-> IF i = k THEN Follow(p, h[k - 1]) ELSE h[i]]
<1>8. ASSUME NEW i \in 0..k
      PROVE  g[i] = IF i = 0 THEN <<p>> ELSE Follow(p, g[i - 1])
  <2>1. CASE i = k
    <3>1. g[i] = Follow(p, h[k - 1]) /\ g[k - 1] = h[k - 1]
      BY <1>4, <1>5, <2>1
    <3> QED
      BY <1>5, <2>1, <3>1
  <2>2. CASE i # k
    <3>1. i \in 0..(k - 1) /\ g[i] = h[i] /\ (i # 0 => g[i - 1] = h[i - 1])
      BY <1>4, <1>5, <2>2
    <3> QED
      BY <1>7, <3>1, LeadsOne
  <2> QED
    BY <2>1, <2>2
<1>9. g = [i \in 0..k |-> g[i]]
  OBVIOUS
<1> HIDE DEF g
<1>10. g = [i \in 0..k |-> IF i = 0 THEN <<p>> ELSE Follow(p, g[i - 1])]
  BY <1>8, <1>9
<1> QED
  BY <1>4, <1>10, Zenon DEF Leads

LEMMA HopsLead ==
  ASSUME Crawl!CrawlerParameters, NEW p
  PROVE  \E h : Leads(p, MaxHops, h) /\ Crawl!Hops(p) = h[MaxHops]
<1>1. PICK g : Leads(p, MaxHops, g)
  BY LeadsExists DEF Crawl!CrawlerParameters
<1>2. Leads(p, MaxHops, CHOOSE h : Leads(p, MaxHops, h))
  BY <1>1, Zenon
<1>3. Crawl!Hops(p) = (CHOOSE h : Leads(p, MaxHops, h))[MaxHops]
  BY DEF Crawl!Hops, Leads, Follow
<1> QED
  BY <1>2, <1>3

\* What is asked for from p on.
FromPage(p, c) ==
  /\ c \in Seq(Pages) /\ c # <<>>
  /\ \A q \in Crawl!ToSet(c) : q = p \/ p = Home \/ Crawl!Crawlable(q)
  /\ wSite.to[p] = p => c = <<p>>

LEMMA LastIsIn ==
  ASSUME NEW c \in Seq(Pages), c # <<>>
  PROVE  Crawl!Last(c) \in Pages /\ Crawl!Last(c) \in Crawl!ToSet(c)
<1>1. Len(c) \in 1..Len(c)
  OBVIOUS
<1> QED
  BY <1>1, InSequence DEF Crawl!Last

LEMMA HopsAllowed ==
  ASSUME Crawl!CrawlerParameters, wSite \in Sites, NEW p \in Pages
  PROVE  FromPage(p, Crawl!Hops(p))
<1>1. PICK h : Leads(p, MaxHops, h) /\ Crawl!Hops(p) = h[MaxHops]
  BY HopsLead
<1>2. MaxHops \in Nat
  BY SiteIs
<1> DEFINE Upto(k) == 0..k
           Odd == {Upto(k) : k \in {j \in Upto(MaxHops) : ~ FromPage(p, h[j])}}
<1> SUFFICES ASSUME ~ FromPage(p, h[MaxHops]) PROVE FALSE
  BY <1>1
<1>3. PICK m \in Odd : \A t \in SUBSET m : t # m => t \notin Odd
  <2>1. Odd # {}
    BY <1>2
  <2>2. Odd \subseteq SUBSET Upto(MaxHops)
    <3>1. \A k \in Upto(MaxHops) : Upto(k) \subseteq Upto(MaxHops)
      BY <1>2
    <3> QED
      BY <3>1
  <2>3. IsFiniteSet(Upto(MaxHops))
    BY <1>2, FS_Interval
  <2> HIDE DEF Odd, Upto
  <2> QED
    BY <2>1, <2>2, <2>3, SmallestSet
<1>4. PICK k \in Upto(MaxHops) : m = Upto(k) /\ ~ FromPage(p, h[k])
  BY <1>3
<1>5. k # 0
  <2>1. FromPage(p, <<p>>)
    <3>1. <<p>> \in Seq(Pages) /\ Len(<<p>>) = 1 /\ <<p>>[1] = p
      OBVIOUS
    <3>2. \A q \in Crawl!ToSet(<<p>>) : q = p
      BY DEF Crawl!ToSet
    <3>3. <<p>> # <<>>
      OBVIOUS
    <3> HIDE DEF Odd, Upto
    <3> QED
      BY <3>1, <3>2, <3>3, Zenon DEF FromPage
  <2>2. h[0] = <<p>>
    BY <1>1, <1>2, LeadsOne
  <2> QED
    BY <1>4, <2>1, <2>2
<1>6. k - 1 \in Upto(MaxHops) /\ Upto(k - 1) \in SUBSET m /\ Upto(k - 1) # m
  <2>1. k \in Upto(k) /\ k \notin Upto(k - 1)
    BY <1>4, <1>5
  <2> QED
    BY <1>2, <1>4, <1>5, <2>1
<1>7. FromPage(p, h[k - 1])
  <2>1. Upto(k - 1) \notin Odd
    BY <1>3, <1>6
  <2> QED
    BY <1>6, <2>1
<1>8. h[k] = Follow(p, h[k - 1])
  BY <1>1, <1>4, <1>5, LeadsOne
<1> DEFINE c == h[k - 1]
           last == Crawl!Last(c)
           next == wSite.to[last]
<1>9. last \in Pages /\ next \in Pages /\ c \in Seq(Pages)
  BY <1>7, LastIsIn, SiteIs DEF FromPage
<1>10. ASSUME next # last, p = Home \/ Crawl!Crawlable(next)
       PROVE  FromPage(p, Append(c, next))
  <2>1. Append(c, next) \in Seq(Pages) /\ Append(c, next) # <<>>
        /\ Crawl!ToSet(Append(c, next)) = Crawl!ToSet(c) \cup {next}
    BY <1>9, SetOfAppend
  <2>2. wSite.to[p] # p
    <3> SUFFICES ASSUME wSite.to[p] = p PROVE FALSE
      OBVIOUS
    <3>1. c = <<p>>
      BY <1>7 DEF FromPage
    <3>2. last = p
      BY <3>1 DEF Crawl!Last
    <3> QED
      BY <1>10, <3>2
  <2> HIDE DEF c, last, next
  <2> QED
    BY <1>7, <1>10, <2>1, <2>2 DEF FromPage, c
<1>11. h[k] = IF next # last /\ (p = Home \/ Crawl!Crawlable(next)) THEN Append(c, next) ELSE c
  BY <1>8 DEF Follow
<1> HIDE DEF next, last
<1> QED
  BY <1>4, <1>7, <1>10, <1>11

\* Where p leads to.
LEMMA LandedIs ==
  ASSUME Crawl!CrawlerParameters, wSite \in Sites, NEW p \in Pages
  PROVE  /\ Crawl!Last(Crawl!Hops(p)) \in Pages
         /\ Crawl!Landed(p) \subseteq {Crawl!Last(Crawl!Hops(p))}
         /\ Crawl!ToSet(Crawl!Hops(p)) \subseteq Pages
         /\ \A q \in Crawl!ToSet(Crawl!Hops(p)) : q = p \/ p = Home \/ Crawl!Crawlable(q)
         /\ \A f \in Crawl!Landed(p) : f \in Pages /\ wSite.to[f] = f /\ Crawl!Landed(f) = {f}
<1>1. ASSUME NEW f \in Pages, wSite.to[f] = f
      PROVE  Crawl!Landed(f) = {f}
  <2>1. Crawl!Hops(f) = <<f>>
    BY <1>1, HopsAllowed DEF FromPage
  <2>2. Crawl!Last(<<f>>) = f
    BY DEF Crawl!Last
  <2> QED
    BY <1>1, <2>1, <2>2 DEF Crawl!Landed
<1>2. FromPage(p, Crawl!Hops(p))
  BY HopsAllowed
<1>3. Crawl!Last(Crawl!Hops(p)) \in Pages /\ Crawl!ToSet(Crawl!Hops(p)) \subseteq Pages
  BY <1>2, LastIsIn, InSequence DEF FromPage
<1> QED
  BY <1>1, <1>2, <1>3 DEF FromPage, Crawl!Landed

-----------------------------------------------------------------------------
(* The queue *)

Top(s) == CHOOSE x \in s : \A y \in s : x >= y

LEMMA TopIsIn ==
  ASSUME NEW n \in Nat, NEW s \in SUBSET (1..n), s # {}
  PROVE  Top(s) \in s
<1> DEFINE Topped(t) == \E x \in t : \A y \in t : x >= y
           Odd == {t \in SUBSET s : t # {} /\ ~ Topped(t)}
<1> SUFFICES ASSUME Odd # {} PROVE FALSE
  <2>1. Topped(s)
    <3>1. s \notin Odd
      OBVIOUS
    <3> QED
      BY <3>1
  <2> QED
    BY <2>1 DEF Top
<1>1. PICK m \in Odd : \A t \in SUBSET m : t # m => t \notin Odd
  <2>1. Odd \subseteq SUBSET (1..n)
    OBVIOUS
  <2>2. IsFiniteSet(1..n)
    BY FS_Interval
  <2> HIDE DEF Odd
  <2> QED
    BY <2>1, <2>2, SmallestSet
<1>2. PICK x : x \in m
  BY <1>1
<1>3. m \subseteq 1..n /\ ~ Topped(m)
  BY <1>1
<1>4. \A y \in m : y \in Nat
  BY <1>3
<1>5. CASE m = {x}
  BY <1>2, <1>3, <1>4, <1>5
<1>6. CASE m # {x}
  <2>1. m \ {x} \in SUBSET m /\ m \ {x} # m /\ m \ {x} # {} /\ m \ {x} \subseteq s
    BY <1>1, <1>2, <1>6
  <2>2. Topped(m \ {x})
    BY <1>1, <2>1
  <2>3. PICK y \in m \ {x} : \A z \in m \ {x} : y >= z
    BY <2>2
  <2>4. CASE y >= x
    <3>1. \A z \in m : y >= z
      BY <2>3, <2>4
    <3> QED
      BY <1>3, <2>3, <3>1
  <2>5. CASE ~ (y >= x)
    <3>1. \A z \in m : x >= z
      BY <1>2, <1>4, <2>3, <2>5
    <3> QED
      BY <1>2, <1>3, <3>1
  <2> QED
    BY <2>4, <2>5
<1> QED
  BY <1>5, <1>6

\* The last of the links is there to be taken.
Ordered(D) == IsFiniteSet(D) /\ \A s \in SUBSET D : s # {} => Top(s) \in s

LEMMA LinksOrdered ==
  ASSUME NEW n \in Nat
  PROVE  Ordered(1..n)
<1>1. IsFiniteSet(1..n)
  BY FS_Interval
<1> QED
  BY <1>1, TopIsIn DEF Ordered

\* enqueue of one link.
Room(s, p) ==
  IF p \in s.seen \/ ~ Crawl!Crawlable(p) \/ Crawl!Cardinality(s.seen) >= MaxQueued THEN s
  ELSE [seen |-> s.seen \cup {p}, queue |-> Append(s.queue, p)]

\* What a set of the links leaves, the last of them last, where g says so of its subsets.
After(links, g, s) == Room(g[s \ {Top(s)}], links[Top(s)])
Fills(state, links, S, g) == g = [s \in SUBSET S |-> IF s = {} THEN state ELSE After(links, g, s)]
\* As it is used below.
FillsUp(state, links, S, g) ==
  /\ g[{}] = state
  /\ \A s \in SUBSET S : s # {} => g[s] = After(links, g, s)

LEMMA FillsIsUp ==
  ASSUME NEW state, NEW links, NEW S, NEW g, Fills(state, links, S, g)
  PROVE  FillsUp(state, links, S, g)
<1>1. g[{}] = state
  BY DEF Fills
<1>2. \A s \in SUBSET S : s # {} => g[s] = After(links, g, s)
  BY Zenon DEF Fills
<1> QED
  BY <1>1, <1>2 DEF FillsUp

LEMMA FillsAgree ==
  ASSUME NEW state, NEW links, NEW S, Ordered(S), NEW T \in SUBSET S,
         NEW g, NEW h, FillsUp(state, links, S, g), FillsUp(state, links, T, h)
  PROVE  \A s \in SUBSET T : g[s] = h[s]
<1> DEFINE Odd == {s \in SUBSET T : g[s] # h[s]}
<1> SUFFICES ASSUME Odd # {} PROVE FALSE
  OBVIOUS
<1>1. PICK m \in Odd : \A t \in SUBSET m : t # m => t \notin Odd
  <2>1. Odd \subseteq SUBSET S
    OBVIOUS
  <2>2. IsFiniteSet(S)
    BY DEF Ordered
  <2> HIDE DEF Odd
  <2> QED
    BY <2>1, <2>2, SmallestSet
<1>2. m \in SUBSET T /\ m \in SUBSET S /\ g[m] # h[m]
  BY <1>1
<1>3. m # {}
  BY <1>2 DEF FillsUp
<1>4. Top(m) \in m
  BY <1>2, <1>3 DEF Ordered
<1>5. m \ {Top(m)} \in SUBSET m /\ m \ {Top(m)} \in SUBSET T /\ m \ {Top(m)} # m
  BY <1>2, <1>4
<1>6. g[m \ {Top(m)}] = h[m \ {Top(m)}]
  BY <1>1, <1>5
<1>7. g[m] = After(links, g, m) /\ h[m] = After(links, h, m)
  BY <1>2, <1>3 DEF FillsUp
<1>8. After(links, g, m) = After(links, h, m)
  BY <1>6 DEF After
<1> QED
  BY <1>2, <1>7, <1>8

LEMMA FillsExist ==
  ASSUME NEW state, NEW links, NEW D, Ordered(D)
  PROVE  \E g : Fills(state, links, D, g)
<1> DEFINE Without == {s \in SUBSET D : \A g : ~ Fills(state, links, s, g)}
<1> SUFFICES ASSUME Without # {} PROVE FALSE
  OBVIOUS
<1>1. PICK m \in Without : \A t \in SUBSET m : t # m => t \notin Without
  <2>1. Without \subseteq SUBSET D
    OBVIOUS
  <2>2. IsFiniteSet(D)
    BY DEF Ordered
  <2> HIDE DEF Without
  <2> QED
    BY <2>1, <2>2, SmallestSet
<1> DEFINE G(t) == CHOOSE g : Fills(state, links, t, g)
           less(s) == s \ {Top(s)}
           h == [s \in SUBSET m |-> IF s = {} THEN state ELSE Room(G(less(s))[less(s)], links[Top(s)])]
<1>2. ASSUME NEW t \in SUBSET m, t # m
      PROVE  Fills(state, links, t, G(t))
  BY <1>1, <1>2
<1>m. m \in SUBSET D /\ Ordered(m)
  BY <1>1, FS_Subset DEF Ordered
<1>3. ASSUME NEW s \in SUBSET m, s # {}
      PROVE  less(s) \in SUBSET m /\ less(s) # m /\ less(s) # s /\ less(s) \in SUBSET s
  <2>1. Top(s) \in s
    BY <1>m, <1>3 DEF Ordered
  <2> QED
    BY <2>1
<1> HIDE DEF G, less
<1>4. ASSUME NEW t \in SUBSET m, t # m
      PROVE  h[t] = G(t)[t]
  <2>0. FillsUp(state, links, t, G(t))
    BY <1>2, <1>4, FillsIsUp
  <2>1. CASE t = {}
    <3>1. G(t)[t] = state
      BY <2>0, <2>1 DEF FillsUp
    <3>2. h[t] = state
      BY <2>1
    <3> QED
      BY <3>1, <3>2
  <2>2. CASE t # {}
    <3>1. G(t)[t] = Room(G(t)[less(t)], links[Top(t)])
      BY <2>0, <2>2 DEF less, FillsUp, After
    <3>2. less(t) \in SUBSET t /\ less(t) \in SUBSET m /\ less(t) # m
      BY <1>3, <2>2
    <3>3. Ordered(t)
      BY <1>m, FS_Subset DEF Ordered
    <3>4. FillsUp(state, links, less(t), G(less(t))) /\ FillsUp(state, links, t, G(t))
      BY <1>2, <1>4, <3>2, FillsIsUp
    <3>5. G(t)[less(t)] = G(less(t))[less(t)]
      <4>1. PICK a : a = G(t)
        OBVIOUS
      <4>2. PICK r : r = less(t)
        OBVIOUS
      <4>3. PICK b : b = G(r)
        OBVIOUS
      <4>4. FillsUp(state, links, t, a) /\ FillsUp(state, links, r, b) /\ r \in SUBSET t
        BY <3>2, <3>4, <4>1, <4>2, <4>3
      <4>5. \A s \in SUBSET r : a[s] = b[s]
        BY <3>3, <4>4, FillsAgree
      <4>6. a[r] = b[r]
        BY <4>5
      <4> QED
        BY <4>1, <4>2, <4>3, <4>6
    <3>6. h[t] = Room(G(less(t))[less(t)], links[Top(t)])
      BY <2>2
    <3> QED
      BY <3>1, <3>5, <3>6
  <2> QED
    BY <2>1, <2>2
<1>5. ASSUME NEW s \in SUBSET m
      PROVE  h[s] = IF s = {} THEN state ELSE Room(h[less(s)], links[Top(s)])
  <2>1. CASE s = {}
    BY <2>1
  <2>2. CASE s # {}
    <3>1. h[less(s)] = G(less(s))[less(s)]
      BY <1>3, <1>4, <2>2
    <3>2. h[s] = Room(G(less(s))[less(s)], links[Top(s)])
      BY <2>2
    <3> HIDE DEF h
    <3> QED
      BY <2>2, <3>1, <3>2
  <2> QED
    BY <2>1, <2>2
<1>6. h = [s \in SUBSET m |-> h[s]]
  OBVIOUS
<1> HIDE DEF h
<1>7. Fills(state, links, m, h)
  <2>1. h = [s \in SUBSET m |-> IF s = {} THEN state ELSE Room(h[less(s)], links[Top(s)])]
    BY <1>5, <1>6
  <2> QED
    BY <2>1, Zenon DEF Fills, After, less
<1> QED
  BY <1>1, <1>7

LEMMA EnqueueFills ==
  ASSUME NEW state, NEW links \in Seq(Pages)
  PROVE  \E g : Fills(state, links, 1..Len(links), g) /\ Crawl!Enqueue(state, links) = g[1..Len(links)]
<1> DEFINE D == 1..Len(links)
<1>1. DOMAIN links = D /\ Len(links) \in Nat
  OBVIOUS
<1>2. PICK g : Fills(state, links, D, g)
  BY <1>1, LinksOrdered, FillsExist
<1>3. Fills(state, links, D, CHOOSE h : Fills(state, links, D, h))
  BY <1>2, Zenon
<1>4. Crawl!Enqueue(state, links) = (CHOOSE h : Fills(state, links, DOMAIN links, h))[DOMAIN links]
  BY DEF Crawl!Enqueue, Crawl!FoldLeft, Crawl!MapThenFoldSet, Crawl!Max, Fills, After, Room, Top
<1> QED
  BY <1>1, <1>3, <1>4

QueueStates == [seen : SUBSET Pages, queue : Seq(Pages)]
\* A link was offered to the queue: it is not to be crawled, known, or there is no room.
Offered(S, p) == ~ Crawl!Crawlable(p) \/ p \in S \/ Cardinality(S) >= MaxQueued
\* What enqueue makes of a state.
Grows(a, b) ==
  /\ b \in QueueStates /\ IsFiniteSet(b.seen) /\ a.seen \subseteq b.seen
  /\ \A p \in b.seen \ a.seen : Crawl!Crawlable(p)
  /\ Crawl!ToSet(b.queue) = Crawl!ToSet(a.queue) \cup (b.seen \ a.seen)

LEMMA OfferedStays ==
  ASSUME Crawl!CrawlerParameters, wSite \in Sites, NEW S, NEW T, S \subseteq T, IsFiniteSet(T), NEW p, Offered(S, p)
  PROVE  Offered(T, p)
<1>1. Cardinality(S) <= Cardinality(T) /\ Cardinality(S) \in Nat /\ Cardinality(T) \in Nat /\ MaxQueued \in Nat
  BY FS_Subset, FS_CardinalityType, SiteIs
<1> QED
  BY <1>1 DEF Offered

LEMMA RoomGrows ==
  ASSUME Crawl!CrawlerParameters, wSite \in Sites,
         NEW a \in QueueStates, IsFiniteSet(a.seen), NEW p \in Pages
  PROVE  Grows(a, Room(a, p)) /\ Offered(Room(a, p).seen, p)
<1>1. Crawl!Cardinality(a.seen) = Cardinality(a.seen)
  BY DEF Crawl!Cardinality, Cardinality
<1>2. CASE p \in a.seen \/ ~ Crawl!Crawlable(p) \/ Crawl!Cardinality(a.seen) >= MaxQueued
  <2>1. Room(a, p) = a
    BY <1>2 DEF Room
  <2>2. Offered(a.seen, p)
    BY <1>1, <1>2 DEF Offered
  <2>3. Grows(a, a)
    BY DEF Grows
  <2> QED
    BY <2>1, <2>2, <2>3
<1>3. CASE ~ (p \in a.seen \/ ~ Crawl!Crawlable(p) \/ Crawl!Cardinality(a.seen) >= MaxQueued)
  <2>1. Room(a, p) = [seen |-> a.seen \cup {p}, queue |-> Append(a.queue, p)]
    BY <1>3 DEF Room
  <2>2. a.queue \in Seq(Pages) /\ a.seen \subseteq Pages
    BY DEF QueueStates
  <2>3. Append(a.queue, p) \in Seq(Pages) /\ Crawl!ToSet(Append(a.queue, p)) = Crawl!ToSet(a.queue) \cup {p}
    BY <2>2, SetOfAppend
  <2>4. IsFiniteSet(a.seen \cup {p})
    BY FS_AddElement
  <2>5. [seen |-> a.seen \cup {p}, queue |-> Append(a.queue, p)] \in QueueStates
    BY <2>2, <2>3 DEF QueueStates
  <2>6. Grows(a, [seen |-> a.seen \cup {p}, queue |-> Append(a.queue, p)])
    BY <1>3, <2>2, <2>3, <2>4, <2>5 DEF Grows
  <2>7. Offered(a.seen \cup {p}, p)
    BY DEF Offered
  <2> QED
    BY <2>1, <2>6, <2>7
<1> QED
  BY <1>2, <1>3

LEMMA GrowsOn ==
  ASSUME NEW a, NEW b, NEW c, Grows(a, b), Grows(b, c)
  PROVE  Grows(a, c)
BY DEF Grows

\* enqueue of a list of links.
LEMMA EnqueueGrows ==
  ASSUME Crawl!CrawlerParameters, wSite \in Sites,
         NEW a \in QueueStates, IsFiniteSet(a.seen), NEW links \in Seq(Pages)
  PROVE  /\ Grows(a, Crawl!Enqueue(a, links))
         /\ \A p \in Crawl!ToSet(links) : Offered(Crawl!Enqueue(a, links).seen, p)
<1> DEFINE D == 1..Len(links)
<1>1. PICK g : Fills(a, links, D, g) /\ Crawl!Enqueue(a, links) = g[D]
  BY EnqueueFills
<1>2. FillsUp(a, links, D, g)
  BY <1>1, FillsIsUp
<1>3. Ordered(D) /\ IsFiniteSet(D)
  BY LinksOrdered DEF Ordered
<1> DEFINE Done(s) == Grows(a, g[s]) /\ \A i \in s : Offered(g[s].seen, links[i])
           Odd == {s \in SUBSET D : ~ Done(s)}
<1>4. ASSUME Odd # {} PROVE FALSE
  <2>1. PICK m \in Odd : \A t \in SUBSET m : t # m => t \notin Odd
    <3>1. Odd \subseteq SUBSET D
      OBVIOUS
    <3> HIDE DEF Odd, D
    <3> QED
      BY <1>3, <1>4, <3>1, SmallestSet
  <2>2. m \in SUBSET D /\ ~ Done(m)
    BY <2>1
  <2>3. m # {}
    <3>1. Grows(a, a)
      BY DEF Grows
    <3>2. g[{}] = a
      BY <1>2 DEF FillsUp
    <3>3. Done({})
      BY <3>1, <3>2
    <3> QED
      BY <2>2, <3>3
  <2>4. PICK x : x = Top(m) /\ x \in m
    BY <1>3, <2>2, <2>3 DEF Ordered
  <2>5. PICK rest : rest = m \ {x}
    OBVIOUS
  <2>6. Done(rest)
    <3>1. rest \in SUBSET m /\ rest # m /\ rest \in SUBSET D
      BY <2>2, <2>4, <2>5
    <3> HIDE DEF Done, D
    <3> QED
      BY <2>1, <3>1
  <2>7. PICK b : b = g[rest]
    OBVIOUS
  <2>8. links[x] \in Pages
    BY <2>2, <2>4
  <2>9. g[m] = Room(b, links[x])
    BY <1>2, <2>2, <2>3, <2>4, <2>5, <2>7 DEF FillsUp, After
  <2>10. Grows(a, b) /\ b \in QueueStates /\ IsFiniteSet(b.seen)
    BY <2>6, <2>7 DEF Grows
  <2>11. Grows(b, Room(b, links[x])) /\ Offered(Room(b, links[x]).seen, links[x])
    BY <2>8, <2>10, RoomGrows
  <2>12. PICK c : c = g[m]
    OBVIOUS
  <2>13. Grows(b, c) /\ Offered(c.seen, links[x])
    BY <2>9, <2>11, <2>12
  <2>14. Grows(a, c)
    BY <2>10, <2>13, GrowsOn
  <2>15. ASSUME NEW i \in m PROVE Offered(c.seen, links[i])
    <3>1. CASE i = x
      BY <2>13, <3>1
    <3>2. CASE i # x
      <4>1. Offered(b.seen, links[i])
        BY <2>5, <2>6, <2>7, <2>15, <3>2
      <4>2. b.seen \subseteq c.seen /\ IsFiniteSet(c.seen)
        BY <2>13 DEF Grows
      <4> QED
        BY <4>1, <4>2, OfferedStays
    <3> QED
      BY <3>1, <3>2
  <2> QED
    BY <2>2, <2>12, <2>14, <2>15
<1>5. Done(D)
  <2> HIDE DEF Done, D
  <2> QED
    BY <1>4
<1>6. ASSUME NEW p \in Crawl!ToSet(links) PROVE Offered(g[D].seen, p)
  <2>1. PICK i \in D : links[i] = p
    BY <1>6, InSequence
  <2> QED
    BY <1>5, <2>1
<1> QED
  BY <1>1, <1>5, <1>6

-----------------------------------------------------------------------------
(* What is invariant of a crawl *)

LaneRecords == [pc : {"start", "fetch", "read", "record", "gone"}, page : Pages]
\* A lane is where it has page p.
AtPage(l, pc, p) == wLane[l].pc = pc /\ wLane[l].page = p
Capped == Len(wPages) >= wMaxPages
Underway == wPhase \in {"links", "pages", "done"}
\* What p leads to was read, or is no page.
Reached(p, read) == \A f \in Crawl!Landed(p) : wSite.answer[f] = "file" \/ f \in read

CrawlTyped ==
  /\ wSite \in Sites /\ wMaxPages \in Nat \ {0}
  /\ wPhase \in {"home", "links", "pages", "done", "failed"}
  /\ wPages \in Seq(Pages) /\ wQueue \in Seq(Pages)
  /\ wSeen \subseteq Pages /\ IsFiniteSet(wSeen) /\ wCrawled \subseteq Pages
  /\ wLane \in [Crawlers -> LaneRecords]
\* The lanes begin with what the home page leads to, and end with nothing left or the cap reached.
Phases ==
  /\ wPhase \in {"home", "links"} => wQueue = <<>> /\ \A l \in Crawlers : wLane[l].pc = "start"
  /\ wPhase = "home" => wPages = <<>> /\ wCrawled = {}
  /\ wPhase = "links" => Len(wPages) = 1 /\ wCrawled = Crawl!ToSet(wPages)
  /\ wPhase = "done" => (Capped \/ wQueue = <<>>) /\ \A l \in Crawlers : wLane[l].pc = "gone"
\* A page that is read is no other lane's, and not recorded yet.
ReadApart ==
  /\ Crawl!IsInjective(wPages) /\ Crawl!ToSet(wPages) \subseteq wCrawled /\ Len(wPages) <= wMaxPages
  /\ \A l \in Crawlers : wLane[l].pc = "read" =>
       /\ wLane[l].page \in wCrawled \ Crawl!ToSet(wPages)
       /\ \A k \in Crawlers \ {l} : wLane[k].pc = "read" => wLane[k].page # wLane[l].page
AllAllowed ==
  /\ \A p \in Crawl!ToSet(wQueue) : Crawl!Crawlable(p)
  /\ \A l \in Crawlers : wLane[l].pc = "fetch" => Crawl!Crawlable(wLane[l].page)
  /\ \A p \in wRequested : Crawl!Crawlable(p) \/ p \in Crawl!ToSet(Crawl!Hops(Home))
\* Below the cap, what was seen is in the queue, asked for, broken or reached; what was read is with
\* its lane, broken or recorded; and what a recorded page links to was offered to the queue.
SeenReached ==
  Underway /\ ~ Capped =>
    \A p \in wSeen : \/ p \in Crawl!ToSet(wQueue) \/ p \in wBroken \/ Reached(p, wCrawled)
                    \/ \E l \in Crawlers : AtPage(l, "fetch", p)
ReadRecorded ==
  Underway /\ ~ Capped =>
    \A f \in wCrawled : f \in wBroken \/ f \in Crawl!ToSet(wPages) \/ \E l \in Crawlers : AtPage(l, "read", f)
LinksOffered ==
  wPhase \in {"pages", "done"} =>
    /\ \A f \in Crawl!ToSet(wPages) : wSite.answer[f] = "page" =>
         \/ \E l \in Crawlers : AtPage(l, "record", f)
         \/ \A p \in Crawl!ToSet(wSite.links[f]) : Offered(wSeen, p)
    /\ wMapped => \A p \in Crawl!ToSet(wSite.sitemap) : Offered(wSeen, p)

CrawlInv == CrawlTyped /\ Phases /\ ReadApart /\ AllAllowed /\ SeenReached /\ ReadRecorded /\ LinksOffered

HopsOf(s, p) ==
  LET Chain[n \in 0..MaxHops] ==
        IF n = 0 THEN <<p>>
        ELSE LET c == Chain[n - 1]
                 next == s.to[Crawl!Last(c)]
             IN IF next # Crawl!Last(c) /\ (p = Home \/ next \in s.crawlable) THEN Append(c, next) ELSE c
  IN Chain[MaxHops]

\* The site does not change.
LEMMA SiteStays ==
  ASSUME wSite' = wSite
  PROVE  /\ \A p : Crawl!Crawlable(p)' <=> Crawl!Crawlable(p)
         /\ \A p : Crawl!Hops(p)' = Crawl!Hops(p)
         /\ \A p, read : Reached(p, read)' <=> Reached(p, read)
         /\ \A S, p : Offered(S, p)' <=> Offered(S, p)
<1>1. ASSUME NEW p PROVE Crawl!Crawlable(p)' <=> Crawl!Crawlable(p)
  BY DEF Crawl!Crawlable
<1>2. ASSUME NEW p PROVE Crawl!Hops(p)' = Crawl!Hops(p)
  <2>1. Crawl!Hops(p) = HopsOf(wSite, p)
    BY DEF Crawl!Hops, HopsOf, Crawl!Crawlable
  <2>2. Crawl!Hops(p)' = HopsOf(wSite', p)
    BY DEF Crawl!Hops, HopsOf, Crawl!Crawlable
  <2> QED
    BY <2>1, <2>2
<1>3. ASSUME NEW p, NEW read PROVE Reached(p, read)' <=> Reached(p, read)
  <2>1. Crawl!Landed(p)' = Crawl!Landed(p)
    BY <1>2 DEF Crawl!Landed
  <2> QED
    BY <2>1 DEF Reached
<1>4. ASSUME NEW S, NEW p PROVE Offered(S, p)' <=> Offered(S, p)
  BY <1>1 DEF Offered
<1> QED
  BY <1>1, <1>2, <1>3, <1>4

\* What a lane does that takes the next page of q, or returns.
LaneTakes(l, q) ==
  /\ wLane' \in [Crawlers -> LaneRecords] /\ wQueue' \in Seq(Pages)
  /\ \A k \in Crawlers \ {l} : wLane'[k] = wLane[k]
  /\ wLane'[l].pc \in {"fetch", "gone"}
  /\ wLane'[l].pc = "fetch" => wLane'[l].page \in Crawl!ToSet(q)
  /\ Crawl!ToSet(wQueue') \subseteq Crawl!ToSet(q)
  /\ \A p \in Crawl!ToSet(q) : p \in Crawl!ToSet(wQueue') \/ (wLane'[l].pc = "fetch" /\ wLane'[l].page = p)

LEMMA LoopTakes ==
  ASSUME CrawlTyped, NEW l \in Crawlers, NEW q \in Seq(Pages), NEW n, Crawl!Loops(l, n, q)
  PROVE  LaneTakes(l, q)
<1>1. CASE n < wMaxPages /\ q # <<>>
  <2>1. wLane' = [wLane EXCEPT ![l] = [pc |-> "fetch", page |-> Head(q)]] /\ wQueue' = Tail(q)
    BY <1>1 DEF Crawl!Loops
  <2>2. Tail(q) \in Seq(Pages) /\ Head(q) \in Pages /\ Crawl!ToSet(q) = {Head(q)} \cup Crawl!ToSet(Tail(q))
    BY <1>1, SetOfTail
  <2>3. [pc |-> "fetch", page |-> Head(q)] \in LaneRecords
    BY <2>2 DEF LaneRecords
  <2>4. /\ wLane' \in [Crawlers -> LaneRecords] /\ \A k \in Crawlers \ {l} : wLane'[k] = wLane[k]
        /\ wLane'[l].pc = "fetch" /\ wLane'[l].page = Head(q)
    BY <2>1, <2>3 DEF CrawlTyped
  <2> QED
    BY <2>1, <2>2, <2>4 DEF LaneTakes
<1>2. CASE ~ (n < wMaxPages /\ q # <<>>)
  <2>1. wLane' = [wLane EXCEPT ![l].pc = "gone"] /\ wQueue' = q
    BY <1>2 DEF Crawl!Loops
  <2>2. /\ wLane' \in [Crawlers -> LaneRecords] /\ \A k \in Crawlers \ {l} : wLane'[k] = wLane[k]
        /\ wLane'[l].pc = "gone"
    BY <2>1 DEF CrawlTyped, LaneRecords
  <2> QED
    BY <2>1, <2>2 DEF LaneTakes
<1> QED
  BY <1>1, <1>2

\* What stays when a lane takes a step.
CrawlStays == UNCHANGED <<wSite, wMaxPages, wMapped>> /\ wBroken \subseteq wBroken'
\* A lane's step after which it is at the head of its loop, with queue q: it is done with its page.
GoesOn(l, q) ==
  /\ CrawlStays /\ UNCHANGED <<wPhase, wPages, wCrawled>> /\ LaneTakes(l, q)
  /\ wPhase \in {"pages", "failed"}
  /\ wSeen \subseteq wSeen' /\ wSeen' \subseteq Pages /\ IsFiniteSet(wSeen')
  /\ Crawl!ToSet(wQueue) \subseteq Crawl!ToSet(q)
  /\ \A p \in Crawl!ToSet(q) : Crawl!Crawlable(p)
  /\ \A p \in wRequested' : Crawl!Crawlable(p) \/ p \in Crawl!ToSet(Crawl!Hops(Home))
  /\ \A p \in wSeen' \ wSeen : p \in Crawl!ToSet(q) \/ Reached(p, wCrawled)
  /\ wLane[l].pc = "fetch" => wLane[l].page \in wBroken' \/ Reached(wLane[l].page, wCrawled)
  /\ wLane[l].pc = "read" => wLane[l].page \in wBroken' \/ Capped
  /\ wLane[l].pc = "record" /\ wSite.answer[wLane[l].page] = "page" =>
       \A p \in Crawl!ToSet(wSite.links[wLane[l].page]) : Offered(wSeen', p)

LEMMA GoesOnKeeps ==
  ASSUME Crawl!CrawlerParameters, CrawlInv, NEW l \in Crawlers, NEW q \in Seq(Pages), GoesOn(l, q)
  PROVE  CrawlInv'
<1>0. /\ wSite' = wSite /\ wMaxPages' = wMaxPages /\ wPhase' = wPhase /\ wPages' = wPages /\ wCrawled' = wCrawled
      /\ wMapped' = wMapped /\ wBroken \subseteq wBroken' /\ wSeen \subseteq wSeen'
      /\ wPhase \in {"pages", "failed"}
  BY DEF GoesOn, CrawlStays
<1>1. CrawlTyped'
  BY <1>0 DEF CrawlInv, CrawlTyped, GoesOn, LaneTakes
<1>2. Phases'
  BY <1>0 DEF Phases
<1>t. /\ \A k \in Crawlers \ {l} : wLane'[k] = wLane[k]
      /\ wLane'[l].pc \in {"fetch", "gone"}
      /\ wLane'[l].pc = "fetch" => wLane'[l].page \in Crawl!ToSet(q)
      /\ Crawl!ToSet(wQueue') \subseteq Crawl!ToSet(q)
      /\ \A p \in Crawl!ToSet(q) : p \in Crawl!ToSet(wQueue') \/ (wLane'[l].pc = "fetch" /\ wLane'[l].page = p)
  BY DEF GoesOn, LaneTakes
<1>s. Crawl!ToSet(wQueue)' = Crawl!ToSet(wQueue') /\ Crawl!ToSet(wPages)' = Crawl!ToSet(wPages)
  BY <1>0 DEF Crawl!ToSet
<1>3. ReadApart'
  <2>1. Crawl!IsInjective(wPages)' <=> Crawl!IsInjective(wPages)
    BY <1>0 DEF Crawl!IsInjective
  <2> QED
    BY <1>0, <1>t, <1>s, <2>1 DEF CrawlInv, ReadApart
<1>4. AllAllowed'
  BY <1>0, <1>t, <1>s, SiteStays DEF CrawlInv, AllAllowed, GoesOn
<1>5. SeenReached'
  <2> SUFFICES ASSUME Underway, ~ Capped, NEW p \in wSeen'
               PROVE  \/ p \in Crawl!ToSet(wQueue') \/ p \in wBroken' \/ Reached(p, wCrawled)
                      \/ \E k \in Crawlers : wLane'[k].pc = "fetch" /\ wLane'[k].page = p
    BY <1>0, <1>s, SiteStays DEF SeenReached, Underway, Capped, AtPage
  <2>1. ASSUME p \in Crawl!ToSet(q)
        PROVE  p \in Crawl!ToSet(wQueue') \/ \E k \in Crawlers : wLane'[k].pc = "fetch" /\ wLane'[k].page = p
    BY <1>t, <2>1
  <2>2. CASE p \notin wSeen
    BY <2>1, <2>2 DEF GoesOn
  <2>3. CASE p \in wSeen
    <3>1. \/ p \in Crawl!ToSet(wQueue) \/ p \in wBroken \/ Reached(p, wCrawled)
          \/ \E k \in Crawlers : AtPage(k, "fetch", p)
      BY <2>3 DEF CrawlInv, SeenReached
    <3>2. ASSUME NEW k \in Crawlers, AtPage(k, "fetch", p)
          PROVE  p \in wBroken' \/ Reached(p, wCrawled) \/ \E j \in Crawlers : wLane'[j].pc = "fetch" /\ wLane'[j].page = p
      <4>1. CASE k = l
        BY <3>2, <4>1 DEF GoesOn, AtPage
      <4>2. CASE k # l
        BY <1>t, <3>2, <4>2 DEF AtPage
      <4> QED
        BY <4>1, <4>2
    <3>3. Crawl!ToSet(wQueue) \subseteq Crawl!ToSet(q)
      BY DEF GoesOn
    <3> QED
      BY <1>0, <2>1, <3>1, <3>2, <3>3
  <2> QED
    BY <2>2, <2>3
<1>6. ReadRecorded'
  <2> SUFFICES ASSUME Underway, ~ Capped, NEW f \in wCrawled
               PROVE  f \in wBroken' \/ f \in Crawl!ToSet(wPages)
                      \/ \E k \in Crawlers : wLane'[k].pc = "read" /\ wLane'[k].page = f
    BY <1>0, <1>s DEF ReadRecorded, Underway, Capped, AtPage
  <2>1. f \in wBroken \/ f \in Crawl!ToSet(wPages) \/ \E k \in Crawlers : AtPage(k, "read", f)
    BY DEF CrawlInv, ReadRecorded
  <2>2. ASSUME NEW k \in Crawlers, AtPage(k, "read", f)
        PROVE  f \in wBroken' \/ \E j \in Crawlers : wLane'[j].pc = "read" /\ wLane'[j].page = f
    <3>1. CASE k = l
      BY <2>2, <3>1 DEF GoesOn, AtPage
    <3>2. CASE k # l
      BY <1>t, <2>2, <3>2 DEF AtPage
    <3> QED
      BY <3>1, <3>2
  <2> QED
    BY <1>0, <2>1, <2>2
<1>7. LinksOffered'
  <2> SUFFICES ASSUME wPhase = "pages"
               PROVE  /\ \A f \in Crawl!ToSet(wPages) : wSite.answer[f] = "page" =>
                           \/ \E k \in Crawlers : wLane'[k].pc = "record" /\ wLane'[k].page = f
                           \/ \A p \in Crawl!ToSet(wSite.links[f]) : Offered(wSeen', p)
                      /\ wMapped => \A p \in Crawl!ToSet(wSite.sitemap) : Offered(wSeen', p)
    <3>1. /\ \A f : Crawl!ToSet(wSite.links[f])' = Crawl!ToSet(wSite.links[f])
          /\ Crawl!ToSet(wSite.sitemap)' = Crawl!ToSet(wSite.sitemap)
      BY <1>0 DEF Crawl!ToSet
    <3>2. \A p : Offered(wSeen, p)' <=> Offered(wSeen', p)
      BY <1>0 DEF Offered, Crawl!Crawlable
    <3> QED
      BY <1>0, <1>s, <3>1, <3>2 DEF LinksOffered, AtPage
  <2>1. ASSUME NEW p, Offered(wSeen, p) PROVE Offered(wSeen', p)
    BY <2>1, OfferedStays DEF CrawlInv, CrawlTyped, GoesOn
  <2>2. ASSUME NEW f \in Crawl!ToSet(wPages), wSite.answer[f] = "page"
        PROVE  \/ \E k \in Crawlers : wLane'[k].pc = "record" /\ wLane'[k].page = f
               \/ \A p \in Crawl!ToSet(wSite.links[f]) : Offered(wSeen', p)
    <3>1. CASE \E k \in Crawlers : AtPage(k, "record", f)
      <4>1. PICK k \in Crawlers : AtPage(k, "record", f)
        BY <3>1
      <4>2. CASE k = l
        BY <2>2, <4>1, <4>2 DEF GoesOn, AtPage
      <4>3. CASE k # l
        BY <1>t, <4>1, <4>3 DEF AtPage
      <4> QED
        BY <4>2, <4>3
    <3>2. CASE \A p \in Crawl!ToSet(wSite.links[f]) : Offered(wSeen, p)
      BY <2>1, <3>2
    <3> QED
      BY <2>2, <3>1, <3>2 DEF CrawlInv, LinksOffered
  <2>3. wMapped => \A p \in Crawl!ToSet(wSite.sitemap) : Offered(wSeen', p)
    BY <2>1 DEF CrawlInv, LinksOffered
  <2> QED
    BY <2>2, <2>3
<1> QED
  BY <1>1, <1>2, <1>3, <1>4, <1>5, <1>6, <1>7 DEF CrawlInv

\* A step after which the crawl has failed.
LEMMA FailingKeeps ==
  ASSUME CrawlInv, wPhase' = "failed", UNCHANGED <<wSite, wMaxPages, wPages, wSeen, wCrawled, wQueue>>,
         \A p \in wRequested' : Crawl!Crawlable(p) \/ p \in Crawl!ToSet(Crawl!Hops(Home)),
         wLane' \in [Crawlers -> LaneRecords],
         \A k \in Crawlers : wLane'[k] = wLane[k] \/ wLane'[k].pc = "gone"
  PROVE  CrawlInv'
<1>1. CrawlTyped'
  BY DEF CrawlInv, CrawlTyped
<1>2. Phases' /\ SeenReached' /\ ReadRecorded' /\ LinksOffered'
  BY DEF Phases, SeenReached, ReadRecorded, LinksOffered, Underway
<1>3. ReadApart'
  BY DEF CrawlInv, ReadApart, Crawl!IsInjective, Crawl!ToSet
<1>4. AllAllowed'
  <2>1. Crawl!ToSet(wQueue)' = Crawl!ToSet(wQueue)
    BY DEF Crawl!ToSet
  <2> QED
    BY <2>1, SiteStays DEF CrawlInv, AllAllowed
<1> QED
  BY <1>1, <1>2, <1>3, <1>4 DEF CrawlInv

LEMMA ThrowsKeeps ==
  ASSUME CrawlInv, NEW l \in Crawlers, Crawl!Throws(l), UNCHANGED <<wSite, wMaxPages, wPages, wSeen, wCrawled, wRequested>>
  PROVE  CrawlInv'
<1>1. /\ wLane' \in [Crawlers -> LaneRecords]
      /\ \A k \in Crawlers : wLane'[k] = wLane[k] \/ wLane'[k].pc = "gone"
  BY DEF Crawl!Throws, CrawlInv, CrawlTyped, LaneRecords
<1> QED
  BY <1>1, FailingKeeps DEF Crawl!Throws, CrawlInv, AllAllowed

\* A lane past its start is at work only while the pages are crawled, or once the crawl has failed.
LEMMA AtWork ==
  ASSUME CrawlInv, NEW l \in Crawlers, wLane[l].pc \in {"fetch", "read", "record"}
  PROVE  wPhase \in {"pages", "failed"}
BY DEF CrawlInv, CrawlTyped, Phases

\* A lane that goes on with the queue as it is, having seen nothing new.
LEMMA ContinueKeeps ==
  ASSUME Crawl!CrawlerParameters, CrawlInv, NEW l \in Crawlers, Crawl!Continues(l), CrawlStays,
         UNCHANGED <<wPhase, wPages, wSeen, wCrawled, wRequested>>, wPhase \in {"pages", "failed"},
         wLane[l].pc = "fetch" => wLane[l].page \in wBroken',
         wLane[l].pc = "read" => wLane[l].page \in wBroken' \/ Capped,
         wLane[l].pc # "record"
  PROVE  CrawlInv'
<1>1. LaneTakes(l, wQueue) /\ wQueue \in Seq(Pages)
  BY LoopTakes DEF Crawl!Continues, CrawlInv, CrawlTyped
<1>2. GoesOn(l, wQueue)
  BY <1>1 DEF GoesOn, CrawlInv, CrawlTyped, AllAllowed
<1> QED
  BY <1>1, <1>2, GoesOnKeeps

LEMMA StartLaneKeeps ==
  ASSUME Crawl!CrawlerParameters, CrawlInv, NEW l \in Crawlers, Crawl!StartLane(l)
  PROVE  CrawlInv'
BY ContinueKeeps DEF Crawl!StartLane, Crawl!At, Crawl!given, CrawlStays

LEMMA FailsKeeps ==
  ASSUME Crawl!CrawlerParameters, CrawlInv, NEW l \in Crawlers, Crawl!FetchFails(l) \/ Crawl!BodyFails(l)
  PROVE  CrawlInv'
<1>1. /\ wLane[l].pc \in {"fetch", "read"} /\ wLane[l].page \in wBroken' /\ CrawlStays
      /\ UNCHANGED <<wSite, wMaxPages, wPages, wSeen, wCrawled, wRequested>>
      /\ Crawl!Throws(l) \/ (Crawl!Continues(l) /\ UNCHANGED wPhase)
  BY DEF Crawl!FetchFails, Crawl!BodyFails, Crawl!At, Crawl!given, CrawlStays
<1>2. wPhase \in {"pages", "failed"}
  BY <1>1, AtWork
<1> QED
  BY <1>1, <1>2, ThrowsKeeps, ContinueKeeps

\* A page that the answer leads to is its own place.
LEMMA FetchedKeeps ==
  ASSUME Crawl!CrawlerParameters, CrawlInv, NEW l \in Crawlers, Crawl!Fetched(l)
  PROVE  CrawlInv'
<1> DEFINE p == wLane[l].page
           new == Crawl!Landed(p) \ wCrawled
           html == {f \in new : wSite.answer[f] # "file"}
<1>0. wSite \in Sites /\ p \in Pages /\ wLane[l].pc = "fetch" /\ wPhase \in {"pages", "failed"}
  BY AtWork DEF Crawl!Fetched, Crawl!At, CrawlInv, CrawlTyped, LaneRecords
<1>1. /\ Crawl!Last(Crawl!Hops(p)) \in Pages
      /\ Crawl!Landed(p) \subseteq {Crawl!Last(Crawl!Hops(p))}
      /\ \A q \in Crawl!ToSet(Crawl!Hops(p)) : q = p \/ p = Home \/ Crawl!Crawlable(q)
      /\ \A f \in Crawl!Landed(p) : f \in Pages /\ Crawl!Landed(f) = {f}
  BY <1>0, LandedIs
<1>2. Crawl!Crawlable(p)
  BY <1>0 DEF CrawlInv, AllAllowed
<1>3. /\ CrawlStays /\ UNCHANGED <<wPhase, wPages>>
      /\ wRequested' = wRequested \cup Crawl!ToSet(Crawl!Hops(p))
      /\ wSeen' = wSeen \cup new /\ wCrawled' = wCrawled \cup html
  BY DEF Crawl!Fetched, Crawl!given, CrawlStays
<1>4. \A q \in wRequested' : Crawl!Crawlable(q) \/ q \in Crawl!ToSet(Crawl!Hops(Home))
  <2>1. \A q \in Crawl!ToSet(Crawl!Hops(p)) : Crawl!Crawlable(q) \/ q \in Crawl!ToSet(Crawl!Hops(Home))
    BY <1>1, <1>2
  <2> QED
    BY <1>3, <2>1 DEF CrawlInv, AllAllowed
<1>5. IsFiniteSet(wSeen') /\ wSeen' \subseteq Pages /\ wSeen \subseteq wSeen' /\ wCrawled' \subseteq Pages
  <2>1. IsFiniteSet(new)
    <3>1. IsFiniteSet({Crawl!Last(Crawl!Hops(p))})
      BY FS_Singleton
    <3>2. new \subseteq {Crawl!Last(Crawl!Hops(p))}
      BY <1>1
    <3> QED
      BY <3>1, <3>2, FS_Subset
  <2>2. IsFiniteSet(wSeen)
    BY DEF CrawlInv, CrawlTyped
  <2>3. IsFiniteSet(wSeen \cup new)
    BY <2>1, <2>2, FS_Union
  <2>4. new \subseteq Pages /\ html \subseteq Pages
    BY <1>1
  <2> QED
    BY <1>3, <2>3, <2>4 DEF CrawlInv, CrawlTyped
<1>6. Reached(p, wCrawled') /\ \A q \in new : Reached(q, wCrawled')
  BY <1>1, <1>3 DEF Reached
<1>7. CASE html = {}
  <2>1. wCrawled' = wCrawled /\ Crawl!Continues(l)
    BY <1>3, <1>7 DEF Crawl!Fetched
  <2>2. wQueue \in Seq(Pages) /\ LaneTakes(l, wQueue)
    BY <2>1, LoopTakes DEF Crawl!Continues, CrawlInv, CrawlTyped
  <2>3. \A q \in wSeen' \ wSeen : Reached(q, wCrawled)
    BY <1>3, <1>6, <2>1
  <2>4. \A q \in Crawl!ToSet(wQueue) : Crawl!Crawlable(q)
    BY DEF CrawlInv, AllAllowed
  <2>5. Reached(p, wCrawled)
    BY <1>6, <2>1
  <2> HIDE DEF new, html
  <2>6. GoesOn(l, wQueue)
    BY <1>0, <1>3, <1>4, <1>5, <2>1, <2>2, <2>3, <2>4, <2>5 DEF GoesOn
  <2> QED
    BY <2>2, <2>6, GoesOnKeeps
<1>8. CASE html # {}
  <2>1. PICK f \in html : TRUE
    BY <1>8
  <2>2. /\ html = {f} /\ f = Crawl!Last(Crawl!Hops(p)) /\ f \in Pages
        /\ f \notin wCrawled
    BY <1>1, <2>1
  <2>3. wLane' = [wLane EXCEPT ![l] = [pc |-> "read", page |-> f]] /\ wQueue' = wQueue
    BY <1>8, <2>2 DEF Crawl!Fetched
  <2>4. /\ wLane' \in [Crawlers -> LaneRecords] /\ \A k \in Crawlers \ {l} : wLane'[k] = wLane[k]
        /\ wLane'[l].pc = "read" /\ wLane'[l].page = f
    BY <2>2, <2>3 DEF CrawlInv, CrawlTyped, LaneRecords
  <2>5. wCrawled' = wCrawled \cup {f}
    BY <1>3, <2>2
  <2> HIDE DEF html, new
  <2>6. /\ wSite' = wSite /\ wMaxPages' = wMaxPages /\ wPhase' = wPhase /\ wPages' = wPages /\ wMapped' = wMapped
        /\ wBroken \subseteq wBroken' /\ wQueue' = wQueue
    BY <1>3, <2>3 DEF CrawlStays
  <2>7. CrawlTyped'
    BY <1>5, <2>4, <2>6 DEF CrawlInv, CrawlTyped
  <2>8. Phases'
    BY <1>0, <2>6 DEF Phases
  <2>s. Crawl!ToSet(wQueue)' = Crawl!ToSet(wQueue) /\ Crawl!ToSet(wPages)' = Crawl!ToSet(wPages)
        /\ (Crawl!IsInjective(wPages)' <=> Crawl!IsInjective(wPages))
    BY <2>6 DEF Crawl!ToSet, Crawl!IsInjective
  <2>9. ReadApart'
    BY <2>2, <2>4, <2>5, <2>6, <2>s DEF CrawlInv, ReadApart
  <2>10. AllAllowed'
    BY <1>4, <2>4, <2>6, <2>s, SiteStays DEF CrawlInv, AllAllowed
  <2>11. SeenReached'
    <3> SUFFICES ASSUME Underway, ~ Capped, NEW q \in wSeen'
                 PROVE  \/ q \in Crawl!ToSet(wQueue) \/ q \in wBroken' \/ Reached(q, wCrawled')
                        \/ \E k \in Crawlers : wLane'[k].pc = "fetch" /\ wLane'[k].page = q
      BY <2>6, <2>s, SiteStays DEF SeenReached, Underway, Capped, AtPage
    <3>1. CASE q \notin wSeen
      BY <1>3, <1>6, <3>1
    <3>2. CASE q \in wSeen
      <4>1. \/ q \in Crawl!ToSet(wQueue) \/ q \in wBroken \/ Reached(q, wCrawled)
            \/ \E k \in Crawlers : AtPage(k, "fetch", q)
        BY <3>2 DEF CrawlInv, SeenReached
      <4>2. Reached(q, wCrawled) => Reached(q, wCrawled')
        BY <2>5 DEF Reached
      <4>3. ASSUME NEW k \in Crawlers, AtPage(k, "fetch", q)
            PROVE  Reached(q, wCrawled') \/ \E j \in Crawlers : wLane'[j].pc = "fetch" /\ wLane'[j].page = q
        BY <1>6, <2>4, <4>3 DEF AtPage
      <4> QED
        BY <2>6, <4>1, <4>2, <4>3
    <3> QED
      BY <3>1, <3>2
  <2>12. ReadRecorded'
    <3> SUFFICES ASSUME Underway, ~ Capped, NEW h \in wCrawled'
                 PROVE  h \in wBroken' \/ h \in Crawl!ToSet(wPages)
                        \/ \E k \in Crawlers : wLane'[k].pc = "read" /\ wLane'[k].page = h
      BY <2>6, <2>s DEF ReadRecorded, Underway, Capped, AtPage
    <3>1. CASE h = f
      BY <2>4, <3>1
    <3>2. CASE h # f
      <4>1. h \in wBroken \/ h \in Crawl!ToSet(wPages) \/ \E k \in Crawlers : AtPage(k, "read", h)
        BY <2>5, <3>2 DEF CrawlInv, ReadRecorded
      <4>2. ASSUME NEW k \in Crawlers, AtPage(k, "read", h)
            PROVE  wLane'[k].pc = "read" /\ wLane'[k].page = h
        BY <1>0, <2>4, <4>2 DEF AtPage
      <4> QED
        BY <2>6, <4>1, <4>2
    <3> QED
      BY <3>1, <3>2
  <2>13. LinksOffered'
    <3>1. ASSUME NEW q, Offered(wSeen, q) PROVE Offered(wSeen, q)'
      <4>1. Offered(wSeen', q)
        BY <1>0, <1>5, <3>1, OfferedStays
      <4> QED
        BY <2>6, <4>1 DEF Offered, Crawl!Crawlable
    <3>2. \A k \in Crawlers : \A h : AtPage(k, "record", h) => AtPage(k, "record", h)'
      BY <1>0, <2>4 DEF AtPage
    <3>3. /\ \A h : Crawl!ToSet(wSite.links[h])' = Crawl!ToSet(wSite.links[h])
          /\ Crawl!ToSet(wSite.sitemap)' = Crawl!ToSet(wSite.sitemap)
      BY <2>6 DEF Crawl!ToSet
    <3>4. ASSUME wPhase \in {"pages", "done"}, NEW h \in Crawl!ToSet(wPages), wSite.answer[h] = "page"
          PROVE  \/ \E k \in Crawlers : AtPage(k, "record", h)'
                 \/ \A q \in Crawl!ToSet(wSite.links[h]) : Offered(wSeen, q)'
      BY <3>1, <3>2, <3>4 DEF CrawlInv, LinksOffered
    <3>5. ASSUME wPhase \in {"pages", "done"}, wMapped
          PROVE  \A q \in Crawl!ToSet(wSite.sitemap) : Offered(wSeen, q)'
      BY <3>1, <3>5 DEF CrawlInv, LinksOffered
    <3> QED
      BY <2>6, <2>s, <3>3, <3>4, <3>5 DEF LinksOffered
  <2> QED
    BY <2>7, <2>8, <2>9, <2>10, <2>11, <2>12, <2>13 DEF CrawlInv
<1> QED
  BY <1>7, <1>8

LEMMA RecordedKeeps ==
  ASSUME Crawl!CrawlerParameters, CrawlInv, NEW l \in Crawlers, Crawl!Recorded(l)
  PROVE  CrawlInv'
<1>0. wLane[l].pc = "read" /\ wLane[l].page \in Pages /\ wPhase \in {"pages", "failed"}
  BY AtWork DEF Crawl!Recorded, Crawl!At, CrawlInv, CrawlTyped, LaneRecords
<1>1. CASE Len(wPages) >= wMaxPages
  <2>1. Crawl!Continues(l) /\ CrawlStays /\ UNCHANGED <<wPhase, wPages, wSeen, wCrawled, wRequested>> /\ Capped
    BY <1>1 DEF Crawl!Recorded, Crawl!given, CrawlStays, Capped
  <2> QED
    BY <1>0, <2>1, ContinueKeeps
<1>2. CASE ~ (Len(wPages) >= wMaxPages)
  <2> DEFINE f == wLane[l].page
  <2>1. /\ wSite' = wSite /\ wMaxPages' = wMaxPages /\ wPhase' = wPhase /\ wMapped' = wMapped /\ wBroken' = wBroken
        /\ wSeen' = wSeen /\ wCrawled' = wCrawled /\ wQueue' = wQueue /\ wRequested' = wRequested
        /\ wPages' = Append(wPages, f) /\ wLane' = [wLane EXCEPT ![l].pc = "record"]
    BY <1>2 DEF Crawl!Recorded, Crawl!given
  <2>2. /\ wPages \in Seq(Pages) /\ Append(wPages, f) \in Seq(Pages)
        /\ Crawl!ToSet(Append(wPages, f)) = Crawl!ToSet(wPages) \cup {f}
    BY <1>0, SetOfAppend DEF CrawlInv, CrawlTyped
  <2>3. /\ wLane' \in [Crawlers -> LaneRecords] /\ \A k \in Crawlers \ {l} : wLane'[k] = wLane[k]
        /\ wLane'[l].pc = "record" /\ wLane'[l].page = f
    BY <2>1 DEF CrawlInv, CrawlTyped, LaneRecords
  <2>4. /\ f \in wCrawled /\ f \notin Crawl!ToSet(wPages)
        /\ \A k \in Crawlers \ {l} : wLane[k].pc = "read" => wLane[k].page # f
    BY <1>0 DEF CrawlInv, ReadApart
  <2>s. Crawl!ToSet(wPages)' = Crawl!ToSet(wPages) \cup {f} /\ Crawl!ToSet(wQueue)' = Crawl!ToSet(wQueue)
    BY <2>1, <2>2 DEF Crawl!ToSet
  <2>c. Capped \/ ~ Capped' => ~ Capped /\ Underway' = Underway
    BY <1>2, <2>1, <2>2 DEF Capped, Underway, CrawlInv, CrawlTyped
  <2> HIDE DEF f
  <2>5. CrawlTyped'
    BY <2>1, <2>2, <2>3 DEF CrawlInv, CrawlTyped
  <2>6. Phases'
    BY <1>0, <2>1 DEF Phases
  <2>7. ReadApart'
    <3>1. Crawl!IsInjective(wPages)'
      <4>1. \A a, b \in 1..Len(wPages) : wPages[a] = wPages[b] => a = b
        BY <2>2 DEF CrawlInv, ReadApart, Crawl!IsInjective
      <4>2. \A a \in 1..Len(wPages) : wPages[a] # f
        BY <2>2, <2>4, InSequence
      <4>3. /\ Len(wPages) \in Nat /\ DOMAIN wPages' = 1..(Len(wPages) + 1)
            /\ wPages'[Len(wPages) + 1] = f /\ \A a \in 1..Len(wPages) : wPages'[a] = wPages[a]
        BY <2>1, <2>2
      <4>4. \A a \in 1..(Len(wPages) + 1) : a = Len(wPages) + 1 \/ a \in 1..Len(wPages)
        BY <4>3
      <4>5. \A a, b \in 1..(Len(wPages) + 1) : wPages'[a] = wPages'[b] => a = b
        BY <4>1, <4>2, <4>3, <4>4
      <4> QED
        BY <4>3, <4>5 DEF Crawl!IsInjective
    <3>2. Len(wPages') <= wMaxPages'
      BY <1>2, <2>1, <2>2 DEF CrawlInv, CrawlTyped
    <3>3. Crawl!ToSet(wPages)' \subseteq wCrawled'
      BY <2>1, <2>4, <2>s DEF CrawlInv, ReadApart
    <3>4. \A j \in Crawlers : wLane'[j].pc = "read" =>
            /\ wLane'[j].page \in wCrawled \ (Crawl!ToSet(wPages) \cup {f})
            /\ \A k \in Crawlers \ {j} : wLane'[k].pc = "read" => wLane'[k].page # wLane'[j].page
      BY <2>3, <2>4 DEF CrawlInv, ReadApart
    <3> QED
      BY <2>1, <2>s, <3>1, <3>2, <3>3, <3>4 DEF ReadApart
  <2>8. AllAllowed'
    BY <2>1, <2>3, <2>s, SiteStays DEF CrawlInv, AllAllowed
  <2>9. SeenReached'
    <3> SUFFICES ASSUME Underway, ~ Capped, NEW q \in wSeen
                 PROVE  \/ q \in Crawl!ToSet(wQueue) \/ q \in wBroken \/ Reached(q, wCrawled)
                        \/ \E k \in Crawlers : wLane'[k].pc = "fetch" /\ wLane'[k].page = q
      BY <2>1, <2>c, <2>s, SiteStays DEF SeenReached, AtPage
    <3>1. \/ q \in Crawl!ToSet(wQueue) \/ q \in wBroken \/ Reached(q, wCrawled)
          \/ \E k \in Crawlers : AtPage(k, "fetch", q)
      BY DEF CrawlInv, SeenReached
    <3>2. \A k \in Crawlers : AtPage(k, "fetch", q) => wLane'[k].pc = "fetch" /\ wLane'[k].page = q
      BY <1>0, <2>3 DEF AtPage
    <3> QED
      BY <3>1, <3>2
  <2>10. ReadRecorded'
    <3> SUFFICES ASSUME Underway, ~ Capped, NEW h \in wCrawled
                 PROVE  h \in wBroken \/ h \in Crawl!ToSet(wPages) \cup {f}
                        \/ \E k \in Crawlers : wLane'[k].pc = "read" /\ wLane'[k].page = h
      BY <2>1, <2>c, <2>s DEF ReadRecorded, AtPage
    <3>1. h \in wBroken \/ h \in Crawl!ToSet(wPages) \/ \E k \in Crawlers : AtPage(k, "read", h)
      BY DEF CrawlInv, ReadRecorded
    <3>2. \A k \in Crawlers : AtPage(k, "read", h) => h = f \/ (wLane'[k].pc = "read" /\ wLane'[k].page = h)
      BY <2>3 DEF AtPage, f
    <3> QED
      BY <3>1, <3>2
  <2>11. LinksOffered'
    <3>1. \A q : Offered(wSeen, q)' <=> Offered(wSeen, q)
      BY <2>1 DEF Offered, Crawl!Crawlable
    <3>2. /\ \A h : Crawl!ToSet(wSite.links[h])' = Crawl!ToSet(wSite.links[h])
          /\ Crawl!ToSet(wSite.sitemap)' = Crawl!ToSet(wSite.sitemap)
      BY <2>1 DEF Crawl!ToSet
    <3>3. ASSUME wPhase \in {"pages", "done"}, NEW h \in Crawl!ToSet(wPages) \cup {f}, wSite.answer[h] = "page"
          PROVE  \/ \E k \in Crawlers : wLane'[k].pc = "record" /\ wLane'[k].page = h
                 \/ \A q \in Crawl!ToSet(wSite.links[h]) : Offered(wSeen, q)
      <4>1. CASE h = f
        BY <2>3, <4>1
      <4>2. CASE h # f
        <5>1. \/ \E k \in Crawlers : AtPage(k, "record", h)
              \/ \A q \in Crawl!ToSet(wSite.links[h]) : Offered(wSeen, q)
          BY <3>3, <4>2 DEF CrawlInv, LinksOffered
        <5>2. \A k \in Crawlers : AtPage(k, "record", h) => wLane'[k].pc = "record" /\ wLane'[k].page = h
          BY <1>0, <2>3 DEF AtPage
        <5> QED
          BY <5>1, <5>2
      <4> QED
        BY <4>1, <4>2
    <3>4. wPhase \in {"pages", "done"} /\ wMapped => \A q \in Crawl!ToSet(wSite.sitemap) : Offered(wSeen, q)
      BY DEF CrawlInv, LinksOffered
    <3> QED
      BY <2>1, <2>s, <3>1, <3>2, <3>3, <3>4 DEF LinksOffered, AtPage
  <2> QED
    BY <2>5, <2>6, <2>7, <2>8, <2>9, <2>10, <2>11 DEF CrawlInv
<1> QED
  BY <1>1, <1>2

LEMMA StoredKeeps ==
  ASSUME Crawl!CrawlerParameters, CrawlInv, NEW l \in Crawlers, Crawl!Stored(l)
  PROVE  CrawlInv'
<1>0. wLane[l].pc = "record" /\ wLane[l].page \in Pages /\ wPhase \in {"pages", "failed"} /\ wSite \in Sites
  BY AtWork DEF Crawl!Stored, Crawl!At, CrawlInv, CrawlTyped, LaneRecords
<1> DEFINE f == wLane[l].page
           links == IF wSite.answer[f] = "page" THEN wSite.links[f] ELSE <<>>
           a == [seen |-> wSeen, queue |-> wQueue]
           all == Crawl!Enqueue(a, links)
<1>1. CASE Crawl!Throws(l) /\ UNCHANGED wSeen
  BY <1>1, ThrowsKeeps DEF Crawl!Stored, Crawl!given
<1>2. CASE wSeen' = all.seen /\ Crawl!Loops(l, Len(wPages), all.queue) /\ UNCHANGED wPhase
  <2>1. links \in Seq(Pages)
    BY <1>0, SiteIs
  <2>2. a \in QueueStates /\ IsFiniteSet(a.seen)
    BY DEF QueueStates, CrawlInv, CrawlTyped
  <2> HIDE DEF a, links
  <2>3. Grows(a, all) /\ \A p \in Crawl!ToSet(links) : Offered(all.seen, p)
    BY <1>0, <2>1, <2>2, EnqueueGrows
  <2> HIDE DEF all
  <2>4. /\ all.seen \subseteq Pages /\ IsFiniteSet(all.seen) /\ all.queue \in Seq(Pages)
        /\ wSeen \subseteq all.seen /\ \A p \in all.seen \ wSeen : Crawl!Crawlable(p)
        /\ Crawl!ToSet(all.queue) = Crawl!ToSet(wQueue) \cup (all.seen \ wSeen)
    BY <2>3 DEF Grows, QueueStates, a
  <2>5. LaneTakes(l, all.queue)
    BY <1>2, <2>4, LoopTakes DEF CrawlInv
  <2>6. CrawlStays /\ UNCHANGED <<wPhase, wPages, wCrawled, wRequested>>
    BY <1>2 DEF Crawl!Stored, Crawl!given, CrawlStays
  <2>7. wSite.answer[f] = "page" => \A p \in Crawl!ToSet(wSite.links[f]) : Offered(wSeen', p)
    BY <1>2, <2>3 DEF links
  <2>8. \A p \in Crawl!ToSet(all.queue) : Crawl!Crawlable(p)
    BY <2>4 DEF CrawlInv, AllAllowed
  <2>9. GoesOn(l, all.queue)
    BY <1>0, <1>2, <2>4, <2>5, <2>6, <2>7, <2>8 DEF GoesOn, CrawlInv, AllAllowed
  <2> QED
    BY <2>4, <2>9, GoesOnKeeps
<1> QED
  BY <1>1, <1>2 DEF Crawl!Stored

\* The lanes have returned: what is left is for them, or the crawl is done.
LEMMA LanesReturnKeeps ==
  ASSUME CrawlInv, Crawl!LanesReturn
  PROVE  CrawlInv'
<1>1. /\ wSite' = wSite /\ wMaxPages' = wMaxPages /\ wPages' = wPages /\ wSeen' = wSeen /\ wCrawled' = wCrawled
      /\ wQueue' = wQueue /\ wMapped' = wMapped /\ wRequested' = wRequested /\ wBroken' = wBroken
      /\ wPhase = "pages" /\ \A k \in Crawlers : wLane[k].pc = "gone"
  BY DEF Crawl!LanesReturn, Crawl!At, Crawl!given
<1>2. /\ wLane' \in [Crawlers -> LaneRecords]
      /\ \/ wPhase' = "pages" /\ \A k \in Crawlers : wLane'[k].pc = "start"
         \/ wPhase' = "done" /\ wLane' = wLane /\ (Capped \/ wQueue = <<>>)
  <2>1. wMaxPages \in Nat /\ Len(wPages) \in Nat /\ wLane \in [Crawlers -> LaneRecords]
    BY DEF CrawlInv, CrawlTyped
  <2>2. CASE Len(wPages) < wMaxPages /\ wQueue # <<>>
    <3>1. wLane' = [k \in Crawlers |-> [wLane[k] EXCEPT !.pc = "start"]] /\ wPhase' = "pages"
      BY <1>1, <2>2 DEF Crawl!LanesReturn
    <3> QED
      BY <2>1, <3>1 DEF LaneRecords
  <2>3. CASE ~ (Len(wPages) < wMaxPages /\ wQueue # <<>>)
    BY <2>1, <2>3 DEF Crawl!LanesReturn, Capped
  <2> QED
    BY <2>2, <2>3
<1>3. /\ Crawl!ToSet(wPages)' = Crawl!ToSet(wPages) /\ Crawl!ToSet(wQueue)' = Crawl!ToSet(wQueue)
      /\ Capped' = Capped /\ Underway /\ Underway'
  BY <1>1, <1>2 DEF Crawl!ToSet, Capped, Underway
<1>4. \A k \in Crawlers : wLane'[k].pc \notin {"fetch", "read", "record"}
  BY <1>1, <1>2
<1>5. CrawlTyped' /\ Phases'
  BY <1>1, <1>2, <1>3 DEF CrawlInv, CrawlTyped, Phases
<1>6. ReadApart'
  BY <1>1, <1>4 DEF CrawlInv, ReadApart, Crawl!IsInjective, Crawl!ToSet
<1>7. AllAllowed'
  BY <1>1, <1>3, <1>4, SiteStays DEF CrawlInv, AllAllowed
<1>8. SeenReached'
  BY <1>1, <1>3, SiteStays DEF CrawlInv, SeenReached, AtPage
<1>9. ReadRecorded'
  BY <1>1, <1>3 DEF CrawlInv, ReadRecorded, AtPage
<1>10. LinksOffered'
  <2>1. /\ \A q : Offered(wSeen, q)' <=> Offered(wSeen, q)
        /\ \A h : Crawl!ToSet(wSite.links[h])' = Crawl!ToSet(wSite.links[h])
        /\ Crawl!ToSet(wSite.sitemap)' = Crawl!ToSet(wSite.sitemap)
    BY <1>1 DEF Offered, Crawl!Crawlable, Crawl!ToSet
  <2> QED
    BY <1>1, <1>3, <2>1 DEF CrawlInv, LinksOffered, AtPage
<1> QED
  BY <1>5, <1>6, <1>7, <1>8, <1>9, <1>10 DEF CrawlInv

\* What the invariant does not look at.
LEMMA CrawlUnchanged ==
  ASSUME CrawlInv,
         UNCHANGED <<wSite, wMaxPages, wPhase, wPages, wSeen, wCrawled, wQueue, wLane, wMapped, wRequested, wBroken>>
  PROVE  CrawlInv'
<1>1. /\ Crawl!ToSet(wPages)' = Crawl!ToSet(wPages) /\ Crawl!ToSet(wQueue)' = Crawl!ToSet(wQueue)
      /\ Capped' = Capped /\ Underway' = Underway
  BY DEF Crawl!ToSet, Capped, Underway
<1>2. CrawlTyped' /\ Phases'
  BY <1>1 DEF CrawlInv, CrawlTyped, Phases
<1>3. ReadApart'
  BY <1>1 DEF CrawlInv, ReadApart, Crawl!IsInjective
<1>4. AllAllowed'
  BY <1>1, SiteStays DEF CrawlInv, AllAllowed
<1>5. SeenReached'
  BY <1>1, SiteStays DEF CrawlInv, SeenReached, AtPage
<1>6. ReadRecorded'
  BY <1>1 DEF CrawlInv, ReadRecorded, AtPage
<1>7. LinksOffered'
  <2>1. /\ \A q : Offered(wSeen, q)' <=> Offered(wSeen, q)
        /\ \A h : Crawl!ToSet(wSite.links[h])' = Crawl!ToSet(wSite.links[h])
        /\ Crawl!ToSet(wSite.sitemap)' = Crawl!ToSet(wSite.sitemap)
    BY DEF Offered, Crawl!Crawlable, Crawl!ToSet
  <2> QED
    BY <1>1, <2>1 DEF CrawlInv, LinksOffered, AtPage
<1> QED
  BY <1>2, <1>3, <1>4, <1>5, <1>6, <1>7 DEF CrawlInv

\* The home page may lead anywhere; it is read only when what it leads to is allowed.
LEMMA FetchHomeKeeps ==
  ASSUME Crawl!CrawlerParameters, CrawlInv, Crawl!FetchHome
  PROVE  CrawlInv'
<1>1. /\ wSite' = wSite /\ wMaxPages' = wMaxPages /\ wQueue' = wQueue /\ wLane' = wLane /\ wMapped' = wMapped
      /\ wBroken' = wBroken /\ wPhase = "home" /\ wQueue = <<>> /\ \A k \in Crawlers : wLane[k].pc = "start"
      /\ wSite \in Sites /\ wLane \in [Crawlers -> LaneRecords] /\ wMaxPages \in Nat \ {0}
  BY DEF Crawl!FetchHome, Crawl!given, CrawlInv, Phases, CrawlTyped
<1>2. \A p \in wRequested' : Crawl!Crawlable(p) \/ p \in Crawl!ToSet(Crawl!Hops(Home))
  BY DEF Crawl!FetchHome
<1>3. CASE wPhase' = "failed" /\ UNCHANGED <<wPages, wCrawled, wSeen>>
  BY <1>1, <1>2, <1>3, FailingKeeps
<1>4. CASE \E f \in Crawl!Landed(Home) :
             /\ Crawl!Crawlable(Home) /\ Crawl!Crawlable(f) /\ wSite.answer[f] = "page"
             /\ wPages' = <<f>> /\ wCrawled' = {f} /\ wSeen' = {Home, f} /\ wPhase' = "links"
  <2>1. PICK f \in Crawl!Landed(Home) : wPages' = <<f>> /\ wCrawled' = {f} /\ wSeen' = {Home, f} /\ wPhase' = "links"
    BY <1>4
  <2>2. /\ Home \in Pages /\ f \in Pages /\ Crawl!Landed(f) = {f} /\ Crawl!Landed(Home) \subseteq {f}
    BY <1>1, SiteIs, LandedIs
  <2>3. /\ <<f>> \in Seq(Pages) /\ Len(<<f>>) = 1 /\ <<f>>[1] = f /\ Crawl!ToSet(<<f>>) = {f}
    BY <2>2 DEF Crawl!ToSet
  <2>4. /\ Crawl!ToSet(wPages)' = {f} /\ Crawl!ToSet(wQueue)' = {}
    BY <1>1, <2>1, <2>3 DEF Crawl!ToSet
  <2>5. Reached(Home, {f}) /\ Reached(f, {f})
    BY <2>2 DEF Reached
  <2>6. CrawlTyped' /\ Phases'
    <3>1. IsFiniteSet({Home} \cup {f})
      BY FS_Singleton, FS_AddElement
    <3> QED
      BY <1>1, <2>1, <2>2, <2>3, <2>4, <3>1 DEF CrawlTyped, Phases
  <2>7. ReadApart'
    <3>1. Crawl!IsInjective(wPages)'
      BY <2>1, <2>3 DEF Crawl!IsInjective
    <3> QED
      BY <1>1, <2>1, <2>3, <2>4, <3>1 DEF ReadApart
  <2>8. AllAllowed'
    BY <1>1, <1>2, <2>4, SiteStays DEF AllAllowed
  <2>9. SeenReached'
    BY <1>1, <2>1, <2>5, SiteStays DEF SeenReached
  <2>10. ReadRecorded' /\ LinksOffered'
    BY <2>1, <2>4 DEF ReadRecorded, LinksOffered
  <2> QED
    BY <2>6, <2>7, <2>8, <2>9, <2>10 DEF CrawlInv
<1> QED
  BY <1>3, <1>4 DEF Crawl!FetchHome

\* What the home page and the sitemap link to is offered to the queue.
LEMMA SeedQueueKeeps ==
  ASSUME Crawl!CrawlerParameters, CrawlInv, Crawl!SeedQueue
  PROVE  CrawlInv'
<1> DEFINE links == wSite.links[Crawl!Last(wPages)]
           a == [seen |-> wSeen, queue |-> wQueue]
           linked == Crawl!Enqueue(a, links)
           both == Crawl!Enqueue(linked, wSite.sitemap)
           all == IF wMapped' THEN both ELSE linked
<1>1. /\ wSite' = wSite /\ wMaxPages' = wMaxPages /\ wPages' = wPages /\ wCrawled' = wCrawled /\ wLane' = wLane
      /\ wRequested' = wRequested /\ wBroken' = wBroken /\ wPhase = "links" /\ wPhase' = "pages"
      /\ wSeen' = all.seen /\ wQueue' = all.queue
  BY DEF Crawl!SeedQueue, Crawl!given
<1>2. /\ wPages \in Seq(Pages) /\ Len(wPages) = 1 /\ wCrawled = Crawl!ToSet(wPages) /\ wSite \in Sites
      /\ wQueue = <<>> /\ \A k \in Crawlers : wLane[k].pc = "start"
  BY <1>1 DEF CrawlInv, CrawlTyped, Phases
<1>3. \A h \in Crawl!ToSet(wPages) : h = Crawl!Last(wPages)
  BY <1>2, InSequence DEF Crawl!Last
<1>4. Crawl!Last(wPages) \in Pages
  <2>1. wPages # <<>>
    BY <1>2
  <2> QED
    BY <1>2, <2>1, LastIsIn
<1>5. links \in Seq(Pages) /\ wSite.sitemap \in Seq(Pages)
  BY <1>2, <1>4, SiteIs
<1>6. a \in QueueStates /\ IsFiniteSet(a.seen)
  BY DEF QueueStates, CrawlInv, CrawlTyped
<1> HIDE DEF a, links
<1>7. Grows(a, linked) /\ \A p \in Crawl!ToSet(links) : Offered(linked.seen, p)
  BY <1>2, <1>5, <1>6, EnqueueGrows
<1>8. linked \in QueueStates /\ IsFiniteSet(linked.seen)
  BY <1>7 DEF Grows
<1> HIDE DEF linked
<1>9. Grows(linked, both) /\ \A p \in Crawl!ToSet(wSite.sitemap) : Offered(both.seen, p)
  BY <1>2, <1>5, <1>8, EnqueueGrows
<1> HIDE DEF both
<1>10. Grows(a, both)
  BY <1>7, <1>9, GrowsOn
<1>11. \A p \in Crawl!ToSet(links) : Offered(both.seen, p)
  BY <1>2, <1>7, <1>9, OfferedStays DEF Grows
<1>12. PICK c \in {both, linked} :
         /\ wSeen' = c.seen /\ wQueue' = c.queue /\ Grows(a, c)
         /\ \A p \in Crawl!ToSet(links) : Offered(c.seen, p)
         /\ wMapped' => \A p \in Crawl!ToSet(wSite.sitemap) : Offered(c.seen, p)
  <2>1. CASE wMapped'
    BY <1>1, <1>9, <1>10, <1>11, <2>1
  <2>2. CASE ~ wMapped'
    BY <1>1, <1>7, <2>2
  <2> QED
    BY <2>1, <2>2
<1>13. /\ wSeen' \subseteq Pages /\ IsFiniteSet(wSeen') /\ wQueue' \in Seq(Pages) /\ wSeen \subseteq wSeen'
       /\ \A p \in wSeen' \ wSeen : Crawl!Crawlable(p)
       /\ Crawl!ToSet(c.queue) = wSeen' \ wSeen
  <2>1. Crawl!ToSet(wQueue) = {}
    BY <1>2, InSequence DEF CrawlInv, CrawlTyped
  <2> QED
    BY <1>12, <2>1 DEF Grows, QueueStates, a
<1>14. /\ Crawl!ToSet(wQueue)' = wSeen' \ wSeen /\ Crawl!ToSet(wPages)' = Crawl!ToSet(wPages)
       /\ Capped' = Capped /\ Underway /\ Underway'
  BY <1>1, <1>12, <1>13 DEF Crawl!ToSet, Capped, Underway
<1>15. CrawlTyped' /\ Phases'
  BY <1>1, <1>13 DEF CrawlInv, CrawlTyped, Phases
<1>16. ReadApart'
  BY <1>1, <1>14 DEF CrawlInv, ReadApart, Crawl!IsInjective
<1>17. AllAllowed'
  BY <1>1, <1>2, <1>13, <1>14, SiteStays DEF CrawlInv, AllAllowed
<1>18. SeenReached'
  <2>1. ASSUME NEW p \in wSeen, ~ Capped
        PROVE  p \in wBroken \/ Reached(p, wCrawled)
    <3>1. Crawl!ToSet(wQueue) = {} /\ Underway
      BY <1>1, <1>2, InSequence DEF CrawlInv, CrawlTyped, Underway
    <3>2. \A k \in Crawlers : ~ AtPage(k, "fetch", p)
      BY <1>2 DEF AtPage
    <3> QED
      BY <2>1, <3>1, <3>2 DEF CrawlInv, SeenReached
  <2> QED
    BY <1>1, <1>14, <2>1, SiteStays DEF SeenReached
<1>19. ReadRecorded'
  BY <1>1, <1>2, <1>14 DEF ReadRecorded
<1>20. LinksOffered'
  <2>1. /\ \A q : Offered(wSeen, q)' <=> Offered(wSeen', q)
        /\ \A h : Crawl!ToSet(wSite.links[h])' = Crawl!ToSet(wSite.links[h])
        /\ Crawl!ToSet(wSite.sitemap)' = Crawl!ToSet(wSite.sitemap)
    BY <1>1 DEF Offered, Crawl!Crawlable, Crawl!ToSet
  <2>2. ASSUME NEW h \in Crawl!ToSet(wPages) PROVE \A p \in Crawl!ToSet(wSite.links[h]) : Offered(wSeen', p)
    BY <1>3, <1>12, <2>2 DEF links
  <2> QED
    BY <1>12, <1>14, <2>1, <2>2 DEF LinksOffered
<1> QED
  BY <1>15, <1>16, <1>17, <1>18, <1>19, <1>20 DEF CrawlInv

LEMMA CrawlStarts ==
  ASSUME Crawl!CrawlerParameters, Crawl!CrawlerInit
  PROVE  CrawlInv
<1>1. /\ wSite \in Sites /\ wMaxPages \in Nat \ {0} /\ wPhase = "home" /\ wPages = <<>> /\ wQueue = <<>>
      /\ wSeen = {Home} /\ wCrawled = {} /\ wRequested = {} /\ Home \in Pages
      /\ wLane \in [Crawlers -> LaneRecords] /\ \A k \in Crawlers : wLane[k].pc = "start"
  BY DEF Crawl!CrawlerInit, Crawl!CrawlerParameters, LaneRecords
<1>2. Crawl!ToSet(wPages) = {} /\ Crawl!ToSet(wQueue) = {} /\ <<>> \in Seq(Pages) /\ Len(wPages) = 0
  BY <1>1 DEF Crawl!ToSet
<1>3. IsFiniteSet(wSeen)
  BY <1>1, FS_Singleton
<1>4. CrawlTyped /\ Phases
  BY <1>1, <1>2, <1>3 DEF CrawlTyped, Phases
<1>5. ReadApart
  BY <1>1, <1>2 DEF ReadApart, Crawl!IsInjective
<1>6. AllAllowed /\ SeenReached /\ ReadRecorded /\ LinksOffered
  BY <1>1, <1>2 DEF AllAllowed, SeenReached, ReadRecorded, LinksOffered, Underway
<1> QED
  BY <1>4, <1>5, <1>6 DEF CrawlInv

LEMMA CrawlStep ==
  ASSUME Crawl!CrawlerParameters, CrawlInv, [Crawl!CrawlerNext]_(Crawl!crvars)
  PROVE  CrawlInv'
<1>1. CASE Crawl!FetchHome
  BY <1>1, FetchHomeKeeps
<1>2. CASE Crawl!SeedQueue
  BY <1>2, SeedQueueKeeps
<1>3. CASE Crawl!LanesReturn
  BY <1>3, LanesReturnKeeps
<1>4. CASE Crawl!TimeIsUp
  BY <1>4, CrawlUnchanged DEF Crawl!TimeIsUp, Crawl!given
<1>5. ASSUME NEW l \in Crawlers,
             \/ Crawl!StartLane(l) \/ Crawl!FetchFails(l) \/ Crawl!Fetched(l)
             \/ Crawl!BodyFails(l) \/ Crawl!Recorded(l) \/ Crawl!Stored(l)
      PROVE  CrawlInv'
  BY <1>5, StartLaneKeeps, FailsKeeps, FetchedKeeps, RecordedKeeps, StoredKeeps
<1>6. CASE UNCHANGED Crawl!crvars
  BY <1>6, CrawlUnchanged DEF Crawl!crvars
<1> QED
  BY <1>1, <1>2, <1>3, <1>4, <1>5, <1>6 DEF Crawl!CrawlerNext

\* Below the cap a crawl that is done has nothing under way, so that what was offered is dealt with.
LEMMA CrawlDone ==
  ASSUME Crawl!CrawlerParameters, CrawlInv
  PROVE  Crawl!CrawlComplete
<1>1. /\ Crawl!IsInjective(wPages) /\ Len(wPages) <= wMaxPages
      /\ \A p \in wRequested : Crawl!Crawlable(p) \/ p \in Crawl!ToSet(Crawl!Hops(Home))
  BY DEF CrawlInv, ReadApart, AllAllowed
<1>2. ASSUME wPhase = "done", Len(wPages) < wMaxPages
      PROVE  /\ \A f \in Crawl!ToSet(wPages) : wSite.answer[f] = "page" =>
                   \A p \in Crawl!ToSet(wSite.links[f]) : Crawl!Dealt(p)
             /\ wMapped => \A p \in Crawl!ToSet(wSite.sitemap) : Crawl!Dealt(p)
  <2>1. ~ Capped /\ Underway
    BY <1>2 DEF Capped, Underway, CrawlInv, CrawlTyped
  <2>2. Crawl!ToSet(wQueue) = {} /\ \A l \in Crawlers : wLane[l].pc = "gone"
    BY <1>2, <2>1, InSequence DEF CrawlInv, CrawlTyped, Phases
  <2>3. \A f \in wCrawled : f \in wBroken \/ f \in Crawl!ToSet(wPages)
    BY <2>1, <2>2 DEF CrawlInv, ReadRecorded, AtPage
  <2>4. \A p \in wSeen : p \in wBroken \/ Reached(p, wCrawled)
    BY <2>1, <2>2 DEF CrawlInv, SeenReached, AtPage
  <2>5. ASSUME NEW p, Offered(wSeen, p) PROVE Crawl!Dealt(p)
    <3>1. Crawl!Cardinality(wSeen) = Cardinality(wSeen)
      BY DEF Crawl!Cardinality, Cardinality
    <3>2. CASE p \in wSeen
      BY <2>3, <2>4, <3>2 DEF Crawl!Dealt, Reached
    <3>3. CASE p \notin wSeen
      BY <2>5, <3>1, <3>3 DEF Crawl!Dealt, Offered
    <3> QED
      BY <3>2, <3>3
  <2>6. /\ \A f \in Crawl!ToSet(wPages) : wSite.answer[f] = "page" =>
             \A p \in Crawl!ToSet(wSite.links[f]) : Offered(wSeen, p)
        /\ wMapped => \A p \in Crawl!ToSet(wSite.sitemap) : Offered(wSeen, p)
    BY <1>2, <2>2 DEF CrawlInv, LinksOffered, AtPage
  <2> QED
    BY <2>5, <2>6
<1> QED
  BY <1>1, <1>2 DEF Crawl!CrawlComplete

\* A crawl of any site, with any number of lanes and any cap, records no page twice and no more
\* than its cap, asks for nothing that is not allowed, and when it ends below the cap has dealt
\* with every link of every page it recorded and with the sitemap (crawler.ts).
THEOREM CrawlCompleteAlways ==
  ASSUME Crawl!CrawlerParameters
  PROVE  Crawl!CrawlerSpec => []Crawl!CrawlComplete
<1>1. Crawl!CrawlerInit => CrawlInv
  BY CrawlStarts
<1>2. CrawlInv /\ [Crawl!CrawlerNext]_(Crawl!crvars) => CrawlInv'
  BY CrawlStep
<1>3. CrawlInv => Crawl!CrawlComplete
  BY CrawlDone
<1> QED
  BY <1>1, <1>2, <1>3, PTL DEF Crawl!CrawlerSpec

-----------------------------------------------------------------------------
(* The creation of a campaign, call by call.  The adapters' plans are finite sequences of calls; *)
(* what holds of every call of one is shown by the smallest counterexample.                      *)

CONSTANTS AdPlatforms, MaxAds, MaxTries, AdAttempts, AdMoves
VARIABLES dDraft, dPhase, dJob, dExists, dActive, dUndo, dLost, dError, dRecord, dLeft, dDoubt, dStray,
          dAsked, dUnverified

Creation == INSTANCE AdCreation WITH
  Platforms <- AdPlatforms, MaxAttempts <- AdAttempts, MaxMoves <- AdMoves,
  draft <- dDraft, phase <- dPhase, job <- dJob, exists <- dExists, active <- dActive,
  undo <- dUndo, lost <- dLost, error <- dError, record <- dRecord, left <- dLeft,
  doubt <- dDoubt, stray <- dStray, asked <- dAsked, unverified <- dUnverified

\* The list of the lists' elements, in order, and what it is after each list.
Flattens(seqs, n, f) == f = [i \in 1..n |-> IF i = 1 THEN seqs[i] ELSE f[i - 1] \o seqs[i]]

LEMMA FlattensOne ==
  ASSUME NEW seqs, NEW n \in Nat, NEW f, Flattens(seqs, n, f), NEW i \in 1..n
  PROVE  /\ i = 1 => f[i] = seqs[i]
         /\ i # 1 => f[i] = f[i - 1] \o seqs[i]
<1>1. f[i] = IF i = 1 THEN seqs[i] ELSE f[i - 1] \o seqs[i]
  BY Zenon DEF Flattens
<1> QED
  BY <1>1

LEMMA FlattensExists ==
  ASSUME NEW seqs, NEW n \in Nat
  PROVE  \E f : Flattens(seqs, n, f)
<1> DEFINE Upto(k) == 0..k
           Without == {Upto(k) : k \in {j \in Upto(n) : \A f : ~ Flattens(seqs, j, f)}}
<1>1. \A k \in Upto(n) : Upto(k) \subseteq Upto(n)
  OBVIOUS
<1> SUFFICES ASSUME \A f : ~ Flattens(seqs, n, f) PROVE FALSE
  OBVIOUS
<1>2. Without # {}
  OBVIOUS
<1>3. PICK m \in Without : \A t \in SUBSET m : t # m => t \notin Without
  <2>1. Without \subseteq SUBSET Upto(n)
    BY <1>1
  <2>2. IsFiniteSet(Upto(n))
    BY FS_Interval
  <2> HIDE DEF Without, Upto
  <2> QED
    BY <1>2, <2>1, <2>2, SmallestSet
<1>4. PICK k \in Upto(n) : m = Upto(k) /\ \A f : ~ Flattens(seqs, k, f)
  BY <1>3
<1>5. k # 0
  <2> SUFFICES ASSUME k = 0 PROVE FALSE
    OBVIOUS
  <2> DEFINE none == [i \in 1..0 |-> <<>>]
  <2>1. none = [i \in 1..0 |-> IF i = 1 THEN seqs[i] ELSE none[i - 1] \o seqs[i]]
    OBVIOUS
  <2> HIDE DEF none
  <2>2. Flattens(seqs, 0, none)
    BY <2>1, Zenon DEF Flattens
  <2> QED
    BY <1>4, <2>2
<1>6. k - 1 \in Upto(n) /\ Upto(k - 1) \in SUBSET m /\ Upto(k - 1) # m
  <2>1. k \in Upto(k) /\ k \notin Upto(k - 1)
    BY <1>4, <1>5
  <2> QED
    BY <1>4, <1>5, <2>1
<1>7. PICK f : Flattens(seqs, k - 1, f)
  <2>1. Upto(k - 1) \notin Without
    BY <1>3, <1>6
  <2> QED
    BY <1>6, <2>1
<1> DEFINE g == [i \in 1..k |-> IF i = k THEN (IF k = 1 THEN seqs[k] ELSE f[k - 1] \o seqs[k]) ELSE f[i]]
<1>8. ASSUME NEW i \in 1..k
      PROVE  g[i] = IF i = 1 THEN seqs[i] ELSE g[i - 1] \o seqs[i]
  <2>1. CASE i = k
    <3>1. g[k] = (IF k = 1 THEN seqs[k] ELSE f[k - 1] \o seqs[k]) /\ (k # 1 => g[k - 1] = f[k - 1])
      BY <1>4, <1>5
    <3> HIDE DEF g
    <3> QED
      BY <2>1, <3>1
  <2>2. CASE i # k
    <3>1. i \in 1..(k - 1) /\ g[i] = f[i] /\ (i # 1 => g[i - 1] = f[i - 1])
      BY <1>4, <1>5, <2>2
    <3> HIDE DEF g
    <3>2. (i = 1 => f[i] = seqs[i]) /\ (i # 1 => f[i] = f[i - 1] \o seqs[i])
      <4>1. k - 1 \in Nat
        BY <1>4, <1>5
      <4> QED
        BY <1>7, <3>1, <4>1, FlattensOne, Zenon
    <3> QED
      BY <3>1, <3>2
  <2> QED
    BY <2>1, <2>2
<1>9. g = [i \in 1..k |-> g[i]]
  OBVIOUS
<1> HIDE DEF g
<1>10. g = [i \in 1..k |-> IF i = 1 THEN seqs[i] ELSE g[i - 1] \o seqs[i]]
  BY <1>8, <1>9
<1> QED
  BY <1>4, <1>10, Zenon DEF Flattens

\* What lists of members of S are joined to.
LEMMA FlattenIn ==
  ASSUME NEW S, NEW n \in Nat, NEW seqs \in [1..n -> Seq(S)]
  PROVE  Creation!FlattenSeq(seqs) \in Seq(S)
<1>1. Len(seqs) = n
  OBVIOUS
<1>2. CASE n = 0
  <2>1. Creation!FlattenSeq(seqs) = seqs
    BY <1>1, <1>2 DEF Creation!FlattenSeq
  <2>2. seqs \in Seq(S)
    BY <1>2
  <2> QED
    BY <2>1, <2>2
<1>3. CASE n # 0
  <2>1. PICK h : Flattens(seqs, n, h)
    BY FlattensExists
  <2>2. Flattens(seqs, n, CHOOSE f : Flattens(seqs, n, f))
    BY <2>1, Zenon
  <2>3. Creation!FlattenSeq(seqs) = (CHOOSE f : Flattens(seqs, n, f))[n]
    BY <1>1, <1>3 DEF Creation!FlattenSeq, Flattens
  <2>4. PICK f : Flattens(seqs, n, f) /\ Creation!FlattenSeq(seqs) = f[n]
    BY <2>2, <2>3
  <2>0. ASSUME NEW i \in 1..n
        PROVE  (i = 1 => f[i] = seqs[i]) /\ (i # 1 => f[i] = f[i - 1] \o seqs[i])
    BY <2>4, FlattensOne, Zenon
  <2> DEFINE Upto(k) == 1..k
             Odd == {Upto(k) : k \in {j \in Upto(n) : f[j] \notin Seq(S)}}
  <2> SUFFICES ASSUME f[n] \notin Seq(S) PROVE FALSE
    BY <2>4
  <2>5. PICK m \in Odd : \A t \in SUBSET m : t # m => t \notin Odd
    <3>1. Odd # {}
      BY <1>3
    <3>2. Odd \subseteq SUBSET Upto(n)
      <4>1. \A k \in Upto(n) : Upto(k) \subseteq Upto(n)
        OBVIOUS
      <4> QED
        BY <4>1
    <3>3. IsFiniteSet(Upto(n))
      BY FS_Interval
    <3> HIDE DEF Odd, Upto
    <3> QED
      BY <3>1, <3>2, <3>3, SmallestSet
  <2>6. PICK k \in Upto(n) : m = Upto(k) /\ f[k] \notin Seq(S)
    BY <2>5
  <2>7. seqs[k] \in Seq(S)
    BY <2>6
  <2>8. k # 1
    BY <2>6, <2>7, <2>0
  <2>9. k - 1 \in Upto(n) /\ Upto(k - 1) \in SUBSET m /\ Upto(k - 1) # m
    <3>1. k \in Upto(k) /\ k \notin Upto(k - 1)
      BY <2>6, <2>8
    <3> QED
      BY <2>6, <2>8, <3>1
  <2>10. f[k - 1] \in Seq(S)
    <3>1. Upto(k - 1) \notin Odd
      BY <2>5, <2>9
    <3> QED
      BY <2>9, <3>1
  <2>11. f[k] = f[k - 1] \o seqs[k]
    BY <2>6, <2>8, <2>0
  <2> QED
    BY <2>6, <2>7, <2>10, <2>11
<1> QED
  BY <1>2, <1>3

-----------------------------------------------------------------------------
\* The draft is of a known platform and has ads.
DraftKept ==
  /\ dDraft.platform \in {"meta", "tiktok", "pinterest", "linkedin", "google", "x"}
  /\ dDraft.ads \in Nat

\* The list makes the campaign, and can take it back, before its k-th call.
MadeBefore(plan, k) == \E c \in DOMAIN plan : c < k /\ <<"campaign", 0>> \in plan[c].makes /\ plan[c].undo = "own"

\* What is made can be taken back with itself or with the campaign, or is reported; but for the
\* one call of Google's that makes everything.
Removable(plan, k) ==
  \/ plan[k].makes = {} \/ plan[k].undo = "own"
  \/ plan[k].undo = "never" /\ dDraft.platform = "x"
  \/ plan[k].undo = "none" /\ dDraft.platform = "google" /\ k = Len(plan)
  \/ /\ plan[k].undo \in {"parent", "none"} /\ MadeBefore(plan, k)
     /\ \A m \in plan[k].makes : "campaign" \in Creation!Above(m[1])
\* An ad is made after its campaign, or with it.
Rooted(plan, k) ==
  (\E m \in plan[k].makes : m[1] = Creation!Leaf) => <<"campaign", 0>> \in plan[k].makes \/ MadeBefore(plan, k)

Sound(plan) == \A k \in DOMAIN plan : Removable(plan, k) /\ Rooted(plan, k)

\* Calls that may come at any time, and once the campaign is made.
Early(s) ==
  /\ s.makes = {} \/ s.undo = "own"
  /\ \A m \in s.makes : m[1] # Creation!Leaf
Late(s) ==
  \/ s.makes = {} \/ s.undo = "own"
  \/ s.undo = "never" /\ dDraft.platform = "x"
  \/ s.undo \in {"parent", "none"} /\ \A m \in s.makes : "campaign" \in Creation!Above(m[1])

LEMMA Joined ==
  ASSUME NEW A, NEW B, NEW s \in Seq(A), NEW t \in Seq(B)
  PROVE  /\ DOMAIN (s \o t) = 1 .. Len(s) + Len(t)
         /\ \A k \in DOMAIN (s \o t) : (s \o t)[k] = IF k <= Len(s) THEN s[k] ELSE t[k - Len(s)]
<1>1. s \in Seq(A \cup B) /\ t \in Seq(A \cup B) /\ Len(s) \in Nat /\ Len(t) \in Nat
  OBVIOUS
<1>2. PICK u : u = s \o t
  OBVIOUS
<1>3. u \in Seq(A \cup B) /\ Len(u) = Len(s) + Len(t)
  BY <1>1, <1>2
<1>4. DOMAIN u = 1 .. Len(s) + Len(t)
  BY <1>3
<1>5. ASSUME NEW k \in DOMAIN u PROVE u[k] = IF k <= Len(s) THEN s[k] ELSE t[k - Len(s)]
  BY <1>1, <1>2, <1>4
<1> QED
  BY <1>2, <1>4, <1>5

\* The campaign is made by the c-th call.
SoundFrom(plan, c) ==
  /\ c \in DOMAIN plan /\ <<"campaign", 0>> \in plan[c].makes /\ plan[c].undo = "own"
  /\ \A m \in plan[c].makes : m[1] # Creation!Leaf
  /\ \A k \in DOMAIN plan : (k < c => Early(plan[k])) /\ (k > c => Late(plan[k]))

LEMMA SoundFromIsSound ==
  ASSUME NEW A, NEW plan \in Seq(A), NEW c, SoundFrom(plan, c)
  PROVE  Sound(plan)
<1>1. c \in DOMAIN plan /\ DOMAIN plan = 1 .. Len(plan) /\ Len(plan) \in Nat
  BY DEF SoundFrom
<1>2. ASSUME NEW k \in DOMAIN plan PROVE Removable(plan, k) /\ Rooted(plan, k)
  <2>1. CASE k < c
    <3>1. Early(plan[k])
      BY <2>1 DEF SoundFrom
    <3> QED
      BY <3>1 DEF Early, Removable, Rooted
  <2>2. CASE k = c
    BY <2>2 DEF SoundFrom, Removable, Rooted
  <2>3. CASE k > c
    <3>1. MadeBefore(plan, k) /\ Late(plan[k])
      BY <2>3 DEF SoundFrom, MadeBefore
    <3> QED
      BY <3>1 DEF Late, Removable, Rooted
  <2> QED
    BY <1>1, <2>1, <2>2, <2>3
<1> QED
  BY <1>2 DEF Sound

LEMMA Longer ==
  ASSUME NEW A, NEW plan \in Seq(A), NEW c, SoundFrom(plan, c),
         NEW B, NEW rest \in Seq(B), \A s \in B : Late(s)
  PROVE  plan \o rest \in Seq(A \cup B) /\ SoundFrom(plan \o rest, c)
<1>1. PICK all : all = plan \o rest
  OBVIOUS
<1>2. /\ DOMAIN all = 1 .. Len(plan) + Len(rest)
      /\ \A k \in DOMAIN all : all[k] = IF k <= Len(plan) THEN plan[k] ELSE rest[k - Len(plan)]
  BY <1>1, Joined
<1>3. /\ Len(plan) \in Nat /\ Len(rest) \in Nat /\ DOMAIN plan = 1 .. Len(plan) /\ c \in 1 .. Len(plan)
      /\ \A k \in 1 .. Len(rest) : Late(rest[k])
  BY DEF SoundFrom
<1>4. all[c] = plan[c] /\ c \in DOMAIN all
  BY <1>2, <1>3
<1>5. ASSUME NEW k \in DOMAIN all PROVE (k < c => Early(all[k])) /\ (k > c => Late(all[k]))
  <2>1. CASE k <= Len(plan)
    <3>1. all[k] = plan[k] /\ k \in DOMAIN plan
      BY <1>2, <1>3, <2>1
    <3> QED
      BY <3>1 DEF SoundFrom
  <2>2. CASE ~ (k <= Len(plan))
    <3>1. all[k] = rest[k - Len(plan)] /\ k - Len(plan) \in 1 .. Len(rest) /\ ~ (k < c)
      BY <1>2, <1>3, <2>2
    <3> QED
      BY <1>3, <3>1
  <2> QED
    BY <2>1, <2>2
<1>6. SoundFrom(all, c)
  BY <1>4, <1>5 DEF SoundFrom
<1>7. all \in Seq(A \cup B)
  BY <1>1
<1> QED
  BY <1>1, <1>6, <1>7

\* The calls for one ad.
PerAd ==
  {Creation!Read}
  \cup {Creation!Create(type, i, "own") : type \in {"asset", "creative", "ad"}, i \in Creation!Ads}
PerTweet ==
  {Creation!Read} \cup {Creation!Create(type, i, "never") : type \in {"card", "creative"}, i \in Creation!Ads}

LEMMA PerAdLate == (\A s \in PerAd : Late(s)) /\ (dDraft.platform = "x" => \A s \in PerTweet : Late(s))
BY DEF PerAd, PerTweet, Late, Creation!Read, Creation!Create

LEMMA EachAdIn ==
  ASSUME DraftKept, NEW S, NEW lists \in [Creation!Ads -> Seq(S)]
  PROVE  Creation!FlattenSeq(lists) \in Seq(S)
BY FlattenIn DEF DraftKept, Creation!Ads

LEMMA OneLate ==
  ASSUME NEW s, Late(s)
  PROVE  \E B : <<s>> \in Seq(B) /\ \A t \in B : Late(t)
<1>1. PICK B : B = {s}
  OBVIOUS
<1>2. \A t \in B : Late(t)
  BY <1>1
<1>3. s \in B
  BY <1>1
<1>4. <<s>> \in Seq(B)
  BY <1>3
<1> QED
  BY <1>2, <1>4

LEMMA PlanSound ==
  ASSUME DraftKept
  PROVE  Sound(Creation!Plan) /\ \E A : Creation!Plan \in Seq(A)
<1> DEFINE campaign == Creation!Create("campaign", 0, "own")
<1>1. CASE dDraft.platform = "meta"
  <2> DEFINE first == <<campaign, Creation!Create("ad_set", 0, "own")>>
             lists == [i \in Creation!Ads |-> 
                         (IF dDraft.video THEN <<Creation!Create("asset", i, "own"), Creation!Read>> ELSE <<>>)
                         \o <<Creation!Create("creative", i, "own"), Creation!Create("ad", i, "own")>>]
  <2>1. Creation!Plan = first \o Creation!FlattenSeq(lists)
    BY <1>1 DEF Creation!Plan, Creation!MetaPlan, Creation!EachAd
  <2>2. SoundFrom(first, 1)
    BY <1>1 DEF SoundFrom, Early, Late, Creation!Leaf, Creation!Above, Creation!Read, Creation!Create, Creation!Batch
  <2>3. first \in Seq({first[k] : k \in DOMAIN first})
    OBVIOUS
  <2>4. lists \in [Creation!Ads -> Seq(PerAd)]
    <3>1. ASSUME NEW i \in Creation!Ads PROVE lists[i] \in Seq(PerAd)
      <4>1. Creation!Read \in PerAd /\ Creation!Create("asset", i, "own") \in PerAd /\ Creation!Create("creative", i, "own") \in PerAd /\ Creation!Create("ad", i, "own") \in PerAd
        BY DEF PerAd
      <4> QED
        BY <4>1
    <3> QED
      BY <3>1
  <2>5. Creation!FlattenSeq(lists) \in Seq(PerAd)
    BY <2>4, EachAdIn
  <2>6. \A s \in PerAd : Late(s)
    BY <1>1, PerAdLate
  <2> HIDE DEF first, lists
  <2> QED
    BY <2>1, <2>2, <2>3, <2>5, <2>6, Longer, SoundFromIsSound
<1>2. CASE dDraft.platform = "tiktok"
  <2> DEFINE first == <<Creation!Read, campaign, Creation!Create("ad_set", 0, "own")>>
             lists == [i \in Creation!Ads |-> <<Creation!Read>>]
             last == <<Creation!Batch({"ad"} \X Creation!Ads, "own")>>
  <2>1. Creation!Plan = first \o Creation!FlattenSeq(lists) \o last
    BY <1>2 DEF Creation!Plan, Creation!TikTokPlan, Creation!EachAd
  <2>2. SoundFrom(first, 2)
    BY <1>2 DEF SoundFrom, Early, Late, Creation!Leaf, Creation!Above, Creation!Read, Creation!Create, Creation!Batch
  <2>3. first \in Seq({first[k] : k \in DOMAIN first})
    OBVIOUS
  <2>4. lists \in [Creation!Ads -> Seq(PerAd)]
    <3>1. ASSUME NEW i \in Creation!Ads PROVE lists[i] \in Seq(PerAd)
      <4>1. Creation!Read \in PerAd
        BY DEF PerAd
      <4> QED
        BY <4>1
    <3> QED
      BY <3>1
  <2>5. Creation!FlattenSeq(lists) \in Seq(PerAd)
    BY <2>4, EachAdIn
  <2>6. \A s \in PerAd : Late(s)
    BY <1>2, PerAdLate
  <2>7. Late(Creation!Batch({"ad"} \X Creation!Ads, "own"))
    BY <1>2 DEF Late, Creation!Above, Creation!Read, Creation!Create, Creation!Batch
  <2>8. PICK B : last \in Seq(B) /\ \A s \in B : Late(s)
    BY <2>7, OneLate
  <2> HIDE DEF first, lists, last
  <2>9. PICK A : first \o Creation!FlattenSeq(lists) \in Seq(A) /\ SoundFrom(first \o Creation!FlattenSeq(lists), 2)
    BY <2>2, <2>3, <2>5, <2>6, Longer
  <2> QED
    BY <2>1, <2>8, <2>9, Longer, SoundFromIsSound
<1>3. CASE dDraft.platform = "pinterest"
  <2> DEFINE first == <<campaign, Creation!Create("ad_set", 0, "parent")>>
             lists == [i \in Creation!Ads |-> 
                         (IF dDraft.video THEN <<Creation!Read>> ELSE <<>>) \o <<Creation!Create("creative", i, "own")>>]
             last == <<Creation!Batch({"ad"} \X Creation!Ads, "parent")>>
  <2>1. Creation!Plan = first \o Creation!FlattenSeq(lists) \o last
    BY <1>3 DEF Creation!Plan, Creation!PinterestPlan, Creation!EachAd
  <2>2. SoundFrom(first, 1)
    BY <1>3 DEF SoundFrom, Early, Late, Creation!Leaf, Creation!Above, Creation!Read, Creation!Create, Creation!Batch
  <2>3. first \in Seq({first[k] : k \in DOMAIN first})
    OBVIOUS
  <2>4. lists \in [Creation!Ads -> Seq(PerAd)]
    <3>1. ASSUME NEW i \in Creation!Ads PROVE lists[i] \in Seq(PerAd)
      <4>1. Creation!Read \in PerAd /\ Creation!Create("creative", i, "own") \in PerAd
        BY DEF PerAd
      <4> QED
        BY <4>1
    <3> QED
      BY <3>1
  <2>5. Creation!FlattenSeq(lists) \in Seq(PerAd)
    BY <2>4, EachAdIn
  <2>6. \A s \in PerAd : Late(s)
    BY <1>3, PerAdLate
  <2>7. Late(Creation!Batch({"ad"} \X Creation!Ads, "parent"))
    BY <1>3 DEF Late, Creation!Above, Creation!Read, Creation!Create, Creation!Batch
  <2>8. PICK B : last \in Seq(B) /\ \A s \in B : Late(s)
    BY <2>7, OneLate
  <2> HIDE DEF first, lists, last
  <2>9. PICK A : first \o Creation!FlattenSeq(lists) \in Seq(A) /\ SoundFrom(first \o Creation!FlattenSeq(lists), 1)
    BY <2>2, <2>3, <2>5, <2>6, Longer
  <2> QED
    BY <2>1, <2>8, <2>9, Longer, SoundFromIsSound
<1>4. CASE dDraft.platform = "linkedin"
  <2> DEFINE first == <<Creation!Read, Creation!Create("group", 0, "own"), campaign>>
             lists == [i \in Creation!Ads |-> <<Creation!Read, Creation!Create("creative", i, "own")>>]
  <2>1. Creation!Plan = first \o Creation!FlattenSeq(lists)
    BY <1>4 DEF Creation!Plan, Creation!LinkedInPlan, Creation!EachAd
  <2>2. SoundFrom(first, 3)
    BY <1>4 DEF SoundFrom, Early, Late, Creation!Leaf, Creation!Above, Creation!Read, Creation!Create, Creation!Batch
  <2>3. first \in Seq({first[k] : k \in DOMAIN first})
    OBVIOUS
  <2>4. lists \in [Creation!Ads -> Seq(PerAd)]
    <3>1. ASSUME NEW i \in Creation!Ads PROVE lists[i] \in Seq(PerAd)
      <4>1. Creation!Read \in PerAd /\ Creation!Create("creative", i, "own") \in PerAd
        BY DEF PerAd
      <4> QED
        BY <4>1
    <3> QED
      BY <3>1
  <2>5. Creation!FlattenSeq(lists) \in Seq(PerAd)
    BY <2>4, EachAdIn
  <2>6. \A s \in PerAd : Late(s)
    BY <1>4, PerAdLate
  <2> HIDE DEF first, lists
  <2> QED
    BY <2>1, <2>2, <2>3, <2>5, <2>6, Longer, SoundFromIsSound
<1>5. CASE dDraft.platform = "x"
  <2> DEFINE first == <<Creation!Read, campaign, Creation!Create("ad_set", 0, "own"), Creation!Create("criteria", 0, "none")>>
             lists == [i \in Creation!Ads |-> 
                         <<Creation!Read, Creation!Create("card", i, "never"), Creation!Create("creative", i, "never")>>]
             last == <<Creation!Batch({"ad"} \X Creation!Ads, "none")>>
  <2>1. Creation!Plan = first \o Creation!FlattenSeq(lists) \o last
    BY <1>5 DEF Creation!Plan, Creation!XPlan, Creation!EachAd
  <2>2. SoundFrom(first, 2)
    BY <1>5 DEF SoundFrom, Early, Late, Creation!Leaf, Creation!Above, Creation!Read, Creation!Create, Creation!Batch
  <2>3. first \in Seq({first[k] : k \in DOMAIN first})
    OBVIOUS
  <2>4. lists \in [Creation!Ads -> Seq(PerTweet)]
    <3>1. ASSUME NEW i \in Creation!Ads PROVE lists[i] \in Seq(PerTweet)
      <4>1. Creation!Read \in PerTweet /\ Creation!Create("card", i, "never") \in PerTweet /\ Creation!Create("creative", i, "never") \in PerTweet
        BY DEF PerTweet
      <4> QED
        BY <4>1
    <3> QED
      BY <3>1
  <2>5. Creation!FlattenSeq(lists) \in Seq(PerTweet)
    BY <2>4, EachAdIn
  <2>6. \A s \in PerTweet : Late(s)
    BY <1>5, PerAdLate
  <2>7. Late(Creation!Batch({"ad"} \X Creation!Ads, "none"))
    BY <1>5 DEF Late, Creation!Above, Creation!Read, Creation!Create, Creation!Batch
  <2>8. PICK B : last \in Seq(B) /\ \A s \in B : Late(s)
    BY <2>7, OneLate
  <2> HIDE DEF first, lists, last
  <2>9. PICK A : first \o Creation!FlattenSeq(lists) \in Seq(A) /\ SoundFrom(first \o Creation!FlattenSeq(lists), 2)
    BY <2>2, <2>3, <2>5, <2>6, Longer
  <2> QED
    BY <2>1, <2>8, <2>9, Longer, SoundFromIsSound
<1>6. CASE dDraft.platform = "google"
  <2> DEFINE all == Creation!Batch({<<"campaign", 0>>, <<"ad_set", 0>>} \cup ({"ad"} \X Creation!Ads), "none")
  <2>1. Creation!Plan = <<Creation!Read, all>>
    BY <1>6 DEF Creation!Plan, Creation!GooglePlan
  <2>2. Creation!Read.makes = {} /\ <<"campaign", 0>> \in all.makes /\ all.undo = "none"
    BY DEF Creation!Read, Creation!Create, Creation!Batch
  <2> HIDE DEF all
  <2>3. PICK plan : plan = <<Creation!Read, all>>
    OBVIOUS
  <2>4. /\ DOMAIN plan = {1, 2} /\ Len(plan) = 2 /\ plan[1] = Creation!Read /\ plan[2] = all
        /\ plan \in Seq({Creation!Read, all})
    BY <2>3
  <2>5. Sound(plan)
    BY <1>6, <2>2, <2>4 DEF Sound, Removable, Rooted
  <2> QED
    BY <2>1, <2>3, <2>4, <2>5
<1> QED
  BY <1>1, <1>2, <1>3, <1>4, <1>5, <1>6 DEF DraftKept

-----------------------------------------------------------------------------
Root == <<"campaign", 0, dJob.try>>
ListedAfter(o, S) == \E p \in S : Creation!Covers(p, o)
Listed(o) == \E i \in DOMAIN dUndo : ListedAfter(o, dUndo[i].remove)
\* The adapter would take o back, or will report it.
KnownTo(o) == ListedAfter(o, dLost) \/ Listed(o) \/ (dError = "unknown_outcome" /\ ListedAfter(o, dDoubt))
Whole == \A o \in dExists : o[3] = dJob.try /\ o[1] \in Creation!Switches => o \in dActive
\* The campaign that the calls so far have made is there, and would be taken back.
RootListed ==
  \A c \in DOMAIN Creation!Plan : c < dJob.next /\ <<"campaign", 0>> \in Creation!Plan[c].makes =>
    Root \in dExists /\ (Creation!Plan[c].undo = "own" => \E i \in DOMAIN dUndo : Root \in dUndo[i].remove)

\* The list of what would be taken back, and when it and what goes with it are empty.
UndoKept ==
  /\ \E U : dUndo \in Seq([remove : SUBSET U, ids : SUBSET U])
  /\ \A i \in DOMAIN dUndo : dUndo[i].remove \subseteq dUndo[i].ids
PlacesKept ==
  /\ dPhase \in Creation!Phases
  /\ dJob \in [try : Nat, attempt : Nat, refreshed : BOOLEAN, next : Nat \ {0}]
  /\ dPhase \notin {"calling", "rollback"} => dUndo = <<>>
  /\ dPhase \notin {"calling", "rollback", "thrown"} => dLost = {}
  /\ dPhase \notin {"rollback", "thrown"} => dError = "none"
\* No object is of a later call of createCampaign, and no ad is there without its campaign.
ObjectsKept ==
  /\ \A o \in dExists : o[3] \in Nat /\ o[3] <= dJob.try
  /\ \A o \in dExists : o[1] = Creation!Leaf => <<"campaign", 0, o[3]>> \in dExists
AllKnown ==
  dPhase \in {"rollback", "thrown"} \/ (dPhase = "calling" /\ dJob.next <= Len(Creation!Plan)) =>
    \A o \in dExists : o[3] = dJob.try => KnownTo(o)
\* A campaign that is on is the row's, and a person asked for it and all under it is on, unless
\* TikTok left it on.
OnAsAsked ==
  /\ dPhase \in {"activating", "active"} => dAsked
  /\ \A t : <<"campaign", 0, t>> \in dActive =>
       /\ t = dJob.try /\ dPhase \in {"paused", "activating", "active"}
       /\ dUnverified \/ (dAsked /\ Whole)
CreationInv ==
  /\ DraftKept /\ UndoKept /\ PlacesKept /\ ObjectsKept /\ AllKnown /\ OnAsAsked
  /\ dPhase = "calling" => RootListed

\* What hangs on the draft alone does not change.
LEMMA DraftStays ==
  ASSUME dDraft' = dDraft
  PROVE  /\ DraftKept' <=> DraftKept
         /\ (Creation!Plan)' = Creation!Plan /\ (Creation!Leaf)' = Creation!Leaf /\ (Creation!Switches)' = Creation!Switches
         /\ \A p, o : Creation!Covers(p, o)' <=> Creation!Covers(p, o)
<1>1. (Creation!Plan)' = Creation!Plan
  BY DEF Creation!Plan, Creation!MetaPlan, Creation!TikTokPlan, Creation!PinterestPlan, Creation!LinkedInPlan,
         Creation!GooglePlan, Creation!XPlan, Creation!EachAd, Creation!Ads
<1>2. (Creation!Leaf)' = Creation!Leaf /\ (Creation!Switches)' = Creation!Switches
  BY DEF Creation!Leaf, Creation!Switches, Creation!Levels
<1>3. ASSUME NEW p, NEW o PROVE Creation!Covers(p, o)' <=> Creation!Covers(p, o)
  BY DEF Creation!Covers, Creation!Above
<1>4. DraftKept' <=> DraftKept
  BY DEF DraftKept
<1> QED
  BY <1>1, <1>2, <1>3, <1>4

LEMMA CoversSelf == ASSUME NEW o PROVE Creation!Covers(o, o)
BY DEF Creation!Covers

LEMMA RootCovers ==
  ASSUME NEW t, NEW o, o[3] = t, "campaign" \in Creation!Above(o[1])
  PROVE  Creation!Covers(<<"campaign", 0, t>>, o)
BY DEF Creation!Covers

\* What a call makes.
LEMMA MadeIs ==
  ASSUME NEW o \in Creation!Made
  PROVE  \E m \in Creation!Step.makes : o = <<m[1], m[2], dJob.try>> /\ o[1] = m[1] /\ o[3] = dJob.try
BY DEF Creation!Made, Creation!ObjectsOf

LEMMA RootMade ==
  ASSUME <<"campaign", 0>> \in Creation!Step.makes
  PROVE  Root \in Creation!Made
BY DEF Creation!Made, Creation!ObjectsOf, Root

LEMMA WiderSeq ==
  ASSUME NEW A, NEW B, A \subseteq B, NEW s \in Seq(A)
  PROVE  s \in Seq(B)
OBVIOUS

\* Listing more to take back forgets nothing.
LEMMA UndoWithKeeps ==
  ASSUME UndoKept, NEW S, dUndo' = Creation!UndoWith(S)
  PROVE  /\ UndoKept'
         /\ \A i \in DOMAIN dUndo : i \in DOMAIN dUndo' /\ (dUndo')[i].remove = dUndo[i].remove
         /\ S # {} /\ Creation!Step.undo = "own" => \E i \in DOMAIN dUndo' : (dUndo')[i].remove = S
<1>1. PICK U : dUndo \in Seq([remove : SUBSET U, ids : SUBSET U])
  BY DEF UndoKept
<1>2. PICK V : V = U \cup S
  OBVIOUS
<1>3. PICK T : T = [remove : SUBSET V, ids : SUBSET V]
  OBVIOUS
<1>4. dUndo \in Seq(T)
  <2>1. [remove : SUBSET U, ids : SUBSET U] \subseteq T
    BY <1>2, <1>3
  <2> QED
    BY <1>1, <2>1, WiderSeq
<1>5. dUndo \in [1 .. Len(dUndo) -> T] /\ Len(dUndo) \in Nat /\ DOMAIN dUndo = 1 .. Len(dUndo)
  BY <1>4
<1>6. CASE S # {} /\ Creation!Step.undo = "own"
  <2>1. PICK r : r = [remove |-> S, ids |-> S]
    OBVIOUS
  <2>2. r \in T /\ r.remove = S /\ r.ids = S
    BY <1>2, <1>3, <2>1
  <2>3. dUndo' = Append(dUndo, r)
    BY <1>6, <2>1 DEF Creation!UndoWith
  <2>4. /\ dUndo' \in Seq(T) /\ Len(dUndo') = Len(dUndo) + 1 /\ (dUndo')[Len(dUndo) + 1] = r
        /\ \A i \in DOMAIN dUndo : i \in DOMAIN dUndo' /\ (dUndo')[i] = dUndo[i]
        /\ \A i \in DOMAIN dUndo' : i \in DOMAIN dUndo \/ i = Len(dUndo) + 1
        /\ Len(dUndo) + 1 \in DOMAIN dUndo'
    BY <1>4, <2>2, <2>3
  <2>5. UndoKept'
    BY <1>3, <2>2, <2>4 DEF UndoKept
  <2> QED
    BY <2>2, <2>4, <2>5
<1>7. CASE S # {} /\ Creation!Step.undo = "parent"
  <2>1. dUndo' = [dUndo EXCEPT ![1].ids = @ \cup S]
    BY <1>7 DEF Creation!UndoWith
  <2>2. /\ DOMAIN dUndo' = DOMAIN dUndo /\ DOMAIN dUndo = 1 .. Len(dUndo) /\ Len(dUndo) \in Nat
        /\ \A i \in DOMAIN dUndo : i # 1 => (dUndo')[i] = dUndo[i]
        /\ 1 \in DOMAIN dUndo => (dUndo')[1] = [dUndo[1] EXCEPT !.ids = @ \cup S]
    BY <1>5, <2>1
  <2>3. ASSUME 1 \in DOMAIN dUndo
        PROVE  (dUndo')[1] \in T /\ (dUndo')[1].remove = dUndo[1].remove /\ dUndo[1].ids \subseteq (dUndo')[1].ids
    <3>1. dUndo[1] \in [remove : SUBSET V, ids : SUBSET V]
      <4>1. dUndo[1] \in T
        BY <1>5, <2>3
      <4> QED
        BY <1>3, <4>1
    <3>2. S \subseteq V
      BY <1>2
    <3> QED
      BY <1>3, <2>2, <2>3, <3>1, <3>2
  <2>4. \A i \in DOMAIN dUndo : (dUndo')[i] \in T /\ (dUndo')[i].remove = dUndo[i].remove /\ (dUndo')[i].remove \subseteq (dUndo')[i].ids
    <3> SUFFICES ASSUME NEW i \in DOMAIN dUndo
                 PROVE  (dUndo')[i] \in T /\ (dUndo')[i].remove = dUndo[i].remove /\ (dUndo')[i].remove \subseteq (dUndo')[i].ids
      OBVIOUS
    <3>1. dUndo[i].remove \subseteq dUndo[i].ids /\ dUndo[i] \in T
      BY <1>4 DEF UndoKept
    <3> QED
      BY <2>2, <2>3, <3>1
  <2>5. dUndo' \in Seq(T)
    <3>1. dUndo' \in [1 .. Len(dUndo) -> T]
      <4>1. dUndo' = [i \in 1 .. Len(dUndo) |-> (dUndo')[i]]
        BY <1>5, <2>1
      <4> QED
        BY <2>2, <2>4, <4>1
    <3> QED
      BY <2>2, <3>1
  <2>6. UndoKept'
    BY <1>3, <2>2, <2>4, <2>5 DEF UndoKept
  <2> QED
    BY <1>7, <2>2, <2>4, <2>6
<1>8. CASE S = {} \/ Creation!Step.undo \notin {"own", "parent"}
  <2>1. dUndo' = dUndo
    BY <1>8 DEF Creation!UndoWith
  <2> QED
    BY <1>8, <2>1 DEF UndoKept
<1> QED
  BY <1>6, <1>7, <1>8

\* What every call of createCampaign starts from.
LEMMA Calling ==
  ASSUME CreationInv, dPhase = "calling", dJob.next <= Len(Creation!Plan)
  PROVE  /\ DraftKept /\ UndoKept /\ RootListed /\ ObjectsKept
         /\ dJob \in [try : Nat, attempt : Nat, refreshed : BOOLEAN, next : Nat \ {0}]
         /\ Removable(Creation!Plan, dJob.next) /\ Rooted(Creation!Plan, dJob.next)
         /\ Creation!Step = Creation!Plan[dJob.next]
         /\ \A c \in DOMAIN Creation!Plan : c \in Nat
         /\ dError = "none"
         /\ \A o \in dExists : o[3] = dJob.try => ListedAfter(o, dLost) \/ Listed(o)
         /\ \A t : <<"campaign", 0, t>> \notin dActive
<1>1. /\ DraftKept /\ UndoKept /\ PlacesKept /\ ObjectsKept /\ AllKnown /\ OnAsAsked /\ RootListed
  BY DEF CreationInv
<1>2. PICK A : Creation!Plan \in Seq(A)
  BY <1>1, PlanSound
<1>3. Sound(Creation!Plan)
  BY <1>1, PlanSound
<1>4. dJob \in [try : Nat, attempt : Nat, refreshed : BOOLEAN, next : Nat \ {0}] /\ dError = "none"
  BY <1>1 DEF PlacesKept
<1>5. dJob.next \in DOMAIN Creation!Plan /\ \A c \in DOMAIN Creation!Plan : c \in Nat
  BY <1>2, <1>4
<1>6. Removable(Creation!Plan, dJob.next) /\ Rooted(Creation!Plan, dJob.next)
  BY <1>3, <1>5 DEF Sound
<1>7. Creation!Step = Creation!Plan[dJob.next]
  BY DEF Creation!Step
<1>8. \A o \in dExists : o[3] = dJob.try => ListedAfter(o, dLost) \/ Listed(o)
  BY <1>1, <1>4 DEF AllKnown, KnownTo
<1>9. \A t : <<"campaign", 0, t>> \notin dActive
  BY <1>1 DEF OnAsAsked
<1> QED
  BY <1>1, <1>4, <1>5, <1>6, <1>7, <1>8, <1>9

\* Once the campaign is made by a call that can be taken back, it is there and listed.
LEMMA RootUndone ==
  ASSUME RootListed, MadeBefore(Creation!Plan, dJob.next)
  PROVE  Root \in dExists /\ \E i \in DOMAIN dUndo : Root \in dUndo[i].remove
BY DEF RootListed, MadeBefore

\* An object of the call under way would be taken back, or is reported, once it is listed.
LEMMA MadeKnown ==
  ASSUME CreationInv, dPhase = "calling", dJob.next <= Len(Creation!Plan),
         NEW S, S \subseteq Creation!Made, dUndo' = Creation!UndoWith(S), dDraft' = dDraft, NEW o \in S,
         Creation!Step.undo = "never" => S \subseteq dLost',
         ~ (dDraft.platform = "google" /\ dJob.next = Len(Creation!Plan))
  PROVE  ListedAfter(o, dLost)' \/ Listed(o)'
<1>1. PICK m \in Creation!Step.makes : o = <<m[1], m[2], dJob.try>> /\ o[1] = m[1] /\ o[3] = dJob.try
  BY MadeIs
<1>2. UndoKept /\ RootListed /\ Removable(Creation!Plan, dJob.next) /\ Creation!Step = Creation!Plan[dJob.next]
  BY Calling
<1>3. /\ \A i \in DOMAIN dUndo : i \in DOMAIN dUndo' /\ (dUndo')[i].remove = dUndo[i].remove
      /\ S # {} /\ Creation!Step.undo = "own" => \E i \in DOMAIN dUndo' : (dUndo')[i].remove = S
  BY <1>2, UndoWithKeeps
<1>4. \A p, q : Creation!Covers(p, q)' <=> Creation!Covers(p, q)
  BY DraftStays
<1>5. Creation!Covers(o, o)
  BY CoversSelf
<1>6. CASE Creation!Step.undo = "own"
  <2>1. PICK i \in DOMAIN dUndo' : (dUndo')[i].remove = S
    BY <1>3, <1>6
  <2> QED
    BY <1>4, <1>5, <2>1 DEF Listed, ListedAfter
<1>7. CASE Creation!Step.undo = "never"
  BY <1>4, <1>5, <1>7 DEF ListedAfter
<1>8. CASE MadeBefore(Creation!Plan, dJob.next) /\ "campaign" \in Creation!Above(m[1])
  <2>1. PICK i \in DOMAIN dUndo : Root \in dUndo[i].remove
    BY <1>2, <1>8, RootUndone
  <2>2. Creation!Covers(Root, o)
    BY <1>1, <1>8, RootCovers DEF Root
  <2>3. i \in DOMAIN dUndo' /\ Root \in (dUndo')[i].remove
    BY <1>3, <2>1
  <2> QED
    BY <1>4, <2>2, <2>3 DEF Listed, ListedAfter
<1>9. \/ Creation!Step.undo \in {"own", "never"}
      \/ MadeBefore(Creation!Plan, dJob.next) /\ "campaign" \in Creation!Above(m[1])
  BY <1>1, <1>2 DEF Removable
<1> QED
  BY <1>6, <1>7, <1>8, <1>9

\* What was known stays so.
LEMMA KnownStays ==
  ASSUME UndoKept, NEW S, dUndo' = Creation!UndoWith(S), dDraft' = dDraft, dLost \subseteq dLost',
         NEW o, ListedAfter(o, dLost) \/ Listed(o)
  PROVE  ListedAfter(o, dLost)' \/ Listed(o)'
<1>1. \A i \in DOMAIN dUndo : i \in DOMAIN dUndo' /\ (dUndo')[i].remove = dUndo[i].remove
  BY UndoWithKeeps
<1>2. \A p, q : Creation!Covers(p, q)' <=> Creation!Covers(p, q)
  BY DraftStays
<1>3. CASE ListedAfter(o, dLost)
  BY <1>2, <1>3 DEF ListedAfter
<1>4. CASE Listed(o)
  <2>1. PICK i \in DOMAIN dUndo : ListedAfter(o, dUndo[i].remove)
    BY <1>4 DEF Listed
  <2>2. i \in DOMAIN dUndo' /\ (dUndo')[i].remove = dUndo[i].remove
    BY <1>1, <2>1
  <2> QED
    BY <1>2, <2>1, <2>2 DEF Listed, ListedAfter
<1> QED
  BY <1>3, <1>4

\* No object is made without its campaign.
LEMMA MadeRooted ==
  ASSUME CreationInv, dPhase = "calling", dJob.next <= Len(Creation!Plan), dDraft' = dDraft,
         NEW S, S \subseteq Creation!Made, dExists' = dExists \cup S, dJob'.try = dJob.try,
         Root \in Creation!Made => Root \in S \/ \A o \in S : o[1] # Creation!Leaf
  PROVE  ObjectsKept'
<1>1. /\ RootListed /\ ObjectsKept /\ Rooted(Creation!Plan, dJob.next) /\ Creation!Step = Creation!Plan[dJob.next]
      /\ dJob \in [try : Nat, attempt : Nat, refreshed : BOOLEAN, next : Nat \ {0}]
  BY Calling
<1>2. (Creation!Leaf)' = Creation!Leaf
  BY DraftStays
<1>3. ASSUME NEW o \in S
      PROVE  o[3] = dJob.try /\ (o[1] = Creation!Leaf => Root \in dExists')
  <2>1. PICK m \in Creation!Step.makes : o = <<m[1], m[2], dJob.try>> /\ o[1] = m[1] /\ o[3] = dJob.try
    BY MadeIs
  <2>2. CASE o[1] = Creation!Leaf /\ <<"campaign", 0>> \in Creation!Step.makes
    <3>1. Root \in Creation!Made
      BY <2>2, RootMade
    <3> QED
      BY <2>1, <2>2, <3>1
  <2>3. CASE MadeBefore(Creation!Plan, dJob.next)
    BY <1>1, <2>1, <2>3, RootUndone
  <2>4. o[1] # Creation!Leaf \/ <<"campaign", 0>> \in Creation!Step.makes \/ MadeBefore(Creation!Plan, dJob.next)
    BY <1>1, <2>1 DEF Rooted
  <2> QED
    BY <2>1, <2>2, <2>3, <2>4
<1>4. ASSUME NEW o \in dExists'
      PROVE  o[3] \in Nat /\ o[3] <= dJob'.try /\ (o[1] = Creation!Leaf => <<"campaign", 0, o[3]>> \in dExists')
  <2>1. dJob.try \in Nat /\ dJob.try <= dJob'.try
    BY <1>1
  <2>2. CASE o \in dExists
    BY <1>1, <2>1, <2>2 DEF ObjectsKept
  <2>3. CASE o \in S
    BY <1>3, <2>1, <2>3 DEF Root
  <2> QED
    BY <2>2, <2>3
<1> QED
  BY <1>2, <1>4 DEF ObjectsKept

LEMMA SucceedsKeeps ==
  ASSUME CreationInv, Creation!CallSucceeds
  PROVE  CreationInv'
<1>1. /\ dPhase = "calling" /\ dJob.next <= Len(Creation!Plan) /\ dPhase' = dPhase /\ dDraft' = dDraft /\ dError' = dError
      /\ dExists' = dExists \cup Creation!Made /\ dJob' = [dJob EXCEPT !.next = @ + 1]
      /\ dUndo' = Creation!UndoWith(Creation!Made) /\ dLost' = Creation!Unremovable(Creation!Made)
      /\ dActive' = dActive \cup {o \in Creation!Made : o[1] = "ad" /\ dDraft.platform = "x"}
      /\ dAsked' = dAsked /\ dUnverified' = dUnverified /\ dDoubt' = dDoubt
  BY DEF Creation!CallSucceeds, Creation!history
<1>2. /\ DraftKept /\ UndoKept /\ RootListed /\ ObjectsKept
      /\ dJob \in [try : Nat, attempt : Nat, refreshed : BOOLEAN, next : Nat \ {0}]
      /\ Removable(Creation!Plan, dJob.next) /\ Creation!Step = Creation!Plan[dJob.next]
      /\ \A c \in DOMAIN Creation!Plan : c \in Nat
      /\ \A o \in dExists : o[3] = dJob.try => ListedAfter(o, dLost) \/ Listed(o)
      /\ \A t : <<"campaign", 0, t>> \notin dActive
  BY <1>1, Calling
<1>3. /\ DraftKept' <=> DraftKept
      /\ (Creation!Plan)' = Creation!Plan /\ (Creation!Leaf)' = Creation!Leaf
      /\ \A p, q : Creation!Covers(p, q)' <=> Creation!Covers(p, q)
  BY <1>1, DraftStays
<1>4. dJob'.try = dJob.try /\ dJob'.next = dJob.next + 1 /\ dJob' \in [try : Nat, attempt : Nat, refreshed : BOOLEAN, next : Nat \ {0}]
  BY <1>1, <1>2
<1>5. /\ UndoKept'
      /\ \A i \in DOMAIN dUndo : i \in DOMAIN dUndo' /\ (dUndo')[i].remove = dUndo[i].remove
      /\ Creation!Made # {} /\ Creation!Step.undo = "own" => \E i \in DOMAIN dUndo' : (dUndo')[i].remove = Creation!Made
  BY <1>1, <1>2, UndoWithKeeps
<1>6. PlacesKept'
  <2>1. PlacesKept
    BY DEF CreationInv
  <2> QED
    BY <1>1, <1>4, <2>1 DEF PlacesKept
<1>7. ObjectsKept'
  BY <1>1, <1>4, MadeRooted
<1>8. dLost \subseteq dLost' /\ (Creation!Step.undo = "never" => Creation!Made \subseteq dLost')
  BY <1>1 DEF Creation!Unremovable
<1>9. AllKnown'
  <2> SUFFICES ASSUME dJob'.next <= Len(Creation!Plan), NEW o \in dExists', o[3] = dJob.try
               PROVE  KnownTo(o)'
    BY <1>1, <1>3, <1>4 DEF AllKnown
  <2>1. CASE o \in dExists
    <3>1. ListedAfter(o, dLost) \/ Listed(o)
      BY <1>2, <2>1
    <3>2. ListedAfter(o, dLost)' \/ Listed(o)'
      BY <1>1, <1>2, <1>8, <3>1, KnownStays
    <3> QED
      BY <3>2 DEF KnownTo
  <2>2. CASE o \in Creation!Made
    <3>1. ~ (dDraft.platform = "google" /\ dJob.next = Len(Creation!Plan))
      BY <1>2, <1>4
    <3>2. ListedAfter(o, dLost)' \/ Listed(o)'
      BY <1>1, <1>8, <2>2, <3>1, MadeKnown
    <3> QED
      BY <3>2 DEF KnownTo
  <2> QED
    BY <1>1, <2>1, <2>2
<1>10. OnAsAsked'
  <2>1. \A t : <<"campaign", 0, t>> \notin dActive'
    BY <1>1, <1>2
  <2> QED
    BY <1>1, <2>1 DEF OnAsAsked
<1>11. RootListed'
  <2>1. Root' = Root
    BY <1>4 DEF Root
  <2> SUFFICES ASSUME NEW c \in DOMAIN Creation!Plan, c < dJob.next + 1, <<"campaign", 0>> \in Creation!Plan[c].makes
               PROVE  Root \in dExists' /\ (Creation!Plan[c].undo = "own" => \E i \in DOMAIN dUndo' : Root \in (dUndo')[i].remove)
    BY <1>3, <1>4, <2>1 DEF RootListed
  <2>2. CASE c < dJob.next
    <3>1. Root \in dExists /\ (Creation!Plan[c].undo = "own" => \E i \in DOMAIN dUndo : Root \in dUndo[i].remove)
      BY <1>2, <2>2 DEF RootListed
    <3> QED
      BY <1>1, <1>5, <3>1
  <2>3. CASE c = dJob.next
    <3>1. Root \in Creation!Made
      BY <1>2, <2>3, RootMade
    <3> QED
      BY <1>1, <1>2, <1>5, <2>3, <3>1
  <2>4. c < dJob.next \/ c = dJob.next
    BY <1>2
  <2> QED
    BY <2>2, <2>3, <2>4
<1> QED
  BY <1>1, <1>2, <1>3, <1>5, <1>6, <1>7, <1>9, <1>10, <1>11 DEF CreationInv

\* The refusal of a call, and an ambiguous answer.
LEMMA RefusedKeeps ==
  ASSUME CreationInv, Creation!CallRefused
  PROVE  CreationInv'
<1>1. /\ dPhase = "calling" /\ dJob.next <= Len(Creation!Plan) /\ dPhase' = "rollback" /\ dDraft' = dDraft
      /\ dJob' = dJob /\ dActive' = dActive /\ dLost' = dLost /\ dAsked' = dAsked /\ dUnverified' = dUnverified
  BY DEF Creation!CallRefused, Creation!Throw, Creation!history
<1>2. PICK S \in SUBSET Creation!Made :
        /\ S # {} => dDraft.platform = "pinterest" /\ Creation!Step.makes = {"ad"} \X Creation!Ads
        /\ dExists' = dExists \cup S /\ dUndo' = Creation!UndoWith(S)
  BY DEF Creation!CallRefused
<1>3. /\ DraftKept /\ UndoKept /\ Removable(Creation!Plan, dJob.next) /\ Creation!Step = Creation!Plan[dJob.next]
      /\ \A o \in dExists : o[3] = dJob.try => ListedAfter(o, dLost) \/ Listed(o)
      /\ \A t : <<"campaign", 0, t>> \notin dActive
  BY <1>1, Calling
<1>4. DraftKept' <=> DraftKept
  BY <1>1, DraftStays
<1>5. UndoKept'
  BY <1>2, <1>3, UndoWithKeeps
<1>6. PlacesKept'
  <2>1. PlacesKept
    BY DEF CreationInv
  <2> QED
    BY <1>1, <2>1 DEF PlacesKept, Creation!Phases
<1>7. ObjectsKept'
  <2>1. Root \in Creation!Made => Root \in S \/ \A o \in S : o[1] # Creation!Leaf
    <3>1. ASSUME S # {}, Root \in Creation!Made PROVE FALSE
      <4>1. PICK m \in Creation!Step.makes : Root[1] = m[1]
        BY <3>1, MadeIs
      <4>2. Root[1] = "campaign"
        BY DEF Root
      <4>3. m \in {"ad"} \X Creation!Ads
        BY <1>2, <3>1
      <4>4. m[1] = "ad"
        BY <4>3
      <4> QED
        BY <4>1, <4>2, <4>4
    <3> QED
      BY <3>1
  <2> QED
    BY <1>1, <1>2, <2>1, MadeRooted
<1>8. AllKnown'
  <2> SUFFICES ASSUME NEW o \in dExists', o[3] = dJob.try
               PROVE  KnownTo(o)'
    BY <1>1 DEF AllKnown
  <2>1. CASE o \in dExists
    <3>1. ListedAfter(o, dLost) \/ Listed(o)
      BY <1>3, <2>1
    <3>2. ListedAfter(o, dLost)' \/ Listed(o)'
      BY <1>1, <1>2, <1>3, <3>1, KnownStays
    <3> QED
      BY <3>2 DEF KnownTo
  <2>2. CASE o \in S
    <3>1. dDraft.platform = "pinterest"
      BY <1>2, <2>2
    <3>2. PICK m \in Creation!Step.makes : o[1] = m[1]
      BY <2>2, MadeIs
    <3>3. Creation!Step.undo # "never"
      BY <1>3, <3>1, <3>2 DEF Removable
    <3>4. ListedAfter(o, dLost)' \/ Listed(o)'
      BY <1>1, <1>2, <2>2, <3>1, <3>3, MadeKnown
    <3> QED
      BY <3>4 DEF KnownTo
  <2> QED
    BY <1>2, <2>1, <2>2
<1>9. OnAsAsked'
  BY <1>1, <1>3 DEF OnAsAsked
<1> QED
  BY <1>1, <1>3, <1>4, <1>5, <1>6, <1>7, <1>8, <1>9 DEF CreationInv

LEMMA AmbiguousKeeps ==
  ASSUME CreationInv, Creation!CallAmbiguous
  PROVE  CreationInv'
<1>1. /\ dPhase = "calling" /\ dJob.next <= Len(Creation!Plan) /\ dPhase' = "rollback" /\ dDraft' = dDraft
      /\ dJob' = dJob /\ dActive' = dActive /\ dLost' = dLost /\ dUndo' = dUndo /\ dAsked' = dAsked
      /\ dUnverified' = dUnverified /\ dError' = "unknown_outcome"
  BY DEF Creation!CallAmbiguous, Creation!Throw, Creation!history
<1>2. PICK S \in {{}, Creation!Made} : dExists' = dExists \cup S /\ dDoubt' = dDoubt \cup S
  BY DEF Creation!CallAmbiguous
<1>3. /\ DraftKept /\ UndoKept
      /\ \A o \in dExists : o[3] = dJob.try => ListedAfter(o, dLost) \/ Listed(o)
      /\ \A t : <<"campaign", 0, t>> \notin dActive
  BY <1>1, Calling
<1>4. (DraftKept' <=> DraftKept) /\ \A p, q : Creation!Covers(p, q)' <=> Creation!Covers(p, q)
  BY <1>1, DraftStays
<1>5. UndoKept' <=> UndoKept
  BY <1>1 DEF UndoKept
<1>6. PlacesKept'
  <2>1. PlacesKept
    BY DEF CreationInv
  <2> QED
    BY <1>1, <2>1 DEF PlacesKept, Creation!Phases
<1>7. ObjectsKept'
  BY <1>1, <1>2, MadeRooted
<1>8. AllKnown'
  <2> SUFFICES ASSUME NEW o \in dExists', o[3] = dJob.try
               PROVE  KnownTo(o)'
    BY <1>1 DEF AllKnown
  <2>1. CASE o \in dExists
    <3>1. ListedAfter(o, dLost) \/ Listed(o)
      BY <1>3, <2>1
    <3>2. ListedAfter(o, dLost)' \/ Listed(o)'
      BY <1>1, <1>4, <3>1 DEF ListedAfter, Listed
    <3> QED
      BY <3>2 DEF KnownTo
  <2>2. CASE o \in S
    <3>1. Creation!Covers(o, o)
      BY CoversSelf
    <3>2. ListedAfter(o, dDoubt)'
      BY <1>2, <1>4, <2>2, <3>1 DEF ListedAfter
    <3> QED
      BY <1>1, <3>2 DEF KnownTo
  <2> QED
    BY <1>2, <2>1, <2>2
<1>9. OnAsAsked'
  BY <1>1, <1>3 DEF OnAsAsked
<1> QED
  BY <1>1, <1>3, <1>4, <1>5, <1>6, <1>7, <1>8, <1>9 DEF CreationInv

\* What takes a campaign back takes its ads back with it.
LEMMA GoneTogether ==
  ASSUME NEW p, NEW o, o[1] = Creation!Leaf, Creation!Covers(p, <<"campaign", 0, o[3]>>)
  PROVE  Creation!Covers(p, o)
<1>1. PICK root : root = <<"campaign", 0, o[3]>> /\ root[1] = "campaign" /\ root[2] = 0 /\ root[3] = o[3]
  OBVIOUS
<1>2. p[3] = o[3] /\ (p = root \/ (p[1] \in Creation!Above("campaign") /\ p[2] \in {0, 0}))
  BY <1>1 DEF Creation!Covers
<1>3. CASE p = root
  BY <1>1, <1>3 DEF Creation!Covers, Creation!Above, Creation!Leaf
<1>4. CASE p[1] \in Creation!Above("campaign") /\ p[2] \in {0, 0}
  BY <1>2, <1>4 DEF Creation!Covers, Creation!Above, Creation!Leaf
<1> QED
  BY <1>2, <1>3, <1>4

LEMMA RollbackKeeps ==
  ASSUME CreationInv, Creation!Rollback
  PROVE  CreationInv'
<1>1. /\ dPhase = "rollback" /\ dDraft' = dDraft /\ dJob' = dJob /\ dError' = dError /\ dDoubt' = dDoubt
      /\ dAsked' = dAsked /\ dUnverified' = dUnverified
  BY DEF Creation!Rollback, Creation!history
<1>2. DraftKept /\ UndoKept /\ PlacesKept /\ ObjectsKept /\ AllKnown /\ OnAsAsked
  BY DEF CreationInv
<1>3. /\ DraftKept' <=> DraftKept
      /\ (Creation!Leaf)' = Creation!Leaf
      /\ \A p, q : Creation!Covers(p, q)' <=> Creation!Covers(p, q)
  BY <1>1, DraftStays
<1>4. \A t : <<"campaign", 0, t>> \notin dActive
  BY <1>1, <1>2 DEF OnAsAsked
<1>5. \A o \in dExists : o[3] = dJob.try => KnownTo(o)
  BY <1>1, <1>2 DEF AllKnown
<1>6. CASE dUndo = <<>>
  <2>1. dPhase' = "thrown" /\ dExists' = dExists /\ dActive' = dActive /\ dUndo' = dUndo /\ dLost' = dLost
    BY <1>6 DEF Creation!Rollback
  <2>2. UndoKept' /\ PlacesKept' /\ ObjectsKept' /\ OnAsAsked'
    BY <1>1, <1>2, <1>3, <1>4, <1>6, <2>1 DEF UndoKept, PlacesKept, ObjectsKept, OnAsAsked, Creation!Phases
  <2>3. AllKnown'
    BY <1>1, <1>3, <1>5, <2>1 DEF AllKnown, KnownTo, ListedAfter, Listed
  <2> QED
    BY <1>2, <1>3, <2>1, <2>2, <2>3 DEF CreationInv
<1>7. CASE dUndo # <<>>
  <2>1. PICK last : last = dUndo[Len(dUndo)]
    OBVIOUS
  <2>2. PICK removed \in BOOLEAN, answered \in BOOLEAN :
          /\ answered => removed
          /\ dExists' = IF removed THEN dExists \ Creation!Gone(last.remove) ELSE dExists
          /\ dActive' = dActive \cap dExists'
          /\ dLost' = IF answered THEN dLost ELSE dLost \cup last.ids
    BY <1>7, <2>1 DEF Creation!Rollback
  <2>3. dPhase' = dPhase /\ dUndo' = SubSeq(dUndo, 1, Len(dUndo) - 1)
    BY <1>7 DEF Creation!Rollback
  <2>4. PICK U : dUndo \in Seq([remove : SUBSET U, ids : SUBSET U])
    BY <1>2 DEF UndoKept
  <2>5. PICK T : T = [remove : SUBSET U, ids : SUBSET U]
    OBVIOUS
  <2>6. dUndo \in Seq(T)
    BY <2>4, <2>5
  <2>7. /\ Len(dUndo) \in Nat \ {0} /\ DOMAIN dUndo = 1 .. Len(dUndo)
        /\ dUndo' \in Seq(T) /\ DOMAIN dUndo' = 1 .. Len(dUndo) - 1
        /\ \A i \in DOMAIN dUndo' : (dUndo')[i] = dUndo[i]
    BY <1>7, <2>3, <2>6
  <2>8. last.remove \subseteq last.ids
    BY <1>2, <2>1, <2>7 DEF UndoKept
  <2>9. UndoKept'
    <3>1. dUndo' \in Seq([remove : SUBSET U, ids : SUBSET U])
      BY <2>5, <2>7
    <3>2. \A i \in DOMAIN dUndo' : (dUndo')[i].remove \subseteq (dUndo')[i].ids
      BY <1>2, <2>7 DEF UndoKept
    <3> QED
      BY <3>1, <3>2 DEF UndoKept
  <2>10. PlacesKept'
    BY <1>1, <1>2, <2>3 DEF PlacesKept
  <2>11. dExists' \subseteq dExists /\ dLost \subseteq dLost' /\ dActive' \subseteq dActive
    BY <2>2
  <2>12. ObjectsKept'
    <3> SUFFICES ASSUME NEW o \in dExists', o[1] = Creation!Leaf
                 PROVE  <<"campaign", 0, o[3]>> \in dExists'
      BY <1>1, <1>2, <1>3, <2>11 DEF ObjectsKept
    <3>1. PICK root : root = <<"campaign", 0, o[3]>>
      OBVIOUS
    <3>2. root \in dExists
      BY <1>2, <2>11, <3>1 DEF ObjectsKept
    <3>3. ASSUME removed, root \in Creation!Gone(last.remove) PROVE FALSE
      <4>1. PICK p \in last.remove : Creation!Covers(p, root)
        BY <3>3 DEF Creation!Gone
      <4>2. Creation!Covers(p, o)
        BY <3>1, <4>1, GoneTogether
      <4>3. o \in Creation!Gone(last.remove)
        BY <2>11, <4>1, <4>2 DEF Creation!Gone
      <4> QED
        BY <2>2, <3>3, <4>3
    <3> QED
      BY <2>2, <3>1, <3>2, <3>3
  <2>13. AllKnown'
    <3> SUFFICES ASSUME NEW o \in dExists', o[3] = dJob.try
                 PROVE  KnownTo(o)'
      BY <1>1 DEF AllKnown
    <3>1. KnownTo(o)
      BY <1>5, <2>11
    <3>2. CASE ListedAfter(o, dLost)
      <4>1. ListedAfter(o, dLost)'
        BY <1>3, <2>11, <3>2 DEF ListedAfter
      <4> QED
        BY <4>1 DEF KnownTo
    <3>3. CASE dError = "unknown_outcome" /\ ListedAfter(o, dDoubt)
      <4>1. ListedAfter(o, dDoubt)'
        BY <1>1, <1>3, <3>3 DEF ListedAfter
      <4> QED
        BY <1>1, <3>3, <4>1 DEF KnownTo
    <3>4. CASE Listed(o)
      <4>1. PICK i \in DOMAIN dUndo : ListedAfter(o, dUndo[i].remove)
        BY <3>4 DEF Listed
      <4>2. CASE i # Len(dUndo)
        <5>1. i \in DOMAIN dUndo' /\ (dUndo')[i] = dUndo[i]
          BY <2>7, <4>2
        <5>2. Listed(o)'
          BY <1>3, <4>1, <5>1 DEF Listed, ListedAfter
        <5> QED
          BY <5>2 DEF KnownTo
      <4>3. CASE i = Len(dUndo)
        <5>1. PICK p \in last.remove : Creation!Covers(p, o)
          BY <2>1, <4>1, <4>3 DEF ListedAfter
        <5>2. ~ removed
          BY <2>2, <2>11, <5>1 DEF Creation!Gone
        <5>3. p \in dLost'
          BY <2>2, <2>8, <5>1, <5>2
        <5>4. ListedAfter(o, dLost)'
          BY <1>3, <5>1, <5>3 DEF ListedAfter
        <5> QED
          BY <5>4 DEF KnownTo
      <4> QED
        BY <4>2, <4>3
    <3> QED
      BY <3>1, <3>2, <3>3, <3>4 DEF KnownTo
  <2>14. OnAsAsked'
    BY <1>1, <1>4, <2>3, <2>11 DEF OnAsAsked
  <2> QED
    BY <1>1, <1>2, <1>3, <2>3, <2>9, <2>10, <2>12, <2>13, <2>14 DEF CreationInv
<1> QED
  BY <1>6, <1>7

\* What the calls do not touch: the objects and the list stay.
LEMMA CaughtKeeps ==
  ASSUME CreationInv, Creation!Caught
  PROVE  CreationInv'
<1>1. /\ dPhase = "thrown" /\ dDraft' = dDraft /\ dExists' = dExists /\ dActive' = dActive /\ dUndo' = dUndo
      /\ dError' = "none" /\ dLost' = {} /\ dAsked' = dAsked /\ dUnverified' = dUnverified
      /\ \/ dPhase' = "calling" /\ dJob' = [dJob EXCEPT !.refreshed = TRUE, !.try = @ + 1, !.next = 1]
         \/ dPhase' \in {"failed", "unconfirmed"} /\ dJob' = [dJob EXCEPT !.refreshed = FALSE]
         \/ dPhase' = "approved" /\ dJob' = [dJob EXCEPT !.attempt = @ + 1, !.refreshed = FALSE]
  BY DEF Creation!Caught
<1>2. DraftKept /\ UndoKept /\ PlacesKept /\ ObjectsKept /\ OnAsAsked
  BY DEF CreationInv
<1>3. (DraftKept' <=> DraftKept) /\ (Creation!Leaf)' = Creation!Leaf /\ (Creation!Plan)' = Creation!Plan
  BY <1>1, DraftStays
<1>4. PICK A : Creation!Plan \in Seq(A)
  BY <1>2, PlanSound
<1>5. \A c \in DOMAIN Creation!Plan : c \in Nat /\ c > 0
  BY <1>4
<1>6. /\ dJob \in [try : Nat, attempt : Nat, refreshed : BOOLEAN, next : Nat \ {0}] /\ dUndo = <<>>
  BY <1>1, <1>2 DEF PlacesKept
<1>7. /\ dJob' \in [try : Nat, attempt : Nat, refreshed : BOOLEAN, next : Nat \ {0}]
      /\ dJob'.try >= dJob.try /\ (dPhase' = "calling" => dJob'.try = dJob.try + 1 /\ dJob'.next = 1)
  <2>1. dJob = [try |-> dJob.try, attempt |-> dJob.attempt, refreshed |-> dJob.refreshed, next |-> dJob.next]
    BY <1>6
  <2>2. CASE dPhase' = "calling"
    <3>1. dJob' = [try |-> dJob.try + 1, attempt |-> dJob.attempt, refreshed |-> TRUE, next |-> 1]
      BY <1>1, <2>1, <2>2
    <3> QED
      BY <1>6, <3>1
  <2>3. CASE dPhase' \in {"failed", "unconfirmed"}
    <3>1. dJob' = [try |-> dJob.try, attempt |-> dJob.attempt, refreshed |-> FALSE, next |-> dJob.next]
      BY <1>1, <2>1, <2>3
    <3> QED
      BY <1>6, <2>3, <3>1
  <2>4. CASE dPhase' = "approved"
    <3>1. dJob' = [try |-> dJob.try, attempt |-> dJob.attempt + 1, refreshed |-> FALSE, next |-> dJob.next]
      BY <1>1, <2>1, <2>4
    <3> QED
      BY <1>6, <2>4, <3>1
  <2> QED
    BY <1>1, <2>2, <2>3, <2>4
<1>8. UndoKept' /\ PlacesKept'
  BY <1>1, <1>2, <1>6, <1>7 DEF UndoKept, PlacesKept, Creation!Phases
<1>9. ObjectsKept'
  BY <1>1, <1>2, <1>3, <1>6, <1>7 DEF ObjectsKept
<1>10. AllKnown'
  BY <1>1, <1>2, <1>6, <1>7 DEF ObjectsKept, AllKnown
<1>11. OnAsAsked'
  BY <1>1, <1>2 DEF OnAsAsked
<1>12. dPhase' = "calling" => RootListed'
  BY <1>3, <1>5, <1>7 DEF RootListed
<1> QED
  BY <1>2, <1>3, <1>8, <1>9, <1>10, <1>11, <1>12 DEF CreationInv

LEMMA BeginKeeps ==
  ASSUME CreationInv, Creation!Begin
  PROVE  CreationInv'
<1>1. /\ dPhase = "approved" /\ dDraft' = dDraft /\ dExists' = dExists /\ dActive' = dActive /\ dUndo' = dUndo
      /\ dError' = dError /\ dLost' = dLost /\ dAsked' = dAsked /\ dUnverified' = dUnverified
      /\ dPhase' = "calling" /\ dJob' = [dJob EXCEPT !.try = @ + 1, !.next = 1]
  BY DEF Creation!Begin, Creation!history
<1>2. DraftKept /\ UndoKept /\ PlacesKept /\ ObjectsKept /\ OnAsAsked
  BY DEF CreationInv
<1>3. (DraftKept' <=> DraftKept) /\ (Creation!Leaf)' = Creation!Leaf /\ (Creation!Plan)' = Creation!Plan
  BY <1>1, DraftStays
<1>4. PICK A : Creation!Plan \in Seq(A)
  BY <1>2, PlanSound
<1>5. \A c \in DOMAIN Creation!Plan : c \in Nat /\ c > 0
  BY <1>4
<1>6. /\ dJob \in [try : Nat, attempt : Nat, refreshed : BOOLEAN, next : Nat \ {0}] /\ dUndo = <<>>
      /\ dLost = {} /\ dError = "none"
  BY <1>1, <1>2 DEF PlacesKept
<1>7. /\ dJob' \in [try : Nat, attempt : Nat, refreshed : BOOLEAN, next : Nat \ {0}]
      /\ dJob'.try = dJob.try + 1 /\ dJob'.next = 1
  <2>1. dJob = [try |-> dJob.try, attempt |-> dJob.attempt, refreshed |-> dJob.refreshed, next |-> dJob.next]
    BY <1>6
  <2>2. dJob' = [try |-> dJob.try + 1, attempt |-> dJob.attempt, refreshed |-> dJob.refreshed, next |-> 1]
    BY <1>1, <2>1
  <2> QED
    BY <1>6, <2>2
<1>8. UndoKept' /\ PlacesKept'
  BY <1>1, <1>2, <1>6, <1>7 DEF UndoKept, PlacesKept, Creation!Phases
<1>9. ObjectsKept'
  BY <1>1, <1>2, <1>3, <1>6, <1>7 DEF ObjectsKept
<1>10. AllKnown'
  BY <1>1, <1>2, <1>6, <1>7 DEF ObjectsKept, AllKnown
<1>11. OnAsAsked'
  BY <1>1, <1>2 DEF OnAsAsked
<1>12. RootListed'
  BY <1>3, <1>5, <1>7 DEF RootListed
<1> QED
  BY <1>2, <1>3, <1>8, <1>9, <1>10, <1>11, <1>12 DEF CreationInv

\* The steps that leave the objects alone, or switch some of them, once no call is under way.
LEMMA RestKeeps ==
  ASSUME CreationInv, dDraft' = dDraft, dExists' = dExists, dUndo' = <<>>, dLost' = {}, dError' = "none",
         dJob' \in [try : Nat, attempt : Nat, refreshed : BOOLEAN, next : Nat \ {0}], dJob'.try = dJob.try,
         dPhase' \in {"approved", "failed", "unconfirmed", "paused", "activating", "active"}, OnAsAsked'
  PROVE  CreationInv'
<1>1. DraftKept /\ UndoKept /\ PlacesKept /\ ObjectsKept
  BY DEF CreationInv
<1>2. (DraftKept' <=> DraftKept) /\ (Creation!Leaf)' = Creation!Leaf
  BY DraftStays
<1>3. UndoKept'
  <2>1. dUndo' \in Seq([remove : SUBSET {}, ids : SUBSET {}]) /\ DOMAIN dUndo' = {}
    OBVIOUS
  <2> QED
    BY <2>1 DEF UndoKept
<1>4. PlacesKept' /\ ObjectsKept' /\ AllKnown'
  BY <1>1, <1>2 DEF PlacesKept, ObjectsKept, AllKnown, Creation!Phases
<1> QED
  BY <1>1, <1>2, <1>3, <1>4 DEF CreationInv

LEMMA FinishKeeps ==
  ASSUME CreationInv, Creation!Finish
  PROVE  CreationInv'
<1>1. /\ dPhase = "calling" /\ dPhase' = "paused" /\ dDraft' = dDraft /\ dExists' = dExists /\ dUndo' = <<>> /\ dLost' = {}
      /\ dJob' = [dJob EXCEPT !.refreshed = FALSE] /\ dError' = dError
      /\ \/ dActive' = dActive
         \/ dActive' = dActive \cup {<<"campaign", 0, dJob.try>>} /\ dUnverified' = TRUE
  BY DEF Creation!Finish, Creation!history
<1>2. PlacesKept /\ OnAsAsked
  BY DEF CreationInv
<1>3. dJob \in [try : Nat, attempt : Nat, refreshed : BOOLEAN, next : Nat \ {0}] /\ dError = "none"
  BY <1>1, <1>2 DEF PlacesKept
<1>4. dJob' \in [try : Nat, attempt : Nat, refreshed : BOOLEAN, next : Nat \ {0}] /\ dJob'.try = dJob.try
  BY <1>1, <1>3
<1>5. \A t : <<"campaign", 0, t>> \notin dActive
  BY <1>1, <1>2 DEF OnAsAsked
<1>6. OnAsAsked'
  BY <1>1, <1>4, <1>5 DEF OnAsAsked
<1> QED
  BY <1>1, <1>3, <1>4, <1>6, RestKeeps

LEMMA CrashKeeps ==
  ASSUME CreationInv, Creation!Crash
  PROVE  CreationInv'
<1>1. /\ dPhase \in {"calling", "rollback", "thrown"} /\ dPhase' = "unconfirmed" /\ dDraft' = dDraft /\ dExists' = dExists
      /\ dUndo' = <<>> /\ dLost' = {} /\ dJob' = [dJob EXCEPT !.refreshed = FALSE] /\ dError' = "none"
      /\ dActive' = dActive
  BY DEF Creation!Crash
<1>2. PlacesKept /\ OnAsAsked
  BY DEF CreationInv
<1>3. dJob' \in [try : Nat, attempt : Nat, refreshed : BOOLEAN, next : Nat \ {0}] /\ dJob'.try = dJob.try
  BY <1>1, <1>2 DEF PlacesKept
<1>4. OnAsAsked'
  BY <1>1, <1>2 DEF OnAsAsked
<1> QED
  BY <1>1, <1>3, <1>4, RestKeeps

LEMMA RetryKeeps ==
  ASSUME CreationInv, Creation!Retry
  PROVE  CreationInv'
<1>1. /\ dPhase \in {"failed", "unconfirmed"} /\ dPhase' = "approved" /\ dDraft' = dDraft /\ dExists' = dExists
      /\ dUndo' = dUndo /\ dLost' = dLost /\ dError' = dError /\ dJob' = [dJob EXCEPT !.attempt = 1]
      /\ dActive' = dActive
  BY DEF Creation!Retry, Creation!history
<1>2. PlacesKept /\ OnAsAsked
  BY DEF CreationInv
<1>3. /\ dJob' \in [try : Nat, attempt : Nat, refreshed : BOOLEAN, next : Nat \ {0}] /\ dJob'.try = dJob.try
      /\ dUndo = <<>> /\ dLost = {} /\ dError = "none"
  BY <1>1, <1>2 DEF PlacesKept
<1>4. OnAsAsked'
  BY <1>1, <1>2 DEF OnAsAsked
<1> QED
  BY <1>1, <1>3, <1>4, RestKeeps

LEMMA ActivateKeeps ==
  ASSUME CreationInv, Creation!Activate
  PROVE  CreationInv'
<1>1. /\ dPhase = "paused" /\ dPhase' = "activating" /\ dDraft' = dDraft /\ dExists' = dExists
      /\ dUndo' = dUndo /\ dLost' = dLost /\ dError' = dError /\ dJob' = dJob
      /\ dActive' = dActive /\ dAsked' = TRUE /\ dUnverified' = dUnverified
  BY DEF Creation!Activate
<1>2. PlacesKept /\ OnAsAsked
  BY DEF CreationInv
<1>3. /\ dJob' \in [try : Nat, attempt : Nat, refreshed : BOOLEAN, next : Nat \ {0}]
      /\ dUndo = <<>> /\ dLost = {} /\ dError = "none"
  BY <1>1, <1>2 DEF PlacesKept
<1>4. (Creation!Switches)' = Creation!Switches
  BY <1>1, DraftStays
<1>5. Whole' <=> Whole
  BY <1>1, <1>4 DEF Whole
<1>6. OnAsAsked'
  BY <1>1, <1>2, <1>5 DEF OnAsAsked
<1> QED
  BY <1>1, <1>3, <1>6, RestKeeps

LEMMA PauseKeeps ==
  ASSUME CreationInv, Creation!Pause
  PROVE  CreationInv'
<1>1. /\ dPhase \in {"active", "paused"} /\ dPhase' = "paused" /\ dDraft' = dDraft /\ dExists' = dExists
      /\ dUndo' = dUndo /\ dLost' = dLost /\ dError' = dError /\ dJob' = dJob
      /\ dActive' = dActive \ {<<"campaign", 0, dJob.try>>}
  BY DEF Creation!Pause
<1>2. PlacesKept /\ OnAsAsked
  BY DEF CreationInv
<1>3. /\ dJob' \in [try : Nat, attempt : Nat, refreshed : BOOLEAN, next : Nat \ {0}]
      /\ dUndo = <<>> /\ dLost = {} /\ dError = "none"
  BY <1>1, <1>2 DEF PlacesKept
<1>4. \A t : <<"campaign", 0, t>> \notin dActive'
  BY <1>1, <1>2 DEF OnAsAsked
<1>5. OnAsAsked'
  BY <1>1, <1>4 DEF OnAsAsked
<1> QED
  BY <1>1, <1>3, <1>5, RestKeeps

\* The next switch is of all there is, or of the campaign once all its children are on, or of
\* some of the children.
LEMMA SwitchIs ==
  ASSUME NEW S \in Creation!NextSwitch
  PROVE  /\ S \subseteq Creation!Own
         /\ \/ \A o \in Creation!Own : o[1] \in Creation!Switches => o \in dActive \cup S
            \/ \A o \in S : o[1] # "campaign"
<1>1. \A type : Creation!Off(type) = {o \in Creation!Own : o[1] = type /\ o \notin dActive}
  BY DEF Creation!Off
<1>2. CASE dDraft.platform = "google"
  <2>1. S = UNION {Creation!Off(type) : type \in Creation!Switches}
    BY <1>2 DEF Creation!NextSwitch
  <2> QED
    BY <1>1, <2>1
<1>3. CASE dDraft.platform # "google" /\ Creation!ChildrenLeft = {}
  <2>1. S = Creation!Off("campaign")
    BY <1>3 DEF Creation!NextSwitch
  <2>2. \A i \in DOMAIN Creation!Levels : Creation!Off(Creation!Levels[i]) = {}
    BY <1>3 DEF Creation!ChildrenLeft
  <2>3. ASSUME NEW o \in Creation!Own, o[1] \in Creation!Switches PROVE o \in dActive \cup S
    <3>1. CASE o[1] = "campaign"
      BY <1>1, <2>1, <3>1
    <3>2. CASE \E i \in DOMAIN Creation!Levels : o[1] = Creation!Levels[i]
      BY <1>1, <2>2, <3>2
    <3> QED
      BY <2>3, <3>1, <3>2 DEF Creation!Switches
  <2> QED
    BY <1>1, <2>1, <2>3
<1>4. CASE dDraft.platform # "google" /\ Creation!ChildrenLeft # {}
  <2>1. /\ DOMAIN Creation!Levels \subseteq {1, 2}
        /\ \A i \in DOMAIN Creation!Levels : Creation!Levels[i] # "campaign"
    BY DEF Creation!Levels
  <2>2. Creation!ChildrenLeft \subseteq DOMAIN Creation!Levels
    BY DEF Creation!ChildrenLeft
  <2>3. \E i \in Creation!ChildrenLeft : \A j \in Creation!ChildrenLeft : i <= j
    BY <1>4, <2>1, <2>2
  <2>4. PICK level : level = CHOOSE i \in Creation!ChildrenLeft : \A j \in Creation!ChildrenLeft : i <= j
    OBVIOUS
  <2>5. level \in Creation!ChildrenLeft
    BY <2>3, <2>4
  <2>6. S \subseteq Creation!Off(Creation!Levels[level])
    BY <1>4, <2>4 DEF Creation!NextSwitch
  <2> QED
    BY <1>1, <2>1, <2>2, <2>5, <2>6
<1> QED
  BY <1>2, <1>3, <1>4

LEMMA SwitchKeeps ==
  ASSUME CreationInv, Creation!SwitchOn \/ Creation!SwitchFails
  PROVE  CreationInv'
<1>1. /\ dPhase = "activating" /\ dPhase' \in {"paused", "activating", "active"} /\ dDraft' = dDraft /\ dExists' = dExists
      /\ dUndo' = dUndo /\ dLost' = dLost /\ dError' = dError /\ dJob' = dJob
      /\ dAsked' = dAsked /\ dUnverified' = dUnverified
  BY DEF Creation!SwitchOn, Creation!SwitchFails, Creation!history
<1>2. PICK S \in Creation!NextSwitch \cup {{}} : dActive' = dActive \cup S
  BY DEF Creation!SwitchOn, Creation!SwitchFails
<1>3. PlacesKept /\ OnAsAsked
  BY DEF CreationInv
<1>4. /\ dJob' \in [try : Nat, attempt : Nat, refreshed : BOOLEAN, next : Nat \ {0}]
      /\ dUndo = <<>> /\ dLost = {} /\ dError = "none"
  BY <1>1, <1>3 DEF PlacesKept
<1>5. (Creation!Switches)' = Creation!Switches
  BY <1>1, DraftStays
<1>6. dAsked
  BY <1>1, <1>3 DEF OnAsAsked
<1>7. /\ S \subseteq Creation!Own
      /\ \/ \A o \in Creation!Own : o[1] \in Creation!Switches => o \in dActive \cup S
         \/ \A o \in S : o[1] # "campaign"
  BY <1>2, SwitchIs
<1>8. Creation!Own = {o \in dExists : o[3] = dJob.try}
  BY DEF Creation!Own
<1>9. ASSUME NEW t, <<"campaign", 0, t>> \in dActive'
      PROVE  t = dJob.try /\ (dUnverified \/ Whole')
  <2>1. CASE <<"campaign", 0, t>> \in dActive
    <3>1. t = dJob.try /\ (dUnverified \/ Whole)
      BY <1>3, <2>1 DEF OnAsAsked
    <3>2. Whole => Whole'
      BY <1>1, <1>2, <1>5 DEF Whole
    <3> QED
      BY <3>1, <3>2
  <2>2. CASE <<"campaign", 0, t>> \in S
    <3>0. PICK root : root = <<"campaign", 0, t>>
      OBVIOUS
    <3>1. root[1] = "campaign" /\ root[3] = t
      BY <3>0
    <3>2. root \in S
      BY <2>2, <3>0
    <3>3. t = dJob.try
      BY <1>7, <1>8, <3>1, <3>2
    <3>4. \A o \in Creation!Own : o[1] \in Creation!Switches => o \in dActive'
      BY <1>2, <1>7, <3>1, <3>2
    <3>5. Whole'
      BY <1>1, <1>5, <1>8, <3>4 DEF Whole
    <3> QED
      BY <3>3, <3>5
  <2> QED
    BY <1>2, <1>9, <2>1, <2>2
<1>10. OnAsAsked'
  <2>1. dAsked' /\ (dUnverified' <=> dUnverified) /\ dJob'.try = dJob.try
    BY <1>1, <1>6
  <2> QED
    BY <1>1, <1>9, <2>1 DEF OnAsAsked
<1> QED
  BY <1>1, <1>4, <1>10, RestKeeps

\* Whatever an attempt that failed leaves on the platform is reported, and no ad delivers before
\* a person asked for it, nor while a child of its campaign is still off: CreationHonest, of the
\* calls of one campaign, whatever the six adapters meet (createCampaign, rollbackAndThrow,
\* setStatus).
THEOREM CreationHonestAlways ==
  ASSUME Creation!AdCreationParameters
  PROVE  Creation!Spec => [](Creation!LeftoversReported /\ Creation!DeliversWhole)
<1>1. Creation!AdCreationInit => CreationInv
  <2> SUFFICES ASSUME Creation!AdCreationInit PROVE CreationInv
    OBVIOUS
  <2>1. /\ dDraft \in [platform : AdPlatforms, ads : 1 .. MaxAds, video : BOOLEAN]
        /\ dPhase = "approved" /\ dJob = [try |-> 0, attempt |-> 1, refreshed |-> FALSE, next |-> 1]
        /\ dExists = {} /\ dActive = {} /\ dUndo = <<>> /\ dLost = {} /\ dError = "none"
    BY DEF Creation!AdCreationInit, Creation!NoJob
  <2>2. DraftKept
    <3>1. dDraft.platform \in AdPlatforms /\ dDraft.ads \in 1 .. MaxAds
      BY <2>1
    <3>2. dDraft.ads \in Nat
      BY <3>1
    <3>3. AdPlatforms \subseteq {"meta", "tiktok", "pinterest", "linkedin", "google", "x"}
      BY DEF Creation!AdCreationParameters
    <3>4. dDraft.platform \in {"meta", "tiktok", "pinterest", "linkedin", "google", "x"}
      BY <3>1, <3>3
    <3> QED
      BY <3>2, <3>4 DEF DraftKept
  <2>3. UndoKept
    <3>1. dUndo \in Seq([remove : SUBSET {}, ids : SUBSET {}]) /\ DOMAIN dUndo = {}
      BY <2>1
    <3> QED
      BY <3>1 DEF UndoKept
  <2>4. PlacesKept /\ ObjectsKept /\ AllKnown /\ OnAsAsked
    BY <2>1 DEF PlacesKept, ObjectsKept, AllKnown, OnAsAsked, Creation!Phases
  <2> QED
    BY <2>1, <2>2, <2>3, <2>4 DEF CreationInv
<1>2. CreationInv /\ [Creation!AdCreationNext]_(Creation!avars) => CreationInv'
  <2> SUFFICES ASSUME CreationInv, [Creation!AdCreationNext]_(Creation!avars) PROVE CreationInv'
    OBVIOUS
  <2>1. CASE UNCHANGED Creation!avars
    <3>1. /\ dDraft' = dDraft /\ dPhase' = dPhase /\ dJob' = dJob /\ dExists' = dExists /\ dActive' = dActive /\ dUndo' = dUndo
          /\ dLost' = dLost /\ dError' = dError /\ dDoubt' = dDoubt /\ dAsked' = dAsked /\ dUnverified' = dUnverified
      BY <2>1 DEF Creation!avars
    <3>2. /\ DraftKept' <=> DraftKept
          /\ (Creation!Plan)' = Creation!Plan /\ (Creation!Leaf)' = Creation!Leaf /\ (Creation!Switches)' = Creation!Switches
          /\ \A p, o : Creation!Covers(p, o)' <=> Creation!Covers(p, o)
      BY <3>1, DraftStays
    <3>3. (UndoKept' <=> UndoKept) /\ (PlacesKept' <=> PlacesKept) /\ (ObjectsKept' <=> ObjectsKept)
      BY <3>1, <3>2 DEF UndoKept, PlacesKept, ObjectsKept, Creation!Phases
    <3>4. AllKnown => AllKnown'
      BY <3>1, <3>2 DEF AllKnown, KnownTo, ListedAfter, Listed
    <3>5. OnAsAsked => OnAsAsked'
      BY <3>1, <3>2 DEF OnAsAsked, Whole
    <3>6. RootListed => RootListed'
      BY <3>1, <3>2 DEF RootListed, Root
    <3> QED
      BY <3>1, <3>2, <3>3, <3>4, <3>5, <3>6 DEF CreationInv
  <2> QED
    BY <2>1, BeginKeeps, SucceedsKeeps, RefusedKeeps, AmbiguousKeeps, RollbackKeeps, CaughtKeeps, FinishKeeps,
       CrashKeeps, RetryKeeps, ActivateKeeps, SwitchKeeps, PauseKeeps DEF Creation!AdCreationNext
<1>3. CreationInv => Creation!LeftoversReported
  <2> SUFFICES ASSUME CreationInv, dPhase = "thrown", NEW o \in dExists, o[3] = dJob.try
               PROVE  ListedAfter(o, dLost) \/ (dError = "unknown_outcome" /\ ListedAfter(o, dDoubt))
    BY DEF Creation!LeftoversReported, ListedAfter
  <2>1. PlacesKept /\ AllKnown
    BY DEF CreationInv
  <2>2. dUndo = <<>>
    BY <2>1 DEF PlacesKept
  <2> QED
    BY <2>1, <2>2 DEF AllKnown, KnownTo, Listed
<1>4. CreationInv => Creation!DeliversWhole
  <2> SUFFICES ASSUME CreationInv, ~ dUnverified, NEW o \in dExists, Creation!Delivers(o)
               PROVE  dAsked /\ Whole
    BY DEF Creation!DeliversWhole, Whole
  <2>1. ObjectsKept /\ OnAsAsked
    BY DEF CreationInv
  <2>2. PICK root : root = <<"campaign", 0, o[3]>>
    OBVIOUS
  <2>3. root \in dExists /\ o[1] = Creation!Leaf
    BY <2>1, <2>2 DEF ObjectsKept, Creation!Delivers
  <2>4. Creation!Covers(root, o)
    BY <2>2, <2>3 DEF Creation!Covers, Creation!Above, Creation!Leaf
  <2>5. root[1] \in Creation!Switches
    BY <2>2 DEF Creation!Switches
  <2>6. root \in dActive
    BY <2>3, <2>4, <2>5 DEF Creation!Delivers
  <2> QED
    BY <2>1, <2>2, <2>6 DEF OnAsAsked
<1> QED
  BY <1>1, <1>2, <1>3, <1>4, PTL DEF Creation!Spec

\* What is left of a bound.
LEMMA OneLeft ==
  ASSUME NEW max \in Nat, NEW n \in 0..max, NEW m, m = n \/ (n > 0 /\ m = n - 1)
  PROVE  m \in 0..max
OBVIOUS

-----------------------------------------------------------------------------
(* Sums over a finite set, as the models write them with MapThenSumSet: an element is taken out  *)
(* after another.                                                                                *)

FirstOf(s) == CHOOSE x \in s : TRUE
\* g is the sum of f over each subset of S.
Adds(f, S, g) ==
  g = [s \in SUBSET S |-> IF s = {} THEN 0 ELSE f[FirstOf(s)] + g[s \ {FirstOf(s)}]]
Total(f, S) == (CHOOSE g : Adds(f, S, g))[S]

LEMMA FirstIsIn == ASSUME NEW s, s # {} PROVE FirstOf(s) \in s
BY DEF FirstOf

LEMMA AddsOne ==
  ASSUME NEW f, NEW S, NEW g, Adds(f, S, g), NEW s \in SUBSET S
  PROVE  /\ s = {} => g[s] = 0
         /\ s # {} => g[s] = f[FirstOf(s)] + g[s \ {FirstOf(s)}]
<1>1. g[s] = IF s = {} THEN 0 ELSE f[FirstOf(s)] + g[s \ {FirstOf(s)}]
  BY Zenon DEF Adds
<1> QED
  BY <1>1

\* As a sum is used below.
AddsUp(f, S, g) ==
  /\ g[{}] = 0
  /\ \A s \in SUBSET S : s # {} => g[s] = f[FirstOf(s)] + g[s \ {FirstOf(s)}]

LEMMA AddsIsSum ==
  ASSUME NEW f, NEW S, NEW g, Adds(f, S, g)
  PROVE  AddsUp(f, S, g)
BY AddsOne DEF AddsUp

LEMMA SumsAgree ==
  ASSUME NEW f, NEW S, IsFiniteSet(S), NEW T \in SUBSET S, NEW g, NEW h, Adds(f, S, g), Adds(f, T, h)
  PROVE  \A s \in SUBSET T : g[s] = h[s]
<1> DEFINE Odd == {s \in SUBSET T : g[s] # h[s]}
<1> SUFFICES ASSUME Odd # {} PROVE FALSE
  OBVIOUS
<1>1. PICK m \in Odd : \A t \in SUBSET m : t # m => t \notin Odd
  <2>1. Odd \subseteq SUBSET S
    OBVIOUS
  <2> HIDE DEF Odd
  <2> QED
    BY <2>1, SmallestSet
<1>2. m # {}
  BY <1>1, AddsIsSum DEF AddsUp
<1>3. m \ {FirstOf(m)} \in SUBSET T /\ m \ {FirstOf(m)} # m
  BY <1>1, <1>2, FirstIsIn
<1>4. g[m \ {FirstOf(m)}] = h[m \ {FirstOf(m)}]
  BY <1>1, <1>3
<1>5. g[m] = f[FirstOf(m)] + g[m \ {FirstOf(m)}] /\ h[m] = f[FirstOf(m)] + h[m \ {FirstOf(m)}]
  BY <1>1, <1>2, AddsOne
<1> QED
  BY <1>1, <1>4, <1>5

LEMMA SumExists ==
  ASSUME NEW f, NEW S, IsFiniteSet(S)
  PROVE  \E g : Adds(f, S, g)
<1> DEFINE Without == {s \in SUBSET S : \A g : ~ Adds(f, s, g)}
<1> SUFFICES ASSUME Without # {} PROVE FALSE
  OBVIOUS
<1>1. PICK m \in Without : \A t \in SUBSET m : t # m => t \notin Without
  <2>1. Without \subseteq SUBSET S
    OBVIOUS
  <2> HIDE DEF Without
  <2> QED
    BY <2>1, SmallestSet
<1> DEFINE G(t) == CHOOSE g : Adds(f, t, g)
           less(s) == s \ {FirstOf(s)}
           h == [s \in SUBSET m |-> IF s = {} THEN 0 ELSE f[FirstOf(s)] + G(less(s))[less(s)]]
<1>2. ASSUME NEW t \in SUBSET m, t # m
      PROVE  Adds(f, t, G(t))
  BY <1>1, <1>2
<1>3. ASSUME NEW s \in SUBSET m, s # {}
      PROVE  less(s) \in SUBSET m /\ less(s) # m /\ less(s) # s
  BY <1>3, FirstIsIn
<1> HIDE DEF G, less
<1>4. ASSUME NEW t \in SUBSET m, t # m
      PROVE  h[t] = G(t)[t]
  <2>1. CASE t = {}
    BY <1>2, <1>4, <2>1, AddsOne
  <2>2. CASE t # {}
    <3>1. G(t)[t] = f[FirstOf(t)] + G(t)[less(t)]
      BY <1>2, <1>4, <2>2, AddsOne DEF less
    <3>2. less(t) \in SUBSET t /\ less(t) \in SUBSET m /\ less(t) # m
      BY <1>3, <2>2 DEF less
    <3>3. IsFiniteSet(t)
      BY <1>1, FS_Subset
    <3>4. Adds(f, less(t), G(less(t))) /\ Adds(f, t, G(t))
      BY <1>2, <1>4, <3>2
    <3>5. G(t)[less(t)] = G(less(t))[less(t)]
      BY <3>2, <3>3, <3>4, SumsAgree
    <3>6. h[t] = f[FirstOf(t)] + G(less(t))[less(t)]
      BY <2>2
    <3> QED
      BY <3>1, <3>5, <3>6
  <2> QED
    BY <2>1, <2>2
<1>5. ASSUME NEW s \in SUBSET m
      PROVE  h[s] = IF s = {} THEN 0 ELSE f[FirstOf(s)] + h[less(s)]
  <2>1. CASE s = {}
    BY <2>1
  <2>2. CASE s # {}
    <3>1. h[less(s)] = G(less(s))[less(s)]
      BY <1>3, <1>4, <2>2
    <3>2. h[s] = f[FirstOf(s)] + G(less(s))[less(s)]
      BY <2>2
    <3> HIDE DEF h
    <3> QED
      BY <2>2, <3>1, <3>2
  <2> QED
    BY <2>1, <2>2
<1>6. h = [s \in SUBSET m |-> h[s]]
  OBVIOUS
<1> HIDE DEF h
<1>7. Adds(f, m, h)
  <2>1. h = [s \in SUBSET m |-> IF s = {} THEN 0 ELSE f[FirstOf(s)] + h[less(s)]]
    BY <1>5, <1>6
  <2> QED
    BY <2>1, Zenon DEF Adds, less
<1> QED
  BY <1>1, <1>7

LEMMA TotalIs ==
  ASSUME NEW f, NEW S, IsFiniteSet(S), NEW g, Adds(f, S, g)
  PROVE  Total(f, S) = g[S]
<1>1. Adds(f, S, CHOOSE h : Adds(f, S, h))
  BY Zenon
<1> QED
  BY <1>1, SumsAgree DEF Total

LEMMA SumOf ==
  ASSUME NEW f, NEW S, IsFiniteSet(S)
  PROVE  \E g : Total(f, S) = g[S] /\ AddsUp(f, S, g)
BY SumExists, TotalIs, AddsIsSum

LEMMA TotalNat ==
  ASSUME NEW S, IsFiniteSet(S), NEW f, \A x \in S : f[x] \in Nat
  PROVE  Total(f, S) \in Nat
<1>1. PICK g : Total(f, S) = g[S] /\ AddsUp(f, S, g)
  BY SumOf
<1> DEFINE Odd == {s \in SUBSET S : g[s] \notin Nat}
<1>2. ASSUME Odd # {} PROVE FALSE
  <2>1. PICK m \in Odd : \A t \in SUBSET m : t # m => t \notin Odd
    <3>1. Odd \subseteq SUBSET S
      OBVIOUS
    <3> HIDE DEF Odd
    <3> QED
      BY <1>2, <3>1, SmallestSet
  <2>2. m # {}
    <3> SUFFICES ASSUME m = {} PROVE FALSE
      OBVIOUS
    <3>1. g[m] = 0
      BY <1>1 DEF AddsUp
    <3> QED
      BY <2>1, <3>1
  <2>3. m \ {FirstOf(m)} \in SUBSET S /\ m \ {FirstOf(m)} # m /\ FirstOf(m) \in S
    BY <2>1, <2>2, FirstIsIn
  <2>4. g[m \ {FirstOf(m)}] \in Nat /\ f[FirstOf(m)] \in Nat
    BY <2>1, <2>3
  <2>5. g[m] = f[FirstOf(m)] + g[m \ {FirstOf(m)}]
    BY <1>1, <2>1, <2>2 DEF AddsUp
  <2> QED
    BY <2>1, <2>4, <2>5
<1> QED
  BY <1>1, <1>2

LEMMA TotalZero ==
  ASSUME NEW S, IsFiniteSet(S), NEW f, \A x \in S : f[x] = 0
  PROVE  Total(f, S) = 0
<1>1. PICK g : Total(f, S) = g[S] /\ AddsUp(f, S, g)
  BY SumOf
<1> DEFINE Odd == {s \in SUBSET S : g[s] # 0}
<1>2. ASSUME Odd # {} PROVE FALSE
  <2>1. PICK m \in Odd : \A t \in SUBSET m : t # m => t \notin Odd
    <3>1. Odd \subseteq SUBSET S
      OBVIOUS
    <3> HIDE DEF Odd
    <3> QED
      BY <1>2, <3>1, SmallestSet
  <2>2. m # {}
    BY <1>1, <2>1 DEF AddsUp
  <2>3. m \ {FirstOf(m)} \in SUBSET S /\ m \ {FirstOf(m)} # m /\ FirstOf(m) \in S
    BY <2>1, <2>2, FirstIsIn
  <2>4. g[m \ {FirstOf(m)}] = 0 /\ f[FirstOf(m)] = 0
    BY <2>1, <2>3
  <2>5. g[m] = f[FirstOf(m)] + g[m \ {FirstOf(m)}]
    BY <1>1, <2>1, <2>2 DEF AddsUp
  <2> QED
    BY <2>1, <2>4, <2>5
<1> QED
  BY <1>1, <1>2

\* Where two functions differ at one element, so much do their sums.
LEMMA TotalChanges ==
  ASSUME NEW S, IsFiniteSet(S), NEW f, NEW h, NEW k \in S,
         \A x \in S : f[x] \in Nat /\ h[x] \in Nat, \A x \in S \ {k} : h[x] = f[x]
  PROVE  Total(h, S) + f[k] = Total(f, S) + h[k]
<1>1. PICK g : Total(f, S) = g[S] /\ AddsUp(f, S, g)
  BY SumOf
<1>2. PICK j : Total(h, S) = j[S] /\ AddsUp(h, S, j)
  BY SumOf
<1> DEFINE Same(s) == IF k \in s THEN j[s] + f[k] = g[s] + h[k] ELSE j[s] = g[s]
           Odd == {s \in SUBSET S : ~ (g[s] \in Nat /\ j[s] \in Nat /\ Same(s))}
<1>3. ASSUME Odd # {} PROVE FALSE
  <2>1. PICK m \in Odd : \A t \in SUBSET m : t # m => t \notin Odd
    <3>1. Odd \subseteq SUBSET S
      OBVIOUS
    <3> HIDE DEF Odd
    <3> QED
      BY <1>3, <3>1, SmallestSet
  <2>2. m # {}
    <3> SUFFICES ASSUME m = {} PROVE FALSE
      OBVIOUS
    <3>1. g[m] = 0 /\ j[m] = 0
      BY <1>1, <1>2 DEF AddsUp
    <3>2. k \notin m
      OBVIOUS
    <3> QED
      BY <2>1, <3>1, <3>2
  <2> DEFINE x == FirstOf(m)
             rest == m \ {x}
  <2>3. rest \in SUBSET S /\ rest \in SUBSET m /\ rest # m /\ x \in S /\ x \in m
    BY <2>1, <2>2, FirstIsIn
  <2>4. g[rest] \in Nat /\ j[rest] \in Nat /\ Same(rest)
    <3> HIDE DEF Same, rest, x
    <3> QED
      BY <2>1, <2>3
  <2>5. g[m] = f[x] + g[rest] /\ j[m] = h[x] + j[rest]
    <3>1. m \in SUBSET S
      BY <2>1
    <3> QED
      BY <1>1, <1>2, <2>2, <3>1 DEF AddsUp
  <2>6. f[x] \in Nat /\ h[x] \in Nat /\ f[k] \in Nat /\ h[k] \in Nat
    BY <2>3
  <2>7. x # k => h[x] = f[x]
    BY <2>3
  <2>8. (k \in rest <=> k \in m /\ k # x)
    OBVIOUS
  <2>9. g[m] \in Nat /\ j[m] \in Nat
    BY <2>4, <2>5, <2>6
  <2> HIDE DEF x, rest
  <2>10. CASE x = k
    <3>1. k \in m /\ k \notin rest
      BY <2>3, <2>8, <2>10
    <3>2. Same(m)
      BY <2>4, <2>5, <2>6, <2>10, <3>1
    <3> QED
      BY <2>1, <2>9, <3>2
  <2>11. CASE x # k
    <3>1. Same(m)
      BY <2>4, <2>5, <2>6, <2>7, <2>8, <2>11
    <3> QED
      BY <2>1, <2>9, <3>1
  <2> QED
    BY <2>10, <2>11
<1>4. Same(S)
  <2> HIDE DEF Same
  <2> QED
    BY <1>3
<1> QED
  BY <1>1, <1>2, <1>4

-----------------------------------------------------------------------------
(* The research runs *)

CONSTANTS Workers, MaxAttempts, RunIds, ResearchFaults
VARIABLES rStatus, rCost, rLedger, rJob, rWorker, rRequest, rFaults, rSpent, rMissed, rExcused, rSwept

Research == INSTANCE ResearchRuns WITH
  Runs <- RunIds, MaxFaults <- ResearchFaults,
  status <- rStatus, cost <- rCost, ledger <- rLedger, job <- rJob, worker <- rWorker,
  request <- rRequest, faults <- rFaults, spent <- rSpent, missed <- rMissed,
  excused <- rExcused, swept <- rSwept

ResearchJobs == [st : {"none", "waiting", "active", "finished"}, made : Nat]
Flags == BOOLEAN
ResearchStages == {"idle", "read", "claim", "crawl", "ask", "commit", "keep", "fail"}
Paid == 0..1
ResearchWorkers ==
  [pc : ResearchStages,
   run : RunIds \cup {Research!Free.run}, made : Nat, resume : Flags, again : Flags, asked : Flags,
   paid : Paid, held : Flags]
ResearchTyped ==
  /\ rStatus \in [RunIds -> Research!RunStatus \cup {"unused"}]
  /\ rCost \in [RunIds -> Nat] /\ rLedger \in [RunIds -> Nat] /\ rSpent \in [RunIds -> Nat] /\ rMissed \in [RunIds -> Nat]
  /\ rJob \in [RunIds -> ResearchJobs]
  /\ rWorker \in [Workers -> ResearchWorkers]
  /\ rRequest \in [RunIds -> {"none", "enqueue", "fail", "done"}]

\* What works for a run, or is to, has one that was asked for.
AskedFor ==
  /\ \A r \in RunIds : rRequest[r] # "none" \/ rJob[r].st # "none" => rStatus[r] # "unused"
  /\ \A w \in Workers : ~ Research!At(w, "idle") => rWorker[w].run \in RunIds /\ rStatus[rWorker[w].run] # "unused"
\* A worker has the money of an answer until it has written it.
HoldsAnswer == \A w \in Workers : rWorker[w].paid = IF rWorker[w].pc \in {"commit", "keep"} THEN 1 ELSE 0
\* Workers that were at a run together are counted as such.
WorksAlone ==
  \A w, v \in Workers :
    w # v /\ ~ Research!At(w, "idle") /\ ~ Research!At(v, "idle") /\ rWorker[w].run = rWorker[v].run =>
      rWorker[w].run \in rExcused
\* A run that its one worker has found active has not ended, but for the sweep, and has no row.
StillOpen(r) == rStatus[r] # "succeeded" /\ (rStatus[r] = "failed" => r \in rSwept) /\ rLedger[r] = 0
WorkIsOpen ==
  \A w \in Workers :
    rWorker[w].pc \notin {"idle", "read"} /\ rWorker[w].run \notin rExcused => StillOpen(rWorker[w].run)
\* What a run's row says.
RowsTrue ==
  /\ \A r \in RunIds : rStatus[r] = "unused" => rLedger[r] = 0
  /\ \A r \in RunIds \ rExcused :
       /\ rStatus[r] = "succeeded" \/ (rStatus[r] = "failed" /\ r \notin rSwept) => rLedger[r] = rCost[r]
       /\ rStatus[r] \in Research!ACTIVE_STATUSES => rLedger[r] = 0
IdleHoldsNothing == \A w \in Workers : rWorker[w].held => ~ Research!At(w, "idle")
InHands(r) == [w \in Workers |-> IF rWorker[w].run = r THEN rWorker[w].paid ELSE 0]
SpentAddsUp ==
  \A r \in RunIds \ rExcused : rSpent[r] = rCost[r] + rMissed[r] + Total(InHands(r), Workers)

ResearchInv ==
  ResearchTyped /\ AskedFor /\ HoldsAnswer /\ IdleHoldsNothing /\ WorksAlone /\ WorkIsOpen /\ RowsTrue /\ SpentAddsUp

LEMMA FlagsAre == TRUE \in Flags /\ FALSE \in Flags /\ \A b \in BOOLEAN : b \in Flags
BY DEF Flags

LEMMA FreeWorker ==
  /\ Research!Free \in ResearchWorkers
  /\ Research!Free.pc = "idle" /\ Research!Free.paid = 0 /\ Research!Free.held = FALSE
BY DEF Research!Free, ResearchWorkers, Flags, Paid, ResearchStages

LEMMA PlusAt ==
  ASSUME NEW f \in [RunIds -> Nat], NEW r, NEW n, r \in RunIds => n \in Nat
  PROVE  /\ Research!Plus(f, r, n) \in [RunIds -> Nat]
         /\ \A q \in RunIds \ {r} : Research!Plus(f, r, n)[q] = f[q]
         /\ r \in RunIds => Research!Plus(f, r, n)[r] = f[r] + n
<1>1. CASE r \in RunIds
  <2>1. f[r] + n \in Nat
    BY <1>1
  <2> QED
    BY <1>1, <2>1 DEF Research!Plus
<1>2. CASE r \notin RunIds
  <2>1. Research!Plus(f, r, n) = f
    BY <1>2 DEF Research!Plus
  <2> QED
    BY <1>2, <2>1
<1> QED
  BY <1>1, <1>2

\* How a step leaves the worker it is of.
WorkerLeft(w) ==
  /\ \A v \in Workers \ {w} : rWorker'[v] = rWorker[v]
  /\ rWorker' \in [Workers -> ResearchWorkers]
Ended(w) == WorkerLeft(w) /\ rWorker'[w].pc = "idle" /\ rWorker'[w].paid = 0

LEMMA WorkerGoes ==
  ASSUME ResearchTyped, NEW w \in Workers, NEW to \in ResearchWorkers, rWorker' = [rWorker EXCEPT ![w] = to]
  PROVE  WorkerLeft(w) /\ rWorker'[w] = to
BY DEF ResearchTyped, WorkerLeft

LEMMA RecordGoes ==
  ASSUME NEW x \in ResearchWorkers, NEW pc \in ResearchStages, NEW b \in Flags, NEW n \in Paid
  PROVE  /\ [x EXCEPT !.pc = pc] \in ResearchWorkers
         /\ [x EXCEPT !.pc = pc, !.resume = b] \in ResearchWorkers
         /\ [x EXCEPT !.pc = pc, !.asked = b] \in ResearchWorkers
         /\ [x EXCEPT !.pc = pc, !.again = b] \in ResearchWorkers
         /\ [x EXCEPT !.pc = pc, !.paid = n] \in ResearchWorkers
         /\ [x EXCEPT !.held = b] \in ResearchWorkers
BY DEF ResearchWorkers

LEMMA WorkerEnds ==
  ASSUME ResearchTyped, NEW w \in Workers, rWorker' = [rWorker EXCEPT ![w] = Research!Free]
  PROVE  Ended(w)
BY FreeWorker DEF ResearchTyped, Ended, WorkerLeft

LEMMA JobEnds ==
  ASSUME ResearchTyped, NEW w \in Workers, Research!Returns(w) \/ Research!Throws(w)
  PROVE  /\ Ended(w)
         /\ rJob' \in [RunIds -> ResearchJobs]
         /\ \A q \in RunIds : rJob'[q].st # "none" =>
              rJob[q].st # "none" \/ (rWorker[w].held /\ q = rWorker[w].run)
<1>1. rWorker[w].made \in Nat /\ rWorker[w].made + 1 \in Nat
  BY DEF ResearchTyped, ResearchWorkers
<1>2. Ended(w)
  BY WorkerEnds DEF Research!Returns, Research!Throws
<1>3. CASE rJob' = rJob
  BY <1>2, <1>3 DEF ResearchTyped
<1>4. CASE rWorker[w].held /\ rJob' = [rJob EXCEPT ![rWorker[w].run].st = "finished"]
  BY <1>2, <1>4 DEF ResearchTyped, ResearchJobs
<1>5. ASSUME NEW st \in {"waiting", "finished"}, rWorker[w].held,
             rJob' = [rJob EXCEPT ![rWorker[w].run] = [st |-> st, made |-> rWorker[w].made + 1]]
      PROVE  /\ rJob' \in [RunIds -> ResearchJobs]
             /\ \A q \in RunIds \ {rWorker[w].run} : rJob'[q] = rJob[q]
  <2>1. [st |-> st, made |-> rWorker[w].made + 1] \in ResearchJobs
    BY <1>1, <1>5 DEF ResearchJobs
  <2> QED
    BY <1>5, <2>1 DEF ResearchTyped
<1> QED
  BY <1>2, <1>3, <1>4, <1>5 DEF Research!Returns, Research!Throws

\* Every variable keeps its type.
LEMMA ResearchWorkersTyped ==
  ASSUME ResearchTyped, NEW w \in Workers,
         Research!WorkerStep(w) \/ Research!SucceedFails(w) \/ Research!RunFails(w) \/ Research!Crash(w)
           \/ Research!LockLost(w)
  PROVE  WorkerLeft(w) /\ rJob' \in [RunIds -> ResearchJobs]
<1>1. CASE Research!Returns(w) \/ Research!Throws(w)
  BY <1>1, JobEnds DEF Ended
<1>2. CASE Research!Crash(w)
  BY <1>2, WorkerEnds DEF Research!Crash, Ended, ResearchTyped
<1>3. CASE Research!TakeJob(w)
  <2>1. PICK r \in RunIds :
          /\ rJob' = [rJob EXCEPT ![r].st = "active"]
          /\ rWorker' = [rWorker EXCEPT ![w] = [Research!Free EXCEPT !.pc = "read", !.run = r,
                                                                 !.made = rJob[r].made, !.held = TRUE]]
    BY <1>3 DEF Research!TakeJob
  <2>2. rJob[r] \in ResearchJobs /\ rJob[r].made \in Nat
    BY DEF ResearchTyped, ResearchJobs
  <2>3. [Research!Free EXCEPT !.pc = "read", !.run = r, !.made = rJob[r].made, !.held = TRUE] \in ResearchWorkers
    <3>1. "read" \in ResearchStages /\ TRUE \in Flags
      BY DEF ResearchStages, Flags
    <3> QED
      BY <2>2, <3>1, FreeWorker DEF ResearchWorkers
  <2> QED
    BY <2>1, <2>3 DEF ResearchTyped, ResearchJobs, WorkerLeft
<1>4. CASE UNCHANGED rJob /\ ~ (Research!Returns(w) \/ Research!Throws(w) \/ Research!Crash(w) \/ Research!TakeJob(w))
  <2>1. \/ rWorker' = [rWorker EXCEPT ![w].pc = "crawl"]
        \/ rWorker' = [rWorker EXCEPT ![w].pc = "claim", ![w].resume = rStatus[rWorker[w].run] = "analyzing"]
        \/ rWorker' = [rWorker EXCEPT ![w].pc = "ask", ![w].asked = TRUE]
        \/ \E again \in BOOLEAN : rWorker' = [rWorker EXCEPT ![w].pc = "fail", ![w].again = again]
        \/ rWorker' = [rWorker EXCEPT ![w].pc = "commit", ![w].paid = 1]
        \/ rWorker' = [rWorker EXCEPT ![w].pc = "keep", ![w].again = TRUE]
        \/ rWorker' = [rWorker EXCEPT ![w].pc = "fail", ![w].paid = 0]
        \/ rWorker' = [rWorker EXCEPT ![w].held = FALSE]
    BY <1>4 DEF Research!WorkerStep, Research!SucceedFails, Research!RunFails, Research!LockLost,
       Research!Read, Research!Claim, Research!Crawl, Research!CrawlFails, Research!Answers, Research!Refuses,
       Research!Succeed, Research!Keep, Research!HandleFailure, Research!Goes
  <2> DEFINE x == rWorker[w]
  <2>2. x \in ResearchWorkers /\ {"crawl", "claim", "ask", "fail", "commit", "keep"} \subseteq ResearchStages
        /\ {0, 1} \subseteq Paid /\ {TRUE, FALSE} \subseteq Flags
        /\ (rStatus[x.run] = "analyzing") \in Flags
    BY DEF ResearchTyped, ResearchStages, Paid, Flags
  <2>3. \E to \in ResearchWorkers : rWorker' = [rWorker EXCEPT ![w] = to]
    <3>1. CASE rWorker' = [rWorker EXCEPT ![w].pc = "crawl"]
      BY <2>2, <3>1, RecordGoes
    <3>2. CASE rWorker' = [rWorker EXCEPT ![w].pc = "claim", ![w].resume = rStatus[rWorker[w].run] = "analyzing"]
      <4>1. rWorker' = [rWorker EXCEPT ![w] = [x EXCEPT !.pc = "claim", !.resume = rStatus[x.run] = "analyzing"]]
        BY <3>2 DEF ResearchTyped
      <4> QED
        BY <2>2, <4>1, RecordGoes
    <3>3. CASE rWorker' = [rWorker EXCEPT ![w].pc = "ask", ![w].asked = TRUE]
      <4>1. rWorker' = [rWorker EXCEPT ![w] = [x EXCEPT !.pc = "ask", !.asked = TRUE]]
        BY <3>3 DEF ResearchTyped
      <4> QED
        BY <2>2, <4>1, RecordGoes
    <3>4. ASSUME NEW again \in BOOLEAN, rWorker' = [rWorker EXCEPT ![w].pc = "fail", ![w].again = again]
          PROVE  \E to \in ResearchWorkers : rWorker' = [rWorker EXCEPT ![w] = to]
      <4>1. rWorker' = [rWorker EXCEPT ![w] = [x EXCEPT !.pc = "fail", !.again = again]]
        BY <3>4 DEF ResearchTyped
      <4> QED
        BY <2>2, <4>1, RecordGoes, FlagsAre
    <3>5. CASE rWorker' = [rWorker EXCEPT ![w].pc = "commit", ![w].paid = 1]
      <4>1. rWorker' = [rWorker EXCEPT ![w] = [x EXCEPT !.pc = "commit", !.paid = 1]]
        BY <3>5 DEF ResearchTyped
      <4> QED
        BY <2>2, <4>1, RecordGoes
    <3>6. CASE rWorker' = [rWorker EXCEPT ![w].pc = "keep", ![w].again = TRUE]
      <4>1. rWorker' = [rWorker EXCEPT ![w] = [x EXCEPT !.pc = "keep", !.again = TRUE]]
        BY <3>6 DEF ResearchTyped
      <4> QED
        BY <2>2, <4>1, RecordGoes
    <3>7. CASE rWorker' = [rWorker EXCEPT ![w].pc = "fail", ![w].paid = 0]
      <4>1. rWorker' = [rWorker EXCEPT ![w] = [x EXCEPT !.pc = "fail", !.paid = 0]]
        BY <3>7 DEF ResearchTyped
      <4> QED
        BY <2>2, <4>1, RecordGoes
    <3>8. CASE rWorker' = [rWorker EXCEPT ![w].held = FALSE]
      BY <2>2, <3>8, RecordGoes
    <3> QED
      BY <2>1, <3>1, <3>2, <3>3, <3>4, <3>5, <3>6, <3>7, <3>8
  <2> QED
    BY <1>4, <2>3, WorkerGoes DEF ResearchTyped
<1> QED
  BY <1>1, <1>2, <1>3, <1>4 DEF Research!WorkerStep, Research!SucceedFails, Research!RunFails, Research!LockLost,
     Research!Read, Research!Claim, Research!Crawl, Research!CrawlFails, Research!Answers, Research!Refuses,
     Research!Succeed, Research!Keep, Research!HandleFailure

LEMMA ResearchTypedStep ==
  ASSUME ResearchTyped, [Research!ResearchNext]_Research!rrvars
  PROVE  ResearchTyped'
<1> DEFINE Rows == /\ rStatus' \in [RunIds -> Research!RunStatus \cup {"unused"}]
                   /\ rCost' \in [RunIds -> Nat] /\ rLedger' \in [RunIds -> Nat]
                   /\ rSpent' \in [RunIds -> Nat] /\ rMissed' \in [RunIds -> Nat]
                   /\ rRequest' \in [RunIds -> {"none", "enqueue", "fail", "done"}]
<1>1. ASSUME NEW w \in Workers,
             Research!WorkerStep(w) \/ Research!SucceedFails(w) \/ Research!RunFails(w) \/ Research!Crash(w)
               \/ Research!LockLost(w)
      PROVE  Rows
  <2>1. /\ rRequest' = rRequest
        /\ rStatus' = rStatus \/ \E st \in Research!RunStatus : rStatus' = [rStatus EXCEPT ![rWorker[w].run] = st]
    BY <1>1 DEF Research!WorkerStep, Research!SucceedFails, Research!RunFails, Research!Crash, Research!LockLost,
       Research!TakeJob, Research!Read, Research!Claim, Research!Crawl, Research!CrawlFails, Research!Answers,
       Research!Refuses, Research!Succeed, Research!Keep, Research!HandleFailure, Research!Resumed,
       Research!WriteSuccess, Research!WriteFailure, Research!rrows, Research!RunStatus
  <2>2. /\ rCost' = rCost \/ rCost' = Research!Plus(rCost, rWorker[w].run, 1)
        /\ \/ rSpent' = rSpent \/ rSpent' = Research!Plus(rSpent, rWorker[w].run, 1)
           \/ rSpent' = Research!Plus(rSpent, rWorker[w].run, 0)
        /\ \/ rMissed' = rMissed \/ rMissed' = Research!Plus(rMissed, rWorker[w].run, 1)
           \/ rMissed' = Research!Plus(rMissed, rWorker[w].run, 0)
           \/ rMissed' = Research!Plus(rMissed, rWorker[w].run, rWorker[w].paid)
        /\ \/ rLedger' = rLedger \/ rLedger' = Research!Plus(rLedger, rWorker[w].run, rCost[rWorker[w].run])
           \/ rLedger' = Research!Plus(rLedger, rWorker[w].run, rCost[rWorker[w].run] + 1)
    BY <1>1 DEF Research!WorkerStep, Research!SucceedFails, Research!RunFails, Research!Crash, Research!LockLost,
       Research!TakeJob, Research!Read, Research!Claim, Research!Crawl, Research!CrawlFails, Research!Answers,
       Research!Refuses, Research!Succeed, Research!Keep, Research!HandleFailure,
       Research!WriteSuccess, Research!WriteFailure, Research!rrows, Research!money
  <2>3. rWorker[w].paid \in Nat /\ (rWorker[w].run \in RunIds => rCost[rWorker[w].run] \in Nat /\ rCost[rWorker[w].run] + 1 \in Nat)
    BY DEF ResearchTyped, ResearchWorkers, Paid
  <2>4. rCost' \in [RunIds -> Nat] /\ rSpent' \in [RunIds -> Nat]
    BY <2>2, PlusAt DEF ResearchTyped
  <2>5. rMissed' \in [RunIds -> Nat] /\ rLedger' \in [RunIds -> Nat]
    BY <2>2, <2>3, PlusAt DEF ResearchTyped
  <2> QED
    BY <2>1, <2>4, <2>5 DEF ResearchTyped
<1>2. CASE \/ Research!Start \/ Research!Enqueue \/ Research!EnqueueFails \/ Research!EnqueueFailed
           \/ Research!RecoverStalled \/ Research!RecoverStuck \/ Research!RecoverEarly \/ UNCHANGED Research!rrvars
  <2>1. UNCHANGED <<rCost, rLedger, rWorker, rSpent, rMissed>>
    BY <1>2 DEF Research!Start, Research!Enqueue, Research!EnqueueFails, Research!EnqueueFailed,
       Research!RecoverStalled, Research!RecoverStuck, Research!RecoverEarly, Research!SweptRun, Research!rrvars,
       Research!rrows, Research!money
  <2>2. /\ rStatus' = rStatus \/ \E r \in RunIds, st \in {"pending", "failed"} : rStatus' = [rStatus EXCEPT ![r] = st]
        /\ rRequest' = rRequest \/ \E r \in RunIds, to \in {"enqueue", "done", "fail"} : rRequest' = [rRequest EXCEPT ![r] = to]
        /\ rJob' = rJob \/ \E r \in RunIds, st \in {"waiting", "finished"} : rJob' = [rJob EXCEPT ![r].st = st]
    BY <1>2 DEF Research!Start, Research!Enqueue, Research!EnqueueFails, Research!EnqueueFailed,
       Research!RecoverStalled, Research!RecoverStuck, Research!RecoverEarly, Research!SweptRun, Research!rrvars,
       Research!rrows, Research!money
  <2>3. rStatus' \in [RunIds -> Research!RunStatus \cup {"unused"}]
    BY <2>2 DEF ResearchTyped, Research!RunStatus
  <2>4. rRequest' \in [RunIds -> {"none", "enqueue", "fail", "done"}]
    BY <2>2 DEF ResearchTyped
  <2>5. rJob' \in [RunIds -> ResearchJobs]
    BY <2>2 DEF ResearchTyped, ResearchJobs
  <2> QED
    BY <2>1, <2>3, <2>4, <2>5 DEF ResearchTyped
<1> HIDE DEF Rows
<1>3. ASSUME NEW w \in Workers,
             Research!WorkerStep(w) \/ Research!SucceedFails(w) \/ Research!RunFails(w) \/ Research!Crash(w)
               \/ Research!LockLost(w)
      PROVE  ResearchTyped'
  BY <1>1, <1>3, ResearchWorkersTyped DEF ResearchTyped, Rows, WorkerLeft
<1> QED
  BY <1>2, <1>3 DEF Research!ResearchNext

\* Rows of other runs are as they were.
RowsLeft(r) ==
  \A q \in RunIds \ {r} :
    /\ rStatus'[q] = rStatus[q] /\ rCost'[q] = rCost[q] /\ rLedger'[q] = rLedger[q]
    /\ rSpent'[q] = rSpent[q] /\ rMissed'[q] = rMissed[q]

\* What a step of worker w at run r does, and does not.
StepOf(w, r) ==
  /\ RowsLeft(r) /\ UNCHANGED <<rRequest, rSwept>> /\ rExcused \subseteq rExcused'
  /\ rWorker'[w].pc # "idle" => rWorker'[w].run = r
  /\ rWorker'[w].paid = IF rWorker'[w].pc \in {"commit", "keep"} THEN 1 ELSE 0
  /\ rStatus'[r] # "unused"
  /\ \A q \in RunIds : rJob'[q].st # "none" => rJob[q].st # "none" \/ q = r
  /\ r \notin rExcused' /\ rWorker'[w].pc \notin {"idle", "read"} => StillOpen(r)'
  /\ r \notin rExcused' =>
       /\ rStatus'[r] = "succeeded" \/ (rStatus'[r] = "failed" /\ r \notin rSwept) => rLedger'[r] = rCost'[r]
       /\ rStatus'[r] \in Research!ACTIVE_STATUSES => rLedger'[r] = 0
       /\ rSpent'[r] + (rCost[r] + rMissed[r] + rWorker[w].paid) = rSpent[r] + (rCost'[r] + rMissed'[r] + rWorker'[w].paid)

\* A worker's step, of the run it is at.
LEMMA WorkerStepKeeps ==
  ASSUME Research!ResearchBounds, ResearchTyped, ResearchTyped', AskedFor, HoldsAnswer, WorksAlone, WorkIsOpen,
         RowsTrue, SpentAddsUp,
         NEW w \in Workers, WorkerLeft(w), NEW r \in RunIds, r = rWorker[w].run, ~ Research!At(w, "idle"), StepOf(w, r)
  PROVE  AskedFor' /\ HoldsAnswer' /\ WorksAlone' /\ WorkIsOpen' /\ RowsTrue' /\ SpentAddsUp'
<1> USE DEF StepOf
<1>1. \A q \in RunIds : rStatus'[q] = "unused" => rStatus[q] = "unused"
  BY DEF RowsLeft
<1>2. AskedFor'
  BY <1>1 DEF AskedFor, WorkerLeft, Research!At
<1>3. HoldsAnswer'
  BY DEF HoldsAnswer, WorkerLeft
<1>4. WorksAlone'
  BY DEF WorksAlone, WorkerLeft, Research!At
<1>5. WorkIsOpen'
  <2>1. ASSUME NEW v \in Workers \ {w}, rWorker'[v].pc \notin {"idle", "read"}, rWorker'[v].run \notin rExcused'
        PROVE  StillOpen(rWorker[v].run)'
    <3>1. rWorker'[v] = rWorker[v] /\ rWorker[v].run \in RunIds
      BY <2>1 DEF WorkerLeft, AskedFor, Research!At
    <3>2. rWorker[v].run # r
      BY <2>1, <3>1 DEF WorksAlone, Research!At
    <3>3. StillOpen(rWorker[v].run)
      BY <2>1, <3>1 DEF WorkIsOpen
    <3> QED
      BY <3>1, <3>2, <3>3 DEF StillOpen, RowsLeft
  <2>2. \A v \in Workers \ {w} : rWorker'[v] = rWorker[v]
    BY DEF WorkerLeft
  <2> QED
    BY <2>1, <2>2 DEF WorkIsOpen, StillOpen
<1>6. RowsTrue'
  BY <1>1 DEF RowsTrue, RowsLeft
<1>7. SpentAddsUp'
  <2>1. IsFiniteSet(Workers)
    BY DEF Research!ResearchBounds, Research!IsFiniteSet, IsFiniteSet
  <2>2. ASSUME NEW q \in RunIds, NEW v \in Workers
        PROVE  InHands(q)[v] \in Nat /\ InHands(q)'[v] \in Nat
    BY DEF InHands, ResearchTyped, ResearchWorkers, Paid
  <2>3. ASSUME NEW q \in RunIds \ {r}, q \notin rExcused'
        PROVE  rSpent'[q] = rCost'[q] + rMissed'[q] + Total(InHands(q)', Workers)
    <3>1. InHands(q)' = InHands(q)
      <4>1. \A v \in Workers : (IF rWorker'[v].run = q THEN rWorker'[v].paid ELSE 0)
                               = (IF rWorker[v].run = q THEN rWorker[v].paid ELSE 0)
        BY <2>3 DEF WorkerLeft
      <4> QED
        BY <4>1 DEF InHands
    <3> QED
      BY <2>3, <3>1 DEF SpentAddsUp, RowsLeft
  <2>4. ASSUME r \notin rExcused'
        PROVE  rSpent'[r] = rCost'[r] + rMissed'[r] + Total(InHands(r)', Workers)
    <3>1. \A v \in Workers \ {w} : InHands(r)'[v] = InHands(r)[v]
      BY DEF InHands, WorkerLeft
    <3>2. InHands(r)[w] = rWorker[w].paid
      BY DEF InHands
    <3>3. InHands(r)'[w] = rWorker'[w].paid
      BY DEF InHands
    <3>4. Total(InHands(r)', Workers) + rWorker[w].paid = Total(InHands(r), Workers) + rWorker'[w].paid
      BY <2>1, <2>2, <3>1, <3>2, <3>3, TotalChanges
    <3>5. Total(InHands(r), Workers) \in Nat /\ Total(InHands(r)', Workers) \in Nat
      BY <2>1, <2>2, TotalNat
    <3>6. rSpent[r] = rCost[r] + rMissed[r] + Total(InHands(r), Workers)
      BY <2>4 DEF SpentAddsUp
    <3>7. /\ rSpent[r] \in Nat /\ rCost[r] \in Nat /\ rMissed[r] \in Nat /\ rWorker[w].paid \in Nat
          /\ rSpent'[r] \in Nat /\ rCost'[r] \in Nat /\ rMissed'[r] \in Nat /\ rWorker'[w].paid \in Nat
      BY DEF ResearchTyped, ResearchWorkers, Paid
    <3>8. rSpent'[r] + (rCost[r] + rMissed[r] + rWorker[w].paid) = rSpent[r] + (rCost'[r] + rMissed'[r] + rWorker'[w].paid)
      BY <2>4
    <3> DEFINE s == rSpent[r]
               c == rCost[r]
               m == rMissed[r]
               p == rWorker[w].paid
               t == Total(InHands(r), Workers)
               s1 == rSpent'[r]
               c1 == rCost'[r]
               m1 == rMissed'[r]
               p1 == rWorker'[w].paid
               t1 == Total(InHands(r)', Workers)
    <3>9. /\ s \in Nat /\ c \in Nat /\ m \in Nat /\ p \in Nat /\ t \in Nat
          /\ s1 \in Nat /\ c1 \in Nat /\ m1 \in Nat /\ p1 \in Nat /\ t1 \in Nat
          /\ s = c + m + t /\ t1 + p = t + p1 /\ s1 + (c + m + p) = s + (c1 + m1 + p1)
      BY <3>4, <3>5, <3>6, <3>7, <3>8
    <3> HIDE DEF s, c, m, p, t, s1, c1, m1, p1, t1, StepOf
    <3>10. s1 = c1 + m1 + t1
      BY <3>9
    <3> QED
      BY <3>10 DEF s1, c1, m1, t1
  <2> QED
    BY <2>3, <2>4 DEF SpentAddsUp
<1> QED
  BY <1>2, <1>3, <1>4, <1>5, <1>6, <1>7

\* What holds of a worker that is at a run, before it does anything.
LEMMA AtItsRun ==
  ASSUME ResearchTyped, AskedFor, HoldsAnswer, WorkIsOpen, RowsTrue,
         NEW w \in Workers, ~ Research!At(w, "idle"), NEW r, r = rWorker[w].run
  PROVE  /\ r \in RunIds /\ rStatus[r] # "unused" /\ rStatus[r] \in Research!RunStatus
         /\ rWorker[w].pc \in ResearchStages
         /\ rWorker[w].paid = IF rWorker[w].pc \in {"commit", "keep"} THEN 1 ELSE 0
         /\ rCost[r] \in Nat /\ rLedger[r] \in Nat /\ rSpent[r] \in Nat /\ rMissed[r] \in Nat
         /\ r \notin rExcused /\ rWorker[w].pc # "read" => StillOpen(r)
         /\ r \notin rExcused =>
              /\ rStatus[r] = "succeeded" \/ (rStatus[r] = "failed" /\ r \notin rSwept) => rLedger[r] = rCost[r]
              /\ rStatus[r] \in Research!ACTIVE_STATUSES => rLedger[r] = 0
BY DEF ResearchTyped, ResearchWorkers, AskedFor, HoldsAnswer, WorkIsOpen, RowsTrue, Research!At

\* A step that ends the worker's call and leaves what the run's row says.
LEMMA EndsAtOnce ==
  ASSUME ResearchTyped, AskedFor, HoldsAnswer, WorkIsOpen, RowsTrue,
         NEW w \in Workers, ~ Research!At(w, "idle"), NEW r, r = rWorker[w].run,
         Ended(w), UNCHANGED <<rStatus, rCost, rLedger, rSpent, rRequest, rSwept, rExcused>>,
         rMissed' = Research!Plus(rMissed, r, rWorker[w].paid),
         \A q \in RunIds : rJob'[q].st # "none" => rJob[q].st # "none" \/ q = r
  PROVE  StepOf(w, r)
<1>1. /\ r \in RunIds /\ rStatus[r] # "unused" /\ rWorker[w].paid \in Nat
      /\ rCost[r] \in Nat /\ rSpent[r] \in Nat /\ rMissed[r] \in Nat
  BY AtItsRun
<1>2. /\ \A q \in RunIds \ {r} : rMissed'[q] = rMissed[q]
      /\ rMissed'[r] = rMissed[r] + rWorker[w].paid
  BY <1>1, PlusAt DEF ResearchTyped
<1>3. rWorker'[w].pc = "idle" /\ rWorker'[w].paid = 0
  BY DEF Ended
<1>4. rSpent'[r] + (rCost[r] + rMissed[r] + rWorker[w].paid) = rSpent[r] + (rCost'[r] + rMissed'[r] + rWorker'[w].paid)
  BY <1>1, <1>2, <1>3
<1>5. r \notin rExcused =>
              /\ rStatus[r] = "succeeded" \/ (rStatus[r] = "failed" /\ r \notin rSwept) => rLedger[r] = rCost[r]
              /\ rStatus[r] \in Research!ACTIVE_STATUSES => rLedger[r] = 0
  BY AtItsRun
<1> QED
  BY <1>1, <1>2, <1>3, <1>4, <1>5 DEF StepOf, RowsLeft

\* A step that moves the worker on and leaves the rows.
LEMMA MovesOn ==
  ASSUME ResearchTyped, AskedFor, HoldsAnswer, WorkIsOpen, RowsTrue,
         NEW w \in Workers, ~ Research!At(w, "idle"), NEW r, r = rWorker[w].run,
         WorkerLeft(w), rWorker'[w].run = r, rWorker'[w].pc # "idle", rWorker'[w].paid = rWorker[w].paid,
         rWorker'[w].pc \in {"commit", "keep"} <=> rWorker[w].pc \in {"commit", "keep"},
         UNCHANGED <<rStatus, rCost, rLedger, rSpent, rMissed, rRequest, rSwept, rExcused, rJob>>,
         r \notin rExcused /\ rWorker[w].pc = "read" /\ rWorker'[w].pc # "read" => StillOpen(r)
  PROVE  StepOf(w, r)
<1>1. /\ r \in RunIds /\ rStatus[r] # "unused"
      /\ rWorker[w].paid = IF rWorker[w].pc \in {"commit", "keep"} THEN 1 ELSE 0
      /\ rCost[r] \in Nat /\ rSpent[r] \in Nat /\ rMissed[r] \in Nat
  BY AtItsRun
<1>2. /\ r \notin rExcused /\ rWorker[w].pc # "read" => StillOpen(r)
      /\ r \notin rExcused =>
              /\ rStatus[r] = "succeeded" \/ (rStatus[r] = "failed" /\ r \notin rSwept) => rLedger[r] = rCost[r]
              /\ rStatus[r] \in Research!ACTIVE_STATUSES => rLedger[r] = 0
  BY AtItsRun
<1> QED
  BY <1>1, <1>2 DEF StepOf, RowsLeft, StillOpen

LEMMA PlusNothing ==
  ASSUME NEW f \in [RunIds -> Nat], NEW r
  PROVE  Research!Plus(f, r, 0) = f
<1>1. CASE r \in RunIds
  <2>1. f[r] \in Nat /\ f[r] + 0 = f[r]
    BY <1>1
  <2> QED
    BY <1>1, <2>1 DEF Research!Plus
<1>2. CASE r \notin RunIds
  BY <1>2 DEF Research!Plus
<1> QED
  BY <1>1, <1>2

\* The worker's record, after a step that keeps its call.
LEMMA StaysAt ==
  ASSUME ResearchTyped, NEW w \in Workers, NEW pc, NEW b
  PROVE  /\ rWorker' = [rWorker EXCEPT ![w].pc = pc] =>
              rWorker'[w].pc = pc /\ rWorker'[w].run = rWorker[w].run /\ rWorker'[w].paid = rWorker[w].paid
         /\ \/ rWorker' = [rWorker EXCEPT ![w].pc = pc, ![w].resume = b]
            \/ rWorker' = [rWorker EXCEPT ![w].pc = pc, ![w].asked = b]
            \/ rWorker' = [rWorker EXCEPT ![w].pc = pc, ![w].again = b]
              => rWorker'[w].pc = pc /\ rWorker'[w].run = rWorker[w].run /\ rWorker'[w].paid = rWorker[w].paid
         /\ rWorker' = [rWorker EXCEPT ![w].pc = pc, ![w].paid = b]
              => rWorker'[w].pc = pc /\ rWorker'[w].run = rWorker[w].run /\ rWorker'[w].paid = b
         /\ rWorker' = [rWorker EXCEPT ![w].held = b]
              => rWorker'[w].pc = rWorker[w].pc /\ rWorker'[w].run = rWorker[w].run /\ rWorker'[w].paid = rWorker[w].paid
BY DEF ResearchTyped, ResearchWorkers

\* A worker's steps that leave the run's row, or only mark it.
LEMMA QuietSteps ==
  ASSUME ResearchTyped, ResearchTyped', AskedFor, HoldsAnswer, WorkIsOpen, RowsTrue,
         NEW w \in Workers, NEW r, r = rWorker[w].run,
         \/ Research!Read(w) \/ Research!CrawlFails(w) \/ Research!RunFails(w)
         \/ (Research!LockLost(w) /\ ~ Research!At(w, "idle")) \/ Research!Crash(w)
  PROVE  StepOf(w, r)
<1>1. WorkerLeft(w) /\ ~ Research!At(w, "idle")
  BY ResearchWorkersTyped DEF Research!WorkerStep, Research!Read, Research!CrawlFails,
     Research!RunFails, Research!LockLost, Research!Crash, Research!At
<1>2. /\ r \in RunIds /\ rMissed \in [RunIds -> Nat]
      /\ rWorker[w].paid = IF rWorker[w].pc \in {"commit", "keep"} THEN 1 ELSE 0
      /\ r \notin rExcused /\ rStatus[r] \in Research!ACTIVE_STATUSES => rLedger[r] = 0
  BY <1>1, AtItsRun DEF ResearchTyped
<1>3. CASE Research!Read(w) /\ rStatus[r] \in Research!ACTIVE_STATUSES
  <2>1. /\ UNCHANGED <<rStatus, rCost, rLedger, rSpent, rMissed, rRequest, rSwept, rExcused, rJob>>
        /\ rWorker[w].pc = "read"
        /\ rWorker' = [rWorker EXCEPT ![w].pc = "claim", ![w].resume = rStatus[r] = "analyzing"]
    BY <1>3 DEF Research!Read, Research!rrows, Research!money, Research!At
  <2>2. rWorker'[w].pc = "claim" /\ rWorker'[w].run = r /\ rWorker'[w].paid = rWorker[w].paid
    <3>1. PICK b \in Flags : rWorker' = [rWorker EXCEPT ![w].pc = "claim", ![w].resume = b]
      BY <2>1 DEF Flags
    <3> QED
      BY <3>1 DEF ResearchTyped, ResearchWorkers
  <2>3. r \notin rExcused => StillOpen(r)
    BY <1>2, <1>3 DEF StillOpen, Research!ACTIVE_STATUSES
  <2> QED
    BY <1>1, <2>1, <2>2, <2>3, MovesOn
<1>4. CASE Research!Read(w) /\ rStatus[r] \notin Research!ACTIVE_STATUSES
  <2>1. /\ UNCHANGED <<rStatus, rCost, rLedger, rSpent, rMissed, rRequest, rSwept, rExcused>>
        /\ rWorker[w].pc = "read" /\ Research!Returns(w)
    BY <1>4 DEF Research!Read, Research!rrows, Research!money, Research!At
  <2>2. rMissed' = Research!Plus(rMissed, r, rWorker[w].paid)
    BY <1>2, <2>1, PlusNothing
  <2> QED
    BY <1>1, <2>1, <2>2, JobEnds, EndsAtOnce
<1>5. CASE Research!CrawlFails(w)
  <2>1. PICK b \in Flags : rWorker' = [rWorker EXCEPT ![w].pc = "fail", ![w].again = b]
    BY <1>5 DEF Research!CrawlFails, Flags
  <2>2. /\ UNCHANGED <<rStatus, rCost, rLedger, rSpent, rMissed, rRequest, rSwept, rExcused, rJob>>
        /\ rWorker[w].pc = "crawl"
    BY <1>5 DEF Research!CrawlFails, Research!rrows, Research!money, Research!At
  <2>3. rWorker'[w].pc = "fail" /\ rWorker'[w].run = r /\ rWorker'[w].paid = rWorker[w].paid
    BY <2>1 DEF ResearchTyped, ResearchWorkers
  <2> QED
    BY <1>1, <2>2, <2>3, MovesOn
<1>6. CASE Research!LockLost(w)
  <2>1. /\ UNCHANGED <<rStatus, rCost, rLedger, rSpent, rMissed, rRequest, rSwept, rExcused, rJob>>
        /\ rWorker' = [rWorker EXCEPT ![w].held = FALSE]
    BY <1>6 DEF Research!LockLost, Research!rrows, Research!money
  <2>2. rWorker'[w].pc = rWorker[w].pc /\ rWorker'[w].run = r /\ rWorker'[w].paid = rWorker[w].paid
    BY <2>1, StaysAt
  <2> QED
    BY <1>1, <2>1, <2>2, MovesOn DEF Research!At
<1>7. CASE Research!RunFails(w)
  <2>1. /\ UNCHANGED <<rStatus, rCost, rLedger, rSpent, rRequest, rSwept, rExcused>>
        /\ rMissed' = Research!Plus(rMissed, r, rWorker[w].paid) /\ Research!Throws(w)
    BY <1>7 DEF Research!RunFails, Research!rrows
  <2> QED
    BY <1>1, <2>1, JobEnds, EndsAtOnce
<1>8. CASE Research!Crash(w)
  <2>1. /\ UNCHANGED <<rStatus, rCost, rLedger, rSpent, rRequest, rSwept, rExcused, rJob>>
        /\ rMissed' = Research!Plus(rMissed, r, rWorker[w].paid) /\ rWorker' = [rWorker EXCEPT ![w] = Research!Free]
    BY <1>8 DEF Research!Crash, Research!rrows
  <2> QED
    BY <1>1, <2>1, WorkerEnds, EndsAtOnce
<1> QED
  BY <1>3, <1>4, <1>5, <1>6, <1>7, <1>8

\* The claim, and the marking of a run that is being analysed.
LEMMA MarkingSteps ==
  ASSUME ResearchTyped, ResearchTyped', AskedFor, HoldsAnswer, WorkIsOpen, RowsTrue,
         NEW w \in Workers, NEW r, r = rWorker[w].run,
         Research!Claim(w) \/ Research!Crawl(w)
  PROVE  StepOf(w, r)
<1>1. WorkerLeft(w) /\ ~ Research!At(w, "idle") /\ rWorker[w].pc \in {"claim", "crawl"}
  BY ResearchWorkersTyped DEF Research!WorkerStep, Research!Claim, Research!Crawl, Research!At
<1>2. /\ r \in RunIds /\ rMissed \in [RunIds -> Nat] /\ rWorker[w].paid = 0
      /\ rCost[r] \in Nat /\ rLedger[r] \in Nat /\ rSpent[r] \in Nat /\ rMissed[r] \in Nat
      /\ r \notin rExcused => StillOpen(r)
      /\ r \notin rExcused /\ rStatus[r] \in Research!ACTIVE_STATUSES => rLedger[r] = 0
      /\ rStatus \in [RunIds -> Research!RunStatus \cup {"unused"}]
  BY <1>1, AtItsRun DEF ResearchTyped
<1>3. UNCHANGED <<rCost, rLedger, rSpent, rMissed, rRequest, rSwept, rExcused>>
  BY DEF Research!Claim, Research!Crawl, Research!money
<1>4. CASE \E st \in {"crawling", "analyzing"} : rStatus' = [rStatus EXCEPT ![r] = st] /\ rJob' = rJob
             /\ rWorker'[w].pc \in {"crawl", "ask"} /\ rWorker'[w].run = r /\ rWorker'[w].paid = 0
             /\ rStatus[r] \in Research!ACTIVE_STATUSES
  <2>1. PICK st \in {"crawling", "analyzing"} : rStatus' = [rStatus EXCEPT ![r] = st]
    BY <1>4
  <2>2. rStatus'[r] = st /\ \A q \in RunIds \ {r} : rStatus'[q] = rStatus[q]
    BY <1>2, <2>1
  <2> QED
    BY <1>2, <1>3, <1>4, <2>2 DEF StepOf, RowsLeft, StillOpen, Research!ACTIVE_STATUSES
<1>5. CASE Research!Returns(w) /\ UNCHANGED rStatus
  <2>1. rMissed' = Research!Plus(rMissed, r, rWorker[w].paid)
    BY <1>2, <1>3, PlusNothing
  <2> QED
    BY <1>1, <1>3, <1>5, <2>1, JobEnds, EndsAtOnce
<1>6. CASE Research!Claim(w) /\ ~ (Research!Returns(w) /\ UNCHANGED rStatus)
  <2>1. rStatus' = Research!Resumed(w) /\ rWorker' = [rWorker EXCEPT ![w].pc = "crawl"] /\ rJob' = rJob
        /\ rStatus[r] \in Research!ACTIVE_STATUSES
    BY <1>6 DEF Research!Claim, Research!Goes
  <2>2. rWorker'[w].pc = "crawl" /\ rWorker'[w].run = r /\ rWorker'[w].paid = 0
    BY <1>2, <2>1 DEF ResearchTyped, ResearchWorkers
  <2>3. \E st \in {"crawling", "analyzing"} : rStatus' = [rStatus EXCEPT ![r] = st]
    BY <2>1 DEF Research!Resumed
  <2> QED
    BY <1>4, <2>1, <2>2, <2>3
<1>7. CASE Research!Crawl(w) /\ ~ (Research!Returns(w) /\ UNCHANGED rStatus)
  <2>1. /\ rStatus' = [rStatus EXCEPT ![r] = "analyzing"] /\ rJob' = rJob
        /\ rStatus[r] \in Research!ACTIVE_STATUSES
        /\ rWorker' = [rWorker EXCEPT ![w].pc = "ask", ![w].asked = TRUE]
    BY <1>7 DEF Research!Crawl, Research!ACTIVE_STATUSES
  <2>2. rWorker'[w].pc = "ask" /\ rWorker'[w].run = r /\ rWorker'[w].paid = 0
    BY <1>2, <2>1 DEF ResearchTyped, ResearchWorkers
  <2> QED
    BY <1>4, <2>1, <2>2
<1> QED
  BY <1>5, <1>6, <1>7

\* The model's answer, and what becomes of it.
LEMMA AnswerSteps ==
  ASSUME ResearchTyped, ResearchTyped', AskedFor, HoldsAnswer, WorkIsOpen, RowsTrue,
         NEW w \in Workers, NEW r, r = rWorker[w].run,
         \/ Research!Answers(w) \/ Research!Refuses(w) \/ Research!Succeed(w)
         \/ Research!SucceedFails(w) \/ Research!Keep(w)
  PROVE  StepOf(w, r)
<1>1. /\ WorkerLeft(w) /\ ~ Research!At(w, "idle") /\ rWorker[w].pc \in {"ask", "commit", "keep"}
      /\ rRequest' = rRequest /\ rSwept' = rSwept
  BY ResearchWorkersTyped DEF Research!WorkerStep, Research!Answers, Research!Refuses, Research!Succeed, Research!SucceedFails,
     Research!Keep, Research!At, Research!money
<1>2. /\ r \in RunIds /\ rWorker[w].paid = IF rWorker[w].pc \in {"commit", "keep"} THEN 1 ELSE 0
      /\ rStatus[r] # "unused"
      /\ rCost[r] \in Nat /\ rLedger[r] \in Nat /\ rSpent[r] \in Nat /\ rMissed[r] \in Nat
      /\ r \notin rExcused => StillOpen(r)
      /\ r \notin rExcused =>
              /\ rStatus[r] = "succeeded" \/ (rStatus[r] = "failed" /\ r \notin rSwept) => rLedger[r] = rCost[r]
              /\ rStatus[r] \in Research!ACTIVE_STATUSES => rLedger[r] = 0
      /\ rStatus \in [RunIds -> Research!RunStatus \cup {"unused"}]
  BY <1>1, AtItsRun DEF ResearchTyped
<1>3. /\ rCost \in [RunIds -> Nat] /\ rLedger \in [RunIds -> Nat] /\ rSpent \in [RunIds -> Nat] /\ rMissed \in [RunIds -> Nat]
      /\ 1 \in Nat /\ rCost[r] + 1 \in Nat
  BY <1>2 DEF ResearchTyped
<1>4. CASE Research!Answers(w)
  <2>1. /\ rWorker' = [rWorker EXCEPT ![w].pc = "commit", ![w].paid = 1] /\ rWorker[w].paid = 0
        /\ UNCHANGED <<rStatus, rCost, rLedger, rMissed, rExcused, rJob>> /\ rSpent' = Research!Plus(rSpent, r, 1)
    BY <1>2, <1>4 DEF Research!Answers, Research!rrows, Research!At
  <2>2. rWorker'[w].pc = "commit" /\ rWorker'[w].run = r /\ rWorker'[w].paid = 1
    BY <2>1 DEF ResearchTyped, ResearchWorkers
  <2>3. rSpent'[r] = rSpent[r] + 1 /\ \A q \in RunIds \ {r} : rSpent'[q] = rSpent[q]
    BY <1>2, <1>3, <2>1, PlusAt
  <2>4. rSpent'[r] + (rCost[r] + rMissed[r] + rWorker[w].paid) = rSpent[r] + (rCost'[r] + rMissed'[r] + rWorker'[w].paid)
    <3>1. rSpent[r] \in Nat /\ rCost[r] \in Nat /\ rMissed[r] \in Nat
      BY <1>2, <1>3
    <3>2. rCost'[r] = rCost[r] /\ rMissed'[r] = rMissed[r]
      BY <2>1
    <3>3. rSpent'[r] = rSpent[r] + 1 /\ rWorker[w].paid = 0 /\ rWorker'[w].paid = 1
      BY <2>1, <2>2, <2>3
    <3> QED
      BY <3>1, <3>2, <3>3
  <2> QED
    BY <1>1, <1>2, <2>1, <2>2, <2>3, <2>4 DEF StepOf, RowsLeft, StillOpen
<1>5. ASSUME Research!WriteSuccess(w)
      PROVE  /\ rStatus'[r] = "succeeded" /\ rCost'[r] = rCost[r] + 1 /\ rLedger'[r] = rLedger[r] + (rCost[r] + 1)
             /\ \A q \in RunIds \ {r} : rStatus'[q] = rStatus[q] /\ rCost'[q] = rCost[q] /\ rLedger'[q] = rLedger[q]
  <2>1. /\ rStatus' = [rStatus EXCEPT ![r] = "succeeded"]
        /\ rCost' = Research!Plus(rCost, r, 1) /\ rLedger' = Research!Plus(rLedger, r, rCost[r] + 1)
    BY <1>5 DEF Research!WriteSuccess
  <2> QED
    BY <1>2, <1>3, <2>1, PlusAt
<1>6. CASE Research!Succeed(w)
  <2>1. /\ Research!Returns(w) /\ UNCHANGED <<rSpent, rExcused>> /\ rWorker[w].pc = "commit" /\ rWorker[w].paid = 1
    BY <1>2, <1>6 DEF Research!Succeed, Research!At
  <2>2. /\ rWorker'[w].pc = "idle" /\ rWorker'[w].paid = 0
        /\ \A q \in RunIds : rJob'[q].st # "none" => rJob[q].st # "none" \/ q = r
    BY <2>1, JobEnds DEF Ended
  <2>3. CASE rStatus[r] # "succeeded"
    <3>1. Research!WriteSuccess(w) /\ rMissed' = rMissed
      BY <1>6, <2>3 DEF Research!Succeed
    <3>2. rSpent'[r] + (rCost[r] + rMissed[r] + rWorker[w].paid) = rSpent[r] + (rCost'[r] + rMissed'[r] + rWorker'[w].paid)
      BY <1>2, <1>5, <2>1, <2>2, <3>1
    <3>3. r \notin rExcused => rLedger'[r] = rCost'[r]
      BY <1>2, <1>5, <3>1 DEF StillOpen
    <3> QED
      BY <1>1, <1>2, <1>5, <2>1, <2>2, <3>1, <3>2, <3>3 DEF StepOf, RowsLeft, Research!ACTIVE_STATUSES
  <2>4. CASE rStatus[r] = "succeeded"
    <3>1. UNCHANGED <<rStatus, rCost, rLedger>> /\ rMissed' = Research!Plus(rMissed, r, rWorker[w].paid)
      BY <1>6, <2>1, <2>4 DEF Research!Succeed, Research!rrows
    <3> QED
      BY <1>1, <2>1, <3>1, JobEnds, EndsAtOnce
  <2> QED
    BY <2>3, <2>4
<1>7. CASE Research!SucceedFails(w)
  <2>1. /\ rWorker' = [rWorker EXCEPT ![w].pc = "keep", ![w].again = TRUE] /\ UNCHANGED <<rJob, rSpent, rMissed>>
        /\ rWorker[w].pc = "commit" /\ rWorker[w].paid = 1
    BY <1>2, <1>7 DEF Research!SucceedFails, Research!At
  <2>2. rWorker'[w].pc = "keep" /\ rWorker'[w].run = r /\ rWorker'[w].paid = 1
    <3>1. PICK b \in Flags : rWorker' = [rWorker EXCEPT ![w].pc = "keep", ![w].again = b]
      BY <2>1 DEF Flags
    <3> QED
      BY <2>1, <3>1 DEF ResearchTyped, ResearchWorkers
  <2>3. CASE UNCHANGED <<rStatus, rCost, rLedger, rExcused>>
    BY <1>1, <1>2, <2>1, <2>2, <2>3 DEF StepOf, RowsLeft, StillOpen
  <2>4. CASE Research!WriteSuccess(w) /\ rExcused' = rExcused \cup {r}
    BY <1>1, <1>2, <1>5, <2>1, <2>2, <2>4 DEF StepOf, RowsLeft
  <2> QED
    BY <1>7, <2>3, <2>4 DEF Research!SucceedFails, Research!rrows
<1>8. CASE Research!Keep(w)
  <2>1. /\ rWorker' = [rWorker EXCEPT ![w].pc = "fail", ![w].paid = 0] /\ UNCHANGED <<rJob, rSpent, rMissed, rExcused, rStatus, rLedger>>
        /\ rWorker[w].paid = 1 /\ rCost' = Research!Plus(rCost, r, 1) /\ rWorker[w].pc = "keep"
    BY <1>2, <1>8 DEF Research!Keep, Research!At, Research!money
  <2>2. rWorker'[w].pc = "fail" /\ rWorker'[w].run = r /\ rWorker'[w].paid = 0
    BY <2>1 DEF ResearchTyped, ResearchWorkers
  <2>3. rCost'[r] = rCost[r] + 1 /\ \A q \in RunIds \ {r} : rCost'[q] = rCost[q]
    BY <1>2, <1>3, <2>1, PlusAt
  <2>4. rSpent'[r] + (rCost[r] + rMissed[r] + rWorker[w].paid) = rSpent[r] + (rCost'[r] + rMissed'[r] + rWorker'[w].paid)
    <3>1. rSpent[r] \in Nat /\ rCost[r] \in Nat /\ rMissed[r] \in Nat
      BY <1>2, <1>3
    <3>2. rSpent'[r] = rSpent[r] /\ rMissed'[r] = rMissed[r]
      BY <2>1
    <3>3. rCost'[r] = rCost[r] + 1 /\ rWorker[w].paid = 1 /\ rWorker'[w].paid = 0
      BY <2>1, <2>2, <2>3
    <3> QED
      BY <3>1, <3>2, <3>3
  <2> QED
    BY <1>1, <1>2, <2>1, <2>2, <2>3, <2>4 DEF StepOf, RowsLeft, StillOpen
<1>9. CASE Research!Refuses(w)
  <2>1. PICK k \in {0, 1} : rSpent' = Research!Plus(rSpent, r, k) /\ rMissed' = Research!Plus(rMissed, r, k)
    BY <1>9 DEF Research!Refuses
  <2>2. /\ UNCHANGED <<rStatus, rCost, rLedger, rExcused, rJob>>
        /\ rWorker[w].pc = "ask" /\ rWorker[w].paid = 0
    BY <1>2, <1>9 DEF Research!Refuses, Research!rrows, Research!At
  <2>3. rWorker'[w].pc = "fail" /\ rWorker'[w].run = r /\ rWorker'[w].paid = 0
    <3>1. PICK b \in Flags : rWorker' = [rWorker EXCEPT ![w].pc = "fail", ![w].again = b]
      BY <1>9 DEF Research!Refuses, Flags
    <3> QED
      BY <2>2, <3>1 DEF ResearchTyped, ResearchWorkers
  <2>4. /\ rSpent'[r] = rSpent[r] + k /\ \A q \in RunIds \ {r} : rSpent'[q] = rSpent[q]
        /\ rMissed'[r] = rMissed[r] + k /\ \A q \in RunIds \ {r} : rMissed'[q] = rMissed[q]
    <3>1. k \in Nat
      OBVIOUS
    <3> QED
      BY <1>2, <1>3, <2>1, <3>1, PlusAt
  <2>5. rSpent'[r] + (rCost[r] + rMissed[r] + rWorker[w].paid) = rSpent[r] + (rCost'[r] + rMissed'[r] + rWorker'[w].paid)
    <3>1. rSpent[r] \in Nat /\ rCost[r] \in Nat /\ rMissed[r] \in Nat /\ k \in Nat
      BY <1>2, <1>3
    <3>2. rCost'[r] = rCost[r] /\ rWorker[w].paid = 0 /\ rWorker'[w].paid = 0
      BY <2>2, <2>3
    <3>3. rSpent'[r] = rSpent[r] + k /\ rMissed'[r] = rMissed[r] + k
      BY <2>4
    <3> QED
      BY <3>1, <3>2, <3>3
  <2> QED
    BY <1>1, <1>2, <2>2, <2>3, <2>4, <2>5 DEF StepOf, RowsLeft, StillOpen
<1> QED
  BY <1>4, <1>6, <1>7, <1>8, <1>9

\* The attempt fails: the job has another, or the run is marked and its row written.
LEMMA FailureStep ==
  ASSUME ResearchTyped, ResearchTyped', AskedFor, HoldsAnswer, WorkIsOpen, RowsTrue,
         NEW w \in Workers, NEW r, r = rWorker[w].run, Research!HandleFailure(w)
  PROVE  StepOf(w, r)
<1>1. /\ ~ Research!At(w, "idle") /\ rWorker[w].pc = "fail"
      /\ UNCHANGED <<rCost, rSpent, rMissed, rRequest, rSwept, rExcused>>
      /\ Research!Returns(w) \/ Research!Throws(w)
  BY DEF Research!HandleFailure, Research!At, Research!money
<1>2. /\ r \in RunIds /\ rWorker[w].paid = 0 /\ rMissed \in [RunIds -> Nat] /\ rLedger \in [RunIds -> Nat]
      /\ rStatus[r] # "unused"
      /\ rCost[r] \in Nat /\ rLedger[r] \in Nat /\ rSpent[r] \in Nat /\ rMissed[r] \in Nat
      /\ r \notin rExcused => StillOpen(r)
      /\ rStatus \in [RunIds -> Research!RunStatus \cup {"unused"}]
  BY <1>1, AtItsRun DEF ResearchTyped
<1>3. /\ rWorker'[w].pc = "idle" /\ rWorker'[w].paid = 0 /\ Ended(w)
      /\ \A q \in RunIds : rJob'[q].st # "none" => rJob[q].st # "none" \/ q = r
  BY <1>1, JobEnds DEF Ended
<1>4. CASE UNCHANGED <<rStatus, rLedger>>
  <2>1. rMissed' = Research!Plus(rMissed, r, rWorker[w].paid)
    BY <1>1, <1>2, PlusNothing
  <2> QED
    BY <1>1, <1>3, <1>4, <2>1, EndsAtOnce
<1>5. CASE ~ UNCHANGED <<rStatus, rLedger>>
  <2>1. /\ rStatus' = [rStatus EXCEPT ![r] = "failed"] /\ rLedger' = Research!Plus(rLedger, r, rCost[r])
    BY <1>5 DEF Research!HandleFailure, Research!WriteFailure
  <2>2. /\ rStatus'[r] = "failed" /\ rLedger'[r] = rLedger[r] + rCost[r]
        /\ \A q \in RunIds \ {r} : rStatus'[q] = rStatus[q] /\ rLedger'[q] = rLedger[q]
    BY <1>2, <2>1, PlusAt
  <2>3. r \notin rExcused => rLedger'[r] = rCost'[r]
    BY <1>1, <1>2, <2>2 DEF StillOpen
  <2>4. rSpent'[r] + (rCost[r] + rMissed[r] + rWorker[w].paid) = rSpent[r] + (rCost'[r] + rMissed'[r] + rWorker'[w].paid)
    BY <1>1, <1>2, <1>3
  <2> QED
    BY <1>1, <1>2, <1>3, <2>2, <2>3, <2>4 DEF StepOf, RowsLeft, Research!ACTIVE_STATUSES
<1> QED
  BY <1>4, <1>5

ResearchBooks == AskedFor /\ HoldsAnswer /\ WorksAlone /\ WorkIsOpen /\ RowsTrue /\ SpentAddsUp

\* A worker takes a job, of a run that another may still be at.
LEMMA TakeJobStep ==
  ASSUME ResearchTyped, ResearchTyped', ResearchBooks, NEW w \in Workers, Research!TakeJob(w)
  PROVE  ResearchBooks'
<1> USE DEF ResearchBooks
<1>1. PICK r \in RunIds :
        /\ rJob[r].st = "waiting" /\ rJob' = [rJob EXCEPT ![r].st = "active"]
        /\ rWorker' = [rWorker EXCEPT ![w] = [Research!Free EXCEPT !.pc = "read", !.run = r,
                                                                 !.made = rJob[r].made, !.held = TRUE]]
        /\ rExcused' = IF \E v \in Workers : ~ Research!At(v, "idle") /\ rWorker[v].run = r
                      THEN rExcused \cup {r} ELSE rExcused
  BY DEF Research!TakeJob
<1>2. UNCHANGED <<rStatus, rCost, rLedger, rRequest, rSpent, rMissed, rSwept>> /\ Research!At(w, "idle")
  BY DEF Research!TakeJob, Research!rrows
<1>3. /\ rWorker'[w].pc = "read" /\ rWorker'[w].run = r /\ rWorker'[w].paid = 0
      /\ \A v \in Workers \ {w} : rWorker'[v] = rWorker[v]
  BY <1>1 DEF Research!Free, ResearchTyped
<1>4. AskedFor'
  <2>1. rStatus[r] # "unused"
    BY <1>1 DEF AskedFor
  <2>2. \A q \in RunIds : rJob'[q].st # "none" => rJob[q].st # "none" \/ q = r
    BY <1>1 DEF ResearchTyped, ResearchJobs
  <2> QED
    BY <1>2, <1>3, <2>1, <2>2 DEF AskedFor, Research!At
<1>5. HoldsAnswer' /\ rWorker[w].paid = 0
  BY <1>2, <1>3 DEF HoldsAnswer, Research!At
<1>6. rExcused \subseteq rExcused'
  BY <1>1
<1>7. WorksAlone'
  BY <1>1, <1>3, <1>6 DEF WorksAlone, Research!At
<1>8. WorkIsOpen' /\ RowsTrue'
  BY <1>2, <1>3, <1>6 DEF WorkIsOpen, RowsTrue, StillOpen
<1>9. SpentAddsUp'
  <2>1. ASSUME NEW q \in RunIds
        PROVE  InHands(q)' = InHands(q)
    <3>1. \A v \in Workers : (IF rWorker'[v].run = q THEN rWorker'[v].paid ELSE 0)
                             = (IF rWorker[v].run = q THEN rWorker[v].paid ELSE 0)
      BY <1>3, <1>5
    <3> QED
      BY <3>1 DEF InHands
  <2> QED
    BY <1>2, <1>6, <2>1 DEF SpentAddsUp
<1> QED
  BY <1>4, <1>5, <1>7, <1>8, <1>9

\* The API's and the sweep's steps: they mark rows, and write none.
RunsMarked ==
  \A q \in RunIds :
    \/ rStatus'[q] = rStatus[q]
    \/ rStatus[q] = "unused" /\ rStatus'[q] = "pending"
    \/ rStatus[q] # "unused" /\ rStatus'[q] = "failed" /\ q \in rSwept'
LEMMA RunsMarkedKeep ==
  ASSUME ResearchTyped, ResearchTyped', ResearchBooks,
         UNCHANGED <<rWorker, rCost, rLedger, rSpent, rMissed, rExcused>>, rSwept \subseteq rSwept', RunsMarked,
         \A q \in RunIds : rRequest'[q] # "none" \/ rJob'[q].st # "none" => rStatus'[q] # "unused"
  PROVE  ResearchBooks'
<1> USE DEF ResearchBooks
<1>1. AskedFor'
  BY DEF AskedFor, RunsMarked, Research!At
<1>2. HoldsAnswer' /\ WorksAlone'
  BY DEF HoldsAnswer, WorksAlone, Research!At
<1>3. WorkIsOpen'
  BY DEF WorkIsOpen, StillOpen, RunsMarked, AskedFor, Research!At
<1>4. RowsTrue'
  BY DEF RowsTrue, RunsMarked, Research!ACTIVE_STATUSES
<1>5. SpentAddsUp'
  BY DEF SpentAddsUp, InHands
<1> QED
  BY <1>1, <1>2, <1>3, <1>4, <1>5

LEMMA RowSteps ==
  ASSUME ResearchTyped, ResearchTyped', ResearchBooks,
         \/ Research!Start \/ Research!Enqueue \/ Research!EnqueueFails \/ Research!EnqueueFailed
         \/ Research!RecoverStalled \/ Research!RecoverStuck \/ Research!RecoverEarly \/ UNCHANGED Research!rrvars
  PROVE  ResearchBooks'
<1> USE DEF ResearchBooks
<1>1. UNCHANGED <<rWorker, rCost, rLedger, rSpent, rMissed, rExcused>>
  BY DEF Research!Start, Research!Enqueue, Research!EnqueueFails, Research!EnqueueFailed,
     Research!RecoverStalled, Research!RecoverStuck, Research!RecoverEarly, Research!SweptRun, Research!rrvars,
     Research!rrows, Research!money
<1>2. /\ rStatus \in [RunIds -> Research!RunStatus \cup {"unused"}]
      /\ rJob \in [RunIds -> ResearchJobs] /\ rRequest \in [RunIds -> {"none", "enqueue", "fail", "done"}]
      /\ \A q \in RunIds : rRequest[q] # "none" \/ rJob[q].st # "none" => rStatus[q] # "unused"
  BY DEF ResearchTyped, AskedFor
<1>3. CASE Research!Start
  <2>1. PICK r \in RunIds : /\ rStatus[r] = "unused" /\ rStatus' = [rStatus EXCEPT ![r] = "pending"]
                            /\ rRequest' = [rRequest EXCEPT ![r] = "enqueue"]
    BY <1>3 DEF Research!Start
  <2>2. rJob' = rJob /\ rSwept' = rSwept
    BY <1>3 DEF Research!Start, Research!money
  <2>3. RunsMarked
    BY <1>2, <2>1 DEF RunsMarked
  <2>4. \A q \in RunIds : rRequest'[q] # "none" \/ rJob'[q].st # "none" => rStatus'[q] # "unused"
    BY <1>2, <2>1, <2>2
  <2> QED
    BY <1>1, <2>2, <2>3, <2>4, RunsMarkedKeep
<1>4. CASE \/ Research!Enqueue \/ Research!EnqueueFails \/ Research!RecoverStalled \/ UNCHANGED Research!rrvars
  <2>1. rStatus' = rStatus /\ rSwept' = rSwept
    BY <1>4 DEF Research!Enqueue, Research!EnqueueFails, Research!RecoverStalled, Research!rrvars,
       Research!rrows, Research!money
  <2>2. \A q \in RunIds : rRequest'[q] # "none" \/ rJob'[q].st # "none" => rRequest[q] # "none" \/ rJob[q].st # "none"
    <3>1. \/ rRequest' = rRequest /\ rJob' = rJob
          \/ \E r \in RunIds, to \in {"done", "fail"} :
               rRequest[r] = "enqueue" /\ rRequest' = [rRequest EXCEPT ![r] = to]
               /\ (rJob' = rJob \/ rJob' = [rJob EXCEPT ![r].st = "waiting"])
          \/ \E r \in RunIds, st \in {"waiting", "finished"} :
               rJob[r].st = "active" /\ rJob' = [rJob EXCEPT ![r].st = st] /\ rRequest' = rRequest
      BY <1>4 DEF Research!Enqueue, Research!EnqueueFails, Research!RecoverStalled, Research!rrvars
    <3> QED
      BY <1>2, <3>1 DEF ResearchJobs
  <2>3. RunsMarked
    BY <2>1 DEF RunsMarked
  <2> QED
    BY <1>1, <1>2, <2>1, <2>2, <2>3, RunsMarkedKeep
<1>5. CASE \/ Research!EnqueueFailed \/ Research!RecoverStuck \/ Research!RecoverEarly
  <2>1. PICK r \in RunIds : /\ rStatus[r] # "unused" /\ rStatus' = [rStatus EXCEPT ![r] = "failed"]
                            /\ rSwept' = rSwept \cup {r} /\ rJob' = rJob
                            /\ rRequest' = rRequest \/ (rRequest[r] # "none" /\ rRequest' = [rRequest EXCEPT ![r] = "done"])
    BY <1>2, <1>5 DEF Research!EnqueueFailed, Research!RecoverStuck, Research!RecoverEarly, Research!SweptRun,
       Research!ACTIVE_STATUSES
  <2>2. RunsMarked
    BY <1>2, <2>1 DEF RunsMarked
  <2>3. \A q \in RunIds : rRequest'[q] # "none" \/ rJob'[q].st # "none" => rStatus'[q] # "unused"
    BY <1>2, <2>1
  <2> QED
    BY <1>1, <2>1, <2>2, <2>3, RunsMarkedKeep
<1> QED
  BY <1>3, <1>4, <1>5

LEMMA IdleHoldsNothingStep ==
  ASSUME ResearchTyped, IdleHoldsNothing, [Research!ResearchNext]_Research!rrvars
  PROVE  IdleHoldsNothing'
<1>1. ASSUME NEW w \in Workers,
             Research!WorkerStep(w) \/ Research!SucceedFails(w) \/ Research!RunFails(w) \/ Research!Crash(w)
               \/ Research!LockLost(w)
      PROVE  IdleHoldsNothing'
  <2>1. WorkerLeft(w)
    BY <1>1, ResearchWorkersTyped
  <2>2. rWorker'[w].held => rWorker'[w].pc # "idle"
    <3>1. CASE Research!Returns(w) \/ Research!Throws(w) \/ Research!Crash(w)
      <4>1. rWorker' = [rWorker EXCEPT ![w] = Research!Free]
        BY <3>1 DEF Research!Returns, Research!Throws, Research!Crash
      <4> QED
        BY <4>1, FreeWorker DEF ResearchTyped
    <3>2. CASE Research!TakeJob(w)
      <4>1. PICK r \in RunIds : rWorker' = [rWorker EXCEPT ![w] = [Research!Free EXCEPT !.pc = "read", !.run = r,
                                                                  !.made = rJob[r].made, !.held = TRUE]]
        BY <3>2 DEF Research!TakeJob
      <4> QED
        BY <4>1 DEF ResearchTyped, Research!Free
    <3>3. CASE Research!LockLost(w)
      <4>1. rWorker' = [rWorker EXCEPT ![w].held = FALSE]
        BY <3>3 DEF Research!LockLost
      <4> QED
        BY <4>1 DEF ResearchTyped, ResearchWorkers
    <3>4. CASE ~ (Research!Returns(w) \/ Research!Throws(w) \/ Research!Crash(w) \/ Research!TakeJob(w)
                    \/ Research!LockLost(w))
      <4>1. CASE Research!Read(w) \/ Research!Claim(w)
        BY <3>4, <4>1 DEF Research!Read, Research!Claim, Research!Goes, ResearchTyped, ResearchWorkers
      <4>2. CASE Research!Crawl(w) \/ Research!CrawlFails(w)
        BY <3>4, <4>2 DEF Research!Crawl, Research!CrawlFails, ResearchTyped, ResearchWorkers
      <4>3. CASE Research!Answers(w) \/ Research!Refuses(w)
        BY <4>3 DEF Research!Answers, Research!Refuses, ResearchTyped, ResearchWorkers
      <4>4. CASE Research!SucceedFails(w) \/ Research!Keep(w)
        BY <4>4 DEF Research!SucceedFails, Research!Keep, ResearchTyped, ResearchWorkers
      <4>5. ~ (Research!Succeed(w) \/ Research!HandleFailure(w) \/ Research!RunFails(w))
        BY <3>4 DEF Research!Succeed, Research!HandleFailure, Research!RunFails
      <4> QED
        BY <1>1, <3>4, <4>1, <4>2, <4>3, <4>4, <4>5 DEF Research!WorkerStep
    <3> QED
      BY <3>1, <3>2, <3>3, <3>4
  <2> QED
    BY <2>1, <2>2 DEF IdleHoldsNothing, WorkerLeft, Research!At
<1>2. CASE \/ Research!Start \/ Research!Enqueue \/ Research!EnqueueFails \/ Research!EnqueueFailed
           \/ Research!RecoverStalled \/ Research!RecoverStuck \/ Research!RecoverEarly \/ UNCHANGED Research!rrvars
  <2>1. rWorker' = rWorker
    BY <1>2 DEF Research!Start, Research!Enqueue, Research!EnqueueFails, Research!EnqueueFailed,
       Research!RecoverStalled, Research!RecoverStuck, Research!RecoverEarly, Research!SweptRun, Research!rrvars
  <2> QED
    BY <2>1 DEF IdleHoldsNothing, Research!At
<1> QED
  BY <1>1, <1>2 DEF Research!ResearchNext

LEMMA ResearchStep ==
  ASSUME Research!ResearchBounds, ResearchInv, [Research!ResearchNext]_Research!rrvars
  PROVE  ResearchInv'
<1>1. /\ ResearchTyped /\ ResearchTyped' /\ IdleHoldsNothing' /\ ResearchBooks
      /\ AskedFor /\ HoldsAnswer /\ WorksAlone /\ WorkIsOpen /\ RowsTrue /\ SpentAddsUp
  BY ResearchTypedStep, IdleHoldsNothingStep DEF ResearchInv, ResearchBooks
<1>2. ASSUME NEW w \in Workers,
             Research!WorkerStep(w) \/ Research!SucceedFails(w) \/ Research!RunFails(w) \/ Research!Crash(w)
               \/ Research!LockLost(w),
             ~ Research!TakeJob(w)
      PROVE  ResearchBooks'
  <2> DEFINE r == rWorker[w].run
  <2>1. StepOf(w, r)
    BY <1>1, <1>2, QuietSteps, MarkingSteps, AnswerSteps, FailureStep
       DEF Research!WorkerStep, Research!LockLost, IdleHoldsNothing, ResearchInv
  <2>2. ~ Research!At(w, "idle") /\ WorkerLeft(w)
    BY <1>1, <1>2, ResearchWorkersTyped DEF Research!WorkerStep, Research!Read, Research!Claim, Research!Crawl, Research!CrawlFails,
       Research!Answers, Research!Refuses, Research!Succeed, Research!Keep, Research!HandleFailure,
       Research!SucceedFails, Research!RunFails, Research!Crash, Research!LockLost, Research!At,
       IdleHoldsNothing, ResearchInv
  <2>3. r \in RunIds
    BY <1>1, <2>2, AtItsRun
  <2> HIDE DEF r
  <2>4. r = rWorker[w].run
    BY DEF r
  <2>5. AskedFor' /\ HoldsAnswer' /\ WorksAlone' /\ WorkIsOpen' /\ RowsTrue' /\ SpentAddsUp'
    BY <1>1, <2>1, <2>2, <2>3, <2>4, WorkerStepKeeps
  <2> QED
    BY <2>5 DEF ResearchBooks
<1>3. ASSUME NEW w \in Workers, Research!TakeJob(w) PROVE ResearchBooks'
  BY <1>1, <1>3, TakeJobStep
<1>4. ASSUME \/ Research!Start \/ Research!Enqueue \/ Research!EnqueueFails \/ Research!EnqueueFailed
             \/ Research!RecoverStalled \/ Research!RecoverStuck \/ Research!RecoverEarly \/ UNCHANGED Research!rrvars
      PROVE  ResearchBooks'
  BY <1>1, <1>4, RowSteps
<1>5. ResearchBooks'
  BY <1>2, <1>3, <1>4 DEF Research!ResearchNext
<1> QED
  BY <1>1, <1>5 DEF ResearchInv, ResearchBooks

LEMMA ResearchStart ==
  ASSUME Research!ResearchBounds, Research!ResearchInit
  PROVE  ResearchInv
<1>1. /\ rStatus = [r \in RunIds |-> "unused"] /\ rJob = [r \in RunIds |-> [st |-> "none", made |-> 0]]
      /\ rCost = [r \in RunIds |-> 0] /\ rLedger = rCost /\ rSpent = rCost /\ rMissed = rCost
      /\ rWorker = [w \in Workers |-> Research!Free] /\ rRequest = [r \in RunIds |-> "none"]
  BY DEF Research!ResearchInit
<1>2. ResearchTyped
  BY <1>1, FreeWorker DEF ResearchTyped, ResearchJobs
<1>3. \A w \in Workers : rWorker[w].pc = "idle" /\ rWorker[w].paid = 0 /\ rWorker[w].held = FALSE
  BY <1>1, FreeWorker
<1>4. AskedFor /\ HoldsAnswer /\ IdleHoldsNothing /\ WorksAlone /\ WorkIsOpen
  BY <1>1, <1>3 DEF AskedFor, HoldsAnswer, IdleHoldsNothing, WorksAlone, WorkIsOpen, Research!At
<1>5. RowsTrue
  BY <1>1 DEF RowsTrue, Research!ACTIVE_STATUSES
<1>6. SpentAddsUp
  <2>1. ASSUME NEW r \in RunIds PROVE Total(InHands(r), Workers) = 0
    <3>1. \A w \in Workers : InHands(r)[w] = 0
      BY <1>3 DEF InHands
    <3>2. IsFiniteSet(Workers)
      BY DEF Research!ResearchBounds, Research!IsFiniteSet, IsFiniteSet
    <3> QED
      BY <3>1, <3>2, TotalZero
  <2> QED
    BY <1>1, <2>1 DEF SpentAddsUp
<1> QED
  BY <1>2, <1>4, <1>5, <1>6 DEF ResearchInv

\* The sum that the ledger's property states is that of the proof.
LEMMA ResearchSum ==
  ASSUME IsFiniteSet(Workers), NEW r
  PROVE  LET InHand(w) == IF rWorker[w].run = r THEN rWorker[w].paid ELSE 0
         IN  Research!MapThenSumSet(InHand, Workers) = Total(InHands(r), Workers)
<1> DEFINE InHand(w) == IF rWorker[w].run = r THEN rWorker[w].paid ELSE 0
           Iterates(g) == g = [s \in SUBSET Workers |->
                                 IF s = {} THEN 0
                                 ELSE InHand(CHOOSE x \in s : TRUE) + g[s \ {CHOOSE x \in s : TRUE}]]
<1>1. Research!MapThenSumSet(InHand, Workers) = (CHOOSE g : Iterates(g))[Workers]
  BY DEF Research!MapThenSumSet, Research!MapThenFoldSet
<1>2. ASSUME NEW g PROVE Iterates(g) <=> Adds(InHands(r), Workers, g)
  <2>1. [s \in SUBSET Workers |-> IF s = {} THEN 0
                                  ELSE InHand(CHOOSE x \in s : TRUE) + g[s \ {CHOOSE x \in s : TRUE}]]
        = [s \in SUBSET Workers |-> IF s = {} THEN 0 ELSE InHands(r)[FirstOf(s)] + g[s \ {FirstOf(s)}]]
    <3>1. ASSUME NEW s \in SUBSET Workers, s # {}
          PROVE  InHand(CHOOSE x \in s : TRUE) = InHands(r)[FirstOf(s)]
      <4>1. FirstOf(s) \in Workers
        BY <3>1, FirstIsIn
      <4> QED
        BY <4>1 DEF InHands, FirstOf
    <3> HIDE DEF InHand
    <3> QED
      BY <3>1 DEF FirstOf
  <2> QED
    BY <2>1 DEF Adds
<1>3. PICK g : Adds(InHands(r), Workers, g)
  BY SumExists
<1> HIDE DEF Iterates
<1>4. Iterates(CHOOSE h : Iterates(h))
  <2>1. Iterates(g)
    BY <1>2, <1>3
  <2> QED
    BY <2>1, Zenon
<1>5. Adds(InHands(r), Workers, CHOOSE h : Iterates(h))
  BY <1>2, <1>4
<1> QED
  BY <1>1, <1>5, TotalIs

\* Theorem: what the model charged is on the run, in a worker's hands or lost; and the row of a run
\* that has ended says what the run has cost (crawl.ts).
THEOREM ResearchLedgerAlways ==
  ASSUME Research!ResearchBounds
  PROVE  Research!ResearchSpec => []Research!ResearchLedger
<1>1. Research!ResearchInit => ResearchInv
  BY ResearchStart
<1>2. ResearchInv /\ [Research!ResearchNext]_Research!rrvars => ResearchInv'
  BY ResearchStep
<1>3. ResearchInv => Research!ResearchLedger
  <2> SUFFICES ASSUME ResearchInv, NEW r \in RunIds \ rExcused
               PROVE  LET InHand(w) == IF rWorker[w].run = r THEN rWorker[w].paid ELSE 0
                      IN /\ rSpent[r] = rCost[r] + rMissed[r] + Research!MapThenSumSet(InHand, Workers)
                         /\ rStatus[r] = "succeeded" \/ (rStatus[r] = "failed" /\ r \notin rSwept) => rLedger[r] = rCost[r]
                         /\ rStatus[r] \in Research!ACTIVE_STATUSES => rLedger[r] = 0
    BY DEF Research!ResearchLedger
  <2>1. IsFiniteSet(Workers)
    BY DEF Research!ResearchBounds, Research!IsFiniteSet, IsFiniteSet
  <2>2. LET InHand(w) == IF rWorker[w].run = r THEN rWorker[w].paid ELSE 0
        IN  Research!MapThenSumSet(InHand, Workers) = Total(InHands(r), Workers)
    BY <2>1, ResearchSum
  <2>3. rSpent[r] = rCost[r] + rMissed[r] + Total(InHands(r), Workers)
    BY DEF ResearchInv, SpentAddsUp
  <2>4. /\ rStatus[r] = "succeeded" \/ (rStatus[r] = "failed" /\ r \notin rSwept) => rLedger[r] = rCost[r]
        /\ rStatus[r] \in Research!ACTIVE_STATUSES => rLedger[r] = 0
    BY DEF ResearchInv, RowsTrue
  <2> QED
    BY <2>2, <2>3, <2>4
<1> QED
  BY <1>1, <1>2, <1>3, PTL DEF Research!ResearchSpec

\* What a step does to the runs that were not active.
LEMMA NoneStarts ==
  ASSUME ResearchTyped, [Research!ResearchNext]_Research!rrvars, ~ Research!Start, NEW r \in RunIds,
         rStatus'[r] \in Research!ACTIVE_STATUSES
  PROVE  rStatus[r] \in Research!ACTIVE_STATUSES
<1>1. \/ rStatus' = rStatus
      \/ \E q \in RunIds \cup {Research!Free.run}, st \in {"failed", "succeeded"} : rStatus' = [rStatus EXCEPT ![q] = st]
      \/ \E q \in RunIds \cup {Research!Free.run}, st \in {"crawling", "analyzing"} :
           rStatus' = [rStatus EXCEPT ![q] = st] /\ rStatus[q] \in Research!ACTIVE_STATUSES
  <2>1. ASSUME NEW w \in Workers,
               Research!WorkerStep(w) \/ Research!SucceedFails(w) \/ Research!RunFails(w) \/ Research!Crash(w)
                 \/ Research!LockLost(w)
        PROVE  <1>1!:
    <3>1. rWorker[w].run \in RunIds \cup {Research!Free.run}
      BY DEF ResearchTyped, ResearchWorkers
    <3>2. \/ rStatus' = rStatus
          \/ \E st \in {"failed", "succeeded"} : rStatus' = [rStatus EXCEPT ![rWorker[w].run] = st]
          \/ \E st \in {"crawling", "analyzing"} :
               rStatus' = [rStatus EXCEPT ![rWorker[w].run] = st] /\ rStatus[rWorker[w].run] \in Research!ACTIVE_STATUSES
      BY <2>1 DEF Research!WorkerStep, Research!SucceedFails, Research!RunFails, Research!LockLost, Research!TakeJob,
         Research!Crash, Research!Read, Research!Claim, Research!Crawl, Research!CrawlFails, Research!Answers,
         Research!Refuses, Research!Succeed, Research!Keep, Research!HandleFailure, Research!WriteSuccess,
         Research!WriteFailure, Research!Resumed, Research!rrows, Research!ACTIVE_STATUSES
    <3> QED
      BY <3>1, <3>2
  <2>2. CASE \/ Research!Enqueue \/ Research!EnqueueFails \/ Research!EnqueueFailed
             \/ Research!RecoverStalled \/ Research!RecoverStuck \/ Research!RecoverEarly \/ UNCHANGED Research!rrvars
    BY <2>2 DEF Research!Enqueue, Research!EnqueueFails, Research!EnqueueFailed, Research!RecoverStalled,
       Research!RecoverStuck, Research!RecoverEarly, Research!SweptRun, Research!rrvars, Research!rrows
  <2> QED
    BY <2>1, <2>2 DEF Research!ResearchNext
<1>2. rStatus \in [RunIds -> Research!RunStatus \cup {"unused"}]
  BY DEF ResearchTyped
<1> QED
  BY <1>1, <1>2 DEF Research!ACTIVE_STATUSES

\* Theorem: an organization has one active run, whatever its workers and the sweep do to a run that
\* has ended.
THEOREM OneActiveRunAlways ==
  ASSUME Research!ResearchBounds
  PROVE  Research!ResearchSpec => []Research!OneActiveRun
<1>1. Research!ResearchInit => ResearchTyped /\ Research!OneActiveRun
  BY ResearchStart DEF ResearchInv, Research!ResearchInit, Research!OneActiveRun, Research!ACTIVE_STATUSES
<1>2. ResearchTyped /\ Research!OneActiveRun /\ [Research!ResearchNext]_Research!rrvars
        => (ResearchTyped /\ Research!OneActiveRun)'
  <2> SUFFICES ASSUME ResearchTyped, Research!OneActiveRun, [Research!ResearchNext]_Research!rrvars
               PROVE  Research!OneActiveRun'
    BY ResearchTypedStep
  <2>1. CASE Research!Start
    <3>1. PICK r \in RunIds : rStatus' = [rStatus EXCEPT ![r] = "pending"]
      BY <2>1 DEF Research!Start
    <3>2. \A q \in RunIds : rStatus[q] \notin Research!ACTIVE_STATUSES
      BY <2>1 DEF Research!Start
    <3> QED
      BY <3>1, <3>2 DEF Research!OneActiveRun, ResearchTyped
  <2>2. CASE ~ Research!Start
    BY <2>2, NoneStarts DEF Research!OneActiveRun
  <2> QED
    BY <2>1, <2>2
<1> QED
  BY <1>1, <1>2, PTL DEF Research!ResearchSpec

-----------------------------------------------------------------------------
(* The media generations *)

CONSTANTS Generations, Kinds, MaxCalls, MediaFaults
VARIABLES gStatus, gKind, gPaid, gMedia, gLibrary, gObjects, gJob, gSerial, gWorker, gRequest, gFaults,
          gSpent, gMissed, gTwice, gUnsure, gOverwritten

Generation == INSTANCE Generations WITH
  MaxFaults <- MediaFaults,
  status <- gStatus, kind <- gKind, paid <- gPaid, media <- gMedia, library <- gLibrary,
  objects <- gObjects, job <- gJob, serial <- gSerial, worker <- gWorker, request <- gRequest,
  faults <- gFaults, spent <- gSpent, missed <- gMissed, twice <- gTwice, unsure <- gUnsure,
  overwritten <- gOverwritten

MediaJobs == [st : {"none", "waiting", "active", "finished"}, made : Nat]
MediaStages == {"idle", "claim", "produce", "upload", "commit", "bill", "fail"}
MediaWorkers ==
  [pc : MediaStages, gen : Generations \cup {Generation!Idle.gen}, num : Nat, made : Nat, cost : Nat,
   again : Flags, whole : Flags, held : Flags]
MediaTyped ==
  /\ gStatus \in [Generations -> Generation!GenerationStatus \cup {"unused"}]
  /\ gPaid \in [Generations -> Nat] /\ gSpent \in [Generations -> Nat]
  /\ gMissed \in [Generations -> Nat] /\ gTwice \in [Generations -> Nat]
  /\ gMedia \in [Generations -> Nat] /\ gSerial \in [Generations -> Nat]
  /\ gJob \in [Generations -> MediaJobs]
  /\ gWorker \in [Workers -> MediaWorkers]

\* Who works has a generation and an attempt's number of its own.
OwnNumber ==
  \A w \in Workers : gWorker[w].pc # "idle" =>
    /\ gWorker[w].gen \in Generations /\ gWorker[w].num \in 1..gSerial[gWorker[w].gen]
    /\ \A v \in Workers \ {w} :
         gWorker[v].pc # "idle" /\ gWorker[v].gen = gWorker[w].gen => gWorker[v].num # gWorker[w].num
\* What it has paid is accounted for before it fails, and its files are written before it commits.
HandsEmpty == \A w \in Workers : gWorker[w].pc \in {"idle", "claim", "fail"} => gWorker[w].cost = 0
FilesWritten == \A w \in Workers : gWorker[w].pc = "commit" => <<gWorker[w].gen, gWorker[w].num>> \in gObjects
\* Media are of attempts that were made.
MediaNumbered ==
  \A g \in Generations :
    /\ \A n : <<g, n>> \in gLibrary => n \in 1..gSerial[g]
    /\ gMedia[g] <= gSerial[g]
\* The library has the media that the row names, if it succeeded, and the storage has the file.
OneFile ==
  \A g \in Generations \ gOverwritten :
    /\ \A n : <<g, n>> \in gLibrary <=> n = gMedia[g] /\ n # 0
    /\ gStatus[g] = "succeeded" <=> gMedia[g] # 0
    /\ gMedia[g] # 0 /\ g \notin gUnsure => <<g, gMedia[g]>> \in gObjects
\* Who still works on what its own transaction committed was not told so.
NotTold == \A w \in Workers : gWorker[w].pc # "idle" /\ gWorker[w].num = gMedia[gWorker[w].gen] => gWorker[w].gen \in gUnsure
Costs(g) == [w \in Workers |-> IF gWorker[w].gen = g THEN gWorker[w].cost ELSE 0]
CostsAddUp == \A g \in Generations : gSpent[g] + gTwice[g] = gPaid[g] + gMissed[g] + Total(Costs(g), Workers)

MediaInv ==
  /\ MediaTyped /\ OwnNumber /\ HandsEmpty /\ FilesWritten /\ MediaNumbered /\ OneFile /\ NotTold
  /\ CostsAddUp

\* How a step leaves the worker it is of.
MediaLeft(w) ==
  /\ \A v \in Workers \ {w} : gWorker'[v] = gWorker[v]
  /\ gWorker' \in [Workers -> MediaWorkers]
MediaFreed(w) == MediaLeft(w) /\ gWorker'[w].pc = "idle" /\ gWorker'[w].cost = 0
\* It goes on, with its generation and its attempt's number.
MediaGoesOn(w, pc, n) ==
  /\ MediaLeft(w) /\ gWorker'[w].pc = pc /\ gWorker'[w].cost = n
  /\ gWorker'[w].gen = gWorker[w].gen /\ gWorker'[w].num = gWorker[w].num

LEMMA IdleMedia ==
  /\ Generation!Idle \in MediaWorkers
  /\ Generation!Idle.pc = "idle" /\ Generation!Idle.cost = 0
BY DEF Generation!Idle, MediaWorkers, Flags, MediaStages

LEMMA MediaFrees ==
  ASSUME MediaTyped, NEW w \in Workers, gWorker' = [gWorker EXCEPT ![w] = Generation!Idle]
  PROVE  MediaFreed(w)
BY IdleMedia DEF MediaTyped, MediaFreed, MediaLeft

LEMMA MediaRecord ==
  ASSUME MediaTyped, NEW w \in Workers, NEW pc \in MediaStages, NEW n \in Nat, NEW b \in Flags
  PROVE  /\ gWorker' = [gWorker EXCEPT ![w].pc = pc] => MediaGoesOn(w, pc, gWorker[w].cost)
         /\ gWorker' = [gWorker EXCEPT ![w].cost = n] => MediaGoesOn(w, gWorker[w].pc, n)
         /\ gWorker' = [gWorker EXCEPT ![w].held = b] => MediaGoesOn(w, gWorker[w].pc, gWorker[w].cost)
<1> DEFINE x == gWorker[w]
<1>1. x \in MediaWorkers
  BY DEF MediaTyped
<1>2. /\ [x EXCEPT !.pc = pc] \in MediaWorkers /\ [x EXCEPT !.cost = n] \in MediaWorkers
      /\ [x EXCEPT !.held = b] \in MediaWorkers
  BY <1>1 DEF MediaWorkers
<1>3. /\ [x EXCEPT !.pc = pc].pc = pc /\ [x EXCEPT !.pc = pc].cost = x.cost
      /\ [x EXCEPT !.pc = pc].gen = x.gen /\ [x EXCEPT !.pc = pc].num = x.num
      /\ [x EXCEPT !.cost = n].pc = x.pc /\ [x EXCEPT !.cost = n].cost = n
      /\ [x EXCEPT !.cost = n].gen = x.gen /\ [x EXCEPT !.cost = n].num = x.num
      /\ [x EXCEPT !.held = b].pc = x.pc /\ [x EXCEPT !.held = b].cost = x.cost
      /\ [x EXCEPT !.held = b].gen = x.gen /\ [x EXCEPT !.held = b].num = x.num
  BY <1>1 DEF MediaWorkers
<1> QED
  BY <1>1, <1>2, <1>3 DEF MediaGoesOn, MediaLeft, MediaTyped

LEMMA MediaFlagged ==
  ASSUME MediaTyped, NEW w \in Workers, NEW pc \in MediaStages, NEW n \in Nat, NEW b \in Flags
  PROVE  /\ gWorker' = [gWorker EXCEPT ![w].pc = pc, ![w].whole = b] => MediaGoesOn(w, pc, gWorker[w].cost)
         /\ gWorker' = [gWorker EXCEPT ![w].again = b, ![w].pc = pc] => MediaGoesOn(w, pc, gWorker[w].cost)
         /\ gWorker' = [gWorker EXCEPT ![w].pc = pc, ![w].cost = n] => MediaGoesOn(w, pc, n)
         /\ gWorker' = [gWorker EXCEPT ![w].pc = pc, ![w].cost = n, ![w].again = b] => MediaGoesOn(w, pc, n)
<1> DEFINE x == gWorker[w]
           one == [x EXCEPT !.pc = pc, !.whole = b]
           two == [x EXCEPT !.again = b, !.pc = pc]
           three == [x EXCEPT !.pc = pc, !.cost = n]
           four == [x EXCEPT !.pc = pc, !.cost = n, !.again = b]
<1>1. x \in MediaWorkers
  BY DEF MediaTyped
<1>2. one \in MediaWorkers /\ two \in MediaWorkers /\ three \in MediaWorkers /\ four \in MediaWorkers
  BY <1>1 DEF MediaWorkers
<1>3. /\ one.pc = pc /\ one.cost = x.cost /\ one.gen = x.gen /\ one.num = x.num
      /\ two.pc = pc /\ two.cost = x.cost /\ two.gen = x.gen /\ two.num = x.num
      /\ three.pc = pc /\ three.cost = n /\ three.gen = x.gen /\ three.num = x.num
      /\ four.pc = pc /\ four.cost = n /\ four.gen = x.gen /\ four.num = x.num
  BY <1>1 DEF MediaWorkers
<1>4. /\ [gWorker EXCEPT ![w].pc = pc, ![w].whole = b] = [gWorker EXCEPT ![w] = one]
      /\ [gWorker EXCEPT ![w].again = b, ![w].pc = pc] = [gWorker EXCEPT ![w] = two]
      /\ [gWorker EXCEPT ![w].pc = pc, ![w].cost = n] = [gWorker EXCEPT ![w] = three]
      /\ [gWorker EXCEPT ![w].pc = pc, ![w].cost = n, ![w].again = b] = [gWorker EXCEPT ![w] = four]
  BY DEF MediaTyped
<1>5. ASSUME NEW to \in MediaWorkers, gWorker' = [gWorker EXCEPT ![w] = to],
             to.pc = pc, to.gen = x.gen, to.num = x.num
      PROVE  MediaGoesOn(w, pc, to.cost)
  BY <1>5 DEF MediaGoesOn, MediaLeft, MediaTyped
<1> HIDE DEF one, two, three, four
<1>6. gWorker' = [gWorker EXCEPT ![w] = one] => MediaGoesOn(w, pc, x.cost)
  BY <1>2, <1>3, <1>5
<1>7. gWorker' = [gWorker EXCEPT ![w] = two] => MediaGoesOn(w, pc, x.cost)
  BY <1>2, <1>3, <1>5
<1>8. gWorker' = [gWorker EXCEPT ![w] = three] => MediaGoesOn(w, pc, n)
  BY <1>2, <1>3, <1>5
<1>9. gWorker' = [gWorker EXCEPT ![w] = four] => MediaGoesOn(w, pc, n)
  BY <1>2, <1>3, <1>5
<1> QED
  BY <1>4, <1>6, <1>7, <1>8, <1>9

\* What a step of worker w at generation g does, and does not: to the others' rows,
MediaOthers(g) ==
  \A q \in Generations \ {g} :
    /\ gStatus'[q] = gStatus[q] /\ gMedia'[q] = gMedia[q] /\ gPaid'[q] = gPaid[q]
    /\ gSpent'[q] = gSpent[q] /\ gMissed'[q] = gMissed[q] /\ gTwice'[q] = gTwice[q]
\* to its own and its file,
MediaSame(w, g) ==
  /\ UNCHANGED <<gMedia, gLibrary, gUnsure>>
  /\ gStatus'[g] = "succeeded" <=> gStatus[g] = "succeeded"
  /\ \A f \in gObjects : f # <<g, gWorker[w].num>> => f \in gObjects'
MediaCommits(w, g) ==
  /\ gWorker[w].pc = "commit" /\ gStatus[g] # "succeeded" /\ gStatus'[g] = "succeeded"
  /\ gMedia'[g] = gWorker[w].num /\ gLibrary' = gLibrary \cup {<<g, gWorker[w].num>>}
  /\ \/ gWorker'[w].pc = "idle" /\ gUnsure' = gUnsure /\ gObjects \subseteq gObjects'
     \/ gUnsure' = gUnsure \cup {g} /\ \A f \in gObjects : f # <<g, gWorker[w].num>> => f \in gObjects'
\* and all of it.
MediaStep(w, g) ==
  /\ MediaLeft(w) /\ UNCHANGED <<gSerial, gOverwritten>>
  /\ gWorker'[w].pc # "idle" => gWorker'[w].gen = g /\ gWorker'[w].num = gWorker[w].num
  /\ gWorker'[w].pc \in {"idle", "claim", "fail"} => gWorker'[w].cost = 0
  /\ gWorker'[w].pc = "commit" => <<g, gWorker[w].num>> \in gObjects'
  /\ MediaOthers(g)
  /\ MediaSame(w, g) \/ MediaCommits(w, g)
  /\ (gSpent'[g] + gTwice'[g]) + (gPaid[g] + gMissed[g] + gWorker[w].cost)
     = (gSpent[g] + gTwice[g]) + (gPaid'[g] + gMissed'[g] + gWorker'[w].cost)

LEMMA MediaStepKeeps ==
  ASSUME OwnNumber, HandsEmpty, FilesWritten, MediaNumbered, OneFile, NotTold, MediaTyped, MediaTyped',
         NEW w \in Workers, gWorker[w].pc # "idle", NEW g, g = gWorker[w].gen, MediaStep(w, g)
  PROVE  OwnNumber' /\ HandsEmpty' /\ FilesWritten' /\ MediaNumbered' /\ OneFile' /\ NotTold'
<1> DEFINE n == gWorker[w].num
<1>1. /\ g \in Generations /\ n \in 1..gSerial[g] /\ n # 0 /\ n \in Nat /\ gSerial' = gSerial /\ gOverwritten' = gOverwritten
      /\ \A v \in Workers \ {w} : gWorker[v].pc # "idle" /\ gWorker[v].gen = g => gWorker[v].num # n
      /\ \A v \in Workers \ {w} : gWorker'[v] = gWorker[v]
  BY DEF OwnNumber, MediaStep, MediaLeft, MediaTyped, MediaWorkers
<1>2. /\ gWorker'[w].pc # "idle" => gWorker'[w].gen = g /\ gWorker'[w].num = n
      /\ gWorker'[w].pc \in {"idle", "claim", "fail"} => gWorker'[w].cost = 0
      /\ gWorker'[w].pc = "commit" => <<g, n>> \in gObjects'
  BY DEF MediaStep
<1>3. /\ \A q \in Generations \ {g} : gStatus'[q] = gStatus[q] /\ gMedia'[q] = gMedia[q]
      /\ MediaSame(w, g) \/ MediaCommits(w, g)
      /\ \A f \in gObjects : f # <<g, n>> => f \in gObjects'
      /\ \A q, m : <<q, m>> \in gLibrary => <<q, m>> \in gLibrary'
      /\ \A q, m : <<q, m>> \in gLibrary' => <<q, m>> \in gLibrary \/ (q = g /\ m = n)
      /\ gMedia'[g] \in {gMedia[g], n}
      /\ gUnsure \subseteq gUnsure'
  BY DEF MediaStep, MediaOthers, MediaSame, MediaCommits
<1> HIDE DEF n
<1>4. OwnNumber'
  BY <1>1, <1>2 DEF OwnNumber
<1>5. HandsEmpty'
  BY <1>1, <1>2 DEF HandsEmpty
<1>6. FilesWritten'
  <2> SUFFICES ASSUME NEW v \in Workers, gWorker'[v].pc = "commit"
               PROVE  <<gWorker'[v].gen, gWorker'[v].num>> \in gObjects'
    BY DEF FilesWritten
  <2>1. CASE v = w
    BY <1>2, <2>1
  <2>2. CASE v # w
    <3>1. gWorker'[v] = gWorker[v] /\ <<gWorker[v].gen, gWorker[v].num>> \in gObjects
      BY <1>1, <2>2 DEF FilesWritten
    <3>2. <<gWorker[v].gen, gWorker[v].num>> # <<g, n>>
      BY <1>1, <2>2, <3>1
    <3> QED
      BY <1>3, <3>1, <3>2
  <2> QED
    BY <2>1, <2>2
<1>7. MediaNumbered'
  BY <1>1, <1>3 DEF MediaNumbered, MediaTyped
<1>8. NotTold'
  <2> SUFFICES ASSUME NEW v \in Workers, gWorker'[v].pc # "idle", gWorker'[v].num = gMedia'[gWorker'[v].gen]
               PROVE  gWorker'[v].gen \in gUnsure'
    BY DEF NotTold
  <2>1. CASE v = w
    <3>1. gMedia'[g] = n /\ gWorker'[w].gen = g
      BY <1>2, <2>1
    <3>2. CASE MediaSame(w, g)
      BY <1>3, <2>1, <3>1, <3>2 DEF NotTold, MediaSame, n
    <3>3. CASE MediaCommits(w, g)
      BY <2>1, <3>1, <3>3 DEF MediaCommits
    <3> QED
      BY <1>3, <3>2, <3>3
  <2>2. CASE v # w
    <3>1. gWorker'[v] = gWorker[v]
      BY <1>1, <2>2
    <3>2. gWorker[v].gen = g => gWorker[v].num # n
      BY <1>1, <2>2, <3>1
    <3>3. gWorker[v].gen \in Generations
      BY <3>1 DEF OwnNumber
    <3>4. gWorker[v].num = gMedia[gWorker[v].gen]
      BY <1>3, <3>1, <3>2, <3>3
    <3> QED
      BY <1>3, <3>1, <3>4 DEF NotTold
  <2> QED
    BY <2>1, <2>2
<1>9. OneFile'
  <2> SUFFICES ASSUME NEW q \in Generations \ gOverwritten
               PROVE  /\ \A m : <<q, m>> \in gLibrary' <=> m = gMedia'[q] /\ m # 0
                      /\ gStatus'[q] = "succeeded" <=> gMedia'[q] # 0
                      /\ gMedia'[q] # 0 /\ q \notin gUnsure' => <<q, gMedia'[q]>> \in gObjects'
    BY <1>1 DEF OneFile
  <2>1. /\ \A m : <<q, m>> \in gLibrary <=> m = gMedia[q] /\ m # 0
        /\ gStatus[q] = "succeeded" <=> gMedia[q] # 0
        /\ gMedia[q] # 0 /\ q \notin gUnsure => <<q, gMedia[q]>> \in gObjects
    BY DEF OneFile
  <2>2. CASE q # g
    <3>1. \A m : <<q, m>> \in gLibrary' <=> <<q, m>> \in gLibrary
      BY <1>3, <2>2
    <3> QED
      BY <1>3, <2>1, <2>2, <3>1
  <2>3. CASE q = g /\ MediaSame(w, g)
    <3>1. gMedia[g] = n => g \in gUnsure
      BY <1>1 DEF NotTold, n
    <3>2. gMedia[g] # 0 /\ g \notin gUnsure' => <<g, gMedia[g]>> \in gObjects'
      BY <1>3, <2>1, <2>3, <3>1 DEF MediaSame
    <3> QED
      BY <2>1, <2>3, <3>2 DEF MediaSame
  <2>4. CASE q = g /\ MediaCommits(w, g)
    <3>1. gMedia[g] = 0 /\ \A m : <<g, m>> \notin gLibrary
      BY <2>1, <2>4 DEF MediaCommits
    <3>2. /\ gStatus'[g] = "succeeded" /\ gMedia'[g] = n /\ gLibrary' = gLibrary \cup {<<g, n>>}
          /\ gObjects \subseteq gObjects' \/ g \in gUnsure'
      BY <2>4 DEF MediaCommits, n
    <3>3. <<g, n>> \in gObjects
      BY <2>4 DEF MediaCommits, FilesWritten, n
    <3> QED
      BY <1>1, <2>4, <3>1, <3>2, <3>3
  <2> QED
    BY <1>3, <2>2, <2>3, <2>4
<1> QED
  BY <1>4, <1>5, <1>6, <1>7, <1>8, <1>9

LEMMA CostsStep ==
  ASSUME Generation!GenerationBounds, MediaTyped, MediaTyped', CostsAddUp,
         NEW w \in Workers, NEW g \in Generations, g = gWorker[w].gen, MediaStep(w, g)
  PROVE  CostsAddUp'
<1>1. IsFiniteSet(Workers)
  BY DEF Generation!GenerationBounds, Generation!IsFiniteSet, IsFiniteSet
<1>2. ASSUME NEW q \in Generations, NEW v \in Workers
      PROVE  Costs(q)[v] \in Nat /\ Costs(q)'[v] \in Nat
  BY DEF Costs, MediaTyped, MediaWorkers
<1>3. /\ \A v \in Workers \ {w} : gWorker'[v] = gWorker[v]
      /\ gWorker'[w].pc # "idle" => gWorker'[w].gen = g
      /\ gWorker'[w].pc \in {"idle", "claim", "fail"} => gWorker'[w].cost = 0
  BY DEF MediaStep, MediaLeft
<1>4. ASSUME NEW q \in Generations \ {g}
      PROVE  gSpent'[q] + gTwice'[q] = gPaid'[q] + gMissed'[q] + Total(Costs(q)', Workers)
  <2>1. Costs(q)' = Costs(q)
    <3>1. \A v \in Workers : (IF gWorker'[v].gen = q THEN gWorker'[v].cost ELSE 0)
                             = (IF gWorker[v].gen = q THEN gWorker[v].cost ELSE 0)
      BY <1>3, <1>4
    <3> QED
      BY <3>1 DEF Costs
  <2> QED
    BY <1>4, <2>1 DEF CostsAddUp, MediaStep, MediaOthers
<1>5. gSpent'[g] + gTwice'[g] = gPaid'[g] + gMissed'[g] + Total(Costs(g)', Workers)
  <2>1. \A v \in Workers \ {w} : Costs(g)'[v] = Costs(g)[v]
    BY <1>3 DEF Costs
  <2>2. Costs(g)[w] = gWorker[w].cost
    BY DEF Costs
  <2>3. Costs(g)'[w] = gWorker'[w].cost
    BY <1>3 DEF Costs
  <2>4. Total(Costs(g)', Workers) + gWorker[w].cost = Total(Costs(g), Workers) + gWorker'[w].cost
    BY <1>1, <1>2, <2>1, <2>2, <2>3, TotalChanges
  <2>5. Total(Costs(g), Workers) \in Nat /\ Total(Costs(g)', Workers) \in Nat
    BY <1>1, <1>2, TotalNat
  <2>6. gSpent[g] + gTwice[g] = gPaid[g] + gMissed[g] + Total(Costs(g), Workers)
    BY DEF CostsAddUp
  <2>7. /\ gSpent[g] + gTwice[g] \in Nat /\ gPaid[g] \in Nat /\ gMissed[g] \in Nat /\ gWorker[w].cost \in Nat
        /\ gSpent'[g] + gTwice'[g] \in Nat /\ gPaid'[g] \in Nat /\ gMissed'[g] \in Nat /\ gWorker'[w].cost \in Nat
    BY DEF MediaTyped, MediaWorkers
  <2>8. (gSpent'[g] + gTwice'[g]) + (gPaid[g] + gMissed[g] + gWorker[w].cost)
        = (gSpent[g] + gTwice[g]) + (gPaid'[g] + gMissed'[g] + gWorker'[w].cost)
    BY DEF MediaStep
  <2> DEFINE s == gSpent[g] + gTwice[g]
             c == gPaid[g]
             m == gMissed[g]
             p == gWorker[w].cost
             t == Total(Costs(g), Workers)
             s1 == gSpent'[g] + gTwice'[g]
             c1 == gPaid'[g]
             m1 == gMissed'[g]
             p1 == gWorker'[w].cost
             t1 == Total(Costs(g)', Workers)
  <2>9. /\ s \in Nat /\ c \in Nat /\ m \in Nat /\ p \in Nat /\ t \in Nat
        /\ s1 \in Nat /\ c1 \in Nat /\ m1 \in Nat /\ p1 \in Nat /\ t1 \in Nat
        /\ s = c + m + t /\ t1 + p = t + p1 /\ s1 + (c + m + p) = s + (c1 + m1 + p1)
    BY <2>4, <2>5, <2>6, <2>7, <2>8
  <2> HIDE DEF s, c, m, p, t, s1, c1, m1, p1, t1
  <2>10. s1 = c1 + m1 + t1
    BY <2>9
  <2> QED
    BY <2>10 DEF s1, c1, m1, t1
<1> QED
  BY <1>4, <1>5 DEF CostsAddUp

MediaAct(w) ==
  \/ Generation!WorkerStep(w) \/ Generation!Crash(w) \/ Generation!LockLost(w)
  \/ Generation!UploadFails(w) \/ Generation!SucceedFails(w) \/ Generation!BillFails(w) \/ Generation!ProcessFails(w)

LEMMA MediaJobEnds ==
  ASSUME MediaTyped, NEW w \in Workers, Generation!Returns(w) \/ Generation!Throws(w)
  PROVE  MediaFreed(w) /\ gJob' \in [Generations -> MediaJobs]
<1>1. gWorker[w].made \in Nat /\ gWorker[w].made + 1 \in Nat
  BY DEF MediaTyped, MediaWorkers
<1>2. MediaFreed(w)
  BY MediaFrees DEF Generation!Returns, Generation!Throws
<1>3. CASE gJob' = gJob
  BY <1>2, <1>3 DEF MediaTyped
<1>4. CASE gJob' = [gJob EXCEPT ![gWorker[w].gen].st = "finished"]
  BY <1>2, <1>4 DEF MediaTyped, MediaJobs
<1>5. ASSUME NEW st \in {"waiting", "finished"}, gJob' = [gJob EXCEPT ![gWorker[w].gen] = [st |-> st, made |-> gWorker[w].made + 1]]
      PROVE  gJob' \in [Generations -> MediaJobs]
  <2>1. [st |-> st, made |-> gWorker[w].made + 1] \in MediaJobs
    BY <1>1, <1>5 DEF MediaJobs
  <2> QED
    BY <1>5, <2>1 DEF MediaTyped
<1> QED
  BY <1>2, <1>3, <1>4, <1>5 DEF Generation!Returns, Generation!Throws

\* An attempt that fails with an error has its costs to bill, if there are any.
LEMMA MediaFails ==
  ASSUME MediaTyped, NEW w \in Workers, NEW again \in BOOLEAN, Generation!Fails(w, again)
  PROVE  MediaGoesOn(w, IF gWorker[w].cost > 0 THEN "bill" ELSE "fail", gWorker[w].cost)
<1> DEFINE pc == IF gWorker[w].cost > 0 THEN "bill" ELSE "fail"
<1>1. PICK b \in Flags : gWorker' = [gWorker EXCEPT ![w].again = b, ![w].pc = pc]
  BY DEF Generation!Fails, Flags
<1>2. pc \in MediaStages
  BY DEF MediaStages
<1>3. 0 \in Nat
  OBVIOUS
<1> HIDE DEF pc
<1>4. MediaGoesOn(w, pc, gWorker[w].cost)
  BY <1>1, <1>2, <1>3, MediaFlagged
<1> QED
  BY <1>4 DEF pc

\* A step that leaves the rows and the files, and the worker with what it has paid.
LEMMA MediaQuiet ==
  ASSUME MediaTyped, HandsEmpty, NEW w \in Workers, NEW g \in Generations, g = gWorker[w].gen,
         UNCHANGED <<gMedia, gPaid, gLibrary, gUnsure, gOverwritten, gObjects, gSerial, gSpent, gMissed, gTwice>>,
         gStatus'[g] = "succeeded" <=> gStatus[g] = "succeeded",
         \A q \in Generations \ {g} : gStatus'[q] = gStatus[q],
         NEW pc \in MediaStages, pc = "commit" => <<g, gWorker[w].num>> \in gObjects,
         \/ MediaFreed(w) /\ gWorker[w].cost = 0
         \/ MediaGoesOn(w, pc, gWorker[w].cost) /\ (pc \in {"idle", "claim", "fail"} => gWorker[w].cost = 0)
  PROVE  MediaStep(w, g)
<1>1. /\ gWorker[w].cost \in Nat /\ gSpent[g] \in Nat /\ gTwice[g] \in Nat /\ gPaid[g] \in Nat /\ gMissed[g] \in Nat
      /\ gWorker'[w].cost = gWorker[w].cost
  BY DEF MediaTyped, MediaWorkers, MediaFreed, MediaGoesOn
<1>2. MediaOthers(g) /\ MediaSame(w, g)
  BY DEF MediaOthers, MediaSame
<1>3. (gSpent'[g] + gTwice'[g]) + (gPaid[g] + gMissed[g] + gWorker[w].cost)
      = (gSpent[g] + gTwice[g]) + (gPaid'[g] + gMissed'[g] + gWorker'[w].cost)
  BY <1>1
<1> QED
  BY <1>2, <1>3 DEF MediaStep, MediaFreed, MediaGoesOn

LEMMA MediaQuietSteps ==
  ASSUME MediaTyped, OwnNumber, HandsEmpty, FilesWritten, NEW w \in Workers, gWorker[w].pc # "idle", NEW g, g = gWorker[w].gen,
         \/ Generation!Claim(w) \/ Generation!Produced(w) \/ Generation!UploadFails(w)
         \/ Generation!HandleFailure(w) \/ Generation!ProcessFails(w) \/ Generation!LockLost(w)
  PROVE  MediaStep(w, g) /\ gJob' \in [Generations -> MediaJobs]
<1>1. /\ g \in Generations /\ gStatus \in [Generations -> Generation!GenerationStatus \cup {"unused"}]
      /\ gWorker[w].cost \in Nat /\ gWorker[w].pc \in MediaStages
      /\ gWorker[w].pc \in {"claim", "fail"} => gWorker[w].cost = 0
      /\ gWorker[w].pc = "commit" => <<g, gWorker[w].num>> \in gObjects
      /\ gJob \in [Generations -> MediaJobs]
      /\ 0 \in Nat /\ \A b \in BOOLEAN : b \in Flags
  BY DEF OwnNumber, MediaTyped, MediaWorkers, HandsEmpty, FilesWritten, Flags
<1>2. UNCHANGED <<gMedia, gPaid, gLibrary, gUnsure, gOverwritten, gObjects, gSerial, gSpent, gMissed, gTwice>>
  BY DEF Generation!Claim, Generation!Produced, Generation!UploadFails, Generation!HandleFailure,
     Generation!ProcessFails, Generation!LockLost, Generation!rows, Generation!history
<1>3. CASE Generation!Claim(w)
  <2>1. CASE /\ gStatus[g] \in Generation!Active /\ gStatus' = [gStatus EXCEPT ![g] = "running"]
             /\ gWorker' = [gWorker EXCEPT ![w].pc = "produce"] /\ UNCHANGED gJob
    <3>1. "produce" \in MediaStages
      BY DEF MediaStages
    <3>2. MediaGoesOn(w, "produce", gWorker[w].cost)
      BY <1>1, <2>1, <3>1, MediaRecord, FlagsAre
    <3> QED
      BY <1>1, <1>2, <2>1, <3>1, <3>2, MediaQuiet DEF Generation!Active
  <2>2. CASE Generation!Returns(w) /\ UNCHANGED gStatus
    <3>1. MediaFreed(w) /\ gJob' \in [Generations -> MediaJobs] /\ gWorker[w].cost = 0
      BY <1>1, <1>3, <2>2, MediaJobEnds DEF Generation!Claim, Generation!At
    <3>2. "idle" \in MediaStages
      BY DEF MediaStages
    <3> QED
      BY <1>1, <1>2, <2>2, <3>1, <3>2, MediaQuiet
  <2> QED
    BY <1>3, <2>1, <2>2 DEF Generation!Claim, Generation!Goes
<1>4. CASE Generation!Produced(w)
  <2>1. PICK b \in Flags : gWorker' = [gWorker EXCEPT ![w].pc = "upload", ![w].whole = b]
    BY <1>4 DEF Generation!Produced, Flags
  <2>2. "upload" \in MediaStages /\ gStatus' = gStatus /\ gJob' = gJob
    BY <1>4 DEF MediaStages, Generation!Produced, Generation!rows
  <2>3. MediaGoesOn(w, "upload", gWorker[w].cost)
    BY <1>1, <2>1, <2>2, MediaFlagged
  <2> QED
    BY <1>1, <1>2, <2>2, <2>3, MediaQuiet
<1>5. CASE Generation!UploadFails(w)
  <2> DEFINE pc == IF gWorker[w].cost > 0 THEN "bill" ELSE "fail"
  <2>1. \E again \in BOOLEAN : Generation!Fails(w, again)
    BY <1>5 DEF Generation!UploadFails
  <2>2. pc \in MediaStages /\ gStatus' = gStatus /\ gJob' = gJob
    BY <1>5 DEF MediaStages, Generation!UploadFails, Generation!rows
  <2>3. MediaGoesOn(w, pc, gWorker[w].cost)
    BY <2>1, MediaFails
  <2>4. pc # "commit" /\ (pc \in {"idle", "claim", "fail"} => gWorker[w].cost = 0)
    BY <1>1
  <2> HIDE DEF pc
  <2> QED
    BY <1>1, <1>2, <2>2, <2>3, <2>4, MediaQuiet
<1>6. CASE Generation!HandleFailure(w) \/ Generation!ProcessFails(w)
  <2>1. MediaFreed(w) /\ gJob' \in [Generations -> MediaJobs] /\ gWorker[w].cost = 0
    BY <1>1, <1>6, MediaJobEnds DEF Generation!HandleFailure, Generation!ProcessFails, Generation!At
  <2>2. gStatus' = gStatus \/ (gStatus[g] \in Generation!Active /\ gStatus' = [gStatus EXCEPT ![g] = "failed"])
    BY <1>6 DEF Generation!HandleFailure, Generation!ProcessFails, Generation!rows
  <2>3. "idle" \in MediaStages
    BY DEF MediaStages
  <2> QED
    BY <1>1, <1>2, <2>1, <2>2, <2>3, MediaQuiet DEF Generation!Active
<1>7. CASE Generation!LockLost(w)
  <2>1. PICK b \in Flags : gWorker' = [gWorker EXCEPT ![w].held = b]
    BY <1>7 DEF Generation!LockLost, Flags
  <2>2. gStatus' = gStatus /\ gJob' = gJob
    BY <1>7 DEF Generation!LockLost, Generation!rows
  <2>3. MediaGoesOn(w, gWorker[w].pc, gWorker[w].cost)
    BY <1>1, <2>1, MediaRecord
  <2> QED
    BY <1>1, <1>2, <2>2, <2>3, MediaQuiet
<1> QED
  BY <1>3, <1>4, <1>5, <1>6, <1>7

MediaRowsTyped ==
  /\ gStatus' \in [Generations -> Generation!GenerationStatus \cup {"unused"}]
  /\ gPaid' \in [Generations -> Nat] /\ gSpent' \in [Generations -> Nat]
  /\ gMissed' \in [Generations -> Nat] /\ gTwice' \in [Generations -> Nat]
  /\ gMedia' \in [Generations -> Nat] /\ gSerial' \in [Generations -> Nat]

\* The provider answers, or fails, the files are written, and what was paid is billed, or lost.
LEMMA MediaPaidSteps ==
  ASSUME MediaTyped, OwnNumber, HandsEmpty, FilesWritten, NEW w \in Workers, gWorker[w].pc # "idle", NEW g, g = gWorker[w].gen,
         \/ Generation!AskProvider(w) \/ Generation!ProduceFails(w) \/ Generation!Upload(w)
         \/ Generation!Bill(w) \/ Generation!BillFails(w) \/ Generation!Crash(w)
  PROVE  MediaStep(w, g) /\ gJob' \in [Generations -> MediaJobs] /\ MediaRowsTyped
<1> DEFINE c == gWorker[w].cost
<1>1. /\ g \in Generations /\ c \in Nat /\ c + 1 \in Nat /\ 0 \in Nat /\ 1 \in Nat
      /\ gSpent[g] \in Nat /\ gTwice[g] \in Nat /\ gPaid[g] \in Nat /\ gMissed[g] \in Nat
      /\ gJob \in [Generations -> MediaJobs] /\ gWorker[w].pc \in MediaStages
      /\ gSpent \in [Generations -> Nat] /\ gPaid \in [Generations -> Nat] /\ gMissed \in [Generations -> Nat]
      /\ \A b \in BOOLEAN : b \in Flags
  BY DEF OwnNumber, MediaTyped, MediaWorkers, Flags
<1>2. /\ UNCHANGED <<gStatus, gMedia, gLibrary, gUnsure, gOverwritten, gSerial, gTwice>>
      /\ gObjects' = gObjects \/ gObjects' = gObjects \cup {<<g, gWorker[w].num>>}
  BY DEF Generation!AskProvider, Generation!ProduceFails, Generation!Upload, Generation!Bill, Generation!BillFails, Generation!Crash,
     Generation!rows, Generation!history
<1>3. MediaSame(w, g)
  BY <1>2 DEF MediaSame
<1>4. CASE Generation!AskProvider(w)
  <2>1. /\ UNCHANGED <<gPaid, gMissed, gJob>> /\ gSpent' = Generation!Plus(gSpent, g, 1) /\ gWorker[w].pc = "produce"
        /\ gWorker' = [gWorker EXCEPT ![w].cost = c + 1]
    BY <1>4 DEF Generation!AskProvider, Generation!rows, Generation!At
  <2>2. MediaGoesOn(w, "produce", c + 1)
    BY <1>1, <2>1, MediaRecord, FlagsAre
  <2>3. /\ gSpent' \in [Generations -> Nat] /\ gSpent'[g] = gSpent[g] + 1
        /\ \A q \in Generations \ {g} : gSpent'[q] = gSpent[q]
    BY <1>1, <2>1 DEF Generation!Plus
  <2>4. (gSpent'[g] + gTwice'[g]) + (gPaid[g] + gMissed[g] + c) = (gSpent[g] + gTwice[g]) + (gPaid'[g] + gMissed'[g] + (c + 1))
    BY <1>1, <1>2, <2>1, <2>3
  <2> QED
    BY <1>1, <1>2, <1>3, <2>1, <2>2, <2>3, <2>4 DEF MediaStep, MediaGoesOn, MediaOthers, MediaRowsTyped, MediaTyped
<1>5. CASE Generation!Upload(w)
  <2>1. /\ UNCHANGED <<gPaid, gMissed, gSpent, gJob>> /\ gWorker' = [gWorker EXCEPT ![w].pc = "commit"]
        /\ gObjects' = gObjects \cup {<<g, gWorker[w].num>>} /\ "commit" \in MediaStages
    BY <1>5 DEF Generation!Upload, Generation!rows, Generation!history, Generation!Goes, MediaStages
  <2>2. MediaGoesOn(w, "commit", c)
    BY <1>1, <2>1, MediaRecord, FlagsAre
  <2>3. (gSpent'[g] + gTwice'[g]) + (gPaid[g] + gMissed[g] + c) = (gSpent[g] + gTwice[g]) + (gPaid'[g] + gMissed'[g] + c)
    BY <1>1, <1>2, <2>1
  <2> QED
    BY <1>1, <1>2, <1>3, <2>1, <2>2, <2>3 DEF MediaStep, MediaGoesOn, MediaOthers, MediaRowsTyped, MediaTyped
<1>6. CASE Generation!Bill(w)
  <2>1. /\ UNCHANGED <<gMissed, gSpent, gJob>> /\ gWorker' = [gWorker EXCEPT ![w].pc = "fail", ![w].cost = 0]
        /\ gPaid' = Generation!Plus(gPaid, g, c) /\ "fail" \in MediaStages
    BY <1>6 DEF Generation!Bill, Generation!history, MediaStages
  <2>2. MediaGoesOn(w, "fail", 0)
    BY <1>1, <2>1, MediaFlagged, FlagsAre
  <2>3. /\ gPaid' \in [Generations -> Nat] /\ gPaid'[g] = gPaid[g] + c
        /\ \A q \in Generations \ {g} : gPaid'[q] = gPaid[q]
    BY <1>1, <2>1 DEF Generation!Plus
  <2>4. (gSpent'[g] + gTwice'[g]) + (gPaid[g] + gMissed[g] + c) = (gSpent[g] + gTwice[g]) + (gPaid'[g] + gMissed'[g] + 0)
    BY <1>1, <1>2, <2>1, <2>3
  <2> QED
    BY <1>1, <1>2, <1>3, <2>1, <2>2, <2>3, <2>4 DEF MediaStep, MediaGoesOn, MediaOthers, MediaRowsTyped, MediaTyped
<1>7. CASE Generation!BillFails(w) \/ Generation!Crash(w)
  <2>1. UNCHANGED <<gPaid, gSpent>> /\ gMissed' = Generation!Plus(gMissed, g, c)
    BY <1>7 DEF Generation!BillFails, Generation!Crash, Generation!rows
  <2>2. /\ MediaLeft(w) /\ gWorker'[w].cost = 0 /\ gJob' \in [Generations -> MediaJobs]
        /\ gWorker'[w].pc \in {"idle", "fail"}
        /\ gWorker'[w].pc # "idle" => gWorker'[w].gen = g /\ gWorker'[w].num = gWorker[w].num
    <3>1. CASE Generation!Throws(w)
      BY <3>1, MediaJobEnds DEF MediaFreed
    <3>2. CASE Generation!Crash(w)
      BY <1>1, <3>2, MediaFrees DEF MediaFreed, Generation!Crash
    <3>3. CASE Generation!BillFails(w) /\ ~ Generation!Throws(w)
      <4>1. PICK b \in Flags : gWorker' = [gWorker EXCEPT ![w].pc = "fail", ![w].cost = 0, ![w].again = b]
        BY <3>3 DEF Generation!BillFails, Flags
      <4>2. "fail" \in MediaStages /\ gJob' = gJob
        BY <3>3 DEF Generation!BillFails, MediaStages
      <4>3. MediaGoesOn(w, "fail", 0)
        BY <1>1, <4>1, <4>2, MediaFlagged
      <4> QED
        BY <1>1, <4>2, <4>3 DEF MediaGoesOn
    <3> QED
      BY <1>7, <3>1, <3>2, <3>3
  <2>3. /\ gMissed' \in [Generations -> Nat] /\ gMissed'[g] = gMissed[g] + c
        /\ \A q \in Generations \ {g} : gMissed'[q] = gMissed[q]
    BY <1>1, <2>1 DEF Generation!Plus
  <2>4. (gSpent'[g] + gTwice'[g]) + (gPaid[g] + gMissed[g] + c) = (gSpent[g] + gTwice[g]) + (gPaid'[g] + gMissed'[g] + 0)
    BY <1>1, <1>2, <2>1, <2>3
  <2> QED
    BY <1>1, <1>2, <1>3, <2>1, <2>2, <2>3, <2>4 DEF MediaStep, MediaOthers, MediaRowsTyped, MediaTyped
<1>8. CASE Generation!ProduceFails(w)
  <2>1. PICK k \in 0..MaxCalls : gSpent' = Generation!Plus(gSpent, g, k) /\ gMissed' = Generation!Plus(gMissed, g, k)
    BY <1>8 DEF Generation!ProduceFails
  <2>2. UNCHANGED <<gPaid, gJob>> /\ \E again \in BOOLEAN : Generation!Fails(w, again)
    BY <1>8 DEF Generation!ProduceFails, Generation!rows
  <2>3. /\ gSpent' \in [Generations -> Nat] /\ gSpent'[g] = gSpent[g] + k
        /\ \A q \in Generations \ {g} : gSpent'[q] = gSpent[q]
        /\ gMissed' \in [Generations -> Nat] /\ gMissed'[g] = gMissed[g] + k
        /\ \A q \in Generations \ {g} : gMissed'[q] = gMissed[q]
    BY <1>1, <2>1 DEF Generation!Plus
  <2> DEFINE pc == IF c > 0 THEN "bill" ELSE "fail"
  <2>4. MediaGoesOn(w, pc, c)
    BY <2>2, MediaFails
  <2>5. pc # "commit" /\ pc # "idle" /\ pc # "claim" /\ (pc = "fail" => c = 0)
    BY <1>1
  <2>6. (gSpent'[g] + gTwice'[g]) + (gPaid[g] + gMissed[g] + c) = (gSpent[g] + gTwice[g]) + (gPaid'[g] + gMissed'[g] + c)
    BY <1>1, <1>2, <2>2, <2>3
  <2> HIDE DEF pc
  <2> QED
    BY <1>1, <1>2, <1>3, <2>2, <2>3, <2>4, <2>5, <2>6 DEF MediaStep, MediaGoesOn, MediaOthers, MediaRowsTyped, MediaTyped
<1> QED
  BY <1>4, <1>5, <1>6, <1>7, <1>8

\* The transaction that marks the success, whose answer may be lost.
LEMMA MediaCommitSteps ==
  ASSUME MediaTyped, OwnNumber, HandsEmpty, FilesWritten, NEW w \in Workers, NEW g, g = gWorker[w].gen,
         Generation!Succeed(w) \/ Generation!SucceedFails(w)
  PROVE  MediaStep(w, g) /\ gJob' \in [Generations -> MediaJobs] /\ MediaRowsTyped
<1> DEFINE c == gWorker[w].cost
           n == gWorker[w].num
<1>1. gWorker[w].pc = "commit"
  BY DEF Generation!Succeed, Generation!SucceedFails, Generation!At
<1>2. /\ g \in Generations /\ c \in Nat /\ n \in Nat
      /\ gSpent[g] \in Nat /\ gTwice[g] \in Nat /\ gPaid[g] \in Nat /\ gMissed[g] \in Nat
      /\ gJob \in [Generations -> MediaJobs] /\ gMedia \in [Generations -> Nat]
      /\ gStatus \in [Generations -> Generation!GenerationStatus \cup {"unused"}]
      /\ gTwice \in [Generations -> Nat] /\ gPaid \in [Generations -> Nat] /\ gMissed \in [Generations -> Nat]
  BY <1>1 DEF OwnNumber, MediaTyped, MediaWorkers
<1>3. UNCHANGED <<gOverwritten, gSerial, gSpent>>
  BY DEF Generation!Succeed, Generation!SucceedFails
<1>4. ASSUME Generation!Removed(w)
      PROVE  \A f \in gObjects : f # <<g, n>> => f \in gObjects'
  BY <1>4 DEF Generation!Removed
<1>5. ASSUME Generation!WriteSuccess(w)
      PROVE  /\ gStatus'[g] = "succeeded" /\ gMedia'[g] = n /\ gLibrary' = gLibrary \cup {<<g, n>>}
             /\ gPaid'[g] = gPaid[g] + c
             /\ \A q \in Generations \ {g} : gStatus'[q] = gStatus[q] /\ gMedia'[q] = gMedia[q] /\ gPaid'[q] = gPaid[q]
             /\ gStatus' \in [Generations -> Generation!GenerationStatus \cup {"unused"}]
             /\ gMedia' \in [Generations -> Nat] /\ gPaid' \in [Generations -> Nat]
  <2>1. /\ gStatus' = [gStatus EXCEPT ![g] = "succeeded"] /\ gMedia' = [gMedia EXCEPT ![g] = n]
        /\ gPaid' = Generation!Plus(gPaid, g, c) /\ gLibrary' = gLibrary \cup {<<g, n>>}
    BY <1>5 DEF Generation!WriteSuccess
  <2>2. /\ gPaid' \in [Generations -> Nat] /\ gPaid'[g] = gPaid[g] + c
        /\ \A q \in Generations \ {g} : gPaid'[q] = gPaid[q]
    BY <1>2, <2>1 DEF Generation!Plus
  <2>3. "succeeded" \in Generation!GenerationStatus
    BY DEF Generation!GenerationStatus
  <2> HIDE DEF n, c
  <2> QED
    BY <1>2, <2>1, <2>2, <2>3
<1>6. CASE Generation!Succeed(w)
  <2>1. /\ MediaFreed(w) /\ gJob' \in [Generations -> MediaJobs] /\ UNCHANGED <<gTwice, gUnsure>>
    BY <1>6, MediaJobEnds DEF Generation!Succeed
  <2>2. CASE gStatus[g] # "succeeded"
    <3>1. Generation!WriteSuccess(w) /\ UNCHANGED <<gObjects, gMissed>>
      BY <1>6, <2>2 DEF Generation!Succeed
    <3>2. (gSpent'[g] + gTwice'[g]) + (gPaid[g] + gMissed[g] + c) = (gSpent[g] + gTwice[g]) + (gPaid'[g] + gMissed'[g] + 0)
      BY <1>2, <1>3, <1>5, <2>1, <3>1
    <3>3. MediaCommits(w, g)
      BY <1>1, <1>5, <2>1, <2>2, <3>1 DEF MediaCommits, MediaFreed
    <3> QED
      BY <1>1, <1>2, <1>3, <1>5, <2>1, <3>1, <3>2, <3>3 DEF MediaStep, MediaFreed, MediaOthers, MediaRowsTyped, MediaTyped
  <2>3. CASE gStatus[g] = "succeeded"
    <3>1. Generation!Removed(w) /\ gMissed' = Generation!Plus(gMissed, g, c) /\ UNCHANGED <<gStatus, gMedia, gPaid, gLibrary>>
      BY <1>6, <2>3 DEF Generation!Succeed
    <3>2. /\ gMissed' \in [Generations -> Nat] /\ gMissed'[g] = gMissed[g] + c
          /\ \A q \in Generations \ {g} : gMissed'[q] = gMissed[q]
      BY <1>2, <3>1 DEF Generation!Plus
    <3>3. (gSpent'[g] + gTwice'[g]) + (gPaid[g] + gMissed[g] + c) = (gSpent[g] + gTwice[g]) + (gPaid'[g] + gMissed'[g] + 0)
      BY <1>2, <1>3, <2>1, <3>1, <3>2
    <3>4. MediaSame(w, g)
      BY <1>4, <2>1, <3>1 DEF MediaSame
    <3> QED
      BY <1>1, <1>2, <1>3, <2>1, <3>1, <3>2, <3>3, <3>4 DEF MediaStep, MediaFreed, MediaOthers, MediaRowsTyped, MediaTyped
  <2> QED
    BY <2>2, <2>3
<1>7. CASE Generation!SucceedFails(w)
  <2> DEFINE pc == IF gWorker[w].cost > 0 THEN "bill" ELSE "fail"
  <2>1. MediaGoesOn(w, pc, c) /\ Generation!Removed(w) /\ UNCHANGED <<gJob, gMissed>>
    BY <1>7, MediaFails DEF Generation!SucceedFails
  <2>2. pc \notin {"idle", "commit", "claim"} /\ (pc = "fail" => c = 0)
    BY <1>2
  <2>3. /\ MediaLeft(w) /\ gWorker'[w].gen = g /\ gWorker'[w].num = n /\ gWorker'[w].cost = c
        /\ gWorker'[w].pc \notin {"idle", "commit", "claim"} /\ (gWorker'[w].pc = "fail" => c = 0)
    BY <2>1, <2>2 DEF MediaGoesOn
  <2>4. CASE UNCHANGED <<gStatus, gMedia, gPaid, gLibrary, gTwice, gUnsure>>
    <3>1. MediaSame(w, g)
      BY <1>4, <2>1, <2>4 DEF MediaSame
    <3>2. (gSpent'[g] + gTwice'[g]) + (gPaid[g] + gMissed[g] + c) = (gSpent[g] + gTwice[g]) + (gPaid'[g] + gMissed'[g] + c)
      BY <1>2, <1>3, <2>1, <2>4
    <3> HIDE DEF n, c
    <3> QED
      BY <1>1, <1>2, <1>3, <2>1, <2>3, <2>4, <3>1, <3>2 DEF MediaStep, MediaOthers, MediaRowsTyped, MediaTyped, n, c
  <2>5. CASE /\ gStatus[g] # "succeeded" /\ Generation!WriteSuccess(w)
             /\ gTwice' = Generation!Plus(gTwice, g, c) /\ gUnsure' = gUnsure \cup {g}
    <3>1. /\ gTwice' \in [Generations -> Nat] /\ gTwice'[g] = gTwice[g] + c
          /\ \A q \in Generations \ {g} : gTwice'[q] = gTwice[q]
      BY <1>2, <2>5 DEF Generation!Plus
    <3>2. (gSpent'[g] + gTwice'[g]) + (gPaid[g] + gMissed[g] + c) = (gSpent[g] + gTwice[g]) + (gPaid'[g] + gMissed'[g] + c)
      BY <1>2, <1>3, <1>5, <2>1, <2>5, <3>1
    <3>3. MediaCommits(w, g)
      BY <1>1, <1>4, <1>5, <2>1, <2>5 DEF MediaCommits
    <3> QED
      BY <1>1, <1>2, <1>3, <1>5, <2>1, <2>3, <2>5, <3>1, <3>2, <3>3 DEF MediaStep, MediaOthers, MediaRowsTyped, MediaTyped
  <2> QED
    BY <1>7, <2>4, <2>5 DEF Generation!SucceedFails
<1> QED
  BY <1>6, <1>7

\* A step that leaves what the workers do, and what they do it at.
MediaHands ==
  /\ \A w \in Workers : /\ gWorker'[w].pc = gWorker[w].pc /\ gWorker'[w].gen = gWorker[w].gen
                        /\ gWorker'[w].num = gWorker[w].num /\ gWorker'[w].cost = gWorker[w].cost
MediaRows ==
  /\ UNCHANGED <<gMedia, gPaid, gLibrary, gUnsure, gObjects, gSerial, gSpent, gMissed, gTwice>>
  /\ gOverwritten \subseteq gOverwritten'
  /\ \A g \in Generations \ gOverwritten' : gStatus'[g] = "succeeded" <=> gStatus[g] = "succeeded"

LEMMA MediaRowsKeep ==
  ASSUME MediaInv, MediaTyped', MediaHands, MediaRows
  PROVE  MediaInv'
<1> USE DEF MediaInv
<1>1. \A g : Costs(g)' = Costs(g)
  <2> SUFFICES ASSUME NEW g PROVE Costs(g)' = Costs(g)
    OBVIOUS
  <2>1. \A w \in Workers : (IF gWorker'[w].gen = g THEN gWorker'[w].cost ELSE 0)
                           = (IF gWorker[w].gen = g THEN gWorker[w].cost ELSE 0)
    BY DEF MediaHands
  <2> QED
    BY <2>1 DEF Costs
<1>2. CostsAddUp'
  BY <1>1 DEF CostsAddUp, MediaRows
<1>3. OwnNumber' /\ HandsEmpty' /\ FilesWritten' /\ NotTold'
  BY DEF OwnNumber, HandsEmpty, FilesWritten, NotTold, MediaHands, MediaRows
<1>4. MediaNumbered' /\ OneFile'
  BY DEF MediaNumbered, OneFile, MediaRows
<1> QED
  BY <1>2, <1>3, <1>4

\* The API, the queue and the sweep.
LEMMA MediaRowSteps ==
  ASSUME MediaInv,
         \/ Generation!Start \/ Generation!Enqueue \/ Generation!EnqueueFails \/ Generation!EnqueueFailed
         \/ Generation!RecoverStalled \/ Generation!RedisLoss \/ Generation!RecoverStuck \/ Generation!RecoverEarly
         \/ UNCHANGED Generation!gvars
  PROVE  MediaInv'
<1>0. MediaTyped
  BY DEF MediaInv
<1>1. UNCHANGED <<gMedia, gPaid, gLibrary, gUnsure, gObjects, gSerial, gSpent, gMissed, gTwice>>
  BY DEF Generation!Start, Generation!Enqueue, Generation!EnqueueFails, Generation!EnqueueFailed, Generation!RecoverStalled, Generation!RedisLoss,
     Generation!RecoverStuck, Generation!RecoverEarly, Generation!Swept, Generation!gvars, Generation!rows, Generation!history
<1>2. CASE Generation!RedisLoss
  <2>1. /\ gJob' = [g \in Generations |-> [st |-> "none", made |-> 0]] /\ UNCHANGED <<gStatus, gOverwritten>>
        /\ gWorker' = [w \in Workers |-> [gWorker[w] EXCEPT !.held = FALSE]]
    BY <1>2 DEF Generation!RedisLoss, Generation!rows, Generation!history
  <2>2. ASSUME NEW w \in Workers
        PROVE  /\ gWorker'[w] \in MediaWorkers
               /\ gWorker'[w].pc = gWorker[w].pc /\ gWorker'[w].gen = gWorker[w].gen
               /\ gWorker'[w].num = gWorker[w].num /\ gWorker'[w].cost = gWorker[w].cost
    <3>1. gWorker'[w] = [gWorker[w] EXCEPT !.held = FALSE] /\ gWorker[w] \in MediaWorkers /\ FALSE \in Flags
      BY <1>0, <2>1 DEF MediaTyped, Flags
    <3> QED
      BY <3>1 DEF MediaWorkers
  <2>3. gWorker' \in [Workers -> MediaWorkers] /\ gJob' \in [Generations -> MediaJobs]
    <3>1. [st |-> "none", made |-> 0] \in MediaJobs
      BY DEF MediaJobs
    <3> QED
      BY <2>1, <2>2, <3>1
  <2>4. MediaTyped'
    BY <1>0, <1>1, <2>1, <2>3 DEF MediaTyped
  <2> QED
    BY <1>1, <2>1, <2>2, <2>4, MediaRowsKeep DEF MediaRows, MediaHands
<1>3. CASE ~ Generation!RedisLoss
  <2>1. gWorker' = gWorker
    BY <1>3 DEF Generation!Start, Generation!Enqueue, Generation!EnqueueFails, Generation!EnqueueFailed, Generation!RecoverStalled,
       Generation!RecoverStuck, Generation!RecoverEarly, Generation!Swept, Generation!gvars
  <2>2. \/ gJob' = gJob
        \/ \E g \in Generations, st \in {"waiting", "finished"} : gJob' = [gJob EXCEPT ![g].st = st]
    <3>1. "waiting" \in {"waiting", "finished"}
      OBVIOUS
    <3>2. CASE Generation!Enqueue \/ Generation!EnqueueFails
      BY <3>1, <3>2 DEF Generation!Enqueue, Generation!EnqueueFails
    <3>3. CASE Generation!RecoverStalled
      BY <3>3 DEF Generation!RecoverStalled
    <3>4. CASE ~ (Generation!Enqueue \/ Generation!EnqueueFails \/ Generation!RecoverStalled)
      BY <1>3, <3>4 DEF Generation!Start, Generation!EnqueueFailed, Generation!RecoverStuck, Generation!RecoverEarly, Generation!Swept, Generation!gvars
    <3> QED
      BY <3>2, <3>3, <3>4
  <2>3. gJob' \in [Generations -> MediaJobs]
    <3>1. CASE gJob' = gJob
      BY <1>0, <3>1 DEF MediaTyped
    <3>2. ASSUME NEW g \in Generations, NEW st \in {"waiting", "finished"}, gJob' = [gJob EXCEPT ![g].st = st]
          PROVE  gJob' \in [Generations -> MediaJobs]
      <4>1. [gJob[g] EXCEPT !.st = st] \in MediaJobs
        BY <1>0 DEF MediaTyped, MediaJobs
      <4> QED
        BY <1>0, <3>2, <4>1 DEF MediaTyped
    <3> QED
      BY <2>2, <3>1, <3>2
  <2>4. \/ gStatus' = gStatus /\ gOverwritten' = gOverwritten
        \/ /\ gOverwritten' = gOverwritten
           /\ \E g \in Generations, st \in {"pending", "failed"} :
                gStatus[g] # "succeeded" /\ gStatus' = [gStatus EXCEPT ![g] = st]
        \/ \E g \in Generations :
             /\ gStatus' = [gStatus EXCEPT ![g] = "failed"]
             /\ gOverwritten' = IF gStatus[g] = "succeeded" THEN gOverwritten \cup {g} ELSE gOverwritten
    <3>1. CASE Generation!Start
      BY <3>1 DEF Generation!Start, Generation!history
    <3>2. CASE Generation!RecoverStuck \/ Generation!RecoverEarly
      BY <3>2 DEF Generation!RecoverStuck, Generation!RecoverEarly, Generation!Swept, Generation!history, Generation!Active
    <3>3. CASE Generation!EnqueueFailed
      BY <3>3 DEF Generation!EnqueueFailed
    <3>4. CASE Generation!Enqueue \/ Generation!EnqueueFails \/ Generation!RecoverStalled \/ UNCHANGED Generation!gvars
      BY <3>4 DEF Generation!Enqueue, Generation!EnqueueFails, Generation!RecoverStalled, Generation!gvars, Generation!rows, Generation!history
    <3> QED
      BY <1>3, <3>1, <3>2, <3>3, <3>4
  <2>5. /\ gStatus' \in [Generations -> Generation!GenerationStatus \cup {"unused"}]
        /\ gOverwritten \subseteq gOverwritten'
        /\ \A g \in Generations \ gOverwritten' : gStatus'[g] = "succeeded" <=> gStatus[g] = "succeeded"
    <3>1. {"pending", "failed"} \subseteq Generation!GenerationStatus
      BY DEF Generation!GenerationStatus
    <3> QED
      BY <1>0, <2>4, <3>1 DEF MediaTyped
  <2>6. MediaTyped'
    BY <1>0, <1>1, <2>1, <2>3, <2>5 DEF MediaTyped
  <2> QED
    BY <1>1, <2>1, <2>5, <2>6, MediaRowsKeep DEF MediaRows, MediaHands
<1> QED
  BY <1>2, <1>3

\* A worker takes a job: its attempt's number is new.
LEMMA MediaTakes ==
  ASSUME MediaInv, NEW w \in Workers, Generation!Take(w)
  PROVE  MediaInv'
<1> USE DEF MediaInv
<1>1. /\ UNCHANGED <<gStatus, gPaid, gMedia, gLibrary, gObjects, gSpent, gMissed, gTwice, gUnsure, gOverwritten>>
      /\ gWorker[w].pc = "idle" /\ gWorker[w].cost = 0
  BY DEF Generation!Take, Generation!rows, Generation!history, Generation!At, HandsEmpty
<1>2. PICK g \in Generations :
        /\ gJob' = [gJob EXCEPT ![g].st = "active"] /\ gSerial' = Generation!Plus(gSerial, g, 1)
        /\ gWorker' = [gWorker EXCEPT ![w] = [Generation!Idle EXCEPT !.pc = "claim", !.gen = g, !.num = gSerial[g] + 1,
                                                              !.made = gJob[g].made, !.held = TRUE]]
  BY DEF Generation!Take
<1> DEFINE n == gSerial[g] + 1
           x == [Generation!Idle EXCEPT !.pc = "claim", !.gen = g, !.num = n, !.made = gJob[g].made, !.held = TRUE]
<1>3. /\ n \in Nat /\ gSerial[g] \in Nat /\ gJob[g].made \in Nat /\ [gJob[g] EXCEPT !.st = "active"] \in MediaJobs
      /\ TRUE \in Flags /\ "claim" \in MediaStages
  BY DEF MediaTyped, MediaJobs, Flags, MediaStages
<1>4. /\ gJob' \in [Generations -> MediaJobs]
      /\ gSerial' \in [Generations -> Nat] /\ gSerial'[g] = n
      /\ \A q \in Generations \ {g} : gSerial'[q] = gSerial[q]
  BY <1>2, <1>3 DEF Generation!Plus, MediaTyped
<1>5. x \in MediaWorkers /\ x.pc = "claim" /\ x.gen = g /\ x.num = n /\ x.cost = 0
  BY <1>3, IdleMedia DEF MediaWorkers
<1>6. /\ gWorker' \in [Workers -> MediaWorkers] /\ gWorker'[w] = x
      /\ \A v \in Workers \ {w} : gWorker'[v] = gWorker[v]
  <2> HIDE DEF x
  <2> QED
    BY <1>2, <1>5 DEF MediaTyped, x
<1> HIDE DEF x, n
<1>7. MediaTyped'
  BY <1>1, <1>4, <1>6 DEF MediaTyped
<1>8. \A q \in Generations : gSerial[q] \in Nat /\ gSerial'[q] \in Nat /\ gSerial[q] <= gSerial'[q]
  <2>1. n = gSerial[g] + 1
    BY DEF n
  <2> QED
    BY <1>3, <1>4, <2>1 DEF MediaTyped
<1>9. \A v \in Workers \ {w} : gWorker[v].pc # "idle" /\ gWorker[v].gen = g => gWorker[v].num # n
  BY <1>3 DEF OwnNumber, n
<1>10. OwnNumber'
  <2> SUFFICES ASSUME NEW v \in Workers, gWorker'[v].pc # "idle"
               PROVE  /\ gWorker'[v].gen \in Generations /\ gWorker'[v].num \in 1..gSerial'[gWorker'[v].gen]
                      /\ \A u \in Workers \ {v} :
                           gWorker'[u].pc # "idle" /\ gWorker'[u].gen = gWorker'[v].gen => gWorker'[u].num # gWorker'[v].num
    BY DEF OwnNumber
  <2>1. CASE v = w
    <3>1. n \in 1..n
      BY <1>3 DEF n
    <3> QED
      BY <1>4, <1>5, <1>6, <1>9, <2>1, <3>1
  <2>2. CASE v # w
    <3>1. /\ gWorker'[v] = gWorker[v] /\ gWorker[v].gen \in Generations /\ gWorker[v].num \in 1..gSerial[gWorker[v].gen]
          /\ \A u \in Workers \ {v} :
               gWorker[u].pc # "idle" /\ gWorker[u].gen = gWorker[v].gen => gWorker[u].num # gWorker[v].num
      BY <1>6, <2>2 DEF OwnNumber
    <3>2. gWorker[v].num \in 1..gSerial'[gWorker[v].gen]
      BY <1>8, <3>1
    <3> QED
      BY <1>5, <1>6, <1>9, <2>2, <3>1, <3>2
  <2> QED
    BY <2>1, <2>2
<1>11. HandsEmpty' /\ FilesWritten'
  BY <1>1, <1>5, <1>6 DEF HandsEmpty, FilesWritten
<1>12. MediaNumbered'
  BY <1>1, <1>8 DEF MediaNumbered, MediaTyped
<1>13. OneFile'
  BY <1>1 DEF OneFile
<1>14. NotTold'
  <2>1. gMedia[g] # n
    BY <1>3 DEF MediaNumbered, MediaTyped, n
  <2> QED
    BY <1>1, <1>5, <1>6, <2>1 DEF NotTold
<1>15. CostsAddUp'
  <2>1. \A q : Costs(q)' = Costs(q)
    <3> SUFFICES ASSUME NEW q PROVE Costs(q)' = Costs(q)
      OBVIOUS
    <3>1. \A v \in Workers : (IF gWorker'[v].gen = q THEN gWorker'[v].cost ELSE 0)
                             = (IF gWorker[v].gen = q THEN gWorker[v].cost ELSE 0)
      BY <1>1, <1>5, <1>6
    <3> QED
      BY <3>1 DEF Costs
  <2> QED
    BY <1>1, <2>1 DEF CostsAddUp
<1> QED
  BY <1>7, <1>10, <1>11, <1>12, <1>13, <1>14, <1>15

\* Every other step is of a worker that is at a generation, or of an idle worker and does nothing.
LEMMA MediaWorkerSteps ==
  ASSUME Generation!GenerationBounds, MediaInv, NEW w \in Workers, MediaAct(w)
  PROVE  MediaInv'
<1> USE DEF MediaInv
<1>1. CASE Generation!Take(w)
  BY <1>1, MediaTakes
<1>2. CASE gWorker[w].pc # "idle" /\ ~ Generation!Take(w)
  <2> DEFINE g == gWorker[w].gen
  <2>1. g \in Generations
    BY <1>2 DEF OwnNumber
  <2>2. CASE \/ Generation!Claim(w) \/ Generation!Produced(w) \/ Generation!UploadFails(w)
             \/ Generation!HandleFailure(w) \/ Generation!ProcessFails(w) \/ Generation!LockLost(w)
    <3>1. MediaStep(w, g) /\ gJob' \in [Generations -> MediaJobs]
      BY <1>2, <2>2, MediaQuietSteps
    <3>2. /\ UNCHANGED <<gMedia, gPaid, gSerial, gSpent, gMissed, gTwice>>
          /\ \/ gStatus' = gStatus
             \/ \E st \in {"running", "failed"} : gStatus' = [gStatus EXCEPT ![g] = st]
      BY <2>2 DEF Generation!Claim, Generation!Produced, Generation!UploadFails, Generation!HandleFailure,
         Generation!ProcessFails, Generation!LockLost, Generation!rows, Generation!history
    <3>3. gStatus' \in [Generations -> Generation!GenerationStatus \cup {"unused"}]
      <4>1. {"running", "failed"} \subseteq Generation!GenerationStatus
        BY DEF Generation!GenerationStatus
      <4> QED
        BY <3>2, <4>1 DEF MediaTyped
    <3>4. MediaTyped'
      BY <3>1, <3>2, <3>3 DEF MediaTyped, MediaStep, MediaLeft
    <3> QED
      BY <1>2, <2>1, <3>1, <3>4, MediaStepKeeps, CostsStep
  <2>3. CASE \/ Generation!AskProvider(w) \/ Generation!ProduceFails(w) \/ Generation!Upload(w) \/ Generation!Bill(w) \/ Generation!BillFails(w) \/ Generation!Crash(w)
             \/ Generation!Succeed(w) \/ Generation!SucceedFails(w)
    <3>1. MediaStep(w, g) /\ gJob' \in [Generations -> MediaJobs] /\ MediaRowsTyped
      BY <1>2, <2>3, MediaPaidSteps, MediaCommitSteps
    <3>2. MediaTyped'
      BY <3>1 DEF MediaTyped, MediaRowsTyped, MediaStep, MediaLeft
    <3> QED
      BY <1>2, <2>1, <3>1, <3>2, MediaStepKeeps, CostsStep
  <2> QED
    BY <1>2, <2>2, <2>3 DEF MediaAct, Generation!WorkerStep
<1>3. CASE gWorker[w].pc = "idle" /\ ~ Generation!Take(w)
  <2>1. Generation!LockLost(w)
    BY <1>3 DEF MediaAct, Generation!WorkerStep, Generation!Claim, Generation!AskProvider, Generation!Produced, Generation!ProduceFails, Generation!Upload,
       Generation!Succeed, Generation!Bill, Generation!HandleFailure, Generation!Crash, Generation!UploadFails, Generation!SucceedFails,
       Generation!BillFails, Generation!ProcessFails, Generation!At
  <2>2. /\ gWorker' = [gWorker EXCEPT ![w].held = FALSE] /\ UNCHANGED <<gStatus, gJob>> /\ MediaRows
    BY <2>1 DEF Generation!LockLost, Generation!rows, Generation!history, MediaRows
  <2>3. FALSE \in Flags /\ gWorker[w].pc \in MediaStages /\ 0 \in Nat
    BY DEF Flags, MediaTyped, MediaWorkers
  <2>4. MediaGoesOn(w, gWorker[w].pc, gWorker[w].cost)
    BY <2>2, <2>3, MediaRecord
  <2>5. MediaHands /\ gWorker' \in [Workers -> MediaWorkers]
    BY <2>4 DEF MediaGoesOn, MediaLeft, MediaHands
  <2>6. MediaTyped'
    BY <2>2, <2>5 DEF MediaTyped, MediaRows
  <2> QED
    BY <2>2, <2>5, <2>6, MediaRowsKeep
<1> QED
  BY <1>1, <1>2, <1>3

LEMMA MediaInvStep ==
  ASSUME Generation!GenerationBounds, MediaInv, [Generation!GenerationsNext]_Generation!gvars
  PROVE  MediaInv'
<1>1. CASE \E w \in Workers : MediaAct(w)
  BY <1>1, MediaWorkerSteps
<1>2. CASE ~ \E w \in Workers : MediaAct(w)
  BY <1>2, MediaRowSteps DEF Generation!GenerationsNext, MediaAct
<1> QED
  BY <1>1, <1>2

LEMMA MediaStart ==
  ASSUME Generation!GenerationBounds, Generation!GenerationsInit
  PROVE  MediaInv
<1>1. IsFiniteSet(Workers)
  BY DEF Generation!GenerationBounds, Generation!IsFiniteSet, IsFiniteSet
<1>2. /\ gStatus = [g \in Generations |-> "unused"] /\ gPaid = [g \in Generations |-> 0]
      /\ gMedia = [g \in Generations |-> 0] /\ gLibrary = {} /\ gWorker = [w \in Workers |-> Generation!Idle]
      /\ gJob = [g \in Generations |-> [st |-> "none", made |-> 0]] /\ gSerial = [g \in Generations |-> 0]
      /\ gSpent = [g \in Generations |-> 0] /\ gMissed = [g \in Generations |-> 0] /\ gTwice = [g \in Generations |-> 0]
  BY DEF Generation!GenerationsInit
<1>3. MediaTyped
  <2>1. [st |-> "none", made |-> 0] \in MediaJobs
    BY DEF MediaJobs
  <2> QED
    BY <1>2, <2>1, IdleMedia DEF MediaTyped
<1>4. OwnNumber /\ HandsEmpty /\ FilesWritten /\ NotTold
  BY <1>2, IdleMedia DEF OwnNumber, HandsEmpty, FilesWritten, NotTold
<1>5. MediaNumbered /\ OneFile
  BY <1>2 DEF MediaNumbered, OneFile
<1>6. CostsAddUp
  <2> SUFFICES ASSUME NEW g \in Generations
               PROVE  gSpent[g] + gTwice[g] = gPaid[g] + gMissed[g] + Total(Costs(g), Workers)
    BY DEF CostsAddUp
  <2>1. \A w \in Workers : Costs(g)[w] = 0
    BY <1>2, IdleMedia DEF Costs
  <2>2. Total(Costs(g), Workers) = 0
    BY <1>1, <2>1, TotalZero
  <2> QED
    BY <1>2, <2>2
<1> QED
  BY <1>3, <1>4, <1>5, <1>6 DEF MediaInv

LEMMA MediaAlways ==
  ASSUME Generation!GenerationBounds
  PROVE  Generation!GenerationsSpec => []MediaInv
<1>1. Generation!GenerationsInit => MediaInv
  BY MediaStart
<1>2. MediaInv /\ [Generation!GenerationsNext]_Generation!gvars => MediaInv'
  BY MediaInvStep
<1> QED
  BY <1>1, <1>2, PTL DEF Generation!GenerationsSpec

\* The sum of what the workers hold, as the module writes it, is the total.
LEMMA MediaSum ==
  ASSUME IsFiniteSet(Workers), NEW g
  PROVE  LET InHand(w) == IF gWorker[w].gen = g THEN gWorker[w].cost ELSE 0
         IN  Generation!MapThenSumSet(InHand, Workers) = Total(Costs(g), Workers)
<1> DEFINE InHand(w) == IF gWorker[w].gen = g THEN gWorker[w].cost ELSE 0
           Iterates(h) == h = [s \in SUBSET Workers |->
                                 IF s = {} THEN 0
                                 ELSE InHand(CHOOSE x \in s : TRUE) + h[s \ {CHOOSE x \in s : TRUE}]]
<1>1. Generation!MapThenSumSet(InHand, Workers) = (CHOOSE h : Iterates(h))[Workers]
  BY DEF Generation!MapThenSumSet, Generation!MapThenFoldSet
<1>2. ASSUME NEW h PROVE Iterates(h) <=> Adds(Costs(g), Workers, h)
  <2>1. [s \in SUBSET Workers |-> IF s = {} THEN 0
                                  ELSE InHand(CHOOSE x \in s : TRUE) + h[s \ {CHOOSE x \in s : TRUE}]]
        = [s \in SUBSET Workers |-> IF s = {} THEN 0 ELSE Costs(g)[FirstOf(s)] + h[s \ {FirstOf(s)}]]
    <3>1. ASSUME NEW s \in SUBSET Workers, s # {}
          PROVE  InHand(CHOOSE x \in s : TRUE) = Costs(g)[FirstOf(s)]
      <4>1. FirstOf(s) \in Workers
        BY <3>1, FirstIsIn
      <4> QED
        BY <4>1 DEF Costs, FirstOf
    <3> HIDE DEF InHand
    <3> QED
      BY <3>1 DEF FirstOf
  <2> QED
    BY <2>1 DEF Adds
<1>3. PICK h : Adds(Costs(g), Workers, h)
  BY SumExists
<1> HIDE DEF Iterates
<1>4. Iterates(CHOOSE f : Iterates(f))
  <2>1. Iterates(h)
    BY <1>2, <1>3
  <2> QED
    BY <2>1, Zenon
<1>5. Adds(Costs(g), Workers, CHOOSE f : Iterates(f))
  BY <1>2, <1>4
<1> QED
  BY <1>1, <1>5, TotalIs

\* Theorem: whatever an attempt paid its provider is on the generation's row, in a worker's hands, or
\* lost with a crash, a failed write or a discarded duplicate; and nothing else is (ai-media.ts).
THEOREM MediaLedgerAlways ==
  ASSUME Generation!GenerationBounds
  PROVE  Generation!GenerationsSpec => []Generation!Ledger
<1>1. MediaInv => Generation!Ledger
  <2> SUFFICES ASSUME MediaInv, NEW g \in Generations
               PROVE  LET InHand(w) == IF gWorker[w].gen = g THEN gWorker[w].cost ELSE 0
                      IN  gSpent[g] + gTwice[g] = gPaid[g] + gMissed[g] + Generation!MapThenSumSet(InHand, Workers)
    BY DEF Generation!Ledger
  <2>1. IsFiniteSet(Workers)
    BY DEF Generation!GenerationBounds, Generation!IsFiniteSet, IsFiniteSet
  <2>2. LET InHand(w) == IF gWorker[w].gen = g THEN gWorker[w].cost ELSE 0
        IN  Generation!MapThenSumSet(InHand, Workers) = Total(Costs(g), Workers)
    BY <2>1, MediaSum
  <2>3. gSpent[g] + gTwice[g] = gPaid[g] + gMissed[g] + Total(Costs(g), Workers)
    BY DEF MediaInv, CostsAddUp
  <2> QED
    BY <2>2, <2>3
<1> QED
  BY <1>1, MediaAlways, PTL

\* Theorem: however often a generation is delivered, timed out or retried, its media are in the
\* library once, with their files, if and only if it succeeded (ai-media.ts, succeed).
THEOREM OneResultAlways ==
  ASSUME Generation!GenerationBounds
  PROVE  Generation!GenerationsSpec => []Generation!OneResult
<1>1. MediaInv => Generation!OneResult
  <2> SUFFICES ASSUME MediaInv, NEW g \in Generations \ gOverwritten
               PROVE  /\ {n \in 1..gSerial[g] : <<g, n>> \in gLibrary} = {gMedia[g]} \ {0}
                      /\ gStatus[g] = "succeeded" <=> gMedia[g] # 0
                      /\ gMedia[g] # 0 /\ g \notin gUnsure => <<g, gMedia[g]>> \in gObjects
    BY DEF Generation!OneResult
  <2>1. /\ \A n : <<g, n>> \in gLibrary <=> n = gMedia[g] /\ n # 0
        /\ gStatus[g] = "succeeded" <=> gMedia[g] # 0
        /\ gMedia[g] # 0 /\ g \notin gUnsure => <<g, gMedia[g]>> \in gObjects
    BY DEF MediaInv, OneFile
  <2>2. \A n : <<g, n>> \in gLibrary => n \in 1..gSerial[g]
    BY DEF MediaInv, MediaNumbered
  <2>3. {n \in 1..gSerial[g] : <<g, n>> \in gLibrary} = {gMedia[g]} \ {0}
    BY <2>1, <2>2
  <2> QED
    BY <2>1, <2>3
<1> QED
  BY <1>1, MediaAlways, PTL

-----------------------------------------------------------------------------
(* The saved searches *)

CONSTANTS Queries, Searchable, Callers, Listeners, MaxActive, MaxText, MaxClock, ListeningMoves
VARIABLES lClock, query, lCall, lRun, lLeft, heard, excused, slipped, blurred

Searches == INSTANCE Listening WITH
  Calls <- Callers, Workers <- Listeners, MaxMoves <- ListeningMoves,
  clock <- lClock, call <- lCall, run <- lRun, left <- lLeft

Times == 0..MaxClock + 1
SearchRows ==
  [st : {"none", "row", "deleted"}, active : BOOLEAN, text : 0..MaxText, providers : SUBSET Searchable,
   last : Times]
SearchCalls ==
  [pc : {"idle", "write"}, query : SearchRows, id : Queries \cup {0}, active : BOOLEAN,
   text : 0..MaxText, providers : SUBSET Searchable]
SearchRuns ==
  [pc : {"idle", "search"}, id : Queries \cup {0}, text : 0..MaxText, since : 0..MaxClock,
   started : 0..MaxClock, todo : SUBSET Searchable]
SearchesTyped ==
  /\ lClock \in 0..MaxClock /\ lLeft \in 0..ListeningMoves
  /\ query \in [Queries -> SearchRows]
  /\ lCall \in [Callers -> SearchCalls]
  /\ lRun \in [Listeners -> SearchRuns]
  /\ slipped \subseteq Queries /\ blurred \subseteq Queries

\* A request that writes and a run that searches are of a row that was there.
OfRows ==
  /\ \A c \in Callers : lCall[c].pc = "write" => lCall[c].id \in Queries
  /\ \A w \in Listeners : lRun[w].pc = "search" =>
       lRun[w].id \in Queries /\ query[lRun[w].id].st # "none"
\* A run takes a period at most.
RunsShort ==
  \A w \in Listeners : lRun[w].pc = "search" => lRun[w].started <= lClock /\ lClock <= lRun[w].started + 1

\* What platform p had of a text before a time is among what was met: stored, or left out with a reason.
Met == heard \cup excused
Covered(met, p, text, before) ==
  \A t \in 0..MaxClock : t < before => <<p, text, t>> \in met
WindowsMeet ==
  \A q \in Queries \ blurred : Searches!Exists(q) /\ query[q].last # Searches!Never =>
    \A p \in query[q].providers : Covered(Met, p, query[q].text, Searches!Since(query[q].last))
\* A run searches the row's text on the row's platforms; before its window all is covered, and
\* where it has searched, up to its start.
RunsSearch ==
  \A w \in Listeners :
    LET r == lRun[w]
        q == lRun[w].id
    IN r.pc = "search" /\ q \notin blurred /\ query[q].st = "row" =>
         /\ r.text = query[q].text
         /\ \A p \in query[q].providers :
              Covered(Met, p, r.text, r.since) /\ (p \notin r.todo => Covered(Met, p, r.text, r.started))

SlippedAreActive == slipped \subseteq Searches!Active({})
WithinLimit == Cardinality(Searches!Active({}) \ slipped) <= MaxActive

SearchesInv ==
  /\ SearchesTyped /\ OfRows /\ RunsShort /\ WindowsMeet /\ RunsSearch /\ SlippedAreActive /\ WithinLimit

LEMMA NoSearches ==
  ASSUME Searches!ListeningParameters
  PROVE  /\ Searches!NoRow \in SearchRows /\ Searches!NoCall \in SearchCalls
         /\ Searches!NoRun \in SearchRuns
         /\ 0 \in Times /\ Searches!Never \in Times /\ 0..MaxClock \subseteq Times
<1>1. MaxClock \in Nat /\ MaxText \in Nat
  BY DEF Searches!ListeningParameters
<1>2. Searches!NoRow \in SearchRows
  BY <1>1 DEF Searches!NoRow, SearchRows, Times, Searches!Never
<1>3. Searches!NoCall \in SearchCalls
  BY <1>1, <1>2 DEF Searches!NoCall, SearchCalls
<1>4. Searches!NoRun \in SearchRuns
  BY <1>1 DEF Searches!NoRun, SearchRuns
<1> QED
  BY <1>1, <1>2, <1>3, <1>4 DEF Times, Searches!Never

LEMMA SinceTime ==
  ASSUME Searches!ListeningParameters, NEW last \in Times
  PROVE  /\ Searches!Since(last) \in 0..MaxClock
         /\ last # Searches!Never => Searches!Since(last) <= last
         /\ last # Searches!Never /\ last # 0 => Searches!Since(last) = last - 1
         /\ last = Searches!Never \/ last = 0 => Searches!Since(last) = 0
BY DEF Searches!ListeningParameters, Searches!Since, Searches!Never, Times

\* How the rows, the requests and the runs change.
LEMMA QueriesTyped ==
  ASSUME Searches!ListeningParameters, SearchesTyped, OfRows,
         [Searches!ListeningNext]_Searches!lvars
  PROVE  query' \in [Queries -> SearchRows]
<1>1. ASSUME NEW q \in Queries, NEW to \in SearchRows, query' = [query EXCEPT ![q] = to]
      PROVE  query' \in [Queries -> SearchRows]
  BY <1>1 DEF SearchesTyped
<1>2. CASE UNCHANGED query
  BY <1>2 DEF SearchesTyped
<1>3. ASSUME NEW q \in Queries, Searches!CreateQuery(q)
      PROVE  query' \in [Queries -> SearchRows]
  <2>1. PICK p \in (SUBSET Searchable) \ {{}} :
          query' = [query EXCEPT ![q] = [st |-> "row", active |-> TRUE, text |-> 1, providers |-> p,
                                         last |-> Searches!Never]]
    BY <1>3 DEF Searches!CreateQuery
  <2>2. [st |-> "row", active |-> TRUE, text |-> 1, providers |-> p, last |-> Searches!Never] \in SearchRows
    BY NoSearches DEF SearchRows, Searches!ListeningParameters
  <2> QED
    BY <1>1, <2>1, <2>2
<1>4. ASSUME NEW q \in Queries, Searches!DeleteQuery(q)
      PROVE  query' \in [Queries -> SearchRows]
  <2>1. [Searches!NoRow EXCEPT !.st = "deleted"] \in SearchRows
    BY NoSearches DEF SearchRows
  <2> QED
    BY <1>1, <1>4, <2>1 DEF Searches!DeleteQuery
<1>5. ASSUME NEW c \in Callers, Searches!UpdateWrite(c)
      PROVE  query' \in [Queries -> SearchRows]
  <2> DEFINE v == lCall[c]
             to == [st |-> "row", active |-> v.active, text |-> v.text, providers |-> v.providers,
                    last |-> Searches!LastRun(v, query[v.id])]
  <2>1. v.id \in Queries
    BY <1>5 DEF Searches!UpdateWrite, OfRows
  <2>2. v \in SearchCalls /\ query[v.id] \in SearchRows
    BY <2>1 DEF SearchesTyped
  <2>3. Searches!LastRun(v, query[v.id]) \in Times
    BY <2>2, NoSearches DEF Searches!LastRun, SearchRows
  <2>4. to \in SearchRows
    BY <2>2, <2>3 DEF SearchRows, SearchCalls
  <2>5. UNCHANGED query \/ query' = [query EXCEPT ![v.id] = to]
    BY <1>5 DEF Searches!UpdateWrite
  <2> QED
    BY <1>1, <1>2, <2>1, <2>4, <2>5
<1>6. ASSUME NEW w \in Listeners, Searches!Finish(w)
      PROVE  query' \in [Queries -> SearchRows]
  <2>1. UNCHANGED query \/ query' = [query EXCEPT ![lRun[w].id].last = lClock]
    BY <1>6 DEF Searches!Finish
  <2>2. lRun[w].id \in Queries /\ lClock \in Times
    BY <1>6, NoSearches DEF Searches!Finish, OfRows, SearchesTyped
  <2>3. ASSUME query' = [query EXCEPT ![lRun[w].id].last = lClock]
        PROVE  query' \in [Queries -> SearchRows]
    BY <2>2, <2>3 DEF SearchesTyped, SearchRows
  <2> QED
    BY <1>2, <2>1, <2>3
<1>7. ASSUME \/ Searches!Tick \/ UNCHANGED Searches!lvars
             \/ \E c \in Callers, q \in Queries : Searches!UpdateRead(c, q)
             \/ \E w \in Listeners :
                  \/ Searches!Stops(w) \/ \E q \in Queries : Searches!Start(w, q)
                  \/ \E p \in Searchable : Searches!Searched(w, p) \/ Searches!LeftOut(w, p)
      PROVE  UNCHANGED query
  BY <1>7 DEF Searches!Tick, Searches!lvars, Searches!UpdateRead, Searches!Stops, Searches!Start,
     Searches!Searched, Searches!LeftOut
<1> QED
  BY <1>2, <1>3, <1>4, <1>5, <1>6, <1>7 DEF Searches!ListeningNext

LEMMA CallsTyped ==
  ASSUME Searches!ListeningParameters, SearchesTyped, OfRows,
         [Searches!ListeningNext]_Searches!lvars
  PROVE  /\ lCall' \in [Callers -> SearchCalls]
         /\ \A c \in Callers : lCall'[c].pc = "write" => lCall'[c].id \in Queries
<1>1. ASSUME NEW c \in Callers, NEW to \in SearchCalls, lCall' = [lCall EXCEPT ![c] = to],
             to.pc = "write" => to.id \in Queries
      PROVE  /\ lCall' \in [Callers -> SearchCalls]
             /\ \A d \in Callers : lCall'[d].pc = "write" => lCall'[d].id \in Queries
  BY <1>1 DEF SearchesTyped, OfRows
<1>2. ASSUME NEW c \in Callers, NEW q \in Queries, Searches!UpdateRead(c, q)
      PROVE  /\ lCall' \in [Callers -> SearchCalls]
             /\ \A d \in Callers : lCall'[d].pc = "write" => lCall'[d].id \in Queries
  <2>1. PICK active \in BOOLEAN, text \in Searches!Texts, p \in (SUBSET Searchable) \ {{}} :
          lCall' = [lCall EXCEPT ![c] = [pc |-> "write", query |-> query[q], id |-> q,
                                       active |-> active, text |-> text, providers |-> p]]
    BY <1>2 DEF Searches!UpdateRead
  <2> DEFINE to == [pc |-> "write", query |-> query[q], id |-> q, active |-> active, text |-> text,
                    providers |-> p]
  <2>2. text \in 0..MaxText
    BY DEF Searches!Texts, Searches!ListeningParameters
  <2>3. to \in SearchCalls /\ to.id \in Queries
    BY <2>2 DEF SearchCalls, SearchesTyped
  <2>4. lCall' = [lCall EXCEPT ![c] = to]
    BY <2>1
  <2> HIDE DEF to
  <2> QED
    BY <1>1, <2>3, <2>4
<1>3. ASSUME NEW c \in Callers, Searches!UpdateWrite(c)
      PROVE  /\ lCall' \in [Callers -> SearchCalls]
             /\ \A d \in Callers : lCall'[d].pc = "write" => lCall'[d].id \in Queries
  <2>1. Searches!NoCall.pc # "write"
    BY DEF Searches!NoCall
  <2>2. lCall' = [lCall EXCEPT ![c] = Searches!NoCall]
    BY <1>3 DEF Searches!UpdateWrite
  <2> QED
    BY <1>1, <2>1, <2>2, NoSearches
<1>4. ASSUME \/ Searches!Tick \/ UNCHANGED Searches!lvars
             \/ \E q \in Queries : Searches!CreateQuery(q) \/ Searches!DeleteQuery(q)
             \/ \E w \in Listeners :
                  \/ Searches!Finish(w) \/ Searches!Stops(w) \/ \E q \in Queries : Searches!Start(w, q)
                  \/ \E p \in Searchable : Searches!Searched(w, p) \/ Searches!LeftOut(w, p)
      PROVE  UNCHANGED lCall
  BY <1>4 DEF Searches!Tick, Searches!lvars, Searches!CreateQuery, Searches!DeleteQuery, Searches!Finish,
     Searches!Stops, Searches!Start, Searches!Searched, Searches!LeftOut
<1>5. CASE UNCHANGED lCall
  BY <1>5 DEF SearchesTyped, OfRows
<1> QED
  BY <1>2, <1>3, <1>4, <1>5 DEF Searches!ListeningNext

\* Which run an action changes, and to what.
LEMMA RunOne ==
  ASSUME SearchesTyped, NEW w \in Listeners, NEW to, lRun' = [lRun EXCEPT ![w] = to]
  PROVE  /\ lRun'[w] = to
         /\ \A v \in Listeners \ {w} : lRun'[v] = lRun[v]
BY DEF SearchesTyped

LEMMA RunBegins ==
  ASSUME Searches!ListeningParameters, SearchesTyped, NEW w \in Listeners, NEW q \in Queries,
         Searches!Start(w, q)
  PROVE  /\ \A v \in Listeners \ {w} : lRun'[v] = lRun[v]
         /\ lRun'[w] \in SearchRuns
         /\ lRun'[w].pc = "search" /\ lRun'[w].id = q /\ lRun'[w].text = query[q].text
         /\ lRun'[w].started = lClock /\ lRun'[w].since = Searches!Since(query[q].last)
         /\ lRun'[w].todo = query[q].providers
<1> DEFINE to == [pc |-> "search", id |-> q, text |-> query[q].text, started |-> lClock,
                  since |-> Searches!Since(query[q].last), todo |-> query[q].providers]
<1>1. lRun' = [lRun EXCEPT ![w] = to]
  BY DEF Searches!Start
<1>2. query[q] \in SearchRows
  BY DEF SearchesTyped
<1>3. query[q].last \in Times /\ query[q].text \in 0..MaxText /\ query[q].providers \in SUBSET Searchable
  BY <1>2 DEF SearchRows
<1>4. Searches!Since(query[q].last) \in 0..MaxClock
  BY <1>3, SinceTime
<1>5. to \in SearchRuns
  BY <1>3, <1>4 DEF SearchRuns, SearchesTyped
<1>6. /\ to.pc = "search" /\ to.id = q /\ to.text = query[q].text
      /\ to.started = lClock /\ to.since = Searches!Since(query[q].last) /\ to.todo = query[q].providers
  OBVIOUS
<1> HIDE DEF to
<1>7. lRun'[w] = to /\ \A v \in Listeners \ {w} : lRun'[v] = lRun[v]
  BY <1>1, RunOne
<1> QED
  BY <1>5, <1>6, <1>7

LEMMA RunGoesOn ==
  ASSUME SearchesTyped, NEW w \in Listeners, NEW p \in Searchable,
         Searches!Searched(w, p) \/ Searches!LeftOut(w, p)
  PROVE  /\ \A v \in Listeners \ {w} : lRun'[v] = lRun[v]
         /\ lRun'[w] \in SearchRuns
         /\ lRun[w].pc = "search" /\ lRun'[w].pc = "search"
         /\ lRun'[w].id = lRun[w].id /\ lRun'[w].text = lRun[w].text
         /\ lRun'[w].started = lRun[w].started /\ lRun'[w].since = lRun[w].since
         /\ lRun'[w].todo = lRun[w].todo \ {p}
<1>1. lRun' = [lRun EXCEPT ![w].todo = @ \ {p}] /\ lRun[w].pc = "search"
  BY DEF Searches!Searched, Searches!LeftOut
<1> QED
  BY <1>1 DEF SearchesTyped, SearchRuns

LEMMA RunEnds ==
  ASSUME Searches!ListeningParameters, SearchesTyped, NEW w \in Listeners,
         Searches!Finish(w) \/ Searches!Stops(w)
  PROVE  /\ \A v \in Listeners \ {w} : lRun'[v] = lRun[v]
         /\ lRun'[w] \in SearchRuns /\ lRun'[w].pc = "idle"
<1>1. lRun' = [lRun EXCEPT ![w] = Searches!NoRun]
  BY DEF Searches!Finish, Searches!Stops
<1>2. lRun'[w] = Searches!NoRun /\ \A v \in Listeners \ {w} : lRun'[v] = lRun[v]
  BY <1>1, RunOne
<1>3. Searches!NoRun.pc = "idle"
  BY DEF Searches!NoRun
<1> QED
  BY <1>2, <1>3, NoSearches

\* A row that was there is there, or deleted.
LEMMA RowsStay ==
  ASSUME Searches!ListeningParameters, SearchesTyped, OfRows,
         [Searches!ListeningNext]_Searches!lvars
  PROVE  \A q \in Queries : query[q].st # "none" => query'[q].st # "none"
<1>1. ASSUME NEW q \in Queries, NEW to, query' = [query EXCEPT ![q] = to], to.st # "none"
      PROVE  \A r \in Queries : query[r].st # "none" => query'[r].st # "none"
  BY <1>1 DEF SearchesTyped
<1>2. ASSUME NEW q \in Queries, Searches!CreateQuery(q)
      PROVE  \A r \in Queries : query[r].st # "none" => query'[r].st # "none"
  BY <1>1, <1>2 DEF Searches!CreateQuery
<1>3. ASSUME NEW q \in Queries, Searches!DeleteQuery(q)
      PROVE  \A r \in Queries : query[r].st # "none" => query'[r].st # "none"
  BY <1>1, <1>3 DEF Searches!DeleteQuery, Searches!NoRow
<1>4. ASSUME NEW c \in Callers, Searches!UpdateWrite(c)
      PROVE  \A r \in Queries : query[r].st # "none" => query'[r].st # "none"
  BY <1>1, <1>4 DEF Searches!UpdateWrite, OfRows
<1>5. ASSUME NEW w \in Listeners, Searches!Finish(w)
      PROVE  \A r \in Queries : query[r].st # "none" => query'[r].st # "none"
  BY <1>5 DEF Searches!Finish, SearchesTyped, SearchRows
<1>6. ASSUME \/ Searches!Tick \/ UNCHANGED Searches!lvars
             \/ \E c \in Callers, q \in Queries : Searches!UpdateRead(c, q)
             \/ \E w \in Listeners :
                  \/ Searches!Stops(w) \/ \E q \in Queries : Searches!Start(w, q)
                  \/ \E p \in Searchable : Searches!Searched(w, p) \/ Searches!LeftOut(w, p)
      PROVE  UNCHANGED query
  BY <1>6 DEF Searches!Tick, Searches!lvars, Searches!UpdateRead, Searches!Stops, Searches!Start,
     Searches!Searched, Searches!LeftOut
<1> QED
  BY <1>2, <1>3, <1>4, <1>5, <1>6 DEF Searches!ListeningNext

LEMMA RunsTyped ==
  ASSUME Searches!ListeningParameters, SearchesTyped, OfRows, RunsShort,
         [Searches!ListeningNext]_Searches!lvars
  PROVE  /\ lRun' \in [Listeners -> SearchRuns]
         /\ \A w \in Listeners : lRun'[w].pc = "search" => lRun'[w].id \in Queries /\ query'[lRun'[w].id].st # "none"
         /\ RunsShort'
<1>0. lClock \in Nat /\ MaxClock \in Nat /\ \A w \in Listeners : lRun[w].started \in Nat
  BY DEF Searches!ListeningParameters, SearchesTyped, SearchRuns
<1>1. ASSUME NEW w \in Listeners, \A v \in Listeners \ {w} : lRun'[v] = lRun[v], lRun'[w] \in SearchRuns,
             DOMAIN lRun' = Listeners, lRun' = [v \in Listeners |-> lRun'[v]], UNCHANGED lClock,
             lRun'[w].pc = "search" =>
               /\ lRun'[w].id \in Queries /\ query[lRun'[w].id].st # "none"
               /\ lRun'[w].started <= lClock /\ lClock <= lRun'[w].started + 1
      PROVE  /\ lRun' \in [Listeners -> SearchRuns]
             /\ \A v \in Listeners : lRun'[v].pc = "search" => lRun'[v].id \in Queries /\ query'[lRun'[v].id].st # "none"
             /\ RunsShort'
  <2>1. lRun' \in [Listeners -> SearchRuns]
    BY <1>1 DEF SearchesTyped
  <2>2. \A v \in Listeners : lRun'[v].pc = "search" => lRun'[v].id \in Queries /\ query[lRun'[v].id].st # "none"
    BY <1>1 DEF OfRows
  <2>3. RunsShort'
    BY <1>1 DEF RunsShort
  <2> QED
    BY <2>1, <2>2, <2>3, RowsStay
<1>2. ASSUME NEW w \in Listeners, NEW to, lRun' = [lRun EXCEPT ![w] = to]
      PROVE  DOMAIN lRun' = Listeners /\ lRun' = [v \in Listeners |-> lRun'[v]]
  BY <1>2 DEF SearchesTyped
<1>3. ASSUME NEW w \in Listeners, NEW q \in Queries, Searches!Start(w, q)
      PROVE  DOMAIN lRun' = Listeners /\ lRun' = [v \in Listeners |-> lRun'[v]] /\ UNCHANGED lClock
             /\ query[q].st = "row"
  BY <1>2, <1>3 DEF Searches!Start, Searches!Exists
<1>4. ASSUME NEW w \in Listeners, NEW p \in Searchable, Searches!Searched(w, p) \/ Searches!LeftOut(w, p)
      PROVE  DOMAIN lRun' = Listeners /\ lRun' = [v \in Listeners |-> lRun'[v]] /\ UNCHANGED lClock
  BY <1>4 DEF Searches!Searched, Searches!LeftOut, SearchesTyped
<1>5. ASSUME NEW w \in Listeners, Searches!Finish(w) \/ Searches!Stops(w)
      PROVE  DOMAIN lRun' = Listeners /\ lRun' = [v \in Listeners |-> lRun'[v]] /\ UNCHANGED lClock
  BY <1>2, <1>5 DEF Searches!Finish, Searches!Stops
<1>6. CASE \E w \in Listeners, q \in Queries : Searches!Start(w, q)
  <2>1. PICK w \in Listeners, q \in Queries : Searches!Start(w, q)
    BY <1>6
  <2> QED
    BY <1>0, <1>1, <1>3, <2>1, RunBegins
<1>7. CASE \E w \in Listeners, p \in Searchable : Searches!Searched(w, p) \/ Searches!LeftOut(w, p)
  <2>1. PICK w \in Listeners, p \in Searchable : Searches!Searched(w, p) \/ Searches!LeftOut(w, p)
    BY <1>7
  <2>2. /\ lRun[w].id \in Queries /\ query[lRun[w].id].st # "none"
        /\ lRun[w].started <= lClock /\ lClock <= lRun[w].started + 1
    BY <2>1, RunGoesOn DEF OfRows, RunsShort
  <2> QED
    BY <1>1, <1>4, <2>1, <2>2, RunGoesOn
<1>8. CASE \E w \in Listeners : Searches!Finish(w) \/ Searches!Stops(w)
  <2>1. PICK w \in Listeners : Searches!Finish(w) \/ Searches!Stops(w)
    BY <1>8
  <2> QED
    BY <1>1, <1>5, <2>1, RunEnds
<1>9. CASE UNCHANGED lRun
  <2>1. lRun' \in [Listeners -> SearchRuns]
        /\ \A w \in Listeners : lRun'[w].pc = "search" => lRun'[w].id \in Queries /\ query'[lRun'[w].id].st # "none"
    BY <1>9, RowsStay DEF SearchesTyped, OfRows
  <2>2. \/ UNCHANGED lClock
        \/ lClock' = lClock + 1 /\ \A w \in Listeners : lRun[w].pc = "search" => lRun[w].started = lClock
    BY DEF Searches!ListeningNext, Searches!Tick, Searches!lvars, Searches!CreateQuery, Searches!DeleteQuery,
       Searches!UpdateWrite, Searches!UpdateRead, Searches!Finish, Searches!Stops, Searches!Start,
       Searches!Searched, Searches!LeftOut
  <2>3. RunsShort'
    BY <1>0, <1>9, <2>2 DEF RunsShort
  <2> QED
    BY <2>1, <2>3
<1>10. UNCHANGED lRun \/ \E w \in Listeners :
         \/ Searches!Finish(w) \/ Searches!Stops(w) \/ \E q \in Queries : Searches!Start(w, q)
         \/ \E p \in Searchable : Searches!Searched(w, p) \/ Searches!LeftOut(w, p)
  BY DEF Searches!ListeningNext, Searches!Tick, Searches!lvars, Searches!CreateQuery, Searches!DeleteQuery,
     Searches!UpdateWrite, Searches!UpdateRead
<1> QED
  BY <1>6, <1>7, <1>8, <1>9, <1>10

LEMMA SlipsTyped ==
  ASSUME SearchesTyped, OfRows, [Searches!ListeningNext]_Searches!lvars
  PROVE  slipped' \subseteq Queries /\ blurred' \subseteq Queries
<1>1. ASSUME NEW c \in Callers, Searches!UpdateWrite(c)
      PROVE  slipped' \subseteq Queries /\ blurred' \subseteq Queries
  <2>1. lCall[c].id \in Queries
    BY <1>1 DEF OfRows, Searches!UpdateWrite
  <2>2. slipped' \in {slipped, slipped \ {lCall[c].id}, slipped \cup {lCall[c].id}}
    BY <1>1 DEF Searches!UpdateWrite
  <2>3. blurred' \in {blurred, blurred \ {lCall[c].id}, blurred \cup {lCall[c].id}}
    BY <1>1 DEF Searches!UpdateWrite
  <2> QED
    BY <2>1, <2>2, <2>3 DEF SearchesTyped
<1>2. CASE \A c \in Callers : ~ Searches!UpdateWrite(c)
  BY <1>2 DEF SearchesTyped, Searches!ListeningNext, Searches!Tick, Searches!lvars, Searches!CreateQuery,
     Searches!DeleteQuery, Searches!UpdateRead, Searches!Finish, Searches!Stops, Searches!Start,
     Searches!Searched, Searches!LeftOut
<1> QED
  BY <1>1, <1>2

\* A step counts a move down, or the clock up, or neither.
LEMMA SearchCounts ==
  ASSUME [Searches!ListeningNext]_Searches!lvars
  PROVE  /\ lLeft' = lLeft \/ (lLeft > 0 /\ lLeft' = lLeft - 1)
         /\ lClock' = lClock \/ (lClock < MaxClock /\ lClock' = lClock + 1)
<1>1. CASE Searches!Tick
  BY <1>1 DEF Searches!Tick
<1>2. ASSUME NEW q \in Queries, Searches!CreateQuery(q) \/ Searches!DeleteQuery(q)
      PROVE  lLeft > 0 /\ lLeft' = lLeft - 1 /\ lClock' = lClock
  BY <1>2 DEF Searches!CreateQuery, Searches!DeleteQuery
<1>3. ASSUME NEW c \in Callers, NEW q \in Queries, Searches!UpdateRead(c, q)
      PROVE  lLeft > 0 /\ lLeft' = lLeft - 1 /\ lClock' = lClock
  BY <1>3 DEF Searches!UpdateRead
<1>4. ASSUME NEW c \in Callers, Searches!UpdateWrite(c)
      PROVE  UNCHANGED <<lLeft, lClock>>
  BY <1>4 DEF Searches!UpdateWrite
<1>5. ASSUME NEW w \in Listeners,
             \/ Searches!Finish(w) \/ Searches!Stops(w) \/ \E q \in Queries : Searches!Start(w, q)
             \/ \E p \in Searchable : Searches!Searched(w, p) \/ Searches!LeftOut(w, p)
      PROVE  UNCHANGED <<lLeft, lClock>>
  BY <1>5 DEF Searches!Finish, Searches!Stops, Searches!Start, Searches!Searched, Searches!LeftOut
<1>6. CASE UNCHANGED Searches!lvars
  BY <1>6 DEF Searches!lvars
<1> QED
  BY <1>1, <1>2, <1>3, <1>4, <1>5, <1>6 DEF Searches!ListeningNext

LEMMA SearchesTypedStep ==
  ASSUME Searches!ListeningParameters, SearchesTyped, OfRows, RunsShort,
         [Searches!ListeningNext]_Searches!lvars
  PROVE  SearchesTyped' /\ OfRows' /\ RunsShort'
<1>1. lLeft' \in 0..ListeningMoves
  BY SearchCounts, OneLeft DEF Searches!ListeningParameters, SearchesTyped
<1>2. lClock' \in 0..MaxClock
  BY SearchCounts DEF Searches!ListeningParameters, SearchesTyped
<1> QED
  BY <1>1, <1>2, SlipsTyped, QueriesTyped, CallsTyped, RunsTyped DEF SearchesTyped, OfRows

\* What was stored or left out stays so.
LEMMA CoversMore ==
  ASSUME Met \subseteq Met', NEW p, NEW text, NEW before, Covered(Met, p, text, before)
  PROVE  Covered(Met', p, text, before)
BY DEF Covered

\* The windows of a row that is not blurred follow on each other.
LEMMA WindowsStep ==
  ASSUME Searches!ListeningParameters, SearchesTyped, OfRows, RunsShort, WindowsMeet, RunsSearch,
         [Searches!ListeningNext]_Searches!lvars
  PROVE  WindowsMeet' /\ RunsSearch'
<1>1. ASSUME UNCHANGED <<lRun, query, blurred>>, Met \subseteq Met'
      PROVE  WindowsMeet' /\ RunsSearch'
  BY <1>1, CoversMore DEF WindowsMeet, RunsSearch, Searches!Exists
<1>2. CASE Searches!Tick \/ UNCHANGED Searches!lvars \/ \E c \in Callers, q \in Queries : Searches!UpdateRead(c, q)
  BY <1>1, <1>2 DEF Searches!Tick, Searches!lvars, Searches!UpdateRead, Met
<1>3. ASSUME NEW q \in Queries, Searches!CreateQuery(q)
      PROVE  WindowsMeet' /\ RunsSearch'
  <2>1. /\ UNCHANGED <<lRun, heard, excused, blurred>> /\ query[q].st = "none"
        /\ \A r \in Queries \ {q} : query'[r] = query[r]
        /\ query'[q].last = Searches!Never
    BY <1>3 DEF Searches!CreateQuery, SearchesTyped
  <2>2. WindowsMeet'
    BY <2>1 DEF WindowsMeet, Searches!Exists, Covered, Met
  <2>3. \A w \in Listeners : lRun[w].pc = "search" => lRun[w].id \in Queries \ {q}
    BY <2>1 DEF OfRows
  <2>4. RunsSearch'
    BY <2>1, <2>3 DEF RunsSearch, Searches!Exists, Covered, Met
  <2> QED
    BY <2>2, <2>4
<1>4. ASSUME NEW q \in Queries, Searches!DeleteQuery(q)
      PROVE  WindowsMeet' /\ RunsSearch'
  <2>1. /\ UNCHANGED <<lRun, heard, excused>>
        /\ \A r \in Queries \ {q} : query'[r] = query[r]
        /\ query'[q].st = "deleted" /\ blurred' = blurred \ {q}
    BY <1>4 DEF Searches!DeleteQuery, SearchesTyped, Searches!NoRow
  <2>2. WindowsMeet'
    BY <2>1 DEF WindowsMeet, Searches!Exists, Covered, Met
  <2>3. \A w \in Listeners : lRun[w].pc = "search" => lRun[w].id \in Queries
    BY DEF OfRows
  <2>4. RunsSearch'
    BY <2>1, <2>3 DEF RunsSearch, Searches!Exists, Covered, Met
  <2> QED
    BY <2>2, <2>4
<1>5. ASSUME NEW c \in Callers, Searches!UpdateWrite(c)
      PROVE  WindowsMeet' /\ RunsSearch'
  <2> DEFINE v == lCall[c]
             q == v.id
             fresh == v.text # v.query.text
  <2>1. q \in Queries
    BY <1>5 DEF Searches!UpdateWrite, OfRows
  <2>2. UNCHANGED <<lRun, heard, excused>>
    BY <1>5 DEF Searches!UpdateWrite
  <2>3. \A w \in Listeners : lRun[w].pc = "search" => lRun[w].id \in Queries
    BY DEF OfRows
  <2>4. CASE UNCHANGED <<query, blurred>>
    BY <1>1, <2>2, <2>4 DEF Met
  <2>5. CASE /\ query[q].st = "row"
             /\ query' = [query EXCEPT ![q] = [st |-> "row", active |-> v.active, text |-> v.text,
                                               providers |-> v.providers,
                                               last |-> Searches!LastRun(v, query[q])]]
             /\ blurred' = IF fresh /\ ~ Searches!Running(q) THEN blurred \ {q}
                           ELSE IF fresh \/ v.text # query[q].text \/ ~ v.providers \subseteq query[q].providers
                                THEN blurred \cup {q} ELSE blurred
    <3>1. /\ \A r \in Queries \ {q} : query'[r] = query[r]
          /\ query'[q].text = v.text /\ query'[q].providers = v.providers
          /\ query'[q].last = Searches!LastRun(v, query[q])
      BY <2>1, <2>5 DEF SearchesTyped
    <3>2. \A r \in Queries \ {q} : r \in blurred' <=> r \in blurred
      BY <2>5
    <3>3. CASE fresh /\ ~ Searches!Running(q)
      <4>1. query'[q].last = Searches!Never
        BY <3>1, <3>3 DEF Searches!LastRun
      <4>2. \A w \in Listeners : lRun[w].pc = "search" => lRun[w].id # q
        BY <3>3 DEF Searches!Running
      <4>3. WindowsMeet'
        BY <2>2, <3>1, <3>2, <4>1 DEF WindowsMeet, Searches!Exists, Covered, Met
      <4>4. RunsSearch'
        BY <2>2, <2>3, <3>1, <3>2, <4>2 DEF RunsSearch, Searches!Exists, Covered, Met
      <4> QED
        BY <4>3, <4>4
    <3>4. CASE ~ (fresh /\ ~ Searches!Running(q)) /\
               (fresh \/ v.text # query[q].text \/ ~ v.providers \subseteq query[q].providers)
      <4>1. q \in blurred'
        BY <2>5, <3>4
      <4>2. WindowsMeet'
        BY <2>2, <3>1, <3>2, <4>1 DEF WindowsMeet, Searches!Exists, Covered, Met
      <4>3. RunsSearch'
        BY <2>2, <2>3, <3>1, <3>2, <4>1 DEF RunsSearch, Searches!Exists, Covered, Met
      <4> QED
        BY <4>2, <4>3
    <3>5. CASE ~ fresh /\ v.text = query[q].text /\ v.providers \subseteq query[q].providers
      <4>1. /\ query'[q].text = query[q].text /\ query'[q].last = query[q].last
            /\ query'[q].providers \subseteq query[q].providers /\ blurred' = blurred
        BY <2>5, <3>1, <3>5 DEF Searches!LastRun
      <4>2. WindowsMeet'
        BY <2>2, <2>5, <3>1, <4>1 DEF WindowsMeet, Searches!Exists, Covered, Met
      <4>3. RunsSearch'
        BY <2>2, <2>3, <2>5, <3>1, <4>1 DEF RunsSearch, Searches!Exists, Covered, Met
      <4> QED
        BY <4>2, <4>3
    <3> QED
      BY <3>3, <3>4, <3>5
  <2> QED
    BY <1>5, <2>4, <2>5 DEF Searches!UpdateWrite
<1>6. ASSUME NEW w \in Listeners, NEW q \in Queries, Searches!Start(w, q)
      PROVE  WindowsMeet' /\ RunsSearch'
  <2>1. UNCHANGED <<query, heard, excused, blurred>> /\ Searches!Exists(q)
    BY <1>6 DEF Searches!Start
  <2>2. WindowsMeet'
    BY <2>1 DEF WindowsMeet, Searches!Exists, Covered, Met
  <2>3. /\ \A u \in Listeners \ {w} : lRun'[u] = lRun[u]
        /\ lRun'[w].id = q /\ lRun'[w].text = query[q].text
        /\ lRun'[w].since = Searches!Since(query[q].last) /\ lRun'[w].todo = query[q].providers
    BY <1>6, RunBegins
  <2>4. q \notin blurred => \A p \in query[q].providers : Covered(Met, p, query[q].text, Searches!Since(query[q].last))
    <3>1. CASE query[q].last = Searches!Never
      <4>1. Searches!Since(query[q].last) = 0
        BY <3>1, SinceTime DEF SearchesTyped, SearchRows
      <4>2. \A t \in 0..MaxClock : ~ t < 0
        BY DEF Searches!ListeningParameters
      <4> QED
        BY <4>1, <4>2 DEF Covered, Met
    <3>2. CASE query[q].last # Searches!Never
      BY <2>1, <3>2 DEF WindowsMeet
    <3> QED
      BY <3>1, <3>2
  <2>5. RunsSearch'
    BY <2>1, <2>3, <2>4 DEF RunsSearch, Searches!Exists, Covered, Met
  <2> QED
    BY <2>2, <2>5
<1>7. ASSUME NEW w \in Listeners, NEW p \in Searchable, Searches!Searched(w, p) \/ Searches!LeftOut(w, p)
      PROVE  WindowsMeet' /\ RunsSearch'
  <2>1. /\ UNCHANGED <<query, blurred, lClock>>
        /\ Met \subseteq Met' /\ Searches!Asked(w, p) \subseteq Met'
    BY <1>7 DEF Searches!Searched, Searches!LeftOut, Met
  <2>2. WindowsMeet'
    BY <2>1, CoversMore DEF WindowsMeet, Searches!Exists
  <2>3. /\ \A u \in Listeners \ {w} : lRun'[u] = lRun[u]
        /\ lRun[w].pc = "search" /\ lRun'[w].id = lRun[w].id /\ lRun'[w].text = lRun[w].text
        /\ lRun'[w].since = lRun[w].since /\ lRun'[w].started = lRun[w].started
        /\ lRun'[w].todo = lRun[w].todo \ {p}
    BY <1>7, RunGoesOn
  <2>4. lRun[w].id \in Queries /\ lRun[w].started <= lClock
    BY <2>3 DEF OfRows, RunsShort
  <2>5. ASSUME Covered(Met, p, lRun[w].text, lRun[w].since)
        PROVE  Covered(Met', p, lRun[w].text, lRun[w].started)
    <3>1. ASSUME NEW t \in 0..MaxClock, t < lRun[w].started
          PROVE  <<p, lRun[w].text, t>> \in Met'
      <4>1. /\ t \in Int /\ lRun[w].since \in Int /\ lRun[w].started \in Int /\ lClock \in Int
        BY DEF SearchesTyped, SearchRuns
      <4>2. t < lRun[w].since \/ (lRun[w].since <= t /\ t < lClock)
        BY <2>4, <3>1, <4>1
      <4>3. CASE t < lRun[w].since
        BY <2>1, <2>5, <4>3 DEF Covered
      <4>4. CASE lRun[w].since <= t /\ t < lClock
        <5>1. <<p, lRun[w].text, t>> \in Searches!Asked(w, p)
          BY <4>4 DEF Searches!Asked
        <5> QED
          BY <2>1, <5>1
      <4> QED
        BY <4>2, <4>3, <4>4
    <3> QED
      BY <2>3, <3>1 DEF Covered
  <2>6. ASSUME NEW u \in Listeners, lRun'[u].pc = "search", lRun'[u].id \notin blurred',
               query'[lRun'[u].id].st = "row"
        PROVE  /\ lRun'[u].text = query'[lRun'[u].id].text
               /\ \A o \in query'[lRun'[u].id].providers :
                    /\ Covered(Met', o, lRun'[u].text, lRun'[u].since)
                    /\ o \notin lRun'[u].todo => Covered(Met', o, lRun'[u].text, lRun'[u].started)
    <3>1. /\ lRun'[u].id = lRun[u].id /\ lRun'[u].text = lRun[u].text /\ lRun'[u].since = lRun[u].since
          /\ lRun'[u].started = lRun[u].started /\ lRun[u].pc = "search"
      BY <2>3, <2>6
    <3>2. /\ lRun[u].text = query[lRun[u].id].text
          /\ \A o \in query[lRun[u].id].providers :
               /\ Covered(Met, o, lRun[u].text, lRun[u].since)
               /\ o \notin lRun[u].todo => Covered(Met, o, lRun[u].text, lRun[u].started)
      BY <2>1, <2>6, <3>1 DEF RunsSearch, Searches!Exists
    <3>3. ASSUME NEW o \in query[lRun[u].id].providers
          PROVE  /\ Covered(Met', o, lRun'[u].text, lRun'[u].since)
                 /\ o \notin lRun'[u].todo => Covered(Met', o, lRun'[u].text, lRun'[u].started)
      <4>1. Covered(Met', o, lRun'[u].text, lRun'[u].since)
        BY <2>1, <3>1, <3>2, <3>3, CoversMore
      <4>2. CASE u = w /\ o = p
        BY <2>5, <3>1, <3>2, <3>3, <4>1, <4>2
      <4>3. CASE ~ (u = w /\ o = p)
        <5>1. o \notin lRun'[u].todo => o \notin lRun[u].todo
          BY <2>3, <4>3
        <5> QED
          BY <2>1, <3>1, <3>2, <3>3, <4>1, <5>1, CoversMore
      <4> QED
        BY <4>2, <4>3
    <3> QED
      BY <2>1, <3>1, <3>2, <3>3
  <2>7. RunsSearch'
    BY <2>6 DEF RunsSearch
  <2> QED
    BY <2>2, <2>7
<1>8. ASSUME NEW w \in Listeners, Searches!Finish(w)
      PROVE  WindowsMeet' /\ RunsSearch'
  <2> DEFINE q == lRun[w].id
  <2>1. /\ UNCHANGED <<heard, excused, blurred, lClock>> /\ lRun[w].pc = "search" /\ lRun[w].todo = {}
        /\ IF Searches!Exists(q) THEN query' = [query EXCEPT ![q].last = lClock] ELSE UNCHANGED query
    BY <1>8 DEF Searches!Finish
  <2>2. \A u \in Listeners \ {w} : lRun'[u] = lRun[u]
    BY <1>8, RunEnds
  <2>3. lRun'[w].pc = "idle"
    BY <1>8, RunEnds
  <2>4. q \in Queries /\ lClock <= lRun[w].started + 1 /\ lRun[w].started <= lClock
    BY <2>1 DEF OfRows, RunsShort
  <2>5. /\ \A r \in Queries : /\ query'[r].st = query[r].st /\ query'[r].text = query[r].text
                              /\ query'[r].providers = query[r].providers
        /\ \A r \in Queries \ {q} : query'[r] = query[r]
        /\ Searches!Exists(q) => query'[q].last = lClock
        /\ ~ Searches!Exists(q) => query'[q] = query[q]
    BY <2>1, <2>4 DEF SearchesTyped, SearchRows
  <2>6. RunsSearch'
    <3>1. ASSUME NEW u \in Listeners, lRun'[u].pc = "search", lRun'[u].id \notin blurred',
                 query'[lRun'[u].id].st = "row"
          PROVE  /\ lRun'[u].text = query'[lRun'[u].id].text
                 /\ \A o \in query'[lRun'[u].id].providers :
                      /\ Covered(Met', o, lRun'[u].text, lRun'[u].since)
                      /\ o \notin lRun'[u].todo => Covered(Met', o, lRun'[u].text, lRun'[u].started)
      <4>1. lRun'[u] = lRun[u] /\ lRun[u].id \in Queries
        BY <2>2, <2>3, <3>1 DEF OfRows
      <4>2. /\ query[lRun[u].id].st = "row" /\ query'[lRun[u].id].text = query[lRun[u].id].text
            /\ query'[lRun[u].id].providers = query[lRun[u].id].providers
        BY <2>5, <3>1, <4>1
      <4>3. Met' = Met
        BY <2>1 DEF Met
      <4> QED
        BY <2>1, <3>1, <4>1, <4>2, <4>3 DEF RunsSearch
    <3> QED
      BY <3>1 DEF RunsSearch
  <2>7. ASSUME q \notin blurred, Searches!Exists(q)
        PROVE  \A p \in query[q].providers : Covered(Met, p, query[q].text, Searches!Since(lClock))
    <3>1. \A p \in query[q].providers : Covered(Met, p, query[q].text, lRun[w].started)
      BY <2>1, <2>7 DEF RunsSearch, Searches!Exists
    <3>2. lClock \in Times /\ lClock \in Int /\ lRun[w].started \in Int /\ 0 <= lRun[w].started
      BY NoSearches DEF SearchesTyped, SearchRuns
    <3>3. Searches!Since(lClock) \in Int /\ Searches!Since(lClock) <= lRun[w].started
      <4>1. lClock # Searches!Never
        BY DEF SearchesTyped, Searches!Never, Searches!ListeningParameters
      <4> QED
        BY <2>4, <3>2, <4>1, SinceTime
    <3>4. \A t \in 0..MaxClock : t < Searches!Since(lClock) => t < lRun[w].started
      BY <3>2, <3>3
    <3> QED
      BY <3>1, <3>4 DEF Covered
  <2>8. WindowsMeet'
    <3>1. ASSUME NEW r \in Queries \ blurred', Searches!Exists(r)', query'[r].last # Searches!Never
          PROVE  \A p \in query'[r].providers : Covered(Met', p, query'[r].text, Searches!Since(query'[r].last))
      <4>1. Searches!Exists(r) /\ r \notin blurred
        BY <2>1, <2>5, <3>1 DEF Searches!Exists
      <4>2. CASE r = q
        BY <2>1, <2>5, <2>7, <4>1, <4>2 DEF Met
      <4>3. CASE r # q
        BY <2>1, <2>5, <3>1, <4>1, <4>3 DEF WindowsMeet, Met
      <4> QED
        BY <4>2, <4>3
    <3> QED
      BY <3>1 DEF WindowsMeet, Searches!Never, Searches!Since
  <2> QED
    BY <2>6, <2>8
<1>9. ASSUME NEW w \in Listeners, Searches!Stops(w)
      PROVE  WindowsMeet' /\ RunsSearch'
  <2>1. UNCHANGED <<query, heard, excused, blurred>>
    BY <1>9 DEF Searches!Stops
  <2>2. \A u \in Listeners \ {w} : lRun'[u] = lRun[u]
    BY <1>9, RunEnds
  <2>3. lRun'[w].pc = "idle"
    BY <1>9, RunEnds
  <2> QED
    BY <2>1, <2>2, <2>3 DEF WindowsMeet, RunsSearch, Searches!Exists, Covered, Met
<1> QED
  BY <1>2, <1>3, <1>4, <1>5, <1>6, <1>7, <1>8, <1>9 DEF Searches!ListeningNext

-----------------------------------------------------------------------------
(* The limit of active searches *)

ActiveNow == Searches!Active({})

LEMMA SearchesCounting == \A S : Searches!Cardinality(S) = Cardinality(S)
BY DEF Searches!Cardinality, Cardinality

LEMMA FiniteQueries ==
  ASSUME Searches!ListeningParameters
  PROVE  IsFiniteSet(Queries) /\ MaxActive \in Nat
BY DEF Searches!ListeningParameters, Searches!IsFiniteSet, IsFiniteSet

\* A smaller set of rows keeps the limit.
LEMMA StaysWithin ==
  ASSUME Searches!ListeningParameters, SearchesTyped, WithinLimit, NEW S, S \subseteq ActiveNow \ slipped
  PROVE  Cardinality(S) <= MaxActive
<1>1. ActiveNow \ slipped \subseteq Queries
  BY DEF ActiveNow, Searches!Active
<1>2. IsFiniteSet(ActiveNow \ slipped)
  BY <1>1, FiniteQueries, FS_Subset
<1>3. Cardinality(S) <= Cardinality(ActiveNow \ slipped) /\ IsFiniteSet(S)
  BY <1>2, FS_Subset
<1> QED
  BY <1>2, <1>3, FS_CardinalityType, FiniteQueries DEF WithinLimit, ActiveNow

\* A row that becomes active has its place.
LEMMA TakesPlace ==
  ASSUME Searches!ListeningParameters, SearchesTyped, NEW q \in Queries, Searches!HasCapacity({q}),
         NEW S, S \subseteq Searches!Active({q}) \cup {q}
  PROVE  Cardinality(S) <= MaxActive
<1> DEFINE A == Searches!Active({q})
<1>1. A \subseteq Queries /\ q \notin A
  BY DEF Searches!Active
<1>2. IsFiniteSet(A) /\ MaxActive \in Nat
  BY <1>1, FiniteQueries, FS_Subset
<1>3. Cardinality(A) < MaxActive
  BY SearchesCounting DEF Searches!HasCapacity
<1> HIDE DEF A
<1>4. IsFiniteSet(A \cup {q}) /\ Cardinality(A \cup {q}) = Cardinality(A) + 1
  BY <1>1, <1>2, FS_AddElement
<1>5. Cardinality(S) <= Cardinality(A \cup {q}) /\ IsFiniteSet(S)
  BY <1>4, FS_Subset DEF A
<1>6. Cardinality(A) \in Nat /\ Cardinality(S) \in Nat
  BY <1>2, <1>5, FS_CardinalityType
<1> QED
  BY <1>2, <1>3, <1>4, <1>5, <1>6

LEMMA LimitStep ==
  ASSUME Searches!ListeningParameters, SearchesTyped, OfRows, SlippedAreActive, WithinLimit,
         [Searches!ListeningNext]_Searches!lvars
  PROVE  SlippedAreActive' /\ WithinLimit'
<1>0. ActiveNow = {r \in Queries : query[r].active} /\ ActiveNow' = {r \in Queries : query'[r].active}
  BY DEF ActiveNow, Searches!Active
<1>1. ASSUME \A r \in Queries : query'[r].active = query[r].active, UNCHANGED slipped
      PROVE  SlippedAreActive' /\ WithinLimit'
  <2>1. ActiveNow' = ActiveNow
    BY <1>0, <1>1
  <2> QED
    BY <1>1, <2>1 DEF SlippedAreActive, WithinLimit, ActiveNow
<1>2. CASE \/ Searches!Tick \/ UNCHANGED Searches!lvars
           \/ \E c \in Callers, q \in Queries : Searches!UpdateRead(c, q)
           \/ \E w \in Listeners :
                \/ Searches!Stops(w) \/ \E q \in Queries : Searches!Start(w, q)
                \/ \E p \in Searchable : Searches!Searched(w, p) \/ Searches!LeftOut(w, p)
  <2>1. UNCHANGED <<query, slipped>>
    BY <1>2 DEF Searches!Tick, Searches!lvars, Searches!UpdateRead, Searches!Stops, Searches!Start,
       Searches!Searched, Searches!LeftOut
  <2> QED
    BY <1>1, <2>1
<1>3. ASSUME NEW w \in Listeners, Searches!Finish(w)
      PROVE  SlippedAreActive' /\ WithinLimit'
  <2>1. /\ UNCHANGED slipped
        /\ query' = query \/ query' = [query EXCEPT ![lRun[w].id].last = lClock]
    BY <1>3 DEF Searches!Finish
  <2>2. \A r \in Queries : query'[r].active = query[r].active
    BY <2>1 DEF SearchesTyped, SearchRows
  <2> QED
    BY <1>1, <2>1, <2>2
<1>4. ASSUME NEW q \in Queries, Searches!CreateQuery(q)
      PROVE  SlippedAreActive' /\ WithinLimit'
  <2>1. /\ UNCHANGED slipped /\ query[q].st = "none" /\ Searches!HasCapacity({})
        /\ \A r \in Queries \ {q} : query'[r] = query[r]
        /\ query'[q].active = TRUE
    BY <1>4 DEF Searches!CreateQuery, SearchesTyped
  <2>2. ActiveNow' = ActiveNow \cup {q}
    BY <1>0, <2>1
  <2>3. SlippedAreActive'
    BY <2>1, <2>2 DEF SlippedAreActive, ActiveNow
  <2>4. Searches!HasCapacity({q})
    <3>1. Searches!Active({q}) \subseteq ActiveNow
      BY DEF Searches!Active, ActiveNow
    <3>2. IsFiniteSet(ActiveNow) /\ MaxActive \in Nat
      BY <1>0, FiniteQueries, FS_Subset
    <3>3. /\ IsFiniteSet(Searches!Active({q}))
          /\ Cardinality(Searches!Active({q})) <= Cardinality(ActiveNow)
      BY <3>1, <3>2, FS_Subset
    <3>4. Cardinality(ActiveNow) < MaxActive
      BY <2>1, SearchesCounting DEF Searches!HasCapacity, ActiveNow
    <3>5. Cardinality(ActiveNow) \in Nat /\ Cardinality(Searches!Active({q})) \in Nat
      BY <3>2, <3>3, FS_CardinalityType
    <3>6. Cardinality(Searches!Active({q})) < MaxActive
      BY <3>2, <3>3, <3>4, <3>5
    <3> QED
      BY <3>6, SearchesCounting DEF Searches!HasCapacity
  <2>5. ActiveNow' \ slipped' \subseteq Searches!Active({q}) \cup {q}
    BY <1>0, <2>2 DEF Searches!Active
  <2> QED
    BY <2>3, <2>4, <2>5, TakesPlace DEF WithinLimit, ActiveNow
<1>5. ASSUME NEW q \in Queries, Searches!DeleteQuery(q)
      PROVE  SlippedAreActive' /\ WithinLimit'
  <2>1. /\ slipped' = slipped \ {q} /\ query'[q].active = FALSE
        /\ \A r \in Queries \ {q} : query'[r] = query[r]
    BY <1>5 DEF Searches!DeleteQuery, Searches!NoRow, SearchesTyped
  <2>2. ActiveNow' = ActiveNow \ {q}
    BY <1>0, <2>1
  <2>3. SlippedAreActive' /\ ActiveNow' \ slipped' \subseteq ActiveNow \ slipped
    BY <2>1, <2>2 DEF SlippedAreActive, ActiveNow
  <2> QED
    BY <2>3, StaysWithin DEF WithinLimit, ActiveNow
<1>6. ASSUME NEW c \in Callers, Searches!UpdateWrite(c)
      PROVE  SlippedAreActive' /\ WithinLimit'
  <2> DEFINE v == lCall[c]
             q == v.id
  <2>1. q \in Queries
    BY <1>6 DEF Searches!UpdateWrite, OfRows
  <2>2. CASE UNCHANGED <<query, slipped>>
    BY <1>1, <2>2
  <2>3. CASE /\ v.active /\ ~ v.query.active => Searches!HasCapacity({q})
             /\ query' = [query EXCEPT ![q] = [st |-> "row", active |-> v.active, text |-> v.text,
                                               providers |-> v.providers,
                                               last |-> Searches!LastRun(v, query[q])]]
             /\ slipped' = IF ~ v.active THEN slipped \ {q}
                           ELSE IF v.query.active /\ ~ query[q].active THEN slipped \cup {q} ELSE slipped
    <3>1. /\ \A r \in Queries \ {q} : query'[r] = query[r]
          /\ query'[q].active = v.active
      BY <2>1, <2>3 DEF SearchesTyped
    <3>2. v.active => ActiveNow' = ActiveNow \cup {q}
      BY <1>0, <2>1, <3>1
    <3>3. ~ v.active => ActiveNow' = ActiveNow \ {q}
      BY <1>0, <2>1, <3>1
    <3>4. SlippedAreActive'
      BY <2>3, <3>2, <3>3 DEF SlippedAreActive, ActiveNow
    <3>5. CASE ~ v.active
      <4>1. ActiveNow' \ slipped' \subseteq ActiveNow \ slipped
        BY <2>3, <3>3, <3>5
      <4> QED
        BY <3>4, <4>1, StaysWithin DEF WithinLimit, ActiveNow
    <3>6. CASE v.active /\ v.query.active
      <4>1. ActiveNow' \ slipped' \subseteq ActiveNow \ slipped
        BY <1>0, <2>1, <2>3, <3>2, <3>6
      <4> QED
        BY <3>4, <4>1, StaysWithin DEF WithinLimit, ActiveNow
    <3>7. CASE v.active /\ ~ v.query.active
      <4>1. ActiveNow' \ slipped' \subseteq Searches!Active({q}) \cup {q}
        BY <1>0, <3>2, <3>7 DEF Searches!Active
      <4>2. Searches!HasCapacity({q})
        BY <2>3, <3>7
      <4> QED
        BY <2>1, <3>4, <4>1, <4>2, TakesPlace DEF WithinLimit, ActiveNow
    <3> QED
      BY <3>5, <3>6, <3>7
  <2> QED
    BY <1>6, <2>2, <2>3 DEF Searches!UpdateWrite
<1> QED
  BY <1>2, <1>3, <1>4, <1>5, <1>6 DEF Searches!ListeningNext

LEMMA SearchesStart ==
  ASSUME Searches!ListeningParameters, Searches!ListeningInit
  PROVE  SearchesInv
<1> USE DEF Searches!ListeningInit
<1>1. \A q \in Queries : query[q] = Searches!NoRow
  OBVIOUS
<1>2. SearchesTyped
  <2>1. query \in [Queries -> SearchRows] /\ lCall \in [Callers -> SearchCalls] /\ lRun \in [Listeners -> SearchRuns]
    BY NoSearches
  <2> QED
    BY <2>1 DEF SearchesTyped, Searches!ListeningParameters
<1>3. OfRows /\ RunsShort /\ RunsSearch
  BY DEF OfRows, RunsShort, RunsSearch, Searches!NoCall, Searches!NoRun
<1>4. WindowsMeet
  BY <1>1 DEF WindowsMeet, Searches!Exists, Searches!NoRow
<1>5. ActiveNow = {}
  BY <1>1 DEF ActiveNow, Searches!Active, Searches!NoRow
<1>6. SlippedAreActive /\ WithinLimit
  BY <1>5, FS_EmptySet, FiniteQueries DEF SlippedAreActive, WithinLimit, ActiveNow
<1> QED
  BY <1>2, <1>3, <1>4, <1>6 DEF SearchesInv

\* A search that no change blurred has been made of everything said before its next window, and no
\* more than the limit are active but for those that slipped in (SearchesKept), whatever the rows,
\* the requests and the workers.
THEOREM SearchesKeptAlways ==
  ASSUME Searches!ListeningParameters
  PROVE  Searches!ListeningSpec => []Searches!SearchesKept
<1>1. Searches!ListeningInit => SearchesInv
  BY SearchesStart
<1>2. SearchesInv /\ [Searches!ListeningNext]_Searches!lvars => SearchesInv'
  BY SearchesTypedStep, WindowsStep, LimitStep DEF SearchesInv
<1>3. SearchesInv => Searches!SearchesKept
  <2> SUFFICES ASSUME SearchesInv PROVE Searches!SearchesKept
    OBVIOUS
  <2>1. ASSUME NEW q \in Queries \ blurred, Searches!Exists(q), query[q].last # Searches!Never,
               NEW p \in query[q].providers, NEW t \in 0..MaxClock, t < Searches!Since(query[q].last)
        PROVE  <<p, query[q].text, t>> \in heard \cup excused
    BY <2>1 DEF SearchesInv, WindowsMeet, Covered, Met
  <2>2. IsFiniteSet(ActiveNow) /\ slipped \subseteq ActiveNow /\ MaxActive \in Nat
    <3>1. ActiveNow \subseteq Queries
      BY DEF ActiveNow, Searches!Active
    <3> QED
      BY <3>1, FiniteQueries, FS_Subset DEF SearchesInv, SlippedAreActive, ActiveNow
  <2>3. /\ IsFiniteSet(slipped) /\ IsFiniteSet(ActiveNow \ slipped)
        /\ Cardinality(slipped) \in Nat /\ Cardinality(ActiveNow \ slipped) \in Nat
        /\ Cardinality(ActiveNow) \in Nat
    BY <2>2, FS_Subset, FS_CardinalityType
  <2>4. Cardinality(ActiveNow \ slipped) = Cardinality(ActiveNow) - Cardinality(ActiveNow \cap slipped)
    BY <2>2, FS_Difference
  <2>5. ActiveNow \cap slipped = slipped
    BY <2>2
  <2>6. Cardinality(ActiveNow) <= MaxActive + Cardinality(slipped)
    <3>1. Cardinality(ActiveNow \ slipped) <= MaxActive
      BY DEF SearchesInv, WithinLimit, ActiveNow
    <3>2. Cardinality(ActiveNow \ slipped) = Cardinality(ActiveNow) - Cardinality(slipped)
      BY <2>4, <2>5
    <3> QED
      BY <2>2, <2>3, <3>1, <3>2
  <2> QED
    BY <2>1, <2>6, SearchesCounting DEF Searches!SearchesKept, ActiveNow
<1> QED
  BY <1>1, <1>2, <1>3, PTL DEF Searches!ListeningSpec

-----------------------------------------------------------------------------
(* The paid checks: visibility.ts and seo.ts, runForOrg.  What the attempts have paid and not yet *)
(* billed adds up, over all attempts of all jobs.                                                  *)

CONSTANTS Tasks, Batches, Items, CheckJobs, Budget, CheckFaults
VARIABLES cTask, cDone, cLedger, cRun, cLane, cFaults, cSpent, cMissed, cLate

Checks == INSTANCE PaidChecks WITH
  Jobs <- CheckJobs, MaxFaults <- CheckFaults,
  task <- cTask, done <- cDone, ledger <- cLedger, run <- cRun, lane <- cLane,
  faults <- cFaults, spent <- cSpent, missed <- cMissed, late <- cLate

CheckStages == {"none", "metrics", "items", "bill", "over"}
CheckRuns == [stage : CheckStages, due : SUBSET (Batches \cup Items), cost : Nat, threw : Flags]
ChecksTyped ==
  /\ cRun \in [Checks!Attempts -> CheckRuns]
  /\ cSpent \in Nat /\ cLedger \in Nat /\ cMissed \in Nat /\ cLate \in Nat
\* An attempt that has not begun has paid nothing.
NoneBefore == \A a \in Checks!Attempts : cRun[a].stage = "none" => cRun[a].cost = 0
Unbilled == [a \in Checks!Attempts |-> IF cRun[a].stage = "over" THEN 0 ELSE cRun[a].cost]
ChecksAddUp == cSpent = cLedger + cMissed + cLate + Total(Unbilled, Checks!Attempts)
ChecksInv == ChecksTyped /\ NoneBefore /\ ChecksAddUp

LEMMA AttemptsFinite ==
  ASSUME Checks!ChecksBounds
  PROVE  IsFiniteSet(Checks!Attempts)
<1>1. IsFiniteSet(CheckJobs) /\ MaxAttempts \in Nat
  BY DEF Checks!ChecksBounds, Checks!IsFiniteSet, IsFiniteSet
<1>2. IsFiniteSet(1..MaxAttempts)
  BY <1>1, FS_Interval
<1> QED
  BY <1>1, <1>2, FS_Product DEF Checks!Attempts

\* An attempt's own step.
CheckMoves(a, x) ==
  /\ cRun' = [cRun EXCEPT ![a] = x] /\ x \in CheckRuns
  /\ x.stage = "none" => x.cost = 0

LEMMA ThreeNat == ASSUME NEW a \in Nat, NEW b \in Nat, NEW c \in Nat PROVE a + b + c \in Nat
OBVIOUS

\* What was written down and lost is b, then b1; what is held t, then t1; s1 is spent after.
Balances(b, b1, t, t1, n, m, s1) ==
  /\ b \in Nat /\ b1 \in Nat /\ t \in Nat /\ t1 \in Nat /\ n \in Nat /\ m \in Nat /\ s1 \in Nat
  /\ t1 + n = t + m /\ s1 + (b + n) = (b + t) + (b1 + m)
LEMMA BalanceStays ==
  ASSUME NEW b, NEW b1, NEW t, NEW t1, NEW n, NEW m, NEW s1, Balances(b, b1, t, t1, n, m, s1)
  PROVE  s1 = b1 + t1
BY DEF Balances

\* A step that writes down, or loses, as much as it no longer holds.
LEMMA ChecksMoveKeeps ==
  ASSUME Checks!ChecksBounds, ChecksInv, NEW a \in Checks!Attempts, NEW x, CheckMoves(a, x),
         cSpent' \in Nat, cLedger' \in Nat, cMissed' \in Nat, cLate' \in Nat,
         NEW n \in Nat, n = (IF cRun[a].stage = "over" THEN 0 ELSE cRun[a].cost),
         NEW m \in Nat, m = (IF x.stage = "over" THEN 0 ELSE x.cost),
         cSpent' + (cLedger + cMissed + cLate + n) = cSpent + (cLedger' + cMissed' + cLate' + m)
  PROVE  ChecksInv'
<1> USE DEF ChecksInv
<1>1. cRun' \in [Checks!Attempts -> CheckRuns] /\ cRun'[a] = x /\ \A b \in Checks!Attempts \ {a} : cRun'[b] = cRun[b]
  BY DEF CheckMoves, ChecksTyped
<1>2. ChecksTyped'
  BY <1>1 DEF ChecksTyped
<1>3. NoneBefore'
  BY <1>1 DEF NoneBefore, CheckMoves
<1>4. IsFiniteSet(Checks!Attempts)
  BY AttemptsFinite
<1>5. \A b \in Checks!Attempts : Unbilled[b] \in Nat /\ Unbilled'[b] \in Nat
  BY <1>1 DEF Unbilled, ChecksTyped, CheckRuns
<1>6. /\ Unbilled[a] = n
      /\ Unbilled'[a] = m
      /\ \A b \in Checks!Attempts \ {a} : Unbilled'[b] = Unbilled[b]
  BY <1>1 DEF Unbilled
<1>7. Total(Unbilled', Checks!Attempts) + n = Total(Unbilled, Checks!Attempts) + m
  BY <1>4, <1>5, <1>6, TotalChanges
<1>8. Total(Unbilled, Checks!Attempts) \in Nat /\ Total(Unbilled', Checks!Attempts) \in Nat
  BY <1>4, <1>5, TotalNat
<1>9. ChecksAddUp'
  <2>1. /\ cSpent \in Nat /\ cLedger \in Nat /\ cMissed \in Nat /\ cLate \in Nat
        /\ cSpent = cLedger + cMissed + cLate + Total(Unbilled, Checks!Attempts)
    BY DEF ChecksTyped, ChecksAddUp
  <2> DEFINE b == cLedger + cMissed + cLate
             b1 == cLedger' + cMissed' + cLate'
             t == Total(Unbilled, Checks!Attempts)
             t1 == Total(Unbilled', Checks!Attempts)
  <2>2. b \in Nat /\ b1 \in Nat
    BY <2>1, ThreeNat
  <2>3. cSpent = b + t /\ t1 + n = t + m /\ cSpent' + (b + n) = cSpent + (b1 + m) /\ t \in Nat /\ t1 \in Nat
    BY <1>7, <1>8, <2>1
  <2> HIDE DEF b, b1, t, t1
  <2>4. Balances(b, b1, t, t1, n, m, cSpent')
    BY <2>2, <2>3 DEF Balances
  <2>5. cSpent' = b1 + t1
    BY <2>4, BalanceStays
  <2> QED
    BY <2>5 DEF ChecksAddUp, b1, t1
<1> QED
  BY <1>2, <1>3, <1>9

\* What the records of an attempt become.
LEMMA CheckRecords ==
  ASSUME ChecksTyped, NEW a \in Checks!Attempts, NEW st \in CheckStages, NEW b \in Flags,
         NEW due \in SUBSET (Batches \cup Items)
  PROVE  /\ cRun[a].cost \in Nat /\ cRun[a].stage \in CheckStages /\ cRun[a].due \in SUBSET (Batches \cup Items)
         /\ cRun[a].threw \in Flags
         /\ \A x : /\ \/ x = [cRun[a] EXCEPT !.stage = st]
                      \/ x = [cRun[a] EXCEPT !.stage = st, !.due = due]
                      \/ x = [cRun[a] EXCEPT !.stage = st, !.threw = b]
                      \/ x = [cRun[a] EXCEPT !.stage = st, !.threw = b, !.due = due]
                   => x \in CheckRuns /\ x.stage = st /\ x.cost = cRun[a].cost
         /\ \A x : x = [cRun[a] EXCEPT !.due = due] => x \in CheckRuns /\ x.stage = cRun[a].stage /\ x.cost = cRun[a].cost
         /\ \A x : x = [cRun[a] EXCEPT !.cost = cRun[a].cost + 1] =>
                     x \in CheckRuns /\ x.stage = cRun[a].stage /\ x.cost = cRun[a].cost + 1
<1> DEFINE r == cRun[a]
<1>1. r \in CheckRuns
  BY DEF ChecksTyped
<1>2. r.cost \in Nat /\ r.cost + 1 \in Nat /\ r.stage \in CheckStages /\ r.due \in SUBSET (Batches \cup Items) /\ r.threw \in Flags
  BY <1>1 DEF CheckRuns
<1> HIDE DEF r
<1>3. ASSUME NEW x, x = [r EXCEPT !.stage = st]
      PROVE  x \in CheckRuns /\ x.stage = st /\ x.cost = r.cost
  BY <1>1, <1>3 DEF CheckRuns
<1>4. ASSUME NEW x, x = [r EXCEPT !.stage = st, !.due = due]
      PROVE  x \in CheckRuns /\ x.stage = st /\ x.cost = r.cost
  BY <1>1, <1>4 DEF CheckRuns
<1>5. ASSUME NEW x, x = [r EXCEPT !.stage = st, !.threw = b]
      PROVE  x \in CheckRuns /\ x.stage = st /\ x.cost = r.cost
  BY <1>1, <1>5 DEF CheckRuns
<1>6. ASSUME NEW x, x = [r EXCEPT !.stage = st, !.threw = b, !.due = due]
      PROVE  x \in CheckRuns /\ x.stage = st /\ x.cost = r.cost
  BY <1>1, <1>6 DEF CheckRuns
<1>7. ASSUME NEW x, x = [r EXCEPT !.due = due]
      PROVE  x \in CheckRuns /\ x.stage = r.stage /\ x.cost = r.cost
  BY <1>1, <1>7 DEF CheckRuns
<1>8. ASSUME NEW x, x = [r EXCEPT !.cost = r.cost + 1]
      PROVE  x \in CheckRuns /\ x.stage = r.stage /\ x.cost = r.cost + 1
  BY <1>1, <1>2, <1>8 DEF CheckRuns
<1> QED
  BY <1>2, <1>3, <1>4, <1>5, <1>6, <1>7, <1>8 DEF r

\* Steps that pay nothing, or pay in vain, and write nothing on the ledger.
LEMMA ChecksFree ==
  ASSUME Checks!ChecksBounds, ChecksInv, NEW a \in Checks!Attempts, NEW x, CheckMoves(a, x),
         UNCHANGED <<cLedger, cLate>>, UNCHANGED <<cSpent, cMissed>> \/ Checks!PaysInVain,
         (IF cRun[a].stage = "over" THEN 0 ELSE cRun[a].cost) = (IF x.stage = "over" THEN 0 ELSE x.cost)
  PROVE  ChecksInv'
<1> DEFINE n == IF cRun[a].stage = "over" THEN 0 ELSE cRun[a].cost
<1>1. n \in Nat /\ cSpent \in Nat /\ cLedger \in Nat /\ cMissed \in Nat /\ cLate \in Nat
  BY DEF ChecksInv, ChecksTyped, CheckRuns
<1> HIDE DEF n
<1>2. n = (IF cRun[a].stage = "over" THEN 0 ELSE cRun[a].cost) /\ n = (IF x.stage = "over" THEN 0 ELSE x.cost)
  BY DEF n
<1>3. PICK k \in {0, 1} : cSpent' = cSpent + k /\ cMissed' = cMissed + k
  BY <1>1 DEF Checks!PaysInVain
<1>4. cSpent' \in Nat /\ cMissed' \in Nat /\ cLedger' \in Nat /\ cLate' \in Nat
  BY <1>1, <1>3
<1>5. cSpent' + (cLedger + cMissed + cLate + n) = cSpent + (cLedger' + cMissed' + cLate' + n)
  BY <1>1, <1>3
<1> QED
  BY <1>1, <1>2, <1>4, <1>5, ChecksMoveKeeps

LEMMA ChecksSame ==
  ASSUME Checks!ChecksBounds, ChecksInv, UNCHANGED <<cRun, cLedger, cLate>>,
         UNCHANGED <<cSpent, cMissed>> \/ Checks!PaysInVain
  PROVE  ChecksInv'
<1>1. cSpent \in Nat /\ cLedger \in Nat /\ cMissed \in Nat /\ cLate \in Nat
  BY DEF ChecksInv, ChecksTyped
<1>2. PICK k \in {0, 1} : cSpent' = cSpent + k /\ cMissed' = cMissed + k
  BY <1>1 DEF Checks!PaysInVain
<1> DEFINE t == Total(Unbilled, Checks!Attempts)
<1>3. Unbilled' = Unbilled
  BY DEF Unbilled
<1>4. t \in Nat
  <2>1. IsFiniteSet(Checks!Attempts) /\ \A b \in Checks!Attempts : Unbilled[b] \in Nat
    BY AttemptsFinite DEF Unbilled, ChecksInv, ChecksTyped, CheckRuns
  <2> QED
    BY <2>1, TotalNat
<1>5. cSpent = cLedger + cMissed + cLate + t
  BY DEF ChecksInv, ChecksAddUp
<1> HIDE DEF t
<1>6. cSpent' = cLedger' + cMissed' + cLate' + t /\ cSpent' \in Nat /\ cMissed' \in Nat
  BY <1>1, <1>2, <1>4, <1>5
<1> QED
  BY <1>3, <1>6 DEF ChecksInv, ChecksTyped, NoneBefore, ChecksAddUp, t

\* A paid call is counted by its attempt, or comes too late for it.
LEMMA ChecksPay ==
  ASSUME Checks!ChecksBounds, ChecksInv, NEW a \in Checks!Attempts, Checks!Pays(a), UNCHANGED <<cLedger, cMissed>>
  PROVE  ChecksInv'
<1>1. /\ cRun[a].cost \in Nat /\ cSpent \in Nat /\ cLedger \in Nat /\ cMissed \in Nat /\ cLate \in Nat
      /\ cRun \in [Checks!Attempts -> CheckRuns]
      /\ cSpent' = cSpent + 1
  BY DEF ChecksInv, ChecksTyped, CheckRuns, Checks!Pays
<1>2. CASE Checks!Asking(a)
  <2> DEFINE x == [cRun[a] EXCEPT !.cost = cRun[a].cost + 1]
  <2>1. cRun' = [cRun EXCEPT ![a].cost = cRun[a].cost + 1] /\ cLate' = cLate /\ cRun[a].stage \in {"metrics", "items"}
    BY <1>2 DEF Checks!Pays, Checks!Asking
  <2>2. x \in CheckRuns /\ x.stage = cRun[a].stage /\ x.cost = cRun[a].cost + 1
    <3>1. "over" \in CheckStages /\ FALSE \in Flags /\ {} \in SUBSET (Batches \cup Items)
      BY DEF CheckStages, Flags
    <3> QED
      BY <3>1, CheckRecords DEF ChecksInv
  <2>3. CheckMoves(a, x)
    BY <2>1, <2>2 DEF CheckMoves
  <2> DEFINE n == cRun[a].cost
  <2>4. n \in Nat /\ n + 1 \in Nat /\ n = (IF cRun[a].stage = "over" THEN 0 ELSE cRun[a].cost)
        /\ n + 1 = (IF x.stage = "over" THEN 0 ELSE x.cost)
    BY <1>1, <2>1, <2>2
  <2> HIDE DEF n, x
  <2>5. cSpent' + (cLedger + cMissed + cLate + n) = cSpent + (cLedger' + cMissed' + cLate' + (n + 1))
    BY <1>1, <2>1, <2>4
  <2>6. cSpent' \in Nat /\ cLedger' \in Nat /\ cMissed' \in Nat /\ cLate' \in Nat
    BY <1>1, <2>1
  <2> QED
    BY <2>3, <2>4, <2>5, <2>6, ChecksMoveKeeps
<1>3. CASE ~ Checks!Asking(a)
  <2>1. cRun' = cRun /\ cLate' = cLate + 1
    BY <1>3 DEF Checks!Pays
  <2>2. Unbilled' = Unbilled
    BY <2>1 DEF Unbilled
  <2>3. IsFiniteSet(Checks!Attempts) /\ \A b \in Checks!Attempts : Unbilled[b] \in Nat
    BY AttemptsFinite DEF Unbilled, ChecksInv, ChecksTyped, CheckRuns
  <2>4. Total(Unbilled, Checks!Attempts) \in Nat
    BY <2>3, TotalNat
  <2>5. cSpent' = cLedger' + cMissed' + cLate' + Total(Unbilled', Checks!Attempts)
    <3> DEFINE t == Total(Unbilled, Checks!Attempts)
    <3>1. cSpent = cLedger + cMissed + cLate + t /\ t \in Nat
      BY <2>4 DEF ChecksInv, ChecksAddUp
    <3> HIDE DEF t
    <3>2. cSpent + 1 = cLedger + cMissed + (cLate + 1) + t
      BY <1>1, <3>1
    <3> QED
      BY <1>1, <2>1, <2>2, <3>2 DEF t
  <2>6. ChecksAddUp'
    BY <2>5 DEF ChecksAddUp
  <2> QED
    BY <1>1, <2>1, <2>6 DEF ChecksInv, ChecksTyped, NoneBefore
<1> QED
  BY <1>2, <1>3

\* A lane's step.
LEMMA ChecksLaneSteps ==
  ASSUME Checks!ChecksBounds, ChecksInv, NEW a \in Checks!Attempts, NEW l \in Checks!Lanes, Checks!LaneStep(a, l)
  PROVE  ChecksInv'
<1>0. ChecksTyped /\ cRun[a] \in CheckRuns
  BY DEF ChecksInv, ChecksTyped
<1>1. ASSUME Checks!Rejects(a, l), UNCHANGED <<cLedger, cLate>>, UNCHANGED <<cSpent, cMissed>> \/ Checks!PaysInVain
      PROVE  ChecksInv'
  <2>1. CASE Checks!Asking(a)
    <3> DEFINE due == IF cRun[a].stage = "metrics" THEN {} ELSE cRun[a].due
               x == [cRun[a] EXCEPT !.stage = "bill", !.threw = TRUE, !.due = due]
    <3>1. cRun' = [cRun EXCEPT ![a].stage = "bill", ![a].threw = TRUE, ![a].due = due]
      BY <1>1, <2>1 DEF Checks!Rejects
    <3>2. "bill" \in CheckStages /\ TRUE \in Flags /\ due \in SUBSET (Batches \cup Items)
      BY <1>0 DEF CheckStages, Flags, ChecksTyped, CheckRuns
    <3> HIDE DEF due
    <3>3. x \in CheckRuns /\ x.stage = "bill" /\ x.cost = cRun[a].cost
      BY <1>0, <3>2 DEF CheckRuns
    <3>4. cRun' = [cRun EXCEPT ![a] = x]
      BY <1>0, <3>1 DEF ChecksTyped
    <3>5. CheckMoves(a, x)
      BY <3>3, <3>4 DEF CheckMoves
    <3> HIDE DEF x
    <3> QED
      BY <1>1, <2>1, <3>3, <3>5, ChecksFree DEF Checks!Asking
  <2>2. CASE ~ Checks!Asking(a)
    BY <1>1, <2>2, ChecksSame DEF Checks!Rejects
  <2> QED
    BY <2>1, <2>2
<1>2. CASE Checks!Takes(a, l)
  <2>1. PICK i \in cRun[a].due : cRun' = [cRun EXCEPT ![a].due = cRun[a].due \ {i}]
    BY <1>2 DEF Checks!Takes
  <2> DEFINE due == cRun[a].due \ {i}
             x == [cRun[a] EXCEPT !.due = due]
  <2>2. "over" \in CheckStages /\ TRUE \in Flags /\ due \in SUBSET (Batches \cup Items)
    BY <1>0 DEF CheckStages, Flags, ChecksTyped, CheckRuns
  <2> HIDE DEF due
  <2>3. x \in CheckRuns /\ x.stage = cRun[a].stage /\ x.cost = cRun[a].cost
    BY <1>0, <2>2 DEF CheckRuns
  <2>4. cRun' = [cRun EXCEPT ![a] = x]
    BY <1>0, <2>1 DEF ChecksTyped, due
  <2>5. CheckMoves(a, x)
    BY <2>3, <2>4 DEF CheckMoves, ChecksInv, NoneBefore
  <2>6. UNCHANGED <<cSpent, cLedger, cMissed, cLate>>
    BY <1>2 DEF Checks!Takes
  <2> HIDE DEF x
  <2> QED
    BY <2>3, <2>5, <2>6, ChecksFree
<1>3. CASE Checks!Answered(a, l)
  BY <1>3, ChecksPay DEF Checks!Answered
<1>4. CASE Checks!AskFails(a, l)
  BY <1>1, <1>4, ChecksSame DEF Checks!AskFails
<1>5. CASE Checks!Classified(a, l)
  BY <1>5, ChecksPay, ChecksSame DEF Checks!Classified
<1>6. CASE Checks!Stores(a, l)
  BY <1>6, ChecksSame DEF Checks!Stores
<1>7. CASE Checks!StoreFails(a, l)
  BY <1>1, <1>7 DEF Checks!StoreFails
<1> QED
  BY <1>2, <1>3, <1>4, <1>5, <1>6, <1>7 DEF Checks!LaneStep

\* An attempt that ends, and leaves what it has paid to the ledger or to no one.
LEMMA ChecksEnd ==
  ASSUME Checks!ChecksBounds, ChecksInv, NEW a \in Checks!Attempts, cRun[a].stage # "over", NEW x, CheckMoves(a, x),
         x.stage = "over", UNCHANGED <<cSpent, cLate>>,
         \/ cLedger' = cLedger + cRun[a].cost /\ cMissed' = cMissed
         \/ cMissed' = cMissed + cRun[a].cost /\ cLedger' = cLedger
  PROVE  ChecksInv'
<1> DEFINE n == cRun[a].cost
<1>1. n \in Nat /\ 0 \in Nat /\ cSpent \in Nat /\ cLedger \in Nat /\ cMissed \in Nat /\ cLate \in Nat
  BY DEF ChecksInv, ChecksTyped, CheckRuns
<1>2. n = (IF cRun[a].stage = "over" THEN 0 ELSE cRun[a].cost) /\ 0 = (IF x.stage = "over" THEN 0 ELSE x.cost)
      /\ cSpent' = cSpent /\ cLate' = cLate
      /\ \/ cLedger' = cLedger + n /\ cMissed' = cMissed
         \/ cMissed' = cMissed + n /\ cLedger' = cLedger
  OBVIOUS
<1> HIDE DEF n
<1>3. cLedger' \in Nat /\ cMissed' \in Nat /\ cSpent' \in Nat /\ cLate' \in Nat
  BY <1>1, <1>2
<1>4. cSpent' + (cLedger + cMissed + cLate + n) = cSpent + (cLedger' + cMissed' + cLate' + 0)
  BY <1>1, <1>2
<1> QED
  BY <1>1, <1>2, <1>3, <1>4, ChecksMoveKeeps

LEMMA ChecksRunSteps ==
  ASSUME Checks!ChecksBounds, ChecksInv, NEW a \in Checks!Attempts,
         Checks!AllAsked(a) \/ Checks!Bill(a) \/ Checks!BillFails(a) \/ Checks!Dies(a)
  PROVE  ChecksInv'
<1>1. /\ ChecksTyped /\ {"items", "bill", "over"} \subseteq CheckStages /\ TRUE \in Flags
      /\ cRun \in [Checks!Attempts -> CheckRuns] /\ {} \in SUBSET (Batches \cup Items) /\ cRun[a] \in CheckRuns
  BY DEF ChecksInv, ChecksTyped, CheckStages, Flags
<1>2. CASE Checks!AllAsked(a)
  <2> DEFINE due == Items \ cDone
             y == [cRun[a] EXCEPT !.stage = "items", !.due = due]
             z == [cRun[a] EXCEPT !.stage = "bill"]
  <2>1. /\ UNCHANGED <<cSpent, cLedger, cMissed, cLate>> /\ cRun[a].stage \in {"metrics", "items"}
        /\ \/ cRun' = [cRun EXCEPT ![a].stage = "items", ![a].due = due]
           \/ cRun' = [cRun EXCEPT ![a].stage = "bill"]
    BY <1>2 DEF Checks!AllAsked, Checks!Asking
  <2>2. due \in SUBSET (Batches \cup Items)
    OBVIOUS
  <2> HIDE DEF due
  <2>3. /\ y \in CheckRuns /\ y.stage = "items" /\ y.cost = cRun[a].cost
        /\ z \in CheckRuns /\ z.stage = "bill" /\ z.cost = cRun[a].cost
    BY <1>1, <2>2 DEF CheckRuns
  <2>4. cRun' = [cRun EXCEPT ![a] = y] \/ cRun' = [cRun EXCEPT ![a] = z]
    BY <1>1, <2>1
  <2>5. CheckMoves(a, y) \/ CheckMoves(a, z)
    BY <2>3, <2>4 DEF CheckMoves
  <2> HIDE DEF y, z
  <2> QED
    BY <2>1, <2>3, <2>5, ChecksFree
<1>3. CASE Checks!Bill(a)
  <2> DEFINE x == [cRun[a] EXCEPT !.stage = "over"]
  <2>1. /\ UNCHANGED <<cSpent, cMissed, cLate>> /\ cLedger' = cLedger + cRun[a].cost /\ cRun[a].stage = "bill"
        /\ cRun' = [cRun EXCEPT ![a].stage = "over"]
    BY <1>3 DEF Checks!Bill
  <2>2. x \in CheckRuns /\ x.stage = "over"
    BY <1>1 DEF CheckRuns
  <2>3. CheckMoves(a, x)
    BY <1>1, <2>1, <2>2 DEF CheckMoves
  <2> HIDE DEF x
  <2> QED
    BY <2>1, <2>2, <2>3, ChecksEnd
<1>4. CASE Checks!BillFails(a)
  <2> DEFINE x == [cRun[a] EXCEPT !.stage = "over", !.threw = TRUE]
  <2>1. /\ UNCHANGED <<cSpent, cLedger, cLate>> /\ cMissed' = cMissed + cRun[a].cost /\ cRun[a].stage = "bill"
        /\ cRun' = [cRun EXCEPT ![a].stage = "over", ![a].threw = TRUE]
    BY <1>4 DEF Checks!BillFails
  <2>2. x \in CheckRuns /\ x.stage = "over"
    BY <1>1 DEF CheckRuns
  <2>3. cRun' = [cRun EXCEPT ![a] = x]
    BY <1>1, <2>1
  <2>4. CheckMoves(a, x)
    BY <2>2, <2>3 DEF CheckMoves
  <2> HIDE DEF x
  <2> QED
    BY <2>1, <2>2, <2>4, ChecksEnd
<1>5. CASE Checks!Dies(a)
  <2>1. PICK again \in Flags : cRun' = [cRun EXCEPT ![a].stage = "over", ![a].threw = again, ![a].due = {}]
    BY <1>5 DEF Checks!Dies, Flags
  <2> DEFINE x == [cRun[a] EXCEPT !.stage = "over", !.threw = again, !.due = {}]
  <2>2. UNCHANGED <<cSpent, cLedger, cLate>> /\ cMissed' = cMissed + cRun[a].cost /\ cRun[a].stage # "over"
    BY <1>5 DEF Checks!Dies
  <2>3. x \in CheckRuns /\ x.stage = "over"
    BY <1>1 DEF CheckRuns
  <2>4. cRun' = [cRun EXCEPT ![a] = x]
    BY <1>1, <2>1
  <2>5. CheckMoves(a, x)
    BY <2>3, <2>4 DEF CheckMoves
  <2> HIDE DEF x
  <2> QED
    BY <2>2, <2>3, <2>5, ChecksEnd
<1> QED
  BY <1>2, <1>3, <1>4, <1>5

LEMMA ChecksBegin ==
  ASSUME Checks!ChecksBounds, ChecksInv, Checks!Begin
  PROVE  ChecksInv'
<1>1. /\ ChecksTyped /\ {"metrics", "items", "over"} \subseteq CheckStages /\ TRUE \in Flags
      /\ cRun \in [Checks!Attempts -> CheckRuns] /\ {} \in SUBSET (Batches \cup Items)
      /\ UNCHANGED <<cSpent, cLedger, cMissed, cLate>>
  BY DEF ChecksInv, ChecksTyped, CheckStages, Flags, Checks!Begin
<1>2. PICK a \in Checks!Attempts :
        /\ cRun[a].stage = "none"
        /\ \/ cRun' = [cRun EXCEPT ![a] = [cRun[a] EXCEPT !.stage = "over"]]
           \/ \E st \in {"metrics", "items"}, due \in SUBSET (Batches \cup Items) :
                cRun' = [cRun EXCEPT ![a] = [cRun[a] EXCEPT !.stage = st, !.due = due]]
  <2>1. PICK j \in CheckJobs, k \in 1..MaxAttempts :
          /\ cRun[<<j, k>>].stage = "none"
          /\ cRun' = [cRun EXCEPT ![<<j, k>>] =
               IF cLedger >= Budget THEN [@ EXCEPT !.stage = "over"]
               ELSE IF cTask = "seo" THEN [@ EXCEPT !.stage = "metrics", !.due = Batches \ cDone]
               ELSE [@ EXCEPT !.stage = "items", !.due = Items \ cDone]]
    BY DEF Checks!Begin
  <2>2. <<j, k>> \in Checks!Attempts
    BY DEF Checks!Attempts
  <2>3. Batches \ cDone \in SUBSET (Batches \cup Items) /\ Items \ cDone \in SUBSET (Batches \cup Items)
    OBVIOUS
  <2>4. \/ cRun' = [cRun EXCEPT ![<<j, k>>] = [cRun[<<j, k>>] EXCEPT !.stage = "over"]]
        \/ cRun' = [cRun EXCEPT ![<<j, k>>] = [cRun[<<j, k>>] EXCEPT !.stage = "metrics", !.due = Batches \ cDone]]
        \/ cRun' = [cRun EXCEPT ![<<j, k>>] = [cRun[<<j, k>>] EXCEPT !.stage = "items", !.due = Items \ cDone]]
    BY <2>1
  <2> QED
    BY <2>1, <2>2, <2>3, <2>4
<1>3. cRun[a].cost = 0 /\ cRun[a] \in CheckRuns
  BY <1>1, <1>2 DEF ChecksInv, NoneBefore
<1>4. CASE cRun' = [cRun EXCEPT ![a] = [cRun[a] EXCEPT !.stage = "over"]]
  <2> DEFINE x == [cRun[a] EXCEPT !.stage = "over"]
  <2>1. x \in CheckRuns /\ x.stage = "over" /\ x.cost = 0
    BY <1>1, <1>3 DEF CheckRuns
  <2>2. CheckMoves(a, x)
    BY <1>4, <2>1 DEF CheckMoves
  <2> HIDE DEF x
  <2> QED
    BY <1>1, <1>2, <1>3, <2>1, <2>2, ChecksFree
<1>5. ASSUME NEW st \in {"metrics", "items"}, NEW due \in SUBSET (Batches \cup Items),
             cRun' = [cRun EXCEPT ![a] = [cRun[a] EXCEPT !.stage = st, !.due = due]]
      PROVE  ChecksInv'
  <2> DEFINE x == [cRun[a] EXCEPT !.stage = st, !.due = due]
  <2>1. x \in CheckRuns /\ x.stage = st /\ x.cost = 0
    BY <1>1, <1>3 DEF CheckRuns
  <2>2. CheckMoves(a, x)
    BY <1>5, <2>1 DEF CheckMoves
  <2> HIDE DEF x
  <2> QED
    BY <1>1, <1>2, <1>3, <2>1, <2>2, ChecksFree
<1> QED
  BY <1>2, <1>4, <1>5

LEMMA ChecksStep ==
  ASSUME Checks!ChecksBounds, ChecksInv, [Checks!ChecksNext]_Checks!pvars
  PROVE  ChecksInv'
<1>1. CASE UNCHANGED Checks!pvars
  BY <1>1, ChecksSame DEF Checks!pvars
<1>2. CASE Checks!ChecksNext
  BY <1>2, ChecksBegin, ChecksRunSteps, ChecksLaneSteps DEF Checks!ChecksNext
<1> QED
  BY <1>1, <1>2

LEMMA ChecksStart ==
  ASSUME Checks!ChecksBounds, Checks!ChecksInit
  PROVE  ChecksInv
<1> DEFINE x == [stage |-> "none", due |-> {}, cost |-> 0, threw |-> FALSE]
<1>1. cRun = [a \in Checks!Attempts |-> x] /\ cSpent = 0 /\ cLedger = 0 /\ cMissed = 0 /\ cLate = 0
  BY DEF Checks!ChecksInit
<1>2. x \in CheckRuns /\ x.stage = "none" /\ x.cost = 0
  BY DEF CheckRuns, CheckStages, Flags
<1> HIDE DEF x
<1>3. ChecksTyped /\ NoneBefore
  BY <1>1, <1>2 DEF ChecksTyped, NoneBefore
<1>4. \A a \in Checks!Attempts : Unbilled[a] = 0
  BY <1>1, <1>2 DEF Unbilled
<1>5. Total(Unbilled, Checks!Attempts) = 0
  BY <1>4, AttemptsFinite, TotalZero
<1> QED
  BY <1>1, <1>3, <1>5 DEF ChecksInv, ChecksAddUp

\* The sum of what the attempts hold, as the module writes it, is the total.
LEMMA ChecksSum ==
  ASSUME Checks!ChecksBounds
  PROVE  LET InHand(a) == IF cRun[a].stage = "over" THEN 0 ELSE cRun[a].cost
         IN  Checks!MapThenSumSet(InHand, Checks!Attempts) = Total(Unbilled, Checks!Attempts)
<1> DEFINE InHand(a) == IF cRun[a].stage = "over" THEN 0 ELSE cRun[a].cost
           S == Checks!Attempts
           Iterates(h) == h = [s \in SUBSET S |->
                                 IF s = {} THEN 0
                                 ELSE InHand(CHOOSE x \in s : TRUE) + h[s \ {CHOOSE x \in s : TRUE}]]
<1>0. IsFiniteSet(S)
  BY AttemptsFinite
<1>1. Checks!MapThenSumSet(InHand, S) = (CHOOSE h : Iterates(h))[S]
  BY DEF Checks!MapThenSumSet, Checks!MapThenFoldSet
<1> HIDE DEF S
<1>2. ASSUME NEW h PROVE Iterates(h) <=> Adds(Unbilled, S, h)
  <2>1. [s \in SUBSET S |-> IF s = {} THEN 0
                            ELSE InHand(CHOOSE x \in s : TRUE) + h[s \ {CHOOSE x \in s : TRUE}]]
        = [s \in SUBSET S |-> IF s = {} THEN 0 ELSE Unbilled[FirstOf(s)] + h[s \ {FirstOf(s)}]]
    <3>1. ASSUME NEW s \in SUBSET S, s # {}
          PROVE  InHand(CHOOSE x \in s : TRUE) = Unbilled[FirstOf(s)]
      <4>1. FirstOf(s) \in S
        BY <3>1, FirstIsIn
      <4> QED
        BY <4>1 DEF Unbilled, FirstOf, S
    <3> HIDE DEF InHand
    <3> QED
      BY <3>1 DEF FirstOf
  <2> QED
    BY <2>1 DEF Adds
<1>3. PICK h : Adds(Unbilled, S, h)
  BY <1>0, SumExists
<1> HIDE DEF Iterates
<1>4. Iterates(CHOOSE f : Iterates(f))
  <2>1. Iterates(h)
    BY <1>2, <1>3
  <2> QED
    BY <2>1, Zenon
<1>5. Adds(Unbilled, S, CHOOSE f : Iterates(f))
  BY <1>2, <1>4
<1>6. Checks!MapThenSumSet(InHand, S) = Total(Unbilled, S)
  BY <1>0, <1>1, <1>5, TotalIs
<1> QED
  BY <1>6 DEF S

\* Theorem: what an engine or the search data cost is on the ledger, or with an attempt that is still
\* to bill it, or lost with a crash or a failed write, but for what a lane paid after its attempt had
\* counted (seo.ts, visibility.ts, runForOrg's finally).
THEOREM ChecksLedgerAlways ==
  ASSUME Checks!ChecksBounds
  PROVE  Checks!ChecksSpec => []Checks!ChecksLedger
<1>1. Checks!ChecksInit => ChecksInv
  BY ChecksStart
<1>2. ChecksInv /\ [Checks!ChecksNext]_Checks!pvars => ChecksInv'
  BY ChecksStep
<1>3. ChecksInv => Checks!ChecksLedger
  BY ChecksSum DEF ChecksInv, ChecksAddUp, Checks!ChecksLedger
<1> QED
  BY <1>1, <1>2, <1>3, PTL DEF Checks!ChecksSpec

-----------------------------------------------------------------------------
(* The scoring of inbox items *)

CONSTANTS Inbox, BatchSize, ScoreBudget, ScoreFaults
VARIABLES tTriaged, tLedger, tRun, tFaults, tSpent, tMissed, tAsked, tExcused

Scores == INSTANCE Triage WITH
  Items <- Inbox, Budget <- ScoreBudget, MaxFaults <- ScoreFaults,
  triaged <- tTriaged, ledger <- tLedger, run <- tRun, faults <- tFaults, spent <- tSpent,
  missed <- tMissed, asked <- tAsked, excused <- tExcused

ScoreRuns == [pc : {"idle", "budget", "call", "bill", "mark"}, items : SUBSET Inbox, batch : SUBSET Inbox]
ScoresTyped ==
  /\ tTriaged \subseteq Inbox /\ tAsked \in [Inbox -> Nat]
  /\ tRun \in [Workers -> ScoreRuns]
  /\ tLedger \in Nat /\ tSpent \in Nat /\ tMissed \in Nat
\* The runs that have an answer to write on the ledger, and those that have or may yet.
Billing(r) == {w \in Workers : r[w].pc = "bill"}
Charging(r) == {w \in Workers : r[w].pc \in {"call", "bill"}}
ScoresPaid ==
  /\ tSpent = tLedger + tMissed + Cardinality(Billing(tRun))
  /\ tLedger + Cardinality(Charging(tRun)) < ScoreBudget + Cardinality(Workers)
\* A run has what it has read, and of that its batch, once.
BatchApart ==
  \A w \in Workers :
    /\ tRun[w].items \cap tRun[w].batch = {}
    /\ tRun[w].pc \in {"idle", "budget"} => tRun[w].batch = {}
    /\ tRun[w].pc = "idle" => tRun[w].items = {}
\* An item that only one run has read is not marked while the run has it; and once it was asked
\* about it is marked, or is in a batch that is about to be.
AskedOnce ==
  \A i \in Inbox \ tExcused :
    /\ tAsked[i] <= 1
    /\ tAsked[i] = 1 => i \in tTriaged \/ \E w \in Workers : tRun[w].pc \in {"bill", "mark"} /\ i \in tRun[w].batch
    /\ \A w \in Workers : i \in Scores!InHand(w) =>
         i \notin tTriaged /\ \A v \in Workers \ {w} : i \notin Scores!InHand(v)
ScoresInv == ScoresTyped /\ ScoresPaid /\ BatchApart /\ AskedOnce

\* How a count changes with one element.
LEMMA CountMoves ==
  ASSUME NEW S, IsFiniteSet(S), NEW w \in S, NEW A \in SUBSET S, NEW B \in SUBSET S, A \ {w} = B \ {w}
  PROVE  /\ Cardinality(A) \in Nat /\ Cardinality(B) \in Nat
         /\ Cardinality(A) + (IF w \in B THEN 1 ELSE 0) = Cardinality(B) + (IF w \in A THEN 1 ELSE 0)
<1>1. IsFiniteSet(A) /\ IsFiniteSet(B)
  BY FS_Subset
<1>2. Cardinality(A) \in Nat /\ Cardinality(B) \in Nat
  BY <1>1, FS_CardinalityType
<1>3. /\ Cardinality(A \ {w}) = IF w \in A THEN Cardinality(A) - 1 ELSE Cardinality(A)
      /\ Cardinality(B \ {w}) = IF w \in B THEN Cardinality(B) - 1 ELSE Cardinality(B)
  BY <1>1, FS_RemoveElement
<1>4. Cardinality(A \ {w}) = Cardinality(B \ {w})
  OBVIOUS
<1>5. (IF w \in A THEN Cardinality(A) - 1 ELSE Cardinality(A)) = (IF w \in B THEN Cardinality(B) - 1 ELSE Cardinality(B))
  BY <1>3, <1>4
<1> HIDE <1>3, <1>4
<1> QED
  BY <1>2, <1>5

\* How a step leaves the run of worker w.
ScoreLeft(w, pc, items, batch) ==
  /\ tRun' \in [Workers -> ScoreRuns]
  /\ tRun'[w].pc = pc /\ tRun'[w].items = items /\ tRun'[w].batch = batch
  /\ \A v \in Workers \ {w} : tRun'[v] = tRun[v]

LEMMA ScoreGoes ==
  ASSUME ScoresTyped, NEW w \in Workers, NEW pc \in {"idle", "budget", "call", "bill", "mark"},
         NEW items \in SUBSET Inbox, NEW batch \in SUBSET Inbox,
         \/ tRun' = [tRun EXCEPT ![w] = [pc |-> pc, items |-> items, batch |-> batch]]
         \/ tRun' = [tRun EXCEPT ![w].pc = pc] /\ items = tRun[w].items /\ batch = tRun[w].batch
  PROVE  ScoreLeft(w, pc, items, batch)
BY DEF ScoresTyped, ScoreRuns, ScoreLeft

LEMMA ScoreCounts ==
  ASSUME Scores!TriageParameters, ScoresTyped, NEW w \in Workers, NEW pc, NEW items, NEW batch,
         ScoreLeft(w, pc, items, batch)
  PROVE  /\ Cardinality(Billing(tRun)) \in Nat /\ Cardinality(Billing(tRun')) \in Nat
         /\ Cardinality(Charging(tRun)) \in Nat /\ Cardinality(Charging(tRun')) \in Nat
         /\ Cardinality(Workers) \in Nat /\ ScoreBudget \in Nat
         /\ Cardinality(Billing(tRun')) + (IF tRun[w].pc = "bill" THEN 1 ELSE 0)
            = Cardinality(Billing(tRun)) + (IF pc = "bill" THEN 1 ELSE 0)
         /\ Cardinality(Charging(tRun')) + (IF tRun[w].pc \in {"call", "bill"} THEN 1 ELSE 0)
            = Cardinality(Charging(tRun)) + (IF pc \in {"call", "bill"} THEN 1 ELSE 0)
<1>1. IsFiniteSet(Workers) /\ ScoreBudget \in Nat
  BY DEF Scores!TriageParameters, Scores!IsFiniteSet, IsFiniteSet
<1>2. /\ Billing(tRun') \in SUBSET Workers /\ Billing(tRun) \in SUBSET Workers
      /\ Billing(tRun') \ {w} = Billing(tRun) \ {w}
      /\ w \in Billing(tRun) <=> tRun[w].pc = "bill"
      /\ w \in Billing(tRun') <=> pc = "bill"
  BY DEF Billing, ScoreLeft
<1>3. /\ Charging(tRun') \in SUBSET Workers /\ Charging(tRun) \in SUBSET Workers
      /\ Charging(tRun') \ {w} = Charging(tRun) \ {w}
      /\ w \in Charging(tRun) <=> tRun[w].pc \in {"call", "bill"}
      /\ w \in Charging(tRun') <=> pc \in {"call", "bill"}
  BY DEF Charging, ScoreLeft
<1>4. /\ Cardinality(Billing(tRun)) \in Nat /\ Cardinality(Billing(tRun')) \in Nat
      /\ Cardinality(Billing(tRun')) + (IF w \in Billing(tRun) THEN 1 ELSE 0)
         = Cardinality(Billing(tRun)) + (IF w \in Billing(tRun') THEN 1 ELSE 0)
  BY <1>1, <1>2, CountMoves
<1>5. /\ Cardinality(Charging(tRun)) \in Nat /\ Cardinality(Charging(tRun')) \in Nat
      /\ Cardinality(Charging(tRun')) + (IF w \in Charging(tRun) THEN 1 ELSE 0)
         = Cardinality(Charging(tRun)) + (IF w \in Charging(tRun') THEN 1 ELSE 0)
  BY <1>1, <1>3, CountMoves
<1>6. Cardinality(Workers) \in Nat
  BY <1>1, FS_CardinalityType
<1> QED
  BY <1>1, <1>2, <1>3, <1>4, <1>5, <1>6

\* A step that leaves a run where it was asked to, and whose books are right.
ScoreStep(w, pc, items, batch) ==
  /\ ScoreLeft(w, pc, items, batch)
  /\ tTriaged' \subseteq Inbox /\ tAsked' \in [Inbox -> Nat] /\ tLedger' \in Nat /\ tSpent' \in Nat /\ tMissed' \in Nat
  /\ tSpent' + (tLedger + tMissed + (IF tRun[w].pc = "bill" THEN 1 ELSE 0))
     = tSpent + (tLedger' + tMissed' + (IF pc = "bill" THEN 1 ELSE 0))
  /\ \/ tLedger < ScoreBudget /\ tLedger' = tLedger /\ tRun[w].pc \notin {"call", "bill"}
     \/ tLedger' + (IF pc \in {"call", "bill"} THEN 1 ELSE 0) <= tLedger + (IF tRun[w].pc \in {"call", "bill"} THEN 1 ELSE 0)
  /\ items \cap batch = {} /\ (pc \in {"idle", "budget"} => batch = {}) /\ (pc = "idle" => items = {})

LEMMA StaysBelow ==
  ASSUME NEW l \in Nat, NEW l1 \in Nat, NEW c \in Nat, NEW c1 \in Nat, NEW b \in Nat, NEW s \in Nat,
         NEW was \in Nat, NEW is \in Nat, l1 + is <= l + was, c1 + was = c + is, l + c < b + s
  PROVE  l1 + c1 < b + s
OBVIOUS

LEMMA ScoreBooks ==
  ASSUME Scores!TriageParameters, ScoresInv, NEW w \in Workers, NEW pc, NEW items, NEW batch,
         ScoreStep(w, pc, items, batch)
  PROVE  ScoresTyped' /\ ScoresPaid' /\ BatchApart'
<1>1. ScoresTyped /\ ScoresPaid /\ BatchApart /\ ScoreLeft(w, pc, items, batch)
  BY DEF ScoresInv, ScoreStep
<1>2. ScoresTyped' /\ BatchApart'
  BY <1>1 DEF ScoresTyped, BatchApart, ScoreStep, ScoreLeft
<1>3. /\ Cardinality(Billing(tRun)) \in Nat /\ Cardinality(Billing(tRun')) \in Nat
      /\ Cardinality(Charging(tRun)) \in Nat /\ Cardinality(Charging(tRun')) \in Nat
      /\ Cardinality(Workers) \in Nat /\ ScoreBudget \in Nat
      /\ Cardinality(Billing(tRun')) + (IF tRun[w].pc = "bill" THEN 1 ELSE 0)
         = Cardinality(Billing(tRun)) + (IF pc = "bill" THEN 1 ELSE 0)
      /\ Cardinality(Charging(tRun')) + (IF tRun[w].pc \in {"call", "bill"} THEN 1 ELSE 0)
         = Cardinality(Charging(tRun)) + (IF pc \in {"call", "bill"} THEN 1 ELSE 0)
  BY <1>1, ScoreCounts
<1>4. tSpent' = tLedger' + tMissed' + Cardinality(Billing(tRun'))
  BY <1>1, <1>3 DEF ScoresTyped, ScoresPaid, ScoreStep
<1>5. tLedger' + Cardinality(Charging(tRun')) < ScoreBudget + Cardinality(Workers)
  <2>1. CASE tLedger < ScoreBudget /\ tLedger' = tLedger /\ tRun[w].pc \notin {"call", "bill"}
    \* w is not among them yet, so they are less than all.
    <3>1. Cardinality(Charging(tRun)) < Cardinality(Workers)
      <4>1. IsFiniteSet(Workers) /\ Charging(tRun) \in SUBSET Workers /\ Charging(tRun) # Workers
        BY <2>1 DEF Scores!TriageParameters, Scores!IsFiniteSet, IsFiniteSet, Charging
      <4> QED
        BY <1>3, <4>1, FS_Subset
    <3> QED
      BY <1>1, <1>3, <2>1, <3>1 DEF ScoresTyped
  <2>2. CASE tLedger' + (IF pc \in {"call", "bill"} THEN 1 ELSE 0) <= tLedger + (IF tRun[w].pc \in {"call", "bill"} THEN 1 ELSE 0)
    <3> DEFINE was == IF tRun[w].pc \in {"call", "bill"} THEN 1 ELSE 0
               is == IF pc \in {"call", "bill"} THEN 1 ELSE 0
    <3>1. /\ was \in Nat /\ is \in Nat /\ tLedger' + is <= tLedger + was
          /\ Cardinality(Charging(tRun')) + was = Cardinality(Charging(tRun)) + is
          /\ Cardinality(Charging(tRun)) \in Nat /\ Cardinality(Charging(tRun')) \in Nat
          /\ Cardinality(Workers) \in Nat /\ ScoreBudget \in Nat
      BY <1>3, <2>2
    <3>2. tLedger \in Nat /\ tLedger' \in Nat /\ tLedger + Cardinality(Charging(tRun)) < ScoreBudget + Cardinality(Workers)
      BY <1>1 DEF ScoresTyped, ScoresPaid, ScoreStep
    <3> HIDE DEF was, is
    <3> QED
      BY <3>1, <3>2, StaysBelow
  <2> QED
    BY <2>1, <2>2 DEF ScoreStep
<1> QED
  BY <1>2, <1>4, <1>5 DEF ScoresPaid

\* What a step of worker w does to the items: those it had stay its own, or are let go.
LEMMA ItemsStayItsOwn ==
  ASSUME ScoresInv, NEW w \in Workers, NEW pc, NEW items, NEW batch, ScoreStep(w, pc, items, batch),
         tExcused \subseteq tExcused', items \subseteq tRun[w].items, batch \subseteq Scores!InHand(w),
         \A i \in Inbox \ tExcused' : i \in tTriaged' <=> i \in tTriaged \/ (tRun[w].pc = "mark" /\ i \in tRun[w].batch),
         tRun[w].pc = "mark" => batch = {},
         \/ /\ UNCHANGED tAsked
            /\ tRun[w].pc \in {"bill", "mark"} => \/ pc \in {"bill", "mark"} /\ batch = tRun[w].batch
                                                \/ tRun[w].batch \subseteq tTriaged' \cup tExcused'
         \/ tAsked' = Scores!Asks(w) /\ tRun[w].pc = "call" /\ pc \in {"bill", "mark"} /\ batch = tRun[w].batch
  PROVE  AskedOnce'
<1>1. /\ \A v \in Workers \ {w} : tRun'[v] = tRun[v]
      /\ tRun'[w].pc = pc /\ tRun'[w].items = items /\ tRun'[w].batch = batch
      /\ \A v \in Workers : tRun'[v].items \cup tRun'[v].batch \subseteq Scores!InHand(v)
  BY DEF ScoreStep, ScoreLeft, Scores!InHand
<1> SUFFICES ASSUME NEW i \in Inbox \ tExcused'
             PROVE  /\ tAsked'[i] <= 1
                    /\ tAsked'[i] = 1 => i \in tTriaged' \/ \E v \in Workers : tRun'[v].pc \in {"bill", "mark"} /\ i \in tRun'[v].batch
                    /\ \A v \in Workers : i \in Scores!InHand(v)' =>
                         i \notin tTriaged' /\ \A u \in Workers \ {v} : i \notin Scores!InHand(u)'
  BY DEF AskedOnce
<1>2. i \in Inbox \ tExcused
  OBVIOUS
<1>3. /\ tAsked[i] <= 1 /\ tAsked[i] \in Nat
      /\ tAsked[i] = 1 => i \in tTriaged \/ \E v \in Workers : tRun[v].pc \in {"bill", "mark"} /\ i \in tRun[v].batch
      /\ \A v \in Workers : i \in Scores!InHand(v) =>
           i \notin tTriaged /\ \A u \in Workers \ {v} : i \notin Scores!InHand(u)
  BY <1>2 DEF ScoresInv, AskedOnce, ScoresTyped
<1>4. \A v \in Workers : i \in Scores!InHand(v)' => i \in Scores!InHand(v)
  BY <1>1 DEF Scores!InHand
<1>5. \A v \in Workers : i \in Scores!InHand(v)' =>
        i \notin tTriaged' /\ \A u \in Workers \ {v} : i \notin Scores!InHand(u)'
  <2> SUFFICES ASSUME NEW v \in Workers, i \in Scores!InHand(v)'
               PROVE  i \notin tTriaged' /\ \A u \in Workers \ {v} : i \notin Scores!InHand(u)'
    OBVIOUS
  <2>1. i \notin tTriaged /\ \A u \in Workers \ {v} : i \notin Scores!InHand(u)
    BY <1>3, <1>4
  <2>2. ASSUME tRun[w].pc = "mark", i \in tRun[w].batch PROVE FALSE
    <3>1. v = w
      BY <2>1, <2>2 DEF Scores!InHand
    <3>2. i \in items
      BY <1>1, <2>2, <3>1 DEF Scores!InHand
    <3>3. i \in tRun[w].items /\ tRun[w].items \cap tRun[w].batch = {}
      BY <3>2 DEF ScoresInv, BatchApart
    <3> QED
      BY <2>2, <3>3
  <2>3. i \in tTriaged' <=> i \in tTriaged \/ (tRun[w].pc = "mark" /\ i \in tRun[w].batch)
    OBVIOUS
  <2> QED
    BY <1>4, <2>1, <2>2, <2>3
<1>6. i \in tTriaged => i \in tTriaged'
  OBVIOUS
<1>7. CASE UNCHANGED tAsked
  <2>1. \/ tRun[w].pc \notin {"bill", "mark"}
        \/ pc \in {"bill", "mark"} /\ batch = tRun[w].batch
        \/ tRun[w].batch \subseteq tTriaged' \cup tExcused'
        \/ tAsked' = Scores!Asks(w) /\ tRun[w].pc = "call"
    OBVIOUS
  <2>2. \A v \in Workers : tRun[v].pc \in {"bill", "mark"} /\ i \in tRun[v].batch =>
          i \in tTriaged' \/ (tRun'[v].pc \in {"bill", "mark"} /\ i \in tRun'[v].batch)
    BY <1>1, <2>1
  <2> QED
    BY <1>3, <1>5, <1>6, <1>7, <2>2
<1>8. CASE tAsked' = Scores!Asks(w) /\ tRun[w].pc = "call" /\ pc \in {"bill", "mark"} /\ batch = tRun[w].batch
  <2>1. tAsked'[i] = tAsked[i] + (IF i \in tRun[w].batch THEN 1 ELSE 0)
    BY <1>8 DEF Scores!Asks
  <2>2. CASE i \in tRun[w].batch
    <3>1. i \in Scores!InHand(w) /\ \A v \in Workers : i \in tRun[v].batch => i \in Scores!InHand(v)
      BY <2>2 DEF Scores!InHand
    <3>2. tAsked[i] # 1
      BY <1>3, <1>8, <3>1
    <3>3. tAsked'[i] = 1
      BY <1>3, <2>1, <2>2, <3>2
    <3>4. tRun'[w].pc \in {"bill", "mark"} /\ i \in tRun'[w].batch
      BY <1>1, <1>8, <2>2
    <3> QED
      BY <1>5, <3>3, <3>4
  <2>3. CASE i \notin tRun[w].batch
    <3>1. tAsked'[i] = tAsked[i]
      BY <1>3, <2>1, <2>3
    <3>2. \A v \in Workers : tRun[v].pc \in {"bill", "mark"} /\ i \in tRun[v].batch =>
            tRun'[v].pc \in {"bill", "mark"} /\ i \in tRun'[v].batch
      BY <1>1, <2>3
    <3> QED
      BY <1>3, <1>5, <1>6, <3>1, <3>2
  <2> QED
    BY <2>2, <2>3
<1> QED
  BY <1>7, <1>8

\* A run reads what there is to score; what another has read too is counted as such.
LEMMA ScoresStart ==
  ASSUME Scores!TriageParameters, ScoresInv, NEW w \in Workers, Scores!Start(w)
  PROVE  ScoresInv'
<1>1. /\ tRun' = [tRun EXCEPT ![w] = [pc |-> "budget", items |-> Inbox \ tTriaged, batch |-> {}]]
      /\ tExcused' = tExcused \cup ((Inbox \ tTriaged) \cap UNION {Scores!InHand(o) : o \in Workers})
      /\ UNCHANGED <<tTriaged, tLedger, tSpent, tMissed, tAsked>> /\ tRun[w].pc = "idle"
  BY DEF Scores!Start, Scores!At
<1>2. ScoreLeft(w, "budget", Inbox \ tTriaged, {})
  BY <1>1, ScoreGoes DEF ScoresInv
<1>3. ScoreStep(w, "budget", Inbox \ tTriaged, {})
  BY <1>1, <1>2 DEF ScoreStep, ScoresInv, ScoresTyped
<1>4. ScoresTyped' /\ ScoresPaid' /\ BatchApart'
  BY <1>3, ScoreBooks
<1>5. ASSUME NEW i \in Inbox \ tExcused'
      PROVE  /\ tAsked'[i] <= 1
             /\ tAsked'[i] = 1 => i \in tTriaged' \/ \E v \in Workers : tRun'[v].pc \in {"bill", "mark"} /\ i \in tRun'[v].batch
             /\ \A v \in Workers : i \in Scores!InHand(v)' =>
                  i \notin tTriaged' /\ \A u \in Workers \ {v} : i \notin Scores!InHand(u)'
  <2>1. i \in Inbox \ tExcused
    BY <1>1, <1>5
  <2>2. i \in tTriaged \/ \A o \in Workers : i \notin Scores!InHand(o)
    BY <1>1, <1>5
  <2>3. /\ tAsked[i] <= 1
        /\ tAsked[i] = 1 => i \in tTriaged \/ \E v \in Workers : tRun[v].pc \in {"bill", "mark"} /\ i \in tRun[v].batch
        /\ \A v \in Workers : i \in Scores!InHand(v) =>
             i \notin tTriaged /\ \A u \in Workers \ {v} : i \notin Scores!InHand(u)
    BY <2>1 DEF ScoresInv, AskedOnce
  <2>4. /\ \A v \in Workers \ {w} : tRun'[v] = tRun[v]
        /\ tRun'[w].items = Inbox \ tTriaged /\ tRun'[w].batch = {}
    BY <1>2 DEF ScoreLeft
  <2>5. \A v \in Workers : i \in tRun[v].batch => i \in Scores!InHand(v)
    BY DEF Scores!InHand
  <2>6. tAsked'[i] = 1 => i \in tTriaged'
    BY <1>1, <2>2, <2>3, <2>5
  <2>7. \A v \in Workers : i \in Scores!InHand(v)' =>
          i \notin tTriaged' /\ \A u \in Workers \ {v} : i \notin Scores!InHand(u)'
    BY <1>1, <2>2, <2>3, <2>4 DEF Scores!InHand
  <2> QED
    BY <1>1, <2>3, <2>6, <2>7
<1>6. AskedOnce'
  BY <1>5 DEF AskedOnce
<1> QED
  BY <1>4, <1>6 DEF ScoresInv

LEMMA ScoresStep ==
  ASSUME Scores!TriageParameters, ScoresInv, [Scores!TriageNext]_Scores!tvars
  PROVE  ScoresInv'
<1>1. ASSUME NEW w \in Workers, Scores!AskBudget(w) PROVE ScoresInv'
  <2>1. /\ UNCHANGED <<tTriaged, tLedger, tSpent, tMissed, tAsked, tExcused>> /\ tRun[w].pc = "budget" /\ tRun[w].batch = {}
        /\ tRun[w].items \subseteq Inbox
    BY <1>1 DEF Scores!AskBudget, Scores!At, ScoresInv, BatchApart, ScoresTyped, ScoreRuns
  <2>2. CASE tRun' = [tRun EXCEPT ![w] = Scores!NoRun]
    <3>1. ScoreLeft(w, "idle", {}, {})
      BY <2>2, ScoreGoes DEF ScoresInv, Scores!NoRun
    <3>2. ScoreStep(w, "idle", {}, {})
      BY <2>1, <3>1 DEF ScoreStep, ScoresInv, ScoresTyped
    <3> QED
      BY <2>1, <3>2, ScoreBooks, ItemsStayItsOwn DEF ScoresInv
  <2>3. ASSUME NEW b \in SUBSET tRun[w].items, tLedger < ScoreBudget,
               tRun' = [tRun EXCEPT ![w] = [pc |-> "call", items |-> tRun[w].items \ b, batch |-> b]]
        PROVE  ScoresInv'
    <3>1. ScoreLeft(w, "call", tRun[w].items \ b, b)
      BY <2>1, <2>3, ScoreGoes DEF ScoresInv
    <3>2. ScoreStep(w, "call", tRun[w].items \ b, b)
      BY <2>1, <2>3, <3>1 DEF ScoreStep, ScoresInv, ScoresTyped
    <3>3. b \subseteq Scores!InHand(w)
      BY DEF Scores!InHand
    <3> QED
      BY <2>1, <3>2, <3>3, ScoreBooks, ItemsStayItsOwn DEF ScoresInv
  <2> QED
    BY <1>1, <2>2, <2>3 DEF Scores!AskBudget, Scores!Ends, Scores!WithinBudget
<1>2. ASSUME NEW w \in Workers, Scores!Answered(w) \/ Scores!Billed(w) PROVE ScoresInv'
  <2>1. PICK pc \in {"bill", "mark"} : tRun' = [tRun EXCEPT ![w].pc = pc] /\ (pc = "bill" <=> Scores!Answered(w))
    BY <1>2 DEF Scores!Answered, Scores!Billed, Scores!At
  <2>2. tRun[w].items \subseteq Inbox /\ tRun[w].batch \subseteq Inbox /\ tRun[w].items \cap tRun[w].batch = {}
    BY DEF ScoresInv, BatchApart, ScoresTyped, ScoreRuns
  <2>3. ScoreLeft(w, pc, tRun[w].items, tRun[w].batch)
    BY <2>1, <2>2, ScoreGoes DEF ScoresInv
  <2>4. /\ UNCHANGED <<tTriaged, tMissed, tExcused>>
        /\ \/ /\ pc = "bill" /\ tRun[w].pc = "call"
              /\ tSpent' = tSpent + 1 /\ tAsked' = Scores!Asks(w) /\ tLedger' = tLedger
           \/ /\ pc = "mark" /\ tRun[w].pc = "bill" /\ tLedger' = tLedger + 1 /\ UNCHANGED <<tSpent, tAsked>>
    BY <1>2, <2>1 DEF Scores!Answered, Scores!Billed, Scores!At
  <2>5. tAsked' \in [Inbox -> Nat]
    BY <2>4 DEF ScoresInv, ScoresTyped, Scores!Asks
  <2>6. ScoreStep(w, pc, tRun[w].items, tRun[w].batch)
    BY <2>1, <2>2, <2>3, <2>4, <2>5 DEF ScoreStep, ScoresInv, ScoresTyped
  <2>7. tRun[w].batch \subseteq Scores!InHand(w)
    BY DEF Scores!InHand
  <2>8. AskedOnce'
    <3>1. /\ tExcused \subseteq tExcused' /\ tRun[w].pc # "mark"
          /\ \A i \in Inbox \ tExcused' : i \in tTriaged' <=> i \in tTriaged \/ (tRun[w].pc = "mark" /\ i \in tRun[w].batch)
          /\ \/ UNCHANGED tAsked
             \/ tAsked' = Scores!Asks(w) /\ tRun[w].pc = "call"
      BY <2>4
    <3> QED
      BY <2>1, <2>6, <2>7, <3>1, ItemsStayItsOwn
  <2> QED
    BY <2>6, <2>8, ScoreBooks DEF ScoresInv
<1>3. ASSUME NEW w \in Workers, Scores!Failed(w) PROVE ScoresInv'
  <2>1. PICK charged \in {0, 1}, refused \in BOOLEAN :
          /\ tSpent' = tSpent + charged /\ tMissed' = tMissed + charged
          /\ IF refused THEN tRun' = [tRun EXCEPT ![w].pc = "mark"] /\ tAsked' = Scores!Asks(w)
                        ELSE tRun' = [tRun EXCEPT ![w] = Scores!NoRun] /\ UNCHANGED tAsked
    BY <1>3 DEF Scores!Failed, Scores!Ends
  <2>2. UNCHANGED <<tTriaged, tLedger, tExcused>> /\ tRun[w].pc = "call"
    BY <1>3 DEF Scores!Failed, Scores!At
  <2>3. tRun[w].items \subseteq Inbox /\ tRun[w].batch \subseteq Inbox /\ tRun[w].items \cap tRun[w].batch = {}
    BY DEF ScoresInv, BatchApart, ScoresTyped, ScoreRuns
  <2>4. CASE refused
    <3>1. ScoreLeft(w, "mark", tRun[w].items, tRun[w].batch)
      BY <2>1, <2>3, <2>4, ScoreGoes DEF ScoresInv
    <3>2. tAsked' \in [Inbox -> Nat]
      BY <2>1, <2>4 DEF ScoresInv, ScoresTyped, Scores!Asks
    <3>3. ScoreStep(w, "mark", tRun[w].items, tRun[w].batch)
      BY <2>1, <2>2, <2>3, <3>1, <3>2 DEF ScoreStep, ScoresInv, ScoresTyped
    <3>4. tRun[w].batch \subseteq Scores!InHand(w)
      BY DEF Scores!InHand
    <3> QED
      BY <2>1, <2>2, <2>4, <3>3, <3>4, ScoreBooks, ItemsStayItsOwn DEF ScoresInv
  <2>5. CASE ~ refused
    <3>1. ScoreLeft(w, "idle", {}, {})
      BY <2>1, <2>5, ScoreGoes DEF ScoresInv, Scores!NoRun
    <3>2. ScoreStep(w, "idle", {}, {})
      BY <2>1, <2>2, <2>5, <3>1 DEF ScoreStep, ScoresInv, ScoresTyped
    <3> QED
      BY <2>1, <2>2, <2>5, <3>2, ScoreBooks, ItemsStayItsOwn DEF ScoresInv
  <2> QED
    BY <2>4, <2>5
<1>4. ASSUME NEW w \in Workers, Scores!Mark(w) PROVE ScoresInv'
  <2>1. /\ tTriaged' = tTriaged \cup tRun[w].batch /\ tRun[w].pc = "mark"
        /\ tRun' = [tRun EXCEPT ![w] = [pc |-> "budget", items |-> tRun[w].items, batch |-> {}]]
        /\ UNCHANGED <<tLedger, tSpent, tMissed, tAsked, tExcused>>
    BY <1>4 DEF Scores!Mark, Scores!At
  <2>2. tRun[w].items \subseteq Inbox /\ tRun[w].batch \subseteq Inbox
    BY DEF ScoresInv, ScoresTyped, ScoreRuns
  <2>3. ScoreLeft(w, "budget", tRun[w].items, {})
    BY <2>1, <2>2, ScoreGoes DEF ScoresInv
  <2>4. ScoreStep(w, "budget", tRun[w].items, {})
    BY <2>1, <2>2, <2>3 DEF ScoreStep, ScoresInv, ScoresTyped
  <2> QED
    BY <2>1, <2>4, ScoreBooks, ItemsStayItsOwn DEF ScoresInv
<1>5. ASSUME NEW w \in Workers, Scores!Dies(w) PROVE ScoresInv'
  <2>1. /\ tRun[w].pc \in {"bill", "mark"} /\ tMissed' = tMissed + (IF tRun[w].pc = "bill" THEN 1 ELSE 0)
        /\ tExcused' = tExcused \cup tRun[w].batch /\ tRun' = [tRun EXCEPT ![w] = Scores!NoRun]
        /\ UNCHANGED <<tTriaged, tLedger, tSpent, tAsked>>
    BY <1>5 DEF Scores!Dies, Scores!At, Scores!Ends
  <2>2. ScoreLeft(w, "idle", {}, {})
    BY <2>1, ScoreGoes DEF ScoresInv, Scores!NoRun
  <2>3. ScoreStep(w, "idle", {}, {})
    BY <2>1, <2>2 DEF ScoreStep, ScoresInv, ScoresTyped
  <2> QED
    BY <2>1, <2>3, ScoreBooks, ItemsStayItsOwn DEF ScoresInv
<1>6. CASE UNCHANGED Scores!tvars
  BY <1>6 DEF Scores!tvars, ScoresInv, ScoresTyped, ScoresPaid, BatchApart, AskedOnce, Scores!InHand
<1> QED
  BY <1>1, <1>2, <1>3, <1>4, <1>5, <1>6, ScoresStart DEF Scores!TriageNext

\* Theorem: what the scores cost is on the ledger, but for what failed or was cut off; the ledger
\* passes the budget by less than a call of each run; and no item is asked about twice, but for
\* what two runs had read or one could not store (engagement-processor.ts).
THEOREM ScoresPaidAlways ==
  ASSUME Scores!TriageParameters
  PROVE  Scores!TriageSpec => []Scores!TriageLedger
<1>1. Scores!TriageInit => ScoresInv
  <2> SUFFICES ASSUME Scores!TriageInit PROVE ScoresInv
    OBVIOUS
  <2>1. /\ tTriaged = {} /\ tLedger = 0 /\ tSpent = 0 /\ tMissed = 0 /\ tAsked = [i \in Inbox |-> 0] /\ tExcused = {}
        /\ tRun = [w \in Workers |-> Scores!NoRun]
    BY DEF Scores!TriageInit
  <2>2. ScoresTyped /\ BatchApart /\ AskedOnce
    BY <2>1 DEF ScoresTyped, BatchApart, AskedOnce, ScoreRuns, Scores!NoRun, Scores!InHand
  <2>3. Billing(tRun) = {} /\ Charging(tRun) = {}
    BY <2>1 DEF Billing, Charging, Scores!NoRun
  <2>4. Cardinality(Workers) \in Nat \ {0} /\ ScoreBudget \in Nat
    BY FS_CardinalityType, FS_EmptySet DEF Scores!TriageParameters, Scores!IsFiniteSet, IsFiniteSet
  <2>5. ScoresPaid
    BY <2>1, <2>3, <2>4, FS_EmptySet DEF ScoresPaid
  <2> QED
    BY <2>2, <2>5 DEF ScoresInv
<1>2. ScoresInv /\ [Scores!TriageNext]_Scores!tvars => ScoresInv'
  BY ScoresStep
<1>3. ScoresInv => Scores!TriageLedger
  <2> SUFFICES ASSUME ScoresInv PROVE Scores!TriageLedger
    OBVIOUS
  <2>1. \A S : Scores!Cardinality(S) = Cardinality(S)
    BY DEF Scores!Cardinality, Cardinality
  <2>2. {w \in Workers : Scores!At(w, "bill")} = Billing(tRun)
    BY DEF Billing, Scores!At
  <2>3. Cardinality(Charging(tRun)) \in Nat /\ Cardinality(Workers) \in Nat /\ ScoreBudget \in Nat
    <3>1. IsFiniteSet(Workers) /\ ScoreBudget \in Nat
      BY DEF Scores!TriageParameters, Scores!IsFiniteSet, IsFiniteSet
    <3>2. Charging(tRun) \in SUBSET Workers
      BY DEF Charging
    <3> QED
      BY <3>1, <3>2, FS_CardinalityType, FS_Subset
  <2>4. tLedger < ScoreBudget + Cardinality(Workers)
    BY <2>3 DEF ScoresInv, ScoresPaid, ScoresTyped
  <2>5. \A i \in Inbox \ tExcused : tAsked[i] <= 1
    BY DEF ScoresInv, AskedOnce
  <2> QED
    BY <2>1, <2>2, <2>4, <2>5 DEF ScoresInv, ScoresPaid, Scores!TriageLedger
<1> QED
  BY <1>1, <1>2, <1>3, PTL DEF Scores!TriageSpec

=============================================================================
