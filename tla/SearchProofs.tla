---------------------------- MODULE SearchProofs ----------------------------
(***************************************************************************)
(* Proofs about the collectors of the platforms, for any catalogue, any    *)
(* answers, any number of keywords and attempts and any caps.              *)
(*                                                                         *)
(* The inductive invariant, SearchIInv, says what the agenda is worth at   *)
(* every moment: each request collect set out with has been made or is     *)
(* still on it, unless it is one that another's success makes superfluous; *)
(* the request after a search that has such a fallback is that fallback,   *)
(* so that passing over it loses nothing else; and only the agenda of a    *)
(* collector that may raise holds a request that does.  What is due is in  *)
(* the list, and so is what is new and relevant of the ids seen, for a     *)
(* duplicate is passed over because its first occurrence was kept.         *)
(***************************************************************************)
EXTENDS PlatformSearch, FiniteSetTheorems, FunctionTheorems, TLAPS

(* What is asked of a platform.                                            *)
Asks ==
    {"twitter", "tiktok", "bluesky", "pinterest", "threads", "discord", "telegram", "newsapi", "rss",
     "listennotes", "podcastindex", "trustpilot", "yelp", "g2", "apple", "play", "reddit", "fts",
     "doc", "tv", "statuses", "hashtag", "quora", "quorapage", "websearch", "page", "site", "videos",
     "video", "videocomments", "pages", "posts", "post", "tagged", "comments", "raise", "account",
     "media", "mediacomments", "mentioned", "tag", "organization", "orgposts", "orgcomments",
     "orgmentions", "ownposts"}

SearchRequests == [ask : Asks, of : Nat \cup DOMAIN Catalogue]

Restartable == {"facebook", "mastodon"}

Deduplicating == {"reddit", "fts", "doc", "tv"}

(* What a request on an agenda says of its collector and its subject.      *)
Suits(r, name) ==
    /\ r.ask \in {"statuses", "hashtag"} => name = "mastodon"
    /\ r.ask \in {"pages", "posts", "raise"} => name = "facebook"
    /\ r.ask \in Deduplicating => name \notin Restartable
    /\ r.ask \in {"page", "quorapage", "video", "post"} => r.of \in DOMAIN Catalogue

(* A search that has a fallback is followed by it.                         *)
Paired(plan, ask, fallback) ==
    \A i \in DOMAIN plan :
        plan[i].ask = ask => i + 1 \in DOMAIN plan /\ plan[i + 1].ask = fallback

IsPlan(plan, name) ==
    /\ plan \in Seq(SearchRequests)
    /\ \A i \in DOMAIN plan : Suits(plan[i], name)
    /\ Paired(plan, "fts", "doc")
    /\ Paired(plan, "statuses", "hashtag")

NothingAsked ==
    /\ setOut = <<>> /\ agenda = <<>> /\ seen = <<>>
    /\ outcome = "none" /\ attempt = 0 /\ length = 0
    /\ mentions = {} /\ asked = {} /\ due = {} /\ fresh = {}

SearchIInv ==
    /\ SearchTypeOK
    /\ length \in Nat
    /\ seen \in Seq(DOMAIN Catalogue)
    /\ platform = "none" => NothingAsked
    /\ IsPlan(setOut, platform)
    /\ IsPlan(agenda, platform)
    /\ outcome \in {"searching", "done"} =>
          \A r \in Range(setOut) : r.ask \in Fallbacks \/ r \in asked \/ r \in Range(agenda)
    /\ outcome = "done" => agenda = <<>>
    /\ due \subseteq mentions
    /\ outcome = "raised" \/ attempt > 1 => platform \in Restartable
    /\ platform \in Restartable => seen = <<>>
    /\ NewAndRelevant(seen) \subseteq mentions

-----------------------------------------------------------------------------
(* Selections from a sequence.                                             *)

(* The smallest of the segments 0 .. n up to numbers of S is up to the     *)
(* least of them.                                                          *)
LEMMA LeastOfNumbers ==
    ASSUME NEW S \in SUBSET Nat, S # {}
    PROVE  \E n \in S : \A m \in S : n <= m
<1> DEFINE Segments == {0 .. n : n \in S}
<1>1. PICK top : top \in S
  OBVIOUS
<1>2. Segments \subseteq FiniteSubsetsOf(Nat) /\ Segments # {}
  <2>1. ASSUME NEW n \in S PROVE 0 .. n \subseteq Nat /\ IsFiniteSet(0 .. n)
    BY FS_Interval
  <2>2. QED
    BY <1>1, <2>1 DEF FiniteSubsetsOf
<1>3. IsWellFoundedOn(StrictSubsetOrdering(Nat), FiniteSubsetsOf(Nat))
  BY FS_StrictSubsetOrderingWellFounded
<1>4. PICK small \in Segments : \A other \in Segments : <<other, small>> \notin StrictSubsetOrdering(Nat)
  BY <1>2, <1>3, WFMin
<1>5. PICK n \in S : small = 0 .. n
  BY <1>4
<1>6. ASSUME NEW m \in S, m < n PROVE FALSE
  <2>1. 0 .. m \subseteq 0 .. n /\ n \in 0 .. n /\ n \notin 0 .. m /\ 0 .. n \subseteq Nat
    BY <1>6
  <2>2. 0 .. m \in Segments
    OBVIOUS
  <2>3. <<0 .. m, small>> \in StrictSubsetOrdering(Nat)
    BY <1>5, <2>1 DEF StrictSubsetOrdering
  <2>4. QED
    BY <1>4, <2>2, <2>3
<1>7. QED
  BY <1>6

(* Of numbered places the nth is one, each has a number of its own, and so *)
(* the items at some places of a sequence are a sequence of just those.    *)
LEMMA ItemsAtPlaces ==
    ASSUME NEW S, NEW items \in Seq(S), NEW places \in SUBSET DOMAIN items
    PROVE  /\ ItemsAt(items, places) \in Seq(S)
           /\ Range(ItemsAt(items, places)) = {items[n] : n \in places}
<1> DEFINE Upto(n) == {m \in places : m <= n}
           Rank == [n \in places |-> Cardinality(Upto(n))]
           count == Cardinality(places)
           nth(i) == CHOOSE n \in places : Cardinality({m \in places : m <= n}) = i
<1>1. DOMAIN items = 1 .. Len(items) /\ Len(items) \in Nat
  OBVIOUS
<1>2. IsFiniteSet(places) /\ count \in Nat
  <2>1. IsFiniteSet(1 .. Len(items)) /\ places \in SUBSET (1 .. Len(items))
    BY <1>1, FS_Interval
  <2>2. QED
    BY <2>1, FS_Subset, FS_CardinalityType
<1>3. ASSUME NEW n \in places PROVE IsFiniteSet(Upto(n)) /\ Rank[n] \in 1 .. count
  <2>1. Upto(n) \in SUBSET places /\ n \in Upto(n)
    BY <1>1
  <2>2. IsFiniteSet(Upto(n)) /\ Cardinality(Upto(n)) <= count
    BY <1>2, <2>1, FS_Subset
  <2>3. Cardinality(Upto(n)) \in Nat /\ Cardinality(Upto(n)) # 0
    BY <2>1, <2>2, FS_CardinalityType, FS_EmptySet
  <2>4. QED
    BY <1>2, <2>2, <2>3
<1> HIDE DEF Rank, count, Upto
<1>4. ASSUME NEW m \in places, NEW n \in places, m < n PROVE Rank[m] < Rank[n]
  <2>1. Upto(m) \in SUBSET Upto(n) /\ n \in Upto(n) /\ n \notin Upto(m)
    BY <1>1, <1>4 DEF Upto
  <2>2. Cardinality(Upto(m)) <= Cardinality(Upto(n)) /\ Cardinality(Upto(m)) # Cardinality(Upto(n))
    BY <1>3, <2>1, FS_Subset
  <2>3. Rank[m] \in Nat /\ Rank[n] \in Nat
    BY <1>2, <1>3
  <2>4. Rank[m] = Cardinality(Upto(m)) /\ Rank[n] = Cardinality(Upto(n))
    BY DEF Rank
  <2>5. QED
    BY <2>2, <2>3, <2>4
<1>5. Rank \in Injection(places, 1 .. count)
  <2>1. Rank \in [places -> 1 .. count]
    BY <1>3 DEF Rank
  <2>2. ASSUME NEW m \in places, NEW n \in places, Rank[m] = Rank[n] PROVE m = n
    <3>1. m \in Int /\ n \in Int
      BY <1>1
    <3>2. ~(m < n) /\ ~(n < m)
      <4>1. Rank[m] \in 1 .. count
        BY <1>3
      <4>2. QED
        BY <1>2, <1>4, <2>2, <4>1
    <3>3. QED
      BY <3>1, <3>2
  <2>3. QED
    BY <2>1, <2>2, Fun_IsInj
<1>6. \A i \in 1 .. count : \E n \in places : Rank[n] = i
  <2>1. IsFiniteSet(1 .. count) /\ Cardinality(1 .. count) = count
    BY <1>2, FS_Interval
  <2>2. Rank \in Surjection(places, 1 .. count)
    <3>1. Cardinality(places) = Cardinality(1 .. count)
      BY <2>1 DEF count
    <3>2. QED
      BY <1>5, <2>1, <3>1, FS_Injection
  <2>3. QED
    BY <2>2, Fun_SurjectionProperties, Zenon
<1>7. \A i \in 1 .. count : nth(i) \in places /\ Rank[nth(i)] = i
  BY <1>6 DEF Rank, Upto
<1>8. \A n \in places : nth(Rank[n]) = n
  <2> HIDE DEF nth
  <2>1. \A m, n \in places : Rank[m] = Rank[n] => m = n
    BY <1>5, Fun_InjectionProperties, Zenon
  <2>2. QED
    BY <1>3, <1>7, <2>1
<1>9. ItemsAt(items, places) = [i \in 1 .. count |-> items[nth(i)]]
  BY DEF ItemsAt, count
<1> HIDE DEF nth
<1>10. ItemsAt(items, places) \in Seq(S)
  BY <1>1, <1>2, <1>7, <1>9
<1>11. Range(ItemsAt(items, places)) = {items[nth(i)] : i \in 1 .. count}
  BY <1>9 DEF Range
<1>12. QED
  BY <1>3, <1>7, <1>8, <1>10, <1>11

(* What comes before the first bad place is a start of the sequence, with  *)
(* no bad place in it.                                                     *)
LEMMA BeforeBad ==
    ASSUME NEW S, NEW items \in Seq(S), NEW bad \in SUBSET DOMAIN items
    PROVE  /\ Before(items, bad) \in Seq(S)
           /\ \A n \in DOMAIN Before(items, bad) :
                 n \in DOMAIN items /\ Before(items, bad)[n] = items[n] /\ n \notin bad
           /\ bad = {} => Before(items, bad) = items
<1>1. CASE bad = {}
  BY <1>1 DEF Before
<1>2. CASE bad # {}
  <2>1. bad \in SUBSET Nat
    OBVIOUS
  <2>2. PICK n \in bad : \A m \in bad : n <= m
    BY <1>2, <2>1, LeastOfNumbers
  <2>3. Min(bad) \in bad /\ \A m \in bad : Min(bad) <= m
    BY <2>2 DEF Min
  <2>4. Before(items, bad) = SubSeq(items, 1, Min(bad) - 1)
    BY <1>2 DEF Before
  <2>5. Min(bad) \in 1 .. Len(items)
    BY <2>3
  <2> DEFINE least == Min(bad)
  <2>6. SubSeq(items, 1, least - 1) \in Seq(S) /\ Len(SubSeq(items, 1, least - 1)) = least - 1
        /\ \A m \in 1 .. least - 1 : SubSeq(items, 1, least - 1)[m] = items[m] /\ m \in DOMAIN items
    <3> HIDE DEF least
    <3>1. least \in 1 .. Len(items)
      BY <2>5 DEF least
    <3>2. QED
      BY <3>1
  <2>7. \A m \in 1 .. least - 1 : m \notin bad
    BY <2>3, <2>5
  <2> HIDE DEF least
  <2>8. Before(items, bad) = SubSeq(items, 1, least - 1)
    BY <2>4 DEF least
  <2>9. DOMAIN SubSeq(items, 1, least - 1) = 1 .. least - 1
    BY <2>6
  <2>10. QED
    BY <1>2, <2>6, <2>7, <2>8, <2>9
<1>3. QED
  BY <1>1, <1>2

(* The loop over an answer ends before the first item that raises.         *)
LEMMA LoopedStart ==
    ASSUME NEW items \in Seq(DOMAIN Catalogue), NEW how
    PROVE  /\ LoopedOver(items, how) \in Seq(DOMAIN Catalogue)
           /\ Range(LoopedOver(items, how)) \subseteq Range(items)
           /\ \A n \in DOMAIN LoopedOver(items, how) : ~Raises(LoopedOver(items, how)[n], how)
           /\ (\A n \in DOMAIN items : ~Raises(items[n], how)) => LoopedOver(items, how) = items
<1> DEFINE bad == {n \in DOMAIN items : Raises(items[n], how)}
<1>1. bad \in SUBSET DOMAIN items
  OBVIOUS
<1>2. LoopedOver(items, how) = Before(items, bad)
  BY DEF LoopedOver
<1>3. /\ Before(items, bad) \in Seq(DOMAIN Catalogue)
      /\ \A n \in DOMAIN Before(items, bad) :
            n \in DOMAIN items /\ Before(items, bad)[n] = items[n] /\ n \notin bad
      /\ bad = {} => Before(items, bad) = items
  BY <1>1, BeforeBad
<1>4. QED
  BY <1>2, <1>3 DEF Range

(* The sound items an answer starts with.                                  *)
LEMMA SoundStarts ==
    ASSUME NEW items \in Seq(DOMAIN Catalogue)
    PROVE  SoundStart(items) \in Seq(DOMAIN Catalogue)
<1> DEFINE bad == {n \in DOMAIN items : ~Catalogue[items[n]].sound}
<1>1. bad \in SUBSET DOMAIN items
  OBVIOUS
<1>2. QED
  BY <1>1, BeforeBad DEF SoundStart

(* What a loop keeps are items of its answer, and all that are new and     *)
(* relevant before the one that raises.                                    *)
LEMMA KeptItems ==
    ASSUME NEW items \in Seq(DOMAIN Catalogue), NEW how
    PROVE  /\ Kept(items, how) \in Seq(DOMAIN Catalogue)
           /\ NewAndRelevant(LoopedOver(items, how)) \subseteq Range(Kept(items, how))
<1> DEFINE looped == LoopedOver(items, how)
           places == {n \in DOMAIN looped : PassesAll(looped[n], how)}
<1>1. looped \in Seq(DOMAIN Catalogue) /\ places \in SUBSET DOMAIN looped
  BY LoopedStart
<1>2. Kept(items, how) = ItemsAt(looped, places)
  BY DEF Kept
<1>3. ItemsAt(looped, places) \in Seq(DOMAIN Catalogue)
      /\ Range(ItemsAt(looped, places)) = {looped[n] : n \in places}
  <2> HIDE DEF looped, places
  <2>1. QED
    BY <1>1, ItemsAtPlaces
<1>4. ASSUME NEW item \in NewAndRelevant(looped) PROVE item \in Range(Kept(items, how))
  <2>1. PICK n \in DOMAIN looped : item = looped[n]
    BY <1>4 DEF NewAndRelevant, Range
  <2>2. Catalogue[item].text = "match" /\ Catalogue[item].when = "new"
    BY <1>4 DEF NewAndRelevant
  <2>3. PassesAll(looped[n], how)
    BY <2>1, <2>2 DEF PassesAll, Passes, Outdated
  <2>4. QED
    BY <1>2, <1>3, <2>1, <2>3
<1>5. QED
  BY <1>2, <1>3, <1>4

-----------------------------------------------------------------------------
(* What has been seen.                                                     *)

SeenFit ==
    /\ seen \in Seq(DOMAIN Catalogue)
    /\ Len(seen) <= MaxSeen
    /\ MaxSeen \in Nat \ {0}

(* by is what has been seen after each of the first k items.               *)
SeesUpto(by, items, k) ==
    by = [n \in 0 .. k |-> IF n = 0 THEN seen ELSE See(by[n - 1], items[n])]

(* The ids seen can be told for as many items as one likes: for the least  *)
(* number for which they could not, they follow from those for one less.   *)
LEMMA SeenByEach ==
    ASSUME NEW items \in Seq(DOMAIN Catalogue)
    PROVE  SeesUpto(SeenBy(items), items, Len(items))
<1> DEFINE fails == {k \in 0 .. Len(items) : ~\E by : SeesUpto(by, items, k)}
<1>1. fails = {}
  <2> SUFFICES ASSUME fails # {} PROVE FALSE
    OBVIOUS
  <2>1. fails \in SUBSET Nat
    OBVIOUS
  <2>2. PICK k \in fails : \A m \in fails : k <= m
    BY <2>1, LeastOfNumbers
  <2>3. CASE k = 0
    <3> DEFINE by == [n \in {0} |-> seen]
    <3>1. by = [n \in 0 .. 0 |-> IF n = 0 THEN seen ELSE See(by[n - 1], items[n])]
      OBVIOUS
    <3>2. QED
      BY <2>2, <2>3, <3>1 DEF SeesUpto
  <2>4. CASE k # 0
    <3>1. k \in 1 .. Len(items) /\ k - 1 \in 0 .. Len(items) /\ k - 1 \notin fails
      BY <2>2, <2>4
    <3>2. PICK less : SeesUpto(less, items, k - 1)
      BY <3>1
    <3> DEFINE by == [n \in 0 .. k |-> IF n = k THEN See(less[k - 1], items[k]) ELSE less[n]]
    <3>3. ASSUME NEW n \in 0 .. k PROVE by[n] = IF n = 0 THEN seen ELSE See(by[n - 1], items[n])
      <4>1. less[0] = seen /\ 0 # k
        BY <2>4, <3>1, <3>2 DEF SeesUpto
      <4>2. ASSUME n # 0, n # k PROVE less[n] = See(less[n - 1], items[n])
        BY <3>1, <3>2, <4>2 DEF SeesUpto
      <4>3. n # 0 => n - 1 \in 0 .. k /\ n - 1 # k
        BY <3>1
      <4>4. QED
        BY <3>1, <4>1, <4>2, <4>3
    <3>4. by = [n \in 0 .. k |-> IF n = 0 THEN seen ELSE See(by[n - 1], items[n])]
      BY <3>3
    <3> HIDE DEF by
    <3>5. QED
      BY <2>2, <3>4 DEF SeesUpto
  <2>5. QED
    BY <2>3, <2>4
<1>2. PICK by : SeesUpto(by, items, Len(items))
  <2>1. Len(items) \in 0 .. Len(items)
    OBVIOUS
  <2>2. QED
    BY <1>1, <2>1
<1>3. QED
  BY <1>2 DEF SeenBy, SeesUpto

(* The ids seen after one more, at most as many as are kept.               *)
LEMMA SeeOne ==
    ASSUME MaxSeen \in Nat \ {0}, NEW ids \in Seq(DOMAIN Catalogue), Len(ids) <= MaxSeen,
           NEW id \in DOMAIN Catalogue
    PROVE  /\ See(ids, id) \in Seq(DOMAIN Catalogue)
           /\ Len(See(ids, id)) <= MaxSeen
           /\ Range(See(ids, id)) \subseteq Range(ids) \cup {id}
<1>1. CASE id \in Range(ids)
  BY <1>1 DEF See
<1>2. CASE id \notin Range(ids)
  <2> DEFINE rest == IF Len(ids) >= MaxSeen THEN Tail(ids) ELSE ids
  <2>1. rest \in Seq(DOMAIN Catalogue) /\ Len(rest) + 1 <= MaxSeen
    <3>1. CASE Len(ids) >= MaxSeen
      <4>1. ids # <<>> /\ Tail(ids) \in Seq(DOMAIN Catalogue) /\ Len(Tail(ids)) = Len(ids) - 1
        BY <3>1
      <4>2. rest = Tail(ids)
        BY <3>1
      <4> HIDE DEF rest
      <4>3. Len(rest) + 1 = Len(ids) /\ Len(ids) \in Nat
        BY <4>1, <4>2
      <4>4. QED
        BY <4>1, <4>2, <4>3
    <3>2. CASE ~(Len(ids) >= MaxSeen)
      BY <3>2
    <3>3. QED
      BY <3>1, <3>2
  <2>2. \A n \in DOMAIN rest : rest[n] \in Range(ids)
    <3>1. CASE Len(ids) >= MaxSeen
      BY <3>1 DEF Range
    <3>2. CASE ~(Len(ids) >= MaxSeen)
      BY <3>2 DEF Range
    <3>3. QED
      BY <3>1, <3>2
  <2>3. See(ids, id) = Append(rest, id)
    BY <1>2 DEF See
  <2> HIDE DEF rest
  <2>4. QED
    BY <2>1, <2>2, <2>3 DEF Range
<1>3. QED
  BY <1>1, <1>2

(* After any of the items, the ids seen are of those that were and theirs. *)
LEMMA SeenByFits ==
    ASSUME SeenFit, NEW items \in Seq(DOMAIN Catalogue), NEW n \in 0 .. Len(items)
    PROVE  /\ SeenBy(items)[n] \in Seq(DOMAIN Catalogue)
           /\ Len(SeenBy(items)[n]) <= MaxSeen
           /\ Range(SeenBy(items)[n]) \subseteq Range(seen) \cup {items[m] : m \in 1 .. n}
<1> DEFINE by == SeenBy(items)
           Fits(k) == /\ by[k] \in Seq(DOMAIN Catalogue)
                      /\ Len(by[k]) <= MaxSeen
                      /\ Range(by[k]) \subseteq Range(seen) \cup {items[m] : m \in 1 .. k}
           fails == {k \in 0 .. Len(items) : ~Fits(k)}
<1>1. \A k \in 0 .. Len(items) : by[k] = IF k = 0 THEN seen ELSE See(by[k - 1], items[k])
  BY SeenByEach DEF SeesUpto
<1> HIDE DEF by
<1>2. Fits(0)
  BY <1>1 DEF SeenFit
<1>3. ASSUME NEW k \in 1 .. Len(items), Fits(k - 1) PROVE Fits(k)
  <2>1. by[k] = See(by[k - 1], items[k]) /\ items[k] \in DOMAIN Catalogue
    BY <1>1
  <2>2. /\ by[k] \in Seq(DOMAIN Catalogue) /\ Len(by[k]) <= MaxSeen
        /\ Range(by[k]) \subseteq Range(by[k - 1]) \cup {items[k]}
    <3> DEFINE ids == by[k - 1]
               id == items[k]
    <3>1. ids \in Seq(DOMAIN Catalogue) /\ Len(ids) <= MaxSeen /\ id \in DOMAIN Catalogue
      BY <1>3, <2>1
    <3>2. by[k] = See(ids, id)
      BY <2>1
    <3> HIDE DEF ids, id
    <3>3. /\ See(ids, id) \in Seq(DOMAIN Catalogue) /\ Len(See(ids, id)) <= MaxSeen
          /\ Range(See(ids, id)) \subseteq Range(ids) \cup {id}
      BY <3>1, SeeOne DEF SeenFit
    <3>4. QED
      BY <3>2, <3>3 DEF ids, id
  <2>3. QED
    BY <1>3, <2>2
<1>4. fails = {}
  <2> SUFFICES ASSUME fails # {} PROVE FALSE
    OBVIOUS
  <2>1. fails \in SUBSET Nat
    OBVIOUS
  <2>2. PICK k \in fails : \A m \in fails : k <= m
    BY <2>1, LeastOfNumbers
  <2> HIDE DEF Fits
  <2>3. k \in 1 .. Len(items) /\ k - 1 \in 0 .. Len(items)
    BY <1>2, <2>2
  <2>4. Fits(k - 1)
    BY <2>2, <2>3
  <2>5. QED
    BY <1>3, <2>2, <2>3, <2>4
<1>5. QED
  BY <1>4 DEF by

(* A loop that passes over what has been seen keeps what is new and        *)
(* relevant of its items, but for what had been seen before it.            *)
LEMMA UnseenItems ==
    ASSUME SeenFit, NEW items \in Seq(DOMAIN Catalogue)
    PROVE  /\ Unseen(items) \in Seq(DOMAIN Catalogue)
           /\ Range(Unseen(items)) \subseteq Range(items)
           /\ Range(items) \subseteq Range(seen) \cup Range(Unseen(items))
<1> DEFINE places == {n \in DOMAIN items : items[n] \notin Range(SeenBy(items)[n - 1])}
<1>1. places \in SUBSET DOMAIN items
  OBVIOUS
<1>2. Unseen(items) = ItemsAt(items, places)
  BY DEF Unseen
<1>3. /\ ItemsAt(items, places) \in Seq(DOMAIN Catalogue)
      /\ Range(ItemsAt(items, places)) = {items[n] : n \in places}
  <2> HIDE DEF places
  <2>1. QED
    BY <1>1, ItemsAtPlaces
<1>4. ASSUME NEW item \in Range(items) \ Range(seen) PROVE item \in {items[n] : n \in places}
  <2> DEFINE occurs == {n \in DOMAIN items : items[n] = item}
  <2>1. occurs \in SUBSET Nat /\ occurs # {}
    BY DEF Range
  <2>2. PICK n \in occurs : \A m \in occurs : n <= m
    BY <2>1, LeastOfNumbers
  <2>3. n \in 1 .. Len(items) /\ n - 1 \in 0 .. Len(items)
    OBVIOUS
  <2>4. Range(SeenBy(items)[n - 1]) \subseteq Range(seen) \cup {items[m] : m \in 1 .. n - 1}
    BY <2>3, SeenByFits
  <2>5. item \notin {items[m] : m \in 1 .. n - 1}
    BY <2>2, <2>3
  <2>6. QED
    BY <2>4, <2>5
<1>5. QED
  BY <1>2, <1>3, <1>4 DEF Range

-----------------------------------------------------------------------------
(* Agendas.                                                                *)

AskedOf == Nat \cup DOMAIN Catalogue

(* The requests that are no search's fallback, have none, suit any         *)
(* collector and have any subject.                                         *)
Plain ==
    Asks \ ({"statuses", "hashtag", "pages", "posts", "raise", "page", "quorapage", "video", "post"}
                \cup Deduplicating)

(* No request at all, and the rest of an agenda.                           *)
LEMMA EmptyPlan == \A name : IsPlan(<<>>, name)
BY DEF IsPlan, Paired

(* One agenda after the other.                                             *)
LEMMA PlanJoin ==
    ASSUME NEW name, NEW one, NEW other, IsPlan(one, name), IsPlan(other, name)
    PROVE  IsPlan(one \o other, name)
<1> DEFINE both == one \o other
<1>1. one \in Seq(SearchRequests) /\ other \in Seq(SearchRequests)
  BY DEF IsPlan
<1>2. both \in Seq(SearchRequests) /\ Len(both) = Len(one) + Len(other)
  BY <1>1
<1>3. ASSUME NEW i \in DOMAIN both
      PROVE  \/ i \in DOMAIN one /\ both[i] = one[i] /\ (i + 1 \in DOMAIN one => both[i + 1] = one[i + 1])
             \/ /\ i - Len(one) \in DOMAIN other /\ both[i] = other[i - Len(one)]
                /\ i + 1 - Len(one) \in DOMAIN other => both[i + 1] = other[i + 1 - Len(one)]
  BY <1>1
<1>4. \A i \in DOMAIN one : i + 1 \in DOMAIN one => i + 1 \in DOMAIN both
  BY <1>1
<1>5. \A i \in DOMAIN both : i + 1 - Len(one) \in DOMAIN other => i + 1 \in DOMAIN both
  BY <1>1
<1>6. \A i \in DOMAIN both : i - Len(one) + 1 = i + 1 - Len(one)
  BY <1>1
<1> HIDE DEF both
<1>7. \A i \in DOMAIN both : Suits(both[i], name)
  BY <1>3 DEF IsPlan
<1>8. ASSUME NEW ask, NEW fallback, Paired(one, ask, fallback), Paired(other, ask, fallback)
      PROVE  Paired(both, ask, fallback)
  <2>1. ASSUME NEW i \in DOMAIN both, both[i].ask = ask
        PROVE  i + 1 \in DOMAIN both /\ both[i + 1].ask = fallback
    <3>1. CASE /\ i \in DOMAIN one /\ both[i] = one[i]
               /\ i + 1 \in DOMAIN one => both[i + 1] = one[i + 1]
      BY <1>4, <1>8, <2>1, <3>1 DEF Paired
    <3>2. CASE /\ i - Len(one) \in DOMAIN other /\ both[i] = other[i - Len(one)]
               /\ i + 1 - Len(one) \in DOMAIN other => both[i + 1] = other[i + 1 - Len(one)]
      BY <1>5, <1>6, <1>8, <2>1, <3>2 DEF Paired
    <3>3. QED
      BY <1>3, <3>1, <3>2
  <2>2. QED
    BY <2>1 DEF Paired
<1>9. QED
  BY <1>2, <1>7, <1>8 DEF IsPlan, both

(* What is left of an agenda.                                              *)
LEMMA PlanTail ==
    ASSUME NEW name, NEW plan, IsPlan(plan, name), plan # <<>>
    PROVE  IsPlan(Tail(plan), name)
<1>1. plan \in Seq(SearchRequests)
  BY DEF IsPlan
<1>2. Tail(plan) \in Seq(SearchRequests) /\ Len(Tail(plan)) = Len(plan) - 1
  BY <1>1
<1>3. ASSUME NEW i \in DOMAIN Tail(plan)
      PROVE  /\ i + 1 \in DOMAIN plan /\ Tail(plan)[i] = plan[i + 1]
             /\ i + 1 + 1 \in DOMAIN plan =>
                   i + 1 \in DOMAIN Tail(plan) /\ Tail(plan)[i + 1] = plan[i + 1 + 1]
  BY <1>1
<1>4. \A i \in DOMAIN Tail(plan) : Suits(Tail(plan)[i], name)
  BY <1>3 DEF IsPlan
<1>5. ASSUME NEW ask, NEW fallback, Paired(plan, ask, fallback)
      PROVE  Paired(Tail(plan), ask, fallback)
  BY <1>3, <1>5 DEF Paired
<1>6. QED
  BY <1>2, <1>4, <1>5 DEF IsPlan

(* The same request of each subject.                                       *)
LEMMA FollowPlan ==
    ASSUME NEW name, NEW ask \in Asks \ {"fts", "statuses"}, NEW subjects \in Seq(AskedOf),
           \A n \in DOMAIN subjects : Suits([ask |-> ask, of |-> subjects[n]], name)
    PROVE  IsPlan(Follow(ask, subjects), name)
<1>1. Follow(ask, subjects) \in Seq(SearchRequests)
  <2>1. \A n \in 1 .. Len(subjects) : [ask |-> ask, of |-> subjects[n]] \in SearchRequests
    BY DEF SearchRequests, AskedOf
  <2>2. Follow(ask, subjects) = [n \in 1 .. Len(subjects) |-> [ask |-> ask, of |-> subjects[n]]]
    BY DEF Follow
  <2>3. QED
    BY <2>1, <2>2
<1>2. \A n \in DOMAIN Follow(ask, subjects) :
         n \in DOMAIN subjects /\ Follow(ask, subjects)[n] = [ask |-> ask, of |-> subjects[n]]
  BY DEF Follow
<1>3. QED
  BY <1>1, <1>2 DEF IsPlan, Paired

(* Requests that suit any collector.                                       *)
LEMMA PlainPlans ==
    ASSUME NEW name, NEW ask \in Plain
    PROVE  /\ IsPlan(Once(ask), name)
           /\ IsPlan(Each(ask), name)
           /\ \A subjects \in Seq(AskedOf) : IsPlan(Follow(ask, subjects), name)
<1>1. \A of \in AskedOf : Suits([ask |-> ask, of |-> of], name)
  BY DEF Suits, Plain, Deduplicating
<1>2. ask \in Asks \ {"fts", "statuses"}
  BY DEF Plain, Deduplicating
<1>3. ASSUME NEW subjects \in Seq(AskedOf) PROVE IsPlan(Follow(ask, subjects), name)
  <2>1. \A n \in DOMAIN subjects : subjects[n] \in AskedOf
    OBVIOUS
  <2>2. \A n \in DOMAIN subjects : Suits([ask |-> ask, of |-> subjects[n]], name)
    BY <1>1, <2>1
  <2>3. QED
    BY <1>2, <2>2, FollowPlan
<1>4. <<0>> \in Seq(AskedOf) /\ Keywords \in Seq(AskedOf)
  BY SearchAssumption DEF Keywords, AskedOf
<1>5. Once(ask) = Follow(ask, <<0>>)
  BY DEF Once, Follow
<1>6. QED
  BY <1>3, <1>4, <1>5 DEF Each

(* The place after n in turns of w, and its turn.                          *)
LEMMA TurnNumbers ==
    ASSUME NEW w \in Nat \ {0}, NEW m \in Nat, NEW n \in 1 .. w * m
    PROVE  /\ ((n - 1) % w) + 1 \in 1 .. w
           /\ ((n - 1) \div w) + 1 \in 1 .. m
           /\ ((n - 1) % w) + 1 < w => n + 1 \in 1 .. w * m /\ (n % w) + 1 = ((n - 1) % w) + 2
OBVIOUS

(* Several requests of one subject after the other.                        *)
LEMMA InTurnPlan ==
    ASSUME NEW name, NEW asks \in Seq(Asks), asks # <<>>, NEW subjects \in Seq(AskedOf),
           \A i \in DOMAIN asks, j \in DOMAIN subjects :
               Suits([ask |-> asks[i], of |-> subjects[j]], name),
           \A i \in DOMAIN asks :
               /\ asks[i] = "fts" => i + 1 \in DOMAIN asks /\ asks[i + 1] = "doc"
               /\ asks[i] = "statuses" => i + 1 \in DOMAIN asks /\ asks[i + 1] = "hashtag"
    PROVE  IsPlan(InTurn(asks, subjects), name)
<1> DEFINE w == Len(asks)
           m == Len(subjects)
           turn(n) == ((n - 1) % w) + 1
           place(n) == ((n - 1) \div w) + 1
           plan == [n \in 1 .. w * m |-> [ask |-> asks[turn(n)], of |-> subjects[place(n)]]]
<1>1. w \in Nat \ {0} /\ m \in Nat /\ DOMAIN asks = 1 .. w /\ DOMAIN subjects = 1 .. m
  OBVIOUS
<1>2. InTurn(asks, subjects) = plan
  BY DEF InTurn
<1>3. w * m \in Nat
  BY <1>1
<1> HIDE DEF w, m
<1>4. ASSUME NEW n \in 1 .. w * m
      PROVE  /\ turn(n) \in DOMAIN asks /\ place(n) \in DOMAIN subjects
             /\ turn(n) < w => n + 1 \in 1 .. w * m /\ turn(n + 1) = turn(n) + 1
  <2>1. n + 1 - 1 = n
    BY <1>3
  <2>2. QED
    <3>1. /\ ((n - 1) % w) + 1 \in 1 .. w
          /\ ((n - 1) \div w) + 1 \in 1 .. m
          /\ ((n - 1) % w) + 1 < w => n + 1 \in 1 .. w * m /\ (n % w) + 1 = ((n - 1) % w) + 2
      BY <1>1, TurnNumbers
    <3>2. turn(n + 1) = (n % w) + 1
      BY <2>1
    <3>3. ((n - 1) % w) + 2 = turn(n) + 1
      BY <1>1, <3>1
    <3>4. QED
      BY <1>1, <3>1, <3>2, <3>3
<1> HIDE DEF turn, place
<1>5. \A n \in 1 .. w * m : plan[n] \in SearchRequests /\ Suits(plan[n], name)
  BY <1>4 DEF SearchRequests, AskedOf
<1>6. plan \in Seq(SearchRequests) /\ DOMAIN plan = 1 .. w * m
  BY <1>3, <1>5
<1>7. ASSUME NEW ask, NEW fallback,
             \A i \in DOMAIN asks : asks[i] = ask => i + 1 \in DOMAIN asks /\ asks[i + 1] = fallback
      PROVE  Paired(plan, ask, fallback)
  <2>1. ASSUME NEW n \in 1 .. w * m, plan[n].ask = ask
        PROVE  n + 1 \in 1 .. w * m /\ plan[n + 1].ask = fallback
    <3>1. asks[turn(n)] = ask /\ turn(n) \in 1 .. w
      BY <1>1, <1>4, <2>1
    <3>2. turn(n) + 1 \in 1 .. w /\ asks[turn(n) + 1] = fallback
      BY <1>1, <1>7, <3>1
    <3>3. turn(n) < w
      BY <1>1, <3>1, <3>2
    <3>4. n + 1 \in 1 .. w * m /\ turn(n + 1) = turn(n) + 1
      BY <1>4, <3>3
    <3>5. QED
      BY <3>2, <3>4
  <2>2. QED
    BY <1>6, <2>1 DEF Paired
<1> HIDE DEF plan
<1>8. QED
  BY <1>2, <1>5, <1>6, <1>7 DEF IsPlan

(* The requests a collector sets out with are a plan of its.               *)
LEMMA PlansOfFit ==
    ASSUME NEW name \in PlatformCollectors, NEW plan \in PlansOf(name)
    PROVE  IsPlan(plan, name)
<1> DEFINE simple == {"twitter", "tiktok", "bluesky", "pinterest", "threads", "discord", "telegram",
                      "newsapi", "rss", "listennotes", "podcastindex", "trustpilot", "yelp", "g2",
                      "apple", "play", "site", "videos", "quora", "websearch", "account", "organization"}
<1>1. simple \subseteq Plain
  BY DEF Plain, Deduplicating, Asks
<1>2. \A ask \in simple : IsPlan(Once(ask), name) /\ IsPlan(Each(ask), name)
  BY <1>1, PlainPlans
<1>3. IsPlan(<<>>, name)
  BY EmptyPlan
<1>4. Keywords \in Seq(AskedOf) /\ \A n \in DOMAIN Keywords : Keywords[n] \in Nat
  BY SearchAssumption DEF Keywords, AskedOf
<1>5. \A one, other : IsPlan(one, name) /\ IsPlan(other, name) => IsPlan(one \o other, name)
  BY PlanJoin
<1>6. \A condition \in BOOLEAN, ask \in simple :
         IsPlan(If(condition, Once(ask)), name) /\ IsPlan(If(condition, Each(ask)), name)
  BY <1>2, <1>3 DEF If
<1>7. CASE name \in {"twitter", "tiktok", "bluesky", "pinterest", "threads", "discord", "telegram"}
  BY <1>2, <1>3, <1>7 DEF PlansOf, Unless
<1>8. CASE name \in {"podcast", "youtube", "quora", "instagram", "linkedin"}
  BY <1>2, <1>3, <1>8 DEF PlansOf, Unless, PodcastPlans
<1>9. CASE name = "reddit"
  <2>1. \A n \in DOMAIN Keywords : Suits([ask |-> "reddit", of |-> Keywords[n]], name)
    BY <1>9 DEF Suits, Restartable
  <2>2. "reddit" \in Asks \ {"fts", "statuses"}
    BY DEF Asks
  <2>3. IsPlan(Each("reddit"), name)
    BY <1>4, <2>1, <2>2, FollowPlan DEF Each
  <2>4. QED
    BY <1>9, <2>3 DEF PlansOf
<1>10. CASE name = "news"
  <2>1. PICK key \in BOOLEAN : plan = NewsPlan(key)
    BY <1>10 DEF PlansOf
  <2>2. IsPlan(If(key, Once("newsapi")), name) /\ IsPlan(Each("rss"), name)
    BY <1>2, <1>6
  <2>3. QED
    BY <1>5, <2>1, <2>2 DEF NewsPlan
<1>11. CASE name = "reviews"
  <2>1. PICK sites : plan = ReviewPlan(sites)
    BY <1>11 DEF PlansOf
  <2>2. /\ IsPlan(If("trustpilot" \in sites, Each("trustpilot")), name)
        /\ IsPlan(If("yelp" \in sites, Each("yelp")), name)
        /\ IsPlan(If("g2" \in sites, Each("g2")), name)
    BY <1>2, <1>3 DEF If
  <2>3. QED
    BY <1>5, <2>1, <2>2 DEF ReviewPlan
<1>12. CASE name \in {"appstore", "web"}
  <2>1. IsPlan(AppStorePlan, name) /\ IsPlan(WebPlan, name)
    BY <1>2, <1>5 DEF AppStorePlan, WebPlan
  <2>2. QED
    BY <1>3, <1>12, <2>1 DEF PlansOf, Unless
<1>13. CASE name = "gdelt"
  <2> DEFINE asks == <<"fts", "doc", "tv">>
  <2>1. asks \in Seq(Asks) /\ asks # <<>> /\ DOMAIN asks = 1 .. 3
    BY DEF Asks
  <2>2. \A i \in DOMAIN asks, j \in DOMAIN Keywords :
           Suits([ask |-> asks[i], of |-> Keywords[j]], name)
    BY <1>13 DEF Suits, Restartable
  <2>3. \A i \in DOMAIN asks :
           /\ asks[i] = "fts" => i + 1 \in DOMAIN asks /\ asks[i + 1] = "doc"
           /\ asks[i] = "statuses" => i + 1 \in DOMAIN asks /\ asks[i + 1] = "hashtag"
    OBVIOUS
  <2>4. IsPlan(InTurn(asks, Keywords), name)
    <3> HIDE DEF asks
    <3>1. QED
      BY <1>4, <2>1, <2>2, <2>3, InTurnPlan
  <2>5. QED
    BY <1>13, <2>4 DEF PlansOf, GdeltPlan
<1>14. CASE name = "mastodon"
  <2>1. PICK token \in BOOLEAN : plan = MastodonPlan(token)
    BY <1>14 DEF PlansOf
  <2> DEFINE asks == IF token THEN <<"statuses", "hashtag">> ELSE <<"hashtag">>
  <2>2. /\ asks \in Seq(Asks) /\ asks # <<>>
        /\ \A i \in DOMAIN asks :
              /\ asks[i] \in {"statuses", "hashtag"}
              /\ asks[i] = "statuses" => i + 1 \in DOMAIN asks /\ asks[i + 1] = "hashtag"
    <3>1. CASE token
      BY <3>1 DEF Asks
    <3>2. CASE ~token
      BY <3>2 DEF Asks
    <3>3. QED
      BY <3>1, <3>2
  <2>3. plan = InTurn(asks, Keywords)
    BY <2>1 DEF MastodonPlan
  <2> HIDE DEF asks
  <2>4. \A i \in DOMAIN asks, j \in DOMAIN Keywords :
           Suits([ask |-> asks[i], of |-> Keywords[j]], name)
    BY <1>14, <2>2 DEF Suits, Deduplicating
  <2>5. QED
    BY <1>4, <2>2, <2>3, <2>4, InTurnPlan
<1>15. CASE name = "facebook"
  <2>1. <<0>> \in Seq(AskedOf) /\ "pages" \in Asks \ {"fts", "statuses"}
    BY DEF AskedOf, Asks
  <2>2. \A n \in DOMAIN <<0>> : Suits([ask |-> "pages", of |-> <<0>>[n]], name)
    BY <1>15 DEF Suits, Deduplicating
  <2>3. Once("pages") = Follow("pages", <<0>>)
    BY DEF Once, Follow
  <2>4. IsPlan(Once("pages"), name)
    BY <2>1, <2>2, <2>3, FollowPlan
  <2>5. QED
    BY <1>3, <1>15, <2>4 DEF PlansOf, Unless
<1>16. QED
  BY <1>7, <1>8, <1>9, <1>10, <1>11, <1>12, <1>13, <1>14, <1>15 DEF PlatformCollectors

-----------------------------------------------------------------------------
(* The effect of a request.                                                *)

(* Answers hold items of the catalogue.                                    *)
LEMMA AnswerItems ==
    ASSUME NEW answer \in Answers
    PROVE  answer.items \in Seq(DOMAIN Catalogue)
<1>1. CASE answer = NoAnswer
  BY <1>1 DEF NoAnswer
<1>2. CASE answer # NoAnswer
  <2>1. PICK items \in AnswersGiven : answer = [good |-> TRUE, items |-> items]
    BY <1>2 DEF Answers
  <2>2. QED
    BY <2>1, SearchAssumption
<1>3. QED
  BY <1>1, <1>2

(* What is new and relevant is of the items, and grows with them.          *)
LEMMA NewAndRelevantOf ==
    /\ \A items : NewAndRelevant(items) \subseteq Range(items)
    /\ \A some, more : Range(some) \subseteq Range(more) =>
          NewAndRelevant(some) \subseteq NewAndRelevant(more)
    /\ \A some, one, other : Range(some) \subseteq Range(one) \cup Range(other) =>
          NewAndRelevant(some) \subseteq NewAndRelevant(one) \cup NewAndRelevant(other)
BY DEF NewAndRelevant

(* The request that is made and the rest of the agenda.                    *)
LEMMA AgendaParts ==
    ASSUME SearchIInv, agenda # <<>>
    PROVE  /\ agenda \in Seq(SearchRequests)
           /\ Head(agenda) \in SearchRequests /\ Suits(Head(agenda), platform)
           /\ Range(agenda) = {Head(agenda)} \cup Range(Tail(agenda))
           /\ IsPlan(Tail(agenda), platform)
<1>1. agenda \in Seq(SearchRequests) /\ IsPlan(agenda, platform)
  BY DEF SearchIInv, IsPlan
<1>2. Head(agenda) = agenda[1] /\ 1 \in DOMAIN agenda
  BY <1>1
<1>3. Head(agenda) \in SearchRequests /\ Suits(Head(agenda), platform)
  BY <1>1, <1>2 DEF IsPlan
<1>4. /\ DOMAIN agenda = 1 .. Len(agenda) /\ DOMAIN Tail(agenda) = 1 .. Len(agenda) - 1
      /\ Len(agenda) \in Nat \ {0}
      /\ \A i \in 1 .. Len(agenda) - 1 : Tail(agenda)[i] = agenda[i + 1]
  BY <1>1
<1>5. \A i \in DOMAIN agenda :
         i # 1 => i - 1 \in DOMAIN Tail(agenda) /\ agenda[i] = Tail(agenda)[i - 1]
  <2>1. ASSUME NEW i \in 1 .. Len(agenda), i # 1
        PROVE  i - 1 \in 1 .. Len(agenda) - 1 /\ Tail(agenda)[i - 1] = agenda[i]
    <3>1. i - 1 \in 1 .. Len(agenda) - 1 /\ i - 1 + 1 = i
      BY <1>4, <2>1
    <3>2. Tail(agenda)[i - 1] = agenda[i - 1 + 1]
      BY <1>4, <3>1
    <3>3. QED
      BY <3>1, <3>2
  <2>2. DOMAIN agenda = 1 .. Len(agenda) /\ DOMAIN Tail(agenda) = 1 .. Len(agenda) - 1
    BY <1>4
  <2>3. QED
    BY <2>1, <2>2, Zenon
<1>6. \A i \in DOMAIN Tail(agenda) : i + 1 \in DOMAIN agenda /\ agenda[i + 1] = Tail(agenda)[i]
  BY <1>4
<1>7. Range(agenda) = {Head(agenda)} \cup Range(Tail(agenda))
  <2>1. Range(agenda) \subseteq {Head(agenda)} \cup Range(Tail(agenda))
    BY <1>2, <1>5 DEF Range
  <2>2. {Head(agenda)} \cup Range(Tail(agenda)) \subseteq Range(agenda)
    BY <1>2, <1>6 DEF Range
  <2>3. QED
    BY <2>1, <2>2
<1>8. QED
  BY <1>1, <1>3, <1>7, PlanTail

(* A request is handled: what it had to bring is in what is kept, and the  *)
(* rest of the agenda stays, but for a fallback.                           *)
LEMMA Handled ==
    ASSUME SearchIInv, outcome = "searching", agenda # <<>>, SearchSame,
           NEW items \in Seq(DOMAIN Catalogue), NEW how, NEW kept \in Seq(DOMAIN Catalogue),
           Made(items, how), Extend(kept),
           NewAndRelevant(LoopedOver(items, how)) \subseteq mentions \cup Range(kept),
           seen' \in Seq(DOMAIN Catalogue), Len(seen') <= MaxSeen,
           NewAndRelevant(seen') \subseteq mentions',
           platform \in Restartable => seen' = <<>>,
           IsPlan(agenda', platform),
           \A r \in Range(Tail(agenda)) : r.ask \in Fallbacks \/ r \in Range(agenda')
    PROVE  SearchIInv'
<1>1. /\ mentions' = mentions \cup Range(kept) /\ length' = length + Len(kept)
      /\ asked' = asked \cup {Head(agenda)}
      /\ due' = due \cup NewAndRelevant(LoopedOver(items, how))
      /\ fresh' = fresh \cup NewAndRelevant(SoundStart(items))
      /\ platform' = platform /\ setOut' = setOut /\ attempt' = attempt /\ outcome' = outcome
  BY DEF Made, Extend, SearchSame
<1>2. platform # "none"
  BY DEF SearchIInv, NothingAsked
<1>3. due' \subseteq mentions'
  BY <1>1 DEF SearchIInv
<1>4. Range(kept) \cup Range(seen') \subseteq DOMAIN Catalogue
      /\ NewAndRelevant(SoundStart(items)) \subseteq DOMAIN Catalogue
  BY SoundStarts, NewAndRelevantOf DEF Range
<1>5. SearchTypeOK'
  BY <1>1, <1>3, <1>4 DEF SearchIInv, SearchTypeOK
<1>6. \A r \in Range(setOut) : r.ask \in Fallbacks \/ r \in asked' \/ r \in Range(agenda')
  BY <1>1, AgendaParts DEF SearchIInv
<1>7. length' \in Nat
  BY <1>1 DEF SearchIInv
<1>8. QED
  BY <1>1, <1>2, <1>3, <1>5, <1>6, <1>7 DEF SearchIInv

(* What follows from a request is put before the rest of the agenda.       *)
LEMMA Continued ==
    ASSUME SearchIInv, outcome = "searching", agenda # <<>>, SearchSame, UNCHANGED seen,
           NEW items \in Seq(DOMAIN Catalogue), NEW how, NEW kept \in Seq(DOMAIN Catalogue),
           Made(items, how), Extend(kept),
           NewAndRelevant(LoopedOver(items, how)) \subseteq mentions \cup Range(kept),
           NEW more, IsPlan(more, platform), GoOn(more)
    PROVE  SearchIInv'
<1>1. IsPlan(Tail(agenda), platform)
  BY AgendaParts
<1>2. agenda' = more \o Tail(agenda)
  BY DEF GoOn
<1>3. IsPlan(agenda', platform)
  BY <1>1, <1>2, PlanJoin
<1>4. Range(Tail(agenda)) \subseteq Range(agenda')
  <2> DEFINE rest == Tail(agenda)
  <2>1. more \in Seq(SearchRequests) /\ rest \in Seq(SearchRequests)
    BY <1>1 DEF IsPlan
  <2> HIDE DEF rest
  <2>2. ASSUME NEW i \in DOMAIN rest
        PROVE  /\ i + Len(more) \in DOMAIN (more \o rest)
               /\ (more \o rest)[i + Len(more)] = rest[i]
    BY <2>1
  <2>3. Range(rest) \subseteq Range(more \o rest)
    BY <2>2 DEF Range
  <2>4. QED
    BY <1>2, <2>3 DEF rest
<1>5. /\ seen' \in Seq(DOMAIN Catalogue) /\ Len(seen') <= MaxSeen
      /\ NewAndRelevant(seen') \subseteq mentions'
      /\ platform \in Restartable => seen' = <<>>
  BY DEF SearchIInv, SearchTypeOK, Extend
<1>6. QED
  BY <1>3, <1>4, <1>5, Handled

(* A request that brings nothing of its own, only others.                  *)
LEMMA AskedOnly ==
    ASSUME SearchIInv, outcome = "searching", agenda # <<>>, SearchSame,
           Made(<<>>, Anything), UNCHANGED <<mentions, length, seen>>,
           NEW more, IsPlan(more, platform), GoOn(more)
    PROVE  SearchIInv'
<1>1. <<>> \in Seq(DOMAIN Catalogue) /\ Range(<<>>) = {}
  BY DEF Range
<1>2. Extend(<<>>)
  BY <1>1 DEF Extend, SearchIInv
<1>3. NewAndRelevant(LoopedOver(<<>>, Anything)) = {}
  BY <1>1, LoopedStart, NewAndRelevantOf
<1>4. QED
  BY <1>1, <1>2, <1>3, Continued

(* A request within a try of its own.                                      *)
LEMMA ContainedInv ==
    ASSUME SearchIInv, NEW ask, NEW answers \in SUBSET Answers, NEW how,
           Contained(ask, answers, how)
    PROVE  SearchIInv'
<1>1. PICK answer \in answers : Made(answer.items, how) /\ Extend(Kept(answer.items, how))
  BY DEF Contained
<1>2. outcome = "searching" /\ agenda # <<>> /\ SearchSame /\ UNCHANGED seen /\ GoOn(<<>>)
  BY DEF Contained, Asking
<1>3. answer.items \in Seq(DOMAIN Catalogue)
  BY AnswerItems
<1>4. /\ Kept(answer.items, how) \in Seq(DOMAIN Catalogue)
      /\ NewAndRelevant(LoopedOver(answer.items, how)) \subseteq Range(Kept(answer.items, how))
  BY <1>3, KeptItems
<1>5. IsPlan(<<>>, platform)
  BY EmptyPlan
<1>6. QED
  BY <1>1, <1>2, <1>3, <1>4, <1>5, Continued

(* The collectors with one kind of request, and the other requests of that *)
(* kind.                                                                   *)
LEMMA ContainedRequests ==
    ASSUME SearchIInv,
           \/ Twitter \/ TikTok \/ Bluesky \/ Pinterest \/ Threads \/ Discord \/ Telegram
           \/ NewsApi \/ Rss \/ ListenNotes \/ PodcastIndex
           \/ Trustpilot \/ Yelp \/ G2 \/ Apple \/ PlayStore
           \/ WebSite \/ PostComments \/ TaggedPosts \/ MediaComments \/ MentionedMedia
           \/ TaggedMedia \/ OrganizationComments \/ PersonalPosts
    PROVE  SearchIInv'
<1>1. \E ask, how, answers : answers \in {Answers, ParsedAnswers} /\ Contained(ask, answers, how)
  BY Zenon DEF Twitter, TikTok, Bluesky, Pinterest, Threads, Discord, Telegram, NewsApi, Rss,
       ListenNotes, PodcastIndex, Trustpilot, Yelp, G2, Apple, PlayStore, WebSite, PostComments,
       TaggedPosts, MediaComments, MentionedMedia, TaggedMedia, OrganizationComments,
       PersonalPosts
<1>2. ParsedAnswers \in SUBSET Answers
  BY DEF ParsedAnswers
<1>3. QED
  BY <1>1, <1>2, ContainedInv

-----------------------------------------------------------------------------
(* The collectors that skip what they have seen.                           *)

(* Two requests are taken from an agenda whose first has a fallback, which *)
(* is all that is lost.                                                    *)
LEMMA SkipFallback ==
    ASSUME SearchIInv, agenda # <<>>, Head(agenda).ask \in {"fts", "statuses"}
    PROVE  /\ IsPlan(Tail(Tail(agenda)), platform)
           /\ \A r \in Range(Tail(agenda)) : r.ask \in Fallbacks \/ r \in Range(Tail(Tail(agenda)))
<1> DEFINE rest == Tail(agenda)
<1>1. agenda \in Seq(SearchRequests) /\ IsPlan(agenda, platform) /\ IsPlan(rest, platform)
  BY AgendaParts DEF SearchIInv
<1>2. Head(agenda) = agenda[1] /\ 1 \in DOMAIN agenda
  BY <1>1
<1>3. 2 \in DOMAIN agenda /\ agenda[2].ask \in Fallbacks
  <2>1. 1 + 1 \in DOMAIN agenda /\ agenda[1 + 1].ask \in {"doc", "hashtag"}
    BY <1>1, <1>2 DEF IsPlan, Paired
  <2>2. QED
    BY <2>1 DEF Fallbacks
<1>4. rest \in Seq(SearchRequests) /\ rest # <<>> /\ rest[1] = agenda[2]
  <2>1. rest \in Seq(SearchRequests)
    BY <1>1 DEF IsPlan
  <2>2. Len(rest) = Len(agenda) - 1 /\ Len(agenda) \in Nat /\ 2 <= Len(agenda)
    BY <1>1, <1>3
  <2>3. 1 \in 1 .. Len(agenda) - 1 /\ 1 + 1 = 2
    BY <2>2
  <2>4. rest[1] = agenda[1 + 1]
    BY <1>1, <2>3
  <2> HIDE DEF rest
  <2>5. rest # <<>>
    BY <2>1, <2>2
  <2>6. QED
    BY <2>1, <2>3, <2>4, <2>5
<1> HIDE DEF rest
<1>5. IsPlan(Tail(rest), platform)
  BY <1>1, <1>4, PlanTail
<1>6. ASSUME NEW i \in DOMAIN rest, i # 1 PROVE i - 1 \in DOMAIN Tail(rest) /\ Tail(rest)[i - 1] = rest[i]
  <2>1. i - 1 \in DOMAIN Tail(rest) /\ i - 1 + 1 = i
    BY <1>4, <1>6
  <2>2. Tail(rest)[i - 1] = rest[i - 1 + 1]
    BY <1>4, <2>1
  <2>3. QED
    BY <2>1, <2>2
<1>7. \A r \in Range(rest) : r.ask \in Fallbacks \/ r \in Range(Tail(rest))
  BY <1>3, <1>4, <1>6 DEF Range
<1>8. QED
  BY <1>5, <1>7 DEF rest

(* The dates of these are not aware, so that only an unsound item raises,  *)
(* seen or not; what is new and relevant is kept or was kept before.       *)
LEMMA DeduplicatedKept ==
    ASSUME SearchIInv, NEW items \in Seq(DOMAIN Catalogue), NEW how
    PROVE  LET looped == LoopedOver(items, how)
               kept == Kept(Unseen(looped), how)
               after == SeenBy(looped)[Len(looped)]
           IN  /\ kept \in Seq(DOMAIN Catalogue)
               /\ after \in Seq(DOMAIN Catalogue) /\ Len(after) <= MaxSeen
               /\ NewAndRelevant(looped) \subseteq mentions \cup Range(kept)
               /\ NewAndRelevant(after) \subseteq mentions \cup Range(kept)
<1> DEFINE looped == LoopedOver(items, how)
           unseen == Unseen(looped)
           kept == Kept(unseen, how)
           after == SeenBy(looped)[Len(looped)]
<1>1. SeenFit /\ NewAndRelevant(seen) \subseteq mentions
  BY SearchAssumption DEF SearchIInv, SearchTypeOK, SeenFit
<1>2. looped \in Seq(DOMAIN Catalogue) /\ \A n \in DOMAIN looped : ~Raises(looped[n], how)
  BY LoopedStart
<1> HIDE DEF looped
<1>3. /\ unseen \in Seq(DOMAIN Catalogue)
      /\ Range(unseen) \subseteq Range(looped)
      /\ Range(looped) \subseteq Range(seen) \cup Range(unseen)
  BY <1>1, <1>2, UnseenItems
<1> HIDE DEF unseen
<1>4. LoopedOver(unseen, how) = unseen
  <2>1. \A n \in DOMAIN unseen : unseen[n] \in Range(looped)
    BY <1>3 DEF Range
  <2>2. \A n \in DOMAIN unseen : ~Raises(unseen[n], how)
    BY <1>2, <2>1 DEF Range
  <2>3. QED
    BY <1>3, <2>2, LoopedStart
<1>5. kept \in Seq(DOMAIN Catalogue) /\ NewAndRelevant(unseen) \subseteq Range(kept)
  BY <1>3, <1>4, KeptItems
<1>6. /\ after \in Seq(DOMAIN Catalogue) /\ Len(after) <= MaxSeen
      /\ Range(after) \subseteq Range(seen) \cup Range(looped)
  <2>1. Len(looped) \in 0 .. Len(looped) /\ {looped[m] : m \in 1 .. Len(looped)} = Range(looped)
    BY <1>2 DEF Range
  <2>2. QED
    BY <1>1, <1>2, <2>1, SeenByFits
<1> HIDE DEF kept, after
<1>7. NewAndRelevant(looped) \subseteq mentions \cup Range(kept)
  BY <1>1, <1>3, <1>5, NewAndRelevantOf
<1>8. NewAndRelevant(after) \subseteq mentions \cup Range(kept)
  BY <1>1, <1>6, <1>7, NewAndRelevantOf
<1>9. QED
  BY <1>5, <1>6, <1>7, <1>8 DEF looped, unseen, kept, after

(* A loop over an answer that passes over what has been seen.              *)
LEMMA DeduplicatedInv ==
    ASSUME SearchIInv, outcome = "searching", agenda # <<>>, SearchSame,
           Head(agenda).ask \in Deduplicating,
           NEW items \in Seq(DOMAIN Catalogue), NEW how, Made(items, how),
           LET looped == LoopedOver(items, how)
           IN  /\ seen' = SeenBy(looped)[Len(looped)]
               /\ Extend(Kept(Unseen(looped), how)),
           \/ agenda' = Tail(agenda)
           \/ Head(agenda).ask = "fts" /\ agenda' = Tail(Tail(agenda))
    PROVE  SearchIInv'
<1> DEFINE looped == LoopedOver(items, how)
           kept == Kept(Unseen(looped), how)
           after == SeenBy(looped)[Len(looped)]
<1>1. seen' = after /\ Extend(kept)
  OBVIOUS
<1>2. /\ kept \in Seq(DOMAIN Catalogue)
      /\ after \in Seq(DOMAIN Catalogue) /\ Len(after) <= MaxSeen
      /\ NewAndRelevant(looped) \subseteq mentions \cup Range(kept)
      /\ NewAndRelevant(after) \subseteq mentions \cup Range(kept)
  BY DeduplicatedKept
<1> HIDE DEF kept, after
<1>3. NewAndRelevant(after) \subseteq mentions'
  BY <1>1, <1>2 DEF Extend
<1>4. platform \notin Restartable
  BY AgendaParts DEF Suits
<1>5. /\ IsPlan(agenda', platform)
      /\ \A r \in Range(Tail(agenda)) : r.ask \in Fallbacks \/ r \in Range(agenda')
  BY AgendaParts, SkipFallback
<1>6. QED
  BY <1>1, <1>2, <1>3, <1>4, <1>5, Handled

(* Reddit and GDELT.                                                       *)
LEMMA DeduplicatedRequests ==
    ASSUME SearchIInv, Reddit \/ GdeltFullText \/ GdeltArticles \/ GdeltTelevision
    PROVE  SearchIInv'
<1>1. PICK ask, answer, how :
         /\ ask \in Deduplicating /\ answer \in Answers
         /\ Asking(ask) /\ SearchSame /\ Made(answer.items, how)
         /\ LET looped == LoopedOver(answer.items, how)
            IN  /\ seen' = SeenBy(looped)[Len(looped)]
                /\ Extend(Kept(Unseen(looped), how))
         /\ agenda' = Tail(agenda) \/ (ask = "fts" /\ agenda' = Tail(Tail(agenda)))
  <2>1. ParsedAnswers \subseteq Answers
    BY DEF ParsedAnswers
  <2>2. CASE Reddit
    BY <2>2 DEF Reddit, Deduplicated, Deduplicating
  <2>3. CASE GdeltFullText
    BY <2>1, <2>3 DEF GdeltFullText, Deduplicated, Deduplicating
  <2>4. CASE GdeltArticles
    BY <2>4 DEF GdeltArticles, Deduplicated, Deduplicating
  <2>5. CASE GdeltTelevision
    BY <2>5 DEF GdeltTelevision, Deduplicated, Deduplicating
  <2>6. QED
    BY <2>2, <2>3, <2>4, <2>5
<1>2. answer.items \in Seq(DOMAIN Catalogue)
  BY <1>1, AnswerItems
<1>3. QED
  BY <1>1, <1>2, DeduplicatedInv DEF Asking

-----------------------------------------------------------------------------
(* A collect that raises.                                                  *)

(* It is started over with an empty list, or has failed.                   *)
LEMMA StartOverInv ==
    ASSUME SearchIInv, outcome = "searching", platform \in Restartable, StartOver
    PROVE  SearchIInv'
<1>1. /\ platform' = platform /\ setOut' = setOut /\ seen' = seen
      /\ mentions' = {} /\ due' = {} /\ fresh' = {} /\ asked' = {} /\ length' = 0
  BY DEF StartOver
<1>2. \/ attempt < MaxAttempts /\ attempt' = attempt + 1 /\ agenda' = setOut /\ outcome' = outcome
      \/ outcome' = "raised" /\ agenda' = <<>> /\ attempt' = attempt
  BY DEF StartOver
<1>3. attempt' \in 0 .. MaxAttempts /\ outcome' \in {"searching", "raised"}
  BY <1>2, SearchAssumption DEF SearchIInv, SearchTypeOK
<1>4. IsPlan(agenda', platform)
  BY <1>2, EmptyPlan DEF SearchIInv
<1>5. SearchTypeOK'
  BY <1>1, <1>3 DEF SearchIInv, SearchTypeOK
<1>6. NewAndRelevant(seen) = {}
  BY DEF SearchIInv, NewAndRelevant, Range
<1>7. platform # "none"
  BY DEF Restartable
<1>8. QED
  BY <1>1, <1>2, <1>3, <1>4, <1>5, <1>6, <1>7 DEF SearchIInv

(* A loop over statuses that ends leaves the agenda as it is told.         *)
LEMMA StatusesInv ==
    ASSUME SearchIInv, outcome = "searching", agenda # <<>>,
           Head(agenda).ask \in {"statuses", "hashtag"},
           NEW items \in Seq(DOMAIN Catalogue), Statuses(items),
           LoopedOver(items, MastodonTime) = items =>
              \/ agenda' = Tail(agenda)
              \/ Head(agenda).ask = "statuses" /\ agenda' = Tail(Tail(agenda))
    PROVE  SearchIInv'
<1>1. platform = "mastodon"
  BY AgendaParts DEF Suits
<1>2. CASE LoopedOver(items, MastodonTime) # items
  BY <1>1, <1>2, StartOverInv DEF Statuses, Restartable
<1>3. CASE LoopedOver(items, MastodonTime) = items
  <2>1. /\ Made(items, MastodonTime) /\ Extend(Kept(items, MastodonTime))
        /\ UNCHANGED seen /\ SearchSame
    BY <1>3 DEF Statuses
  <2>2. /\ Kept(items, MastodonTime) \in Seq(DOMAIN Catalogue)
        /\ NewAndRelevant(LoopedOver(items, MastodonTime)) \subseteq Range(Kept(items, MastodonTime))
    BY KeptItems
  <2>3. /\ IsPlan(agenda', platform)
        /\ \A r \in Range(Tail(agenda)) : r.ask \in Fallbacks \/ r \in Range(agenda')
    BY <1>3, AgendaParts, SkipFallback
  <2>4. /\ seen' \in Seq(DOMAIN Catalogue) /\ Len(seen') <= MaxSeen
        /\ NewAndRelevant(seen') \subseteq mentions'
        /\ platform \in Restartable => seen' = <<>>
    BY <2>1 DEF SearchIInv, SearchTypeOK, Extend
  <2>5. QED
    BY <2>1, <2>2, <2>3, <2>4, Handled
<1>4. QED
  BY <1>2, <1>3

(* Mastodon.                                                               *)
LEMMA MastodonRequests ==
    ASSUME SearchIInv, SearchStatuses \/ HashtagTimeline
    PROVE  SearchIInv'
<1>1. CASE SearchStatuses
  <2>1. PICK answer \in Answers :
           /\ Statuses(answer.items)
           /\ LoopedOver(answer.items, MastodonTime) = answer.items =>
                 agenda' = Tail(agenda) \/ agenda' = Tail(Tail(agenda))
    BY <1>1 DEF SearchStatuses
  <2>2. outcome = "searching" /\ agenda # <<>> /\ Head(agenda).ask = "statuses"
    BY <1>1 DEF SearchStatuses, Asking
  <2>3. answer.items \in Seq(DOMAIN Catalogue)
    BY AnswerItems
  <2>4. QED
    BY <2>1, <2>2, <2>3, StatusesInv
<1>2. CASE HashtagTimeline
  <2>1. PICK answer \in Answers :
           /\ Statuses(answer.items)
           /\ LoopedOver(answer.items, MastodonTime) = answer.items => GoOn(<<>>)
    BY <1>2 DEF HashtagTimeline
  <2>2. outcome = "searching" /\ agenda # <<>> /\ Head(agenda).ask = "hashtag"
    BY <1>2 DEF HashtagTimeline, Asking
  <2>3. answer.items \in Seq(DOMAIN Catalogue)
    BY AnswerItems
  <2>4. Tail(agenda) \in Seq(SearchRequests)
    BY <2>2, AgendaParts DEF IsPlan
  <2>5. <<>> \o Tail(agenda) = Tail(agenda)
    <3> DEFINE rest == Tail(agenda)
    <3>1. rest \in Seq(SearchRequests)
      BY <2>4
    <3> HIDE DEF rest
    <3>2. <<>> \o rest = rest
      BY <3>1
    <3>3. QED
      BY <3>2 DEF rest
  <2>6. QED
    BY <2>1, <2>2, <2>3, <2>5, StatusesInv DEF GoOn
<1>3. QED
  BY <1>1, <1>2

-----------------------------------------------------------------------------
(* The collectors that ask on.                                             *)

(* Web searches.                                                           *)
LEMMA WebRequests ==
    ASSUME SearchIInv, SearchQuora \/ QuoraPage \/ SearchWeb \/ WebPage
    PROVE  SearchIInv'
<1>1. ASSUME NEW ask, NEW page \in {"quorapage", "page"}, WebSearch(ask, page) PROVE SearchIInv'
  <2>1. PICK answer \in Answers : GoOn(Follow(page, TopOf(Addresses(answer.items))))
    BY <1>1 DEF WebSearch
  <2> DEFINE places == {n \in DOMAIN answer.items : Catalogue[answer.items[n]].sound}
             items == TopOf(Addresses(answer.items))
  <2>2. Addresses(answer.items) \in Seq(DOMAIN Catalogue)
    <3>1. answer.items \in Seq(DOMAIN Catalogue) /\ places \in SUBSET DOMAIN answer.items
      BY AnswerItems
    <3>2. ItemsAt(answer.items, places) \in Seq(DOMAIN Catalogue)
      BY <3>1, ItemsAtPlaces
    <3>3. QED
      BY <3>2 DEF Addresses
  <2>3. items \in Seq(DOMAIN Catalogue)
    <3>1. TopPages \in Nat
      BY SearchAssumption
    <3>2. QED
      BY <2>2, <3>1 DEF TopOf
  <2> HIDE DEF items
  <2>4. items \in Seq(AskedOf) /\ \A n \in DOMAIN items : items[n] \in DOMAIN Catalogue
    BY <2>3 DEF AskedOf
  <2>5. \A n \in DOMAIN items : Suits([ask |-> page, of |-> items[n]], platform)
    BY <1>1, <2>4 DEF Suits, Deduplicating
  <2>6. page \in Asks \ {"fts", "statuses"}
    BY <1>1 DEF Asks
  <2>7. IsPlan(Follow(page, items), platform)
    BY <2>4, <2>5, <2>6, FollowPlan
  <2>8. /\ outcome = "searching" /\ agenda # <<>> /\ SearchSame
        /\ Made(<<>>, Anything) /\ UNCHANGED <<mentions, length, seen>>
    BY <1>1 DEF WebSearch, Asking
  <2>9. GoOn(Follow(page, items))
    BY <2>1 DEF items
  <2>10. QED
    BY <2>7, <2>8, <2>9, AskedOnly
<1>2. ASSUME NEW ask \in {"quorapage", "page"}, Page(ask) PROVE SearchIInv'
  <2>1. PICK items \in {<<>>, <<Head(agenda).of>>} :
           Made(items, Relevant) /\ Extend(Kept(items, Relevant))
    BY <1>2 DEF Page
  <2>2. /\ outcome = "searching" /\ agenda # <<>> /\ SearchSame /\ UNCHANGED seen
        /\ GoOn(<<>>) /\ Head(agenda).ask = ask
    BY <1>2 DEF Page, Asking
  <2>3. Head(agenda).of \in DOMAIN Catalogue
    BY <1>2, <2>2, AgendaParts DEF Suits
  <2>4. items \in Seq(DOMAIN Catalogue)
    <3> DEFINE of == Head(agenda).of
    <3>1. of \in DOMAIN Catalogue /\ items \in {<<>>, <<of>>}
      BY <2>3
    <3> HIDE DEF of
    <3>2. <<of>> \in Seq(DOMAIN Catalogue) /\ <<>> \in Seq(DOMAIN Catalogue)
      BY <3>1
    <3>3. QED
      BY <3>1, <3>2
  <2>5. /\ Kept(items, Relevant) \in Seq(DOMAIN Catalogue)
        /\ NewAndRelevant(LoopedOver(items, Relevant)) \subseteq Range(Kept(items, Relevant))
    BY <2>4, KeptItems
  <2>6. QED
    BY <2>1, <2>2, <2>4, <2>5, EmptyPlan, Continued
<1>3. QED
  BY <1>1, <1>2 DEF SearchQuora, QuoraPage, SearchWeb, WebPage

(* YouTube.                                                                *)
LEMMA VideoRequests ==
    ASSUME SearchIInv, SearchVideos \/ Video \/ VideoComments
    PROVE  SearchIInv'
<1>1. outcome = "searching" /\ agenda # <<>> /\ SearchSame /\ UNCHANGED seen
  BY DEF SearchVideos, Video, VideoComments, Asking
<1>2. ASSUME NEW items \in Seq(DOMAIN Catalogue)
      PROVE  IsPlan(Follow("video", items), platform)
  <2>1. items \in Seq(AskedOf) /\ \A n \in DOMAIN items : items[n] \in DOMAIN Catalogue
    BY <1>2 DEF AskedOf
  <2>2. \A n \in DOMAIN items : Suits([ask |-> "video", of |-> items[n]], platform)
    BY <2>1 DEF Suits, Deduplicating
  <2>3. "video" \in Asks \ {"fts", "statuses"}
    BY DEF Asks
  <2>4. QED
    BY <2>1, <2>2, <2>3, FollowPlan
<1>3. CASE SearchVideos
  <2>1. PICK answer \in Answers, further \in BOOLEAN :
           LET items == IF Full THEN <<>> ELSE LoopedOver(answer.items, Anything)
               again == further /\ items # <<>> /\ items = answer.items
           IN  GoOn(Follow("video", items) \o (IF again THEN <<Head(agenda)>> ELSE <<>>))
    BY <1>3 DEF SearchVideos
  <2> DEFINE items == IF Full THEN <<>> ELSE LoopedOver(answer.items, Anything)
             again == further /\ items # <<>> /\ items = answer.items
             next == IF again THEN <<Head(agenda)>> ELSE <<>>
  <2>2. items \in Seq(DOMAIN Catalogue)
    <3>1. LoopedOver(answer.items, Anything) \in Seq(DOMAIN Catalogue)
      BY AnswerItems, LoopedStart
    <3>2. <<>> \in Seq(DOMAIN Catalogue)
      OBVIOUS
    <3>3. QED
      BY <3>1, <3>2, Zenon
  <2>3. IsPlan(Follow("video", items), platform)
    BY <1>2, <2>2
  <2>4. IsPlan(next, platform)
    <3>1. Head(agenda) \in SearchRequests /\ Suits(Head(agenda), platform)
      BY <1>1, AgendaParts
    <3>2. Head(agenda).ask = "videos"
      BY <1>3 DEF SearchVideos, Asking
    <3>3. IsPlan(<<Head(agenda)>>, platform)
      BY <3>1, <3>2 DEF IsPlan, Paired
    <3>4. QED
      BY <3>3, EmptyPlan
  <2>5. GoOn(Follow("video", items) \o next)
    BY <2>1
  <2>6. Made(<<>>, Anything) /\ UNCHANGED <<mentions, length, seen>>
    BY <1>3 DEF SearchVideos
  <2> HIDE DEF items, next
  <2>7. IsPlan(Follow("video", items) \o next, platform)
    BY <2>3, <2>4, PlanJoin
  <2>8. QED
    BY <1>1, <2>5, <2>6, <2>7, AskedOnly
<1>4. CASE Video
  <2> DEFINE items == IF Full THEN <<>> ELSE <<Head(agenda).of>>
             next == IF length' < SearchCap THEN Follow("videocomments", items) ELSE <<>>
  <2>1. Made(items, Anything) /\ Extend(items) /\ GoOn(next) /\ Head(agenda).ask = "video"
    BY <1>4 DEF Video, Asking
  <2>2. items \in Seq(DOMAIN Catalogue)
    <3>1. Head(agenda).of \in DOMAIN Catalogue
      BY <1>1, <2>1, AgendaParts DEF Suits
    <3>2. <<>> \in Seq(DOMAIN Catalogue) /\ <<Head(agenda).of>> \in Seq(DOMAIN Catalogue)
      BY <3>1
    <3>3. QED
      BY <3>2, Zenon
  <2> HIDE DEF items
  <2>3. NewAndRelevant(LoopedOver(items, Anything)) \subseteq Range(items)
    BY <2>2, LoopedStart, NewAndRelevantOf
  <2>4. IsPlan(next, platform)
    <3>1. "videocomments" \in Plain
      BY DEF Plain, Asks, Deduplicating
    <3>2. items \in Seq(AskedOf)
      BY <2>2 DEF AskedOf
    <3>3. QED
      BY <3>1, <3>2, PlainPlans, EmptyPlan
  <2> HIDE DEF next
  <2>5. QED
    BY <1>1, <2>1, <2>2, <2>3, <2>4, Continued
<1>5. CASE VideoComments
  <2>1. PICK answer \in Answers :
           LET kept == Kept(answer.items, Relevant)
               taken == SubSeq(kept, 1, IF Len(kept) < SearchCap - length THEN Len(kept)
                                        ELSE SearchCap - length)
           IN  Made(taken, Relevant) /\ Extend(taken)
    BY <1>5 DEF VideoComments
  <2> DEFINE kept == Kept(answer.items, Relevant)
             upto == IF Len(kept) < SearchCap - length THEN Len(kept) ELSE SearchCap - length
             taken == SubSeq(kept, 1, upto)
  <2>2. Made(taken, Relevant) /\ Extend(taken)
    BY <2>1
  <2>3. kept \in Seq(DOMAIN Catalogue)
    BY AnswerItems, KeptItems
  <2>4. SearchCap \in Nat /\ length \in Nat
    BY SearchAssumption DEF SearchIInv
  <2> HIDE DEF kept
  <2>5. taken \in Seq(DOMAIN Catalogue)
    BY <2>3, <2>4
  <2> HIDE DEF taken
  <2>6. NewAndRelevant(LoopedOver(taken, Relevant)) \subseteq Range(taken)
    BY <2>5, LoopedStart, NewAndRelevantOf
  <2>7. GoOn(<<>>)
    BY <1>5 DEF VideoComments
  <2>8. QED
    BY <1>1, <2>2, <2>5, <2>6, <2>7, EmptyPlan, Continued
<1>6. QED
  BY <1>3, <1>4, <1>5

(* One request, of a subject.                                              *)
LEMMA OnePlan ==
    ASSUME NEW name, NEW ask \in Plain, NEW item \in DOMAIN Catalogue
    PROVE  IsPlan(Follow(ask, <<item>>), name)
<1>1. <<item>> \in Seq(AskedOf)
  BY DEF AskedOf
<1>2. QED
  BY <1>1, PlainPlans

(* What Facebook's loops ask of each sound entry, and the raise of one     *)
(* that is not.                                                            *)
LEMMA EntriesPlan ==
    ASSUME NEW asks \in {<<"posts", "tagged">>, <<"post">>}, NEW items \in Seq(DOMAIN Catalogue)
    PROVE  IsPlan(Entries(asks, items), "facebook")
<1> DEFINE sound == SoundStart(items)
<1>1. sound \in Seq(DOMAIN Catalogue)
  BY SoundStarts
<1> HIDE DEF sound
<1>2. sound \in Seq(AskedOf) /\ \A j \in DOMAIN sound : sound[j] \in DOMAIN Catalogue
  BY <1>1 DEF AskedOf
<1>3. asks \in Seq(Asks) /\ asks # <<>> /\ \A i \in DOMAIN asks : asks[i] \in {"posts", "tagged", "post"}
  <2>1. CASE asks = <<"posts", "tagged">>
    BY <2>1 DEF Asks
  <2>2. CASE asks = <<"post">>
    BY <2>2 DEF Asks
  <2>3. QED
    BY <2>1, <2>2
<1>4. \A i \in DOMAIN asks, j \in DOMAIN sound :
         Suits([ask |-> asks[i], of |-> sound[j]], "facebook")
  BY <1>2, <1>3 DEF Suits, Deduplicating
<1>5. IsPlan(InTurn(asks, sound), "facebook")
  BY <1>2, <1>3, <1>4, InTurnPlan
<1>6. IsPlan(Once("raise"), "facebook")
  <2>1. <<0>> \in Seq(AskedOf) /\ "raise" \in Asks \ {"fts", "statuses"}
    BY DEF AskedOf, Asks
  <2>2. \A n \in DOMAIN <<0>> : Suits([ask |-> "raise", of |-> <<0>>[n]], "facebook")
    BY DEF Suits, Deduplicating
  <2>3. Once("raise") = Follow("raise", <<0>>)
    BY DEF Once, Follow
  <2>4. QED
    BY <2>1, <2>2, <2>3, FollowPlan
<1>7. IsPlan(If(~Sound(items), Once("raise")), "facebook")
  BY <1>6, EmptyPlan DEF If
<1>8. QED
  BY <1>5, <1>7, PlanJoin DEF Entries, sound

(* Facebook.                                                               *)
LEMMA FacebookRequests ==
    ASSUME SearchIInv, ManagedPages \/ PagePosts \/ PagePost \/ FacebookRaises
    PROVE  SearchIInv'
<1>1. outcome = "searching" /\ agenda # <<>>
  BY DEF ManagedPages, PagePosts, PagePost, FacebookRaises, FacebookAsks, Asking
<1>2. ASSUME NEW ask \in {"pages", "posts"}, NEW asks \in {<<"posts", "tagged">>, <<"post">>},
             FacebookAsks(ask, asks)
      PROVE  SearchIInv'
  <2>1. PICK answer \in Answers : GoOn(Entries(asks, answer.items))
    BY <1>2 DEF FacebookAsks
  <2>2. IsPlan(Entries(asks, answer.items), platform)
    <3>1. platform = "facebook"
      BY <1>1, <1>2, AgendaParts DEF FacebookAsks, Asking, Suits
    <3>2. QED
      BY <1>2, <3>1, AnswerItems, EntriesPlan
  <2>3. SearchSame /\ Made(<<>>, Anything) /\ UNCHANGED <<mentions, length, seen>>
    BY <1>2 DEF FacebookAsks
  <2>4. QED
    BY <1>1, <2>1, <2>2, <2>3, AskedOnly
<1>3. CASE PagePost
  <2> DEFINE item == <<Head(agenda).of>>
             next == IF Catalogue[item[1]].text = "other" THEN <<>> ELSE Follow("comments", item)
  <2>1. /\ Made(item, Relevant) /\ Extend(Kept(item, Relevant)) /\ GoOn(next)
        /\ UNCHANGED seen /\ SearchSame /\ Head(agenda).ask = "post"
    BY <1>3 DEF PagePost, Asking
  <2>2. Head(agenda).of \in DOMAIN Catalogue
    BY <1>1, <2>1, AgendaParts DEF Suits
  <2>3. item \in Seq(DOMAIN Catalogue)
    BY <2>2
  <2>4. IsPlan(next, platform)
    <3>1. "comments" \in Plain
      BY DEF Plain, Asks, Deduplicating
    <3>2. IsPlan(Follow("comments", item), platform)
      BY <2>2, <3>1, OnePlan
    <3>3. QED
      BY <3>2, EmptyPlan
  <2> HIDE DEF item, next
  <2>5. /\ Kept(item, Relevant) \in Seq(DOMAIN Catalogue)
        /\ NewAndRelevant(LoopedOver(item, Relevant)) \subseteq Range(Kept(item, Relevant))
    BY <2>3, KeptItems
  <2>6. QED
    BY <1>1, <2>1, <2>3, <2>4, <2>5, Continued
<1>4. CASE FacebookRaises
  <2>1. platform = "facebook"
    BY <1>1, <1>4, AgendaParts DEF FacebookRaises, Asking, Suits
  <2>2. QED
    BY <1>1, <1>4, <2>1, StartOverInv DEF FacebookRaises, Restartable
<1>5. QED
  BY <1>2, <1>3, <1>4 DEF ManagedPages, PagePosts

(* Instagram.                                                              *)
LEMMA InstagramRequests ==
    ASSUME SearchIInv, InstagramAccount \/ OwnMedia
    PROVE  SearchIInv'
<1>1. outcome = "searching" /\ agenda # <<>> /\ SearchSame
  BY DEF InstagramAccount, OwnMedia, Asking
<1>2. {"media", "mentioned", "tag", "mediacomments"} \subseteq Plain
  BY DEF Plain, Asks, Deduplicating
<1>3. CASE InstagramAccount
  <2> DEFINE all == Once("media") \o Once("mentioned") \o Each("tag")
  <2>1. PICK known \in BOOLEAN : GoOn(IF known THEN all ELSE <<>>)
    BY <1>3 DEF InstagramAccount
  <2>2. /\ IsPlan(Once("media"), platform) /\ IsPlan(Once("mentioned"), platform)
        /\ IsPlan(Each("tag"), platform)
    BY <1>2, PlainPlans
  <2>3. IsPlan(Once("media") \o Once("mentioned"), platform)
    BY <2>2, PlanJoin
  <2>4. IsPlan(all, platform)
    BY <2>2, <2>3, PlanJoin
  <2> HIDE DEF all
  <2>5. IsPlan(IF known THEN all ELSE <<>>, platform)
    BY <2>4, EmptyPlan
  <2>6. Made(<<>>, Anything) /\ UNCHANGED <<mentions, length, seen>>
    BY <1>3 DEF InstagramAccount
  <2>7. QED
    BY <1>1, <2>1, <2>5, <2>6, AskedOnly
<1>4. CASE OwnMedia
  <2> DEFINE how == How(FALSE, "aware")
  <2>1. PICK answer \in Answers :
           LET kept == Kept(answer.items, how)
           IN  /\ Made(answer.items, how)
               /\ Extend(ItemsAt(kept, {n \in DOMAIN kept : Passes(kept[n], Relevant)}))
               /\ GoOn(Follow("mediacomments", kept))
    BY <1>4 DEF OwnMedia
  <2> DEFINE kept == Kept(answer.items, how)
             places == {n \in DOMAIN kept : Passes(kept[n], Relevant)}
             own == ItemsAt(kept, places)
  <2>2. Made(answer.items, how) /\ Extend(own) /\ GoOn(Follow("mediacomments", kept))
    BY <2>1
  <2>3. answer.items \in Seq(DOMAIN Catalogue)
    BY AnswerItems
  <2> HIDE DEF how
  <2>4. /\ kept \in Seq(DOMAIN Catalogue)
        /\ NewAndRelevant(LoopedOver(answer.items, how)) \subseteq Range(kept)
    BY <2>3, KeptItems
  <2> HIDE DEF kept
  <2>5. own \in Seq(DOMAIN Catalogue) /\ Range(own) = {kept[n] : n \in places}
    <3>1. places \in SUBSET DOMAIN kept
      OBVIOUS
    <3> HIDE DEF places
    <3>2. QED
      BY <2>4, <3>1, ItemsAtPlaces
  <2>6. NewAndRelevant(LoopedOver(answer.items, how)) \subseteq Range(own)
    <3>1. \A item \in NewAndRelevant(LoopedOver(answer.items, how)) : Catalogue[item].text = "match"
      BY DEF NewAndRelevant
    <3>2. QED
      <4>1. ASSUME NEW n \in DOMAIN kept, Catalogue[kept[n]].text = "match" PROVE n \in places
        BY <4>1 DEF Passes
      <4> HIDE DEF places
      <4>2. QED
        BY <2>4, <2>5, <3>1, <4>1 DEF Range
  <2>7. IsPlan(Follow("mediacomments", kept), platform)
    <3>1. kept \in Seq(AskedOf)
      BY <2>4 DEF AskedOf
    <3>2. QED
      BY <1>2, <3>1, PlainPlans
  <2>8. UNCHANGED seen
    BY <1>4 DEF OwnMedia
  <2> HIDE DEF own
  <2>9. QED
    BY <1>1, <2>2, <2>3, <2>5, <2>6, <2>7, <2>8, Continued
<1>5. QED
  BY <1>3, <1>4

(* LinkedIn passes over what has no text, which is relevant to nothing.    *)
LEMMA TextItems ==
    ASSUME NEW items \in Seq(DOMAIN Catalogue), NEW how
    PROVE  /\ WithText(Kept(items, how)) \in Seq(DOMAIN Catalogue)
           /\ NewAndRelevant(LoopedOver(items, how)) \subseteq Range(WithText(Kept(items, how)))
<1> DEFINE kept == Kept(items, how)
           places == {n \in DOMAIN kept : Catalogue[kept[n]].text # "none"}
<1>1. /\ kept \in Seq(DOMAIN Catalogue)
      /\ NewAndRelevant(LoopedOver(items, how)) \subseteq Range(kept)
  BY KeptItems
<1>2. WithText(kept) = ItemsAt(kept, places)
  BY DEF WithText
<1> HIDE DEF kept
<1>3. /\ ItemsAt(kept, places) \in Seq(DOMAIN Catalogue)
      /\ Range(ItemsAt(kept, places)) = {kept[n] : n \in places}
  <2>1. places \in SUBSET DOMAIN kept
    OBVIOUS
  <2> HIDE DEF places
  <2>2. QED
    BY <1>1, <2>1, ItemsAtPlaces
<1>4. \A item \in NewAndRelevant(LoopedOver(items, how)) : Catalogue[item].text # "none"
  BY DEF NewAndRelevant
<1>5. NewAndRelevant(LoopedOver(items, how)) \subseteq Range(ItemsAt(kept, places))
  BY <1>1, <1>3, <1>4 DEF Range
<1>6. QED
  BY <1>2, <1>3, <1>5 DEF kept

(* LinkedIn.                                                               *)
LEMMA LinkedInRequests ==
    ASSUME SearchIInv, LinkedInOrganization \/ OrganizationPosts \/ OrganizationMentions
    PROVE  SearchIInv'
<1>1. outcome = "searching" /\ agenda # <<>> /\ SearchSame
  BY DEF LinkedInOrganization, OrganizationPosts, OrganizationMentions, Asking
<1>2. {"orgposts", "orgmentions", "ownposts", "orgcomments"} \subseteq Plain
  BY DEF Plain, Asks, Deduplicating
<1>3. CASE LinkedInOrganization
  <2> DEFINE all == Once("orgposts") \o Once("orgmentions")
  <2>1. PICK found \in BOOLEAN : GoOn(IF found THEN all ELSE Once("ownposts"))
    BY <1>3 DEF LinkedInOrganization
  <2>2. /\ IsPlan(Once("orgposts"), platform) /\ IsPlan(Once("orgmentions"), platform)
        /\ IsPlan(Once("ownposts"), platform)
    BY <1>2, PlainPlans
  <2>3. IsPlan(all, platform)
    BY <2>2, PlanJoin
  <2> HIDE DEF all
  <2>4. IsPlan(IF found THEN all ELSE Once("ownposts"), platform)
    BY <2>2, <2>3
  <2>5. Made(<<>>, Anything) /\ UNCHANGED <<mentions, length, seen>>
    BY <1>3 DEF LinkedInOrganization
  <2>6. QED
    BY <1>1, <2>1, <2>4, <2>5, AskedOnly
<1>4. CASE OrganizationPosts
  <2> DEFINE how == How(FALSE, "naive")
  <2>1. PICK answer \in Answers :
           LET kept == WithText(Kept(answer.items, how))
           IN  /\ Made(answer.items, how) /\ Extend(kept) /\ GoOn(Follow("orgcomments", kept))
    BY <1>4 DEF OrganizationPosts
  <2> DEFINE kept == WithText(Kept(answer.items, how))
  <2>2. Made(answer.items, how) /\ Extend(kept) /\ GoOn(Follow("orgcomments", kept))
    BY <2>1
  <2>3. answer.items \in Seq(DOMAIN Catalogue)
    BY AnswerItems
  <2> HIDE DEF how
  <2>4. /\ kept \in Seq(DOMAIN Catalogue)
        /\ NewAndRelevant(LoopedOver(answer.items, how)) \subseteq Range(kept)
    BY <2>3, TextItems
  <2> HIDE DEF kept
  <2>5. IsPlan(Follow("orgcomments", kept), platform)
    <3>1. kept \in Seq(AskedOf)
      BY <2>4 DEF AskedOf
    <3>2. QED
      BY <1>2, <3>1, PlainPlans
  <2>6. UNCHANGED seen
    BY <1>4 DEF OrganizationPosts
  <2>7. QED
    BY <1>1, <2>2, <2>3, <2>4, <2>5, <2>6, Continued
<1>5. CASE OrganizationMentions
  <2>1. PICK answer \in Answers :
           Made(answer.items, Anything) /\ Extend(WithText(Kept(answer.items, Anything)))
    BY <1>5 DEF OrganizationMentions
  <2>2. answer.items \in Seq(DOMAIN Catalogue)
    BY AnswerItems
  <2>3. GoOn(<<>>) /\ UNCHANGED seen
    BY <1>5 DEF OrganizationMentions
  <2>4. QED
    BY <1>1, <2>1, <2>2, <2>3, TextItems, EmptyPlan, Continued
<1>6. QED
  BY <1>3, <1>4, <1>5

-----------------------------------------------------------------------------
(* The theorems.                                                           *)

(* At first nothing has been asked.                                        *)
LEMMA SearchInitInv == SearchInit => SearchIInv
<1> SUFFICES ASSUME SearchInit PROVE SearchIInv
  OBVIOUS
<1>1. NothingAsked /\ platform = "none"
  BY DEF SearchInit, NothingAsked
<1>2. SearchTypeOK
  BY <1>1, SearchAssumption DEF NothingAsked, SearchTypeOK, Range
<1>3. NewAndRelevant(seen) = {}
  BY <1>1 DEF NothingAsked, NewAndRelevant, Range
<1>4. QED
  BY <1>1, <1>2, <1>3, EmptyPlan DEF SearchIInv, NothingAsked

(* A collector sets out with a plan of its own.                            *)
LEMMA BeginSearchInv ==
    ASSUME SearchIInv, NEW name \in Platforms, NEW since \in BOOLEAN, BeginSearch(name, since)
    PROVE  SearchIInv'
<1>1. /\ platform = "none" /\ platform' = name /\ setOut' \in PlansOf(name) /\ agenda' = setOut'
      /\ attempt' = 1 /\ outcome' = "searching"
      /\ UNCHANGED <<mentions, length, seen, asked, due, fresh>>
  BY DEF BeginSearch
<1>2. NothingAsked
  BY <1>1 DEF SearchIInv
<1>3. name \in PlatformCollectors /\ name # "none"
  BY SearchAssumption DEF PlatformCollectors
<1>4. IsPlan(setOut', name)
  BY <1>1, <1>3, PlansOfFit
<1>5. SearchTypeOK'
  BY <1>1, SearchAssumption DEF SearchIInv, SearchTypeOK
<1>6. NewAndRelevant(seen') = {}
  BY <1>1, <1>2 DEF NothingAsked, NewAndRelevant, Range
<1>7. QED
  BY <1>1, <1>2, <1>3, <1>4, <1>5, <1>6 DEF SearchIInv, NothingAsked

(* With nothing left on the agenda everything has been asked.              *)
LEMMA ReturnMentionsInv ==
    ASSUME SearchIInv, ReturnMentions
    PROVE  SearchIInv'
BY DEF SearchIInv, SearchTypeOK, ReturnMentions, NothingAsked, IsPlan, Suits, Paired, NewAndRelevant

(* Every step keeps the invariant.                                         *)
LEMMA SearchStepInv ==
    ASSUME SearchIInv, [SearchNext]_searchVars
    PROVE  SearchIInv'
<1>1. CASE UNCHANGED searchVars
  BY <1>1 DEF searchVars, SearchIInv, SearchTypeOK, NothingAsked, IsPlan, Suits, Paired,
       NewAndRelevant
<1>2. CASE \E name \in Platforms, since \in BOOLEAN : BeginSearch(name, since)
  BY <1>2, BeginSearchInv
<1>3. CASE SimpleSearch
  BY <1>3, ContainedRequests, DeduplicatedRequests DEF SimpleSearch
<1>4. CASE FollowingSearch
  BY <1>4, ContainedRequests, MastodonRequests, WebRequests, VideoRequests, FacebookRequests,
     InstagramRequests, LinkedInRequests DEF FollowingSearch
<1>5. CASE ReturnMentions
  BY <1>5, ReturnMentionsInv
<1>6. QED
  BY <1>1, <1>2, <1>3, <1>4, <1>5 DEF SearchNext

(* What a search loses is implied by the invariant.                        *)
LEMMA SearchIInvImplies == SearchIInv => SearchLosesOnlyItsOwn
<1> SUFFICES ASSUME SearchIInv PROVE SearchLosesOnlyItsOwn
  OBVIOUS
<1>1. ASSUME outcome = "done"
      PROVE  \A r \in Range(setOut) : r.ask \notin Fallbacks => r \in asked
  BY <1>1 DEF SearchIInv, Range
<1>2. QED
  BY <1>1 DEF SearchIInv, SearchLosesOnlyItsOwn, Restartable

(* The searches of every collector stay within their types: what is kept,  *)
(* seen and due is of the platform's catalogue, and the ids kept to tell   *)
(* duplicates never exceed their limit.                                    *)
THEOREM SearchTyping == SearchSpec => []SearchTypeOK
<1>1. SearchIInv => SearchTypeOK
  BY DEF SearchIInv
<1>2. QED
  BY <1>1, SearchInitInv, SearchStepInv, PTL DEF SearchSpec

(* Whatever the platforms answer, in whatever order and however often a    *)
(* collect is started over: a search that returns has asked all it set out *)
(* to and returns what was new and relevant before a bad item or date, and *)
(* only Facebook's and Mastodon's searches can raise.                      *)
THEOREM SearchesLoseOnlyTheirOwn == SearchSpec => []SearchLosesOnlyItsOwn
<1>1. QED
  BY SearchInitInv, SearchStepInv, SearchIInvImplies, PTL DEF SearchSpec
=============================================================================
