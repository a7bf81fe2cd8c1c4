--------------------------- MODULE PlatformSearch ---------------------------
(***************************************************************************)
(* The collectors of the platforms (src/collectors/*.py): what the collect *)
(* method of each asks a platform, in which order, what it keeps of the    *)
(* answers, and what a failed request, an item of an unexpected shape or   *)
(* the comparison of its date with `since` costs it.  A collect method is  *)
(* a list of requests still to be made, its agenda; each request is an     *)
(* action, which handles the answer and may add requests that follow from  *)
(* it.  _collect_with_retry of the collector service starts it over when   *)
(* it raises.                                                              *)
(*                                                                         *)
(* The services always pass a naive `since`, datetime.utcnow() less some   *)
(* hours; the tests also pass none.  Comparing it with an aware date       *)
(* raises TypeError.                                                       *)
(***************************************************************************)
EXTENDS Integers, Sequences, FiniteSetsExt, Functions

CONSTANTS
    Platforms,      \* the collectors that are explored
    Catalogue,      \* what a platform has: a sequence of [text, when, sound]
    AnswersGiven,   \* the lists of items of Catalogue a request may bring
    Targets,        \* keywords of the project, or sources configured
    SearchCap,      \* 1000: max_results of the YouTube collector
    TopPages,       \* 5 or 8: pages of a web search that are read
    MaxSeen,        \* 10000: ids kept by _is_duplicate
    MaxAttempts     \* COLLECTOR_MAX_RETRIES

(* The classes in PLATFORM_COLLECTORS; "blog" and "forum" share "web".      *)
PlatformCollectors ==
    {"twitter", "tiktok", "bluesky", "reddit", "pinterest", "threads", "discord", "telegram", "news",
     "podcast", "reviews", "appstore", "gdelt", "mastodon", "youtube", "quora", "web", "facebook",
     "instagram", "linkedin"}

ASSUME SearchAssumption ==
    /\ Platforms \subseteq PlatformCollectors
    /\ \A n \in DOMAIN Catalogue :
          /\ Catalogue[n].text \in {"match", "other", "none"}
          /\ Catalogue[n].when \in {"new", "old", "undated"}
          /\ Catalogue[n].sound \in BOOLEAN
    /\ AnswersGiven \subseteq Seq(DOMAIN Catalogue)
    /\ {Targets, SearchCap, TopPages, MaxSeen, MaxAttempts} \subseteq Nat \ {0}

VARIABLES
    platform,       \* the collector, or "none" before the search
    dated,          \* whether collect is given a `since`
    setOut,         \* the requests collect sets out with
    agenda,         \* the requests still to be made
    attempt,        \* of _collect_with_retry
    outcome,        \* "searching", "done" or "raised"
    mentions,       \* the list that collect returns, as a set
    length,         \* its length, which the YouTube collector looks at
    seen,           \* _seen_ids_order
    asked,          \* history: requests made in this attempt
    due,            \* history: what this attempt has to return
    fresh           \* history: what was new and relevant in its answers

searchVars ==
    <<platform, dated, setOut, agenda, attempt, outcome, mentions, length, seen, asked, due, fresh>>

SearchInit ==
    /\ platform = "none"
    /\ dated = FALSE
    /\ setOut = <<>>
    /\ agenda = <<>>
    /\ attempt = 0
    /\ outcome = "none"
    /\ mentions = {}
    /\ length = 0
    /\ seen = <<>>
    /\ asked = {}
    /\ due = {}
    /\ fresh = {}

-----------------------------------------------------------------------------
(* The requests a collector sets out with.                                 *)

Once(ask) == <<[ask |-> ask, of |-> 0]>>

(* The same of each subject.                                               *)
Follow(ask, subjects) == [n \in DOMAIN subjects |-> [ask |-> ask, of |-> subjects[n]]]

(* One thing after the other of each subject.                              *)
InTurn(asks, subjects) ==
    [n \in 1 .. Len(asks) * Len(subjects) |->
        [ask |-> asks[((n - 1) % Len(asks)) + 1], of |-> subjects[((n - 1) \div Len(asks)) + 1]]]

(* The keywords, or the configured sources.                                *)
Keywords == [n \in 1 .. Targets |-> n]

Each(ask) == Follow(ask, Keywords)

If(condition, plan) == IF condition THEN plan ELSE <<>>

(* GDELT, keyword by keyword: the full text search, the article search if  *)
(* that brought nothing, and television.                                   *)
GdeltPlan == InTurn(<<"fts", "doc", "tv">>, Keywords)

(* Mastodon: the search if there is a token, and the hashtag's timeline if *)
(* that brought nothing.                                                   *)
MastodonPlan(token) ==
    InTurn(IF token THEN <<"statuses", "hashtag">> ELSE <<"hashtag">>, Keywords)

NewsPlan(key) == If(key, Once("newsapi")) \o Each("rss")

PodcastPlans == {<<>>, Each("listennotes"), Each("podcastindex")}

ReviewPlan(sites) ==
    If("trustpilot" \in sites, Each("trustpilot"))
        \o If("yelp" \in sites, Each("yelp"))
        \o If("g2" \in sites, Each("g2"))

AppStorePlan == Each("apple") \o Each("play")

WebPlan == Each("site") \o Each("websearch")

(* Without its credentials or sources a collector asks nothing.            *)
Unless(configured) == {<<>>, configured}

PlansOf(name) ==
    CASE name = "twitter" -> Unless(Once("twitter"))
      [] name = "tiktok" -> Unless(Once("tiktok"))
      [] name = "bluesky" -> {Each("bluesky")}
      [] name = "reddit" -> {Each("reddit")}
      [] name = "pinterest" -> Unless(Each("pinterest"))
      [] name = "threads" -> Unless(Each("threads"))
      [] name = "discord" -> Unless(Each("discord"))
      [] name = "telegram" -> Unless(Each("telegram"))
      [] name = "news" -> {NewsPlan(key) : key \in BOOLEAN}
      [] name = "podcast" -> PodcastPlans
      [] name = "reviews" -> {ReviewPlan(sites) : sites \in SUBSET {"trustpilot", "yelp", "g2"}}
      [] name = "appstore" -> Unless(AppStorePlan)
      [] name = "gdelt" -> {GdeltPlan}
      [] name = "mastodon" -> {MastodonPlan(token) : token \in BOOLEAN}
      [] name = "youtube" -> Unless(Each("videos"))
      [] name = "quora" -> {Each("quora")}
      [] name = "web" -> {WebPlan}
      [] name = "facebook" -> Unless(Once("pages"))
      [] name = "instagram" -> Unless(Once("account"))
      [] name = "linkedin" -> Unless(Once("organization"))

(* collector_cls() and the call of collect.                                *)
BeginSearch(name, since) ==
    /\ platform = "none"
    /\ platform' = name
    /\ dated' = since
    /\ setOut' \in PlansOf(name)
    /\ agenda' = setOut'
    /\ attempt' = 1
    /\ outcome' = "searching"
    /\ UNCHANGED <<mentions, length, seen, asked, due, fresh>>

-----------------------------------------------------------------------------
(* What is made of an answer.                                              *)

(* How an answer is gone through: whether its items are filtered by        *)
(* keyword, and what their dates are: "aware" or "naive", "epoch" when a   *)
(* missing one is taken for 1970, "ignored" when they are not looked at.   *)
How(filtered, dates) == [filtered |-> filtered, dates |-> dates]

Passes(item, how) == how.filtered => Catalogue[item].text = "match"

(* An item of another shape raises at its first use; so does an aware date *)
(* at its comparison.                                                      *)
Raises(item, how) ==
    \/ ~Catalogue[item].sound
    \/ /\ how.dates = "aware" /\ dated
       /\ Catalogue[item].when # "undated"
       /\ Passes(item, how)

Outdated(item, how) ==
    /\ dated
    /\ how.dates # "ignored"
    /\ \/ Catalogue[item].when = "old"
       \/ Catalogue[item].when = "undated" /\ how.dates = "epoch"

(* The items before the one that ends the loop, the first at a bad place.  *)
Before(items, bad) == IF bad = {} THEN items ELSE SubSeq(items, 1, Min(bad) - 1)

LoopedOver(items, how) == Before(items, {n \in DOMAIN items : Raises(items[n], how)})

SoundStart(items) == Before(items, {n \in DOMAIN items : ~Catalogue[items[n]].sound})

(* The items at some places, in their order.                               *)
ItemsAt(items, places) ==
    LET nth(i) == CHOOSE n \in places : Cardinality({m \in places : m <= n}) = i
    IN  [i \in 1 .. Cardinality(places) |-> items[nth(i)]]

PassesAll(item, how) == Passes(item, how) /\ ~Outdated(item, how)

Kept(items, how) ==
    LET looped == LoopedOver(items, how)
    IN  ItemsAt(looped, {n \in DOMAIN looped : PassesAll(looped[n], how)})

NewAndRelevant(items) ==
    {item \in Range(items) : Catalogue[item].text = "match" /\ Catalogue[item].when = "new"}

Sound(items) == \A n \in DOMAIN items : Catalogue[items[n]].sound

NoAnswer == [good |-> FALSE, items |-> <<>>]

(* A request that fails or is rate limited is logged and brings nothing.   *)
Answers == {[good |-> TRUE, items |-> items] : items \in AnswersGiven} \cup {NoAnswer}

(* Of what is parsed from HTML or a feed every item is sound.              *)
ParsedAnswers == {answer \in Answers : Sound(answer.items)}

Asking(ask) == outcome = "searching" /\ agenda # <<>> /\ Head(agenda).ask = ask

(* The request is made; what it has to bring, whatever comes after it.     *)
Made(items, how) ==
    /\ asked' = asked \cup {Head(agenda)}
    /\ due' = due \cup NewAndRelevant(LoopedOver(items, how))
    /\ fresh' = fresh \cup NewAndRelevant(SoundStart(items))

Extend(items) ==
    /\ mentions' = mentions \cup Range(items)
    /\ length' = length + Len(items)

GoOn(more) == agenda' = more \o Tail(agenda)

SearchSame == UNCHANGED <<platform, dated, setOut, attempt, outcome>>

(* A request whose handling is within a try of its own: whatever happens,  *)
(* the loop goes on to the next one.                                       *)
Contained(ask, answers, how) ==
    /\ Asking(ask)
    /\ \E answer \in answers :
          /\ Made(answer.items, how)
          /\ Extend(Kept(answer.items, how))
    /\ GoOn(<<>>)
    /\ UNCHANGED seen
    /\ SearchSame

-----------------------------------------------------------------------------
(* The collectors with one kind of request.                                *)

Twitter == Contained("twitter", Answers, How(FALSE, "ignored"))

TikTok == Contained("tiktok", Answers, How(FALSE, "epoch"))

\* Mutant of Bluesky: a failed request ends the search.
BlueskyGivingUp ==
    /\ Asking("bluesky")
    /\ \E answer \in Answers :
          /\ Made(answer.items, How(FALSE, "aware"))
          /\ Extend(Kept(answer.items, How(FALSE, "aware")))
          /\ agenda' = IF answer.good THEN Tail(agenda) ELSE <<>>
    /\ UNCHANGED seen
    /\ SearchSame

Bluesky == Contained("bluesky", Answers, How(FALSE, "aware"))

Pinterest == Contained("pinterest", Answers, How(FALSE, "aware"))

Threads == Contained("threads", Answers, How(TRUE, "aware"))

Discord == Contained("discord", Answers, How(TRUE, "aware"))

Telegram == Contained("telegram", ParsedAnswers, How(TRUE, "aware"))

NewsApi == Contained("newsapi", Answers, How(FALSE, "ignored"))

Rss == Contained("rss", ParsedAnswers, How(FALSE, "naive"))

ListenNotes == Contained("listennotes", Answers, How(FALSE, "naive"))

PodcastIndex == Contained("podcastindex", Answers, How(FALSE, "naive"))

Trustpilot == Contained("trustpilot", Answers, How(TRUE, "aware"))

Yelp == Contained("yelp", Answers, How(TRUE, "naive"))

G2 == Contained("g2", ParsedAnswers, How(TRUE, "naive"))

(* Apple's entries are all converted before the first of them is looked    *)
(* at, so that a bad one costs the whole answer.                           *)
Apple == Contained("apple", ParsedAnswers, How(TRUE, "aware"))

PlayStore == Contained("play", Answers, How(TRUE, "ignored"))

-----------------------------------------------------------------------------
(* The collectors that skip what they have seen: Reddit and GDELT.         *)

(* _is_duplicate of one id: the ids seen after it.                         *)
See(ids, id) ==
    IF id \in Range(ids) THEN ids
    ELSE Append(IF Len(ids) >= MaxSeen THEN Tail(ids) ELSE ids, id)

(* The ids seen after so many of the items.                                *)
SeenBy(items) ==
    LET by[n \in 0 .. Len(items)] == IF n = 0 THEN seen ELSE See(by[n - 1], items[n])
    IN  by

(* A loop over an answer, in which an item is marked before anything else  *)
(* is asked of it.                                                         *)
Unseen(items) ==
    ItemsAt(items, {n \in DOMAIN items : items[n] \notin Range(SeenBy(items)[n - 1])})

Deduplicated(ask, answers, how, Follows(_)) ==
    /\ Asking(ask)
    /\ \E answer \in answers :
          LET looped == LoopedOver(answer.items, how)
              kept == Kept(Unseen(looped), how)
          IN  /\ Made(answer.items, how)
              /\ seen' = SeenBy(looped)[Len(looped)]
              /\ Extend(kept)
              /\ agenda' = Follows(kept)
    /\ SearchSame

Reddit == Deduplicated("reddit", Answers, How(FALSE, "epoch"), LAMBDA kept : Tail(agenda))

(* The article search is the next on the agenda; it is passed over when    *)
(* the full text search brought something new.  A bad line of its CSV is   *)
(* passed over.                                                            *)
GdeltFullText ==
    Deduplicated("fts", ParsedAnswers, How(FALSE, "ignored"),
                 LAMBDA kept : IF kept = <<>> THEN Tail(agenda) ELSE Tail(Tail(agenda)))

GdeltArticles == Deduplicated("doc", Answers, How(FALSE, "ignored"), LAMBDA kept : Tail(agenda))

GdeltTelevision == Deduplicated("tv", Answers, How(FALSE, "ignored"), LAMBDA kept : Tail(agenda))

-----------------------------------------------------------------------------
(* A collect that raises: _collect_with_retry starts it over, on the same  *)
(* instance, or after the last attempt lets the platform fail.             *)

StartOver ==
    /\ length' = 0
    /\ mentions' = {}
    /\ asked' = {}
    /\ due' = {}
    /\ fresh' = {}
    /\ IF attempt < MaxAttempts
       THEN attempt' = attempt + 1 /\ agenda' = setOut /\ UNCHANGED outcome
       ELSE outcome' = "raised" /\ agenda' = <<>> /\ UNCHANGED attempt
    /\ UNCHANGED <<platform, dated, setOut, seen>>

-----------------------------------------------------------------------------
(* Mastodon: the loop over the statuses is outside the try.                *)

MastodonTime == How(FALSE, "aware")

(* The loop over the statuses found for a keyword.                         *)
Statuses(items) ==
    IF LoopedOver(items, MastodonTime) # items
    THEN StartOver
    ELSE /\ Made(items, MastodonTime)
         /\ Extend(Kept(items, MastodonTime))
         /\ UNCHANGED seen
         /\ SearchSame

(* The hashtag's timeline, the next on the agenda, is read when the search *)
(* is limited or brings nothing, and passed over when it fails.            *)
SearchStatuses ==
    /\ Asking("statuses")
    /\ \E answer \in Answers :
          /\ Statuses(answer.items)
          /\ LoopedOver(answer.items, MastodonTime) = answer.items =>
                agenda' = IF answer.good /\ answer.items = <<>> THEN Tail(agenda)
                          ELSE Tail(Tail(agenda))

HashtagTimeline ==
    /\ Asking("hashtag")
    /\ \E answer \in Answers :
          /\ Statuses(answer.items)
          /\ LoopedOver(answer.items, MastodonTime) = answer.items => GoOn(<<>>)

-----------------------------------------------------------------------------
(* Web searches: Quora, blogs and forums.  The items of an answer are      *)
(* addresses, of which those that validate_url refuses are passed over.    *)

Anything == How(FALSE, "ignored")

Relevant == How(TRUE, "ignored")

Addresses(items) == ItemsAt(items, {n \in DOMAIN items : Catalogue[items[n]].sound})

TopOf(items) == SubSeq(items, 1, IF Len(items) < TopPages THEN Len(items) ELSE TopPages)

WebSearch(ask, page) ==
    /\ Asking(ask)
    /\ \E answer \in Answers : GoOn(Follow(page, TopOf(Addresses(answer.items))))
    /\ Made(<<>>, Anything)
    /\ UNCHANGED <<mentions, length, seen>>
    /\ SearchSame

(* A page is one mention, of its own address, if it is about the keyword.  *)
Page(ask) ==
    /\ Asking(ask)
    /\ \E items \in {<<>>, <<Head(agenda).of>>} :
          Made(items, Relevant) /\ Extend(Kept(items, Relevant))
    /\ GoOn(<<>>)
    /\ UNCHANGED seen
    /\ SearchSame

SearchQuora == WebSearch("quora", "quorapage")

QuoraPage == Page("quorapage")

SearchWeb == WebSearch("websearch", "page")

WebPage == Page("page")

(* A configured site: its articles that match.                             *)
WebSite == Contained("site", ParsedAnswers, Relevant)

-----------------------------------------------------------------------------
(* YouTube: page after page of videos, and the comments of each video,     *)
(* until there are max_results mentions.                                   *)

Full == length >= SearchCap

(* A page that is empty or fails is the keyword's last.                    *)
SearchVideos ==
    /\ Asking("videos")
    /\ \E answer \in Answers, further \in BOOLEAN :
          LET items == IF Full THEN <<>> ELSE LoopedOver(answer.items, Anything)
              again == further /\ items # <<>> /\ items = answer.items
          IN  GoOn(Follow("video", items) \o (IF again THEN <<Head(agenda)>> ELSE <<>>))
    /\ Made(<<>>, Anything)
    /\ UNCHANGED <<mentions, length, seen>>
    /\ SearchSame

Video ==
    LET items == IF Full THEN <<>> ELSE <<Head(agenda).of>>
    IN  /\ Asking("video")
        /\ Made(items, Anything)
        /\ Extend(items)
        /\ GoOn(IF length' < SearchCap THEN Follow("videocomments", items) ELSE <<>>)
        /\ UNCHANGED seen
        /\ SearchSame

(* Of the comments, at most what remains.                                  *)
VideoComments ==
    /\ Asking("videocomments")
    /\ \E answer \in Answers :
          LET kept == Kept(answer.items, Relevant)
              taken == SubSeq(kept, 1, IF Len(kept) < SearchCap - length THEN Len(kept)
                                       ELSE SearchCap - length)
          IN  Made(taken, Relevant) /\ Extend(taken)
    /\ GoOn(<<>>)
    /\ UNCHANGED seen
    /\ SearchSame

-----------------------------------------------------------------------------
(* Facebook: the loops over pages and their posts are outside any try.     *)

Entries(asks, items) ==
    InTurn(asks, SoundStart(items)) \o If(~Sound(items), Once("raise"))

FacebookAsks(ask, asks) ==
    /\ Asking(ask)
    /\ \E answer \in Answers : GoOn(Entries(asks, answer.items))
    /\ Made(<<>>, Anything)
    /\ UNCHANGED <<mentions, length, seen>>
    /\ SearchSame

(* Of each page the posts, then the posts it is tagged in.                 *)
ManagedPages == FacebookAsks("pages", <<"posts", "tagged">>)

PagePosts == FacebookAsks("posts", <<"post">>)

(* A post about something else is passed over with its comments; one       *)
(* without text is not, but only its comments are kept.                    *)
PagePost ==
    LET item == <<Head(agenda).of>>
    IN  /\ Asking("post")
        /\ Made(item, Relevant)
        /\ Extend(Kept(item, Relevant))
        /\ GoOn(IF Catalogue[item[1]].text = "other" THEN <<>> ELSE Follow("comments", item))
        /\ UNCHANGED seen
        /\ SearchSame

FacebookRaises == Asking("raise") /\ StartOver

PostComments == Contained("comments", Answers, Relevant)

TaggedPosts == Contained("tagged", Answers, Anything)

-----------------------------------------------------------------------------
(* Instagram: the account, its media with their comments, the media it is  *)
(* tagged in, and each keyword as a hashtag.                               *)

InstagramAccount ==
    /\ Asking("account")
    /\ \E known \in BOOLEAN :
          GoOn(IF known THEN Once("media") \o Once("mentioned") \o Each("tag") ELSE <<>>)
    /\ Made(<<>>, Anything)
    /\ UNCHANGED <<mentions, length, seen>>
    /\ SearchSame

(* Comments are asked of every medium that is new, of its subject or not.  *)
OwnMedia ==
    LET how == How(FALSE, "aware")
    IN  /\ Asking("media")
        /\ \E answer \in Answers :
              LET kept == Kept(answer.items, how)
              IN  /\ Made(answer.items, how)
                  /\ Extend(ItemsAt(kept, {n \in DOMAIN kept : Passes(kept[n], Relevant)}))
                  /\ GoOn(Follow("mediacomments", kept))
        /\ UNCHANGED seen
        /\ SearchSame

MediaComments == Contained("mediacomments", Answers, Relevant)

MentionedMedia == Contained("mentioned", Answers, Anything)

TaggedMedia == Contained("tag", Answers, How(FALSE, "aware"))

-----------------------------------------------------------------------------
(* LinkedIn: the posts of the organisation, with the comments of each, and *)
(* its mentions; without an organisation, the person's own posts.          *)

LinkedInOrganization ==
    /\ Asking("organization")
    /\ \E found \in BOOLEAN :
          GoOn(IF found THEN Once("orgposts") \o Once("orgmentions") ELSE Once("ownposts"))
    /\ Made(<<>>, Anything)
    /\ UNCHANGED <<mentions, length, seen>>
    /\ SearchSame

WithText(items) == ItemsAt(items, {n \in DOMAIN items : Catalogue[items[n]].text # "none"})

OrganizationPosts ==
    LET how == How(FALSE, "naive")
    IN  /\ Asking("orgposts")
        /\ \E answer \in Answers :
              LET kept == WithText(Kept(answer.items, how))
              IN  /\ Made(answer.items, how)
                  /\ Extend(kept)
                  /\ GoOn(Follow("orgcomments", kept))
        /\ UNCHANGED seen
        /\ SearchSame

OrganizationComments == Contained("orgcomments", Answers, Relevant)

OrganizationMentions ==
    /\ Asking("orgmentions")
    /\ \E answer \in Answers :
          /\ Made(answer.items, Anything)
          /\ Extend(WithText(Kept(answer.items, Anything)))
    /\ GoOn(<<>>)
    /\ UNCHANGED seen
    /\ SearchSame

PersonalPosts == Contained("ownposts", Answers, How(TRUE, "naive"))

-----------------------------------------------------------------------------
(* return mentions                                                         *)
ReturnMentions ==
    /\ outcome = "searching"
    /\ agenda = <<>>
    /\ outcome' = "done"
    /\ UNCHANGED <<platform, dated, setOut, agenda, attempt, mentions, length, seen, asked, due, fresh>>

SimpleSearch ==
    \/ Twitter \/ TikTok \/ Bluesky \/ Pinterest \/ Threads \/ Discord \/ Telegram
    \/ NewsApi \/ Rss \/ ListenNotes \/ PodcastIndex
    \/ Trustpilot \/ Yelp \/ G2 \/ Apple \/ PlayStore
    \/ Reddit \/ GdeltFullText \/ GdeltArticles \/ GdeltTelevision

FollowingSearch ==
    \/ SearchStatuses \/ HashtagTimeline
    \/ SearchQuora \/ QuoraPage \/ SearchWeb \/ WebPage \/ WebSite
    \/ SearchVideos \/ Video \/ VideoComments
    \/ ManagedPages \/ PagePosts \/ PagePost \/ FacebookRaises \/ PostComments \/ TaggedPosts
    \/ InstagramAccount \/ OwnMedia \/ MediaComments \/ MentionedMedia \/ TaggedMedia
    \/ LinkedInOrganization \/ OrganizationPosts \/ OrganizationComments
    \/ OrganizationMentions \/ PersonalPosts

SearchNext ==
    \/ \E name \in Platforms, since \in BOOLEAN : BeginSearch(name, since)
    \/ SimpleSearch
    \/ FollowingSearch
    \/ ReturnMentions

SearchSpec == SearchInit /\ [][SearchNext]_searchVars

-----------------------------------------------------------------------------
SearchTypeOK ==
    /\ platform \in Platforms \cup {"none"}
    /\ attempt \in 0 .. MaxAttempts
    /\ outcome \in {"none", "searching", "done", "raised"}
    /\ mentions \cup due \cup fresh \cup Range(seen) \subseteq DOMAIN Catalogue
    /\ Len(seen) <= MaxSeen

(* The searches that are made only when another brings nothing.            *)
Fallbacks == {"doc", "hashtag"}

(* A failed request, a bad item or a date costs a search no more than the  *)
(* rest of the answer it is in: every keyword and source is asked, and     *)
(* what was new and relevant before it is returned, up to max_results.     *)
(* Only the searches that go through their items outside any try, those of *)
(* Facebook and Mastodon, can raise and lose it all.                       *)
SearchLosesOnlyItsOwn ==
    /\ outcome = "done" =>
          /\ {request \in Range(setOut) : request.ask \notin Fallbacks} \subseteq asked
          /\ due \subseteq mentions
    /\ outcome = "raised" \/ attempt > 1 => platform \in {"facebook", "mastodon"}

(* What the base class promises of `since` and of dates: what an answer    *)
(* brings, sound, relevant and published after `since`, is returned.  The  *)
(* collectors whose dates are aware break it, for the services give them a *)
(* naive `since`.                                                          *)
FreshPostsAreReturned == outcome = "done" => fresh \subseteq mentions
=============================================================================
