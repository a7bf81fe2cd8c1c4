----------------------------- MODULE MCHandlers -----------------------------
(* A small instance of the services whose work is done in handlers.        *)
EXTENDS HandlerServices, TLC

CONSTANTS r1, r2, u1, u2, u3, a, b

TwoRequests == {r1, r2}
OnePublisher == {r1}
ThreePeople == {u1, u2, u3}
OneFounder == {u1}
TwoCallers == {a, b}

AllServices == {"sessions", "members", "keys", "sync", "realtime", "idempotency", "limiter",
                "search", "direct", "tasks"}

OnlySearch == {"search"}

SmallPlans == {[maxUsers |-> 1], [maxUsers |-> 2]}

SixPosts ==
    <<[text |-> "match", when |-> "new", sound |-> TRUE],
      [text |-> "match", when |-> "undated", sound |-> TRUE],
      [text |-> "other", when |-> "new", sound |-> TRUE],
      [text |-> "none", when |-> "new", sound |-> TRUE],
      [text |-> "match", when |-> "old", sound |-> TRUE],
      [text |-> "match", when |-> "new", sound |-> FALSE]>>

SomeAnswers == {<<>>, <<1, 2>>, <<3, 1>>, <<4>>, <<5, 1>>, <<1, 6>>, <<6, 2>>}

EveryType == {"webhook", "slack", "salesforce", "tableau"}

(* Posts 1 and 2; one without a source_id; one the table refuses.          *)
OnNews(name) == [name |-> name, platform |-> "news", fits |-> TRUE]

SomeFreeAnswers ==
    [reddit |-> {<<[OnNews(1) EXCEPT !.platform = "reddit"]>>},
     news |-> {<<OnNews(1), OnNews(2)>>},
     mastodon |-> {<<[name |-> 3, platform |-> "mastodon", fits |-> FALSE]>>},
     gdelt |-> {<<OnNews(1)>>, <<OnNews(0)>>}]

SomeTracked == {{"news"}, {"reddit", "mastodon"}}

TwoTaskProjects == [p1 |-> <<"news", "reddit">>, p2 |-> <<"reddit">>]

SomeTaskAnswers == [news |-> {<<"n1", "n2">>, <<"n1", "n1">>}, reddit |-> {<<>>, <<"r1">>, <<"bad">>}]

CallersAlike == Permutations(TwoCallers)
=============================================================================
