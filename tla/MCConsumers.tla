------------------------------ MODULE MCConsumers ----------------------------
(* Two files, two requests at a time, and two bags of another relay; messages *)
(* of one user with hashtags, with profiles and content, or follow lists.     *)
EXTENDS Consumers, TLC

MCAnnounced == {[bag |-> [files |-> {"a"}, by |-> "p"], ver |-> 1],
                [bag |-> [files |-> {"a", "b"}, by |-> "p"], ver |-> 2]}
MCSymmetry == Permutations(Threads)

Event(kind) == [kind |-> kind, aside |-> FALSE, content |-> "plain", rich |-> "none",
                wallets |-> {}, nft |-> FALSE, follows |-> {}]
Comment(kind) == [Event(kind) EXCEPT !.content = "hashtag", !.aside = TRUE]
RichComment(kind) == [Comment(kind) EXCEPT !.content = "empty", !.rich = "hashtag"]
Profile(wallets, nft) == [Event("profile") EXCEPT !.wallets = wallets, !.nft = nft]
Follows(users) == [Event("follows") EXCEPT !.follows = users]
MCMessage ==
    [h1 |-> <<Comment("note")>>,
     h2 |-> <<Event("other"), RichComment("editable"), Comment("note")>>,
     h3 |-> <<Comment("note")>>,
     p1 |-> <<Profile({"w"}, FALSE)>>,
     p2 |-> <<Profile({"v"}, TRUE)>>,
     p3 |-> <<Profile({"v"}, FALSE), Event("note")>>,
     p4 |-> <<Profile({"v", "w"}, FALSE)>>,
     n1 |-> <<Event("editable")>>,
     n2 |-> <<Event("editable")>>,
     f1 |-> <<Follows({"a"})>>,
     f2 |-> <<Follows({"a", "b"})>>,
     f3 |-> <<Follows({"b"}), Event("embedding")>>]
MCTraffic ==
    {{"h1", "h2", "h3"}, {"p1", "p2", "p3"}, {"p1", "p4"}, {"p1", "n1"}, {"n1", "n2"}, {"f1", "f2", "f3"}}
=============================================================================
