---------------------------- MODULE MCEventStore ----------------------------
(* d defines a community about r, so that r is protected while d is        *)
(* stored.  r is a community's own post and refers to p; no query for      *)
(* dependants finds it.  y is a repost of p.  One version of the article   *)
(* marks its row as deleted.                                               *)
EXTENDS EventStore

CONSTANTS
    p, r, d,        \* a post, a reply to it, and a definition
    q, q2, s,       \* two versions of an article about p, and a list: article and list name each other
    y,              \* a repost of p
    A, L, D,        \* the addresses of article, list and definition
    b1, b2, b3

MCAddr == [x \in Events |-> CASE x \in {q, q2} -> A [] x = s -> L [] x = d -> D [] OTHER -> x]
MCSysId == [x \in Events |-> x]
MCRefs == [x \in Events |-> CASE x = d -> {r} [] x = q -> {p, L} [] x = s -> {A}
                               [] x \in {r, q2, y} -> {p} [] OTHER -> {}]
MCClass == [x \in Events |-> CASE x \in {p, r} -> "post" [] x = d -> "definition" [] OTHER -> "plain"]
MCOrigin == [x \in Reposts |-> p]
MCSeen == [b \in Batches |-> Events \ {r}]

MCSave == [b \in Batches |-> CASE b = b1 -> {p, r, d, q2} [] b = b2 -> {q, s, y} [] OTHER -> {}]
MCKill == [b \in Batches |-> CASE b = b2 -> <<{r}>> [] b = b3 -> <<{p}>> [] OTHER -> <<>>]
MCTries == [b \in Batches |-> IF b = b3 THEN 2 ELSE 1]
=============================================================================
