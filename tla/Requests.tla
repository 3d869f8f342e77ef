------------------------------ MODULE Requests ------------------------------
(***************************************************************************)
(* The answers to REQ: the match of one event, live and stored, the pages  *)
(* of gift wraps, and the index in which the live match looks up the       *)
(* subscriptions.  A behaviour follows one of the three.                   *)
(***************************************************************************)
EXTENDS StoredQuery, GiftWraps, EventMatcher

VARIABLE topic

requestVars == <<queryVars, giftVars, vars, topic>>

RequestInit ==
    /\ QueryInit
    /\ Init
    /\ \/ topic \in {"match", "index"} /\ GiftStart(CHOOSE t \in Timings : TRUE, {}, {}, 0)
       \/ topic = "pages" /\ GiftInit

RequestNext ==
    /\ UNCHANGED topic
    /\ \/ topic = "match" /\ QueryNext /\ UNCHANGED <<giftVars, vars>>
       \/ topic = "pages" /\ GiftNext /\ UNCHANGED <<queryVars, vars>>
       \/ topic = "index" /\ Next /\ UNCHANGED <<queryVars, giftVars>>

(* The handler goes on with the next page.                                 *)
RequestSpec == RequestInit /\ [][RequestNext]_requestVars /\ GiftFairness
=============================================================================
