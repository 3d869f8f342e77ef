------------------------------ MODULE Senders ------------------------------
(***************************************************************************)
(* hashtags-sender, nft-content-sender and followers-sender: the events of *)
(* a message that was accepted are reported to statistics services.        *)
(* Hashtags are collected and sent in batches by one goroutine; profiles,  *)
(* content and follow lists are sent at once, by a pool task per message,  *)
(* unless the version they replace says that there is nothing new.         *)
(***************************************************************************)
EXTENDS Integers, Sequences, FiniteSets

CONSTANTS Messages,     \* EVENT messages of one user
          Message,      \* the events of each
          Traffic,      \* the sets of messages that may come in one behaviour
          NoMessage,
          MaxPending,   \* MaxEventsQueueSize: of the queue and of the channel
          MaxRetries    \* SetRetryCount (5)

Addressed == {"profile", "follows", "editable", "article"}

VARIABLES traffic,      \* the messages of this behaviour
          stage,        \* how far the listener of each message is
          before,       \* the table its statement saw, from which Previous comes
          latest,       \* the message that stored the row of each address
          order,        \* history: the messages in the order they were stored
          replica,      \* the kinds the read replica has a row of
          notice,       \* where the reports of a message are, for each sender
          attempt,      \* repetitions of the request under way
          duty,         \* where the hashtags task of each message is
          held,         \* eventsToSend of that task
          pending,      \* eventsQueue
          toSend,       \* the channel eventsToSend
          due,          \* the interval since lastSent is over
          hand,         \* the batch startSender is sending
          repeats,      \* how often it was repeated
          stopped,      \* the context of the server: "no", "cancelled", or seen by startSender
          settled       \* history: how often each hashtag event was sent, given up or dropped

saveVars == <<stage, before, latest, order, replica>>
reportVars == <<notice, attempt>>
tagVars == <<duty, held, pending, toSend, due, hand, repeats, stopped, settled>>
senderVars == <<traffic, saveVars, reportVars, tagVars>>

Sends == {"nft", "followers"}
Has(m, kind) == \E i \in DOMAIN Message[m] : Message[m][i].kind = kind
EventOf(m, kind) == CHOOSE e \in {Message[m][i] : i \in DOMAIN Message[m]} : e.kind = kind

\* A wallet is never written as the word for none.
ASSUME SendersAssumption ==
    /\ Traffic \subseteq SUBSET Messages /\ NoMessage \notin Messages
    /\ \A m \in Messages : \A i \in DOMAIN Message[m] : Message[m][i].kind = "profile" =>
          IsFiniteSet(Message[m][i].wallets) /\ "none" \notin Message[m][i].wallets

\* The first of the wanted indexes, 0 if there is none.
FirstIn(wanted) ==
    IF wanted = {} THEN 0 ELSE CHOOSE i \in wanted : \A k \in wanted : i <= k

SendersInit ==
    /\ traffic \in Traffic
    /\ stage = [m \in traffic |-> "new"]
    /\ latest = [k \in Addressed |-> NoMessage]
    /\ before = [m \in traffic |-> latest]
    /\ order = << >>
    /\ replica = {}
    /\ notice = [s \in Sends |-> [m \in traffic |-> "none"]]
    /\ attempt = [s \in Sends |-> [m \in traffic |-> 0]]
    /\ duty = [m \in traffic |-> "collect"]
    /\ held = [m \in traffic |-> << >>]
    /\ pending = << >>
    /\ toSend = << >>
    /\ due = FALSE
    /\ hand = << >>
    /\ repeats = 0
    /\ stopped = "no"
    /\ settled = [m \in traffic |-> 0]
-----------------------------------------------------------------------------
(* The store, as the senders see it.  One statement stores the events of a *)
(* message and returns the rows they replace, as its snapshot has them.    *)

SaveBegins(m) ==
    /\ stage[m] = "new"
    /\ stage' = [stage EXCEPT ![m] = "saving"]
    /\ before' = [before EXCEPT ![m] = latest]
    /\ UNCHANGED <<latest, order, replica, reportVars>>

SaveEnds(m) ==
    /\ stage[m] = "saving"
    /\ stage' = [stage EXCEPT ![m] = "stored"]
    /\ latest' = [k \in Addressed |-> IF Has(m, k) THEN m ELSE latest[k]]
    /\ order' = Append(order, m)
    /\ UNCHANGED <<before, replica, reportVars>>

\* The attestation list of the user comes at any time, the profile only once
\* a message stored one.
Replicate(kind) ==
    /\ kind \notin replica
    /\ kind = "profile" => latest[kind] # NoMessage
    /\ replica' = replica \cup {kind}
    /\ UNCHANGED <<stage, before, latest, order, reportVars>>

Previous(m, kind) == IF kind \in Addressed THEN before[m][kind] ELSE NoMessage
-----------------------------------------------------------------------------
(* What concerns each sender in a message.                                 *)

HasHashtagInRichText(e) == e.rich = "hashtag"
HasHashtag(e) == IF e.content # "empty" THEN e.content = "hashtag" ELSE HasHashtagInRichText(e)

\* The events of a message that processEvents keeps; they stay together.
ValidEvents(m) ==
    {i \in DOMAIN Message[m] : /\ Message[m][i].kind \in {"note", "editable", "article"}
                               /\ HasHashtag(Message[m][i])}

Tagged == {m \in Messages : ValidEvents(m) # {}}

Relayed(m) == Has(m, "embedding")

\* findContentEvent: not of comments, community posts and stories (aside).
ContentEvent(m) ==
    IF Relayed(m) THEN 0
    ELSE FirstIn({i \in DOMAIN Message[m] :
                        /\ Message[m][i].kind \in {"profile", "note", "editable", "article"}
                        /\ ~Message[m][i].aside})

FollowerListEvent(m) ==
    IF Relayed(m) THEN 0
    ELSE FirstIn({i \in DOMAIN Message[m] : Message[m][i].kind = "follows"})

Subject(s, m) == IF s = "nft" THEN ContentEvent(m) ELSE FollowerListEvent(m)
SubjectKind(s, m) == Message[m][Subject(s, m)].kind

\* The listener submits the tasks of the senders, or ends before with an error
\* of the consensus or of the file storage.
Submits(m) ==
    /\ stage[m] = "stored"
    /\ stage' = [stage EXCEPT ![m] = "submitted"]
    /\ notice' = [s \in Sends |-> [notice[s] EXCEPT ![m] = IF Subject(s, m) = 0 THEN "none" ELSE "compare"]]
    /\ UNCHANGED <<before, latest, order, replica, attempt>>

Refused(m) ==
    /\ stage[m] = "stored"
    /\ stage' = [stage EXCEPT ![m] = "refused"]
    /\ UNCHANGED <<before, latest, order, replica, reportVars>>
-----------------------------------------------------------------------------
(* Profiles, content and follow lists.                                     *)

Notes(s, m, where) == notice' = [notice EXCEPT ![s][m] = where]

\* getBSCWalletAddress: of several entries, the one the map gives first.
BSCWallets(e) == IF e.wallets = {} THEN {"none"} ELSE e.wallets

NFTNews(e, p, w, u) == (~p.nft /\ e.nft) \/ w # u

\* A first version is news; of the others only a profile can be.  The content of
\* both parses: validation has parsed it.
CompareContent(m) ==
    LET kind == SubjectKind("nft", m)
        old == Previous(m, kind)
    IN  \/ old = NoMessage /\ Notes("nft", m, "load")
        \/ /\ old # NoMessage /\ kind = "profile"
           /\ LET e == EventOf(m, kind)
                  p == EventOf(old, kind)
              IN  \E w \in BSCWallets(e), u \in BSCWallets(p) :
                     Notes("nft", m, IF NFTNews(e, p, w, u) THEN "load" ELSE "unchanged")
        \/ /\ old # NoMessage /\ kind # "profile"
           /\ Notes("nft", m, "unchanged")

NewlyFollowed(e, old) ==
    IF old = NoMessage THEN e.follows ELSE e.follows \ EventOf(old, "follows").follows

CompareFollows(m) ==
    LET new == NewlyFollowed(EventOf(m, "follows"), Previous(m, "follows"))
    IN  Notes("followers", m, IF new = {} THEN "unchanged" ELSE "load")

Compare(s, m) ==
    /\ notice[s][m] = "compare"
    /\ IF s = "nft" THEN CompareContent(m) ELSE CompareFollows(m)
    /\ UNCHANGED <<saveVars, attempt>>

\* getRequiredEventsFromStorage: the attestation, and the profile for content.
RequiredContent(m) ==
    {"attestation"} \cup (IF SubjectKind("nft", m) = "profile" THEN {} ELSE {"profile"})
RequiredFollows == {"attestation"}

\* The read fails, finds what is required, or does not find it yet.
Loading(s, m, required) ==
    /\ notice[s][m] = "load"
    /\ \/ Notes(s, m, IF required \subseteq replica THEN "send" ELSE "missing")
       \/ Notes(s, m, "failed")
    /\ UNCHANGED <<saveVars, attempt>>

LoadContent(m) == Loading("nft", m, RequiredContent(m))
LoadFollows(m) == Loading("followers", m, RequiredFollows)

\* How a request goes on after an answer: 202, another status, none, or the
\* context has ended.
Responses == {"accepted", "refused", "5xx", "none", "cancelled"}
Verdict(answer, repeated, n) ==
    IF answer = "accepted" THEN "told"
    ELSE IF answer \in repeated /\ n < MaxRetries THEN "again" ELSE "failed"

Sending(s, m, repeated) ==
    /\ notice[s][m] = "send"
    /\ \E answer \in Responses :
          LET verdict == Verdict(answer, repeated, attempt[s][m])
          IN  /\ Notes(s, m, IF verdict = "again" THEN "send" ELSE verdict)
              /\ attempt' = [attempt EXCEPT ![s][m] = IF verdict = "again" THEN @ + 1 ELSE 0]
    /\ UNCHANGED saveVars

SendContent(m) == Sending("nft", m, {"5xx", "none"})
SendFollows(m) == Sending("followers", m, {"5xx", "none"})
-----------------------------------------------------------------------------
(* Hashtags.                                                               *)

\* Mutant: the queue is not emptied when it is copied.
LeftInQueue(queue) == queue

\* What is left of the queue once it was copied.
LeftAfterCopy(queue) == << >>

\* Under the mutex: the events join the queue, and a queue that is full or due
\* is taken over.  The events of a message count one by one.
QueueSize(queue) ==
    LET upTo[k \in 0 .. Len(queue)] ==
            IF k = 0 THEN 0 ELSE upTo[k - 1] + Cardinality(ValidEvents(queue[k]))
    IN  upTo[Len(queue)]

Collect(m) ==
    /\ duty[m] = "collect" /\ m \in Tagged
    /\ LET queue == Append(pending, m)
       IN  \/ /\ QueueSize(queue) < MaxPending /\ ~due
              /\ pending' = queue
              /\ duty' = [duty EXCEPT ![m] = "done"]
              /\ UNCHANGED held
           \/ /\ QueueSize(queue) >= MaxPending \/ due
              /\ pending' = LeftAfterCopy(queue)
              /\ duty' = [duty EXCEPT ![m] = "offer"]
              /\ held' = [held EXCEPT ![m] = queue]
    /\ UNCHANGED <<toSend, due, hand, repeats, stopped, settled>>

At(m, queue) == Cardinality({i \in DOMAIN queue : queue[i] = m})
Settle(queue) == settled' = [m \in traffic |-> settled[m] + At(m, queue)]

\* The batch goes into the channel, or is dropped when the channel is full.
Offer(m) ==
    /\ duty[m] = "offer"
    /\ held' = [held EXCEPT ![m] = << >>]
    /\ \/ /\ Len(toSend) < MaxPending
          /\ toSend' = Append(toSend, held[m])
          /\ duty' = [duty EXCEPT ![m] = "stamp"]
          /\ UNCHANGED settled
       \/ /\ Len(toSend) = MaxPending
          /\ Settle(held[m])
          /\ duty' = [duty EXCEPT ![m] = "done"]
          /\ UNCHANGED toSend
    /\ UNCHANGED <<pending, due, hand, repeats, stopped>>

\* lastSent is set under the mutex, after the batch may have been sent.
StampSent(m) ==
    /\ duty[m] = "stamp"
    /\ due' = FALSE
    /\ duty' = [duty EXCEPT ![m] = "done"]
    /\ UNCHANGED <<held, pending, toSend, hand, repeats, stopped, settled>>

Elapse ==
    /\ ~due
    /\ due' = TRUE
    /\ UNCHANGED <<duty, held, pending, toSend, hand, repeats, stopped, settled>>

\* startSender takes a batch, also when the context has ended, or returns.
TakeBatch ==
    /\ hand = << >> /\ toSend # << >> /\ stopped # "seen"
    /\ hand' = Head(toSend)
    /\ toSend' = Tail(toSend)
    /\ UNCHANGED <<duty, held, pending, due, repeats, stopped, settled>>

StopSender ==
    /\ hand = << >> /\ stopped = "cancelled"
    /\ stopped' = "seen"
    /\ UNCHANGED <<duty, held, pending, toSend, due, hand, repeats, settled>>

\* The batch is sent, repeated or given up; every answer but 202 is repeated,
\* until the context ends.
SendHashtags ==
    /\ hand # << >>
    /\ \E answer \in Responses :
          LET repeated == IF stopped = "no" THEN Responses \ {"accepted"} ELSE {}
              verdict == Verdict(answer, repeated, repeats)
          IN  /\ answer = "cancelled" => stopped # "no"
              /\ \/ /\ verdict = "again"
                    /\ repeats' = repeats + 1
                    /\ UNCHANGED <<hand, settled>>
                 \/ /\ verdict # "again"
                    /\ repeats' = 0
                    /\ hand' = << >>
                    /\ Settle(hand)
    /\ UNCHANGED <<duty, held, pending, toSend, due, stopped>>

Shutdown ==
    /\ stopped = "no"
    /\ stopped' = "cancelled"
    /\ UNCHANGED <<duty, held, pending, toSend, due, hand, repeats, settled>>

ReportsNext ==
    \/ \E m \in traffic : \/ SaveBegins(m) \/ SaveEnds(m) \/ Submits(m) \/ Refused(m)
                          \/ \E s \in Sends : Compare(s, m)
                          \/ LoadContent(m) \/ SendContent(m)
                          \/ LoadFollows(m) \/ SendFollows(m)
    \/ \E kind \in {"attestation", "profile"} : Replicate(kind)

HashtagsNext ==
    \/ \E m \in traffic : Collect(m) \/ Offer(m) \/ StampSent(m)
    \/ Elapse \/ TakeBatch \/ SendHashtags \/ Shutdown \/ StopSender

\* The hashtags share nothing with the other reports: a behaviour follows one of
\* the two, and a task of the hashtags may start at any time.
SendersNext ==
    /\ UNCHANGED traffic
    /\ \/ traffic \cap Tagged = {} /\ ReportsNext /\ UNCHANGED tagVars
       \/ traffic \cap Tagged # {} /\ HashtagsNext /\ UNCHANGED <<saveVars, reportVars>>
-----------------------------------------------------------------------------
(* Properties.                                                              *)

Carried == UNION {{<<t, i>> : i \in DOMAIN held[t]} : t \in traffic}
Offered == UNION {{<<k, i>> : i \in DOMAIN toSend[k]} : k \in DOMAIN toSend}

\* The hashtags of a message whose task has run are in one place and in one
\* only: the queue, a batch on its way, or settled, although several tasks take
\* the queue over and the channel drops batches (processEvents, startSender).
HashtagsAccounted ==
    \A m \in traffic :
        LET copies == At(m, pending) + At(m, hand) + settled[m]
                      + Cardinality({x \in Carried : held[x[1]][x[2]] = m})
                      + Cardinality({x \in Offered : toSend[x[1]][x[2]] = m})
        IN  copies = IF duty[m] = "collect" THEN 0 ELSE 1

\* Messages that stored a row of a kind, and those of them stored before m.
RowsOf(kind) == {m \in {order[i] : i \in DOMAIN order} : Has(m, kind)}
Earlier(m, kind) ==
    {n \in RowsOf(kind) : \E i, k \in DOMAIN order : order[k] = m /\ order[i] = n /\ i < k}
After(m, kind) == {n \in RowsOf(kind) : m \in Earlier(n, kind)}

\* Message m was compared with another version than the one it replaced.
Raced(m, kind) ==
    LET old == before[m][kind]
    IN  Earlier(m, kind) # IF old = NoMessage THEN {} ELSE Earlier(old, kind) \cup {old}

\* The report of m was not compared, not made, or failed; or its comparison did
\* not see the wallet or the version that counts.
Unreported(s, m, kind) ==
    \/ notice[s][m] \notin {"told", "unchanged"}
    \/ SubjectKind(s, m) # kind
    \/ Raced(m, kind)

\* The service of the NFT content knows the wallet of the stored profile and that
\* it has collections, from the newest profile it was told: unless a later one
\* is under way or was not reported, or has two wallets of which the comparison
\* takes any (nft-content-sender, Event.Previous).
ServiceCurrent ==
    LET told == {m \in RowsOf("profile") : /\ notice["nft"][m] = "told"
                                           /\ SubjectKind("nft", m) = "profile"}
        newest == {m \in told : After(m, "profile") \cap told = {}}
        later == IF newest = {} THEN RowsOf("profile") ELSE UNION {After(m, "profile") : m \in newest}
        current == latest["profile"]
    IN  \/ current = NoMessage
        \/ \E m \in later : Unreported("nft", m, "profile")
        \/ \E m \in later \cup newest : Cardinality(EventOf(m, "profile").wallets) > 1
        \/ \E m \in newest :
              /\ EventOf(m, "profile").wallets = EventOf(current, "profile").wallets
              /\ EventOf(current, "profile").nft => EventOf(m, "profile").nft

\* Everyone in the stored follow list was in a list the service was told, unless
\* a list that names them was not reported (followers-sender, Event.Previous).
FollowsKnown ==
    latest["follows"] # NoMessage =>
        \A user \in EventOf(latest["follows"], "follows").follows :
            \E m \in RowsOf("follows") :
                /\ user \in EventOf(m, "follows").follows
                /\ notice["followers"][m] = "told" \/ Unreported("followers", m, "follows")

\* Nothing is lost, sent twice or kept from a service by the senders themselves:
\* the three parts above, of which a behaviour can break one
\* (hashtags-sender, nft-content-sender, followers-sender).
SendersSound == HashtagsAccounted /\ ServiceCurrent /\ FollowsKnown
=============================================================================
