---------------------------- MODULE Communities ----------------------------
(***************************************************************************)
(* One moderated community: its definition, the patches to it, joins,      *)
(* bans, transfers and posts (validation/validation_icip_3000.go and       *)
(* _4000.go, model/communities.go).  A request is validated against what   *)
(* is stored and stored later: other requests are stored in between.       *)
(* An event is [type, by] and what its type needs; tags are tuples         *)
(* <<key, value, ...>>.  created_at (at) counts in definitions and patches *)
(* only, and is not used twice.                                            *)
(***************************************************************************)
EXTENDS Naturals, FiniteSets, SequencesExt

CONSTANTS
    Users,          \* master public keys
    Times,          \* created_at values
    Definitions,    \* definitions users send: by whom, and their tags
    Changes,        \* tags of the patches users send, one per patch
    Joins,          \* joins users send: the user named, and the authorization
                    \* (none, expired, or who signed it)
    Slow,           \* users whose requests others may overtake
    MaxStored,      \* bound: stored events
    MaxInflight     \* bound: requests between validation and storage

Opposite == [open |-> "closed", closed |-> "open", public |-> "private", private |-> "public"]

ASSUME CommunityAssumption ==
    /\ Slow \subseteq Users
    /\ Joins \subseteq [user : Users, auth : {"none", "expired"} \cup Users]
    /\ Times \subseteq Nat
    /\ \A d \in Definitions : /\ d.by \in Users
                              /\ \A k \in DOMAIN Opposite :
                                    ~({k, Opposite[k]} \subseteq {d.tags[i][1] : i \in 1..Len(d.tags)})

VARIABLES
    store,          \* the stored events of the community
    inflight        \* validated requests: the event, and whether it is still
                    \* what was validated that is stored

communityVars == <<store, inflight>>

Of(type) == {ev \in store : ev.type = type}
HasKey(tags, key) == \E i \in 1..Len(tags) : tags[i][1] = key

-----------------------------------------------------------------------------
(* removeTag: the first tag with the key goes.                            *)
RemoveKey(tags, key) == RemoveFirstMatch(tags, LAMBDA t : t[1] = key)
AppendUnique(tags, t) == IF \E i \in 1..Len(tags) : tags[i] = t THEN tags ELSE Append(tags, t)

(* A p tag of a patch replaces every p tag that gives its user another     *)
(* role, and is added when there is none.                                  *)
PatchRole(tags, t) ==
    LET others == {i \in 1..Len(tags) : tags[i][1] = "p" /\ tags[i][2] = t[2] /\ tags[i][3] # t[3]}
        Swap(acc, i) == Append(RemoveFirstMatch(acc, LAMBDA x : x[1] = "p" /\ x[2] = t[2]), t)
    IN  IF others = {} THEN Append(tags, t) ELSE FoldSet(LAMBDA i, acc : Swap(acc, i), tags, others)

(* One tag of a patch, applied to the tags of the definition.              *)
ApplyTag(tags, t) ==
    CASE t[1] \in DOMAIN Opposite -> AppendUnique(RemoveKey(tags, Opposite[t[1]]), <<t[1]>>)
      [] t[1] \in {"name", "description"} -> AppendUnique(RemoveKey(tags, t[1]), t)
      [] t[1] = "p" -> PatchRole(tags, t)
      [] OTHER -> Append(tags, t)

(* mutated: the patches are sorted the other way round.                    *)
applyNewestPatchFirst(patches, tags) ==
    LET sorted == SetToSortSeq(patches, LAMBDA a, b : a.at > b.at)
    IN  FoldLeft(LAMBDA acc, patch : ApplyTag(acc, patch.tag), tags, sorted)

(* applyChangeCommunityPatch: all patches, oldest first, whatever the date *)
(* of the definition.                                                      *)
applyChangeCommunityPatch(patches, tags) ==
    LET sorted == SetToSortSeq(patches, LAMBDA a, b : a.at < b.at)
    IN  FoldLeft(LAMBDA acc, patch : ApplyTag(acc, patch.tag), tags, sorted)

(* getCommunityDefinition: the newest definition, with the patches; none   *)
(* when the community is not known.                                        *)
DefinitionIn(events) ==
    LET defs == {x \in events : x.type = "definition"}
        patches == {x \in events : x.type = "patch"}
    IN  {[owner |-> last.by, tags |-> applyChangeCommunityPatch(patches, last.tags)]
            : last \in {d \in defs : \A d2 \in defs : d2.at <= d.at}}

getCommunityDefinition == DefinitionIn(store)

(* GetCommunityRoleByPubkey: the owner, else the first p tag of the user.  *)
Role(u, def) ==
    LET mine == SelectSeq(def.tags, LAMBDA t : t[1] = "p" /\ t[2] = u)
    IN  IF u = def.owner THEN "owner" ELSE IF mine = <<>> THEN "" ELSE Head(mine)[3]

(* getLatestSettingsTag and what is read from it: the value of the setting *)
(* with the newest date in the tag, or the default.                        *)
Setting(def, name, default) ==
    LET mine == {i \in 1..Len(def.tags) : def.tags[i][1] = "settings" /\ def.tags[i][2] = name /\ def.tags[i][4] > 0}
        newest == CHOOSE i \in mine : \A j \in mine : /\ def.tags[j][4] <= def.tags[i][4]
                                                      /\ def.tags[j][4] = def.tags[i][4] => i <= j
    IN  IF mine = {} THEN default ELSE def.tags[newest][3]

IsUserBanned(u) == \E b \in Of("ban") : b.user = u

(* IsUserPartOfCommunity: a join whose p tag names the user, whoever sent  *)
(* it, with an authorization when the community is closed.                 *)
IsUserPartOfCommunity(u, def) ==
    \E j \in Of("join") : /\ j.user = u
                          /\ \/ HasKey(def.tags, "open")
                             \/ HasKey(def.tags, "closed") /\ j.auth # "none"

-----------------------------------------------------------------------------
(* The validators; found is what getCommunityDefinition returns.           *)
(* validateCustomIONKindCommunityDefinitionEvent: a definition must be the *)
(* first one or of the owner; a moderator may not touch admins, and may    *)
(* change nothing but roles.                                               *)
ValidDefinition(ev, found) == \A def \in found : def.owner = ev.by

(* mutated: a moderator may take the role of an admin.                     *)
ValidPatchDemotesAdmin(ev, found) ==
    \E def \in found :
       /\ Role(ev.by, def) # ""
       /\ Role(ev.by, def) = "moderator" => ev.tag[1] = "p" /\ ev.tag[3] # "admin"

ValidPatch(ev, found) ==
    \E def \in found :
       /\ Role(ev.by, def) # ""
       /\ Role(ev.by, def) = "moderator" =>
             /\ ev.tag[1] \notin DOMAIN Opposite \cup {"name", "description", "imeta", "settings"}
             /\ ev.tag[1] = "p" =>
                   /\ ev.tag[3] # "admin"
                   /\ <<"p", ev.tag[2], "admin">> \notin Range(def.tags)

(* validateCustomIONKindCommunityJoinEvent: an authorization is a signed   *)
(* join that has not expired; only in a closed community must a role       *)
(* holder have signed it.                                                  *)
ValidJoin(ev, found) ==
    /\ ev.auth # "expired"
    /\ \E def \in found :
          /\ HasKey(def.tags, "open") /\ HasKey(def.tags, "public") => ev.auth = "none"
          /\ HasKey(def.tags, "closed") =>
                \/ Role(ev.by, def) # ""
                \/ ev.auth \in Users /\ Role(ev.auth, def) # ""

(* validateCustomIONKindCommunityOwnershipTransferringEvent                *)
ValidTransfer(ev, found) == ~ev.expired /\ \E def \in found : Role(ev.by, def) = "owner"

(* validateCustomIONKindCommunityBanUserEvent                              *)
ValidBan(ev, found) ==
    \E def \in found :
       /\ Role(ev.by, def) # ""
       /\ ev.user \notin {ev.by, def.owner}
       /\ ~(Role(ev.user, def) = "admin" /\ Role(ev.by, def) = "moderator")

(* validatePostCommunityEvent, roleRequiredForPosting and                  *)
(* isCommunityCommentsEnabled: comments are asked for with reposts.        *)
ValidPost(ev, found) ==
    /\ ~IsUserBanned(ev.by)
    /\ \E def \in found :
          LET role == Role(ev.by, def)
              required == Setting(def, "role_required_for_posting", "")
          IN  /\ required = "moderator" => role \in {"admin", "owner", "moderator"}
              /\ required = "admin" => role \in {"admin", "owner"}
              /\ required = "" /\ role = "" => IsUserPartOfCommunity(ev.by, def)
              /\ ev.repost => Setting(def, "comments_enabled", "true") = "true"

(* validateDeleteCommunityEvents and validateCommunityDeleteEvent: of the  *)
(* stored events it names, by the roles of the two authors today.          *)
ValidDelete(ev, found) ==
    ev.target \in store =>
       \E def \in found :
          LET role == Role(ev.by, def)
              targetRole == Role(ev.target.by, def)
          IN  /\ role = "moderator" => targetRole \notin {"admin", "owner"}
              /\ role = "admin" => targetRole # "owner"
              /\ role = "" => ev.by = ev.target.by

Valid(ev, found) ==
    CASE ev.type = "definition" -> ValidDefinition(ev, found)
      [] ev.type = "patch"      -> ValidPatch(ev, found)
      [] ev.type = "join"       -> ValidJoin(ev, found)
      [] ev.type = "transfer"   -> ValidTransfer(ev, found)
      [] ev.type = "ban"        -> ValidBan(ev, found)
      [] ev.type = "post"       -> ValidPost(ev, found)
      [] ev.type = "delete"     -> ValidDelete(ev, found)

-----------------------------------------------------------------------------
(* AcceptEvents: a definition replaces the one of the same owner; a delete *)
(* request removes the community events it names, whoever wrote them       *)
(* (prepareCommunityDeleteFilters).                                        *)
Stored(ev) ==
    CASE ev.type = "delete"     -> store \ {ev.target}
      [] ev.type = "definition" -> {x \in store : ~(x.type = "definition" /\ x.by = ev.by)} \cup {ev}
      [] OTHER                  -> store \cup {ev}

Save(ev, waiting) ==
    /\ store' = Stored(ev)
    /\ Cardinality(store') <= MaxStored
    /\ inflight' = {[q EXCEPT !.fresh = @ /\ store' = store] : q \in waiting}

(* handleEvents: validation reads what is stored, without a lock; other    *)
(* requests may be stored before this one, or none.                        *)
Submit(ev, found) ==
    /\ \A r \in inflight : r.ev # ev
    /\ ev \notin store
    /\ Valid(ev, found)
    /\ \/ Save(ev, inflight)
       \/ /\ ev.by \in Slow /\ Cardinality(inflight) < MaxInflight
          /\ inflight' = inflight \cup {[ev |-> ev, fresh |-> TRUE]}
          /\ UNCHANGED store

SendDefinition(at, found) == \E d \in Definitions :
    Submit([type |-> "definition", by |-> d.by, at |-> at, tags |-> d.tags], found)
SendPatch(u, at, found) == \E tag \in Changes : Submit([type |-> "patch", by |-> u, at |-> at, tag |-> tag], found)
SendJoin(u, found) == \E j \in Joins :
    Submit([type |-> "join", by |-> u, user |-> j.user, auth |-> j.auth], found)
SendTransfer(u, found) == \E to \in Users \ {u}, expired \in BOOLEAN :
    Submit([type |-> "transfer", by |-> u, to |-> to, expired |-> expired], found)
SendBan(u, found) == \E user \in Users : Submit([type |-> "ban", by |-> u, user |-> user], found)
SendPost(u, found) == \E repost \in BOOLEAN :
    Submit([type |-> "post", by |-> u, repost |-> repost], found)
SendDelete(u, found) == \E target \in store : Submit([type |-> "delete", by |-> u, target |-> target], found)

Accept(r) == Save(r.ev, inflight \ {r})

(* A later request of the batch, or the storage, fails it.                 *)
Refuse(r) == inflight' = inflight \ {r} /\ UNCHANGED store

(* Dates are not used twice, but may be older than what is stored.         *)
Dated == {ev \in store \cup {r.ev : r \in inflight} : ev.type \in {"definition", "patch"}}
Unused == Times \ {ev.at : ev \in Dated}

Send(found) ==
    \/ \E at \in Unused : SendDefinition(at, found) \/ \E u \in Users : SendPatch(u, at, found)
    \/ \E u \in Users : \/ SendJoin(u, found) \/ SendTransfer(u, found) \/ SendBan(u, found)
                        \/ SendPost(u, found) \/ SendDelete(u, found)

CommunityNext ==
    \/ \E found \in {getCommunityDefinition} : Send(found)
    \/ \E r \in inflight : Accept(r) \/ Refuse(r)

CommunityInit == store = {} /\ inflight = {}

-----------------------------------------------------------------------------
(* What is stored is never a request to delete, and dates stay in range.   *)
CommunityTyped ==
    /\ \A ev \in Dated : ev.at \in Times
    /\ \A ev \in store : /\ ev.by \in Users
                         /\ ev.type \in {"definition", "patch", "join", "transfer", "ban", "post"}
    /\ \A r \in inflight : r.fresh \in BOOLEAN /\ (r.ev.type = "delete" => r.ev.target.by \in Users)

(* However the patches arrive and whatever is deleted, the definition they *)
(* make is never open and closed or public and private at once; its access *)
(* is what the patch with the latest date that speaks of it says, and the  *)
(* role of a user the one the latest patch that names the user gives       *)
(* (applyChangeCommunityPatch).                                            *)
DefinitionConsistent ==
    /\ CommunityTyped
    /\ \A def \in getCommunityDefinition :
       LET Latest(x, about) == x \in about /\ \A y \in about : y.at <= x.at
           Naming(u) == {x \in Of("patch") : x.tag[1] = "p" /\ x.tag[2] = u}
           Deciding(k) == {x \in Of("patch") : x.tag[1] \in {k, Opposite[k]}}
       IN  /\ \A k \in DOMAIN Opposite :
                 /\ ~(HasKey(def.tags, k) /\ HasKey(def.tags, Opposite[k]))
                 /\ \A x \in Of("patch") : Latest(x, Deciding(k)) => HasKey(def.tags, x.tag[1])
           /\ \A u \in Users \ {def.owner}, x \in Of("patch") :
                 Latest(x, Naming(u)) => Role(u, def) = x.tag[3]

(* What changes hands in a step that is not a deletion: the owner stays;   *)
(* only the owner and admins decide who is admin, ban an admin or change   *)
(* the access; regular users decide nothing; nobody bans the owner.  For   *)
(* a request that was not overtaken by another one, whatever its date; of  *)
(* two definitions that overtook each other the newest is the one.         *)
RolesRespected ==
    [][ \A ev \in store' \ store, then \in {store'} :
        \A before \in getCommunityDefinition, after \in DefinitionIn(then) :
           LET role == Role(ev.by, before)
               admins(def) == {u \in Users : Role(u, def) = "admin"}
               banned == {b.user : b \in {x \in then : x.type = "ban"}} \ {b.user : b \in Of("ban")}
           IN  [ev |-> ev, fresh |-> FALSE] \notin inflight
               => /\ Cardinality(Of("definition")) = 1 => after.owner = before.owner
                  /\ before.owner \notin banned
                  /\ role \in {"", "moderator"} =>
                        /\ admins(after) = admins(before) /\ banned \cap admins(before) = {}
                        /\ \A k \in DOMAIN Opposite : HasKey(after.tags, k) <=> HasKey(before.tags, k)
                  /\ role = "" => banned = {} /\ \A u \in Users : Role(u, after) = Role(u, before)
      ]_communityVars
=============================================================================
