------------------------------ MODULE MCAccess ------------------------------
(* The master and one device share a connection; an attestation names one  *)
(* of two kinds or leaves them open.                                       *)
(* A community of three users, two of whom try to define it; definitions   *)
(* name an admin and a moderator and disable comments.  Patches take the   *)
(* role of the admin, promote or dismiss the moderator, and close or open  *)
(* the community, so that of two patches about one user or about the       *)
(* access the order counts.  Joins name the moderator, whoever sends them. *)
EXTENDS Access

MCTags == <<<<"p", "a", "admin">>, <<"p", "m", "moderator">>, <<"open">>, <<"public">>,
            <<"settings", "comments_enabled", "false", 1>>>>
MCDefinitions == [by : {"o", "a"}, tags : {MCTags}]
MCChanges == {<<"p", "a", "">>, <<"p", "m", "admin">>, <<"p", "m", "">>,
              <<"closed">>, <<"open">>}
MCJoins == [user : {"m"}, auth : {"none", "expired", "o"}]
=============================================================================
