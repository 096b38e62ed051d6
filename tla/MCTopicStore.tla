----------------------------- MODULE MCTopicStore -----------------------------
(***************************************************************************)
(* TopicStore with two sessions and two topics.                            *)
(***************************************************************************)
EXTENDS TopicStore

CONSTANTS p1, p2, t1, t2

TwoSessions == {p1, p2}
TwoTopics == {t1, t2}
AllKinds == {"add", "enable", "disable", "custom", "manual", "record", "remove",
             "interval", "toggle", "unpause"}
FullPolicy == {"enabled", "custom", "last", "next"}
=============================================================================
