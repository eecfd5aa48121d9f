----------------------------- MODULE MCFrontend -----------------------------
(* A friend link is updated while the site configuration is saved twice.   *)
EXTENDS Frontend, TLC

CONSTANTS link, title, motto, update, config, config2, visit

FriendUpdateTopic     == "FRIEND_UPDATE_TOPIC"
RevalidateUpdateTopic == "REVALIDATE_UPDATE_TOPIC"
AllTopics == {FriendUpdateTopic, RevalidateUpdateTopic}
Mixed  == update :> FriendUpdateTopic @@ config :> RevalidateUpdateTopic
          @@ config2 :> RevalidateUpdateTopic
Writes == update :> {link} @@ config :> {title, motto} @@ config2 :> {title}
=============================================================================
