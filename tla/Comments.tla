------------------------------ MODULE Comments ------------------------------
(***************************************************************************)
(* Comments (handlers/comment_handler.go, common/discourse_api.go).  The   *)
(* blog stores none: GetComments reads the posts of a Discourse topic, and *)
(* CreateComment and CreateReply post to Discourse in the name of whoever  *)
(* is signed in, through an API client of their own.  The call is given up *)
(* after ten seconds; by then Discourse may have stored the post or not.   *)
(*                                                                         *)
(* Discourse itself is external: ids grow over all topics, post numbers in *)
(* each topic, number 1 opens the topic, and a post that names neither a   *)
(* topic nor a title is refused.  A request for the posts of a topic that  *)
(* does not say which ones is answered with the first page of them.  Texts *)
(* do not matter here.                                                     *)
(***************************************************************************)
EXTENDS Naturals, Sequences, FiniteSets

CONSTANTS
  Requests,   \* requests of CreateComment and CreateReply
  Readers,    \* requests of GetComments
  Users,      \* who may be signed in
  Topics,     \* topics of articles
  NoUser,     \* nobody is signed in; the author of a topic's first post
  NoTopic,    \* topic 0, which is left out of the body
  Shared,     \* the API client that all handlers have in common
  PageSize    \* posts of a page of Discourse

ASSUME CommentsAssumption ==
  /\ Shared \notin Requests /\ NoUser \notin Users /\ NoTopic \notin Topics
  /\ IsFiniteSet(Topics) /\ PageSize \in Nat

VARIABLES
  posts,     \* Discourse's posts; a post's id is its place
  step,      \* step[r]: where request r is
  user,      \* user[r]: who is signed in
  client,    \* client[r]: the API client that r uses
  apiUser,   \* apiUser[k]: the user name that client k sends
  body,      \* body[r]: the topic, the post number and the user name that r sends
  stored,    \* stored[r]: the id of the post that Discourse made of r, 0 if none
  about,     \* about[g]: the topic that GetComments was asked for
  list,      \* list[g]: the posts that it answered with
  blind,     \* readings for which Discourse failed
  known      \* known[g]: posts of the topic that had been answered with 201 when
             \* reading g was answered (history)

readings == <<about, list, blind, known>>
comments == <<posts, step, user, client, apiUser, body, stored, readings>>

NoBody == [topic |-> NoTopic, replyTo |-> 0, by |-> NoUser]

CommentsInit ==
  /\ posts \in {s \in [1..Cardinality(Topics) ->
                         [topic : Topics, number : {1}, by : {NoUser}]] :
                  \A i, j \in DOMAIN s : s[i].topic = s[j].topic => i = j}
  /\ step = [r \in Requests |-> "idle"]
  /\ user = [r \in Requests |-> NoUser]
  /\ client = [r \in Requests |-> Shared]
  /\ apiUser = [k \in Requests \cup {Shared} |-> NoUser]
  /\ body = [r \in Requests |-> NoBody]
  /\ stored = [r \in Requests |-> 0]
  /\ about = [g \in Readers |-> NoTopic]
  /\ list = [g \in Readers |-> {}]
  /\ blind = {}
  /\ known = [g \in Readers |-> {}]

StepTo(r, p) == step' = [step EXCEPT ![r] = p]
Of(t) == {i \in DOMAIN posts : posts[i].topic = t}

\* GetTopicPosts: the posts of the topic's first page but the first.
ShownLate(t) == {i \in Of(t) : posts[i].number \in 3..PageSize}   \* mutant: off by one
Shown(t) == {i \in Of(t) : posts[i].number \in 2..PageSize}
-----------------------------------------------------------------------------
\* The checks of the two handlers.
Comment(r, u, t) ==
  /\ step[r] = "idle"
  /\ user' = [user EXCEPT ![r] = u]
  /\ body' = [body EXCEPT ![r] = [NoBody EXCEPT !.topic = t]]
  /\ StepTo(r, IF u = NoUser THEN "refused" ELSE "checked")
  /\ UNCHANGED <<posts, client, apiUser, stored, readings>>

\* The comment that is answered is one that GetComments has shown.  Its id is sent
\* in place of its number, and no topic: Discourse refuses it.
Reply(r, u, i) ==
  /\ step[r] = "idle"
  /\ user' = [user EXCEPT ![r] = u]
  /\ body' = [body EXCEPT ![r] = [NoBody EXCEPT !.replyTo = i]]
  /\ StepTo(r, IF u = NoUser THEN "refused" ELSE "checked")
  /\ UNCHANGED <<posts, client, apiUser, stored, readings>>

TakeClient(r) ==
  /\ step[r] = "checked"
  /\ client' = [client EXCEPT ![r] = r]
  /\ apiUser' = [apiUser EXCEPT ![r] = user[r]]
  /\ StepTo(r, "ready")
  /\ UNCHANGED <<posts, user, body, stored, readings>>

\* CreatePost sends the request.
Send(r) ==
  /\ step[r] = "ready"
  /\ body' = [body EXCEPT ![r].by = apiUser[client[r]]]
  /\ StepTo(r, "sent")
  /\ UNCHANGED <<posts, user, client, apiUser, stored, readings>>

\* Discourse stores the post, perhaps when nobody waits for its answer any more.
Store(r) ==
  LET t == body[r].topic IN
  /\ step[r] \in {"sent", "timedout"} /\ stored[r] = 0
  /\ t \in Topics
  /\ posts' = Append(posts, [topic |-> t, number |-> Cardinality(Of(t)) + 1,
                             by |-> body[r].by])
  /\ stored' = [stored EXCEPT ![r] = Len(posts')]
  /\ UNCHANGED <<step, user, client, apiUser, body, readings>>

Created(r) ==
  /\ step[r] = "sent" /\ stored[r] # 0
  /\ StepTo(r, "created")
  /\ UNCHANGED <<posts, user, client, apiUser, body, stored, readings>>

\* Discourse refuses the post, or its answer is lost or cannot be read.
Fails(r) ==
  /\ step[r] = "sent"
  /\ StepTo(r, "failed")
  /\ UNCHANGED <<posts, user, client, apiUser, body, stored, readings>>

TimeOut(r) ==
  /\ step[r] = "sent"
  /\ StepTo(r, "timedout")
  /\ UNCHANGED <<posts, user, client, apiUser, body, stored, readings>>

\* GetComments: if Discourse does not answer, there are no comments.
GetComments(g, t) ==
  /\ about[g] = NoTopic
  /\ about' = [about EXCEPT ![g] = t]
  /\ known' = [known EXCEPT ![g] =
       {stored[r] : r \in {q \in Requests : step[q] = "created" /\ body[q].topic = t}}]
  /\ \/ list' = [list EXCEPT ![g] = Shown(t)] /\ UNCHANGED blind
     \/ blind' = blind \cup {g} /\ UNCHANGED list
  /\ UNCHANGED <<posts, step, user, client, apiUser, body, stored>>

Write(r) ==
  \/ \E u \in Users \cup {NoUser} :
       \/ \E t \in Topics \cup {NoTopic} : Comment(r, u, t)
       \/ \E t \in Topics : \E i \in Shown(t) : Reply(r, u, i)
  \/ TakeClient(r) \/ Send(r) \/ Store(r) \/ Created(r) \/ Fails(r) \/ TimeOut(r)

CommentsNext ==
  \/ \E r \in Requests : Write(r)
  \/ \E g \in Readers, t \in Topics : GetComments(g, t)

CommentsSpec == CommentsInit /\ [][CommentsNext]_comments
-----------------------------------------------------------------------------
Ended == {"refused", "created", "failed", "timedout"}

\* CreateComment posts in the name of the user who asked, however many handlers
\* set a user name on their API client at the same time.
PostedAsAuthor ==
  \A r \in Requests : stored[r] # 0 => posts[stored[r]].by = user[r]

\* A comment that was answered with 201 is among those that GetComments answers with for
\* its article, from then on, unless Discourse failed or the topic's first page was full
\* before the comment came.
AnsweredIsShown ==
  \A g \in Readers \ blind : \A i \in known[g] :
    i \in list[g] \/ posts[i].number > PageSize
=============================================================================
