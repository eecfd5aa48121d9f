------------------------------ MODULE Accounts ------------------------------
(***************************************************************************)
(* Accounts: who signs in, through Discourse or with a local password, and *)
(* what the session that comes of it allows.  DiscourseConnect decides the *)
(* row of app_user and reads its is_admin; the same request then goes on   *)
(* into issueUserToken, whose Redis commands are module Sessions.  The     *)
(* token carries is_admin as it was read, and AdminMiddleware asks the     *)
(* token, never the row.                                                   *)
(***************************************************************************)
EXTENDS DiscourseConnect, Sessions

ASSUME AccountsAssumption == Logins = SignIns

VARIABLE parted   \* rows whose last sync failed after its write, or wrote while another
                  \* sign-in had read the row and not yet stored its token (history)

vars == <<signing, sessions, parted>>

Init == SigningInit /\ SessionsInit /\ parted = {}

\* Sign-ins that have read is_admin of row i and have not stored their token.
Holding(i) ==
  {s \in SignIns : user[s] = i /\ pc[s] = "issue" /\ step[s] \in {"start", "drop", "set"}}

Parts ==
  parted' = parted
    \cup {user[c] : c \in {d \in Callbacks :
                             \/ pc[d] = "reread" /\ pc'[d] = "refused"
                             \/ pc[d] = "update" /\ pc'[d] = "reread" /\ Holding(user[d]) # {}}}

Issue(s) ==
  /\ pc[s] = "issue"
  /\ LoginOld(s, user[s], flag[s]) \/ Login(s)
  /\ UNCHANGED <<signing, parted>>

Next ==
  \/ SignIn /\ Parts /\ UNCHANGED sessions
  \/ \E s \in SignIns : Issue(s)
  \/ \E o \in Logouts : Logout(o) /\ UNCHANGED <<signing, parted>>

Spec == Init /\ [][Next]_vars
-----------------------------------------------------------------------------
\* A sign-in that has written row i and not stored its token yet.
Settling(i) == Holding(i) # {} \/ \E c \in Callbacks : user[c] = i /\ pc[c] = "reread"

\* AdminMiddleware: the token in force says of its user what the row says, from the
\* end of the sign-in on, unless sign-ins of one account overlapped or one failed
\* half-way, or a Redis command was lost.
AdminFollowsRow ==
  \A t \in Logins : LET u == UserOf(t) IN
    Valid(t) /\ claims[t].admin # rows[u].admin
      => Settling(u) \/ u \in parted \cup broken

\* upsertDiscourseUser: the row that a callback's token names carries the external
\* id of the account that signed in, from the write on and as long as the token is
\* valid, whatever is written between the statements, unless another callback has
\* since found the row as its own, by an address of it, and written it.
TokenNamesOwner ==
  \A t \in Callbacks :
    pc[t] \in {"reread", "issue"} \/ Valid(t)
      => rows[user[t]].ext = prof[t].ext \/ writer[user[t]] \notin {t, Empty}
=============================================================================
