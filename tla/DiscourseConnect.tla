-------------------------- MODULE DiscourseConnect --------------------------
(***************************************************************************)
(* Signing in through Discourse (handlers/app_user_handler.go).            *)
(* DiscourseLogin stores a fresh nonce in Redis for ten minutes and sends  *)
(* the browser to Discourse; DiscourseCallback takes the nonce back with   *)
(* GETDEL, finds or writes the user's row in several statements without a  *)
(* transaction, and issues a session token for that row.  The table's      *)
(* three unique indexes (username, email, external id) are all that        *)
(* concurrent callbacks and registrations share.                           *)
(*                                                                         *)
(* Register writes rows of its own, with the external id and the rights    *)
(* that the form names, and Login reads them by user name.                 *)
(*                                                                         *)
(* What the token then does in Redis is module Sessions; Accounts joins    *)
(* the two.  Signatures are taken to be sound: a callback's payload is one *)
(* that Discourse signed.                                                  *)
(***************************************************************************)
EXTENDS Naturals, Sequences, FiniteSets

CONSTANTS
  Nonces,     \* 16 random bytes each: never drawn twice
  Callbacks,  \* deliveries of a callback URL, repeated ones included
  Locals,     \* local logins, by name and password
  Profiles,   \* what Discourse may send: [ext, email, name, admin]
  Newcomers,  \* forms of the local registration: [ext, email, name, admin]
  Empty,      \* the empty string
  CanFail     \* Redis and the database may refuse a statement

ASSUME DiscourseAssumption ==
  /\ \A p \in Profiles : p.ext # Empty /\ p.name # Empty
  /\ Callbacks \cap Locals = {} /\ Empty \notin Callbacks
  /\ CanFail \in BOOLEAN

VARIABLES
  begun,    \* nonces that went out in a redirect
  live,     \* nonces that Redis still holds
  rows,     \* app_user: a sequence of [ext, email, name, admin, local]; local: the
            \* row has the hash of a password
  pc,       \* pc[c]: the next statement of a callback or a login
  nonce,    \* nonce[c]: the nonce it came with
  prof,     \* prof[c]: the profile it came with
  user,     \* user[c]: its row, 0 while it has none
  flag,     \* flag[c]: is_admin as it was read for the token
  past,     \* past[i]: the [ext, email] that row i has had (history)
  writer    \* writer[i]: the callback that wrote row i last (history)

SignIns == Callbacks \cup Locals
history == <<past, writer>>
signing == <<begun, live, rows, pc, nonce, prof, user, flag, history>>

SigningInit ==
  /\ begun = {} /\ live = {} /\ rows = <<>>
  /\ pc = [c \in SignIns |-> "start"]
  /\ nonce = [c \in Callbacks |-> Empty]
  /\ prof = [c \in Callbacks |-> Empty]
  /\ user = [c \in SignIns |-> 0]
  /\ flag = [c \in SignIns |-> FALSE]
  /\ past = <<>> /\ writer = <<>>

Goto(c, p) == pc' = [pc EXCEPT ![c] = p]
Found(field, v) == {i \in DOMAIN rows : rows[i][field] = v}

\* The unique indexes accept r in place i (a new one, or that of an old row).
Accepts(r, i) ==
  \A j \in DOMAIN rows \ {i} :
    rows[j].ext # r.ext /\ rows[j].email # r.email /\ rows[j].name # r.name

\* The columns that Discourse decides, in a new row or in row i.
Account(p)    == [ext |-> p.ext, email |-> p.email, name |-> p.name, admin |-> p.admin,
                  local |-> FALSE]
Synced(p, i)  == [Account(p) EXCEPT !.local = rows[i].local]

\* The links of a row: by which of them it can be found.
LinksOf(r) == [ext |-> r.ext, email |-> r.email]

\* A new row r, or row i written anew as r, by callback c (Empty: by Register).
AddRow(r, c) ==
  /\ rows' = Append(rows, r)
  /\ past' = Append(past, {LinksOf(r)})
  /\ writer' = Append(writer, c)
WriteRow(i, r, c) ==
  /\ rows' = [rows EXCEPT ![i] = r]
  /\ past' = [past EXCEPT ![i] = @ \cup {LinksOf(r)}]
  /\ writer' = [writer EXCEPT ![i] = c]
-----------------------------------------------------------------------------
(* The redirect to Discourse, and the expiry of its nonce.                 *)

DiscourseLogin(n) ==
  /\ n \notin begun
  /\ begun' = begun \cup {n}
  /\ live' = live \cup {n}
  /\ UNCHANGED <<rows, history, pc, nonce, prof, user, flag>>

Expire(n) ==
  /\ n \in live
  /\ live' = live \ {n}
  /\ UNCHANGED <<begun, rows, history, pc, nonce, prof, user, flag>>

(* Register: a row of its own; the form is parsed into the whole model,    *)
(* external id and is_admin included.                                      *)
Register(f) ==
  LET r == [ext |-> f.ext, email |-> f.email, name |-> f.name, admin |-> f.admin, local |-> TRUE] IN
  /\ Accepts(r, 0)
  /\ AddRow(r, Empty)
  /\ UNCHANGED <<begun, live, pc, nonce, prof, user, flag>>
-----------------------------------------------------------------------------
(* The callback.                                                           *)

\* Mutant: the nonce is read and left to expire.
TakeNonceKept(c, n, p) ==
  /\ pc[c] = "start" /\ n \in begun
  /\ nonce' = [nonce EXCEPT ![c] = n]
  /\ prof' = [prof EXCEPT ![c] = p]
  /\ Goto(c, IF n \in live THEN "external" ELSE "refused")
  /\ UNCHANGED <<begun, live, rows, history, user, flag>>

TakeNonce(c, n, p) ==
  /\ pc[c] = "start" /\ n \in begun
  /\ nonce' = [nonce EXCEPT ![c] = n]
  /\ prof' = [prof EXCEPT ![c] = p]
  /\ Goto(c, IF n \in live THEN "external" ELSE "refused")
  /\ live' = live \ {n}
  /\ UNCHANGED <<begun, rows, history, user, flag>>

\* failed=true: Discourse did not sign anybody in; the nonce is spent all the same.
TakeFailed(c, n) ==
  /\ pc[c] = "start" /\ n \in begun
  /\ nonce' = [nonce EXCEPT ![c] = n]
  /\ Goto(c, "refused")
  /\ live' = live \ {n}
  /\ UNCHANGED <<begun, rows, history, prof, user, flag>>

\* Mutant: the row is looked for under an empty address too.
FindExternalAnyEmail(c) ==
  LET found == Found("ext", prof[c].ext) IN
  /\ pc[c] = "external"
  /\ \/ /\ found # {}
        /\ user' = [user EXCEPT ![c] = CHOOSE i \in found : TRUE]
        /\ Goto(c, "update")
     \/ /\ found = {}
        /\ Goto(c, "email")
        /\ UNCHANGED user
  /\ UNCHANGED <<begun, live, rows, history, nonce, prof, flag>>

FindExternal(c) ==
  LET found == Found("ext", prof[c].ext) IN
  /\ pc[c] = "external"
  /\ \/ /\ found # {}
        /\ user' = [user EXCEPT ![c] = CHOOSE i \in found : TRUE]
        /\ Goto(c, "update")
     \/ /\ found = {}
        /\ Goto(c, IF prof[c].email # Empty THEN "email" ELSE "create")
        /\ UNCHANGED user
  /\ UNCHANGED <<begun, live, rows, history, nonce, prof, flag>>

FindEmail(c) ==
  LET found == Found("email", prof[c].email) IN
  /\ pc[c] = "email"
  /\ \/ /\ found # {}
        /\ user' = [user EXCEPT ![c] = CHOOSE i \in found : TRUE]
        /\ Goto(c, "update")
     \/ /\ found = {}
        /\ Goto(c, "create")
        /\ UNCHANGED user
  /\ UNCHANGED <<begun, live, rows, history, nonce, prof, flag>>

CreateUser(c) ==
  /\ pc[c] = "create"
  /\ \/ /\ Accepts(Account(prof[c]), 0)
        /\ AddRow(Account(prof[c]), c)
        /\ user' = [user EXCEPT ![c] = Len(rows')]
        /\ flag' = [flag EXCEPT ![c] = prof[c].admin]
        /\ Goto(c, "issue")
     \/ /\ ~Accepts(Account(prof[c]), 0)
        /\ Goto(c, "refused")
        /\ UNCHANGED <<rows, history, user, flag>>
  /\ UNCHANGED <<begun, live, nonce, prof>>

\* Mutant: the row that was found by its address is not given the external id.
UpdateUserUnlinked(c) ==
  LET r == [Synced(prof[c], user[c]) EXCEPT !.ext = rows[user[c]].ext] IN
  /\ pc[c] = "update"
  /\ \/ /\ Accepts(r, user[c])
        /\ WriteRow(user[c], r, c)
        /\ Goto(c, "reread")
     \/ /\ ~Accepts(r, user[c])
        /\ Goto(c, "refused")
        /\ UNCHANGED <<rows, history>>
  /\ UNCHANGED <<begun, live, nonce, prof, user, flag>>

UpdateUser(c) ==
  LET r == Synced(prof[c], user[c]) IN
  /\ pc[c] = "update"
  /\ \/ /\ Accepts(r, user[c])
        /\ WriteRow(user[c], r, c)
        /\ Goto(c, "reread")
     \/ /\ ~Accepts(r, user[c])
        /\ Goto(c, "refused")
        /\ UNCHANGED <<rows, history>>
  /\ UNCHANGED <<begun, live, nonce, prof, user, flag>>

\* Mutant: the token is issued for the user as it was before the update.
RereadNot(c) ==
  /\ pc[c] = "reread"
  /\ Goto(c, "issue")
  /\ UNCHANGED <<begun, live, rows, history, nonce, prof, user, flag>>

Reread(c) ==
  /\ pc[c] = "reread"
  /\ flag' = [flag EXCEPT ![c] = rows[user[c]].admin]
  /\ Goto(c, "issue")
  /\ UNCHANGED <<begun, live, rows, history, nonce, prof, user>>

\* A statement is refused: what earlier ones wrote stays, the nonce is spent.
SyncFails(c) ==
  /\ CanFail
  /\ pc[c] \in {"external", "email", "create", "update", "reread"}
  /\ Goto(c, "refused")
  /\ UNCHANGED <<begun, live, rows, history, nonce, prof, user, flag>>

(* Login: the row of a user name, if the password fits its hash.           *)

LocalLogin(l, name) ==
  LET found == Found("name", name) IN
  /\ l \in Locals /\ pc[l] = "start"
  /\ \/ \E i \in found :
          /\ rows[i].local
          /\ user' = [user EXCEPT ![l] = i]
          /\ flag' = [flag EXCEPT ![l] = rows[i].admin]
          /\ Goto(l, "issue")
     \/ /\ Goto(l, "refused")
        /\ UNCHANGED <<user, flag>>
  /\ UNCHANGED <<begun, live, rows, history, nonce, prof>>

Sync(c) ==
  FindExternal(c) \/ FindEmail(c) \/ CreateUser(c) \/ UpdateUser(c) \/ Reread(c) \/ SyncFails(c)

SignIn ==
  \/ \E n \in Nonces : DiscourseLogin(n) \/ Expire(n)
  \/ \E f \in Newcomers : Register(f)
  \/ \E c \in Callbacks, n \in Nonces :
       TakeFailed(c, n) \/ \E p \in Profiles : TakeNonce(c, n, p)
  \/ \E c \in Callbacks : Sync(c)
  \/ \E l \in Locals : \E i \in DOMAIN rows : LocalLogin(l, rows[i].name)
-----------------------------------------------------------------------------
Spent == {"external", "email", "create", "update", "reread", "issue"}

\* GETDEL: of all the deliveries that carry one nonce, at the same time or one
\* after the other, a single one gets past it.
NonceOnce ==
  \A c, d \in Callbacks :
    pc[c] \in Spent /\ pc[d] \in Spent /\ nonce[c] = nonce[d] => c = d

\* upsertDiscourseUser: a row that is linked to an account passes to another only
\* under an address, or an external id, that the row itself has had: never for the
\* lack of an address, nor from a callback that had meant another row.
NoTakeover ==
  [][\A i \in DOMAIN rows :
       rows[i].ext # Empty /\ rows'[i].ext # rows[i].ext =>
         \E p \in past[i] :
            p.ext = rows'[i].ext \/ (p.email = rows'[i].email /\ p.email # Empty)]_<<rows, past>>
=============================================================================
