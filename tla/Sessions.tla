------------------------------ MODULE Sessions ------------------------------
(***************************************************************************)
(* Sessions (handlers/app_user_handler.go, the validator of main.go).  Two *)
(* Redis hashes are kept as each other's inverse, one command at a time:   *)
(* "username_to_token" holds the one valid token of a user, and            *)
(* "token_to_username" finds the user of a token at logout.  Logins and    *)
(* logouts of one user interleave freely; errors of the commands are       *)
(* ignored.  Tokens are as distinct as the logins that issue them.  Who    *)
(* logs in, and as which row of app_user, is module Accounts.              *)
(***************************************************************************)
EXTENDS Naturals, FiniteSets

CONSTANTS
  Logins,     \* logins; each one's token is the login itself
  Logouts,    \* logouts
  None,       \* no token, no user
  MaxBroken   \* bound: users for whom a Redis command fails

ASSUME SessionsAssumption ==
  /\ None \notin Logins /\ None \notin Nat
  /\ Logins \cap Logouts = {}
  /\ MaxBroken \in Nat

VARIABLES
  u2t,     \* username_to_token: a partial function from users
  t2u,     \* token_to_username
  step,    \* step[r]: next command of login or logout r
  claims,  \* claims[l]: what the token of l says: [user, admin]
  old,     \* old[l]: the token that login l found
  tok,     \* tok[o]: the token that logout o presents
  uid,     \* uid[o]: the user it found for the token
  beside,  \* users of whom a login ran beside another login or a logout (history)
  out,     \* tokens for which a logout has answered (history)
  broken   \* users for whom a command has failed (history)

sessions == <<u2t, t2u, step, claims, old, tok, uid, beside, out, broken>>

\* Users are the ids of their rows.
NoOne == [user |-> 0, admin |-> FALSE]

SessionsInit ==
  /\ u2t = <<>>
  /\ t2u = [l \in Logins |-> None]
  /\ step = [r \in Logins \cup Logouts |-> "start"]
  /\ claims = [l \in Logins |-> NoOne]
  /\ old = [l \in Logins |-> None]
  /\ tok = [o \in Logouts |-> None]
  /\ uid = [o \in Logouts |-> None]
  /\ beside = {}
  /\ out = {}
  /\ broken = {}

UserOf(t) == claims[t].user
TokenOf(u) == IF u \in DOMAIN u2t THEN u2t[u] ELSE None
SetToken(u, t) == [v \in DOMAIN u2t \cup {u} |-> IF v = u THEN t ELSE u2t[v]]

Outcomes(u) == IF Cardinality(broken \cup {u}) <= MaxBroken THEN BOOLEAN ELSE {TRUE}
StepTo(r, p) == step' = [step EXCEPT ![r] = p]
UserOfStep(r) == IF r \in Logins THEN UserOf(r) ELSE UserOf(tok[r])
Running(r, u) == step[r] \notin {"start", "done"} /\ UserOfStep(r) = u

\* r starts to run for user u, beside what runs for u already.
Meets(r, u) ==
  beside' = IF \E s \in Logins \cup Logouts :
                 Running(s, u) /\ (r \in Logins \/ s \in Logins)
            THEN beside \cup {u} ELSE beside

\* A command for user u has gone well, or has not and nobody notices.
Noted(ok, u) == broken' = IF ok THEN broken ELSE broken \cup {u}
-----------------------------------------------------------------------------
(* issueUserToken, for a user that a handler has read.                     *)

\* Mutant: the old token is looked up and not deleted.
LoginOldKept(l, user, admin) ==
  /\ step[l] = "start" /\ Meets(l, user)
  /\ claims' = [claims EXCEPT ![l] = [user |-> user, admin |-> admin]]
  /\ \E ok \in Outcomes(user) :
        /\ old' = [old EXCEPT ![l] = IF ok THEN TokenOf(user) ELSE None]
        /\ Noted(ok, user)
  /\ StepTo(l, "set")
  /\ UNCHANGED <<u2t, t2u, tok, uid, out>>

LoginOld(l, user, admin) ==
  /\ step[l] = "start" /\ Meets(l, user)
  /\ claims' = [claims EXCEPT ![l] = [user |-> user, admin |-> admin]]
  /\ \E ok \in Outcomes(user) :
        /\ old' = [old EXCEPT ![l] = IF ok THEN TokenOf(user) ELSE None]
        /\ Noted(ok, user)
  /\ StepTo(l, IF old'[l] = None THEN "set" ELSE "drop")
  /\ UNCHANGED <<u2t, t2u, tok, uid, out>>

LoginDrop(l) ==
  /\ step[l] = "drop"
  /\ \E ok \in Outcomes(UserOf(l)) :
        /\ t2u' = IF ok THEN [t2u EXCEPT ![old[l]] = None] ELSE t2u
        /\ Noted(ok, UserOf(l))
  /\ StepTo(l, "set")
  /\ UNCHANGED <<u2t, claims, old, tok, uid, beside, out>>

\* Mutant: the reverse entry is left out.
LoginSetOnly(l) ==
  /\ step[l] = "set"
  /\ u2t' = SetToken(UserOf(l), l)
  /\ old' = [old EXCEPT ![l] = None]
  /\ StepTo(l, "done")
  /\ UNCHANGED <<t2u, claims, tok, uid, beside, out, broken>>

LoginSet(l) ==
  /\ step[l] = "set"
  /\ \E ok \in Outcomes(UserOf(l)) :
        /\ u2t' = IF ok THEN SetToken(UserOf(l), l) ELSE u2t
        /\ Noted(ok, UserOf(l))
  /\ old' = [old EXCEPT ![l] = None]
  /\ StepTo(l, "reverse")
  /\ UNCHANGED <<t2u, claims, tok, uid, beside, out>>

LoginReverse(l) ==
  /\ step[l] = "reverse"
  /\ \E ok \in Outcomes(UserOf(l)) :
        /\ t2u' = IF ok THEN [t2u EXCEPT ![l] = UserOf(l)] ELSE t2u
        /\ Noted(ok, UserOf(l))
  /\ StepTo(l, "done")
  /\ UNCHANGED <<u2t, claims, old, tok, uid, beside, out>>
-----------------------------------------------------------------------------
(* Logout, with the token of a login that has been answered.               *)

\* Mutant: the token is forgotten before its user is looked up.
LogoutFindLate(o) ==
  /\ step[o] = "start"
  /\ \E l \in Logins, ok \in BOOLEAN :
        /\ step[l] = "done"
        /\ ok \in Outcomes(UserOf(l))
        /\ tok' = [tok EXCEPT ![o] = l]
        /\ Meets(o, UserOf(l))
        /\ t2u' = IF ok THEN [t2u EXCEPT ![l] = None] ELSE t2u
        /\ uid' = [uid EXCEPT ![o] = t2u'[l]]
        /\ Noted(ok, UserOf(l))
  /\ StepTo(o, IF uid'[o] = None THEN "forget" ELSE "drop")
  /\ UNCHANGED <<u2t, claims, old, out>>

LogoutFind(o) ==
  /\ step[o] = "start"
  /\ \E l \in Logins, ok \in BOOLEAN :
        /\ step[l] = "done"
        /\ ok \in Outcomes(UserOf(l))
        /\ tok' = [tok EXCEPT ![o] = l]
        /\ Meets(o, UserOf(l))
        /\ uid' = [uid EXCEPT ![o] = IF ok THEN t2u[l] ELSE None]
        /\ Noted(ok, UserOf(l))
  /\ StepTo(o, IF uid'[o] = None THEN "forget" ELSE "drop")
  /\ UNCHANGED <<u2t, t2u, claims, old, out>>

\* The user's token is removed, whichever it is.
LogoutDrop(o) ==
  /\ step[o] = "drop"
  /\ \E ok \in Outcomes(uid[o]) :
        /\ u2t' = IF ok THEN [u \in DOMAIN u2t \ {uid[o]} |-> u2t[u]] ELSE u2t
        /\ Noted(ok, uid[o])
  /\ StepTo(o, "forget")
  /\ UNCHANGED <<t2u, claims, old, tok, uid, beside, out>>

LogoutForget(o) ==
  /\ step[o] = "forget"
  /\ \E ok \in Outcomes(UserOf(tok[o])) :
        /\ t2u' = IF ok THEN [t2u EXCEPT ![tok[o]] = None] ELSE t2u
        /\ Noted(ok, UserOf(tok[o]))
  /\ out' = out \cup {tok[o]}
  /\ uid' = [uid EXCEPT ![o] = None]
  /\ StepTo(o, "done")
  /\ UNCHANGED <<u2t, claims, old, tok, beside>>

Login(l)  == LoginDrop(l) \/ LoginSet(l) \/ LoginReverse(l)
Logout(o) == LogoutFind(o) \/ LogoutDrop(o) \/ LogoutForget(o)
-----------------------------------------------------------------------------
\* The validator of main.go, which AuthMiddleware and AdminMiddleware ask: the
\* token is the one that is stored for the user it names.
Valid(t) == TokenOf(UserOf(t)) = t

\* A login of the user of t that is about to replace t as the valid token.
Replacing(t) ==
  {l \in Logins : UserOf(l) = UserOf(t) /\ old[l] = t /\ step[l] \in {"drop", "set"}}

\* The token in force can be logged out: its reverse entry is there, or its own
\* login is about to write it, or another login is about to replace it.
LogoutFindsSession ==
  \A t \in Logins :
    Valid(t) /\ UserOf(t) \notin broken
      => t2u[t] = UserOf(t) \/ step[t] = "reverse" \/ Replacing(t) # {}

\* "Logout": a token is not accepted after its logout has been answered, save for
\* the moment in which a login that has already begun replaces it.
LoggedOutStaysOut ==
  \A t \in out : UserOf(t) \notin broken => ~Valid(t) \/ Replacing(t) # {}

\* Logout: the session that it ends is that of its token, unless at some time a login
\* of the user has run beside another one or beside a logout.
LogoutEndsOwnSession ==
  [][\A o \in Logouts : LET u == uid[o] IN
       /\ step[o] = "drop" /\ step'[o] = "forget"
       /\ u \notin broken' /\ TokenOf(u) \notin {tok[o], None}
       => u \in beside]_sessions
=============================================================================
