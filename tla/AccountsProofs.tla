--------------------------- MODULE AccountsProofs ---------------------------
(* Proofs about Accounts, for any number of sign-ins, nonces and accounts.  *)
EXTENDS Accounts, SequenceTheorems, TLAPS

Values == {p.ext : p \in Profiles} \cup {p.email : p \in Profiles}
          \cup {p.name : p \in Profiles} \cup {f.ext : f \in Newcomers}
          \cup {f.email : f \in Newcomers} \cup {f.name : f \in Newcomers}
Admins == {p.admin : p \in Profiles} \cup {f.admin : f \in Newcomers}
Rows   == [ext : Values, email : Values, name : Values, admin : Admins, local : BOOLEAN]
Stages == {"start", "external", "email", "create", "update", "reread", "issue", "refused"}

\* Types of the sign-ins; a sign-in that has found its row points into the table.
SigningTypes ==
  /\ begun \subseteq Nonces /\ live \subseteq begun
  /\ rows \in Seq(Rows)
  /\ pc \in [SignIns -> Stages]
  /\ nonce \in [Callbacks -> Nonces \cup {Empty}]
  /\ prof \in [Callbacks -> Profiles \cup {Empty}]
  /\ user \in [SignIns -> Nat]
  /\ \A c \in SignIns : pc[c] \in {"update", "reread", "issue"} => user[c] \in DOMAIN rows
  /\ \A c \in Callbacks : pc[c] \in Spent => prof[c] \in Profiles
  /\ \A c \in Callbacks : pc[c] = "email" => prof[c].email # Empty

LEMMA AccountType == \A p \in Profiles : Account(p) \in Rows
  <1> SUFFICES ASSUME NEW p \in Profiles PROVE Account(p) \in Rows
    OBVIOUS
  <1>1. p.ext \in Values /\ p.email \in Values /\ p.name \in Values /\ p.admin \in Admins
    BY DEF Values, Admins
  <1>2. QED
    BY <1>1 DEF Account, Rows

LEMMA SyncedType == \A p \in Profiles : \A i \in DOMAIN rows :
                      rows \in Seq(Rows) => Synced(p, i) \in Rows
  <1> SUFFICES ASSUME NEW p \in Profiles, NEW i \in DOMAIN rows, rows \in Seq(Rows)
               PROVE  Synced(p, i) \in Rows
    OBVIOUS
  <1>1. rows[i].local \in BOOLEAN
    <2>1. rows[i] \in Rows
      OBVIOUS
    <2>2. QED
      BY <2>1 DEF Rows
  <1>2. Synced(p, i) = [ext |-> p.ext, email |-> p.email, name |-> p.name,
                        admin |-> p.admin, local |-> rows[i].local]
    BY DEF Synced, Account
  <1>3. p.ext \in Values /\ p.email \in Values /\ p.name \in Values /\ p.admin \in Admins
    BY DEF Values, Admins
  <1>4. QED
    BY <1>1, <1>2, <1>3 DEF Rows

USE DEF signing, sessions, Goto

LEMMA TypesStep == SigningTypes /\ [Next]_vars => SigningTypes'
  <1> SUFFICES ASSUME SigningTypes, [Next]_vars PROVE SigningTypes'
    OBVIOUS
  <1> USE DEF SignIns, Spent, Stages
  <1>1. CASE UNCHANGED signing
    BY <1>1 DEF SigningTypes
  <1>2. ASSUME NEW n \in Nonces, DiscourseLogin(n) \/ Expire(n) PROVE SigningTypes'
    BY <1>2 DEF SigningTypes, DiscourseLogin, Expire
  <1>3. ASSUME NEW f \in Newcomers, Register(f) PROVE SigningTypes'
    <2> DEFINE r == [ext |-> f.ext, email |-> f.email, name |-> f.name, admin |-> f.admin,
                     local |-> TRUE]
    <2>1. r \in Rows
      BY DEF Rows, Values, Admins
    <2>2. rows' = Append(rows, r) /\ UNCHANGED <<begun, live, pc, nonce, prof, user, flag>>
      BY <1>3 DEF Register, AddRow
    <2>3. rows' \in Seq(Rows) /\ DOMAIN rows \subseteq DOMAIN rows'
      BY <2>1, <2>2 DEF SigningTypes
    <2>4. QED
      BY <2>2, <2>3 DEF SigningTypes
  <1>4. ASSUME NEW c \in Callbacks, NEW n \in Nonces, NEW p \in Profiles, TakeNonce(c, n, p)
        PROVE  SigningTypes'
    BY <1>4 DEF SigningTypes, TakeNonce
  <1>5. ASSUME NEW c \in Callbacks, NEW n \in Nonces, TakeFailed(c, n) PROVE SigningTypes'
    BY <1>5 DEF SigningTypes, TakeFailed
  <1>6. ASSUME NEW c \in Callbacks, Sync(c) PROVE SigningTypes'
    <2>1. CASE FindExternal(c)
      <3> DEFINE found == Found("ext", prof[c].ext)
      <3>1. found # {} => (CHOOSE i \in found : TRUE) \in found
        OBVIOUS
      <3>2. found \subseteq DOMAIN rows /\ DOMAIN rows \subseteq Nat
        BY DEF Found, SigningTypes
      <3> HIDE DEF found
      <3>3. \/ /\ user' = user /\ pc' = [pc EXCEPT ![c] = pc'[c]]
               /\ pc'[c] \in {"email", "create"}
               /\ pc'[c] = "email" => prof[c].email # Empty
            \/ \E i \in DOMAIN rows : /\ user' = [user EXCEPT ![c] = i]
                                     /\ pc' = [pc EXCEPT ![c] = "update"]
        BY <2>1, <3>1, <3>2 DEF FindExternal, found, SigningTypes
      <3>4. UNCHANGED <<begun, live, rows, nonce, prof, flag>> /\ pc[c] \in Spent
        BY <2>1 DEF FindExternal
      <3>5. QED
        BY <3>2, <3>3, <3>4 DEF SigningTypes
    <2>2. CASE FindEmail(c)
      <3> DEFINE found == Found("email", prof[c].email)
      <3>1. found # {} => (CHOOSE i \in found : TRUE) \in found
        OBVIOUS
      <3>2. found \subseteq DOMAIN rows /\ DOMAIN rows \subseteq Nat
        BY DEF Found, SigningTypes
      <3> HIDE DEF found
      <3>3. \/ /\ user' = user /\ pc' = [pc EXCEPT ![c] = pc'[c]]
               /\ pc'[c] \in {"email", "create"}
               /\ pc'[c] = "email" => prof[c].email # Empty
            \/ \E i \in DOMAIN rows : /\ user' = [user EXCEPT ![c] = i]
                                     /\ pc' = [pc EXCEPT ![c] = "update"]
        BY <2>2, <3>1, <3>2 DEF FindEmail, found, SigningTypes
      <3>4. UNCHANGED <<begun, live, rows, nonce, prof, flag>> /\ pc[c] \in Spent
        BY <2>2 DEF FindEmail
      <3>5. QED
        BY <3>2, <3>3, <3>4 DEF SigningTypes
    <2>3. CASE CreateUser(c)
      <3>1. CASE pc' = [pc EXCEPT ![c] = "refused"] /\ UNCHANGED <<rows, user, flag>>
        BY <2>3, <3>1 DEF SigningTypes, CreateUser
      <3>2. CASE /\ rows' = Append(rows, Account(prof[c]))
                 /\ user' = [user EXCEPT ![c] = Len(rows')]
                 /\ pc' = [pc EXCEPT ![c] = "issue"]
        <4>1. Account(prof[c]) \in Rows
          BY <2>3, AccountType DEF SigningTypes, CreateUser
        <4>2. rows' \in Seq(Rows) /\ DOMAIN rows \subseteq DOMAIN rows' /\ Len(rows') \in DOMAIN rows'
              /\ Len(rows') \in Nat
          BY <3>2, <4>1 DEF SigningTypes
        <4>3. QED
          BY <2>3, <4>2 DEF SigningTypes, CreateUser
      <3>3. QED
        BY <2>3, <3>1, <3>2 DEF CreateUser, AddRow
    <2>4. CASE UpdateUser(c)
      <3>1. CASE pc' = [pc EXCEPT ![c] = "refused"] /\ UNCHANGED rows
        BY <2>4, <3>1 DEF SigningTypes, UpdateUser
      <3>2. CASE /\ rows' = [rows EXCEPT ![user[c]] = Synced(prof[c], user[c])]
                 /\ pc' = [pc EXCEPT ![c] = "reread"]
        <4>1. Synced(prof[c], user[c]) \in Rows
          BY <2>4, SyncedType DEF SigningTypes, UpdateUser
        <4>2. rows' \in Seq(Rows) /\ DOMAIN rows' = DOMAIN rows
          <5> DEFINE r == Synced(prof[c], user[c])
          <5> HIDE DEF r
          <5>1. r \in Rows /\ rows' = [rows EXCEPT ![user[c]] = r]
            BY <3>2, <4>1 DEF r
          <5>2. rows \in Seq(Rows) /\ user[c] \in 1 .. Len(rows)
            BY <2>4 DEF SigningTypes, UpdateUser
          <5>3. QED
            BY <5>1, <5>2, ExceptSeq
        <4>3. QED
          BY <2>4, <4>2 DEF SigningTypes, UpdateUser
      <3>3. QED
        BY <2>4, <3>1, <3>2 DEF UpdateUser, WriteRow
    <2>5. CASE Reread(c)
      BY <2>5 DEF SigningTypes, Reread
    <2>6. CASE SyncFails(c)
      BY <2>6 DEF SigningTypes, SyncFails
    <2>7. QED
      BY <1>6, <2>1, <2>2, <2>3, <2>4, <2>5, <2>6 DEF Sync
  <1>7. ASSUME NEW l \in Locals, NEW name, LocalLogin(l, name) PROVE SigningTypes'
    <2>1. pc[l] = "start" /\ UNCHANGED <<begun, live, rows, nonce, prof>> /\ l \notin Callbacks
      BY <1>7, DiscourseAssumption DEF LocalLogin, DiscourseAssumption
    <2>2. CASE pc' = [pc EXCEPT ![l] = "refused"] /\ UNCHANGED user
      BY <2>1, <2>2 DEF SigningTypes
    <2>3. ASSUME NEW i \in DOMAIN rows, user' = [user EXCEPT ![l] = i],
                 pc' = [pc EXCEPT ![l] = "issue"]
          PROVE  SigningTypes'
      BY <2>1, <2>3 DEF SigningTypes
    <2>4. QED
      BY <1>7, <2>2, <2>3 DEF LocalLogin, Found
  <1>8. QED
    BY <1>1, <1>2, <1>3, <1>4, <1>5, <1>6, <1>7 DEF vars, Next, SignIn, Issue

\* GETDEL: a nonce that a callback has got past with is no longer in Redis, so that
\* no other callback gets past with it.
NonceTaken == \A c \in Callbacks : pc[c] \in Spent => nonce[c] \in begun \ live

LEMMA NonceStep ==
  SigningTypes /\ NonceTaken /\ NonceOnce /\ [Next]_vars => (NonceTaken /\ NonceOnce)'
  <1> SUFFICES ASSUME SigningTypes, NonceTaken, NonceOnce, [Next]_vars
               PROVE  (NonceTaken /\ NonceOnce)'
    OBVIOUS
  <1> USE DEF SigningTypes, NonceTaken, NonceOnce, SignIns, Spent
  <1>1. CASE UNCHANGED signing
    BY <1>1
  <1>2. ASSUME NEW n \in Nonces, DiscourseLogin(n) \/ Expire(n) PROVE (NonceTaken /\ NonceOnce)'
    BY <1>2 DEF DiscourseLogin, Expire
  <1>3. ASSUME NEW f \in Newcomers, Register(f) PROVE (NonceTaken /\ NonceOnce)'
    BY <1>3 DEF Register
  <1>4. ASSUME NEW c \in Callbacks, NEW n \in Nonces, NEW p \in Profiles, TakeNonce(c, n, p)
        PROVE  (NonceTaken /\ NonceOnce)'
    BY <1>4 DEF TakeNonce
  <1>5. ASSUME NEW c \in Callbacks, NEW n \in Nonces, TakeFailed(c, n)
        PROVE  (NonceTaken /\ NonceOnce)'
    BY <1>5 DEF TakeFailed
  <1>6. ASSUME NEW c \in Callbacks, Sync(c) PROVE (NonceTaken /\ NonceOnce)'
    <2>1. pc[c] \in Spent /\ \A d \in Callbacks \ {c} : pc'[d] = pc[d]
      BY <1>6 DEF Sync, FindExternal, FindEmail, CreateUser, UpdateUser, Reread, SyncFails
    <2>2. UNCHANGED <<begun, live, nonce>>
      BY <1>6 DEF Sync, FindExternal, FindEmail, CreateUser, UpdateUser, Reread, SyncFails
    <2>3. QED
      BY <2>1, <2>2
  <1>7. ASSUME NEW l \in Locals, NEW name, LocalLogin(l, name) PROVE (NonceTaken /\ NonceOnce)'
    BY <1>7, DiscourseAssumption DEF LocalLogin, DiscourseAssumption
  <1>8. QED
    BY <1>1, <1>2, <1>3, <1>4, <1>5, <1>6, <1>7 DEF vars, Next, SignIn, Issue

\* What the statements of a callback may rely on, whatever others write in between.
\* A row has had the links it has; a callback is about to write a row that has had its
\* external id or its address; and the row it has written is its account's until another
\* callback writes it.
Links == [ext : Values, email : Values]
HistoryTypes ==
  /\ past \in Seq(SUBSET Links) /\ Len(past) = Len(rows)
  /\ writer \in Seq(Callbacks \cup {Empty}) /\ Len(writer) = Len(rows)
PastHolds == \A i \in DOMAIN rows : LinksOf(rows[i]) \in past[i]
Linked(c) == \E p \in past[user[c]] :
               p.ext = prof[c].ext \/ (p.email = prof[c].email /\ p.email # Empty)
Keeps(c)  == rows[user[c]].ext = prof[c].ext \/ writer[user[c]] \notin {c, Empty}
UpdatesLinked == \A c \in Callbacks : pc[c] = "update" => Linked(c)
SignedInKeeps == \A c \in Callbacks : pc[c] \in {"reread", "issue"} => Keeps(c)
Traced == HistoryTypes /\ PastHolds /\ UpdatesLinked /\ SignedInKeeps
Moves(i) ==
  rows[i].ext # Empty /\ rows'[i].ext # rows[i].ext =>
    \E p \in past[i] : p.ext = rows'[i].ext \/ (p.email = rows'[i].email /\ p.email # Empty)
RowsMove == \A i \in DOMAIN rows : i \in DOMAIN rows' /\ Moves(i)

\* A new row leaves the others and their history alone.
LEMMA Adding ==
  ASSUME SigningTypes, HistoryTypes, NEW r \in Rows, NEW w \in Callbacks \cup {Empty}, AddRow(r, w)
  PROVE  /\ rows' \in Seq(Rows) /\ HistoryTypes'
         /\ Len(rows) \in Nat /\ Len(rows') = Len(rows) + 1
         /\ rows'[Len(rows')] = r /\ past'[Len(rows')] = {LinksOf(r)} /\ writer'[Len(rows')] = w
         /\ \A i \in DOMAIN rows :
              rows'[i] = rows[i] /\ past'[i] = past[i] /\ writer'[i] = writer[i]
  <1>1. LinksOf(r) \in Links
    BY DEF LinksOf, Links, Rows
  <1>2. rows \in Seq(Rows) /\ rows' = Append(rows, r)
    BY DEF SigningTypes, AddRow
  <1>3. rows' \in Seq(Rows) /\ Len(rows) \in Nat /\ Len(rows') = Len(rows) + 1
        /\ rows'[Len(rows')] = r /\ \A i \in DOMAIN rows : rows'[i] = rows[i]
    BY <1>2
  <1>4. past \in Seq(SUBSET Links) /\ past' = Append(past, {LinksOf(r)}) /\ Len(past) = Len(rows)
    BY DEF HistoryTypes, AddRow
  <1>5. past' \in Seq(SUBSET Links) /\ Len(past') = Len(rows')
        /\ past'[Len(rows')] = {LinksOf(r)} /\ \A i \in DOMAIN past : past'[i] = past[i]
    BY <1>1, <1>3, <1>4
  <1>6. writer \in Seq(Callbacks \cup {Empty}) /\ writer' = Append(writer, w) /\ Len(writer) = Len(rows)
    BY DEF HistoryTypes, AddRow
  <1>7. writer' \in Seq(Callbacks \cup {Empty}) /\ Len(writer') = Len(rows')
        /\ writer'[Len(rows')] = w /\ \A i \in DOMAIN writer : writer'[i] = writer[i]
    BY <1>3, <1>6
  <1>8. DOMAIN past = DOMAIN rows /\ DOMAIN writer = DOMAIN rows
    BY <1>2, <1>4, <1>6
  <1>9. QED
    BY <1>3, <1>5, <1>7, <1>8 DEF HistoryTypes

\* A row written anew has had the links it had, and those it has now.
LEMMA Rewriting ==
  ASSUME SigningTypes, HistoryTypes, NEW k \in DOMAIN rows, NEW r \in Rows,
         NEW w \in Callbacks, WriteRow(k, r, w)
  PROVE  /\ rows' \in Seq(Rows) /\ HistoryTypes' /\ DOMAIN rows' = DOMAIN rows
         /\ rows'[k] = r /\ past'[k] = past[k] \cup {LinksOf(r)} /\ writer'[k] = w
         /\ \A i \in DOMAIN rows \ {k} :
              rows'[i] = rows[i] /\ past'[i] = past[i] /\ writer'[i] = writer[i]
  <1>1. LinksOf(r) \in Links
    BY DEF LinksOf, Links, Rows
  <1>2. rows \in Seq(Rows) /\ k \in 1 .. Len(rows) /\ rows' = [rows EXCEPT ![k] = r]
    BY DEF SigningTypes, WriteRow
  <1>3. rows' \in Seq(Rows) /\ Len(rows') = Len(rows) /\ DOMAIN rows' = DOMAIN rows
        /\ rows'[k] = r /\ \A i \in DOMAIN rows \ {k} : rows'[i] = rows[i]
    BY <1>2, ExceptSeq
  <1> DEFINE q == past[k] \cup {LinksOf(r)}
  <1>4. past \in Seq(SUBSET Links) /\ k \in 1 .. Len(past) /\ Len(past) = Len(rows)
        /\ past' = [past EXCEPT ![k] = q]
    BY <1>2 DEF HistoryTypes, WriteRow
  <1>5. q \in SUBSET Links
    BY <1>1, <1>4
  <1> HIDE DEF q
  <1>6. past' \in Seq(SUBSET Links) /\ Len(past') = Len(past)
        /\ past'[k] = q /\ \A i \in DOMAIN past \ {k} : past'[i] = past[i]
    BY <1>4, <1>5, ExceptSeq
  <1>7. writer \in Seq(Callbacks \cup {Empty}) /\ k \in 1 .. Len(writer) /\ Len(writer) = Len(rows)
        /\ writer' = [writer EXCEPT ![k] = w]
    BY <1>2 DEF HistoryTypes, WriteRow
  <1>8. writer' \in Seq(Callbacks \cup {Empty}) /\ Len(writer') = Len(writer)
        /\ writer'[k] = w /\ \A i \in DOMAIN writer \ {k} : writer'[i] = writer[i]
    BY <1>7, ExceptSeq
  <1>9. DOMAIN past = DOMAIN rows /\ DOMAIN writer = DOMAIN rows
    BY <1>2, <1>4, <1>7
  <1>10. QED
    BY <1>3, <1>4, <1>6, <1>7, <1>8, <1>9 DEF HistoryTypes, q

\* Steps that leave the table alone, and no callback at work but c.
LEMMA TracedElsewhere ==
  ASSUME SigningTypes, Traced, UNCHANGED <<rows, history>>, NEW c \in Callbacks,
         \A d \in Callbacks \ {c} : pc'[d] = pc[d] /\ user'[d] = user[d] /\ prof'[d] = prof[d],
         pc'[c] = "update" => Linked(c)',
         pc'[c] \in {"reread", "issue"} => Keeps(c)'
  PROVE  Traced' /\ RowsMove
  <1>1. RowsMove
    BY DEF RowsMove, Moves
  <1>2. HistoryTypes' /\ PastHolds'
    BY DEF Traced, HistoryTypes, PastHolds, LinksOf, history
  <1>3. UpdatesLinked'
    BY DEF Traced, UpdatesLinked, Linked, history
  <1>4. SignedInKeeps'
    BY DEF Traced, SignedInKeeps, Keeps, history
  <1>5. QED
    BY <1>1, <1>2, <1>3, <1>4 DEF Traced

\* A new row: no callback that has found or written a row is concerned.
LEMMA TracedAppend ==
  ASSUME SigningTypes, Traced, NEW r \in Rows, NEW w \in Callbacks \cup {Empty}, AddRow(r, w),
         prof' = prof,
         \A d \in Callbacks : \/ pc'[d] = pc[d] /\ user'[d] = user[d]
                              \/ /\ pc'[d] = "issue" /\ user'[d] = Len(rows')
                                 /\ r.ext = prof[d].ext
  PROVE  Traced' /\ RowsMove
  <1>1. /\ HistoryTypes' /\ rows' \in Seq(Rows)
        /\ Len(rows) \in Nat /\ Len(rows') = Len(rows) + 1 /\ rows'[Len(rows')] = r
        /\ past'[Len(rows')] = {LinksOf(r)} /\ writer'[Len(rows')] = w
        /\ \A i \in DOMAIN rows :
             rows'[i] = rows[i] /\ past'[i] = past[i] /\ writer'[i] = writer[i]
    BY Adding DEF Traced
  <1>2. DOMAIN rows = 1 .. Len(rows) /\ DOMAIN rows' = 1 .. Len(rows')
    BY <1>1 DEF SigningTypes
  <1>3. RowsMove
    BY <1>1, <1>2 DEF RowsMove, Moves
  <1>4. PastHolds'
    <2>1. \A i \in DOMAIN rows : LinksOf(rows[i]) \in past[i]
      BY DEF Traced, PastHolds
    <2>2. QED
      BY <1>1, <1>2, <2>1 DEF PastHolds, LinksOf
  <1>5. UpdatesLinked'
    <2> SUFFICES ASSUME NEW d \in Callbacks, pc'[d] = "update" PROVE Linked(d)'
      BY DEF UpdatesLinked
    <2>1. pc[d] = "update" /\ user'[d] = user[d] /\ user[d] \in DOMAIN rows /\ Linked(d)
      BY DEF SigningTypes, SignIns, Traced, UpdatesLinked
    <2>2. QED
      BY <1>1, <2>1 DEF Linked
  <1>6. SignedInKeeps'
    <2> SUFFICES ASSUME NEW d \in Callbacks, pc'[d] \in {"reread", "issue"} PROVE Keeps(d)'
      BY DEF SignedInKeeps
    <2>1. CASE pc'[d] = pc[d] /\ user'[d] = user[d]
      <3>1. user[d] \in DOMAIN rows /\ Keeps(d)
        BY <2>1 DEF SigningTypes, SignIns, Traced, SignedInKeeps
      <3>2. QED
        BY <1>1, <2>1, <3>1 DEF Keeps
    <2>2. CASE user'[d] = Len(rows') /\ r.ext = prof[d].ext
      BY <1>1, <2>2 DEF Keeps
    <2>3. QED
      BY <2>1, <2>2
  <1>7. QED
    BY <1>1, <1>3, <1>4, <1>5, <1>6 DEF Traced

\* The write of a callback that has found its row.
LEMMA TracedUpdate ==
  ASSUME SigningTypes, Traced, NEW c \in Callbacks, pc[c] = "update",
         NEW r \in Rows, WriteRow(user[c], r, c),
         r.ext = prof[c].ext, r.email = prof[c].email,
         pc' = [pc EXCEPT ![c] = "reread"], user' = user, prof' = prof
  PROVE  Traced' /\ RowsMove
  <1>1. user[c] \in DOMAIN rows
    BY DEF SigningTypes, SignIns
  <1>2. /\ HistoryTypes' /\ DOMAIN rows' = DOMAIN rows /\ rows'[user[c]] = r
        /\ past'[user[c]] = past[user[c]] \cup {LinksOf(r)} /\ writer'[user[c]] = c
        /\ \A i \in DOMAIN rows \ {user[c]} :
             rows'[i] = rows[i] /\ past'[i] = past[i] /\ writer'[i] = writer[i]
    BY <1>1, Rewriting DEF Traced
  <1>3. Linked(c)
    BY DEF Traced, UpdatesLinked
  <1>4. RowsMove
    <2>1. Moves(user[c])
      BY <1>2, <1>3 DEF Moves, Linked
    <2>2. QED
      BY <1>2, <2>1 DEF RowsMove, Moves
  <1>5. PastHolds'
    BY <1>2 DEF Traced, PastHolds, LinksOf
  <1>6. UpdatesLinked'
    <2> SUFFICES ASSUME NEW d \in Callbacks, pc'[d] = "update" PROVE Linked(d)'
      BY DEF UpdatesLinked
    <2>1. pc[d] = "update" /\ user[d] \in DOMAIN rows /\ Linked(d)
      BY DEF SigningTypes, SignIns, Traced, UpdatesLinked
    <2>2. past[user[d]] \subseteq past'[user[d]]
      BY <1>2, <2>1
    <2>3. QED
      BY <2>1, <2>2 DEF Linked
  <1>7. SignedInKeeps'
    <2> SUFFICES ASSUME NEW d \in Callbacks, pc'[d] \in {"reread", "issue"} PROVE Keeps(d)'
      BY DEF SignedInKeeps
    <2>1. CASE user[d] = user[c]
      BY <1>2, <2>1, DiscourseAssumption DEF Keeps, DiscourseAssumption
    <2>2. CASE user[d] # user[c]
      <3>1. pc[d] \in {"reread", "issue"} /\ user[d] \in DOMAIN rows /\ Keeps(d)
        BY <2>2 DEF SigningTypes, SignIns, Traced, SignedInKeeps
      <3>2. QED
        BY <1>2, <2>2, <3>1 DEF Keeps
    <2>3. QED
      BY <2>1, <2>2
  <1>8. QED
    BY <1>2, <1>4, <1>5, <1>6, <1>7 DEF Traced

LEMMA TracedStep == SigningTypes /\ Traced /\ [Next]_vars => Traced' /\ RowsMove
  <1> SUFFICES ASSUME SigningTypes, Traced, [Next]_vars PROVE Traced' /\ RowsMove
    OBVIOUS
  <1> DEFINE Quiet == UNCHANGED <<rows, history, pc, user, prof>> => Traced' /\ RowsMove
  <1>0. Quiet
    BY DEF Traced, HistoryTypes, PastHolds, UpdatesLinked, SignedInKeeps, Linked, Keeps, LinksOf,
           RowsMove, Moves, history
  <1>1. CASE UNCHANGED signing
    BY <1>0, <1>1
  <1>2. ASSUME NEW n \in Nonces, DiscourseLogin(n) \/ Expire(n) PROVE Traced' /\ RowsMove
    BY <1>0, <1>2 DEF DiscourseLogin, Expire
  <1>3. ASSUME NEW f \in Newcomers, Register(f) PROVE Traced' /\ RowsMove
    <2> DEFINE r == [ext |-> f.ext, email |-> f.email, name |-> f.name, admin |-> f.admin,
                     local |-> TRUE]
    <2>1. r \in Rows
      BY DEF Rows, Values, Admins
    <2>2. AddRow(r, Empty) /\ UNCHANGED <<pc, prof, user>>
      BY <1>3 DEF Register
    <2> HIDE DEF r
    <2>3. QED
      BY <2>1, <2>2, TracedAppend
  <1>4. ASSUME NEW c \in Callbacks, NEW n \in Nonces, NEW p \in Profiles, TakeNonce(c, n, p)
        PROVE  Traced' /\ RowsMove
    BY <1>4, TracedElsewhere DEF TakeNonce, SigningTypes, SignIns
  <1>5. ASSUME NEW c \in Callbacks, NEW n \in Nonces, TakeFailed(c, n) PROVE Traced' /\ RowsMove
    BY <1>5, TracedElsewhere DEF TakeFailed, SigningTypes, SignIns
  <1>6. ASSUME NEW c \in Callbacks, Sync(c) PROVE Traced' /\ RowsMove
    <2>1. CASE FindExternal(c)
      <3> DEFINE found == Found("ext", prof[c].ext)
      <3>1. UNCHANGED <<rows, history, prof>>
            /\ \A d \in Callbacks \ {c} : pc'[d] = pc[d] /\ user'[d] = user[d]
        BY <2>1 DEF FindExternal, SigningTypes, SignIns
      <3>2. pc'[c] \in {"email", "create", "update"}
        BY <2>1 DEF FindExternal, SigningTypes, SignIns
      <3>3. pc'[c] = "update" => user'[c] \in found
        BY <2>1 DEF FindExternal, SigningTypes, SignIns
      <3>4. pc'[c] = "update" => Linked(c)'
        BY <3>1, <3>3 DEF Found, Linked, Traced, PastHolds, LinksOf, history
      <3>5. QED
        BY <3>1, <3>2, <3>4, TracedElsewhere
    <2>2. CASE FindEmail(c)
      <3> DEFINE found == Found("email", prof[c].email)
      <3>1. UNCHANGED <<rows, history, prof>> /\ prof[c].email # Empty
            /\ \A d \in Callbacks \ {c} : pc'[d] = pc[d] /\ user'[d] = user[d]
        BY <2>2 DEF FindEmail, SigningTypes, SignIns, Spent
      <3>2. pc'[c] \in {"create", "update"}
        BY <2>2 DEF FindEmail, SigningTypes, SignIns
      <3>3. pc'[c] = "update" => user'[c] \in found
        BY <2>2 DEF FindEmail, SigningTypes, SignIns
      <3>4. pc'[c] = "update" => Linked(c)'
        BY <3>1, <3>3 DEF Found, Linked, Traced, PastHolds, LinksOf, history
      <3>5. QED
        BY <3>1, <3>2, <3>4, TracedElsewhere
    <2>3. CASE CreateUser(c)
      <3>1. CASE pc' = [pc EXCEPT ![c] = "refused"] /\ UNCHANGED <<rows, history, user, flag>>
        BY <2>3, <3>1, TracedElsewhere DEF CreateUser, SigningTypes, SignIns
      <3>2. CASE /\ AddRow(Account(prof[c]), c)
                 /\ user' = [user EXCEPT ![c] = Len(rows')]
                 /\ pc' = [pc EXCEPT ![c] = "issue"]
        <4> DEFINE r == Account(prof[c])
        <4>1. prof[c] \in Profiles /\ prof' = prof
          BY <2>3 DEF CreateUser, SigningTypes, Spent
        <4>2. r \in Rows /\ r.ext = prof[c].ext
          BY <4>1, AccountType DEF Account
        <4> HIDE DEF r
        <4>3. AddRow(r, c)
          BY <3>2 DEF r
        <4>4. \A d \in Callbacks : \/ pc'[d] = pc[d] /\ user'[d] = user[d]
                                   \/ /\ pc'[d] = "issue" /\ user'[d] = Len(rows')
                                      /\ r.ext = prof[d].ext
          BY <3>2, <4>2 DEF SigningTypes, SignIns
        <4>5. QED
          BY <4>1, <4>2, <4>3, <4>4, TracedAppend
      <3>3. QED
        BY <2>3, <3>1, <3>2 DEF CreateUser
    <2>4. CASE UpdateUser(c)
      <3>1. CASE pc' = [pc EXCEPT ![c] = "refused"] /\ UNCHANGED <<rows, history>>
        BY <2>4, <3>1, TracedElsewhere DEF UpdateUser, SigningTypes, SignIns
      <3>2. CASE /\ WriteRow(user[c], Synced(prof[c], user[c]), c)
                 /\ pc' = [pc EXCEPT ![c] = "reread"]
        <4> DEFINE r == Synced(prof[c], user[c])
        <4>1. /\ pc[c] = "update" /\ prof[c] \in Profiles /\ user[c] \in DOMAIN rows
              /\ user' = user /\ prof' = prof
          BY <2>4 DEF UpdateUser, SigningTypes, SignIns, Spent
        <4>2. r \in Rows /\ r.ext = prof[c].ext /\ r.email = prof[c].email
          BY <4>1, SyncedType DEF Synced, Account, SigningTypes
        <4> HIDE DEF r
        <4>3. WriteRow(user[c], r, c)
          BY <3>2 DEF r
        <4>4. QED
          BY <3>2, <4>1, <4>2, <4>3, TracedUpdate
      <3>3. QED
        BY <2>4, <3>1, <3>2 DEF UpdateUser
    <2>5. CASE Reread(c)
      <3>1. pc[c] = "reread" /\ Keeps(c)
        BY <2>5 DEF Reread, Traced, SignedInKeeps
      <3>2. Keeps(c)'
        BY <2>5, <3>1 DEF Reread, Keeps, history
      <3>3. QED
        BY <2>5, <3>2, TracedElsewhere DEF Reread, SigningTypes, SignIns
    <2>6. CASE SyncFails(c)
      BY <2>6, TracedElsewhere DEF SyncFails, SigningTypes, SignIns
    <2>7. QED
      BY <1>6, <2>1, <2>2, <2>3, <2>4, <2>5, <2>6 DEF Sync
  <1>7. ASSUME NEW l \in Locals, NEW name, LocalLogin(l, name) PROVE Traced' /\ RowsMove
    <2>1. UNCHANGED <<rows, history, prof>>
          /\ \A d \in Callbacks : pc'[d] = pc[d] /\ user'[d] = user[d]
      BY <1>7, DiscourseAssumption DEF LocalLogin, DiscourseAssumption, SigningTypes, SignIns
    <2>2. QED
      BY <2>1 DEF Traced, HistoryTypes, PastHolds, UpdatesLinked, SignedInKeeps, Linked, Keeps,
                  LinksOf, RowsMove, Moves, history
  <1>8. QED
    BY <1>1, <1>2, <1>3, <1>4, <1>5, <1>6, <1>7 DEF vars, Next, SignIn, Issue

\* Of the sessions: a token is stored for the user of the sign-in that stored it.
SessionTypes ==
  /\ step \in [Logins \cup Logouts -> {"start", "drop", "set", "reverse", "forget", "done"}]
  /\ claims = [s \in Logins |-> claims[s]]
StoredByOwner ==
  \A u \in DOMAIN u2t : u2t[u] \in Logins => step[u2t[u]] \in {"reverse", "done"}
ClaimsOwn ==
  \A s \in Logins : step[s] # "start" => pc[s] = "issue" /\ claims[s].user = user[s]
Sessioned == SessionTypes /\ StoredByOwner /\ ClaimsOwn

LEMMA SessionsStep == SigningTypes /\ Sessioned /\ [Next]_vars => Sessioned'
  <1> SUFFICES ASSUME SigningTypes, Sessioned, [Next]_vars PROVE Sessioned'
    OBVIOUS
  <1> USE SessionsAssumption, AccountsAssumption DEF SessionsAssumption, AccountsAssumption,
                                                     SessionTypes, StepTo
  <1>1. CASE UNCHANGED sessions /\ SignIn
    <2>1. \A s \in SignIns : pc[s] = "issue" => pc'[s] = pc[s] /\ user'[s] = user[s]
      <3>1. ASSUME NEW n \in Nonces, DiscourseLogin(n) \/ Expire(n)
            PROVE  UNCHANGED <<pc, user>>
        BY <3>1 DEF DiscourseLogin, Expire
      <3>2. ASSUME NEW f \in Newcomers, Register(f) PROVE UNCHANGED <<pc, user>>
        BY <3>2 DEF Register
      <3>3. ASSUME NEW c \in SignIns, NEW p, NEW i, pc[c] # "issue",
                   pc' = [pc EXCEPT ![c] = p], user' = [user EXCEPT ![c] = i] \/ user' = user
            PROVE  \A s \in SignIns : pc[s] = "issue" => pc'[s] = pc[s] /\ user'[s] = user[s]
        BY <3>3 DEF SigningTypes
      <3>4. ASSUME NEW c \in Callbacks, NEW n \in Nonces,
                   TakeFailed(c, n) \/ \E p \in Profiles : TakeNonce(c, n, p)
            PROVE  \A s \in SignIns : pc[s] = "issue" => pc'[s] = pc[s] /\ user'[s] = user[s]
        BY <3>4 DEF TakeFailed, TakeNonce, SigningTypes, SignIns
      <3>5. ASSUME NEW c \in Callbacks, Sync(c)
            PROVE  \A s \in SignIns : pc[s] = "issue" => pc'[s] = pc[s] /\ user'[s] = user[s]
        <4>1. FindExternal(c) => \E p : pc' = [pc EXCEPT ![c] = p]
          BY DEF FindExternal
        <4>2. FindEmail(c) => \E p : pc' = [pc EXCEPT ![c] = p]
          BY DEF FindEmail
        <4>3. CreateUser(c) => \E p : pc' = [pc EXCEPT ![c] = p]
          BY DEF CreateUser
        <4>4. UpdateUser(c) => \E p : pc' = [pc EXCEPT ![c] = p]
          BY DEF UpdateUser
        <4>5. \E p : pc' = [pc EXCEPT ![c] = p]
          BY <3>5, <4>1, <4>2, <4>3, <4>4 DEF Sync, Reread, SyncFails
        <4>6. pc[c] # "issue" /\ \A s \in SignIns \ {c} : user'[s] = user[s]
          BY <3>5 DEF Sync, FindExternal, FindEmail, CreateUser, UpdateUser, Reread, SyncFails,
                      SigningTypes, SignIns
        <4>7. QED
          BY <4>5, <4>6 DEF SigningTypes, SignIns
      <3>6. ASSUME NEW l \in Locals, NEW name, LocalLogin(l, name)
            PROVE  \A s \in SignIns : pc[s] = "issue" => pc'[s] = pc[s] /\ user'[s] = user[s]
        BY <3>6 DEF LocalLogin, SigningTypes, SignIns
      <3>7. QED
        BY <1>1, <3>1, <3>2, <3>4, <3>5, <3>6 DEF SignIn
    <2>2. QED
      BY <1>1, <2>1 DEF Sessioned, StoredByOwner, ClaimsOwn
  <1>2. ASSUME NEW s \in SignIns, Issue(s) PROVE Sessioned'
    <2>1. UNCHANGED <<pc, user>> /\ pc[s] = "issue" /\ s \in Logins
      BY <1>2 DEF Issue
    <2>2. CASE LoginOld(s, user[s], flag[s])
      BY <2>1, <2>2 DEF LoginOld, Sessioned, StoredByOwner, ClaimsOwn
    <2>3. CASE LoginDrop(s)
      BY <2>1, <2>3 DEF LoginDrop, Sessioned, StoredByOwner, ClaimsOwn
    <2>4. CASE LoginSet(s)
      <3>1. step' = [step EXCEPT ![s] = "reverse"] /\ UNCHANGED claims /\ step[s] = "set"
        BY <2>4 DEF LoginSet
      <3>2. \A u \in DOMAIN u2t' : u2t'[u] = s \/ (u \in DOMAIN u2t /\ u2t'[u] = u2t[u])
        BY <2>4 DEF LoginSet, SetToken
      <3>3. QED
        BY <2>1, <3>1, <3>2 DEF Sessioned, StoredByOwner, ClaimsOwn
    <2>5. CASE LoginReverse(s)
      BY <2>1, <2>5 DEF LoginReverse, Sessioned, StoredByOwner, ClaimsOwn
    <2>6. QED
      BY <1>2, <2>2, <2>3, <2>4, <2>5 DEF Issue, Login
  <1>3. ASSUME NEW o \in Logouts, Logout(o), UNCHANGED signing PROVE Sessioned'
    <2>1. UNCHANGED claims /\ \A l \in Logins : step'[l] = step[l]
      BY <1>3 DEF Logout, LogoutFind, LogoutDrop, LogoutForget, Sessioned
    <2>2. \A u \in DOMAIN u2t' : u \in DOMAIN u2t /\ u2t'[u] = u2t[u]
      BY <1>3 DEF Logout, LogoutFind, LogoutDrop, LogoutForget
    <2>3. SessionTypes'
      BY <1>3 DEF Logout, LogoutFind, LogoutDrop, LogoutForget, Sessioned
    <2>4. QED
      BY <1>3, <2>1, <2>2, <2>3 DEF Sessioned, StoredByOwner, ClaimsOwn
  <1>4. CASE UNCHANGED vars
    BY <1>4 DEF vars, Sessioned, StoredByOwner, ClaimsOwn
  <1>5. QED
    BY <1>1, <1>2, <1>3, <1>4 DEF Next

-----------------------------------------------------------------------------
(* The two hashes of the sessions.                                         *)

Tried == {"start", "drop", "set", "reverse", "done"}
TokenTypes ==
  /\ \A r \in Logins : step[r] \in Tried /\ UserOf(r) \in Nat
  /\ \A o \in Logouts : step[o] \in {"start", "drop", "forget", "done"}
  /\ step = [r \in Logins \cup Logouts |-> step[r]]
  /\ claims = [l \in Logins |-> claims[l]]
  /\ t2u = [l \in Logins |-> t2u[l]]
  /\ old = [l \in Logins |-> old[l]]
  /\ tok = [o \in Logouts |-> tok[o]]
  /\ uid = [o \in Logouts |-> uid[o]]

\* An entry of either hash is its login's own, and is written when its turn comes;
\* a login and a logout know of tokens that have been given out.
ReverseOwn ==
  \A l \in Logins :
    /\ t2u[l] \in {None, UserOf(l)}
    /\ step[l] # "done" => t2u[l] = None
StoredOwn ==
  \A u \in Nat : TokenOf(u) # None =>
    /\ TokenOf(u) \in Logins
    /\ UserOf(TokenOf(u)) = u /\ step[TokenOf(u)] \in {"reverse", "done"}
OldOwn ==
  \A l \in Logins : step[l] = "drop" =>
    old[l] \in Logins /\ step[old[l]] # "start" /\ UserOf(old[l]) = UserOf(l)
PresentedOwn ==
  \A o \in Logouts :
    /\ step[o] # "start" => tok[o] \in Logins /\ step[tok[o]] = "done"
    /\ step[o] = "drop" => uid[o] = UserOf(tok[o])
Told == out \subseteq {l \in Logins : step[l] = "done"}

\* A logout that has removed the user's token, or has found none to remove.
Ended(t) == UserOf(t) \notin broken => ~Valid(t) \/ Replacing(t) # {}
Forgetting == \A o \in Logouts : step[o] = "forget" => Ended(tok[o])

Tokens == /\ TokenTypes /\ ReverseOwn /\ StoredOwn /\ OldOwn /\ PresentedOwn /\ Told
          /\ Forgetting /\ LogoutFindsSession /\ LoggedOutStaysOut

\* The steps of the sessions, as the invariants below see them.
LEMMA SessionSteps ==
  ASSUME SigningTypes, [Next]_vars
  PROVE  \/ UNCHANGED sessions
         \/ \E l \in Logins : (\E i \in Nat : \E b : LoginOld(l, i, b)) \/ Login(l)
         \/ \E o \in Logouts : Logout(o)
  BY AccountsAssumption DEF Next, vars, Issue, SigningTypes, AccountsAssumption

LEMMA LoginOldTokens ==
  ASSUME Tokens, NEW l \in Logins, NEW i \in Nat, NEW b, LoginOld(l, i, b)
  PROVE  Tokens'
  <1> USE SessionsAssumption DEF SessionsAssumption
  <1>1. /\ step[l] = "start" /\ UNCHANGED <<t2u, tok, uid, out>>
        /\ step' = [step EXCEPT ![l] = step'[l]]
        /\ old' = [old EXCEPT ![l] = old'[l]]
        /\ claims' = [claims EXCEPT ![l] = claims'[l]]
        /\ broken \subseteq broken'
    BY DEF LoginOld, StepTo, Noted
  <1>2. \A t \in Logins : UserOf(t)' = IF t = l THEN i ELSE UserOf(t)
    BY DEF LoginOld, Tokens, TokenTypes, UserOf
  <1>3. \A u : TokenOf(u)' = TokenOf(u)
    BY DEF LoginOld, TokenOf
  <1>4. \/ step'[l] = "set"
        \/ step'[l] = "drop" /\ old'[l] = TokenOf(i) /\ TokenOf(i) # None
    <2>1. old'[l] \in {TokenOf(i), None}
      BY DEF LoginOld, Tokens, TokenTypes
    <2>2. step'[l] = IF old'[l] = None THEN "set" ELSE "drop"
      BY DEF LoginOld, StepTo, Tokens, TokenTypes
    <2>3. QED
      BY <2>1, <2>2
  <1>5. /\ \A r \in Logins \cup Logouts : r # l => step'[r] = step[r]
        /\ \A t \in Logins : t # l => old'[t] = old[t]
    BY <1>1 DEF Tokens, TokenTypes
  <1>6. TokenTypes'
    <2>1. \A r \in Logins : step'[r] \in Tried /\ UserOf(r)' \in Nat
      BY <1>2, <1>4, <1>5 DEF Tokens, TokenTypes, Tried
    <2>2. \A o \in Logouts : step'[o] = step[o]
      BY <1>5
    <2>3. QED
      BY <1>1, <2>1, <2>2 DEF Tokens, TokenTypes
  <1>7. ReverseOwn'
    BY <1>1, <1>2, <1>4, <1>5 DEF Tokens, ReverseOwn
  <1>8. StoredOwn'
    BY <1>1, <1>2, <1>3, <1>5 DEF Tokens, StoredOwn
  <1>9. OldOwn'
    BY <1>1, <1>2, <1>3, <1>4, <1>5 DEF Tokens, OldOwn, StoredOwn
  <1>10. PresentedOwn' /\ Told'
    BY <1>1, <1>2, <1>4, <1>5 DEF Tokens, PresentedOwn, Told
  <1>11. ASSUME NEW t \in Logins, t # l
         PROVE  /\ UserOf(t)' = UserOf(t) /\ (Valid(t)' <=> Valid(t))
                /\ Replacing(t) \subseteq Replacing(t)'
    <2>1. UserOf(t)' = UserOf(t) /\ (Valid(t)' <=> Valid(t))
      BY <1>2, <1>3, <1>11 DEF Valid
    <2>2. \A s \in Replacing(t) : s \in Replacing(t)'
      BY <1>1, <1>2, <1>5, <1>11 DEF Replacing
    <2>3. QED
      BY <2>1, <2>2
  <1>12. ~Valid(l)'
    BY <1>1, <1>2, <1>3 DEF Valid, Tokens, StoredOwn
  <1>13. Forgetting'
    BY <1>1, <1>5, <1>11 DEF Tokens, Forgetting, Ended, PresentedOwn
  <1>14. LogoutFindsSession'
    BY <1>1, <1>5, <1>11, <1>12 DEF Tokens, LogoutFindsSession
  <1>15. LoggedOutStaysOut'
    BY <1>1, <1>5, <1>11 DEF Tokens, LoggedOutStaysOut, Told
  <1>16. QED
    BY <1>6, <1>7, <1>8, <1>9, <1>10, <1>13, <1>14, <1>15 DEF Tokens

LEMMA LoginDropTokens == ASSUME Tokens, NEW l \in Logins, LoginDrop(l) PROVE Tokens'
  <1> USE SessionsAssumption DEF SessionsAssumption
  <1>1. /\ step[l] = "drop" /\ UNCHANGED <<u2t, claims, old, tok, uid, out>>
        /\ step' = [step EXCEPT ![l] = "set"]
        /\ t2u' = [t2u EXCEPT ![old[l]] = None] \/ t2u' = t2u
        /\ broken \subseteq broken'
    BY DEF LoginDrop, StepTo, Noted
  <1>2. /\ \A t \in Logins : UserOf(t)' = UserOf(t)
        /\ \A u : TokenOf(u)' = TokenOf(u)
    BY <1>1 DEF UserOf, TokenOf
  <1>3. /\ step'[l] = "set"
        /\ \A r \in Logins \cup Logouts : r # l => step'[r] = step[r]
    BY <1>1 DEF Tokens, TokenTypes
  <1>4. \A t \in Logins : t2u'[t] = t2u[t] \/ (t = old[l] /\ t2u'[t] = None)
    BY <1>1 DEF Tokens, TokenTypes
  <1>5. TokenTypes'
    <2>1. t2u' = [t \in Logins |-> t2u'[t]]
      BY <1>1 DEF Tokens, TokenTypes
    <2>2. QED
      BY <1>1, <1>2, <1>3, <2>1 DEF Tokens, TokenTypes, Tried
  <1>6. ReverseOwn'
    BY <1>2, <1>3, <1>4, <1>1 DEF Tokens, ReverseOwn
  <1>7. StoredOwn'
    BY <1>1, <1>2, <1>3 DEF Tokens, StoredOwn
  <1>8. OldOwn'
    BY <1>1, <1>2, <1>3 DEF Tokens, OldOwn
  <1>9. PresentedOwn' /\ Told'
    BY <1>1, <1>2, <1>3 DEF Tokens, PresentedOwn, Told
  <1>10. ASSUME NEW t \in Logins
         PROVE  (Valid(t)' <=> Valid(t)) /\ Replacing(t)' = Replacing(t)
    <2>1. Valid(t)' <=> Valid(t)
      BY <1>2 DEF Valid
    <2>2. \A s \in Logins : s \in Replacing(t)' <=> s \in Replacing(t)
      BY <1>1, <1>2, <1>3 DEF Replacing
    <2>3. QED
      BY <2>1, <2>2 DEF Replacing
  <1>11. Forgetting'
    BY <1>1, <1>2, <1>3, <1>10 DEF Tokens, Forgetting, Ended, PresentedOwn
  <1>12. LogoutFindsSession'
    <2> SUFFICES ASSUME NEW t \in Logins, Valid(t)', UserOf(t)' \notin broken'
                 PROVE  t2u'[t] = UserOf(t)' \/ step'[t] = "reverse" \/ Replacing(t)' # {}
      BY DEF LogoutFindsSession
    <2>1. t2u[t] = UserOf(t) \/ step[t] = "reverse" \/ Replacing(t) # {}
      BY <1>1, <1>2, <1>10 DEF Tokens, LogoutFindsSession
    <2>2. t = old[l] => l \in Replacing(t)
      BY <1>1 DEF Replacing, Tokens, OldOwn
    <2>3. QED
      BY <1>1, <1>2, <1>3, <1>4, <1>10, <2>1, <2>2
  <1>13. LoggedOutStaysOut'
    BY <1>1, <1>2, <1>10 DEF Tokens, LoggedOutStaysOut, Told
  <1>14. QED
    BY <1>5, <1>6, <1>7, <1>8, <1>9, <1>11, <1>12, <1>13 DEF Tokens

LEMMA LoginSetTokens == ASSUME Tokens, NEW l \in Logins, LoginSet(l) PROVE Tokens'
  <1> USE SessionsAssumption DEF SessionsAssumption
  <1>1. /\ step[l] = "set" /\ UNCHANGED <<t2u, claims, tok, uid, out>>
        /\ step' = [step EXCEPT ![l] = "reverse"] /\ old' = [old EXCEPT ![l] = None]
        /\ broken \subseteq broken'
        /\ u2t' = SetToken(UserOf(l), l) \/ (u2t' = u2t /\ UserOf(l) \in broken')
    BY DEF LoginSet, StepTo, Noted
  <1>2. \A t \in Logins : UserOf(t)' = UserOf(t)
    BY <1>1 DEF UserOf
  <1>3. /\ step'[l] = "reverse" /\ old'[l] = None
        /\ \A r \in Logins \cup Logouts : r # l => step'[r] = step[r]
        /\ \A t \in Logins : t # l => old'[t] = old[t]
    BY <1>1 DEF Tokens, TokenTypes
  <1>4. \/ \A u : TokenOf(u)' = IF u = UserOf(l) THEN l ELSE TokenOf(u)
        \/ UserOf(l) \in broken' /\ \A u : TokenOf(u)' = TokenOf(u)
    BY <1>1 DEF TokenOf, SetToken
  <1>5. TokenTypes'
    BY <1>1, <1>2, <1>3 DEF Tokens, TokenTypes, Tried
  <1>6. ReverseOwn'
    BY <1>1, <1>2, <1>3 DEF Tokens, ReverseOwn
  <1>7. StoredOwn'
    BY <1>1, <1>2, <1>3, <1>4 DEF Tokens, StoredOwn
  <1>8. OldOwn'
    BY <1>1, <1>2, <1>3 DEF Tokens, OldOwn
  <1>9. PresentedOwn' /\ Told'
    BY <1>1, <1>2, <1>3 DEF Tokens, PresentedOwn, Told
  <1>10. ASSUME NEW t \in Logins, t # l, Valid(t)', UserOf(t) \notin broken'
         PROVE  Valid(t) /\ Replacing(t) \subseteq Replacing(t)'
    <2>1. UserOf(t) # UserOf(l) /\ Valid(t)
      BY <1>2, <1>4, <1>10 DEF Valid
    <2>2. \A s \in Replacing(t) : s \in Replacing(t)'
      BY <1>1, <1>2, <1>3, <2>1 DEF Replacing
    <2>3. QED
      BY <2>1, <2>2
  <1>11. Forgetting'
    BY <1>1, <1>2, <1>3, <1>10 DEF Tokens, Forgetting, Ended, PresentedOwn
  <1>12. LogoutFindsSession'
    BY <1>1, <1>2, <1>3, <1>10 DEF Tokens, LogoutFindsSession
  <1>13. LoggedOutStaysOut'
    BY <1>1, <1>2, <1>10 DEF Tokens, LoggedOutStaysOut, Told
  <1>14. QED
    BY <1>5, <1>6, <1>7, <1>8, <1>9, <1>11, <1>12, <1>13 DEF Tokens

LEMMA LoginReverseTokens == ASSUME Tokens, NEW l \in Logins, LoginReverse(l) PROVE Tokens'
  <1> USE SessionsAssumption DEF SessionsAssumption
  <1>1. /\ step[l] = "reverse" /\ UNCHANGED <<u2t, claims, old, tok, uid, out>>
        /\ step' = [step EXCEPT ![l] = "done"] /\ broken \subseteq broken'
        /\ t2u' = [t2u EXCEPT ![l] = UserOf(l)] \/ (t2u' = t2u /\ UserOf(l) \in broken')
    BY DEF LoginReverse, StepTo, Noted
  <1>2. /\ \A t \in Logins : UserOf(t)' = UserOf(t)
        /\ \A u : TokenOf(u)' = TokenOf(u)
    BY <1>1 DEF UserOf, TokenOf
  <1>3. /\ step'[l] = "done"
        /\ \A r \in Logins \cup Logouts : r # l => step'[r] = step[r]
        /\ \A t \in Logins : t # l => t2u'[t] = t2u[t]
        /\ t2u'[l] = UserOf(l) \/ (t2u'[l] = None /\ UserOf(l) \in broken')
    BY <1>1 DEF Tokens, TokenTypes, ReverseOwn
  <1>4. TokenTypes'
    <2>1. t2u' = [t \in Logins |-> t2u'[t]]
      BY <1>1 DEF Tokens, TokenTypes
    <2>2. QED
      BY <1>1, <1>2, <1>3, <2>1 DEF Tokens, TokenTypes, Tried
  <1>5. ReverseOwn'
    BY <1>1, <1>2, <1>3 DEF Tokens, ReverseOwn
  <1>6. StoredOwn'
    BY <1>1, <1>2, <1>3 DEF Tokens, StoredOwn
  <1>7. OldOwn'
    BY <1>1, <1>2, <1>3 DEF Tokens, OldOwn
  <1>8. PresentedOwn' /\ Told'
    BY <1>1, <1>2, <1>3 DEF Tokens, PresentedOwn, Told
  <1>9. ASSUME NEW t \in Logins
        PROVE  (Valid(t)' <=> Valid(t)) /\ Replacing(t)' = Replacing(t)
    <2>1. Valid(t)' <=> Valid(t)
      BY <1>2 DEF Valid
    <2>2. \A s \in Logins : s \in Replacing(t)' <=> s \in Replacing(t)
      BY <1>1, <1>2, <1>3 DEF Replacing
    <2>3. QED
      BY <2>1, <2>2 DEF Replacing
  <1>10. Forgetting'
    BY <1>1, <1>2, <1>3, <1>9 DEF Tokens, Forgetting, Ended, PresentedOwn
  <1>11. LogoutFindsSession'
    BY <1>1, <1>2, <1>3, <1>9 DEF Tokens, LogoutFindsSession
  <1>12. LoggedOutStaysOut'
    BY <1>1, <1>2, <1>9 DEF Tokens, LoggedOutStaysOut, Told
  <1>13. QED
    BY <1>4, <1>5, <1>6, <1>7, <1>8, <1>10, <1>11, <1>12 DEF Tokens

LEMMA LogoutFindTokens == ASSUME Tokens, NEW o \in Logouts, LogoutFind(o) PROVE Tokens'
  <1> USE SessionsAssumption DEF SessionsAssumption
  <1>1. PICK l \in Logins :
          /\ step[l] = "done" /\ tok' = [tok EXCEPT ![o] = l] /\ broken \subseteq broken'
          /\ \/ uid' = [uid EXCEPT ![o] = t2u[l]]
             \/ uid' = [uid EXCEPT ![o] = None] /\ UserOf(l) \in broken'
    BY DEF LogoutFind, Noted
  <1>2. /\ step[o] = "start" /\ UNCHANGED <<u2t, t2u, claims, old, out>>
        /\ step' = [step EXCEPT ![o] = IF uid'[o] = None THEN "forget" ELSE "drop"]
    BY DEF LogoutFind, StepTo
  <1>3. /\ \A t \in Logins : UserOf(t)' = UserOf(t)
        /\ \A u : TokenOf(u)' = TokenOf(u)
    BY <1>2 DEF UserOf, TokenOf
  <1>4. /\ \A r \in Logins \cup Logouts : r # o => step'[r] = step[r]
        /\ \A q \in Logouts : q # o => tok'[q] = tok[q] /\ uid'[q] = uid[q]
        /\ tok'[o] = l
    BY <1>1, <1>2 DEF Tokens, TokenTypes
  <1>5. \/ step'[o] = "drop" /\ uid'[o] = UserOf(l)
        \/ step'[o] = "forget" /\ (t2u[l] # UserOf(l) \/ UserOf(l) \in broken')
    <2>1. step'[o] = IF uid'[o] = None THEN "forget" ELSE "drop"
      BY <1>2 DEF Tokens, TokenTypes
    <2>2. uid'[o] = t2u[l] \/ (uid'[o] = None /\ UserOf(l) \in broken')
      BY <1>1 DEF Tokens, TokenTypes
    <2>3. t2u[l] \in {None, UserOf(l)} /\ UserOf(l) # None
      BY DEF Tokens, TokenTypes, ReverseOwn
    <2>4. QED
      BY <2>1, <2>2, <2>3
  <1>6. TokenTypes'
    <2>1. \A q \in Logouts : step'[q] \in {"start", "drop", "forget", "done"}
      BY <1>4, <1>5 DEF Tokens, TokenTypes
    <2>2. \A r \in Logins : step'[r] = step[r] /\ UserOf(r)' = UserOf(r)
      BY <1>3, <1>4, o \notin Logins
    <2>3. tok' = [q \in Logouts |-> tok'[q]] /\ uid' = [q \in Logouts |-> uid'[q]]
      BY <1>1 DEF Tokens, TokenTypes
    <2>4. step' = [r \in Logins \cup Logouts |-> step'[r]]
      BY <1>2 DEF Tokens, TokenTypes
    <2>5. /\ claims' = [t \in Logins |-> claims'[t]] /\ t2u' = [t \in Logins |-> t2u'[t]]
          /\ old' = [t \in Logins |-> old'[t]]
      BY <1>2 DEF Tokens, TokenTypes
    <2>6. \A r \in Logins : step'[r] \in Tried /\ UserOf(r)' \in Nat
      BY <2>2 DEF Tokens, TokenTypes
    <2>7. QED
      BY <2>1, <2>3, <2>4, <2>5, <2>6 DEF TokenTypes
  <1>7. ReverseOwn' /\ StoredOwn' /\ OldOwn'
    BY <1>2, <1>3, <1>4 DEF Tokens, ReverseOwn, StoredOwn, OldOwn
  <1>8. PresentedOwn' /\ Told'
    BY <1>1, <1>2, <1>3, <1>4, <1>5 DEF Tokens, PresentedOwn, Told
  <1>9. ASSUME NEW t \in Logins
        PROVE  (Valid(t)' <=> Valid(t)) /\ Replacing(t)' = Replacing(t)
    <2>1. Valid(t)' <=> Valid(t)
      BY <1>3 DEF Valid
    <2>2. \A s \in Logins : s \in Replacing(t)' <=> s \in Replacing(t)
      BY <1>2, <1>3, <1>4 DEF Replacing
    <2>3. QED
      BY <2>1, <2>2 DEF Replacing
  <1>10. step'[o] = "forget" => Ended(l)'
    BY <1>1, <1>3, <1>5, <1>9 DEF Ended, Tokens, LogoutFindsSession
  <1>11. Forgetting'
    BY <1>1, <1>3, <1>4, <1>9, <1>10 DEF Tokens, Forgetting, Ended, PresentedOwn
  <1>12. LogoutFindsSession'
    BY <1>1, <1>2, <1>3, <1>4, <1>9 DEF Tokens, LogoutFindsSession
  <1>13. LoggedOutStaysOut'
    BY <1>1, <1>2, <1>3, <1>9 DEF Tokens, LoggedOutStaysOut, Told
  <1>14. QED
    BY <1>6, <1>7, <1>8, <1>11, <1>12, <1>13 DEF Tokens

LEMMA LogoutDropTokens == ASSUME Tokens, NEW o \in Logouts, LogoutDrop(o) PROVE Tokens'
  <1> USE SessionsAssumption DEF SessionsAssumption
  <1>1. /\ step[o] = "drop" /\ UNCHANGED <<t2u, claims, old, tok, uid, out>>
        /\ step' = [step EXCEPT ![o] = "forget"] /\ broken \subseteq broken'
        /\ \/ u2t' = [u \in DOMAIN u2t \ {uid[o]} |-> u2t[u]]
           \/ u2t' = u2t /\ uid[o] \in broken'
    BY DEF LogoutDrop, StepTo, Noted
  <1>2. \A t \in Logins : UserOf(t)' = UserOf(t)
    BY <1>1 DEF UserOf
  <1>3. \/ \A u : TokenOf(u)' = IF u = uid[o] THEN None ELSE TokenOf(u)
        \/ uid[o] \in broken' /\ \A u : TokenOf(u)' = TokenOf(u)
    BY <1>1 DEF TokenOf
  <1>4. /\ step'[o] = "forget"
        /\ \A r \in Logins \cup Logouts : r # o => step'[r] = step[r]
    BY <1>1 DEF Tokens, TokenTypes
  <1>5. TokenTypes'
    BY <1>1, <1>2, <1>4 DEF Tokens, TokenTypes, Tried
  <1>6. ReverseOwn' /\ OldOwn'
    BY <1>1, <1>2, <1>4 DEF Tokens, ReverseOwn, OldOwn
  <1>7. StoredOwn'
    BY <1>1, <1>2, <1>3, <1>4 DEF Tokens, StoredOwn
  <1>8. PresentedOwn' /\ Told'
    BY <1>1, <1>2, <1>4 DEF Tokens, PresentedOwn, Told
  <1>9. ASSUME NEW t \in Logins
        PROVE  (Valid(t)' => Valid(t)) /\ Replacing(t)' = Replacing(t)
    <2>1. Valid(t)' => Valid(t)
      BY <1>2, <1>3 DEF Valid
    <2>2. \A s \in Logins : s \in Replacing(t)' <=> s \in Replacing(t)
      BY <1>1, <1>2, <1>4 DEF Replacing
    <2>3. QED
      BY <2>1, <2>2 DEF Replacing
  <1>10. Ended(tok[o])'
    <2>1. tok[o] \in Logins /\ uid[o] = UserOf(tok[o])
      BY <1>1 DEF Tokens, PresentedOwn
    <2>2. QED
      BY <2>1, <1>1, <1>2, <1>3 DEF Ended, Valid
  <1>11. Forgetting'
    BY <1>1, <1>2, <1>4, <1>9, <1>10 DEF Tokens, Forgetting, Ended, PresentedOwn
  <1>12. LogoutFindsSession'
    BY <1>1, <1>2, <1>4, <1>9 DEF Tokens, LogoutFindsSession
  <1>13. LoggedOutStaysOut'
    BY <1>1, <1>2, <1>9 DEF Tokens, LoggedOutStaysOut, Told
  <1>14. QED
    BY <1>5, <1>6, <1>7, <1>8, <1>11, <1>12, <1>13 DEF Tokens

LEMMA LogoutForgetTokens == ASSUME Tokens, NEW o \in Logouts, LogoutForget(o) PROVE Tokens'
  <1> USE SessionsAssumption DEF SessionsAssumption
  <1>1. /\ step[o] = "forget" /\ UNCHANGED <<u2t, claims, old, tok>>
        /\ step' = [step EXCEPT ![o] = "done"] /\ broken \subseteq broken'
        /\ t2u' = [t2u EXCEPT ![tok[o]] = None] \/ t2u' = t2u
        /\ out' = out \cup {tok[o]} /\ uid' = [uid EXCEPT ![o] = None]
    BY DEF LogoutForget, StepTo, Noted
  <1>2. /\ \A t \in Logins : UserOf(t)' = UserOf(t)
        /\ \A u : TokenOf(u)' = TokenOf(u)
    BY <1>1 DEF UserOf, TokenOf
  <1>3. /\ step'[o] = "done"
        /\ \A r \in Logins \cup Logouts : r # o => step'[r] = step[r]
        /\ \A q \in Logouts : q # o => uid'[q] = uid[q]
        /\ \A t \in Logins : t # tok[o] => t2u'[t] = t2u[t]
        /\ \A t \in Logins : t2u'[t] \in {t2u[t], None}
    BY <1>1 DEF Tokens, TokenTypes
  <1>4. tok[o] \in Logins /\ step[tok[o]] = "done" /\ Ended(tok[o])
    BY <1>1 DEF Tokens, PresentedOwn, Forgetting
  <1>5. TokenTypes'
    <2>1. t2u' = [t \in Logins |-> t2u'[t]] /\ uid' = [q \in Logouts |-> uid'[q]]
      BY <1>1 DEF Tokens, TokenTypes
    <2>2. QED
      BY <1>1, <1>2, <1>3, <2>1 DEF Tokens, TokenTypes, Tried
  <1>6. ReverseOwn' /\ OldOwn' /\ StoredOwn'
    BY <1>1, <1>2, <1>3 DEF Tokens, ReverseOwn, OldOwn, StoredOwn
  <1>7. PresentedOwn'
    BY <1>1, <1>2, <1>3 DEF Tokens, PresentedOwn
  <1>8. Told'
    BY <1>1, <1>3, <1>4 DEF Tokens, Told
  <1>9. ASSUME NEW t \in Logins
        PROVE  (Valid(t)' <=> Valid(t)) /\ Replacing(t)' = Replacing(t)
    <2>1. Valid(t)' <=> Valid(t)
      BY <1>2 DEF Valid
    <2>2. \A s \in Logins : s \in Replacing(t)' <=> s \in Replacing(t)
      BY <1>1, <1>2, <1>3 DEF Replacing
    <2>3. QED
      BY <2>1, <2>2 DEF Replacing
  <1>10. Forgetting'
    BY <1>1, <1>2, <1>3, <1>9 DEF Tokens, Forgetting, Ended, PresentedOwn
  <1>11. LogoutFindsSession'
    <2> SUFFICES ASSUME NEW t \in Logins, Valid(t)', UserOf(t)' \notin broken'
                 PROVE  t2u'[t] = UserOf(t)' \/ step'[t] = "reverse" \/ Replacing(t)' # {}
      BY DEF LogoutFindsSession
    <2>1. t2u[t] = UserOf(t) \/ step[t] = "reverse" \/ Replacing(t) # {}
      BY <1>1, <1>2, <1>9 DEF Tokens, LogoutFindsSession
    <2>2. t = tok[o] => Replacing(t) # {}
      BY <1>1, <1>2, <1>4, <1>9 DEF Ended
    <2>3. QED
      BY <1>2, <1>3, <1>9, <2>1, <2>2
  <1>12. LoggedOutStaysOut'
    BY <1>1, <1>2, <1>4, <1>9 DEF Tokens, LoggedOutStaysOut, Told, Ended
  <1>13. QED
    BY <1>5, <1>6, <1>7, <1>8, <1>10, <1>11, <1>12 DEF Tokens

LEMMA TokensStep == SigningTypes /\ Tokens /\ [Next]_vars => Tokens'
  <1> SUFFICES ASSUME SigningTypes, Tokens, [Next]_vars PROVE Tokens'
    OBVIOUS
  <1>1. CASE UNCHANGED sessions
    <2>1. /\ \A t : UserOf(t)' = UserOf(t) /\ \A u : TokenOf(u)' = TokenOf(u)
      BY <1>1 DEF UserOf, TokenOf
    <2>2. \A t : (Valid(t)' <=> Valid(t)) /\ Replacing(t)' = Replacing(t)
      BY <1>1, <2>1 DEF Valid, Replacing
    <2>3. (TokenTypes /\ ReverseOwn /\ StoredOwn /\ OldOwn /\ PresentedOwn /\ Told)'
      <3>1. TokenTypes'
        BY <1>1, <2>1 DEF Tokens, TokenTypes
      <3>2. ReverseOwn' /\ StoredOwn'
        BY <1>1, <2>1 DEF Tokens, ReverseOwn, StoredOwn
      <3>3. OldOwn' /\ PresentedOwn' /\ Told'
        BY <1>1, <2>1 DEF Tokens, OldOwn, PresentedOwn, Told
      <3>4. QED
        BY <3>1, <3>2, <3>3
    <2>4. (Forgetting /\ LogoutFindsSession /\ LoggedOutStaysOut)'
      BY <1>1, <2>1, <2>2
      DEF Tokens, Forgetting, Ended, LogoutFindsSession, LoggedOutStaysOut
    <2>5. QED
      BY <2>3, <2>4 DEF Tokens
  <1>2. ASSUME NEW l \in Logins, NEW i \in Nat, NEW b, LoginOld(l, i, b) PROVE Tokens'
    BY <1>2, LoginOldTokens
  <1>3. ASSUME NEW l \in Logins, Login(l) PROVE Tokens'
    BY <1>3, LoginDropTokens, LoginSetTokens, LoginReverseTokens DEF Login
  <1>4. ASSUME NEW o \in Logouts, Logout(o) PROVE Tokens'
    BY <1>4, LogoutFindTokens, LogoutDropTokens, LogoutForgetTokens DEF Logout
  <1>5. QED
    BY <1>1, <1>2, <1>3, <1>4, SessionSteps

\* Users of whom no command has failed and no login has met another request.
Apart(u) == u \notin broken \cup beside

\* A login of theirs runs by itself; the two hashes are each other's inverse, save for
\* what the one running login is about to write and a logout about to forget.
Alone ==
  \A l \in Logins, r \in Logins \cup Logouts : \A u :
    u \notin beside /\ Running(l, u) /\ Running(r, u) => r = l
Inverses ==
  \A t \in Logins, u \in Nat : Apart(u) /\ t2u[t] = u =>
    \/ TokenOf(u) = t
    \/ TokenOf(u) = None /\ \E o \in Logouts : step[o] = "forget" /\ tok[o] = t
Unnamed(u) == \A t \in Logins : t2u[t] # u
Writing ==
  \A l \in Logins : \A u : Apart(u) /\ UserOf(l) = u =>
    /\ step[l] = "drop" => old[l] = TokenOf(u)
    /\ step[l] = "set" => Unnamed(u)
    /\ step[l] = "reverse" => TokenOf(u) = l /\ Unnamed(u)
Dropping ==
  \A o \in Logouts : \A u :
    step[o] = "drop" /\ uid[o] = u /\ Apart(u) => TokenOf(u) \in {tok[o], None}

Undisturbed == Alone /\ Inverses /\ Writing /\ Dropping

\* A step after the first of its login or logout: nobody starts to run.
LEMMA AloneInside ==
  ASSUME Alone, UNCHANGED <<claims, tok, beside>>,
         \A r \in Logins \cup Logouts :
           step'[r] \notin {"start", "done"} => step[r] \notin {"start", "done"}
  PROVE  Alone'
  <1>1. \A r \in Logins \cup Logouts : \A u : Running(r, u)' => Running(r, u)
    BY DEF Running, UserOfStep, UserOf
  <1>2. QED
    BY <1>1 DEF Alone

LEMMA LoginOldUndisturbed ==
  ASSUME Tokens, Undisturbed, NEW l \in Logins, NEW i \in Nat, NEW b, LoginOld(l, i, b)
  PROVE  Undisturbed'
  <1> USE SessionsAssumption DEF SessionsAssumption
  <1>1. /\ step[l] = "start" /\ UNCHANGED <<t2u, tok, uid, out>>
        /\ step' = [step EXCEPT ![l] = step'[l]]
        /\ old' = [old EXCEPT ![l] = old'[l]]
        /\ broken \subseteq broken' /\ beside \subseteq beside'
    BY DEF LoginOld, StepTo, Noted, Meets
  <1>2. \A t \in Logins : UserOf(t)' = IF t = l THEN i ELSE UserOf(t)
    BY DEF LoginOld, Tokens, TokenTypes, UserOf
  <1>3. \A u : TokenOf(u)' = TokenOf(u)
    BY DEF LoginOld, TokenOf
  <1>4. /\ \A r \in Logins \cup Logouts : r # l => step'[r] = step[r]
        /\ \A t \in Logins : t # l => old'[t] = old[t]
    BY <1>1 DEF Tokens, TokenTypes
  <1>5. i \notin beside' => \A r \in Logins \cup Logouts : ~Running(r, i)
    BY DEF LoginOld, Meets
  <1>6. \A r \in Logins \cup Logouts : \A u : r # l => (Running(r, u)' <=> Running(r, u))
    <2> SUFFICES ASSUME NEW r \in Logins \cup Logouts, NEW u, r # l
                 PROVE  Running(r, u)' <=> Running(r, u)
      OBVIOUS
    <2>1. CASE r \in Logins
      BY <2>1, <1>2, <1>4 DEF Running, UserOfStep
    <2>2. CASE r \in Logouts
      <3>1. step[r] # "start" => tok[r] \in Logins /\ tok[r] # l
        BY <1>1, <2>2 DEF Tokens, PresentedOwn
      <3>2. QED
        BY <2>2, <3>1, <1>1, <1>2, <1>4 DEF Running, UserOfStep
    <2>3. QED
      BY <2>1, <2>2
  <1>7. Alone'
    <2> SUFFICES ASSUME NEW k \in Logins, NEW r \in Logins \cup Logouts, NEW u,
                        u \notin beside', Running(k, u)', Running(r, u)'
                 PROVE  r = k
      BY DEF Alone
    <2>1. u \notin beside
      BY <1>1
    <2>2. Running(l, u)' => u = i
      BY <1>2 DEF Running, UserOfStep
    <2>3. QED
      BY <1>5, <1>6, <2>1, <2>2 DEF Undisturbed, Alone
  <1>8. \A u : Apart(u)' => Apart(u)
    BY <1>1 DEF Apart
  <1>9. Inverses'
    <2> SUFFICES ASSUME NEW t \in Logins, NEW u \in Nat, Apart(u)', t2u'[t] = u
                 PROVE  \/ TokenOf(u)' = t
                        \/ TokenOf(u)' = None /\ \E o \in Logouts : step'[o] = "forget" /\ tok'[o] = t
      BY DEF Inverses
    <2>1. Apart(u) /\ t2u[t] = u
      BY <1>1, <1>8
    <2>2. \/ TokenOf(u) = t
          \/ TokenOf(u) = None /\ \E o \in Logouts : step[o] = "forget" /\ tok[o] = t
      BY <2>1 DEF Undisturbed, Inverses
    <2>3. QED
      BY <1>1, <1>3, <1>4, <2>2
  <1>10. Unnamed(i) \/ ~Apart(i)' \/ \E t \in Logins : t2u[t] = i /\ TokenOf(i) = t
    <2> SUFFICES ASSUME NEW t \in Logins, t2u[t] = i, Apart(i)'
                 PROVE  TokenOf(i) = t
      BY DEF Unnamed
    <2>1. ASSUME NEW o \in Logouts, step[o] = "forget", tok[o] = t PROVE FALSE
      <3>1. UserOf(t) = i
        BY DEF Tokens, TokenTypes, ReverseOwn
      <3>2. Running(o, i)
        BY <2>1, <3>1 DEF Running, UserOfStep
      <3>3. QED
        BY <1>5, <3>2 DEF Apart
    <2>2. QED
      BY <1>8, <2>1 DEF Undisturbed, Inverses
  <1>11. Apart(i)' => old'[l] = TokenOf(i)
    BY DEF LoginOld, Noted, Apart, Tokens, TokenTypes
  <1>12. step'[l] = IF old'[l] = None THEN "set" ELSE "drop"
    BY DEF LoginOld, StepTo, Tokens, TokenTypes
  <1>13. Writing'
    <2> SUFFICES ASSUME NEW k \in Logins, NEW u, Apart(u)', UserOf(k)' = u
                 PROVE  /\ step'[k] = "drop" => old'[k] = TokenOf(u)'
                        /\ step'[k] = "set" => Unnamed(u)'
                        /\ step'[k] = "reverse" => TokenOf(u)' = k /\ Unnamed(u)'
      BY DEF Writing
    <2>1. Unnamed(u)' <=> Unnamed(u)
      BY <1>1 DEF Unnamed
    <2>2. CASE k # l
      BY <1>2, <1>3, <1>4, <1>8, <2>1, <2>2 DEF Undisturbed, Writing
    <2>3. CASE k = l
      <3>1. u = i /\ old'[l] = TokenOf(i)
        BY <1>2, <1>11, <2>3
      <3>2. old'[l] = None => Unnamed(i)
        BY <1>10, <3>1
      <3>3. QED
        BY <1>3, <1>12, <2>1, <2>3, <3>1, <3>2
    <2>4. QED
      BY <2>2, <2>3
  <1>14. Dropping'
    BY <1>1, <1>3, <1>4, <1>8 DEF Undisturbed, Dropping
  <1>15. QED
    BY <1>7, <1>9, <1>13, <1>14 DEF Undisturbed

LEMMA LoginDropUndisturbed ==
  ASSUME Tokens, Undisturbed, NEW l \in Logins, LoginDrop(l)
  PROVE  Undisturbed'
  <1> USE SessionsAssumption DEF SessionsAssumption
  <1>1. /\ step[l] = "drop" /\ UNCHANGED <<u2t, claims, old, tok, uid, beside, out>>
        /\ step' = [step EXCEPT ![l] = "set"] /\ broken \subseteq broken'
        /\ \/ t2u' = [t2u EXCEPT ![old[l]] = None]
           \/ t2u' = t2u /\ UserOf(l) \in broken'
    BY DEF LoginDrop, StepTo, Noted
  <1>2. /\ \A t \in Logins : UserOf(t)' = UserOf(t)
        /\ \A u : TokenOf(u)' = TokenOf(u) /\ (Apart(u)' => Apart(u))
    BY <1>1 DEF UserOf, TokenOf, Apart
  <1>3. /\ step'[l] = "set"
        /\ \A r \in Logins \cup Logouts : r # l => step'[r] = step[r]
        /\ \A t \in Logins : t2u'[t] \in {t2u[t], None}
        /\ UserOf(l) \in broken' \/ t2u'[old[l]] = None
    BY <1>1 DEF Tokens, TokenTypes, OldOwn
  <1>4. Alone'
    BY <1>1, <1>3, AloneInside DEF Undisturbed
  <1>5. Inverses'
    BY <1>2, <1>3, <1>1 DEF Undisturbed, Inverses, Apart, Tokens, TokenTypes, ReverseOwn
  <1>6. Apart(UserOf(l))' => Unnamed(UserOf(l))'
    <2> DEFINE u == UserOf(l)
    <2> SUFFICES ASSUME Apart(u)', NEW t \in Logins, t2u'[t] = u PROVE FALSE
      BY <1>2 DEF Unnamed
    <2>1. u \in Nat /\ t2u[t] = u /\ UserOf(t) = u
      BY <1>3 DEF Tokens, TokenTypes, ReverseOwn
    <2>2. old[l] = TokenOf(u) /\ old[l] \in Logins
      BY <1>1, <1>2 DEF Undisturbed, Writing, Tokens, OldOwn
    <2>3. PICK o \in Logouts : step[o] = "forget" /\ tok[o] = t
      BY <1>2, <1>3, <2>1, <2>2 DEF Undisturbed, Inverses, Apart
    <2>4. Running(o, u) /\ Running(l, u) /\ u \notin beside
      BY <1>1, <1>2, <2>1, <2>3 DEF Running, UserOfStep, Apart
    <2>5. QED
      BY <2>4 DEF Undisturbed, Alone
  <1>7. Writing'
    <2> SUFFICES ASSUME NEW k \in Logins, NEW u, Apart(u)', UserOf(k)' = u
                 PROVE  /\ step'[k] = "drop" => old'[k] = TokenOf(u)'
                        /\ step'[k] = "set" => Unnamed(u)'
                        /\ step'[k] = "reverse" => TokenOf(u)' = k /\ Unnamed(u)'
      BY DEF Writing
    <2>1. Unnamed(u) => Unnamed(u)'
      BY <1>2, <1>3 DEF Unnamed, Tokens, TokenTypes
    <2>2. QED
      BY <1>1, <1>2, <1>3, <1>6, <2>1 DEF Undisturbed, Writing
  <1>8. Dropping'
    BY <1>1, <1>2, <1>3 DEF Undisturbed, Dropping
  <1>9. QED
    BY <1>4, <1>5, <1>7, <1>8 DEF Undisturbed

LEMMA LoginSetUndisturbed ==
  ASSUME Tokens, Undisturbed, NEW l \in Logins, LoginSet(l)
  PROVE  Undisturbed'
  <1> USE SessionsAssumption DEF SessionsAssumption
  <1>0. PICK v : v = UserOf(l)
    OBVIOUS
  <1>1. /\ step[l] = "set" /\ UNCHANGED <<t2u, claims, tok, uid, beside, out>>
        /\ step' = [step EXCEPT ![l] = "reverse"] /\ old' = [old EXCEPT ![l] = None]
        /\ broken \subseteq broken'
        /\ u2t' = SetToken(v, l) \/ (u2t' = u2t /\ v \in broken')
    BY <1>0 DEF LoginSet, StepTo, Noted
  <1>2. /\ \A t \in Logins : UserOf(t)' = UserOf(t)
        /\ \A u : (Apart(u)' => Apart(u)) /\ (Unnamed(u)' <=> Unnamed(u))
    BY <1>0, <1>1 DEF UserOf, Apart, Unnamed
  <1>3. /\ step'[l] = "reverse"
        /\ \A r \in Logins \cup Logouts : r # l => step'[r] = step[r]
        /\ \A t \in Logins : t # l => old'[t] = old[t]
    BY <1>0, <1>1 DEF Tokens, TokenTypes
  <1>4. \A u : u # v => TokenOf(u)' = TokenOf(u)
    BY <1>0, <1>1 DEF TokenOf, SetToken
  <1>5. v \notin broken' => TokenOf(v)' = l
    BY <1>0, <1>1 DEF TokenOf, SetToken
  <1>6. Alone'
    BY <1>0, <1>1, <1>3, AloneInside DEF Undisturbed
  <1>7. Apart(v) => Unnamed(v)
    BY <1>0, <1>1 DEF Undisturbed, Writing
  <1>8. Apart(v) => \A r \in Logins \cup Logouts : r # l => ~Running(r, v)
    <2>1. Running(l, v)
      BY <1>0, <1>1 DEF Running, UserOfStep
    <2>2. QED
      BY <2>1 DEF Undisturbed, Alone, Apart
  <1>9. Inverses'
    BY <1>0, <1>1, <1>2, <1>3, <1>4, <1>5, <1>7 DEF Undisturbed, Inverses, Unnamed
  <1>10. Writing'
    <2> SUFFICES ASSUME NEW k \in Logins, NEW u, Apart(u)', UserOf(k)' = u
                 PROVE  /\ step'[k] = "drop" => old'[k] = TokenOf(u)'
                        /\ step'[k] = "set" => Unnamed(u)'
                        /\ step'[k] = "reverse" => TokenOf(u)' = k /\ Unnamed(u)'
      BY DEF Writing
    <2>1. CASE k = l
      BY <1>0, <1>2, <1>3, <1>5, <1>7, <2>1 DEF Apart
    <2>2. CASE k # l /\ u = v
      <3>1. ~Running(k, v)
        BY <1>0, <1>2, <1>8, <2>2
      <3>2. QED
        BY <1>0, <1>2, <1>3, <2>2, <3>1 DEF Running, UserOfStep
    <2>3. CASE k # l /\ u # v
      BY <1>0, <1>2, <1>3, <1>4, <2>3 DEF Undisturbed, Writing
    <2>4. QED
      BY <2>1, <2>2, <2>3
  <1>11. Dropping'
    <2> SUFFICES ASSUME NEW o \in Logouts, NEW u, step'[o] = "drop", uid'[o] = u, Apart(u)'
                 PROVE  TokenOf(u)' \in {tok'[o], None}
      BY DEF Dropping
    <2>1. step[o] = "drop" /\ uid[o] = u /\ UserOf(tok[o]) = u
      BY <1>0, <1>1, <1>3 DEF Tokens, PresentedOwn
    <2>2. Running(o, u)
      BY <2>1 DEF Running, UserOfStep
    <2>3. u # v
      BY <1>0, <1>2, <1>8, <2>2
    <2>4. QED
      BY <1>0, <1>1, <1>2, <1>4, <2>1, <2>3 DEF Undisturbed, Dropping
  <1>12. QED
    BY <1>6, <1>9, <1>10, <1>11 DEF Undisturbed

LEMMA LoginReverseUndisturbed ==
  ASSUME Tokens, Undisturbed, NEW l \in Logins, LoginReverse(l)
  PROVE  Undisturbed'
  <1> USE SessionsAssumption DEF SessionsAssumption
  <1>0. PICK v : v = UserOf(l)
    OBVIOUS
  <1>1. /\ step[l] = "reverse" /\ UNCHANGED <<u2t, claims, old, tok, uid, beside, out>>
        /\ step' = [step EXCEPT ![l] = "done"] /\ broken \subseteq broken'
        /\ t2u' = [t2u EXCEPT ![l] = v] \/ t2u' = t2u
    BY <1>0 DEF LoginReverse, StepTo, Noted
  <1>2. /\ \A t \in Logins : UserOf(t)' = UserOf(t)
        /\ \A u : TokenOf(u)' = TokenOf(u) /\ (Apart(u)' => Apart(u))
    BY <1>0, <1>1 DEF UserOf, TokenOf, Apart
  <1>3. /\ step'[l] = "done"
        /\ \A r \in Logins \cup Logouts : r # l => step'[r] = step[r]
        /\ \A t \in Logins : t2u'[t] = t2u[t] \/ (t = l /\ t2u'[t] = v)
    BY <1>0, <1>1 DEF Tokens, TokenTypes
  <1>4. Alone'
    BY <1>0, <1>1, <1>3, AloneInside DEF Undisturbed
  <1>5. Apart(v) => TokenOf(v) = l
    BY <1>0, <1>1 DEF Undisturbed, Writing
  <1>6. Inverses'
    BY <1>0, <1>1, <1>2, <1>3, <1>5 DEF Undisturbed, Inverses
  <1>7. Writing'
    <2> SUFFICES ASSUME NEW k \in Logins, NEW u, Apart(u)', UserOf(k)' = u, step'[k] # "done"
                 PROVE  /\ step'[k] = "drop" => old'[k] = TokenOf(u)'
                        /\ step'[k] = "set" => Unnamed(u)'
                        /\ step'[k] = "reverse" => TokenOf(u)' = k /\ Unnamed(u)'
      BY DEF Writing
    <2>1. k # l
      BY <1>3
    <2>2. CASE u = v /\ step[k] # "start"
      <3>1. Running(l, v) /\ Running(k, v)
        BY <1>0, <1>1, <1>2, <1>3, <2>1, <2>2 DEF Running, UserOfStep
      <3>2. QED
        BY <1>0, <1>2, <2>1, <2>2, <3>1 DEF Undisturbed, Alone, Apart
    <2>3. CASE u # v
      <3>1. Unnamed(u) => Unnamed(u)'
        BY <1>3, <2>3 DEF Unnamed
      <3>2. QED
        BY <1>0, <1>1, <1>2, <1>3, <2>1, <3>1 DEF Undisturbed, Writing
    <2>4. QED
      BY <1>3, <2>1, <2>2, <2>3
  <1>8. Dropping'
    BY <1>0, <1>1, <1>2, <1>3 DEF Undisturbed, Dropping
  <1>9. QED
    BY <1>4, <1>6, <1>7, <1>8 DEF Undisturbed

LEMMA LogoutFindUndisturbed ==
  ASSUME Tokens, Undisturbed, NEW o \in Logouts, LogoutFind(o)
  PROVE  Undisturbed'
  <1> USE SessionsAssumption DEF SessionsAssumption
  <1>1. PICK l \in Logins :
          /\ step[l] = "done" /\ tok' = [tok EXCEPT ![o] = l] /\ Meets(o, UserOf(l))
          /\ uid' = [uid EXCEPT ![o] = t2u[l]] \/ uid' = [uid EXCEPT ![o] = None]
          /\ broken \subseteq broken'
    BY DEF LogoutFind, Noted
  <1>2. /\ step[o] = "start" /\ UNCHANGED <<u2t, t2u, claims, old, out>>
        /\ step' = [step EXCEPT ![o] = IF uid'[o] = None THEN "forget" ELSE "drop"]
        /\ beside \subseteq beside'
    BY <1>1 DEF LogoutFind, StepTo, Meets
  <1>3. /\ \A t \in Logins : UserOf(t)' = UserOf(t)
        /\ \A u : TokenOf(u)' = TokenOf(u) /\ (Apart(u)' => Apart(u))
        /\ \A u : Unnamed(u)' <=> Unnamed(u)
    BY <1>1, <1>2 DEF UserOf, TokenOf, Apart, Unnamed
  <1>4. /\ \A r \in Logins \cup Logouts : r # o => step'[r] = step[r]
        /\ \A q \in Logouts : q # o => tok'[q] = tok[q] /\ uid'[q] = uid[q]
        /\ tok'[o] = l /\ uid'[o] \in {t2u[l], None}
        /\ step'[o] = IF uid'[o] = None THEN "forget" ELSE "drop"
    BY <1>1, <1>2 DEF Tokens, TokenTypes
  <1>5. UserOf(l) \notin beside' => \A k \in Logins : ~Running(k, UserOf(l))
    BY <1>1 DEF Meets
  <1>6. \A r \in Logins \cup Logouts : \A u : r # o => (Running(r, u)' <=> Running(r, u))
    BY <1>2, <1>4 DEF Running, UserOfStep, UserOf
  <1>7. \A u : Running(o, u)' => u = UserOf(l)
    BY <1>2, <1>4 DEF Running, UserOfStep, UserOf
  <1>8. Alone'
    <2> SUFFICES ASSUME NEW k \in Logins, NEW r \in Logins \cup Logouts, NEW u,
                        u \notin beside', Running(k, u)', Running(r, u)'
                 PROVE  r = k
      BY DEF Alone
    <2>1. u \notin beside /\ k # o
      BY <1>2
    <2>2. QED
      BY <1>5, <1>6, <1>7, <2>1 DEF Undisturbed, Alone
  <1>9. Inverses'
    BY <1>2, <1>3, <1>4 DEF Undisturbed, Inverses
  <1>10. Writing'
    BY <1>2, <1>3, <1>4 DEF Undisturbed, Writing
  <1>11. Dropping'
    <2> SUFFICES ASSUME NEW q \in Logouts, NEW u, step'[q] = "drop", uid'[q] = u, Apart(u)'
                 PROVE  TokenOf(u)' \in {tok'[q], None}
      BY DEF Dropping
    <2>1. CASE q # o
      BY <1>3, <1>4, <2>1 DEF Undisturbed, Dropping
    <2>2. CASE q = o
      <3>1. t2u[l] = u /\ Apart(u) /\ u \in Nat
        BY <1>3, <1>4, <2>2 DEF Tokens, TokenTypes, ReverseOwn
      <3>2. QED
        BY <1>3, <1>4, <2>2, <3>1 DEF Undisturbed, Inverses
    <2>3. QED
      BY <2>1, <2>2
  <1>12. QED
    BY <1>8, <1>9, <1>10, <1>11 DEF Undisturbed

LEMMA LogoutDropUndisturbed ==
  ASSUME Tokens, Undisturbed, NEW o \in Logouts, LogoutDrop(o)
  PROVE  Undisturbed'
  <1> USE SessionsAssumption DEF SessionsAssumption
  <1>0. PICK v : v = uid[o]
    OBVIOUS
  <1>1. /\ step[o] = "drop" /\ UNCHANGED <<t2u, claims, old, tok, uid, beside, out>>
        /\ step' = [step EXCEPT ![o] = "forget"] /\ broken \subseteq broken'
        /\ \/ u2t' = [u \in DOMAIN u2t \ {v} |-> u2t[u]]
           \/ u2t' = u2t /\ v \in broken'
    BY <1>0 DEF LogoutDrop, StepTo, Noted
  <1>2. /\ \A t \in Logins : UserOf(t)' = UserOf(t)
        /\ \A u : (Apart(u)' => Apart(u)) /\ (Unnamed(u)' <=> Unnamed(u))
    BY <1>0, <1>1 DEF UserOf, Apart, Unnamed
  <1>3. \A u : u # v => TokenOf(u)' = TokenOf(u)
    BY <1>0, <1>1 DEF TokenOf
  <1>4. v \notin broken' => TokenOf(v)' = None
    BY <1>0, <1>1 DEF TokenOf
  <1>5. /\ step'[o] = "forget"
        /\ \A r \in Logins \cup Logouts : r # o => step'[r] = step[r]
    BY <1>0, <1>1 DEF Tokens, TokenTypes
  <1>6. tok[o] \in Logins /\ UserOf(tok[o]) = v
    BY <1>0, <1>1 DEF Tokens, PresentedOwn
  <1>7. Apart(v) => \A k \in Logins : ~Running(k, v)
    <2>1. Running(o, v)
      BY <1>0, <1>1, <1>6 DEF Running, UserOfStep
    <2>2. QED
      BY <2>1 DEF Undisturbed, Alone, Apart
  <1>8. Alone'
    BY <1>0, <1>1, <1>5, AloneInside DEF Undisturbed
  <1>9. Inverses'
    <2> SUFFICES ASSUME NEW t \in Logins, NEW u \in Nat, Apart(u)', t2u'[t] = u
                 PROVE  \/ TokenOf(u)' = t
                        \/ TokenOf(u)' = None /\ \E q \in Logouts : step'[q] = "forget" /\ tok'[q] = t
      BY DEF Inverses
    <2>1. \/ TokenOf(u) = t
          \/ TokenOf(u) = None /\ \E q \in Logouts : step[q] = "forget" /\ tok[q] = t
      BY <1>0, <1>1, <1>2 DEF Undisturbed, Inverses
    <2>2. \A q \in Logouts : step[q] = "forget" => step'[q] = "forget"
      BY <1>5
    <2>3. CASE u # v
      BY <1>0, <1>1, <1>3, <2>1, <2>2, <2>3
    <2>4. CASE u = v
      <3>1. TokenOf(v) \in {tok[o], None}
        BY <1>0, <1>1, <1>2, <2>4 DEF Undisturbed, Dropping
      <3>2. QED
        BY <1>0, <1>1, <1>4, <1>5, <2>1, <2>2, <2>4, <3>1 DEF Apart
    <2>5. QED
      BY <2>3, <2>4
  <1>10. Writing'
    <2> SUFFICES ASSUME NEW k \in Logins, NEW u, Apart(u)', UserOf(k)' = u
                 PROVE  /\ step'[k] = "drop" => old'[k] = TokenOf(u)'
                        /\ step'[k] = "set" => Unnamed(u)'
                        /\ step'[k] = "reverse" => TokenOf(u)' = k /\ Unnamed(u)'
      BY DEF Writing
    <2>1. step'[k] = step[k]
      BY <1>5
    <2>2. CASE u = v
      BY <1>0, <1>2, <1>7, <2>1, <2>2 DEF Running, UserOfStep
    <2>3. CASE u # v
      BY <1>0, <1>1, <1>2, <1>3, <2>1, <2>3 DEF Undisturbed, Writing
    <2>4. QED
      BY <2>2, <2>3
  <1>11. Dropping'
    BY <1>0, <1>1, <1>2, <1>3, <1>4, <1>5 DEF Undisturbed, Dropping, Apart
  <1>12. QED
    BY <1>8, <1>9, <1>10, <1>11 DEF Undisturbed

LEMMA LogoutForgetUndisturbed ==
  ASSUME Tokens, Undisturbed, NEW o \in Logouts, LogoutForget(o)
  PROVE  Undisturbed'
  <1> USE SessionsAssumption DEF SessionsAssumption
  <1>1. /\ step[o] = "forget" /\ UNCHANGED <<u2t, claims, old, tok, beside>>
        /\ step' = [step EXCEPT ![o] = "done"] /\ broken \subseteq broken'
        /\ \/ t2u' = [t2u EXCEPT ![tok[o]] = None]
           \/ t2u' = t2u /\ UserOf(tok[o]) \in broken'
        /\ uid' = [uid EXCEPT ![o] = None]
    BY DEF LogoutForget, StepTo, Noted
  <1>2. /\ \A t \in Logins : UserOf(t)' = UserOf(t)
        /\ \A u : TokenOf(u)' = TokenOf(u) /\ (Apart(u)' => Apart(u))
    BY <1>1 DEF UserOf, TokenOf, Apart
  <1>3. tok[o] \in Logins
    BY <1>1 DEF Tokens, PresentedOwn
  <1>4. /\ step'[o] = "done"
        /\ \A r \in Logins \cup Logouts : r # o => step'[r] = step[r]
        /\ \A q \in Logouts : q # o => uid'[q] = uid[q]
        /\ \A t \in Logins : t2u'[t] \in {t2u[t], None}
        /\ UserOf(tok[o]) \in broken' \/ t2u'[tok[o]] = None
    BY <1>1, <1>3 DEF Tokens, TokenTypes
  <1>5. Alone'
    BY <1>1, <1>4, AloneInside DEF Undisturbed
  <1>6. \A t \in Logins : t2u[t] \in {None, UserOf(t)} /\ UserOf(t) # None
    BY DEF Tokens, TokenTypes, ReverseOwn
  <1>7. Inverses'
    <2> SUFFICES ASSUME NEW t \in Logins, NEW u \in Nat, Apart(u)', t2u'[t] = u
                 PROVE  \/ TokenOf(u)' = t
                        \/ TokenOf(u)' = None /\ \E q \in Logouts : step'[q] = "forget" /\ tok'[q] = t
      BY DEF Inverses
    <2>1. t2u[t] = u /\ t # tok[o]
      BY <1>4, <1>6 DEF Apart
    <2>2. QED
      BY <1>1, <1>2, <1>4, <2>1 DEF Undisturbed, Inverses
  <1>8. Writing'
    <2> SUFFICES ASSUME NEW k \in Logins, NEW u, Apart(u)', UserOf(k)' = u
                 PROVE  /\ step'[k] = "drop" => old'[k] = TokenOf(u)'
                        /\ step'[k] = "set" => Unnamed(u)'
                        /\ step'[k] = "reverse" => TokenOf(u)' = k /\ Unnamed(u)'
      BY DEF Writing
    <2>1. Unnamed(u) => Unnamed(u)'
      BY <1>2, <1>4, <1>6 DEF Unnamed
    <2>2. QED
      BY <1>1, <1>2, <1>4, <2>1 DEF Undisturbed, Writing
  <1>9. Dropping'
    BY <1>1, <1>2, <1>4 DEF Undisturbed, Dropping
  <1>10. QED
    BY <1>5, <1>7, <1>8, <1>9 DEF Undisturbed

LEMMA UndisturbedStep ==
  SigningTypes /\ Tokens /\ Undisturbed /\ [Next]_vars => Undisturbed'
  <1> SUFFICES ASSUME SigningTypes, Tokens, Undisturbed, [Next]_vars PROVE Undisturbed'
    OBVIOUS
  <1>1. CASE UNCHANGED sessions
    <2>1. \A u : TokenOf(u)' = TokenOf(u) /\ (Apart(u)' <=> Apart(u)) /\ (Unnamed(u)' <=> Unnamed(u))
      BY <1>1 DEF TokenOf, Apart, Unnamed
    <2>2. Alone' /\ Inverses'
      BY <1>1, <2>1, AloneInside DEF Undisturbed, Inverses
    <2>3. Writing' /\ Dropping'
      BY <1>1, <2>1 DEF Undisturbed, Writing, Dropping, UserOf
    <2>4. QED
      BY <2>2, <2>3 DEF Undisturbed
  <1>2. ASSUME NEW l \in Logins, NEW i \in Nat, NEW b, LoginOld(l, i, b) PROVE Undisturbed'
    BY <1>2, LoginOldUndisturbed
  <1>3. ASSUME NEW l \in Logins, Login(l) PROVE Undisturbed'
    BY <1>3, LoginDropUndisturbed, LoginSetUndisturbed, LoginReverseUndisturbed DEF Login
  <1>4. ASSUME NEW o \in Logouts, Logout(o) PROVE Undisturbed'
    BY <1>4, LogoutFindUndisturbed, LogoutDropUndisturbed, LogoutForgetUndisturbed DEF Logout
  <1>5. QED
    BY <1>1, <1>2, <1>3, <1>4, SessionSteps

-----------------------------------------------------------------------------
(* What a token says of its user's rights.                                 *)

\* The rights in a token: those that its sign-in read, which are the row's until
\* another sign-in writes the row.
Flags     == flag = [s \in SignIns |-> flag[s]]
FlagFresh == \A i \in DOMAIN rows : \A s \in Holding(i) : i \notin parted => flag[s] = rows[i].admin
Carried   == \A s \in Logins : step[s] # "start" => claims[s].admin = flag[s]
Rights    == Flags /\ FlagFresh /\ Carried /\ AdminFollowsRow

\* What a step of a sign-in leaves alone: a sign-in that has read its row keeps what it
\* read, and the rights in a row change by a callback's update alone.
IssuedStay ==
  \A s \in SignIns :
    pc[s] = "issue" => pc'[s] = "issue" /\ user'[s] = user[s] /\ flag'[s] = flag[s]
IssuedRead ==
  \A s \in SignIns :
    pc[s] # "issue" /\ pc'[s] = "issue" => flag'[s] = rows'[user'[s]].admin
RightsMove ==
  \A i \in DOMAIN rows :
    /\ i \in DOMAIN rows'
    /\ rows'[i].admin # rows[i].admin =>
         \E c \in Callbacks : pc[c] = "update" /\ pc'[c] = "reread" /\ user[c] = i /\ user'[c] = i
WriterEnds ==
  \A c \in Callbacks :
    pc[c] = "reread" => user'[c] = user[c] /\ pc'[c] \in {"reread", "issue", "refused"}

LEMMA SignInSteps ==
  ASSUME SigningTypes, Flags, SignIn
  PROVE  Flags' /\ IssuedStay /\ IssuedRead /\ RightsMove /\ WriterEnds
  <1> DEFINE Goal == Flags' /\ IssuedStay /\ IssuedRead /\ RightsMove /\ WriterEnds
  <1> USE DEF Flags, IssuedStay, IssuedRead, RightsMove, WriterEnds, SigningTypes, SignIns
  <1>1. ASSUME NEW n \in Nonces, DiscourseLogin(n) \/ Expire(n) PROVE Goal
    BY <1>1 DEF DiscourseLogin, Expire
  <1>2. ASSUME NEW f \in Newcomers, Register(f) PROVE Goal
    <2>1. UNCHANGED <<pc, user, flag>> /\ \E r : rows' = Append(rows, r)
      BY <1>2 DEF Register, AddRow
    <2>2. QED
      BY <2>1
  <1>3. ASSUME NEW c \in Callbacks, NEW n \in Nonces,
               TakeFailed(c, n) \/ \E p \in Profiles : TakeNonce(c, n, p)
        PROVE  Goal
    BY <1>3 DEF TakeFailed, TakeNonce
  <1>4. ASSUME NEW c \in Callbacks, Sync(c) PROVE Goal
    <2>1. CASE FindExternal(c) \/ FindEmail(c)
      <3>1. /\ pc[c] \in {"external", "email"} /\ pc'[c] \in {"email", "create", "update"}
            /\ UNCHANGED <<rows, flag>>
            /\ \A s \in SignIns \ {c} : pc'[s] = pc[s] /\ user'[s] = user[s]
        BY <2>1 DEF FindExternal, FindEmail
      <3>2. QED
        BY <3>1
    <2>2. CASE CreateUser(c)
      <3>1. CASE pc' = [pc EXCEPT ![c] = "refused"] /\ UNCHANGED <<rows, user, flag>>
        BY <2>2, <3>1 DEF CreateUser
      <3>2. CASE /\ rows' = Append(rows, Account(prof[c]))
                 /\ user' = [user EXCEPT ![c] = Len(rows')]
                 /\ flag' = [flag EXCEPT ![c] = prof[c].admin]
                 /\ pc' = [pc EXCEPT ![c] = "issue"]
        <4> DEFINE r == Account(prof[c])
        <4>1. r.admin = prof[c].admin
          BY DEF Account
        <4>2. r \in Rows /\ pc[c] = "create"
          BY <2>2, AccountType DEF CreateUser, Spent
        <4> HIDE DEF r
        <4>3. rows' = Append(rows, r)
          BY <3>2 DEF r
        <4>4. /\ \A i \in DOMAIN rows : i \in DOMAIN rows' /\ rows'[i] = rows[i]
              /\ rows'[Len(rows')] = r
          BY <4>2, <4>3
        <4>5. /\ flag'[c] = prof[c].admin /\ user'[c] = Len(rows') /\ pc'[c] = "issue"
              /\ \A s \in SignIns \ {c} : pc'[s] = pc[s] /\ user'[s] = user[s] /\ flag'[s] = flag[s]
          BY <3>2
        <4>6. Flags'
          BY <3>2
        <4>7. QED
          BY <4>1, <4>2, <4>4, <4>5, <4>6
      <3>3. QED
        BY <2>2, <3>1, <3>2 DEF CreateUser, AddRow
    <2>3. CASE UpdateUser(c)
      <3>1. CASE pc' = [pc EXCEPT ![c] = "refused"] /\ UNCHANGED rows
        BY <2>3, <3>1 DEF UpdateUser
      <3>2. CASE /\ rows' = [rows EXCEPT ![user[c]] = Synced(prof[c], user[c])]
                 /\ pc' = [pc EXCEPT ![c] = "reread"]
        <4>1. UNCHANGED <<user, flag>> /\ pc[c] = "update"
          BY <2>3 DEF UpdateUser
        <4>2. DOMAIN rows' = DOMAIN rows /\ \A i \in DOMAIN rows : i # user[c] => rows'[i] = rows[i]
          BY <3>2
        <4>3. QED
          BY <3>2, <4>1, <4>2
      <3>3. QED
        BY <2>3, <3>1, <3>2 DEF UpdateUser, WriteRow
    <2>4. CASE Reread(c)
      BY <2>4 DEF Reread
    <2>5. CASE SyncFails(c)
      BY <2>5 DEF SyncFails
    <2>6. QED
      BY <1>4, <2>1, <2>2, <2>3, <2>4, <2>5 DEF Sync
  <1>5. ASSUME NEW l \in Locals, NEW name, LocalLogin(l, name) PROVE Goal
    <2>1. pc[l] = "start" /\ UNCHANGED rows /\ l \in SignIns
      BY <1>5 DEF LocalLogin
    <2>2. CASE pc' = [pc EXCEPT ![l] = "refused"] /\ UNCHANGED <<user, flag>>
      BY <2>1, <2>2
    <2>3. ASSUME NEW i \in DOMAIN rows, user' = [user EXCEPT ![l] = i],
                 flag' = [flag EXCEPT ![l] = rows[i].admin], pc' = [pc EXCEPT ![l] = "issue"]
          PROVE  Goal
      BY <2>1, <2>3
    <2>4. QED
      BY <1>5, <2>2, <2>3 DEF LocalLogin, Found
  <1>6. QED
    BY <1>1, <1>2, <1>3, <1>4, <1>5 DEF SignIn

\* The user of a token in force is the row of its sign-in.
LEMMA TokenInForce ==
  ASSUME SigningTypes, Sessioned, NEW t \in Logins, Valid(t)
  PROVE  /\ step[t] \in {"reverse", "done"} /\ pc[t] = "issue" /\ t \in SignIns
         /\ UserOf(t) = user[t] /\ UserOf(t) \in DOMAIN rows
  <1> USE SessionsAssumption, AccountsAssumption DEF SessionsAssumption, AccountsAssumption
  <1>1. UserOf(t) \in DOMAIN u2t /\ u2t[UserOf(t)] = t
    BY DEF Valid, TokenOf
  <1>2. step[t] \in {"reverse", "done"}
    BY <1>1 DEF Sessioned, StoredByOwner
  <1>3. QED
    BY <1>2 DEF Sessioned, ClaimsOwn, UserOf, SigningTypes

LEMMA RightsSignIn ==
  ASSUME SigningTypes, Sessioned, Rights, SignIn, Parts, UNCHANGED sessions
  PROVE  Rights'
  <1> USE AccountsAssumption DEF AccountsAssumption
  <1>1. Flags' /\ IssuedStay /\ IssuedRead /\ RightsMove /\ WriterEnds
    BY SignInSteps DEF Rights
  <1>2. \A i \in DOMAIN rows : i \notin parted' =>
          i \notin parted /\ (Holding(i) # {} => rows'[i].admin = rows[i].admin)
    BY <1>1 DEF Parts, RightsMove
  <1>3. ASSUME NEW i \in DOMAIN rows', NEW s \in Holding(i)', i \notin parted'
        PROVE  flag'[s] = rows'[i].admin
    <2>1. s \in SignIns /\ user'[s] = i /\ pc'[s] = "issue" /\ step[s] \in {"start", "drop", "set"}
      BY <1>3 DEF Holding
    <2>2. CASE pc[s] # "issue"
      BY <1>1, <2>1, <2>2 DEF IssuedRead
    <2>3. CASE pc[s] = "issue"
      <3>1. user[s] = i /\ flag'[s] = flag[s] /\ i \in DOMAIN rows
        BY <1>1, <2>1, <2>3 DEF IssuedStay, SigningTypes
      <3>2. s \in Holding(i)
        BY <2>1, <2>3, <3>1 DEF Holding
      <3>3. QED
        BY <1>2, <1>3, <3>1, <3>2 DEF Rights, FlagFresh
    <2>4. QED
      BY <2>2, <2>3
  <1>4. Carried'
    BY <1>1 DEF Rights, Carried, Sessioned, ClaimsOwn, IssuedStay
  <1>5. ASSUME NEW t \in Logins, Valid(t), NEW u, u = UserOf(t), claims[t].admin # rows'[u].admin
        PROVE  Settling(u)' \/ u \in parted' \cup broken
    <2>1. u \in DOMAIN rows
      BY <1>5, TokenInForce
    <2>2. CASE rows'[u].admin # rows[u].admin
      <3>1. PICK c \in Callbacks : pc'[c] = "reread" /\ user'[c] = u
        BY <1>1, <2>1, <2>2 DEF RightsMove
      <3>2. QED
        BY <3>1 DEF Settling
    <2>3. CASE rows'[u].admin = rows[u].admin
      <3>1. Settling(u) \/ u \in parted \cup broken
        BY <1>5, <2>3 DEF Rights, AdminFollowsRow
      <3>2. u \in parted => u \in parted'
        BY DEF Parts
      <3>3. ASSUME NEW s \in Holding(u) PROVE Settling(u)'
        <4>1. s \in Holding(u)'
          BY <1>1, <3>3 DEF Holding, IssuedStay
        <4>2. QED
          BY <4>1 DEF Settling
      <3>4. ASSUME NEW c \in Callbacks, user[c] = u, pc[c] = "reread"
            PROVE  Settling(u)' \/ u \in parted'
        <4>1. user'[c] = u /\ pc'[c] \in {"reread", "issue", "refused"}
          BY <1>1, <3>4 DEF WriterEnds
        <4>2. CASE pc'[c] = "issue"
          <5>1. c \in SignIns /\ step[c] = "start"
            BY <3>4 DEF Sessioned, ClaimsOwn, SignIns
          <5>2. c \in Holding(u)'
            BY <4>1, <4>2, <5>1 DEF Holding
          <5>3. QED
            BY <5>2 DEF Settling
        <4>3. CASE pc'[c] = "reread"
          BY <4>1, <4>3 DEF Settling
        <4>4. CASE pc'[c] = "refused"
          BY <3>4, <4>4 DEF Parts
        <4>5. QED
          BY <4>1, <4>2, <4>3, <4>4
      <3>5. QED
        BY <3>1, <3>2, <3>3, <3>4 DEF Settling
    <2>4. QED
      BY <2>2, <2>3
  <1>6. AdminFollowsRow'
    <2>1. \A t \in Logins : UserOf(t)' = UserOf(t) /\ (Valid(t)' <=> Valid(t))
      BY DEF UserOf, Valid, TokenOf
    <2>2. QED
      BY <1>5, <2>1 DEF AdminFollowsRow
  <1>7. QED
    BY <1>1, <1>3, <1>4, <1>6 DEF Rights, FlagFresh

\* A step of a login or a logout, of which only a token's own login counts.
LEMMA RightsIssue ==
  ASSUME SigningTypes, Sessioned, Tokens, Rights, UNCHANGED <<signing, parted>>,
         NEW s \in SignIns, Issue(s)
  PROVE  Rights'
  <1> USE SessionsAssumption, AccountsAssumption DEF SessionsAssumption, AccountsAssumption
  <1>1. pc[s] = "issue" /\ s \in Logins /\ user[s] \in DOMAIN rows
    BY DEF Issue, SigningTypes
  <1>2. /\ \A r \in Logins : r # s => step'[r] = step[r] /\ claims'[r] = claims[r]
        /\ broken \subseteq broken'
    BY <1>1 DEF Issue, Login, LoginOld, LoginDrop, LoginSet, LoginReverse, StepTo, Noted,
                Tokens, TokenTypes
  <1>3. \/ step[s] = "start" /\ claims'[s] = [user |-> user[s], admin |-> flag[s]]
        \/ step[s] # "start" /\ claims'[s] = claims[s]
    BY <1>1 DEF Issue, Login, LoginOld, LoginDrop, LoginSet, LoginReverse, Tokens, TokenTypes
  <1>4. step[s] \in {"reverse", "done"} => step'[s] \in {"reverse", "done"}
    BY <1>1 DEF Issue, Login, LoginOld, LoginDrop, LoginSet, LoginReverse, StepTo,
                Tokens, TokenTypes
  <1>5. \A i : Holding(i)' \subseteq Holding(i)
    BY <1>2, <1>4 DEF Holding, Tokens, TokenTypes, Tried
  <1>6. Flags' /\ FlagFresh'
    BY <1>5 DEF Rights, Flags, FlagFresh
  <1>7. Carried'
    BY <1>2, <1>3 DEF Rights, Carried
  <1>8. \A t \in Logins : t # s \/ step[s] # "start" => UserOf(t)' = UserOf(t)
    BY <1>2, <1>3 DEF UserOf
  <1>9. UserOf(s)' = user[s]
    BY <1>1, <1>2, <1>3 DEF UserOf, Sessioned, ClaimsOwn
  <1>10. ASSUME NEW i, i # user[s] \/ ~LoginSet(s) PROVE Holding(i) \subseteq Holding(i)'
    <2> SUFFICES ASSUME NEW r \in Holding(i) PROVE r \in Holding(i)'
      OBVIOUS
    <2>1. r \in Logins /\ pc[r] = "issue" /\ user[r] = i /\ step[r] \in {"start", "drop", "set"}
      BY DEF Holding
    <2>2. step'[r] \in {"drop", "set"} \/ r # s
      BY <1>1, <1>10, <2>1 DEF Issue, Login, LoginOld, LoginDrop, LoginReverse, StepTo,
                               Tokens, TokenTypes
    <2>3. QED
      BY <1>2, <2>1, <2>2 DEF Holding
  <1>11. ASSUME NEW u, u # user[s] \/ ~LoginSet(s) PROVE TokenOf(u)' = TokenOf(u)
    BY <1>1, <1>9, <1>11 DEF Issue, Login, LoginOld, LoginDrop, LoginSet, LoginReverse, TokenOf,
         SetToken, Sessioned, ClaimsOwn, UserOf
  <1>12. ASSUME NEW t \in Logins, NEW u, u = UserOf(t)', Valid(t)', claims'[t].admin # rows[u].admin
         PROVE  Settling(u)' \/ u \in parted \cup broken'
    <2>1. CASE u = user[s] /\ LoginSet(s)
      <3>1. step[s] = "set" /\ UserOf(s) = u /\ s \in Holding(u)
        BY <1>1, <2>1 DEF LoginSet, Holding, Sessioned, ClaimsOwn, UserOf
      <3>2. u \in broken' \/ TokenOf(u)' = s
        BY <2>1, <3>1 DEF LoginSet, Noted, TokenOf, SetToken
      <3>3. u \in broken' \/ t = s
        BY <1>12, <3>2 DEF Valid
      <3>4. u \in parted \/ flag[s] = rows[u].admin
        BY <1>1, <2>1, <3>1 DEF Rights, FlagFresh
      <3>5. claims'[s].admin = flag[s]
        BY <1>3, <3>1, <1>1 DEF Rights, Carried
      <3>6. QED
        BY <1>12, <3>3, <3>4, <3>5
    <2>2. CASE u # user[s] \/ ~LoginSet(s)
      <3>1. TokenOf(u) = t
        BY <1>11, <1>12, <2>2 DEF Valid
      <3>2. u \in DOMAIN u2t /\ u2t[u] = t
        BY <3>1 DEF TokenOf
      <3>3. step[t] # "start"
        BY <3>2 DEF Sessioned, StoredByOwner
      <3>4. UserOf(t) = u /\ Valid(t) /\ claims'[t] = claims[t]
        BY <1>2, <1>3, <1>8, <1>12, <3>1, <3>3 DEF Valid
      <3>5. Settling(u) \/ u \in parted \cup broken
        BY <1>12, <3>4 DEF Rights, AdminFollowsRow
      <3>6. Holding(u) \subseteq Holding(u)'
        BY <1>10, <2>2
      <3>7. QED
        BY <1>2, <3>5, <3>6 DEF Settling
    <2>3. QED
      BY <2>1, <2>2
  <1>13. AdminFollowsRow'
    BY <1>12 DEF AdminFollowsRow
  <1>14. QED
    BY <1>6, <1>7, <1>13 DEF Rights

LEMMA RightsLogout ==
  ASSUME SigningTypes, Sessioned, Tokens, Rights, UNCHANGED <<signing, parted>>,
         NEW o \in Logouts, Logout(o)
  PROVE  Rights'
  <1> USE SessionsAssumption, AccountsAssumption DEF SessionsAssumption, AccountsAssumption
  <1>1. /\ \A r \in Logins : step'[r] = step[r]
        /\ claims' = claims /\ broken \subseteq broken'
        /\ \A u : TokenOf(u)' \in {TokenOf(u), None}
    <2>1. /\ step' = [step EXCEPT ![o] = step'[o]]
          /\ claims' = claims /\ broken \subseteq broken'
      BY DEF Logout, LogoutFind, LogoutDrop, LogoutForget, StepTo, Noted
    <2>2. \/ u2t' = u2t
          \/ \E v : u2t' = [u \in DOMAIN u2t \ {v} |-> u2t[u]]
      BY DEF Logout, LogoutFind, LogoutDrop, LogoutForget
    <2>3. \A u : TokenOf(u)' \in {TokenOf(u), None}
      BY <2>2 DEF TokenOf
    <2>4. QED
      BY <2>1, <2>3 DEF Tokens, TokenTypes
  <1>2. \A i : Holding(i)' = Holding(i)
    BY <1>1 DEF Holding
  <1>3. Flags' /\ FlagFresh' /\ Carried'
    BY <1>1, <1>2 DEF Rights, Flags, FlagFresh, Carried
  <1>4. \A u : Settling(u)' <=> Settling(u)
    BY <1>2 DEF Settling
  <1>5. ASSUME NEW t \in Logins PROVE UserOf(t)' = UserOf(t) /\ (Valid(t)' => Valid(t))
    <2>1. UserOf(t)' = UserOf(t)
      BY <1>1 DEF UserOf
    <2>2. QED
      BY <1>1, <2>1 DEF Valid
  <1>6. AdminFollowsRow'
    BY <1>1, <1>4, <1>5 DEF Rights, AdminFollowsRow
  <1>7. QED
    BY <1>3, <1>6 DEF Rights

LEMMA RightsStep == SigningTypes /\ Sessioned /\ Tokens /\ Rights /\ [Next]_vars => Rights'
  <1> SUFFICES ASSUME SigningTypes, Sessioned, Tokens, Rights, [Next]_vars PROVE Rights'
    OBVIOUS
  <1>1. CASE UNCHANGED vars
    BY <1>1 DEF vars, Rights, Flags, FlagFresh, Carried, AdminFollowsRow, Holding, Settling, Valid,
                TokenOf, UserOf
  <1>2. CASE SignIn /\ Parts /\ UNCHANGED sessions
    BY <1>2, RightsSignIn
  <1>3. ASSUME NEW s \in SignIns, Issue(s) PROVE Rights'
    <2>1. UNCHANGED <<signing, parted>>
      BY <1>3 DEF Issue
    <2>2. QED
      BY <1>3, <2>1, RightsIssue
  <1>4. ASSUME NEW o \in Logouts, Logout(o), UNCHANGED <<signing, parted>> PROVE Rights'
    BY <1>4, RightsLogout
  <1>5. QED
    BY <1>1, <1>2, <1>3, <1>4 DEF Next

-----------------------------------------------------------------------------
IInv == /\ SigningTypes /\ NonceTaken /\ NonceOnce /\ Traced /\ Sessioned
        /\ Tokens /\ Undisturbed /\ Rights

LEMMA InitInv == Init => IInv
  <1> SUFFICES ASSUME Init PROVE IInv
    OBVIOUS
  <1> USE SessionsAssumption, AccountsAssumption DEF SessionsAssumption, AccountsAssumption,
          Init, SigningInit, SessionsInit
  <1>1. SigningTypes
    BY DEF SigningTypes, SignIns, Stages, Spent
  <1>2. NonceTaken /\ NonceOnce
    BY DEF NonceTaken, NonceOnce, SignIns, Spent
  <1>3. Traced
    BY DEF Traced, HistoryTypes, PastHolds, UpdatesLinked, SignedInKeeps, SignIns
  <1>4. Sessioned
    BY DEF Sessioned, SessionTypes, StoredByOwner, ClaimsOwn
  <1>5. /\ \A l \in Logins : UserOf(l) = 0
        /\ \A u : TokenOf(u) = None
    BY DEF UserOf, TokenOf, NoOne
  <1>6. Tokens
    <2>1. TokenTypes
      BY <1>5 DEF TokenTypes, Tried
    <2>2. ReverseOwn /\ StoredOwn /\ OldOwn /\ PresentedOwn /\ Told /\ Forgetting
      BY <1>5 DEF ReverseOwn, StoredOwn, OldOwn, PresentedOwn, Told, Forgetting
    <2>3. LogoutFindsSession /\ LoggedOutStaysOut
      BY <1>5 DEF LogoutFindsSession, LoggedOutStaysOut, Valid
    <2>4. QED
      BY <2>1, <2>2, <2>3 DEF Tokens
  <1>7. Undisturbed
    BY <1>5 DEF Undisturbed, Alone, Inverses, Writing, Dropping, Running
  <1>8. Rights
    <2>1. \A t \in Logins : ~Valid(t)
      BY <1>5 DEF Valid
    <2>2. QED
      BY <2>1 DEF Rights, Flags, FlagFresh, Carried, AdminFollowsRow, Holding, SignIns
  <1>9. QED
    BY <1>1, <1>2, <1>3, <1>4, <1>6, <1>7, <1>8 DEF IInv

LEMMA Invariant == Spec => []IInv
  <1>1. IInv /\ [Next]_vars => IInv'
    BY TypesStep, NonceStep, TracedStep, SessionsStep, TokensStep, UndisturbedStep, RightsStep
    DEF IInv
  <1>2. QED
    BY InitInv, <1>1, PTL DEF Spec

\* Of all the deliveries that carry one nonce, a single one gets past it.
THEOREM OneSignInPerNonce == Spec => []NonceOnce
  <1>1. IInv => NonceOnce
    BY DEF IInv
  <1>2. QED
    BY <1>1, Invariant, PTL

\* The row that a callback's token names is its account's own, from the write on and
\* as long as the token is valid or until another callback has found and written the
\* row, for any number of callbacks, registrations and forms of them.
THEOREM TokensNameOwners == Spec => []TokenNamesOwner
  <1>1. ASSUME IInv PROVE TokenNamesOwner
    <2> SUFFICES ASSUME NEW t \in Callbacks, Valid(t) PROVE Keeps(t)
      BY <1>1 DEF TokenNamesOwner, IInv, Traced, SignedInKeeps, Keeps
    <2>1. t \in Logins /\ t # None
      BY SessionsAssumption, AccountsAssumption DEF SessionsAssumption, AccountsAssumption, SignIns
    <2>2. UserOf(t) \in DOMAIN u2t /\ u2t[UserOf(t)] = t
      BY <2>1 DEF Valid, TokenOf
    <2>3. pc[t] = "issue"
      BY <1>1, <2>1, <2>2 DEF IInv, Sessioned, StoredByOwner, ClaimsOwn, UserOf
    <2>4. QED
      BY <1>1, <2>3 DEF IInv, Traced, SignedInKeeps
  <1>2. QED
    BY <1>1, Invariant, PTL

\* A row that is linked to an account passes to another only under an address or an
\* external id that it has had.
THEOREM LinksKept == Spec => NoTakeover
  <1>1. IInv /\ [Next]_vars => [\A i \in DOMAIN rows : Moves(i)]_<<rows, past>>
    BY TracedStep DEF IInv, RowsMove
  <1>2. QED
    BY <1>1, Invariant, PTL DEF Spec, NoTakeover, Moves

\* The token in force can always be logged out, however logins and logouts interleave.
THEOREM SessionsCanEnd == Spec => []LogoutFindsSession
  <1>1. IInv => LogoutFindsSession
    BY DEF IInv, Tokens
  <1>2. QED
    BY <1>1, Invariant, PTL

\* A token that has been logged out is not accepted any more.
THEOREM LogoutsLast == Spec => []LoggedOutStaysOut
  <1>1. IInv => LoggedOutStaysOut
    BY DEF IInv, Tokens
  <1>2. QED
    BY <1>1, Invariant, PTL

\* A logout ends the session of its token and no other, as long as no login of the
\* user meets another request.
THEOREM LogoutsEndTheirOwn == Spec => LogoutEndsOwnSession
  <1> DEFINE Own == \A o \in Logouts : LET u == uid[o] IN
                      /\ step[o] = "drop" /\ step'[o] = "forget"
                      /\ u \notin broken' /\ TokenOf(u) \notin {tok[o], None}
                      => u \in beside
  <1>1. IInv /\ [Next]_vars => [Own]_sessions
    <2> SUFFICES ASSUME IInv, [Next]_vars, NEW o \in Logouts, step[o] = "drop",
                        uid[o] \notin broken', TokenOf(uid[o]) \notin {tok[o], None}
                 PROVE  UNCHANGED sessions \/ uid[o] \in beside
      OBVIOUS
    <2>1. UNCHANGED sessions \/ broken \subseteq broken'
      <3>1. \A l \in Logins : Login(l) => broken \subseteq broken'
        BY DEF Login, LoginDrop, LoginSet, LoginReverse, Noted
      <3>2. \A l \in Logins : \A i \in Nat : \A b : LoginOld(l, i, b) => broken \subseteq broken'
        BY DEF LoginOld, Noted
      <3>3. \A q \in Logouts : Logout(q) => broken \subseteq broken'
        BY DEF Logout, LogoutFind, LogoutDrop, LogoutForget, Noted
      <3>4. QED
        BY <3>1, <3>2, <3>3, SessionSteps DEF IInv
    <2>2. QED
      BY <2>1 DEF IInv, Undisturbed, Dropping, Apart
  <1>2. QED
    BY <1>1, Invariant, PTL DEF Spec, LogoutEndsOwnSession

\* The rights in a token in force are those in its user's row.
THEOREM RightsFollowRow == Spec => []AdminFollowsRow
  <1>1. IInv => AdminFollowsRow
    BY DEF IInv, Rights
  <1>2. QED
    BY <1>1, Invariant, PTL
=============================================================================
