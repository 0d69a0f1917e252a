-------------------------------- MODULE Jph2 --------------------------------
(***************************************************************************)
(* The routes of jph2 that change the database (examples/jph2/users.cpp,    *)
(* threads.cpp, messages.cpp, poi.cpp), as HttpApi's threads run them at    *)
(* the same time.  A handler is a sequence of PgSqlModel's statements, each *)
(* a step, with what it keeps from one to the next in doing.  A user is the *)
(* number its token names.  Two things are history: a row's owners, all the *)
(* users that have owned it, and kept, in doing: whether the row that was   *)
(* found still has the number it was found by.                              *)
(***************************************************************************)
EXTENDS PgSqlModel

CONSTANTS
    Workers,      \* threads of the server
    Tables,       \* of "poi", "threads" and "messages"
    MaxAccounts,  \* bound on the numbers of users,
    MaxRows,      \* and of the rows of each of Tables
    MaxMarked     \* bound on the users that are deleted or were given access by hand

ASSUME Jph2Assumption ==
    IsFiniteSet(Workers) /\ MaxAccounts \in Nat /\ MaxRows \in Nat /\ MaxMarked \in Nat

VARIABLES
    accounts,     \* the users table
    access,       \* the access table, a set of its rows
    rows,         \* of each of Tables: its rows
    tokens,       \* the numbers in the tokens this process has given
    doing         \* of each worker: the statement its handler comes to next

jph2Vars == <<accounts, access, rows, tokens, doing>>

Accounts == 1 .. MaxAccounts
Rows == 1 .. MaxRows

NoStatement == [does |-> "nothing"]
EmptyTable == [id \in {} |-> 0]

Jph2Init ==
    /\ accounts = EmptyTable /\ access = {} /\ rows = [t \in Tables |-> EmptyTable]
    /\ tokens = {} /\ doing = [w \in Workers |-> NoStatement]

Administrator == 1
Blogger == 2
HasAccess(user, types) == \E type \in types : <<user, type>> \in access

Waiting(w) == doing[w] = NoStatement
SomebodyWaits == \E w \in Workers : Waiting(w)
Does(w, what) == doing[w].does = what
Continues(w, what) == doing' = [doing EXCEPT ![w] = what]
Replies(w) == Continues(w, NoStatement)

---------------------------------------------------------------------------
(* users.cpp *)

\* create_user: All, to know whether this will be the first user.
CreateUser(w) ==
    /\ Waiting(w) /\ DOMAIN accounts # Accounts
    /\ Continues(w, [does |-> "insertUser", first |-> All(accounts) = {}])
    /\ UNCHANGED <<accounts, access, rows, tokens>>

\* Then Insert, of any columns; the database may refuse it.
InsertUser(w) ==
    /\ Does(w, "insertUser")
    /\ \/ \E id \in Accounts \ DOMAIN accounts, deleted \in BOOLEAN :
            /\ accounts' = Insert(accounts, id, [deleted |-> deleted])
            /\ IF doing[w].first
               THEN Continues(w, [does |-> "insertAccess", user |-> id])
               ELSE Replies(w)
       \/ Replies(w) /\ UNCHANGED accounts
    /\ UNCHANGED <<access, rows, tokens>>

\* And the first becomes the administrator, if a user still has its number.
InsertAccess(w) ==
    /\ Does(w, "insertAccess") /\ Replies(w)
    /\ access' = access \cup ({doing[w].user} \cap DOMAIN accounts) \X {Administrator}
    /\ UNCHANGED <<accounts, rows, tokens>>

\* login, with the right name and password.
Login(user) ==
    /\ SomebodyWaits /\ user \in Access(accounts)
    /\ tokens' = tokens \cup {user}
    /\ UNCHANGED <<accounts, access, rows, doing>>

\* A row of another table names the user, whose number then cannot change.
Referenced(user) ==
    \/ HasAccess(user, {Administrator, Blogger})
    \/ \E table \in Tables : \E id \in DOMAIN rows[table] : rows[table][id].owner_id = user

\* update_user: any column, the id as well, which is erased from json and not from
\* its values.  A refusal changes nothing, nor does the Where that follows, for a
\* new token; but arrayValues[0] of its no rows, once the user is deleted or has
\* another number, is undefined, and ends the process unless something is there.
UpdateUser(user) ==
    /\ SomebodyWaits /\ user \in tokens /\ user \in DOMAIN accounts
    /\ \E to \in Accounts, deleted \in BOOLEAN :
         /\ Free(accounts, user, to) /\ (to = user \/ ~Referenced(user))
         /\ accounts[user].deleted => deleted
         /\ accounts' = Update(accounts, user, to, [deleted |-> deleted])
    /\ UNCHANGED <<access, rows, tokens, doing>>

\* The process ends, here or anywhere, and is started again with another key.
ProcessEnds ==
    /\ tokens' = {} /\ doing' = [w \in Workers |-> NoStatement]
    /\ UNCHANGED <<accounts, access, rows>>

\* The owner of the database gives a user that has none access by hand.
Grant(user) ==
    /\ ~HasAccess(user, {Administrator, Blogger})
    /\ access' = access \cup {<<user, Blogger>>}
    /\ UNCHANGED <<accounts, rows, tokens, doing>>

---------------------------------------------------------------------------
(* threads.cpp, messages.cpp, poi.cpp *)

\* create_thread and create_message look for the user's access; create_poi does not.
MayCreate(user, table) == table = "poi" \/ HasAccess(user, {Administrator, Blogger})

CreateRow(w, user, table) ==
    /\ Waiting(w) /\ user \in tokens /\ MayCreate(user, table) /\ DOMAIN rows[table] # Rows
    /\ Continues(w, [does |-> "insert", user |-> user, table |-> table])
    /\ UNCHANGED <<accounts, access, rows, tokens>>

\* Insert, owner_id being the token's and the id perhaps the request's; the database
\* refuses it if no user has that number, or for another reason.  A row inserted as
\* deleted, which nobody finds, is left out.
InsertRow(w) ==
    /\ Does(w, "insert") /\ Replies(w)
    /\ LET user == doing[w].user
           table == doing[w].table
       IN \/ \E id \in Rows \ DOMAIN rows[table] :
               /\ user \in DOMAIN accounts
               /\ rows' = [rows EXCEPT ![table] = Insert(@, id,
                      [owner_id |-> user, deleted |-> FALSE, owners |-> {user}])]
          \/ UNCHANGED rows
    /\ UNCHANGED <<accounts, access, tokens>>

\* Mutant: any row that is found may be changed.
Found(user, table, id) == id \in All(rows[table])

\* Where id, and its owner is the user.
Owned(user, table, id) == id \in Where(rows[table], "owner_id", user)

\* update_* and delete_*: first the owner.
ChangeRow(w, user, table, id) ==
    /\ Waiting(w) /\ user \in tokens /\ Owned(user, table, id)
    /\ Continues(w, [does |-> "change", user |-> user, table |-> table, id |-> id, kept |-> TRUE])
    /\ UNCHANGED <<accounts, access, rows, tokens>>

\* Who else has found this row, and will look for it by its former number.
Finders(table, id) ==
    {w \in Workers : Does(w, "change") /\ doing[w].table = table /\ doing[w].id = id}

\* Then Delete or Update by the id alone, whatever row has it now.  Update takes any
\* columns: another owner, and another number, which other handlers do not know of;
\* one that names deleted does what Delete does.
ApplyChange(w) ==
    /\ Does(w, "change")
    /\ LET req == doing[w]
           table == rows[req.table]
           id == req.id
           Becomes(to, row) ==
               /\ rows' = [rows EXCEPT ![req.table] = Update(table, id, to, row)]
               /\ doing' = [v \in Workers |->
                     IF v = w THEN NoStatement
                     ELSE IF to # id /\ v \in Finders(req.table, id)
                          THEN [doing[v] EXCEPT !.kept = FALSE]
                          ELSE doing[v]]
       IN \/ /\ id \in DOMAIN table /\ Replies(w)
             /\ rows' = [rows EXCEPT ![req.table] = Delete(table, id)]
          \/ /\ id \in DOMAIN table
             /\ \E to \in Rows, owner \in DOMAIN accounts :
                  /\ Free(table, id, to)
                  /\ Becomes(to, [table[id] EXCEPT !.owner_id = owner, !.owners = @ \cup {owner}])
          \/ Replies(w) /\ UNCHANGED rows
    /\ UNCHANGED <<accounts, access, tokens>>

\* Keeps the bound MaxMarked.
WithinMarked ==
    Cardinality({u \in DOMAIN accounts : accounts[u].deleted \/ <<u, Blogger>> \in access}) <= MaxMarked

Jph2Next ==
    /\ \/ \E w \in Workers : CreateUser(w) \/ InsertUser(w) \/ InsertAccess(w) \/ InsertRow(w) \/ ApplyChange(w)
       \/ \E w \in Workers, user \in tokens, table \in Tables :
            CreateRow(w, user, table) \/ \E id \in DOMAIN rows[table] : ChangeRow(w, user, table, id)
       \/ \E user \in tokens : UpdateUser(user)
       \/ \E user \in DOMAIN accounts : Login(user) \/ Grant(user)
       \/ ProcessEnds
    /\ WithinMarked'

---------------------------------------------------------------------------

Administrators == {user \in DOMAIN accounts : HasAccess(user, {Administrator})}

\* Every variable holds a value of its type; every row belongs to a user.
Jph2TypeOK ==
    /\ DOMAIN accounts \subseteq Accounts
    /\ \A id \in DOMAIN accounts : accounts[id] \in [deleted : BOOLEAN]
    /\ access \subseteq (DOMAIN accounts) \X {Administrator, Blogger}
    /\ \A table \in Tables : /\ DOMAIN rows[table] \subseteq Rows
                             /\ \A id \in DOMAIN rows[table] :
                                  /\ rows[table][id].owner_id \in DOMAIN accounts
                                  /\ rows[table][id].owner_id \in rows[table][id].owners
                                  /\ rows[table][id].owners \subseteq Accounts
    /\ tokens \subseteq Accounts

\* However the handlers' statements interleave: a row that keeps the number it was
\* found by is changed or deleted only by a user it has belonged to; a thread or a
\* message is there only because somebody with access made it, who still has it and
\* the same number; and unless a user was deleted there are never more
\* administrators than threads, although several may create the first user at once
\* and a user may take the number of another.
OwnersKept ==
    /\ \A w \in Workers : Does(w, "change") /\ doing[w].kept =>
         LET table == rows[doing[w].table]
         IN doing[w].id \in DOMAIN table /\ doing[w].user \in table[doing[w].id].owners
    /\ \A table \in Tables : \A id \in DOMAIN rows[table] :
         \E user \in rows[table][id].owners : MayCreate(user, table)
    /\ (\A id \in DOMAIN accounts : ~accounts[id].deleted)
         => Cardinality(Administrators) <= Cardinality(Workers)
=============================================================================
