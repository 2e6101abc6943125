------------------------------ MODULE Accounts ------------------------------
(***************************************************************************)
(* Users, their login sessions and their roles: services/user.py,          *)
(* services/role.py and the token check of deps/auth.py.  A call checks    *)
(* what it needs in one step and commits in a later one; two calls         *)
(* interleave between the two.  The table of roles has a unique index on   *)
(* the code, the table of users has none on the name.                      *)
(***************************************************************************)
EXTENDS Naturals, FiniteSets

CONSTANTS
    User, Role,     \* row ids
    NoId,           \* 0, the id of no row
    Admin,          \* the administrator's user id
    AdminRole, DefaultRole,     \* the ids of the two roles made at start-up
    Name, Code,     \* user names and role codes, "admin" among both
    Perm,           \* permission codes
    Client,         \* concurrent API calls
    MaxAccountCall  \* bound on calls

ASSUME AccountsAssumption ==
    /\ Admin \in User /\ {AdminRole, DefaultRole} \subseteq Role
    /\ "admin" \in Name /\ {"admin", "user"} \subseteq Code
    /\ {"unused", "gone"} \cap (Name \cup Code) = {}      \* the marks of NoUser and GoneUser
    /\ NoId \notin User \cup Role
    /\ MaxAccountCall \in Nat

VARIABLES
    users,      \* rows: name, role, and a counter standing for the password
    roles,      \* rows: code, builtin, and the permission rows
    sessions,   \* session rows: user, the password verified, and whether it
                \* changed between that check and the insert
    client,     \* the calls under way, with what they read
    accountCalls

accountVars == <<users, roles, sessions, client, accountCalls>>

NoUser == [name |-> "unused", role |-> NoId, password |-> 0]
NoRole == [code |-> "unused", builtin |-> FALSE, perms |-> {}]
GoneUser == [NoUser EXCEPT !.name = "gone"]     \* ids are never used again
GoneRole == [NoRole EXCEPT !.code = "gone"]
UserRow == [name: Name, role: Role \cup {NoId}, password: 0..MaxAccountCall]
RoleRow == [code: Code, builtin: BOOLEAN, perms: SUBSET Perm]

UserOps == {"add_user", "update_user", "delete_user", "login", "update_password"}
RoleOps == {"add_role", "grant_new", "update_role", "delete_role", "update_permissions"}

\* `old` is the row as the call read it, `new` what it is about to commit.
UserCall == [op: UserOps, id: User \cup {NoId}, old: UserRow \cup {NoUser}, new: UserRow]
RoleCall == [op: RoleOps, id: Role \cup {NoId}, old: RoleRow \cup {NoRole}, new: RoleRow]
Resting == [op |-> "none"]

AccountsTypeOK ==
    /\ users \in [User -> UserRow \cup {NoUser, GoneUser}]
    /\ roles \in [Role -> RoleRow \cup {NoRole, GoneRole}]
    /\ sessions \subseteq [user: User, password: 0..MaxAccountCall, late: BOOLEAN]
    /\ client \in [Client -> UserCall \cup RoleCall \cup {Resting}]
    /\ accountCalls \in 0..MaxAccountCall

Users == {u \in User : users[u] \notin {NoUser, GoneUser}}
Roles == {r \in Role : roles[r] \notin {NoRole, GoneRole}}
NameTaken(n, u) == \E v \in Users \ {u} : users[v].name = n
CodeTaken(c, r) == \E q \in Roles \ {r} : roles[q].code = c

\* ensure_admin_user has run: both built-in roles exist.
AccountsInit ==
    /\ users = [u \in User |->
                   IF u = Admin THEN [name |-> "admin", role |-> AdminRole, password |-> 0]
                   ELSE NoUser]
    /\ roles = [r \in Role |->
                   CASE r = AdminRole -> [code |-> "admin", builtin |-> TRUE, perms |-> Perm]
                     [] r = DefaultRole -> [code |-> "user", builtin |-> TRUE, perms |-> {}]
                     [] OTHER -> NoRole]
    /\ sessions = {}
    /\ client = [c \in Client |-> Resting]
    /\ accountCalls = 0

\* A call that passed its checks waits for its commit.
Checked(c, call) ==
    /\ client[c] = Resting
    /\ accountCalls < MaxAccountCall
    /\ accountCalls' = accountCalls + 1
    /\ client' = [client EXCEPT ![c] = call]
    /\ UNCHANGED <<users, roles, sessions>>

Returned(c) == client' = [client EXCEPT ![c] = Resting] /\ UNCHANGED accountCalls
Doing(c, op) == client[c].op = op

-----------------------------------------------------------------------------
(* The checks of each call: a check that fails changes nothing.             *)

CheckUser(c) ==
    \/ \E n \in Name, r \in Roles :
        /\ ~NameTaken(n, NoId)
        /\ Checked(c, [op |-> "add_user", id |-> NoId, old |-> NoUser,
                       new |-> [name |-> n, role |-> r, password |-> 0]])
    \/ \E u \in Users :
        \/ \E n \in Name, r \in Roles \cup {users[u].role} :
            /\ ~NameTaken(n, u)
            /\ Checked(c, [op |-> "update_user", id |-> u, old |-> users[u],
                           new |-> [users[u] EXCEPT !.name = n, !.role = r]])
        \/ /\ users[u].name # "admin"
           /\ Checked(c, [op |-> "delete_user", id |-> u, old |-> users[u], new |-> users[u]])
        \/ \E op \in {"login", "update_password"} :
            Checked(c, [op |-> op, id |-> u, old |-> users[u], new |-> users[u]])

CheckRole(c) ==
    \/ \E code \in Code, perms \in SUBSET Perm :
        /\ ~CodeTaken(code, NoId)
        /\ Checked(c, [op |-> "add_role", id |-> NoId, old |-> NoRole,
                       new |-> [code |-> code, builtin |-> FALSE, perms |-> perms]])
    \/ \E r \in Roles :
        /\ roles[r].code # "admin"
        /\ \/ \E code \in Code, perms \in SUBSET Perm :
                /\ ~CodeTaken(code, r)
                /\ Checked(c, [op |-> "update_role", id |-> r, old |-> roles[r],
                               new |-> [roles[r] EXCEPT !.code = code, !.perms = perms]])
           \/ /\ ~roles[r].builtin
              /\ \A u \in Users : users[u].role # r
              /\ Checked(c, [op |-> "delete_role", id |-> r, old |-> roles[r], new |-> roles[r]])
           \/ \E perms \in SUBSET Perm :
                Checked(c, [op |-> "update_permissions", id |-> r, old |-> roles[r],
                            new |-> [roles[r] EXCEPT !.perms = perms]])

-----------------------------------------------------------------------------
(* The commits *)

\* Columns that the call did not change stay as they are by now.
Merge(row, old, new) == [f \in DOMAIN new |-> IF new[f] = old[f] THEN row[f] ELSE new[f]]

AddUser(c) ==
    /\ Doing(c, "add_user")
    /\ \E u \in User :
        /\ users[u] = NoUser
        /\ users' = [users EXCEPT ![u] = client[c].new]
    /\ Returned(c)
    /\ UNCHANGED <<roles, sessions>>

UpdateUser(c) ==
    LET u == client[c].id IN
    /\ Doing(c, "update_user")
    /\ users' = IF u \in Users
                THEN [users EXCEPT ![u] = Merge(@, client[c].old, client[c].new)]
                ELSE users
    /\ Returned(c)
    /\ UNCHANGED <<roles, sessions>>

\* The sessions of a deleted user stay; the token check finds no user for them.
DeleteUser(c) ==
    /\ Doing(c, "delete_user")
    /\ users' = [users EXCEPT ![client[c].id] = GoneUser]
    /\ Returned(c)
    /\ UNCHANGED <<roles, sessions>>

\* login: the password was verified against the row as read.
Login(c) ==
    LET u == client[c].id IN
    /\ Doing(c, "login")
    /\ sessions' = IF u \in Users
                   THEN sessions \cup {[user |-> u, password |-> client[c].old.password,
                                        late |-> users[u].password # client[c].old.password]}
                   ELSE sessions
    /\ Returned(c)
    /\ UNCHANGED <<users, roles>>

\* Fault: the sessions opened with the old password stay.
UpdatePasswordOnly(c) ==
    LET u == client[c].id IN
    /\ Doing(c, "update_password")
    /\ users' = IF u \in Users THEN [users EXCEPT ![u] = [@ EXCEPT !.password = accountCalls]] ELSE users
    /\ Returned(c)
    /\ UNCHANGED <<roles, sessions>>

\* The new password and the end of all sessions of the user are one commit.
UpdatePassword(c) ==
    LET u == client[c].id IN
    /\ Doing(c, "update_password")
    /\ IF u \in Users
       THEN /\ users' = [users EXCEPT ![u] = [@ EXCEPT !.password = accountCalls]]
            /\ sessions' = {s \in sessions : s.user # u}
       ELSE UNCHANGED <<users, sessions>>
    /\ Returned(c)
    /\ UNCHANGED roles

\* Two commits: the role, refused by the index when its code is taken by now,
\* and its permissions, refused when one of them is unknown.
InsertRole(c) ==
    /\ Doing(c, "add_role")
    /\ \/ /\ CodeTaken(client[c].new.code, NoId)
          /\ Returned(c)
          /\ UNCHANGED roles
       \/ /\ ~CodeTaken(client[c].new.code, NoId)
          /\ \E r \in Role :
                /\ roles[r] = NoRole
                /\ roles' = [roles EXCEPT ![r] = [client[c].new EXCEPT !.perms = {}]]
                /\ client' = [client EXCEPT ![c] = [@ EXCEPT !.op = "grant_new", !.id = r]]
          /\ UNCHANGED accountCalls
    /\ UNCHANGED <<users, sessions>>

GrantNewRole(c) ==
    LET r == client[c].id IN
    /\ Doing(c, "grant_new")
    /\ \E perms \in {{}, client[c].new.perms} :
        roles' = IF r \in Roles THEN [roles EXCEPT ![r] = [@ EXCEPT !.perms = perms]] ELSE roles
    /\ Returned(c)
    /\ UNCHANGED <<users, sessions>>

\* The permissions are replaced only when the request names them.
UpdateRole(c) ==
    LET r == client[c].id
        old == client[c].old
        new == client[c].new
    IN
    /\ Doing(c, "update_role")
    /\ IF r \notin Roles \/ (new.code # old.code /\ CodeTaken(new.code, r))
       THEN UNCHANGED roles
       ELSE \E perms \in {new.perms, roles[r].perms} :
                roles' = [roles EXCEPT ![r] = [Merge(@, old, new) EXCEPT !.perms = perms]]
    /\ Returned(c)
    /\ UNCHANGED <<users, sessions>>

UpdatePermissions(c) ==
    LET r == client[c].id IN
    /\ Doing(c, "update_permissions")
    /\ roles' = IF r \in Roles THEN [roles EXCEPT ![r] = [@ EXCEPT !.perms = client[c].new.perms]] ELSE roles
    /\ Returned(c)
    /\ UNCHANGED <<users, sessions>>

DeleteRole(c) ==
    /\ Doing(c, "delete_role")
    /\ roles' = [roles EXCEPT ![client[c].id] = GoneRole]
    /\ Returned(c)
    /\ UNCHANGED <<users, sessions>>

AccountsNext ==
    \E c \in Client :
        \/ CheckUser(c)
        \/ CheckRole(c)
        \/ AddUser(c)
        \/ UpdateUser(c)
        \/ DeleteUser(c)
        \/ Login(c)
        \/ UpdatePassword(c)
        \/ InsertRole(c)
        \/ GrantNewRole(c)
        \/ UpdateRole(c)
        \/ UpdatePermissions(c)
        \/ DeleteRole(c)

AccountsSpec == AccountsInit /\ [][AccountsNext]_accountVars

-----------------------------------------------------------------------------
(* Properties *)

\* get_current_user_dep: the users a session row still authenticates.
Authenticates(s) == s.user \in Users

\* A session opened with an earlier password does not outlive the change,
\* save when the login was under way while the password changed.
SessionsFollowPassword ==
    \A s \in sessions :
        Authenticates(s) => s.password = users[s.user].password \/ s.late
=============================================================================
