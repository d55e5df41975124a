------------------------------- MODULE Users -------------------------------
(***************************************************************************)
(* The user table of kernel/users.c and the commands that change it:       *)
(* useradd, userdel, login and logout (progs/).  A user is a slot of the   *)
(* table, the session is the index of one, and a slot is reused as soon as *)
(* its user is deleted.                                                    *)
(***************************************************************************)
EXTENDS Integers, FiniteSets

CONSTANTS
    NumUsers,       \* USER_MAX_COUNT
    UserNames,      \* the names users may have, "root" and "guest" among them
    BadName,        \* any name users_add refuses: empty, or too long
    NoName          \* stands for an argument left out

ASSUME NumUsersAssumption == NumUsers \in Nat /\ NumUsers >= 2
ASSUME UserNamesAssumption ==
    {"root", "guest"} \subseteq UserNames /\ BadName \notin UserNames
        /\ "" \notin UserNames /\ NoName \notin UserNames /\ NoName # BadName

VARIABLES
    users,          \* the table
    current_user,   \* the slot of the session's user
    began,          \* how the session began: "boot", "login" or "logout"
    outcome         \* what the last command answered

vars == <<users, current_user, began, outcome>>

Slots == 0 .. NumUsers - 1

User == [active : BOOLEAN, admin : BOOLEAN, name : UserNames \cup {""}]

Nobody == [active |-> FALSE, admin |-> FALSE, name |-> ""]

Account(n, admin) == [active |-> TRUE, admin |-> admin, name |-> n]

Outcomes == {"ok", "not admin", "usage", "invalid", "exists", "full",
             "protected", "in use", "not found"}

Init ==
    /\ users = [i \in Slots |-> CASE i = 0 -> Account("root", TRUE)
                                  [] i = 1 -> Account("guest", FALSE)
                                  [] OTHER -> Nobody]
    /\ current_user = 0
    /\ began = "boot"
    /\ outcome = "ok"

HasName(i, n) == users[i].active /\ users[i].name = n

\* i is the slot find_user returns for n.
Finds(i, n) == HasName(i, n) /\ \A k \in Slots : k < i => ~HasName(k, n)

\* Mutant of Known: the search starts after the root's slot.
KnownAfterRoot(n) == \E i \in Slots \ {0} : HasName(i, n)

Known(n) == \E i \in Slots : HasName(i, n)

\* Mutant of ValidName: the length is not checked.
AnyName(n) == TRUE

ValidName(n) == n # BadName

\* i is the slot users_add takes, the first that is not active.
FirstFree(i) ==
    ~users[i].active /\ \A k \in Slots : k < i => users[k].active

\* Mutant of CurrentIsAdmin: the commands do not ask.
AnybodyIsAdmin == TRUE

CurrentIsAdmin == users[current_user].admin

Answer(a) == outcome' = a /\ UNCHANGED <<users, current_user, began>>

UserAdd(n, admin) ==
    \/ ~CurrentIsAdmin /\ Answer("not admin")
    \/ CurrentIsAdmin /\ n = NoName /\ Answer("usage")
    \/ /\ CurrentIsAdmin /\ n # NoName
       /\ \/ ~ValidName(n) /\ Answer("invalid")
          \/ ValidName(n) /\ Known(n) /\ Answer("exists")
          \/ /\ ValidName(n) /\ ~Known(n)
             /\ \A i \in Slots : users[i].active
             /\ Answer("full")
          \/ \E i \in Slots :
                /\ ValidName(n) /\ ~Known(n) /\ FirstFree(i)
                /\ users' = [users EXCEPT ![i] = Account(n, admin)]
                /\ outcome' = "ok"
                /\ UNCHANGED <<current_user, began>>

\* Mutant of Protected: slot 0 is like any other.
NoneProtected(i) == FALSE

Protected(i) == i = 0

\* Mutant of InSession: the session is not looked at.
NeverInSession(i) == FALSE

InSession(i) == i = current_user

\* Mutant of Removed: only the active flag is cleared.
OnlyInactive(u) == [u EXCEPT !.active = FALSE]

Removed(u) == Nobody

UserDel(n) ==
    \/ ~CurrentIsAdmin /\ Answer("not admin")
    \/ CurrentIsAdmin /\ n = NoName /\ Answer("usage")
    \/ /\ CurrentIsAdmin /\ n # NoName
       /\ ~\E i \in Slots : Finds(i, n) /\ ~Protected(i)
       /\ Answer("protected")
    \/ /\ CurrentIsAdmin
       /\ \E i \in Slots :
             /\ Finds(i, n) /\ ~Protected(i)
             /\ \/ InSession(i) /\ Answer("in use")
                \/ /\ ~InSession(i)
                   /\ users' = [users EXCEPT ![i] = Removed(@)]
                   /\ outcome' = "ok"
                   /\ UNCHANGED <<current_user, began>>

\* Any user may log in as any other: there are no passwords.
Login(n) ==
    \/ n = NoName /\ Answer("usage")
    \/ n # NoName /\ ~Known(n) /\ Answer("not found")
    \/ \E i \in Slots :
          /\ Finds(i, n)
          /\ current_user' = i
          /\ began' = "login"
          /\ outcome' = "ok"
          /\ UNCHANGED users

\* The slot that was the guest's at boot, whoever has it now.
Logout ==
    /\ current_user' = 1
    /\ began' = "logout"
    /\ outcome' = "ok"
    /\ UNCHANGED users

Next ==
    \/ \E n \in UserNames \cup {BadName, NoName} :
          \/ \E admin \in BOOLEAN : UserAdd(n, admin)
          \/ UserDel(n)
          \/ Login(n)
    \/ Logout

Spec == Init /\ [][Next]_vars

-----------------------------------------------------------------------------
(***************************************************************************)
(* The users command: it asks users_get for index 0, 1, ... up to          *)
(* users_count, prints the name of each, and marks as current the one that *)
(* has the name of the session's user.                                     *)
(***************************************************************************)
users_count == Cardinality({i \in Slots : users[i].active})

\* Mutant of Gets: the index is taken for the slot.
GetsSlot(k, i) == users[i].active /\ i = k

\* i is the slot users_get finds for index k: k active ones come before it.
Gets(k, i) ==
    users[i].active /\ Cardinality({j \in 0 .. i - 1 : users[j].active}) = k

\* The indices the command asks for, each a line of what it prints.
Indices == 0 .. users_count - 1

Marked(i) == users[i].name = users[current_user].name

-----------------------------------------------------------------------------
(***************************************************************************)
(* What must hold.                                                         *)
(***************************************************************************)

\* The table, the session and the answers have the shapes the code gives them.
TypeOK ==
    /\ users \in [Slots -> User]
    /\ current_user \in Slots
    /\ began \in {"boot", "login", "logout"}
    /\ outcome \in Outcomes

\* root keeps its slot, its name and its rights whatever is added and deleted:
\* the machine can always be administered, by a login as root.
RootStays == users[0] = Account("root", TRUE)

\* A name belongs to one user, although slots are freed and reused in any
\* order: userdel and login mean the user they name.
NamesUnique ==
    \A i, j \in Slots :
        users[i].active /\ users[j].active /\ users[i].name = users[j].name
            => i = j

\* The session is somebody's, or it is the one a logout left on the guest's
\* slot after the guest was deleted.
SessionHasUser ==
    users[current_user].active \/ (current_user = 1 /\ began = "logout")

\* A session that is nobody's, because its slot was freed, has no rights: were
\* it an admin's it could add a user into its own slot and become that user.
NobodyHasNoRights ==
    ~users[current_user].active => ~users[current_user].admin

\* useradd and userdel never change who the session's user is or what it may
\* do, even when they free and reuse slots: only login and logout do.
SessionStable ==
    [][users' # users => /\ users'[current_user] = users[current_user]
                         /\ current_user' = current_user]_vars

\* The users command prints one line for each user and none besides, and marks
\* the session's user only, although the table has gaps, the lines are found by
\* counting and the mark goes by name: no index is without an answer, every
\* active user has a line, no name has two, and a session that lost its user
\* is on none.
ListsEveryUser ==
    /\ \A k \in Indices : \E i \in Slots : Gets(k, i)
    /\ \A i \in Slots : users[i].active => \E k \in Indices : Gets(k, i)
    /\ \A k, l \in Indices : \A i, j \in Slots :
          Gets(k, i) /\ Gets(l, j) /\ users[i].name = users[j].name => k = l
    /\ \A k \in Indices : \A i \in Slots :
          Gets(k, i) => (Marked(i) <=> i = current_user)

\* "return to guest" (progs/programs.c:62): after logout the session is the
\* guest's.
LogoutReturnsToGuest ==
    began = "logout" => HasName(current_user, "guest")
=============================================================================
