---------------------------- MODULE UsersProofs ----------------------------
(***************************************************************************)
(* Theorems about Users, for a table of any size and any names.            *)
(***************************************************************************)
EXTENDS Users, FiniteSetTheorems, WellFoundedInduction, TLAPS

\* A slot that is not active has no rights and no name, as users_remove leaves
\* it.  That, and not the check in useradd alone, is why a session that lost
\* its user can do nothing.
FreeSlotsBlank == \A i \in Slots : ~users[i].active => users[i] = Nobody

\* An active user has a name, so that the blank name of a session that lost its
\* user is nobody's.
UsersNamed == \A i \in Slots : users[i].active => users[i].name # ""

IInv == /\ TypeOK /\ RootStays /\ NamesUnique /\ SessionHasUser
        /\ FreeSlotsBlank /\ UsersNamed

\* The slots of root and guest exist.
LEMMA SlotsFacts == 0 \in Slots /\ 1 \in Slots
BY NumUsersAssumption DEF Slots

\* What a free slot and a new account are.
LEMMA Rights ==
  /\ ~Nobody.active /\ ~Nobody.admin
  /\ \A n, a : Account(n, a).active /\ Account(n, a).name = n
BY DEF Nobody, Account

\* The invariant holds after users_init.
LEMMA InitIInv == Init => IInv
<1> SUFFICES ASSUME Init PROVE IInv
  OBVIOUS
<1>1. /\ users[0] = Account("root", TRUE) /\ users[1] = Account("guest", FALSE)
      /\ \A i \in Slots \ {0, 1} : users[i] = Nobody
  <2>1. users[0] = Account("root", TRUE)
    BY SlotsFacts DEF Init
  <2>2. users[1] = Account("guest", FALSE)
    BY SlotsFacts DEF Init
  <2>3. \A i \in Slots \ {0, 1} : users[i] = Nobody
    BY DEF Init
  <2> QED BY <2>1, <2>2, <2>3
<1>2. Account("root", TRUE) \in User /\ Account("guest", FALSE) \in User
      /\ Nobody \in User
  BY UserNamesAssumption DEF Account, Nobody, User
<1>3. users \in [Slots -> User]
  BY <1>1, <1>2 DEF Init
<1>4. TypeOK
  BY <1>3, SlotsFacts DEF Init, TypeOK, Outcomes
<1>5. RootStays /\ FreeSlotsBlank
  <2>1. ASSUME NEW i \in Slots, ~users[i].active PROVE i \notin {0, 1}
    <3>1. Account("root", TRUE).active /\ Account("guest", FALSE).active
      BY Rights, Zenon
    <3> QED BY <1>1, <2>1, <3>1, Zenon
  <2>2. RootStays
    BY <1>1 DEF RootStays
  <2>3. FreeSlotsBlank
    BY <1>1, <2>1, Zenon DEF FreeSlotsBlank
  <2> QED BY <2>2, <2>3
<1>6. NamesUnique /\ UsersNamed
  <2>1. \A i \in Slots : users[i].active => i \in {0, 1}
    BY <1>1, Rights
  <2>2. users[0].name = "root" /\ users[1].name = "guest"
    <3>1. /\ Account("root", TRUE).name = "root"
          /\ Account("guest", FALSE).name = "guest"
      BY DEF Account
    <3> QED BY <1>1, <3>1, Zenon
  <2> QED BY <2>1, <2>2 DEF NamesUnique, UsersNamed
<1>7. SessionHasUser
  BY <1>1 DEF Init, SessionHasUser, Account
<1> QED BY <1>4, <1>5, <1>6, <1>7 DEF IInv

\* A command that changes nothing preserves the invariant.
LEMMA AnswerIInv ==
  ASSUME IInv, NEW a \in Outcomes, Answer(a)
  PROVE  IInv'
<1>1. UNCHANGED <<users, current_user, began>> /\ outcome' \in Outcomes
  BY DEF Answer
<1> QED BY <1>1 DEF IInv, TypeOK, RootStays, NamesUnique, SessionHasUser,
                    FreeSlotsBlank, UsersNamed

\* useradd preserves the invariant: a session that may add has an active slot,
\* so the slot it fills is another one.
LEMMA AddIInv ==
  ASSUME IInv, NEW n \in UserNames \cup {BadName, NoName},
         NEW admin \in BOOLEAN, UserAdd(n, admin)
  PROVE  /\ IInv'
         /\ users' # users => users'[current_user] = users[current_user]
<1>1. ASSUME NEW a \in Outcomes, Answer(a)
      PROVE  IInv' /\ users' = users
  BY <1>1, AnswerIInv DEF Answer
<1>2. ASSUME CurrentIsAdmin, n # NoName, ValidName(n), ~Known(n), NEW i \in Slots, FirstFree(i),
             users' = [users EXCEPT ![i] = Account(n, admin)],
             outcome' = "ok", UNCHANGED <<current_user, began>>
      PROVE  IInv' /\ users'[current_user] = users[current_user]
  <2> DEFINE new == Account(n, admin)
  <2>1. /\ new \in User /\ new.active /\ new.name = n /\ n # ""
    BY <1>2, UserNamesAssumption DEF ValidName, Account, User
  <2>2. /\ users \in [Slots -> User] /\ current_user \in Slots
        /\ ~users[i].active /\ i # 0
    BY <1>2 DEF IInv, TypeOK, RootStays, FirstFree, Account
  <2>3. /\ users'[i] = new
        /\ \A k \in Slots : k # i => users'[k] = users[k]
    BY <1>2, <2>2
  <2>4. users[current_user].active
    BY <1>2, <2>2, Rights DEF IInv, FreeSlotsBlank, CurrentIsAdmin
  <2>5. current_user # i /\ users'[current_user] = users[current_user]
    BY <2>2, <2>3, <2>4
  <2> HIDE DEF new
  <2>6. TypeOK'
    BY <1>2, <2>1, <2>2 DEF IInv, TypeOK, Outcomes, new
  <2>7. RootStays'
    BY <2>2, <2>3, SlotsFacts DEF IInv, RootStays
  <2>8. NamesUnique'
    <3>1. \A k \in Slots : users[k].active => users[k].name # n
      BY <1>2 DEF Known, HasName
    <3> QED BY <2>1, <2>3, <3>1 DEF IInv, NamesUnique
  <2>9. SessionHasUser'
    BY <1>2, <2>4, <2>5 DEF SessionHasUser
  <2>10. FreeSlotsBlank' /\ UsersNamed'
    BY <2>1, <2>3 DEF IInv, FreeSlotsBlank, UsersNamed
  <2> QED BY <2>5, <2>6, <2>7, <2>8, <2>9, <2>10 DEF IInv
<1> QED BY <1>1, <1>2 DEF UserAdd, Outcomes

\* userdel preserves the invariant: it empties neither slot 0 nor the session's.
LEMMA DelIInv ==
  ASSUME IInv, NEW n \in UserNames \cup {BadName, NoName}, UserDel(n)
  PROVE  /\ IInv'
         /\ users' # users => users'[current_user] = users[current_user]
<1>1. ASSUME NEW a \in Outcomes, Answer(a)
      PROVE  IInv' /\ users' = users
  BY <1>1, AnswerIInv DEF Answer
<1>2. ASSUME NEW i \in Slots, ~Protected(i), ~InSession(i),
             users' = [users EXCEPT ![i] = Removed(@)],
             outcome' = "ok", UNCHANGED <<current_user, began>>
      PROVE  IInv' /\ users'[current_user] = users[current_user]
  <2>1. Nobody \in User /\ ~Nobody.active
    BY DEF Nobody, User
  <2>2. /\ users \in [Slots -> User] /\ current_user \in Slots
        /\ i # 0 /\ i # current_user
    BY <1>2 DEF IInv, TypeOK, Protected, InSession
  <2>3. /\ users'[i] = Nobody
        /\ \A k \in Slots : k # i => users'[k] = users[k]
    BY <1>2, <2>2 DEF Removed
  <2>4. users'[current_user] = users[current_user]
    BY <1>2, <2>2, <2>3
  <2>5. TypeOK'
    BY <1>2, <2>1, <2>2 DEF Removed, IInv, TypeOK, Outcomes
  <2>6. RootStays'
    BY <2>2, <2>3, SlotsFacts DEF IInv, RootStays
  <2>7. NamesUnique'
    BY <2>1, <2>3 DEF IInv, NamesUnique
  <2>8. SessionHasUser'
    BY <1>2, <2>4 DEF IInv, SessionHasUser
  <2>9. FreeSlotsBlank' /\ UsersNamed'
    BY <2>1, <2>3 DEF IInv, FreeSlotsBlank, UsersNamed
  <2> QED BY <2>4, <2>5, <2>6, <2>7, <2>8, <2>9 DEF IInv
<1> QED BY <1>1, <1>2 DEF UserDel, Outcomes

\* login preserves the invariant.
LEMMA LoginIInv ==
  ASSUME IInv, NEW n, Login(n)
  PROVE  IInv' /\ users' = users
<1>1. ASSUME NEW a \in Outcomes, Answer(a)
      PROVE  IInv' /\ users' = users
  BY <1>1, AnswerIInv DEF Answer
<1>2. ASSUME NEW i \in Slots, Finds(i, n), current_user' = i, began' = "login",
             outcome' = "ok", UNCHANGED users
      PROVE  IInv' /\ users' = users
  BY <1>2 DEF IInv, TypeOK, RootStays, NamesUnique, SessionHasUser,
              FreeSlotsBlank, UsersNamed, Finds, HasName, Outcomes
<1> QED BY <1>1, <1>2 DEF Login, Outcomes

\* logout preserves the invariant, whoever has slot 1.
LEMMA LogoutIInv ==
  ASSUME IInv, Logout
  PROVE  IInv' /\ users' = users
BY SlotsFacts DEF Logout, IInv, TypeOK, RootStays, NamesUnique, SessionHasUser,
                  FreeSlotsBlank, UsersNamed, Outcomes

\* Every step preserves the invariant and leaves the session's user as it is.
LEMMA NextIInv ==
  ASSUME IInv, [Next]_vars
  PROVE  /\ IInv'
         /\ users' # users => /\ users'[current_user] = users[current_user]
                              /\ current_user' = current_user
<1>1. ASSUME NEW n \in UserNames \cup {BadName, NoName}, NEW admin \in BOOLEAN,
             UserAdd(n, admin)
      PROVE  /\ IInv'
             /\ users' # users => /\ users'[current_user] = users[current_user]
                                  /\ current_user' = current_user
  <2>1. current_user' = current_user
    BY <1>1 DEF UserAdd, Answer
  <2> QED BY <1>1, <2>1, AddIInv
<1>2. ASSUME NEW n \in UserNames \cup {BadName, NoName}, UserDel(n)
      PROVE  /\ IInv'
             /\ users' # users => /\ users'[current_user] = users[current_user]
                                  /\ current_user' = current_user
  <2>1. current_user' = current_user
    BY <1>2 DEF UserDel, Answer
  <2> QED BY <1>2, <2>1, DelIInv
<1>3. ASSUME NEW n, Login(n) PROVE IInv' /\ users' = users
  BY <1>3, LoginIInv
<1>4. CASE Logout
  BY <1>4, LogoutIInv
<1>5. CASE UNCHANGED vars
  BY <1>5 DEF vars, IInv, TypeOK, RootStays, NamesUnique, SessionHasUser,
              FreeSlotsBlank, UsersNamed
<1> QED BY <1>1, <1>2, <1>3, <1>4, <1>5 DEF Next

-----------------------------------------------------------------------------
(***************************************************************************)
(* The users command.                                                      *)
(***************************************************************************)
\* A set of numbers that is not empty has a least one.
LEMMA LeastNumber ==
  ASSUME NEW T, T \subseteq Nat, T # {}
  PROVE  \E m \in T : \A n \in T : m <= n
<1> DEFINE R == OpToRel(<, Nat)
<1>1. PICK m \in T : \A n \in T : ~(<<n, m>> \in R)
  <2>1. IsWellFoundedOn(R, Nat)
    BY NatLessThanWellFounded
  <2> HIDE DEF R
  <2> QED BY <2>1, WFMin
<1>2. R = {ss \in Nat \X Nat : ss[1] < ss[2]}
  BY Zenon DEF OpToRel
<1> HIDE DEF R
<1>3. ASSUME NEW n \in T PROVE m <= n
  <2>1. m \in Nat /\ n \in Nat /\ ~(<<n, m>> \in R)
    BY <1>1
  <2>2. ~(n < m)
    BY <1>2, <2>1
  <2> QED BY <2>1, <2>2
<1> QED BY <1>3

\* The active users in the first i slots, and how many they are.
Actives(i) == {j \in 0 .. i - 1 : users[j].active}
Count(i)   == Cardinality(Actives(i))

\* A slot more counts one more if it is active.
LEMMA CountStep ==
  ASSUME NEW i \in Nat
  PROVE  /\ Count(i) \in Nat /\ IsFiniteSet(Actives(i))
         /\ Count(i + 1) = IF users[i].active THEN Count(i) + 1 ELSE Count(i)
<1> DEFINE A == Actives(i)
           B == Actives(i + 1)
<1>1. IsFiniteSet(A)
  <2>1. IsFiniteSet(0 .. i - 1)
    BY FS_Interval
  <2> QED BY <2>1, FS_Subset DEF Actives
<1>2. \A j : j \in 0 .. (i + 1) - 1 <=> j \in 0 .. i - 1 \/ j = i
  OBVIOUS
<1>3. i \notin A /\ B = IF users[i].active THEN A \cup {i} ELSE A
  BY <1>2 DEF Actives
<1> HIDE DEF A, B
<1>4. /\ Cardinality(A) \in Nat
      /\ Cardinality(B) = IF users[i].active THEN Cardinality(A) + 1 ELSE Cardinality(A)
  BY <1>1, <1>3, FS_CardinalityType, FS_AddElement
<1> QED BY <1>1, <1>4 DEF A, B, Count

\* The count over all slots is users_count, and over none it is 0.
LEMMA CountEnds == Count(0) = 0 /\ users_count = Count(NumUsers) /\ users_count \in Nat
<1>1. Actives(0) = {}
  BY DEF Actives
<1>2. Count(0) = 0
  BY <1>1, FS_EmptySet DEF Count
<1>3. users_count = Count(NumUsers)
  BY DEF users_count, Count, Actives, Slots
<1> QED BY <1>2, <1>3, CountStep, NumUsersAssumption

\* The active users before an active one are fewer than all of them, so its
\* index is one that the users command asks for.
LEMMA IndexBelowCount ==
  ASSUME NEW i \in Slots, users[i].active
  PROVE  \E k \in Indices : Gets(k, i)
<1> DEFINE A == {j \in Slots : users[j].active}
           B == {j \in 0 .. i - 1 : users[j].active}
<1>1. i \in Int /\ 0 <= i /\ \A j \in 0 .. i - 1 : j \in Slots /\ j # i
  BY NumUsersAssumption DEF Slots
<1>2. IsFiniteSet(A)
  <2>1. IsFiniteSet(Slots)
    BY NumUsersAssumption, FS_Interval DEF Slots
  <2> QED BY <2>1, FS_Subset
<1>3. B \subseteq A \ {i} /\ i \in A
  BY <1>1
<1> HIDE DEF A, B
<1>4. /\ IsFiniteSet(A \ {i}) /\ Cardinality(A \ {i}) = Cardinality(A) - 1
  BY <1>2, <1>3, FS_RemoveElement
<1>5. IsFiniteSet(B) /\ Cardinality(B) <= Cardinality(A) - 1
  BY <1>3, <1>4, FS_Subset
<1>6. Cardinality(A) \in Nat /\ Cardinality(B) \in Nat
  BY <1>2, <1>5, FS_CardinalityType
<1>7. Cardinality(B) \in 0 .. Cardinality(A) - 1
  BY <1>5, <1>6
<1>8. users_count = Cardinality(A) /\ Gets(Cardinality(B), i)
  BY DEF A, B, users_count, Gets
<1> QED BY <1>7, <1>8 DEF Indices

\* The count grows from 0 to users_count by one at a time, so that every index
\* is passed, at an active slot.
LEMMA EveryIndexAnswers ==
  ASSUME NEW k \in Indices
  PROVE  \E i \in Slots : Gets(k, i)
<1> DEFINE T == {i \in Nat : Count(i + 1) > k}
<1>1. /\ k \in Nat /\ k < Count(NumUsers) /\ Count(0) = 0
      /\ NumUsers - 1 \in Nat /\ NumUsers = (NumUsers - 1) + 1
  BY CountEnds, NumUsersAssumption DEF Indices
<1>2. NumUsers - 1 \in T /\ T \subseteq Nat
  BY <1>1
<1> HIDE DEF T
<1>3. PICK i \in T : \A n \in T : i <= n
  BY <1>2, LeastNumber
<1>4. /\ i \in Nat /\ i <= NumUsers - 1 /\ Count(i + 1) > k /\ Count(i) \in Nat
      /\ Count(i + 1) = IF users[i].active THEN Count(i) + 1 ELSE Count(i)
  BY <1>2, <1>3, CountStep DEF T
<1>5. Count(i) <= k
  <2>1. CASE i = 0
    BY <1>1, <2>1
  <2>2. CASE i # 0
    <3>1. i - 1 \in Nat /\ (i - 1) + 1 = i /\ ~(i <= i - 1)
      BY <1>4, <2>2
    <3>2. i - 1 \notin T
      BY <1>3, <3>1
    <3>3. ~(Count(i) > k)
      BY <3>1, <3>2 DEF T
    <3> QED BY <1>1, <1>4, <3>3
  <2> QED BY <2>1, <2>2
<1>6. users[i].active /\ Count(i) = k
  BY <1>1, <1>4, <1>5
<1>7. i \in Slots
  BY <1>1, <1>4, NumUsersAssumption DEF Slots
<1> QED BY <1>6, <1>7 DEF Gets, Count, Actives

\* Of the users listed, only the session's has the name of the session's user.
LEMMA MarkedIsCurrent ==
  ASSUME IInv, NEW i \in Slots, users[i].active, Marked(i)
  PROVE  i = current_user
<1>1. current_user \in Slots /\ users[i].name # ""
  BY DEF IInv, TypeOK, UsersNamed
<1>2. users[current_user].active
  <2> SUFFICES ASSUME ~users[current_user].active PROVE FALSE
    OBVIOUS
  <2>1. users[current_user] = Nobody /\ Nobody.name = ""
    BY <1>1 DEF IInv, FreeSlotsBlank, Nobody
  <2> QED BY <1>1, <2>1 DEF Marked
<1> QED BY <1>1, <1>2 DEF IInv, NamesUnique, Marked

-----------------------------------------------------------------------------
(***************************************************************************)
(* The theorems.                                                           *)
(***************************************************************************)
\* The inductive invariant holds in every reachable state.
THEOREM Invariance == Spec => []IInv
<1>1. IInv /\ [Next]_vars => IInv'
  BY NextIInv
<1> QED BY InitIInv, <1>1, PTL DEF Spec

\* Type correctness.
THEOREM TypeCorrect == Spec => []TypeOK
<1>1. IInv => TypeOK
  BY DEF IInv
<1> QED BY <1>1, Invariance, PTL

\* Root is always there, names are unique and the session has a user unless a
\* logout led to the deleted guest.
THEOREM TableCorrect == Spec => [](RootStays /\ NamesUnique /\ SessionHasUser)
<1>1. IInv => RootStays /\ NamesUnique /\ SessionHasUser
  BY DEF IInv
<1> QED BY <1>1, Invariance, PTL

\* A session that lost its user has no rights.
THEOREM NobodyHarmless == Spec => []NobodyHasNoRights
<1>1. IInv => NobodyHasNoRights
  BY Rights DEF IInv, TypeOK, FreeSlotsBlank, NobodyHasNoRights
<1> QED BY <1>1, Invariance, PTL

\* Whatever slots were freed and reused, the users command prints one line for
\* each user and none besides, and marks the session's user only.
THEOREM ListsCorrect == Spec => []ListsEveryUser
<1>1. IInv => ListsEveryUser
  <2> SUFFICES ASSUME IInv PROVE ListsEveryUser
    OBVIOUS
  <2>1. ASSUME NEW k \in Indices, NEW l \in Indices, NEW i \in Slots, NEW j \in Slots,
               Gets(k, i), Gets(l, j), users[i].name = users[j].name
        PROVE  k = l
    <3>1. i = j
      BY <2>1 DEF Gets, IInv, NamesUnique
    <3> QED BY <2>1, <3>1 DEF Gets
  <2>2. ASSUME NEW k \in Indices, NEW i \in Slots, Gets(k, i)
        PROVE  Marked(i) <=> i = current_user
    <3>1. users[i].active
      BY <2>2 DEF Gets
    <3> QED BY <3>1, MarkedIsCurrent DEF Marked
  <2> QED BY <2>1, <2>2, EveryIndexAnswers, IndexBelowCount DEF ListsEveryUser
<1> QED BY <1>1, Invariance, PTL

\* useradd and userdel never change who the session is.
THEOREM SessionsStable == Spec => SessionStable
<1>1. IInv /\ [Next]_vars =>
        [users' # users => /\ users'[current_user] = users[current_user]
                           /\ current_user' = current_user]_vars
  BY NextIInv
<1> QED BY <1>1, Invariance, PTL DEF Spec, SessionStable
=============================================================================
