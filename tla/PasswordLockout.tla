--------------------------- MODULE PasswordLockout ---------------------------
(***************************************************************************)
(* How many passwords may be tried: RealmAuthenticationProvider loads the   *)
(* user, compares the count of bad passwords it loaded with the password    *)
(* policy, compares the password, and writes the loaded count plus one when *)
(* it is wrong.  Logins of one user overlap in the threads of the server,   *)
(* the policy is cached for the life of the process, and a write that fails *)
(* is ignored.                                                              *)
(***************************************************************************)
EXTENDS Integers, FiniteSets

CONSTANTS
  Users,
  Threads,     \* request threads
  Attempts,    \* the values PASSWORD_POLICY.ATTEMPTS may be set to
  MaxLost,     \* bound on the counts that are never written
  None

LoginSteps ==
  {"getPasswordPolicy", "putPasswordPolicy", "passwordPolicyValid",
   "lockUser", "passwordMatches", "setBadPasswordCount", "admitted"}

\* A login: count is the badPasswordCount of the UserInfo it has loaded, queried
\* the policy it has read from the database.
Logins ==
  [step : LoginSteps, user : Users, count : Nat, queried : Attempts \cup {None}]

ASSUME LockoutAssumption ==
  /\ IsFiniteSet(Threads)
  /\ Attempts \subseteq Nat /\ Attempts # {}
  /\ MaxLost \in Nat
  /\ None \notin Users \cup Attempts \cup Logins

VARIABLES
  badPasswordCount,  \* USERINFO.BADPASSWORDCOUNT of each user
  locked,            \* the users with USERINFO.ISLOCKED set
  attempts,          \* PASSWORD_POLICY.ATTEMPTS
  passwordPolicy,    \* the realm's field passwordPolicy (its attempts), or None
  thread,            \* what each thread is doing, None when it is idle
  tested,            \* history: wrong passwords compared with each user's
  lost               \* history: how many of these were not counted

vars == <<badPasswordCount, locked, attempts, passwordPolicy, thread, tested, lost>>

TypeOK ==
  /\ badPasswordCount \in [Users -> Nat]
  /\ locked \subseteq Users
  /\ attempts \in Attempts
  /\ passwordPolicy \in Attempts \cup {None}
  /\ thread \in [Threads -> Logins \cup {None}]
  /\ tested \in [Users -> Nat]
  /\ lost \in Nat

Init ==
  /\ badPasswordCount = [u \in Users |-> 0]
  /\ locked = {}
  /\ attempts \in Attempts
  /\ passwordPolicy = None
  /\ thread = [p \in Threads |-> None]
  /\ tested = [u \in Users |-> 0]
  /\ lost = 0

At(p, step) == thread[p] # None /\ thread[p].step = step
Goto(p, step) == thread' = [thread EXCEPT ![p].step = step]
Idle(p) == thread' = [thread EXCEPT ![p] = None]

-----------------------------------------------------------------------------
(* doInternalAuthenticate, one access to the database or the field at a time. *)

\* The checks before loadUserInfo are about the request; ISLOCKED is not among them.
LoadUserInfo(p, u) ==
  /\ thread[p] = None
  /\ thread' = [thread EXCEPT ![p] = [step |-> "getPasswordPolicy", user |-> u,
                                      count |-> badPasswordCount[u], queried |-> None]]
  /\ UNCHANGED <<badPasswordCount, locked, attempts, passwordPolicy, tested, lost>>

\* getPasswordPolicy: the field, which nothing synchronises ...
GetPasswordPolicy(p) ==
  /\ At(p, "getPasswordPolicy")
  /\ thread' = IF passwordPolicy # None
               THEN [thread EXCEPT ![p].step = "passwordPolicyValid"]
               ELSE [thread EXCEPT ![p].step = "putPasswordPolicy", ![p].queried = attempts]
  /\ UNCHANGED <<badPasswordCount, locked, attempts, passwordPolicy, tested, lost>>

\* ... or what has been queried, whatever another thread has put there meanwhile.
PutPasswordPolicy(p) ==
  /\ At(p, "putPasswordPolicy")
  /\ passwordPolicy' = thread[p].queried
  /\ Goto(p, "passwordPolicyValid")
  /\ UNCHANGED <<badPasswordCount, locked, attempts, tested, lost>>

\* MUTANT: one attempt too many.
AttemptsLeft_OneMore(p) == thread[p].count <= passwordPolicy

AttemptsLeft(p) == thread[p].count < passwordPolicy

\* passwordPolicyValid: the count of the UserInfo that was loaded.
PasswordPolicyValid(p) ==
  /\ At(p, "passwordPolicyValid")
  /\ Goto(p, IF AttemptsLeft(p) THEN "passwordMatches" ELSE "lockUser")
  /\ UNCHANGED <<badPasswordCount, locked, attempts, passwordPolicy, tested, lost>>

\* MUTANT: a locked user has all attempts again.
LockUser_StartsAgain(p) ==
  /\ At(p, "lockUser")
  /\ locked' = locked \cup {thread[p].user}
  /\ badPasswordCount' = [badPasswordCount EXCEPT ![thread[p].user] = 0]
  /\ Idle(p)
  /\ UNCHANGED <<attempts, passwordPolicy, tested, lost>>

\* lockUser: the update may fail, and the login is refused all the same.
LockUser(p) ==
  /\ At(p, "lockUser")
  /\ locked' \in {locked, locked \cup {thread[p].user}}
  /\ Idle(p)
  /\ UNCHANGED <<badPasswordCount, attempts, passwordPolicy, tested, lost>>

\* passwordMatches: the right password leaves the count as it is.
RightPassword(p) ==
  /\ At(p, "passwordMatches")
  /\ Goto(p, "admitted")
  /\ UNCHANGED <<badPasswordCount, locked, attempts, passwordPolicy, tested, lost>>

WrongPassword(p) ==
  /\ At(p, "passwordMatches")
  /\ tested' = [tested EXCEPT ![thread[p].user] = @ + 1]
  /\ Goto(p, "setBadPasswordCount")
  /\ UNCHANGED <<badPasswordCount, locked, attempts, passwordPolicy, lost>>

\* MUTANT: the user is locked with the first wrong password.
SetBadPasswordCount_Locks(p) ==
  /\ At(p, "setBadPasswordCount")
  /\ LET u == thread[p].user
     IN /\ badPasswordCount' = [badPasswordCount EXCEPT ![u] = thread[p].count + 1]
        /\ locked' = locked \cup {u}
  /\ Idle(p)
  /\ UNCHANGED <<attempts, passwordPolicy, tested, lost>>

\* MUTANT: the attempts that are left are counted down.
SetBadPasswordCount_CountsDown(p) ==
  /\ At(p, "setBadPasswordCount")
  /\ badPasswordCount' = [badPasswordCount EXCEPT ![thread[p].user] = thread[p].count - 1]
  /\ Idle(p)
  /\ UNCHANGED <<locked, attempts, passwordPolicy, tested, lost>>

\* MUTANT: the count that was loaded is written back.
SetBadPasswordCount_NotIncremented(p) ==
  /\ At(p, "setBadPasswordCount")
  /\ badPasswordCount' = [badPasswordCount EXCEPT ![thread[p].user] = thread[p].count]
  /\ Idle(p)
  /\ UNCHANGED <<locked, attempts, passwordPolicy, tested, lost>>

\* setBadPasswordCount writes the loaded count plus one over what is there.
SetBadPasswordCount(p) ==
  /\ At(p, "setBadPasswordCount")
  /\ badPasswordCount' = [badPasswordCount EXCEPT ![thread[p].user] = thread[p].count + 1]
  /\ Idle(p)
  /\ UNCHANGED <<locked, attempts, passwordPolicy, tested, lost>>

\* Its exceptions are caught.
CountNotWritten(p) ==
  /\ At(p, "setBadPasswordCount")
  /\ lost < MaxLost
  /\ lost' = lost + 1
  /\ Idle(p)
  /\ UNCHANGED <<badPasswordCount, locked, attempts, passwordPolicy, tested>>

\* The rest of a successful login is LoginSessions.
LoggedIn(p) ==
  /\ At(p, "admitted")
  /\ Idle(p)
  /\ UNCHANGED <<badPasswordCount, locked, attempts, passwordPolicy, tested, lost>>

-----------------------------------------------------------------------------
(* The management application saves the policy; the sign-on application     *)
(* reads it once and keeps it until it is restarted.                        *)

UpdatePolicy(n) ==
  /\ n # attempts
  /\ attempts' = n
  /\ UNCHANGED <<badPasswordCount, locked, passwordPolicy, thread, tested, lost>>

Uncounted == {p \in Threads : At(p, "setBadPasswordCount")}

Restart ==
  /\ lost + Cardinality(Uncounted) <= MaxLost
  /\ passwordPolicy' = None
  /\ thread' = [p \in Threads |-> None]
  /\ lost' = lost + Cardinality(Uncounted)
  /\ UNCHANGED <<badPasswordCount, locked, attempts, tested>>

Step(p) ==
  \/ GetPasswordPolicy(p) \/ PutPasswordPolicy(p)
  \/ PasswordPolicyValid(p) \/ LockUser(p)
  \/ RightPassword(p) \/ WrongPassword(p)
  \/ SetBadPasswordCount(p) \/ CountNotWritten(p)
  \/ LoggedIn(p)

Next ==
  \/ \E p \in Threads : Step(p) \/ \E u \in Users : LoadUserInfo(p, u)
  \/ \E n \in Attempts : UpdatePolicy(n)
  \/ Restart

Spec == Init /\ [][Next]_vars

-----------------------------------------------------------------------------
(* Properties.                                                              *)

Largest == CHOOSE n \in Attempts : \A m \in Attempts : m <= n

\* How many wrong passwords n threads can compare while a attempts are left: one
\* thread loads the count, the others use all attempts up, and then its write
\* takes the count back to one more than what it was at the start.
Guesses[left \in Nat \X Nat] ==
  LET a == left[1]
      n == left[2]
  IN IF a = 0 \/ n = 0 THEN 0 ELSE Guesses[<<a - 1, n>>] + Guesses[<<a, n - 1>>] + 1

\* Lost updates multiply the passwords one may try, but not without bound: however
\* the loads and the writes of setBadPasswordCount overlap, and whatever the policy
\* is changed to, only a failed write gives one more.
WrongPasswordsBounded ==
  \A u \in Users : tested[u] <= Guesses[<<Largest, Cardinality(Threads)>>] + lost

\* No login passes passwordPolicyValid once the count is at the limit, so the count
\* that setBadPasswordCount writes exceeds no limit that was ever set.
CountWithinLimit == \A u \in Users : \E n \in Attempts : badPasswordCount[u] <= n

\* lockUser locks nobody who has not failed as often as some policy allows,
\* although it goes by a count that may be out of date.
LockedOnlyAfterFailures == \A u \in locked : \E n \in Attempts : n <= tested[u]

\* A user is at the limit of every policy when the count is, and no login that has
\* loaded a smaller one is under way.
AtLimit(u) ==
  \A n \in Attempts :
    /\ n <= badPasswordCount[u]
    /\ \A p \in Threads : thread[p] # None /\ thread[p].user = u => n <= thread[p].count

Admitted(u) == \E p \in Threads : At(p, "admitted") /\ thread[p].user = u

LimitKept ==
  \A u \in Users : AtLimit(u) /\ ~Admitted(u) => AtLimit(u)' /\ ~Admitted(u)'

\* The limit is final: no login, right password or not, and no restart gets a user
\* away from it, for resetBadPasswordCountAndLockout and unlockUser have no caller.
LimitIsFinal == [][LimitKept]_vars

-----------------------------------------------------------------------------
(* The inductive invariant.                                                 *)

\* A login has a policy before it needs one, and has passed or failed the check by
\* some policy: the one it was checked by may since have been changed.
LoginsChecked ==
  \A p \in Threads : thread[p] # None =>
    LET o == thread[p]
    IN /\ o.step = "putPasswordPolicy" => o.queried # None
       /\ o.step \notin {"getPasswordPolicy", "putPasswordPolicy"} => passwordPolicy # None
       /\ o.step \in {"passwordMatches", "setBadPasswordCount"} =>
            \E n \in Attempts : o.count < n
       /\ o.step = "lockUser" => \E n \in Attempts : n <= o.count

\* No count, in the table or loaded, exceeds the passwords that were wrong.
CountsTested ==
  /\ \A u \in Users : badPasswordCount[u] <= tested[u]
  /\ \A p \in Threads : thread[p] # None =>
       /\ thread[p].count <= tested[thread[p].user]
       /\ thread[p].step = "setBadPasswordCount" =>
            thread[p].count + 1 <= tested[thread[p].user]

IInv ==
  /\ TypeOK
  /\ LoginsChecked
  /\ CountsTested
  /\ CountWithinLimit
  /\ LockedOnlyAfterFailures
=============================================================================
