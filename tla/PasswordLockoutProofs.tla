------------------------ MODULE PasswordLockoutProofs ------------------------
(***************************************************************************)
(* Proofs about PasswordLockout.  One lemma for each action says that it    *)
(* preserves the invariant and gets no user away from the limit.  The bound *)
(* on wrong passwords has an invariant of its own, TestedCovered, and needs *)
(* what the recursive function Guesses computes.                            *)
(***************************************************************************)
EXTENDS PasswordLockout, FiniteSetTheorems, WellFoundedInduction, TLAPS

USE LockoutAssumption

-----------------------------------------------------------------------------
(* The actions of a login.                                                  *)

\* A login that goes on to its next step changes nothing else.
LEMMA LoginMoved ==
  ASSUME NEW o \in Logins, NEW x \in LoginSteps
  PROVE  LET o1 == [o EXCEPT !.step = x]
         IN /\ o1 \in Logins /\ o1.step = x /\ o1.user = o.user
            /\ o1.count = o.count /\ o1.queried = o.queried
  BY DEF Logins

\* A login that has read the policy remembers it.
LEMMA LoginQueried ==
  ASSUME NEW o \in Logins, NEW n \in Attempts
  PROVE  LET o1 == [o EXCEPT !.step = "putPasswordPolicy", !.queried = n]
         IN /\ o1 \in Logins /\ o1.step = "putPasswordPolicy" /\ o1.user = o.user
            /\ o1.count = o.count /\ o1.queried = n
  BY DEF Logins, LoginSteps

\* What a thread is doing, when it is doing something.
LEMMA LoginType ==
  ASSUME TypeOK, NEW p \in Threads, thread[p] # None
  PROVE  /\ thread[p].step \in LoginSteps /\ thread[p].user \in Users
         /\ thread[p].count \in Nat /\ thread[p].queried \in Attempts \cup {None}
<1>1. thread[p] \in Logins
  BY DEF TypeOK
<1> QED BY <1>1 DEF Logins

\* Goto moves one login on and leaves the others where they are.
LEMMA GotoFields ==
  ASSUME TypeOK, NEW p \in Threads, thread[p] # None, NEW x \in LoginSteps, Goto(p, x)
  PROVE  /\ thread' \in [Threads -> Logins \cup {None}]
         /\ thread'[p].step = x /\ thread'[p].user = thread[p].user
         /\ thread'[p].count = thread[p].count /\ thread'[p].queried = thread[p].queried
         /\ \A q \in Threads \ {p} : thread'[q] = thread[q]
<1> DEFINE o == thread[p]
           o1 == [o EXCEPT !.step = x]
<1>1. o \in Logins
  BY DEF TypeOK
<1>2. thread' = [thread EXCEPT ![p] = o1]
  BY DEF Goto
<1>3. o1 \in Logins /\ o1.step = x /\ o1.user = o.user /\ o1.count = o.count
      /\ o1.queried = o.queried
  BY <1>1, LoginMoved
<1> HIDE DEF o1
<1> QED BY <1>1, <1>2, <1>3 DEF TypeOK

\* A login that starts has read the count as it is.
LEMMA LoadUserInfoOK ==
  ASSUME NEW p \in Threads, NEW u \in Users, IInv, LoadUserInfo(p, u)
  PROVE  IInv' /\ LimitKept
<1> DEFINE o == [step |-> "getPasswordPolicy", user |-> u,
                 count |-> badPasswordCount[u], queried |-> None]
<1>a. o \in Logins
  BY DEF IInv, TypeOK, Logins, LoginSteps
<1>b. thread' = [thread EXCEPT ![p] = o]
  BY DEF LoadUserInfo
<1>c. /\ o.step = "getPasswordPolicy" /\ o.user = u
      /\ o.count = badPasswordCount[u] /\ o.queried = None
  OBVIOUS
<1> HIDE DEF o
<1>1. /\ thread' \in [Threads -> Logins \cup {None}]
      /\ thread'[p].step = "getPasswordPolicy" /\ thread'[p].user = u
      /\ thread'[p].count = badPasswordCount[u]
      /\ \A q \in Threads \ {p} : thread'[q] = thread[q]
  BY <1>a, <1>b, <1>c DEF IInv, TypeOK
<1>2. TypeOK'
  BY <1>1, LoginType DEF LoadUserInfo, At, IInv, TypeOK
<1>3. LoginsChecked'
  BY <1>1 DEF LoadUserInfo, At, IInv, TypeOK, Logins, LoginsChecked
<1>4. CountsTested'
  BY <1>1 DEF LoadUserInfo, At, IInv, TypeOK, Logins, CountsTested
<1>5. CountWithinLimit'
  BY <1>1 DEF LoadUserInfo, At, IInv, TypeOK, Logins, LoginsChecked, CountWithinLimit
<1>6. LockedOnlyAfterFailures'
  BY <1>1 DEF LoadUserInfo, At, IInv, TypeOK, Logins, LoginsChecked, CountsTested,
              LockedOnlyAfterFailures
<1>7. LimitKept
  BY <1>1 DEF LoadUserInfo, At, IInv, TypeOK, Logins, LoginsChecked, LimitKept, AtLimit,
              Admitted
<1> QED BY <1>2, <1>3, <1>4, <1>5, <1>6, <1>7 DEF IInv

\* The policy in the field, or the one in the database.
LEMMA GetPasswordPolicyOK ==
  ASSUME NEW p \in Threads, IInv, GetPasswordPolicy(p)
  PROVE  IInv' /\ LimitKept
<1>1. /\ thread' \in [Threads -> Logins \cup {None}]
      /\ thread'[p].user = thread[p].user /\ thread'[p].count = thread[p].count
      /\ \A q \in Threads \ {p} : thread'[q] = thread[q]
      /\ \/ thread'[p].step = "passwordPolicyValid" /\ passwordPolicy # None
         \/ thread'[p].step = "putPasswordPolicy" /\ thread'[p].queried = attempts
  <2>1. CASE passwordPolicy # None
    <3>1. Goto(p, "passwordPolicyValid")
      BY <2>1 DEF GetPasswordPolicy, Goto
    <3> QED BY <2>1, <3>1, GotoFields DEF IInv, GetPasswordPolicy, At, LoginSteps
  <2>2. CASE passwordPolicy = None
    <3> DEFINE o == thread[p]
               o1 == [o EXCEPT !.step = "putPasswordPolicy", !.queried = attempts]
    <3>1. o \in Logins /\ attempts \in Attempts
      BY DEF IInv, TypeOK, GetPasswordPolicy, At
    <3>2. thread' = [thread EXCEPT ![p] = o1]
      BY <2>2 DEF GetPasswordPolicy
    <3>3. /\ o1 \in Logins /\ o1.step = "putPasswordPolicy" /\ o1.user = o.user
          /\ o1.count = o.count /\ o1.queried = attempts
      <4> HIDE DEF o
      <4> QED BY <3>1, LoginQueried
    <3> HIDE DEF o1
    <3> QED BY <3>1, <3>2, <3>3 DEF IInv, TypeOK
  <2> QED BY <2>1, <2>2
<1>2. TypeOK'
  BY <1>1, LoginType DEF GetPasswordPolicy, At, IInv, TypeOK
<1>3. LoginsChecked'
  BY <1>1 DEF GetPasswordPolicy, At, IInv, TypeOK, Logins, LoginsChecked
<1>4. CountsTested'
  BY <1>1 DEF GetPasswordPolicy, At, IInv, TypeOK, Logins, CountsTested
<1>5. CountWithinLimit'
  BY <1>1 DEF GetPasswordPolicy, At, IInv, TypeOK, Logins, LoginsChecked, CountWithinLimit
<1>6. LockedOnlyAfterFailures'
  BY <1>1 DEF GetPasswordPolicy, At, IInv, TypeOK, Logins, LoginsChecked, CountsTested,
              LockedOnlyAfterFailures
<1>7. LimitKept
  BY <1>1 DEF GetPasswordPolicy, At, IInv, TypeOK, Logins, LoginsChecked, LimitKept, AtLimit,
              Admitted
<1> QED BY <1>2, <1>3, <1>4, <1>5, <1>6, <1>7 DEF IInv

\* The field gets the policy that was queried.
LEMMA PutPasswordPolicyOK ==
  ASSUME NEW p \in Threads, IInv, PutPasswordPolicy(p)
  PROVE  IInv' /\ LimitKept
<1>1. /\ thread' \in [Threads -> Logins \cup {None}]
      /\ thread'[p].step = "passwordPolicyValid" /\ thread'[p].user = thread[p].user
      /\ thread'[p].count = thread[p].count
      /\ \A q \in Threads \ {p} : thread'[q] = thread[q]
  BY GotoFields DEF IInv, PutPasswordPolicy, At, LoginSteps
<1>2. TypeOK'
  BY <1>1, LoginType DEF PutPasswordPolicy, At, IInv, TypeOK
<1>3. LoginsChecked'
  BY <1>1 DEF PutPasswordPolicy, At, IInv, TypeOK, Logins, LoginsChecked
<1>4. CountsTested'
  BY <1>1 DEF PutPasswordPolicy, At, IInv, TypeOK, Logins, CountsTested
<1>5. CountWithinLimit'
  BY <1>1 DEF PutPasswordPolicy, At, IInv, TypeOK, Logins, LoginsChecked, CountWithinLimit
<1>6. LockedOnlyAfterFailures'
  BY <1>1 DEF PutPasswordPolicy, At, IInv, TypeOK, Logins, LoginsChecked, CountsTested,
              LockedOnlyAfterFailures
<1>7. LimitKept
  BY <1>1 DEF PutPasswordPolicy, At, IInv, TypeOK, Logins, LoginsChecked, LimitKept, AtLimit,
              Admitted
<1> QED BY <1>2, <1>3, <1>4, <1>5, <1>6, <1>7 DEF IInv

\* Only a login with attempts left goes on to the password.
LEMMA PasswordPolicyValidOK ==
  ASSUME NEW p \in Threads, IInv, PasswordPolicyValid(p)
  PROVE  IInv' /\ LimitKept
<1>1. /\ thread' \in [Threads -> Logins \cup {None}]
      /\ thread'[p].step = IF AttemptsLeft(p) THEN "passwordMatches" ELSE "lockUser"
      /\ thread'[p].user = thread[p].user /\ thread'[p].count = thread[p].count
      /\ \A q \in Threads \ {p} : thread'[q] = thread[q]
  <2>1. (IF AttemptsLeft(p) THEN "passwordMatches" ELSE "lockUser") \in LoginSteps
    BY DEF LoginSteps
  <2> QED BY <2>1, GotoFields DEF IInv, PasswordPolicyValid, At
<1>2. TypeOK'
  BY <1>1, LoginType DEF PasswordPolicyValid, At, IInv, TypeOK
<1>3. LoginsChecked'
  BY <1>1 DEF PasswordPolicyValid, At, IInv, TypeOK, Logins, LoginsChecked, AttemptsLeft
<1>4. CountsTested'
  BY <1>1 DEF PasswordPolicyValid, At, IInv, TypeOK, Logins, CountsTested
<1>5. CountWithinLimit'
  BY <1>1 DEF PasswordPolicyValid, At, IInv, TypeOK, Logins, LoginsChecked, CountWithinLimit
<1>6. LockedOnlyAfterFailures'
  BY <1>1 DEF PasswordPolicyValid, At, IInv, TypeOK, Logins, LoginsChecked, CountsTested,
              LockedOnlyAfterFailures
<1>7. LimitKept
  BY <1>1 DEF PasswordPolicyValid, At, IInv, TypeOK, Logins, LoginsChecked, LimitKept, AtLimit,
              Admitted, AttemptsLeft
<1> QED BY <1>2, <1>3, <1>4, <1>5, <1>6, <1>7 DEF IInv

\* Whoever is locked has failed as often as the policy it was checked by allows.
LEMMA LockUserOK ==
  ASSUME NEW p \in Threads, IInv, LockUser(p)
  PROVE  IInv' /\ LimitKept
<1>1. /\ thread' \in [Threads -> Logins \cup {None}]
      /\ thread'[p] = None
      /\ \A q \in Threads \ {p} : thread'[q] = thread[q]
  BY DEF IInv, TypeOK, LockUser, Idle
<1>2. TypeOK'
  BY <1>1, LoginType DEF LockUser, At, IInv, TypeOK
<1>3. LoginsChecked'
  BY <1>1 DEF LockUser, At, IInv, TypeOK, Logins, LoginsChecked
<1>4. CountsTested'
  BY <1>1 DEF LockUser, At, IInv, TypeOK, Logins, CountsTested
<1>5. CountWithinLimit'
  BY <1>1 DEF LockUser, At, IInv, TypeOK, Logins, LoginsChecked, CountWithinLimit
<1>6. LockedOnlyAfterFailures'
  BY <1>1 DEF LockUser, At, IInv, TypeOK, Logins, LoginsChecked, CountsTested,
              LockedOnlyAfterFailures
<1>7. LimitKept
  BY <1>1 DEF LockUser, At, IInv, TypeOK, Logins, LoginsChecked, LimitKept, AtLimit,
              Admitted
<1> QED BY <1>2, <1>3, <1>4, <1>5, <1>6, <1>7 DEF IInv

\* A right password changes no count, and no user at the limit gets as far.
LEMMA RightPasswordOK ==
  ASSUME NEW p \in Threads, IInv, RightPassword(p)
  PROVE  IInv' /\ LimitKept
<1>1. /\ thread' \in [Threads -> Logins \cup {None}]
      /\ thread'[p].step = "admitted" /\ thread'[p].user = thread[p].user
      /\ thread'[p].count = thread[p].count
      /\ \A q \in Threads \ {p} : thread'[q] = thread[q]
  BY GotoFields DEF IInv, RightPassword, At, LoginSteps
<1>2. TypeOK'
  BY <1>1, LoginType DEF RightPassword, At, IInv, TypeOK
<1>3. LoginsChecked'
  BY <1>1 DEF RightPassword, At, IInv, TypeOK, Logins, LoginsChecked
<1>4. CountsTested'
  BY <1>1 DEF RightPassword, At, IInv, TypeOK, Logins, CountsTested
<1>5. CountWithinLimit'
  BY <1>1 DEF RightPassword, At, IInv, TypeOK, Logins, LoginsChecked, CountWithinLimit
<1>6. LockedOnlyAfterFailures'
  BY <1>1 DEF RightPassword, At, IInv, TypeOK, Logins, LoginsChecked, CountsTested,
              LockedOnlyAfterFailures
<1>7. LimitKept
  BY <1>1 DEF RightPassword, At, IInv, TypeOK, Logins, LoginsChecked, LimitKept, AtLimit,
              Admitted
<1> QED BY <1>2, <1>3, <1>4, <1>5, <1>6, <1>7 DEF IInv

\* A wrong password is one more than was counted.
LEMMA WrongPasswordOK ==
  ASSUME NEW p \in Threads, IInv, WrongPassword(p)
  PROVE  IInv' /\ LimitKept
<1>1. /\ thread' \in [Threads -> Logins \cup {None}]
      /\ thread'[p].step = "setBadPasswordCount" /\ thread'[p].user = thread[p].user
      /\ thread'[p].count = thread[p].count
      /\ \A q \in Threads \ {p} : thread'[q] = thread[q]
  BY GotoFields DEF IInv, WrongPassword, At, LoginSteps
<1>2. TypeOK'
  BY <1>1, LoginType DEF WrongPassword, At, IInv, TypeOK
<1>3. LoginsChecked'
  BY <1>1 DEF WrongPassword, At, IInv, TypeOK, Logins, LoginsChecked
<1>4. CountsTested'
  BY <1>1 DEF WrongPassword, At, IInv, TypeOK, Logins, CountsTested
<1>5. CountWithinLimit'
  BY <1>1 DEF WrongPassword, At, IInv, TypeOK, Logins, LoginsChecked, CountWithinLimit
<1>6. LockedOnlyAfterFailures'
  BY <1>1 DEF WrongPassword, At, IInv, TypeOK, Logins, LoginsChecked, CountsTested,
              LockedOnlyAfterFailures
<1>7. LimitKept
  BY <1>1 DEF WrongPassword, At, IInv, TypeOK, Logins, LoginsChecked, LimitKept, AtLimit,
              Admitted
<1> QED BY <1>2, <1>3, <1>4, <1>5, <1>6, <1>7 DEF IInv

\* The loaded count was below a limit, so one more does not exceed it.
LEMMA SetBadPasswordCountOK ==
  ASSUME NEW p \in Threads, IInv, SetBadPasswordCount(p)
  PROVE  IInv' /\ LimitKept
<1>1. /\ thread' \in [Threads -> Logins \cup {None}]
      /\ thread'[p] = None
      /\ \A q \in Threads \ {p} : thread'[q] = thread[q]
  BY DEF IInv, TypeOK, SetBadPasswordCount, Idle
<1>2. TypeOK'
  BY <1>1, LoginType DEF SetBadPasswordCount, At, IInv, TypeOK
<1>3. LoginsChecked'
  BY <1>1 DEF SetBadPasswordCount, At, IInv, TypeOK, Logins, LoginsChecked
<1>4. CountsTested'
  BY <1>1 DEF SetBadPasswordCount, At, IInv, TypeOK, Logins, CountsTested
<1>5. CountWithinLimit'
  BY <1>1 DEF SetBadPasswordCount, At, IInv, TypeOK, Logins, LoginsChecked, CountWithinLimit
<1>6. LockedOnlyAfterFailures'
  BY <1>1 DEF SetBadPasswordCount, At, IInv, TypeOK, Logins, LoginsChecked, CountsTested,
              LockedOnlyAfterFailures
<1>7. LimitKept
  BY <1>1 DEF SetBadPasswordCount, At, IInv, TypeOK, Logins, LoginsChecked, LimitKept, AtLimit,
              Admitted
<1> QED BY <1>2, <1>3, <1>4, <1>5, <1>6, <1>7 DEF IInv

\* A count that is not written stays as it was.
LEMMA CountNotWrittenOK ==
  ASSUME NEW p \in Threads, IInv, CountNotWritten(p)
  PROVE  IInv' /\ LimitKept
<1>1. /\ thread' \in [Threads -> Logins \cup {None}]
      /\ thread'[p] = None
      /\ \A q \in Threads \ {p} : thread'[q] = thread[q]
  BY DEF IInv, TypeOK, CountNotWritten, Idle
<1>2. TypeOK'
  BY <1>1, LoginType DEF CountNotWritten, At, IInv, TypeOK
<1>3. LoginsChecked'
  BY <1>1 DEF CountNotWritten, At, IInv, TypeOK, Logins, LoginsChecked
<1>4. CountsTested'
  BY <1>1 DEF CountNotWritten, At, IInv, TypeOK, Logins, CountsTested
<1>5. CountWithinLimit'
  BY <1>1 DEF CountNotWritten, At, IInv, TypeOK, Logins, LoginsChecked, CountWithinLimit
<1>6. LockedOnlyAfterFailures'
  BY <1>1 DEF CountNotWritten, At, IInv, TypeOK, Logins, LoginsChecked, CountsTested,
              LockedOnlyAfterFailures
<1>7. LimitKept
  BY <1>1 DEF CountNotWritten, At, IInv, TypeOK, Logins, LoginsChecked, LimitKept, AtLimit,
              Admitted
<1> QED BY <1>2, <1>3, <1>4, <1>5, <1>6, <1>7 DEF IInv

\* A successful login leaves everything as it is.
LEMMA LoggedInOK ==
  ASSUME NEW p \in Threads, IInv, LoggedIn(p)
  PROVE  IInv' /\ LimitKept
<1>1. /\ thread' \in [Threads -> Logins \cup {None}]
      /\ thread'[p] = None
      /\ \A q \in Threads \ {p} : thread'[q] = thread[q]
  BY DEF IInv, TypeOK, LoggedIn, Idle
<1>2. TypeOK'
  BY <1>1, LoginType DEF LoggedIn, At, IInv, TypeOK
<1>3. LoginsChecked'
  BY <1>1 DEF LoggedIn, At, IInv, TypeOK, Logins, LoginsChecked
<1>4. CountsTested'
  BY <1>1 DEF LoggedIn, At, IInv, TypeOK, Logins, CountsTested
<1>5. CountWithinLimit'
  BY <1>1 DEF LoggedIn, At, IInv, TypeOK, Logins, LoginsChecked, CountWithinLimit
<1>6. LockedOnlyAfterFailures'
  BY <1>1 DEF LoggedIn, At, IInv, TypeOK, Logins, LoginsChecked, CountsTested,
              LockedOnlyAfterFailures
<1>7. LimitKept
  BY <1>1 DEF LoggedIn, At, IInv, TypeOK, Logins, LoginsChecked, LimitKept, AtLimit,
              Admitted
<1> QED BY <1>2, <1>3, <1>4, <1>5, <1>6, <1>7 DEF IInv

-----------------------------------------------------------------------------
(* The policy and the process.                                              *)

\* What the management application saves is in no login's hands.
LEMMA UpdatePolicyOK ==
  ASSUME NEW n \in Attempts, IInv, UpdatePolicy(n)
  PROVE  IInv' /\ LimitKept
  BY DEF IInv, UpdatePolicy, TypeOK, LoginsChecked, CountsTested, CountWithinLimit,
         LockedOnlyAfterFailures, LimitKept, AtLimit, Admitted, At

\* A restart ends all logins.
LEMMA RestartOK ==
  ASSUME IInv, Restart
  PROVE  IInv' /\ LimitKept
<1>1. Cardinality(Uncounted) \in Nat
  BY FS_Subset, FS_CardinalityType DEF Uncounted
<1>2. IInv'
  BY <1>1 DEF IInv, Restart, TypeOK, LoginsChecked, CountsTested, CountWithinLimit,
              LockedOnlyAfterFailures
<1>3. LimitKept
  BY DEF Restart, LimitKept, AtLimit, Admitted, At
<1> QED BY <1>2, <1>3

-----------------------------------------------------------------------------
(* The invariant.                                                           *)

\* Nothing has been counted at the start.
LEMMA InitOK == Init => IInv
  BY DEF Init, IInv, TypeOK, LoginsChecked, CountsTested, CountWithinLimit,
         LockedOnlyAfterFailures

\* Every step, or none, preserves the invariant and the limit.
LEMMA NextOK == IInv /\ [Next]_vars => IInv' /\ (LimitKept \/ UNCHANGED vars)
<1> SUFFICES ASSUME IInv, [Next]_vars
             PROVE  IInv' /\ (LimitKept \/ UNCHANGED vars)
  OBVIOUS
<1>1. ASSUME NEW p \in Threads, Step(p)
      PROVE  IInv' /\ LimitKept
  BY <1>1, GetPasswordPolicyOK, PutPasswordPolicyOK, PasswordPolicyValidOK, LockUserOK,
     RightPasswordOK, WrongPasswordOK, SetBadPasswordCountOK, CountNotWrittenOK, LoggedInOK
     DEF Step
<1>2. ASSUME NEW p \in Threads, NEW u \in Users, LoadUserInfo(p, u)
      PROVE  IInv' /\ LimitKept
  BY <1>2, LoadUserInfoOK
<1>3. ASSUME NEW n \in Attempts, UpdatePolicy(n)
      PROVE  IInv' /\ LimitKept
  BY <1>3, UpdatePolicyOK
<1>4. CASE Restart
  BY <1>4, RestartOK
<1>5. CASE UNCHANGED vars
  BY <1>5 DEF vars, IInv, TypeOK, LoginsChecked, CountsTested, CountWithinLimit,
              LockedOnlyAfterFailures
<1> QED BY <1>1, <1>2, <1>3, <1>4, <1>5 DEF Next

\* The inductive invariant: what a login knows of the policy, and how its count
\* relates to the passwords that were wrong.
THEOREM LoginInvariant == Spec => []IInv
<1> QED BY InitOK, NextOK, PTL DEF Spec

\* The types of the variables of every login, whatever the policy is set to.
THEOREM TypeCorrect == Spec => []TypeOK
<1>1. IInv => TypeOK
  BY DEF IInv
<1> QED BY LoginInvariant, <1>1, PTL

\* However many logins overlap, setBadPasswordCount writes no count above the largest
\* limit.
THEOREM CountBounded == Spec => []CountWithinLimit
<1>1. IInv => CountWithinLimit
  BY DEF IInv
<1> QED BY LoginInvariant, <1>1, PTL

\* lockUser locks only users with as many wrong passwords as some policy allows.
THEOREM LockJustified == Spec => []LockedOnlyAfterFailures
<1>1. IInv => LockedOnlyAfterFailures
  BY DEF IInv
<1> QED BY LoginInvariant, <1>1, PTL

\* Nobody at the limit of every policy is ever admitted by password again.
THEOREM LimitLasts == Spec => LimitIsFinal
<1>1. IInv /\ [Next]_vars => [LimitKept]_vars
  BY NextOK
<1> QED BY LoginInvariant, <1>1, PTL DEF Spec, LimitIsFinal

-----------------------------------------------------------------------------
(* Induction over the natural numbers, with sets for predicates.            *)

HIDE LockoutAssumption

\* Every set of numbers has a least one, because the sets of the numbers below them have.
LEMMA LeastNumber ==
  ASSUME NEW T \in SUBSET Nat, T # {}
  PROVE  \E x \in T : \A y \in T : x <= y
<1> DEFINE below(n) == {i \in Nat : i < n}
           family == {U \in FiniteSubsetsOf(Nat) : \E n \in T : U = below(n)}
<1>1. \A n \in Nat : below(n) \in FiniteSubsetsOf(Nat)
  <2> TAKE n \in Nat
  <2>1. \A i \in below(n) : i <= n
    OBVIOUS
  <2>2. IsFiniteSet(below(n))
    BY <2>1, FS_BoundedSetOfNaturals
  <2> QED BY <2>2 DEF FiniteSubsetsOf
<1>2. PICK U \in family : \A V \in family : ~(<<V, U>> \in StrictSubsetOrdering(Nat))
  <2>1. family # {}
    BY <1>1
  <2> HIDE DEF family
  <2>2. family \subseteq FiniteSubsetsOf(Nat)
    BY DEF family
  <2> QED BY <2>1, <2>2, FS_StrictSubsetOrderingWellFounded, WFMin
<1>3. PICK x \in T : U = below(x)
  OBVIOUS
<1>4. ASSUME NEW y \in T, y < x PROVE FALSE
  <2>1. below(y) \in family /\ below(y) \subseteq U /\ y \in U /\ y \notin below(y)
    BY <1>1, <1>3, <1>4
  <2>2. U \in SUBSET Nat /\ below(y) \in SUBSET Nat
    BY <1>3
  <2> QED BY <1>2, <2>1, <2>2 DEF StrictSubsetOrdering
<1> QED BY <1>4

\* What holds of zero and of each number's successor holds of every number.
LEMMA NaturalInduction ==
  ASSUME NEW S, 0 \in S, \A n \in Nat : n \in S => n + 1 \in S
  PROVE  \A n \in Nat : n \in S
<1> SUFFICES ASSUME Nat \ S # {} PROVE FALSE
  OBVIOUS
<1>1. PICK x \in Nat \ S : \A y \in Nat \ S : x <= y
  BY LeastNumber
<1>2. x # 0 /\ x - 1 \in Nat /\ x - 1 \in S
  BY <1>1
<1> QED BY <1>1, <1>2

-----------------------------------------------------------------------------
(* What Guesses computes: its recursion defines a function.                 *)

\* A function satisfies the recursion at one pair of numbers ...
Unfolds(g, a, n) ==
  g[<<a, n>>] = IF a = 0 \/ n = 0 THEN 0 ELSE g[<<a - 1, n>>] + g[<<a, n - 1>>] + 1

\* ... and at all pairs of which the sum is at most m.
UnfoldsUpTo(g, m) == \A a, n \in Nat : a + n <= m => Unfolds(g, a, n)

\* These pairs, and the functions that do so there.
Triangle(m) == {x \in Nat \X Nat : x[1] + x[2] <= m}

Approximations(m) == {g \in [Triangle(m) -> Nat] : UnfoldsUpTo(g, m)}

\* The recursion leaves no choice ...
LEMMA UnfoldingsAgree ==
  ASSUME NEW m \in Nat, NEW g, NEW h, UnfoldsUpTo(g, m), UnfoldsUpTo(h, m)
  PROVE  \A a, n \in Nat : a + n <= m => g[<<a, n>>] = h[<<a, n>>]
<1> DEFINE Agree ==
             {k \in Nat : \A a, n \in Nat :
                            a + n <= k /\ a + n <= m => g[<<a, n>>] = h[<<a, n>>]}
<1>1. 0 \in Agree
  <2>1. ASSUME NEW a \in Nat, NEW n \in Nat, a + n <= 0, a + n <= m
        PROVE  g[<<a, n>>] = h[<<a, n>>]
    <3>1. Unfolds(g, a, n) /\ Unfolds(h, a, n) /\ a = 0
      BY <2>1 DEF UnfoldsUpTo
    <3> QED BY <3>1 DEF Unfolds
  <2> QED BY <2>1
<1>2. ASSUME NEW k \in Nat, k \in Agree PROVE k + 1 \in Agree
  <2> SUFFICES ASSUME NEW a \in Nat, NEW n \in Nat, a + n <= k + 1, a + n <= m
               PROVE  g[<<a, n>>] = h[<<a, n>>]
    OBVIOUS
  <2>1. CASE a = 0 \/ n = 0
    BY <2>1 DEF UnfoldsUpTo, Unfolds
  <2>2. CASE a # 0 /\ n # 0
    <3>1. /\ a - 1 \in Nat /\ (a - 1) + n <= k /\ (a - 1) + n <= m
          /\ n - 1 \in Nat /\ a + (n - 1) <= k /\ a + (n - 1) <= m
      BY <2>2
    <3>2. g[<<a - 1, n>>] = h[<<a - 1, n>>] /\ g[<<a, n - 1>>] = h[<<a, n - 1>>]
      BY <1>2, <3>1
    <3>3. Unfolds(g, a, n) /\ Unfolds(h, a, n)
      BY DEF UnfoldsUpTo
    <3> QED BY <2>2, <3>2, <3>3 DEF Unfolds
  <2> QED BY <2>1, <2>2
<1>3. \A k \in Nat : k \in Agree
  <2> HIDE DEF Agree
  <2> QED BY <1>1, <1>2, NaturalInduction
<1> QED BY <1>3

\* ... and can be satisfied as far as one likes.
LEMMA ApproximationsExist ==
  ASSUME NEW m \in Nat
  PROVE  Approximations(m) # {}
<1> DEFINE S == {k \in Nat : Approximations(k) # {}}
<1>1. 0 \in S
  <2> DEFINE g == [x \in Triangle(0) |-> 0]
  <2>1. g \in [Triangle(0) -> Nat]
    OBVIOUS
  <2>2. ASSUME NEW a \in Nat, NEW n \in Nat, a + n <= 0
        PROVE  Unfolds(g, a, n)
    <3>1. <<a, n>> \in Triangle(0) /\ a = 0
      BY <2>2 DEF Triangle
    <3> QED BY <3>1 DEF Unfolds
  <2>3. g \in Approximations(0)
    BY <2>1, <2>2 DEF Approximations, UnfoldsUpTo
  <2> QED BY <2>3
<1>2. ASSUME NEW k \in Nat, k \in S PROVE k + 1 \in S
  <2>1. PICK g \in [Triangle(k) -> Nat] : UnfoldsUpTo(g, k)
    BY <1>2 DEF Approximations
  <2> DEFINE value(a, n) == IF a = 0 \/ n = 0 THEN 0 ELSE g[<<a - 1, n>>] + g[<<a, n - 1>>] + 1
             h == [x \in Triangle(k + 1) |-> value(x[1], x[2])]
  <2>2. ASSUME NEW a \in Nat, NEW n \in Nat, a + n <= k + 1
        PROVE  <<a, n>> \in Triangle(k + 1) /\ h[<<a, n>>] = value(a, n)
    BY <2>2 DEF Triangle
  <2>3. ASSUME NEW a \in Nat, NEW n \in Nat, a + n <= k + 1, a # 0, n # 0
        PROVE  /\ <<a - 1, n>> \in Triangle(k) /\ <<a, n - 1>> \in Triangle(k)
               /\ g[<<a - 1, n>>] \in Nat /\ g[<<a, n - 1>>] \in Nat
    BY <2>3 DEF Triangle
  <2>4. ASSUME NEW a \in Nat, NEW n \in Nat, a + n <= k
        PROVE  g[<<a, n>>] = value(a, n)
    BY <2>1, <2>4 DEF UnfoldsUpTo, Unfolds
  <2>5. h \in [Triangle(k + 1) -> Nat]
    <3>1. ASSUME NEW x \in Triangle(k + 1) PROVE value(x[1], x[2]) \in Nat
      BY <2>3 DEF Triangle
    <3> QED BY <3>1
  <2> HIDE DEF h
  <2>6. ASSUME NEW a \in Nat, NEW n \in Nat, a + n <= k + 1
        PROVE  Unfolds(h, a, n)
    <3>1. CASE a = 0 \/ n = 0
      BY <2>2, <2>6, <3>1 DEF Unfolds
    <3>2. CASE a # 0 /\ n # 0
      <4>1. /\ a - 1 \in Nat /\ (a - 1) + n <= k /\ (a - 1) + n <= k + 1
            /\ n - 1 \in Nat /\ a + (n - 1) <= k /\ a + (n - 1) <= k + 1
        BY <2>6, <3>2
      <4>2. h[<<a - 1, n>>] = g[<<a - 1, n>>]
        <5> HIDE DEF value
        <5> QED BY <4>1, <2>2, <2>4
      <4>3. h[<<a, n - 1>>] = g[<<a, n - 1>>]
        <5> HIDE DEF value
        <5> QED BY <4>1, <2>2, <2>4
      <4>4. h[<<a, n>>] = g[<<a - 1, n>>] + g[<<a, n - 1>>] + 1
        BY <2>2, <2>6, <3>2
      <4> QED BY <3>2, <4>2, <4>3, <4>4 DEF Unfolds
    <3> QED BY <3>1, <3>2
  <2>7. h \in Approximations(k + 1)
    BY <2>5, <2>6 DEF Approximations, UnfoldsUpTo
  <2> QED BY <2>7
<1>3. \A k \in Nat : k \in S
  <2> HIDE DEF S
  <2> QED BY <1>1, <1>2, NaturalInduction
<1> QED BY <1>3

\* What the definition of Guesses says, and that its values are numbers.
LEMMA GuessesUnfold ==
  ASSUME NEW a \in Nat, NEW n \in Nat
  PROVE  Guesses[<<a, n>>] \in Nat /\ Unfolds(Guesses, a, n)
<1> DEFINE some(m) == CHOOSE g \in Approximations(m) : TRUE
           g == [x \in Nat \X Nat |-> some(x[1] + x[2])[x]]
           Body(h) == [left \in Nat \X Nat |->
                         LET b == left[1]
                             k == left[2]
                         IN IF b = 0 \/ k = 0 THEN 0 ELSE h[<<b - 1, k>>] + h[<<b, k - 1>>] + 1]
<1>1. \A m \in Nat : some(m) \in Approximations(m)
  BY ApproximationsExist
<1> HIDE DEF some
<1>2. ASSUME NEW b \in Nat, NEW k \in Nat
      PROVE  g[<<b, k>>] = some(b + k)[<<b, k>>]
  BY <1>2
<1> HIDE DEF g
<1>3. ASSUME NEW b \in Nat, NEW k \in Nat
      PROVE  g[<<b, k>>] \in Nat /\ Unfolds(g, b, k)
  <2> DEFINE m == b + k
  <2>0. m \in Nat /\ <<b, k>> \in Triangle(m)
    BY DEF Triangle
  <2>1. some(m) \in [Triangle(m) -> Nat] /\ UnfoldsUpTo(some(m), m)
    <3> HIDE DEF m
    <3> QED BY <1>1, <2>0 DEF Approximations
  <2>2. g[<<b, k>>] \in Nat /\ Unfolds(some(m), b, k)
    BY <1>2, <2>0, <2>1 DEF UnfoldsUpTo
  <2>3. CASE b = 0 \/ k = 0
    BY <1>2, <2>2, <2>3 DEF Unfolds
  <2>4. CASE b # 0 /\ k # 0
    <3>1. /\ b - 1 \in Nat /\ k - 1 \in Nat /\ m - 1 \in Nat
          /\ (b - 1) + k = m - 1 /\ b + (k - 1) = m - 1
      BY <2>4
    <3>2. UnfoldsUpTo(some(m - 1), m - 1) /\ UnfoldsUpTo(some(m), m - 1)
      BY <1>1, <2>0, <2>1, <3>1 DEF Approximations, UnfoldsUpTo
    <3>3. /\ some(m - 1)[<<b - 1, k>>] = some(m)[<<b - 1, k>>]
          /\ some(m - 1)[<<b, k - 1>>] = some(m)[<<b, k - 1>>]
      BY <3>1, <3>2, UnfoldingsAgree
    <3>4. /\ g[<<b - 1, k>>] = some(m)[<<b - 1, k>>]
          /\ g[<<b, k - 1>>] = some(m)[<<b, k - 1>>]
      BY <1>2, <3>1, <3>3
    <3> QED BY <1>2, <2>2, <2>4, <3>4 DEF Unfolds
  <2> QED BY <2>3, <2>4
<1>4. g = Body(g)
  <2>1. ASSUME NEW x \in Nat \X Nat PROVE g[x] = Body(g)[x]
    <3>1. x = <<x[1], x[2]>> /\ x[1] \in Nat /\ x[2] \in Nat
      OBVIOUS
    <3> QED BY <1>3, <3>1 DEF Unfolds
  <2>2. DOMAIN g = Nat \X Nat /\ g = [x \in Nat \X Nat |-> g[x]]
    BY DEF g
  <2> QED BY <2>1, <2>2
<1>5. Guesses = CHOOSE h : h = Body(h)
  BY DEF Guesses
<1>6. Guesses = Body(Guesses)
  <2> HIDE DEF Body
  <2> QED BY <1>4, <1>5
<1>7. ASSUME NEW b \in Nat, NEW k \in Nat PROVE Unfolds(Guesses, b, k)
  <2> DEFINE x == <<b, k>>
  <2>1. x \in Nat \X Nat /\ x[1] = b /\ x[2] = k
    OBVIOUS
  <2>2. Guesses[x] = Body(Guesses)[x]
    BY <1>6
  <2>3. Body(Guesses)[x]
          = IF b = 0 \/ k = 0 THEN 0 ELSE Guesses[<<b - 1, k>>] + Guesses[<<b, k - 1>>] + 1
    BY <2>1
  <2> QED BY <2>2, <2>3 DEF Unfolds
<1>8. Guesses[<<a, n>>] = g[<<a, n>>]
  <2>1. UnfoldsUpTo(g, a + n) /\ UnfoldsUpTo(Guesses, a + n)
    BY <1>3, <1>7, Zenon DEF UnfoldsUpTo
  <2> QED BY <2>1, UnfoldingsAgree
<1> QED BY <1>3, <1>7, <1>8

\* The recursion once more, in the form in which it is used: its values are numbers ...
LEMMA GuessesType == \A a, n \in Nat : Guesses[<<a, n>>] \in Nat
  BY GuessesUnfold

\* ... no thread can try anything, and nobody can without an attempt ...
LEMMA GuessesNone == \A a \in Nat : Guesses[<<0, a>>] = 0 /\ Guesses[<<a, 0>>] = 0
<1> TAKE a \in Nat
<1>1. Unfolds(Guesses, 0, a) /\ Unfolds(Guesses, a, 0)
  BY GuessesUnfold, Zenon
<1> QED BY <1>1 DEF Unfolds

\* ... and one attempt and one thread more.
LEMMA GuessesMore ==
  \A a, n \in Nat :
    Guesses[<<a + 1, n + 1>>] = Guesses[<<a, n + 1>>] + Guesses[<<a + 1, n>>] + 1
<1> TAKE a, n \in Nat
<1>1. a + 1 \in Nat /\ n + 1 \in Nat /\ (a + 1) - 1 = a /\ (n + 1) - 1 = n
      /\ a + 1 # 0 /\ n + 1 # 0
  OBVIOUS
<1>2. Unfolds(Guesses, a + 1, n + 1)
  BY <1>1, GuessesUnfold, Zenon
<1> QED BY <1>1, <1>2 DEF Unfolds

\* Another thread multiplies what can be tried while attempts are left.
LEMMA AnotherThread ==
  \A a, n \in Nat :
    /\ Guesses[<<a, n>>] <= Guesses[<<a, n + 1>>]
    /\ a # 0 => Guesses[<<a, n>>] + 1 <= Guesses[<<a, n + 1>>]
<1> TAKE a, n \in Nat
<1>1. CASE a = 0
  <2>0. n + 1 \in Nat
    OBVIOUS
  <2>1. Guesses[<<0, n>>] = 0 /\ Guesses[<<0, n + 1>>] = 0
    BY <2>0, GuessesNone, Zenon
  <2> QED BY <1>1, <2>1
<1>2. CASE a # 0
  <2>1. PICK b \in Nat : a = b + 1
    <3>1. a - 1 \in Nat /\ a = (a - 1) + 1
      BY <1>2
    <3> QED BY <3>1
  <2>2. /\ Guesses[<<a, n + 1>>] = Guesses[<<b, n + 1>>] + Guesses[<<a, n>>] + 1
        /\ Guesses[<<b, n + 1>>] \in Nat /\ Guesses[<<a, n>>] \in Nat
    BY <2>1, GuessesMore, GuessesType
  <2> QED BY <2>2
<1> QED BY <1>1, <1>2

\* So do several.
LEMMA MoreThreads ==
  ASSUME NEW a \in Nat, NEW m \in Nat, NEW n \in Nat, m <= n
  PROVE  /\ Guesses[<<a, m>>] <= Guesses[<<a, n>>]
         /\ a # 0 => Guesses[<<a, m>>] + (n - m) <= Guesses[<<a, n>>]
<1> DEFINE g(k) == Guesses[<<a, k>>]
           S == {k \in Nat : /\ g(m) <= g(m + k)
                             /\ a # 0 => g(m) + k <= g(m + k)}
<1>0. \A k \in Nat : g(k) \in Nat
  BY GuessesType
<1>1. 0 \in S
  <2>1. g(m) \in Nat /\ m + 0 = m
    BY <1>0
  <2> HIDE DEF g
  <2> QED BY <2>1
<1>2. ASSUME NEW k \in Nat, k \in S PROVE k + 1 \in S
  <2>1. m + k \in Nat /\ (m + k) + 1 = m + (k + 1) /\ m + (k + 1) \in Nat
    OBVIOUS
  <2>2. /\ g(m + k) <= g((m + k) + 1)
        /\ a # 0 => g(m + k) + 1 <= g((m + k) + 1)
    BY <2>1, AnotherThread
  <2>3. g(m) \in Nat /\ g(m + k) \in Nat /\ g(m + (k + 1)) \in Nat
    BY <1>0, <2>1
  <2> HIDE DEF g
  <2> QED BY <1>2, <2>1, <2>2, <2>3
<1>3. n - m \in S
  <2>1. n - m \in Nat
    OBVIOUS
  <2> HIDE DEF S
  <2> QED BY <1>1, <1>2, <2>1, NaturalInduction
<1>4. m + (n - m) = n
  OBVIOUS
<1> QED BY <1>3, <1>4

\* What n threads can try with one attempt more.
Gain(a, n) == Guesses[<<a + 1, n>>] - Guesses[<<a, n>>]

\* With a further thread that is what the others can try with all attempts, and one.
LEMMA GainOfOneMore ==
  ASSUME NEW a \in Nat, NEW n \in Nat
  PROVE  Gain(a, n + 1) = Guesses[<<a + 1, n>>] + 1
<1>1. Guesses[<<a + 1, n + 1>>] = Guesses[<<a, n + 1>>] + Guesses[<<a + 1, n>>] + 1
  BY GuessesMore
<1>2. a + 1 \in Nat /\ n + 1 \in Nat
  OBVIOUS
<1>3. Guesses[<<a, n + 1>>] \in Nat /\ Guesses[<<a + 1, n>>] \in Nat
  BY <1>2, GuessesType
<1> QED BY <1>1, <1>3 DEF Gain

\* A thread gains something ...
LEMMA GainType ==
  ASSUME NEW a \in Nat, NEW n \in Nat
  PROVE  Gain(a, n) \in Nat /\ (n # 0 => Gain(a, n) >= 1)
<1>0. a + 1 \in Nat
  OBVIOUS
<1>1. CASE n = 0
  <2>1. Guesses[<<a + 1, 0>>] = 0 /\ Guesses[<<a, 0>>] = 0
    BY <1>0, GuessesNone, Zenon
  <2> QED BY <1>1, <2>1 DEF Gain
<1>2. CASE n # 0
  <2>1. PICK k \in Nat : n = k + 1
    <3>1. n - 1 \in Nat /\ n = (n - 1) + 1
      BY <1>2
    <3> QED BY <3>1
  <2>2. Gain(a, n) = Guesses[<<a + 1, k>>] + 1 /\ Guesses[<<a + 1, k>>] \in Nat
    BY <1>0, <2>1, GainOfOneMore, GuessesType
  <2> QED BY <2>2
<1> QED BY <1>1, <1>2

\* ... and more threads gain more.
LEMMA GainGrows ==
  ASSUME NEW a \in Nat, NEW m \in Nat, NEW n \in Nat, m <= n
  PROVE  Gain(a, m) <= Gain(a, n)
<1>0. a + 1 \in Nat
  OBVIOUS
<1>1. CASE m = 0
  <2>0. Guesses[<<a + 1, 0>>] = 0 /\ Guesses[<<a, 0>>] = 0
    BY <1>0, GuessesNone, Zenon
  <2>1. Gain(a, 0) = 0
    BY <2>0 DEF Gain
  <2> QED BY <1>1, <2>1, GainType
<1>2. CASE m # 0
  <2>1. PICK i \in Nat, k \in Nat : m = i + 1 /\ n = k + 1
    <3>1. m - 1 \in Nat /\ n - 1 \in Nat /\ m = (m - 1) + 1 /\ n = (n - 1) + 1
      BY <1>2
    <3> QED BY <3>1
  <2>2. Guesses[<<a + 1, i>>] <= Guesses[<<a + 1, k>>]
    BY <1>0, <2>1, MoreThreads
  <2>3. Gain(a, m) = Guesses[<<a + 1, i>>] + 1 /\ Gain(a, n) = Guesses[<<a + 1, k>>] + 1
    BY <2>1, GainOfOneMore
  <2>4. Guesses[<<a + 1, i>>] \in Nat /\ Guesses[<<a + 1, k>>] \in Nat
    BY <1>0, GuessesType
  <2> QED BY <2>2, <2>3, <2>4
<1> QED BY <1>1, <1>2

-----------------------------------------------------------------------------
(* The ledger: what raising the count to each level may have cost.          *)

\* How many wrong passwords it may have taken to raise a count up to n, if h[j]
\* threads are not below j.
Ledger(n, h, s) ==
  /\ s \in [Nat -> Nat] /\ s[0] = 0
  /\ \A j \in Nat : j < n => s[j + 1] <= s[j] + Gain(Largest - (j + 1), h[j + 1])

\* The steps of a ledger in numbers.
LEMMA LedgerStep ==
  ASSUME Largest \in Nat, NEW n \in Nat, n <= Largest, NEW h \in [Nat -> Nat],
         NEW s, Ledger(n, h, s), NEW j \in Nat, j < n
  PROVE  /\ s[j + 1] <= s[j] + Gain(Largest - (j + 1), h[j + 1])
         /\ s[j] \in Nat /\ s[j + 1] \in Nat
         /\ j + 1 \in Nat /\ h[j + 1] \in Nat /\ Largest - (j + 1) \in Nat
         /\ (Largest - (j + 1)) + 1 = Largest - j
         /\ Gain(Largest - (j + 1), h[j + 1]) \in Nat
<1>1. /\ s[j + 1] <= s[j] + Gain(Largest - (j + 1), h[j + 1])
      /\ s \in [Nat -> Nat]
  BY DEF Ledger
<1>2. /\ j + 1 \in Nat /\ h[j + 1] \in Nat /\ Largest - (j + 1) \in Nat
      /\ (Largest - (j + 1)) + 1 = Largest - j
  OBVIOUS
<1>3. Gain(Largest - (j + 1), h[j + 1]) \in Nat
  BY <1>2, GainType
<1>4. s[j] \in Nat /\ s[j + 1] \in Nat
  BY <1>1, <1>2
<1> QED BY <1>1, <1>2, <1>3, <1>4

\* More threads only add to it.
LEMMA LedgerKept ==
  ASSUME Largest \in Nat, NEW n \in Nat, n <= Largest,
         NEW h \in [Nat -> Nat], NEW h1 \in [Nat -> Nat], NEW s, Ledger(n, h, s),
         \A j \in Nat : j <= n => h[j] <= h1[j]
  PROVE  Ledger(n, h1, s)
<1>1. ASSUME NEW j \in Nat, j < n
      PROVE  s[j + 1] <= s[j] + Gain(Largest - (j + 1), h1[j + 1])
  <2> DEFINE a == Largest - (j + 1)
  <2>1. /\ a \in Nat /\ h[j + 1] \in Nat /\ h1[j + 1] \in Nat /\ h[j + 1] <= h1[j + 1]
    BY <1>1
  <2>2. /\ s[j + 1] <= s[j] + Gain(a, h[j + 1]) /\ Gain(a, h[j + 1]) \in Nat
        /\ s[j] \in Nat /\ s[j + 1] \in Nat
    BY <1>1, LedgerStep
  <2> HIDE DEF a
  <2>3. Gain(a, h[j + 1]) <= Gain(a, h1[j + 1]) /\ Gain(a, h1[j + 1]) \in Nat
    BY <2>1, GainGrows, GainType
  <2>4. s[j + 1] <= s[j] + Gain(a, h1[j + 1])
    BY <2>2, <2>3
  <2> QED BY <2>4 DEF a
<1> QED BY <1>1 DEF Ledger

\* A count that is raised pays for one wrong password at least.
LEMMA LedgerRaised ==
  ASSUME Largest \in Nat, NEW n \in Nat, NEW m \in Nat, n < m, m <= Largest,
         NEW h \in [Nat -> Nat], NEW s, Ledger(n, h, s), \A j \in Nat : j > n => h[j] >= 1
  PROVE  \E s1 : Ledger(m, h, s1) /\ s1[m] >= s[n] + 1
<1> DEFINE s1 == [j \in Nat |-> IF j <= n THEN s[j] ELSE s[n] + (j - n)]
<1>1. s \in [Nat -> Nat] /\ s[0] = 0 /\ s[n] \in Nat
  BY DEF Ledger
<1>2. s1 \in [Nat -> Nat] /\ s1[0] = 0 /\ s1[m] >= s[n] + 1
  BY <1>1
<1>3. ASSUME NEW j \in Nat, j < m
      PROVE  s1[j + 1] <= s1[j] + Gain(Largest - (j + 1), h[j + 1])
  <2>1. CASE j < n
    <3>1. s1[j + 1] = s[j + 1] /\ s1[j] = s[j]
      BY <2>1
    <3>2. s[j + 1] <= s[j] + Gain(Largest - (j + 1), h[j + 1])
      BY <2>1 DEF Ledger
    <3> QED BY <3>1, <3>2
  <2>2. CASE ~(j < n)
    <3>a. s1[j + 1] = s[n] + ((j + 1) - n)
      BY <2>2
    <3>b. s1[j] = s[n] + (j - n)
      BY <1>1, <2>2
    <3>1. s1[j + 1] = s1[j] + 1 /\ s1[j] \in Nat
      <4> HIDE DEF s1
      <4> QED BY <1>1, <2>2, <3>a, <3>b
    <3>2. Largest - (j + 1) \in Nat /\ h[j + 1] \in Nat /\ h[j + 1] # 0
      BY <1>3, <2>2
    <3>3. Gain(Largest - (j + 1), h[j + 1]) >= 1 /\ Gain(Largest - (j + 1), h[j + 1]) \in Nat
      BY <3>2, GainType
    <3> HIDE DEF s1
    <3> QED BY <3>1, <3>3
  <2> QED BY <2>1, <2>2
<1> HIDE DEF s1
<1> QED BY <1>2, <1>3 DEF Ledger

\* A count that is taken back from n to c + 1 pays with what the thread that did so can
\* try from there, for no more than h[c + 1] others have tried anything since.
LEMMA LedgerTakenBack ==
  ASSUME Largest \in Nat, NEW n \in Nat, NEW c \in Nat, c < n, n <= Largest,
         NEW h \in [Nat -> Nat], NEW h1 \in [Nat -> Nat], NEW s, Ledger(n, h, s),
         \A j \in Nat : c < j => h[j] <= h[c + 1],
         \A j \in Nat : j <= c => h[j] <= h1[j],
         h[c + 1] + 1 <= h1[c + 1]
  PROVE  \E s1 : Ledger(c + 1, h1, s1) /\ s1[c + 1] = s[n] + 1
<1> DEFINE top == h[c + 1]
           g(i) == Guesses[<<Largest - i, top>>]
           S == {k \in Nat : c + k <= n => s[c + k] <= s[c] + g(c) - g(c + k)}
           s1 == [j \in Nat |-> IF j <= c THEN s[j] ELSE s[n] + 1]
<1>1. /\ s \in [Nat -> Nat] /\ s[0] = 0 /\ s[n] \in Nat /\ s[c] \in Nat
      /\ top \in Nat /\ c + 1 \in Nat
  BY DEF Ledger
<1>2. \A i \in Nat : i <= n => g(i) \in Nat
  <2> TAKE i \in Nat
  <2> HAVE i <= n
  <2>1. Largest - i \in Nat
    OBVIOUS
  <2> HIDE DEF top
  <2> QED BY <1>1, <2>1, GuessesType
<1>c. g(c) \in Nat /\ g(n) \in Nat
  <2>1. c <= n /\ n <= n
    OBVIOUS
  <2> HIDE DEF g
  <2> QED BY <1>2, <2>1
<1>3. 0 \in S
  <2>1. g(c) \in Nat /\ c + 0 = c
    BY <1>c
  <2> HIDE DEF g
  <2> QED BY <1>1, <2>1
<1>4. ASSUME NEW k \in Nat, k \in S PROVE k + 1 \in S
  <2> DEFINE i == c + k
  <2>0. c + (k + 1) = i + 1 /\ i \in Nat /\ c < i + 1
    OBVIOUS
  <2>1. SUFFICES ASSUME i + 1 <= n PROVE s[i + 1] <= s[c] + g(c) - g(i + 1)
    BY <2>0
  <2>2. i < n /\ i <= n
    BY <2>1
  <2>3. s[i] <= s[c] + g(c) - g(i)
    BY <1>4, <2>2
  <2> HIDE DEF i
  <2>4. /\ s[i + 1] <= s[i] + Gain(Largest - (i + 1), h[i + 1])
        /\ s[i] \in Nat /\ s[i + 1] \in Nat
        /\ i + 1 \in Nat /\ h[i + 1] \in Nat /\ Largest - (i + 1) \in Nat
        /\ (Largest - (i + 1)) + 1 = Largest - i
        /\ Gain(Largest - (i + 1), h[i + 1]) \in Nat
    BY <2>0, <2>2, LedgerStep
  <2>5. h[i + 1] <= top
    BY <2>0, <2>4
  <2>6. Gain(Largest - (i + 1), h[i + 1]) <= Gain(Largest - (i + 1), top)
    <3> HIDE DEF top
    <3> QED BY <1>1, <2>4, <2>5, GainGrows
  <2>7. Gain(Largest - (i + 1), top) = g(i) - g(i + 1)
    BY <2>4 DEF Gain
  <2>8. g(c) \in Nat /\ g(i) \in Nat /\ g(i + 1) \in Nat
    BY <1>2, <2>0, <2>1, <2>2, <2>4
  <2> HIDE DEF g
  <2> QED BY <1>1, <2>3, <2>4, <2>6, <2>7, <2>8
<1>5. s[n] <= s[c] + g(c)
  <2>1. n - c \in Nat /\ c + (n - c) = n /\ n <= n
    OBVIOUS
  <2>2. n - c \in S
    <3> HIDE DEF S
    <3> QED BY <1>3, <1>4, <2>1, NaturalInduction
  <2>3. g(n) \in Nat /\ g(c) \in Nat
    BY <1>c
  <2> HIDE DEF g
  <2> QED BY <1>1, <2>1, <2>2, <2>3
<1>6. s[n] + 1 <= s[c] + Gain(Largest - (c + 1), h1[c + 1])
  <2> DEFINE a == Largest - (c + 1)
  <2>1. a \in Nat /\ a + 1 = Largest - c /\ top + 1 \in Nat /\ h1[c + 1] \in Nat
        /\ top + 1 <= h1[c + 1]
    OBVIOUS
  <2>2. Gain(a, top + 1) = g(c) + 1
    <3>1. Gain(a, top + 1) = Guesses[<<a + 1, top>>] + 1
      <4> HIDE DEF a, top
      <4> QED BY <1>1, <2>1, GainOfOneMore
    <3> QED BY <2>1, <3>1
  <2>3. Gain(a, top + 1) <= Gain(a, h1[c + 1]) /\ Gain(a, h1[c + 1]) \in Nat
    <3> HIDE DEF a, top
    <3> QED BY <2>1, GainGrows, GainType
  <2>4. g(c) \in Nat
    BY <1>c
  <2> HIDE DEF g
  <2>5. s[n] + 1 <= s[c] + Gain(a, h1[c + 1])
    <3> HIDE DEF a, top
    <3> QED BY <1>1, <1>5, <2>2, <2>3, <2>4
  <2> QED BY <2>5
<1>7. s1 \in [Nat -> Nat] /\ s1[0] = 0 /\ s1[c + 1] = s[n] + 1
  BY <1>1
<1>8. ASSUME NEW j \in Nat, j < c + 1
      PROVE  s1[j + 1] <= s1[j] + Gain(Largest - (j + 1), h1[j + 1])
  <2>1. CASE j = c
    <3>1. s1[j + 1] = s[n] + 1 /\ s1[j] = s[c]
      BY <2>1
    <3> QED BY <1>6, <2>1, <3>1
  <2>2. CASE j < c
    <3>1. c <= Largest /\ Ledger(c, h, s)
      BY DEF Ledger
    <3>2. Ledger(c, h1, s)
      BY <3>1, LedgerKept
    <3>3. s1[j + 1] = s[j + 1] /\ s1[j] = s[j]
      BY <2>2
    <3>4. s[j + 1] <= s[j] + Gain(Largest - (j + 1), h1[j + 1])
      BY <2>2, <3>2 DEF Ledger
    <3> QED BY <3>3, <3>4
  <2> QED BY <1>8, <2>1, <2>2
<1> HIDE DEF s1
<1> QED BY <1>7, <1>8 DEF Ledger

\* What has been paid for, and what q[i] threads with counts below i have yet to
\* write, is no more than all threads can try.
LEMMA LedgerBounded ==
  ASSUME Largest \in Nat, NEW n \in Nat, n <= Largest,
         NEW h \in [Nat -> Nat], NEW q \in [Nat -> Nat], NEW s, Ledger(n, h, s),
         q[0] = 0,
         \A i \in Nat : q[i + 1] <= q[i] + (h[i] - h[i + 1]) /\ h[i + 1] <= h[i],
         \A i \in Nat : i >= Largest => q[i + 1] = q[i]
  PROVE  s[n] + q[n + 1] <= Guesses[<<Largest, h[0]>>] - Guesses[<<Largest - n, h[n + 1]>>]
<1> DEFINE g(i, k) == Guesses[<<Largest - i, h[k]>>]
           S == {i \in Nat : i <= n => s[i] + q[i + 1] <= g(0, 0) - g(i, i + 1)}
<1>1. \A i, k \in Nat : i <= n => g(i, k) \in Nat
  <2> TAKE i, k \in Nat
  <2> HAVE i <= n
  <2>1. Largest - i \in Nat /\ h[k] \in Nat
    OBVIOUS
  <2> QED BY <2>1, GuessesType
<1>2. ASSUME NEW i \in Nat, i <= n
      PROVE  q[i + 1] - q[i] <= g(i, i) - g(i, i + 1)
  <2>1. /\ Largest - i \in Nat /\ h[i] \in Nat /\ h[i + 1] \in Nat /\ h[i + 1] <= h[i]
        /\ q[i + 1] \in Nat /\ q[i] \in Nat /\ q[i + 1] <= q[i] + (h[i] - h[i + 1])
    BY <1>2
  <2>2. /\ g(i, i + 1) <= g(i, i)
        /\ Largest - i # 0 => g(i, i + 1) + (h[i] - h[i + 1]) <= g(i, i)
    BY <2>1, MoreThreads
  <2>3. Largest - i = 0 => q[i + 1] = q[i]
    OBVIOUS
  <2>4. g(i, i) \in Nat /\ g(i, i + 1) \in Nat
    BY <1>1, <1>2
  <2> HIDE DEF g
  <2> QED BY <2>1, <2>2, <2>3, <2>4
<1>3. 0 \in S
  <2>1. q[0 + 1] - q[0] <= g(0, 0) - g(0, 0 + 1) /\ s[0] = 0 /\ q[0 + 1] \in Nat
    BY <1>2 DEF Ledger
  <2>2. g(0, 0) \in Nat /\ g(0, 0 + 1) \in Nat
    BY <1>1
  <2> HIDE DEF g
  <2> QED BY <2>1, <2>2
<1>4. ASSUME NEW i \in Nat, i \in S PROVE i + 1 \in S
  <2> SUFFICES ASSUME i + 1 <= n
               PROVE  s[i + 1] + q[(i + 1) + 1] <= g(0, 0) - g(i + 1, (i + 1) + 1)
    OBVIOUS
  <2>1. i < n /\ i <= n /\ 0 <= n /\ i + 1 \in Nat /\ (i + 1) + 1 \in Nat
    OBVIOUS
  <2>2. /\ s[i + 1] <= s[i] + Gain(Largest - (i + 1), h[i + 1])
        /\ s[i] \in Nat /\ s[i + 1] \in Nat
        /\ (Largest - (i + 1)) + 1 = Largest - i
    BY <2>1, LedgerStep
  <2>3. Gain(Largest - (i + 1), h[i + 1]) = g(i, i + 1) - g(i + 1, i + 1)
    BY <2>2 DEF Gain
  <2>4. s[i] + q[i + 1] <= g(0, 0) - g(i, i + 1)
    BY <1>4, <2>1
  <2>5. q[(i + 1) + 1] - q[i + 1] <= g(i + 1, i + 1) - g(i + 1, (i + 1) + 1)
    BY <1>2, <2>1
  <2>6. /\ g(0, 0) \in Nat /\ g(i, i + 1) \in Nat /\ g(i + 1, i + 1) \in Nat
        /\ g(i + 1, (i + 1) + 1) \in Nat
    BY <1>1, <2>1
  <2>7. q[i + 1] \in Nat /\ q[(i + 1) + 1] \in Nat
    BY <2>1
  <2> HIDE DEF g
  <2> QED BY <2>2, <2>3, <2>4, <2>5, <2>6, <2>7
<1>5. n \in S
  <2> HIDE DEF S
  <2> QED BY <1>3, <1>4, NaturalInduction
<1>6. g(0, 0) = Guesses[<<Largest, h[0]>>]
  OBVIOUS
<1> QED BY <1>5, <1>6

-----------------------------------------------------------------------------
(* The largest limit.                                                       *)

USE LockoutAssumption

\* Finitely many numbers have a largest one.
LEMMA FiniteBounded ==
  ASSUME NEW S \in SUBSET Nat, IsFiniteSet(S)
  PROVE  \E m \in Nat : \A x \in S : x <= m
<1> DEFINE Bounded(T) == \E m \in Nat : \A x \in T : x <= m
           K == {k \in Nat : \A T \in SUBSET Nat :
                               IsFiniteSet(T) /\ Cardinality(T) = k => Bounded(T)}
<1>1. 0 \in K
  <2>1. ASSUME NEW T \in SUBSET Nat, IsFiniteSet(T), Cardinality(T) = 0 PROVE Bounded(T)
    <3>1. T = {}
      BY <2>1, FS_EmptySet
    <3> QED BY <3>1
  <2> QED BY <2>1
<1>2. ASSUME NEW k \in Nat, k \in K PROVE k + 1 \in K
  <2>1. ASSUME NEW T \in SUBSET Nat, IsFiniteSet(T), Cardinality(T) = k + 1 PROVE Bounded(T)
    <3>1. T # {}
      BY <2>1, FS_EmptySet
    <3>2. PICK y \in T : TRUE
      BY <3>1
    <3>a. IsFiniteSet(T \ {y}) /\ Cardinality(T \ {y}) = Cardinality(T) - 1
      BY <2>1, <3>2, FS_RemoveElement
    <3>3. T \ {y} \in SUBSET Nat /\ IsFiniteSet(T \ {y}) /\ Cardinality(T \ {y}) = k
      BY <2>1, <3>a
    <3>4. PICK m \in Nat : \A x \in T \ {y} : x <= m
      BY <1>2, <3>3
    <3>5. CASE m <= y
      BY <3>4, <3>5
    <3>6. CASE ~(m <= y)
      BY <3>4, <3>6
    <3> QED BY <3>5, <3>6
  <2> HIDE DEF Bounded
  <2> QED BY <2>1
<1>3. \A k \in Nat : k \in K
  <2> HIDE DEF K
  <2> QED BY <1>1, <1>2, NaturalInduction
<1>4. Cardinality(S) \in Nat
  BY FS_CardinalityType
<1> QED BY <1>3, <1>4

\* So there is a largest limit when there are finitely many.
LEMMA LargestAttempts ==
  ASSUME IsFiniteSet(Attempts)
  PROVE  Largest \in Attempts /\ Largest \in Nat /\ \A n \in Attempts : n <= Largest
<1> DEFINE U == {m \in Nat : \A n \in Attempts : n <= m}
<1>1. U # {}
  BY FiniteBounded
<1>2. PICK m \in U : \A k \in U : m <= k
  BY <1>1, LeastNumber
<1>3. m \in Attempts
  <2>1. CASE m = 0
    <3>1. PICK n \in Attempts : n \in Nat /\ n <= m
      BY <1>2
    <3> QED BY <2>1, <3>1
  <2>2. CASE m # 0
    <3>1. m - 1 \in Nat /\ m - 1 \notin U
      BY <1>2, <2>2
    <3>2. PICK n \in Attempts : ~(n <= m - 1)
      BY <3>1
    <3> QED BY <1>2, <3>2
  <2> QED BY <2>1, <2>2
<1>4. \E n \in Attempts : \A k \in Attempts : k <= n
  BY <1>2, <1>3
<1> QED BY <1>4 DEF Largest

-----------------------------------------------------------------------------
(* The invariant behind WrongPasswordsBounded.                              *)

\* The threads, doing what is given, in which no login of the user has loaded less
\* than j ...
NotBelow(now, u, j) ==
  {p \in Threads : now[p] # None /\ now[p].user = u => now[p].count >= j}

\* ... how many these are ...
Rank(now, u) == [j \in Nat |-> Cardinality(NotBelow(now, u, j))]

\* ... and those that have compared a wrong password and not yet written the count.
Unwritten(now, u) ==
  {p \in Threads : /\ now[p] # None /\ now[p].user = u
                   /\ now[p].step = "setBadPasswordCount"}

\* Each wrong password is not counted for good, is about to be counted, or was paid for
\* when the count was raised.
CoverOf(u) ==
  \E s : /\ Ledger(badPasswordCount[u], Rank(thread, u), s)
         /\ tested[u] <= lost + Cardinality(Unwritten(thread, u)) + s[badPasswordCount[u]]

TestedCovered == \A u \in Users : CoverOf(u)

\* Threads are finitely many, those with some count are too.
LEMMA RankType ==
  ASSUME NEW u, NEW now
  PROVE  /\ Rank(now, u) \in [Nat -> Nat]
         /\ \A j \in Nat : /\ Rank(now, u)[j] = Cardinality(NotBelow(now, u, j))
                           /\ IsFiniteSet(NotBelow(now, u, j))
<1>1. ASSUME NEW j \in Nat
      PROVE  IsFiniteSet(NotBelow(now, u, j)) /\ Cardinality(NotBelow(now, u, j)) \in Nat
  <2>1. NotBelow(now, u, j) \in SUBSET Threads
    BY DEF NotBelow
  <2> QED BY <2>1, FS_Subset, FS_CardinalityType
<1> QED BY <1>1 DEF Rank

\* So are those that are about to write.
LEMMA UnwrittenFinite ==
  ASSUME NEW u, NEW now
  PROVE  IsFiniteSet(Unwritten(now, u)) /\ Cardinality(Unwritten(now, u)) \in Nat
<1>1. Unwritten(now, u) \in SUBSET Threads
  BY DEF Unwritten
<1> QED BY <1>1, FS_Subset, FS_CardinalityType

\* The higher the count, the fewer threads are not below it ...
LEMMA RankFalls ==
  ASSUME NEW now \in [Threads -> Logins \cup {None}], NEW u,
         NEW i \in Nat, NEW j \in Nat, i <= j
  PROVE  /\ NotBelow(now, u, j) \subseteq NotBelow(now, u, i)
         /\ Rank(now, u)[j] <= Rank(now, u)[i]
<1>1. NotBelow(now, u, j) \subseteq NotBelow(now, u, i)
  BY DEF NotBelow, Logins
<1>2. IsFiniteSet(NotBelow(now, u, i))
  BY RankType
<1>3. Cardinality(NotBelow(now, u, j)) <= Cardinality(NotBelow(now, u, i))
  BY <1>1, <1>2, FS_Subset
<1> QED BY <1>1, <1>3, RankType

\* ... and none is below zero.
LEMMA RankAtZero ==
  ASSUME NEW now \in [Threads -> Logins \cup {None}], NEW u
  PROVE  NotBelow(now, u, 0) = Threads /\ Rank(now, u)[0] = Cardinality(Threads)
<1>1. NotBelow(now, u, 0) = Threads
  BY DEF NotBelow, Logins
<1> QED BY <1>1, RankType

\* The bound follows: what the ledger says was paid for, and the threads that are about
\* to write, are part of what all threads can try with all attempts.
LEMMA CoverBounded ==
  ASSUME IInv, TestedCovered, IsFiniteSet(Attempts)
  PROVE  WrongPasswordsBounded
<1> SUFFICES ASSUME NEW u \in Users
             PROVE  tested[u] <= Guesses[<<Largest, Cardinality(Threads)>>] + lost
  BY DEF WrongPasswordsBounded
<1> DEFINE n == badPasswordCount[u]
           h == Rank(thread, u)
           late(i) == Unwritten(thread, u) \ NotBelow(thread, u, i)
           q == [i \in Nat |-> Cardinality(late(i))]
<1>1. Largest \in Nat /\ n \in Nat /\ n <= Largest /\ lost \in Nat /\ tested[u] \in Nat
      /\ thread \in [Threads -> Logins \cup {None}]
  <2>1. PICK m \in Attempts : badPasswordCount[u] <= m
    BY DEF IInv, CountWithinLimit
  <2> QED BY <2>1, LargestAttempts DEF IInv, TypeOK
<1>2. PICK s : Ledger(n, h, s) /\ tested[u] <= lost + Cardinality(Unwritten(thread, u)) + s[n]
  BY DEF TestedCovered, CoverOf
<1>3. h \in [Nat -> Nat] /\ h[0] = Cardinality(Threads)
  BY <1>1, RankType, RankAtZero
<1>4. \A i \in Nat : IsFiniteSet(late(i)) /\ q[i] = Cardinality(late(i)) /\ q[i] \in Nat
  <2> TAKE i \in Nat
  <2>1. IsFiniteSet(late(i))
    BY UnwrittenFinite, FS_Subset
  <2> QED BY <2>1, FS_CardinalityType
<1>5. q \in [Nat -> Nat]
  BY <1>4
<1>6. q[0] = 0
  <2>1. late(0) = {}
    BY <1>1, RankAtZero DEF Unwritten
  <2> QED BY <1>4, <2>1, FS_EmptySet
<1>7. ASSUME NEW i \in Nat
      PROVE  q[i + 1] <= q[i] + (h[i] - h[i + 1]) /\ h[i + 1] <= h[i]
  <2> DEFINE between == NotBelow(thread, u, i) \ NotBelow(thread, u, i + 1)
  <2>1. i + 1 \in Nat /\ i <= i + 1
    OBVIOUS
  <2>2. NotBelow(thread, u, i + 1) \subseteq NotBelow(thread, u, i) /\ h[i + 1] <= h[i]
    BY <1>1, <2>1, RankFalls
  <2>3. late(i + 1) \subseteq late(i) \cup between
    OBVIOUS
  <2>4. IsFiniteSet(between) /\ Cardinality(between) = h[i] - h[i + 1]
    <3>1. NotBelow(thread, u, i) \cap NotBelow(thread, u, i + 1) = NotBelow(thread, u, i + 1)
      BY <2>2
    <3>2. IsFiniteSet(NotBelow(thread, u, i)) /\ h[i] = Cardinality(NotBelow(thread, u, i))
          /\ h[i + 1] = Cardinality(NotBelow(thread, u, i + 1))
      BY <1>1, <2>1, RankType
    <3> HIDE DEF h
    <3>3. /\ IsFiniteSet(between)
          /\ Cardinality(between)
               = Cardinality(NotBelow(thread, u, i))
                   - Cardinality(NotBelow(thread, u, i) \cap NotBelow(thread, u, i + 1))
      BY <3>2, FS_Difference
    <3> QED BY <3>1, <3>2, <3>3
  <2>5. /\ IsFiniteSet(late(i) \cup between)
        /\ Cardinality(late(i) \cup between) <= Cardinality(late(i)) + Cardinality(between)
    <3>1. IsFiniteSet(late(i)) /\ IsFiniteSet(between)
      BY <1>4, <2>4
    <3> HIDE DEF late, between
    <3>2. /\ IsFiniteSet(late(i) \cup between)
          /\ Cardinality(late(i) \cup between)
               = Cardinality(late(i)) + Cardinality(between)
                   - Cardinality(late(i) \cap between)
      BY <3>1, FS_Union
    <3>3. /\ Cardinality(late(i) \cap between) \in Nat
          /\ Cardinality(late(i)) \in Nat /\ Cardinality(between) \in Nat
      BY <3>1, FS_Intersection, FS_CardinalityType
    <3> QED BY <3>2, <3>3
  <2>6. Cardinality(late(i + 1)) <= Cardinality(late(i) \cup between)
    <3> HIDE DEF late, between
    <3> QED BY <2>3, <2>5, FS_Subset
  <2>7. /\ q[i] = Cardinality(late(i)) /\ q[i + 1] = Cardinality(late(i + 1))
        /\ q[i] \in Nat /\ q[i + 1] \in Nat /\ h[i] \in Nat /\ h[i + 1] \in Nat
        /\ Cardinality(late(i) \cup between) \in Nat
    <3>1. Cardinality(late(i) \cup between) \in Nat
      BY <2>5, FS_CardinalityType
    <3> HIDE DEF q, late, between, h
    <3> QED BY <1>3, <1>4, <2>1, <3>1
  <2> HIDE DEF q, late, between, h
  <2> QED BY <2>2, <2>4, <2>5, <2>6, <2>7
<1>8. ASSUME NEW i \in Nat, i >= Largest
      PROVE  late(i) = Unwritten(thread, u) /\ late(i + 1) = Unwritten(thread, u)
  <2>1. ASSUME NEW p \in Unwritten(thread, u)
        PROVE  p \notin NotBelow(thread, u, i) /\ p \notin NotBelow(thread, u, i + 1)
    <3>1. p \in Threads /\ thread[p] # None /\ thread[p].user = u
          /\ thread[p].step = "setBadPasswordCount"
      BY <2>1 DEF Unwritten
    <3>2. PICK m \in Attempts : thread[p].count < m
      BY <3>1 DEF IInv, LoginsChecked
    <3>3. m \in Nat /\ m <= Largest /\ thread[p].count \in Nat
      BY <1>1, <3>1, LargestAttempts, LoginType DEF IInv
    <3> QED BY <1>1, <1>8, <3>1, <3>2, <3>3 DEF NotBelow
  <2> QED BY <2>1
<1>9. \A i \in Nat : i >= Largest => q[i + 1] = q[i]
  <2> TAKE i \in Nat
  <2> HAVE i >= Largest
  <2>1. q[i] = Cardinality(late(i)) /\ q[i + 1] = Cardinality(late(i + 1))
    OBVIOUS
  <2> HIDE DEF q, late
  <2> QED BY <1>8, <2>1
<1>10. s[n] + q[n + 1] <= Guesses[<<Largest, h[0]>>] - Guesses[<<Largest - n, h[n + 1]>>]
  <2> HIDE DEF q, h, n
  <2> QED BY <1>1, <1>2, <1>3, <1>5, <1>6, <1>7, <1>9, LedgerBounded
<1>11. Cardinality(Unwritten(thread, u)) <= q[n + 1] + Guesses[<<Largest - n, h[n + 1]>>]
  <2>1. n + 1 \in Nat /\ h[n + 1] \in Nat /\ Largest - n \in Nat /\ q[n + 1] \in Nat
        /\ q[n + 1] = Cardinality(late(n + 1))
    <3>1. n + 1 \in Nat /\ Largest - n \in Nat
      BY <1>1
    <3> HIDE DEF q, h, n, late
    <3> QED BY <1>3, <1>4, <3>1
  <2>2. Guesses[<<Largest - n, h[n + 1]>>] \in Nat
    <3> HIDE DEF q, h, n
    <3> QED BY <2>1, GuessesType
  <2>3. CASE n = Largest
    <3>1. late(n + 1) = Unwritten(thread, u)
      BY <1>1, <1>8, <2>3
    <3> HIDE DEF q, h, n, late
    <3> QED BY <2>1, <2>2, <3>1
  <2>4. CASE n # Largest
    <3>1. Guesses[<<Largest - n, 0>>] = 0
      <4> HIDE DEF n
      <4> QED BY <2>1, GuessesNone
    <3>2. h[n + 1] <= Guesses[<<Largest - n, h[n + 1]>>]
      <4>1. Largest - n # 0 /\ 0 <= h[n + 1]
        BY <1>1, <2>1, <2>4
      <4>2. Guesses[<<Largest - n, 0>>] + (h[n + 1] - 0) <= Guesses[<<Largest - n, h[n + 1]>>]
        <5> HIDE DEF h, n
        <5> QED BY <2>1, <4>1, MoreThreads
      <4> HIDE DEF h, n
      <4> QED BY <2>1, <2>2, <3>1, <4>2
    <3>3. Cardinality(Unwritten(thread, u)) <= q[n + 1] + h[n + 1]
      <4> DEFINE within == Unwritten(thread, u) \cap NotBelow(thread, u, n + 1)
      <4>1. /\ IsFiniteSet(Unwritten(thread, u)) /\ IsFiniteSet(NotBelow(thread, u, n + 1))
            /\ h[n + 1] = Cardinality(NotBelow(thread, u, n + 1))
            /\ Cardinality(Unwritten(thread, u)) \in Nat
        BY <1>1, <2>1, RankType, UnwrittenFinite
      <4>2. Cardinality(late(n + 1)) = Cardinality(Unwritten(thread, u)) - Cardinality(within)
        BY <4>1, FS_Difference
      <4>3. Cardinality(within) <= h[n + 1] /\ Cardinality(within) \in Nat
        BY <4>1, FS_Intersection, FS_CardinalityType
      <4> HIDE DEF q, h, n, late, within
      <4> QED BY <2>1, <4>1, <4>2, <4>3
    <3>4. Cardinality(Unwritten(thread, u)) \in Nat
      BY UnwrittenFinite
    <3> HIDE DEF q, h, n
    <3> QED BY <2>1, <2>2, <3>2, <3>3, <3>4
  <2> QED BY <2>3, <2>4
<1>12. /\ s[n] \in Nat /\ Cardinality(Unwritten(thread, u)) \in Nat /\ q[n + 1] \in Nat
       /\ Guesses[<<Largest, h[0]>>] \in Nat /\ Guesses[<<Largest - n, h[n + 1]>>] \in Nat
  <2>1. n + 1 \in Nat /\ Largest - n \in Nat
    BY <1>1
  <2>2. s[n] \in Nat
    BY <1>1, <1>2 DEF Ledger
  <2>3. Cardinality(Unwritten(thread, u)) \in Nat
    BY UnwrittenFinite
  <2> HIDE DEF q, h, n
  <2>4. q[n + 1] \in Nat /\ h[0] \in Nat /\ h[n + 1] \in Nat
    BY <1>3, <1>5, <2>1
  <2> QED BY <1>1, <2>1, <2>2, <2>3, <2>4, GuessesType
<1> HIDE DEF q, h, n
<1> QED BY <1>1, <1>2, <1>3, <1>10, <1>11, <1>12

-----------------------------------------------------------------------------
(* Every action keeps it.                                                   *)

\* No count is above the largest limit.
LEMMA CountInRange ==
  ASSUME IInv, IsFiniteSet(Attempts), NEW u \in Users
  PROVE  /\ Largest \in Nat /\ badPasswordCount[u] \in Nat /\ badPasswordCount[u] <= Largest
         /\ tested[u] \in Nat /\ lost \in Nat /\ thread \in [Threads -> Logins \cup {None}]
<1>1. PICK m \in Attempts : badPasswordCount[u] <= m
  BY DEF IInv, CountWithinLimit
<1> QED BY <1>1, LargestAttempts DEF IInv, TypeOK

\* The cover stays when no thread falls below the count and each wrong password that
\* is compared will be counted or is lost.
LEMMA CoverKept ==
  ASSUME IInv, IsFiniteSet(Attempts), NEW u \in Users, CoverOf(u),
         badPasswordCount'[u] = badPasswordCount[u],
         \A j \in Nat : j <= badPasswordCount[u] =>
           NotBelow(thread, u, j) \subseteq NotBelow(thread', u, j),
         tested'[u] \in Nat, lost' \in Nat,
         tested'[u] + lost + Cardinality(Unwritten(thread, u))
           <= tested[u] + lost' + Cardinality(Unwritten(thread', u))
  PROVE  CoverOf(u)'
<1> DEFINE n == badPasswordCount[u]
           h == Rank(thread, u)
           h1 == Rank(thread', u)
           k == Cardinality(Unwritten(thread, u))
           k1 == Cardinality(Unwritten(thread', u))
<1>1. /\ Largest \in Nat /\ n \in Nat /\ n <= Largest /\ tested[u] \in Nat /\ lost \in Nat
      /\ h \in [Nat -> Nat] /\ h1 \in [Nat -> Nat] /\ k \in Nat /\ k1 \in Nat
  BY CountInRange, RankType, UnwrittenFinite
<1>2. PICK s : Ledger(n, h, s) /\ tested[u] <= lost + k + s[n]
  BY DEF CoverOf
<1>3. s[n] \in Nat
  BY <1>1, <1>2 DEF Ledger
<1>4. ASSUME NEW j \in Nat, j <= n PROVE h[j] <= h1[j]
  <2>1. NotBelow(thread, u, j) \subseteq NotBelow(thread', u, j)
    BY <1>4
  <2>2. /\ IsFiniteSet(NotBelow(thread', u, j))
        /\ h[j] = Cardinality(NotBelow(thread, u, j))
        /\ h1[j] = Cardinality(NotBelow(thread', u, j))
    BY RankType
  <2> HIDE DEF h, h1
  <2> QED BY <2>1, <2>2, FS_Subset
<1>5. Ledger(n, h1, s)
  <2> HIDE DEF n, h, h1
  <2> QED BY <1>1, <1>2, <1>4, LedgerKept
<1>6. tested'[u] <= lost' + k1 + s[n]
  <2>1. tested'[u] + lost + k <= tested[u] + lost' + k1
    OBVIOUS
  <2> HIDE DEF n, k, k1
  <2> QED BY <1>1, <1>2, <1>3, <2>1
<1> QED BY <1>5, <1>6 DEF CoverOf

\* A step of one thread that compares no password and writes no count.
LEMMA QuietStep ==
  ASSUME IInv, TestedCovered, IsFiniteSet(Attempts), NEW p \in Threads,
         UNCHANGED <<badPasswordCount, tested, lost>>,
         \A q \in Threads \ {p} : thread'[q] = thread[q],
         ~At(p, "setBadPasswordCount"), ~At(p, "setBadPasswordCount")',
         \/ thread'[p] = None
         \/ thread[p] # None /\ thread'[p].user = thread[p].user
                             /\ thread'[p].count = thread[p].count
         \/ thread'[p].count = badPasswordCount[thread'[p].user]
  PROVE  TestedCovered'
<1> SUFFICES ASSUME NEW u \in Users PROVE CoverOf(u)'
  BY DEF TestedCovered
<1>1. Unwritten(thread', u) = Unwritten(thread, u)
  BY DEF Unwritten, At
<1>2. ASSUME NEW j \in Nat, j <= badPasswordCount[u]
      PROVE  NotBelow(thread, u, j) \subseteq NotBelow(thread', u, j)
  <2>1. badPasswordCount[u] \in Nat
    BY CountInRange
  <2> QED BY <1>2, <2>1 DEF NotBelow
<1>3. /\ tested[u] \in Nat /\ lost \in Nat /\ Cardinality(Unwritten(thread, u)) \in Nat
  BY CountInRange, UnwrittenFinite
<1>4. CoverOf(u)
  BY DEF TestedCovered
<1> QED BY <1>1, <1>2, <1>3, <1>4, CoverKept

\* A wrong password is about to be counted.
LEMMA WrongPasswordCovered ==
  ASSUME IInv, TestedCovered, IsFiniteSet(Attempts), NEW p \in Threads, WrongPassword(p)
  PROVE  TestedCovered'
<1> SUFFICES ASSUME NEW u \in Users PROVE CoverOf(u)'
  BY DEF TestedCovered
<1>1. /\ thread[p] # None /\ thread[p].step = "passwordMatches"
      /\ thread'[p] \in Logins /\ thread'[p].step = "setBadPasswordCount"
      /\ thread'[p].user = thread[p].user /\ thread'[p].count = thread[p].count
      /\ \A q \in Threads \ {p} : thread'[q] = thread[q]
  <2>1. /\ thread[p] # None /\ thread[p].step = "passwordMatches"
        /\ Goto(p, "setBadPasswordCount") /\ TypeOK
    BY DEF WrongPassword, At, IInv
  <2>2. /\ thread' \in [Threads -> Logins \cup {None}]
        /\ thread'[p].step = "setBadPasswordCount"
        /\ thread'[p].user = thread[p].user /\ thread'[p].count = thread[p].count
        /\ \A q \in Threads \ {p} : thread'[q] = thread[q]
    BY <2>1, GotoFields DEF LoginSteps
  <2>3. thread'[p] \in Logins
    BY <2>1 DEF Goto, TypeOK, Logins, LoginSteps
  <2> QED BY <2>1, <2>2, <2>3
<1>2. thread'[p] # None
  BY <1>1
<1>3. ASSUME NEW j \in Nat, j <= badPasswordCount[u]
      PROVE  NotBelow(thread, u, j) \subseteq NotBelow(thread', u, j)
  BY <1>1, <1>2 DEF NotBelow
<1>4. /\ tested[u] \in Nat /\ lost \in Nat /\ CoverOf(u)
      /\ UNCHANGED <<badPasswordCount, lost>>
      /\ tested \in [Users -> Nat] /\ tested' = [tested EXCEPT ![thread[p].user] = @ + 1]
      /\ IsFiniteSet(Unwritten(thread, u)) /\ Cardinality(Unwritten(thread, u)) \in Nat
  BY CountInRange, UnwrittenFinite DEF TestedCovered, WrongPassword, IInv, TypeOK
<1>5. CASE thread[p].user = u
  <2>1. Unwritten(thread', u) = Unwritten(thread, u) \cup {p} /\ p \notin Unwritten(thread, u)
    BY <1>1, <1>2, <1>5 DEF Unwritten
  <2>2. Cardinality(Unwritten(thread', u)) = Cardinality(Unwritten(thread, u)) + 1
    BY <1>4, <2>1, FS_AddElement
  <2>3. tested'[u] = tested[u] + 1
    BY <1>4, <1>5
  <2>4. tested'[u] \in Nat /\ tested'[u] + lost + Cardinality(Unwritten(thread, u))
          <= tested[u] + lost' + Cardinality(Unwritten(thread', u))
    BY <1>4, <2>2, <2>3
  <2> QED BY <1>3, <1>4, <2>4, CoverKept
<1>6. CASE thread[p].user # u
  <2>1. Unwritten(thread', u) = Unwritten(thread, u) /\ tested'[u] = tested[u]
    BY <1>1, <1>4, <1>6 DEF Unwritten
  <2> QED BY <1>3, <1>4, <2>1, CoverKept
<1> QED BY <1>5, <1>6

\* A count that is not written is lost.
LEMMA CountNotWrittenCovered ==
  ASSUME IInv, TestedCovered, IsFiniteSet(Attempts), NEW p \in Threads, CountNotWritten(p)
  PROVE  TestedCovered'
<1> SUFFICES ASSUME NEW u \in Users PROVE CoverOf(u)'
  BY DEF TestedCovered
<1>1. /\ thread'[p] = None /\ \A q \in Threads \ {p} : thread'[q] = thread[q]
  BY DEF CountNotWritten, Idle, IInv, TypeOK
<1>3. ASSUME NEW j \in Nat, j <= badPasswordCount[u]
      PROVE  NotBelow(thread, u, j) \subseteq NotBelow(thread', u, j)
  BY <1>1 DEF NotBelow
<1>4. /\ tested[u] \in Nat /\ lost \in Nat /\ CoverOf(u)
      /\ UNCHANGED <<badPasswordCount, tested>>
      /\ lost' = lost + 1
      /\ IsFiniteSet(Unwritten(thread, u)) /\ Cardinality(Unwritten(thread, u)) \in Nat
  BY CountInRange, UnwrittenFinite DEF TestedCovered, CountNotWritten
<1>5. Unwritten(thread', u) = Unwritten(thread, u) \ {p}
  BY <1>1 DEF Unwritten
<1>6. Cardinality(Unwritten(thread', u)) \in Nat
      /\ Cardinality(Unwritten(thread, u)) <= Cardinality(Unwritten(thread', u)) + 1
  <2>1. /\ Cardinality(Unwritten(thread', u)) \in Nat
        /\ Cardinality(Unwritten(thread', u))
             = IF p \in Unwritten(thread, u) THEN Cardinality(Unwritten(thread, u)) - 1
                                             ELSE Cardinality(Unwritten(thread, u))
    BY <1>4, <1>5, UnwrittenFinite, FS_RemoveElement
  <2> QED BY <1>4, <2>1
<1>7. tested'[u] \in Nat /\ lost' \in Nat
      /\ tested'[u] + lost + Cardinality(Unwritten(thread, u))
           <= tested[u] + lost' + Cardinality(Unwritten(thread', u))
  BY <1>4, <1>6
<1> QED BY <1>3, <1>4, <1>7, CoverKept

\* A restart loses what was about to be counted.
LEMMA RestartCovered ==
  ASSUME IInv, TestedCovered, IsFiniteSet(Attempts), Restart
  PROVE  TestedCovered'
<1> SUFFICES ASSUME NEW u \in Users PROVE CoverOf(u)'
  BY DEF TestedCovered
<1>1. \A q \in Threads : thread'[q] = None
  BY DEF Restart
<1>3. ASSUME NEW j \in Nat, j <= badPasswordCount[u]
      PROVE  NotBelow(thread, u, j) \subseteq NotBelow(thread', u, j)
  BY <1>1 DEF NotBelow
<1>4. /\ tested[u] \in Nat /\ lost \in Nat /\ CoverOf(u)
      /\ UNCHANGED <<badPasswordCount, tested>>
      /\ lost' = lost + Cardinality(Uncounted)
      /\ Cardinality(Unwritten(thread, u)) \in Nat
  BY CountInRange, UnwrittenFinite DEF TestedCovered, Restart
<1>5. /\ Cardinality(Unwritten(thread, u)) <= Cardinality(Uncounted)
      /\ Cardinality(Uncounted) \in Nat
  <2>1. Unwritten(thread, u) \subseteq Uncounted
    BY DEF Unwritten, Uncounted, At
  <2>2. IsFiniteSet(Uncounted)
    BY FS_Subset DEF Uncounted
  <2> QED BY <2>1, <2>2, FS_Subset, FS_CardinalityType
<1>6. Cardinality(Unwritten(thread', u)) = 0
  <2>1. Unwritten(thread', u) = {}
    BY <1>1 DEF Unwritten
  <2> QED BY <2>1, FS_EmptySet
<1>7. tested'[u] \in Nat /\ lost' \in Nat
      /\ tested'[u] + lost + Cardinality(Unwritten(thread, u))
           <= tested[u] + lost' + Cardinality(Unwritten(thread', u))
  BY <1>4, <1>5, <1>6
<1> QED BY <1>3, <1>4, <1>7, CoverKept

\* The count that is written is one more than what was loaded: above what is there, or
\* below, when other threads have tried passwords meanwhile.
LEMMA SetBadPasswordCountCovered ==
  ASSUME IInv, TestedCovered, IsFiniteSet(Attempts), NEW p \in Threads, SetBadPasswordCount(p)
  PROVE  TestedCovered'
<1> SUFFICES ASSUME NEW u \in Users PROVE CoverOf(u)'
  BY DEF TestedCovered
<1> DEFINE c == thread[p].count
<1>1. /\ thread[p] # None /\ thread[p].step = "setBadPasswordCount"
      /\ thread'[p] = None /\ \A q \in Threads \ {p} : thread'[q] = thread[q]
      /\ badPasswordCount' = [badPasswordCount EXCEPT ![thread[p].user] = c + 1]
      /\ UNCHANGED <<tested, lost>>
  BY DEF SetBadPasswordCount, At, Idle, IInv, TypeOK
<1>2. /\ tested[u] \in Nat /\ lost \in Nat /\ CoverOf(u) /\ badPasswordCount \in [Users -> Nat]
      /\ thread \in [Threads -> Logins \cup {None}]
      /\ IsFiniteSet(Unwritten(thread, u)) /\ Cardinality(Unwritten(thread, u)) \in Nat
  BY CountInRange, UnwrittenFinite DEF TestedCovered, IInv, TypeOK
<1>3. ASSUME NEW j \in Nat
      PROVE  NotBelow(thread, u, j) \subseteq NotBelow(thread', u, j)
  BY <1>1 DEF NotBelow
<1>4. CASE thread[p].user # u
  <2>1. Unwritten(thread', u) = Unwritten(thread, u)
    BY <1>1, <1>4 DEF Unwritten
  <2>2. badPasswordCount'[u] = badPasswordCount[u]
    BY <1>1, <1>2, <1>4
  <2> QED BY <1>1, <1>2, <1>3, <2>1, <2>2, CoverKept
<1>5. CASE thread[p].user = u
  <2> DEFINE n == badPasswordCount[u]
             h == Rank(thread, u)
             h1 == Rank(thread', u)
             k == Cardinality(Unwritten(thread, u))
             k1 == Cardinality(Unwritten(thread', u))
  <2>1. badPasswordCount'[u] = c + 1
    BY <1>1, <1>2, <1>5
  <2>2. /\ Largest \in Nat /\ n \in Nat /\ n <= Largest /\ c \in Nat /\ c + 1 <= Largest
        /\ c + 1 \in Nat
    <3>1. PICK m \in Attempts : c < m
      BY <1>1 DEF IInv, LoginsChecked
    <3>2. m \in Nat /\ m <= Largest /\ Largest \in Nat
      BY LargestAttempts
    <3>3. c \in Nat
      BY <1>1, LoginType DEF IInv
    <3> HIDE DEF c
    <3> QED BY <3>1, <3>2, <3>3, CountInRange
  <2>3. h \in [Nat -> Nat] /\ h1 \in [Nat -> Nat]
    BY RankType
  <2>4. PICK s : Ledger(n, h, s) /\ tested[u] <= lost + k + s[n]
    BY <1>2 DEF CoverOf
  <2>5. s[n] \in Nat
    BY <2>2, <2>4 DEF Ledger
  <2>6. k1 \in Nat /\ k = k1 + 1
    <3>1. Unwritten(thread', u) = Unwritten(thread, u) \ {p} /\ p \in Unwritten(thread, u)
      BY <1>1, <1>5 DEF Unwritten
    <3>2. k1 = k - 1
      BY <1>2, <3>1, FS_RemoveElement
    <3>3. k1 \in Nat
      BY UnwrittenFinite
    <3> HIDE DEF k, k1
    <3> QED BY <1>2, <3>2, <3>3, UnwrittenFinite DEF k
  <2>7. ASSUME NEW j \in Nat PROVE h[j] <= h1[j] /\ h1[j] >= 1
    <3>1. /\ IsFiniteSet(NotBelow(thread', u, j))
          /\ h[j] = Cardinality(NotBelow(thread, u, j))
          /\ h1[j] = Cardinality(NotBelow(thread', u, j))
      BY RankType
    <3>2. {p} \in SUBSET NotBelow(thread', u, j)
      BY <1>1 DEF NotBelow
    <3>3. Cardinality({p}) = 1
      BY FS_Singleton
    <3> HIDE DEF h, h1
    <3> QED BY <1>3, <3>1, <3>2, <3>3, FS_Subset
  <2>8. ASSUME NEW s1, Ledger(c + 1, h1, s1), s1[c + 1] >= s[n] + 1
        PROVE  CoverOf(u)'
    <3>1. s1[c + 1] \in Nat
      BY <2>2, <2>8 DEF Ledger
    <3>2. tested'[u] <= lost' + k1 + s1[c + 1]
      <4> HIDE DEF k, k1, n, c
      <4> QED BY <1>1, <1>2, <2>4, <2>5, <2>6, <2>8, <3>1
    <3> HIDE DEF c
    <3> QED BY <2>1, <2>8, <3>2 DEF CoverOf
  <2>9. CASE c < n
    <3>1. ASSUME NEW j \in Nat, c < j PROVE h[j] <= h[c + 1]
      <4>1. c + 1 <= j
        BY <2>2, <3>1
      <4> HIDE DEF c
      <4> QED BY <1>2, <2>2, <4>1, RankFalls
    <3>2. h[c + 1] + 1 <= h1[c + 1]
      <4>1. /\ IsFiniteSet(NotBelow(thread, u, c + 1))
            /\ h[c + 1] = Cardinality(NotBelow(thread, u, c + 1))
            /\ h1[c + 1] = Cardinality(NotBelow(thread', u, c + 1))
        BY <2>2, RankType
      <4>2. /\ p \notin NotBelow(thread, u, c + 1)
            /\ NotBelow(thread', u, c + 1) = NotBelow(thread, u, c + 1) \cup {p}
        BY <1>1, <1>5, <2>2 DEF NotBelow
      <4>3. Cardinality(NotBelow(thread', u, c + 1))
              = Cardinality(NotBelow(thread, u, c + 1)) + 1
        BY <4>1, <4>2, FS_AddElement
      <4>4. h[c + 1] \in Nat
        BY <2>2, <2>3
      <4> HIDE DEF h, h1, c
      <4> QED BY <4>1, <4>3, <4>4
    <3>3. PICK s1 : Ledger(c + 1, h1, s1) /\ s1[c + 1] = s[n] + 1
      <4> HIDE DEF c, n, h, h1
      <4> QED BY <2>2, <2>3, <2>4, <2>7, <2>9, <3>1, <3>2, LedgerTakenBack
    <3>4. s1[c + 1] >= s[n] + 1
      BY <2>5, <3>3
    <3> QED BY <2>8, <3>3, <3>4
  <2>10. CASE ~(c < n)
    <3>1. Ledger(n, h1, s)
      <4> HIDE DEF n, h, h1
      <4> QED BY <2>2, <2>3, <2>4, <2>7, LedgerKept
    <3>2. n < c + 1
      BY <2>2, <2>10
    <3>3. PICK s1 : Ledger(c + 1, h1, s1) /\ s1[c + 1] >= s[n] + 1
      <4> HIDE DEF c, n, h, h1
      <4> QED BY <2>2, <2>3, <2>7, <3>1, <3>2, LedgerRaised
    <3> QED BY <2>8, <3>3
  <2> QED BY <2>9, <2>10
<1> QED BY <1>4, <1>5

\* At the start no password has been compared.
LEMMA InitCovered == ASSUME Init, IsFiniteSet(Attempts) PROVE TestedCovered
<1> SUFFICES ASSUME NEW u \in Users PROVE CoverOf(u)
  BY DEF TestedCovered
<1> DEFINE s == [j \in Nat |-> 0]
<1>1. Ledger(0, Rank(thread, u), s)
  <2>1. \A j \in Nat : ~(j < 0)
    OBVIOUS
  <2> QED BY <2>1 DEF Ledger
<1>2. badPasswordCount[u] = 0 /\ tested[u] = 0 /\ lost = 0
  BY DEF Init
<1>3. Cardinality(Unwritten(thread, u)) \in Nat /\ s[0] = 0
  BY UnwrittenFinite
<1> HIDE DEF s
<1>4. tested[u] <= lost + Cardinality(Unwritten(thread, u)) + s[badPasswordCount[u]]
  BY <1>2, <1>3
<1> QED BY <1>1, <1>2, <1>4 DEF CoverOf

\* Every step, or none, keeps the cover.
LEMMA NextCovered ==
  ASSUME IsFiniteSet(Attempts), IInv, TestedCovered, [Next]_vars
  PROVE  TestedCovered'
<1>1. ASSUME NEW p \in Threads, NEW u \in Users, LoadUserInfo(p, u) PROVE TestedCovered'
  <2>1. /\ thread[p] = None /\ \A q \in Threads \ {p} : thread'[q] = thread[q]
        /\ thread'[p].step = "getPasswordPolicy"
        /\ thread'[p].count = badPasswordCount[thread'[p].user]
    BY <1>1 DEF LoadUserInfo, IInv, TypeOK
  <2> QED BY <1>1, <2>1, QuietStep DEF LoadUserInfo, At
<1>2. ASSUME NEW p \in Threads, GetPasswordPolicy(p) PROVE TestedCovered'
  <2> DEFINE o == thread[p]
             o1 == [o EXCEPT !.step = "passwordPolicyValid"]
             o2 == [o EXCEPT !.step = "putPasswordPolicy", !.queried = attempts]
  <2>1. o \in Logins /\ attempts \in Attempts /\ o.step = "getPasswordPolicy" /\ o # None
    BY <1>2 DEF GetPasswordPolicy, At, IInv, TypeOK
  <2>2. /\ o1.step = "passwordPolicyValid" /\ o1.user = o.user /\ o1.count = o.count
        /\ o2.step = "putPasswordPolicy" /\ o2.user = o.user /\ o2.count = o.count
    BY <2>1 DEF Logins
  <2>3. \/ thread' = [thread EXCEPT ![p] = o1]
        \/ thread' = [thread EXCEPT ![p] = o2]
    BY <1>2 DEF GetPasswordPolicy
  <2> HIDE DEF o1, o2
  <2>4. /\ \A q \in Threads \ {p} : thread'[q] = thread[q]
        /\ thread'[p].step # "setBadPasswordCount"
        /\ thread'[p].user = o.user /\ thread'[p].count = o.count
    BY <2>2, <2>3 DEF IInv, TypeOK
  <2> QED BY <1>2, <2>1, <2>4, QuietStep DEF GetPasswordPolicy, At
<1>3. ASSUME NEW p \in Threads, NEW x \in LoginSteps \ {"setBadPasswordCount"}, Goto(p, x),
             thread[p] # None, ~At(p, "setBadPasswordCount"),
             UNCHANGED <<badPasswordCount, tested, lost>>
      PROVE  TestedCovered'
  <2>1. /\ thread'[p].step = x /\ thread'[p].user = thread[p].user
        /\ thread'[p].count = thread[p].count
        /\ \A q \in Threads \ {p} : thread'[q] = thread[q]
    BY <1>3, GotoFields DEF IInv
  <2> QED BY <1>3, <2>1, QuietStep DEF At
<1>4. ASSUME NEW p \in Threads, Idle(p), ~At(p, "setBadPasswordCount"),
             UNCHANGED <<badPasswordCount, tested, lost>>
      PROVE  TestedCovered'
  <2>1. thread'[p] = None /\ \A q \in Threads \ {p} : thread'[q] = thread[q]
    BY <1>4 DEF Idle, IInv, TypeOK
  <2> QED BY <1>4, <2>1, QuietStep DEF At
<1>5. ASSUME NEW p \in Threads, Step(p) PROVE TestedCovered'
  <2>1. CASE PutPasswordPolicy(p)
    BY <2>1, <1>3 DEF PutPasswordPolicy, At, LoginSteps
  <2>2. CASE PasswordPolicyValid(p)
    BY <2>2, <1>3 DEF PasswordPolicyValid, At, LoginSteps
  <2>3. CASE LockUser(p)
    BY <2>3, <1>4 DEF LockUser, At
  <2>4. CASE RightPassword(p)
    BY <2>4, <1>3 DEF RightPassword, At, LoginSteps
  <2>5. CASE LoggedIn(p)
    BY <2>5, <1>4 DEF LoggedIn, At
  <2> QED BY <1>2, <1>5, <2>1, <2>2, <2>3, <2>4, <2>5, WrongPasswordCovered,
             CountNotWrittenCovered, SetBadPasswordCountCovered DEF Step
<1>6. CASE (\E m \in Attempts : UpdatePolicy(m)) \/ UNCHANGED vars
  <2>1. UNCHANGED <<badPasswordCount, thread, tested, lost>>
    BY <1>6 DEF UpdatePolicy, vars
  <2> QED BY <2>1 DEF TestedCovered, CoverOf
<1>7. CASE Restart
  BY <1>7, RestartCovered
<1> QED BY <1>1, <1>5, <1>6, <1>7 DEF Next

\* Lost updates of setBadPasswordCount let through no more wrong passwords than Guesses
\* computes for the largest limit and the threads, for any number of either, plus one
\* for each write that failed.
THEOREM WrongPasswordsAreBounded ==
  ASSUME IsFiniteSet(Attempts)
  PROVE  Spec => []WrongPasswordsBounded
<1>1. Init => TestedCovered
  BY InitCovered
<1>2. IInv /\ TestedCovered /\ [Next]_vars => TestedCovered'
  BY NextCovered
<1>3. IInv /\ TestedCovered => WrongPasswordsBounded
  BY CoverBounded
<1> QED BY LoginInvariant, <1>1, <1>2, <1>3, PTL DEF Spec
=============================================================================
