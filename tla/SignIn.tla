------------------------------- MODULE SignIn -------------------------------
(***************************************************************************)
(* The sign-in page and its lockout (identity/throttle.py, LoginView of    *)
(* identity/views.py, failed_logins_since of identity/audit.py).           *)
(*                                                                         *)
(* There is no counter: the lockout counts the failed sign-ins the audit   *)
(* log holds for a name within a window.  A post reads that count first    *)
(* and writes its own failure later, so posts in flight together all pass  *)
(* the same count.  A row of the audit log is kept here with its age, as   *)
(* long as it is no older than the window.                                 *)
(***************************************************************************)
EXTENDS Naturals, FiniteSets

CONSTANTS Spellings,   \* what may be typed as a username
          Canonical,   \* canonical_username: spelling -> name
          Posts,       \* sign-in posts that may be in flight together
          Threshold,   \* FAILURE_THRESHOLD
          Window       \* WINDOW, in ticks of the clock

ASSUME SignInAssumption ==
    /\ Threshold \in Nat \ {0} /\ Window \in Nat \ {0}
    /\ IsFiniteSet(Posts) /\ Canonical \in [Spellings -> Spellings]

VARIABLES failures,    \* the LOGIN_FAILED rows of the window
          signing,     \* the spelling a post that passed the count was made with
          signedIn     \* names signed in

signVars == <<failures, signing, signedIn>>

Names == {Canonical[s] : s \in Spellings}
Ages == 0..Window
NoPost == "none"

AuditEvent == [pk : Nat, name : Names, age : Ages]

SignTypeOK ==
    /\ failures \subseteq AuditEvent /\ IsFiniteSet(failures)
    /\ signing \in [Posts -> Spellings \cup {NoPost}]
    /\ signedIn \subseteq Names

SignInit ==
    /\ failures = {}
    /\ signing = [p \in Posts |-> NoPost]
    /\ signedIn = {}

\* failed_logins_since: the rows no older than the window.
FailuresOf(n) == {row \in failures : row.name = n}
Failed(n) == Cardinality(FailuresOf(n))

LockedOut_Above(s) == Failed(Canonical[s]) > Threshold

LockedOut(s) == Failed(Canonical[s]) >= Threshold

\* A primary key none of the window's rows has.
FreshPk == CHOOSE i \in 0..Cardinality(failures) : \A row \in failures : row.pk # i

\* form_invalid writes the row under the canonical name.
RecordFailure(s) == failures' = failures \cup {[pk |-> FreshPk, name |-> Canonical[s], age |-> 0]}

\* LoginView.post: a name that is locked out is answered and nothing is
\* written; any other goes on to the password.
Post(p, s) ==
    /\ signing[p] = NoPost
    /\ IF LockedOut(s) THEN UNCHANGED signing ELSE signing' = [signing EXCEPT ![p] = s]
    /\ UNCHANGED <<failures, signedIn>>

WrongPassword(p) ==
    /\ signing[p] # NoPost
    /\ RecordFailure(signing[p])
    /\ signing' = [signing EXCEPT ![p] = NoPost]
    /\ UNCHANGED signedIn

\* form_valid: the failures of the name stay where they are.
RightPassword(p) ==
    /\ signing[p] # NoPost
    /\ signedIn' = signedIn \cup {Canonical[signing[p]]}
    /\ signing' = [signing EXCEPT ![p] = NoPost]
    /\ UNCHANGED failures

SignOut(n) == n \in signedIn /\ signedIn' = signedIn \ {n} /\ UNCHANGED <<failures, signing>>

\* Time passes: a row older than the window no longer counts.
Tick ==
    /\ failures' = {[row EXCEPT !.age = @ + 1] : row \in {x \in failures : x.age < Window}}
    /\ UNCHANGED <<signing, signedIn>>

SignNext ==
    \/ \E p \in Posts, s \in Spellings : Post(p, s)
    \/ \E p \in Posts : WrongPassword(p)
    \/ \E p \in Posts : RightPassword(p)
    \/ \E n \in Names : SignOut(n)
    \/ Tick

\* Only the clock is sure to go on.
SignSpec == SignInit /\ [][SignNext]_signVars /\ WF_signVars(Tick)

\* Posts that are past the count, by the name they are about.
PastTheCount(n) == {p \in Posts : signing[p] # NoPost /\ Canonical[signing[p]] = n}

(* A window holds at most Threshold failures of one name, however it is
   spelled, and one more for every further post that was already past the count
   (LoginView.post reads the count before the password is tried). *)
GuessesAreBounded ==
    \A n \in Names : Failed(n) + Cardinality(PastTheCount(n)) <= Threshold - 1 + Cardinality(Posts)

(* A lockout ends by itself: a refused post is no failure (LoginView.post
   returns before form_invalid), so going on trying does not prolong it. *)
LockoutEnds == \A n \in Names : (Failed(n) >= Threshold) ~> (Failed(n) < Threshold)
=============================================================================
