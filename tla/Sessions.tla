------------------------------ MODULE Sessions ------------------------------
(***************************************************************************)
(* Logins and the filter of the protected routes.  A login looks for the   *)
(* user of an email, checks the password against what it read, reads the   *)
(* SECRET_KEY from .env and signs a token with it.  The filter reads the   *)
(* key again for each request and checks the token of the request with it. *)
(* Meanwhile users are written and deleted, the key is changed, and time   *)
(* passes.                                                                 *)
(*                                                                         *)
(* Of bcrypt and JWT (external): a password matches the hash made of it, a *)
(* token is accepted with the key it was signed with until it expires.     *)
(***************************************************************************)
EXTENDS Naturals

CONSTANTS
  Requests,   \* the requests, each of them a login or one with a token
  Users, Emails, Passwords,
  Keys,       \* what SECRET_KEY may be; NoKey if .env has none or an empty one
  NoKey, Nobody, NoToken,
  TokenLife,  \* the 3600 seconds
  MaxClock,   \* bound of the clock
  MaxWrites   \* bound: writes of users and of .env

ASSUME SessionsAssumption ==
  /\ TokenLife \in Nat /\ MaxClock \in Nat /\ MaxWrites \in Nat
  /\ NoKey \in Keys
  /\ Nobody \notin Emails \X Passwords

VARIABLES
  users,    \* the email and the password of each row, or Nobody
  key,      \* SECRET_KEY in .env now
  readable, \* .env can be opened
  alive,    \* the process has not exited
  clock,
  tokens,   \* the tokens that were handed out
  pc,       \* where each request is
  asked,    \* the credentials that a login came with
  token,    \* the token that another request came with
  found,    \* the users a login has read and not gone through
  secret,   \* the key a request has read
  answers,  \* how many answers a request got
  answer,   \* the last of them
  right,    \* history: the answers that were right at some moment of the request
  writes

tableVars == <<users, key, readable, clock, writes>>
vars == <<tableVars, alive, tokens, pc, asked, token, found, secret, answers, answer, right>>

Rows == Emails \X Passwords

Token == [key : Keys, email : Emails, expires : 0..MaxClock + TokenLife]

Init ==
  /\ users = [u \in Users |-> Nobody]
  /\ key \in Keys \ {NoKey}
  /\ readable = TRUE /\ alive = TRUE
  /\ clock = 0
  /\ tokens = {}
  /\ pc = [r \in Requests |-> "new"]
  /\ asked = [r \in Requests |-> Nobody]
  /\ token = [r \in Requests |-> NoToken]
  /\ found = [r \in Requests |-> {}]
  /\ secret = [r \in Requests |-> NoKey]
  /\ answers = [r \in Requests |-> 0]
  /\ answer = [r \in Requests |-> "none"]
  /\ right = [r \in Requests |-> {}]
  /\ writes = 0

-----------------------------------------------------------------------------
Accepted(t, k, now) ==
  t # NoToken /\ k # NoKey /\ t.key = k /\ now <= t.expires

\* What a request should be answered if the answer was made up at once.
Right(r, login) ==
  IF login
  THEN IF \E u \in Users : users[u] = asked[r] THEN "200" ELSE "401"
  ELSE IF Accepted(token[r], key, clock) THEN "admitted" ELSE "401"

Login(r) == pc[r] \in {"login", "loop", "sign"}

Filtering(r) == pc[r] \in {"filter", "verify"}

\* A change of what answers depend on gives the requests under way one more
\* moment to be answered for.
Witnessed ==
  right' = [r \in Requests |->
    IF Login(r)' \/ Filtering(r)' THEN right[r] \cup {Right(r, Login(r))'} ELSE right[r]]

Answer(r, what) ==
  /\ answers' = [answers EXCEPT ![r] = @ + 1]
  /\ answer' = [answer EXCEPT ![r] = what]

GoesTo(r, next) == pc' = [pc EXCEPT ![r] = next]

\* A request that is refused before it gets to the database or the key.
Rejected(r) ==
  /\ alive /\ pc[r] = "new"
  /\ GoesTo(r, "ended")
  /\ \E what \in {"400", "500"} : Answer(r, what)
  /\ UNCHANGED <<tableVars, alive, tokens, asked, token, found, secret, right>>

Comes(r) ==
  /\ alive /\ pc[r] = "new"
  /\ \/ /\ \E row \in Rows : asked' = [asked EXCEPT ![r] = row]
        /\ GoesTo(r, "login")
        /\ UNCHANGED token
     \/ /\ \E t \in tokens \cup {NoToken} : token' = [token EXCEPT ![r] = t]
        /\ GoesTo(r, "filter")
        /\ UNCHANGED asked
  /\ UNCHANGED <<tableVars, alive, tokens, found, secret, answers, answer>>
  /\ Witnessed

-----------------------------------------------------------------------------
(* AuthController::asyncHandleHttpRequest() *)

FoundUsers(r) == {u \in Users : users[u] # Nobody /\ users[u][1] = asked[r][1]}

\* Mutant: nothing is answered if no user is found.
LookUpInSilence(r) ==
  /\ alive /\ pc[r] = "login"
  /\ found' = [found EXCEPT ![r] = {users[u] : u \in FoundUsers(r)}]
  /\ GoesTo(r, "loop")
  /\ UNCHANGED <<tableVars, alive, tokens, asked, token, secret, answers, answer, right>>

LookUp(r) ==
  /\ alive /\ pc[r] = "login"
  /\ found' = [found EXCEPT ![r] = {users[u] : u \in FoundUsers(r)}]
  /\ IF FoundUsers(r) = {}
     THEN Answer(r, "401") /\ GoesTo(r, "ended")
     ELSE GoesTo(r, "loop") /\ UNCHANGED <<answers, answer>>
  /\ UNCHANGED <<tableVars, alive, tokens, asked, token, secret, right>>

\* The exception of the query is answered by the framework.
LookUpFails(r) ==
  /\ alive /\ pc[r] = "login"
  /\ Answer(r, "500")
  /\ GoesTo(r, "ended")
  /\ UNCHANGED <<tableVars, alive, tokens, asked, token, found, secret, right>>

\* One turn of the loop over the users: a wrong password ends it.
CheckPassword(r) ==
  /\ alive /\ pc[r] = "loop"
  /\ \E row \in found[r] :
       /\ found' = [found EXCEPT ![r] = @ \ {row}]
       /\ IF row[2] = asked[r][2]
          THEN GoesTo(r, "sign") /\ UNCHANGED <<answers, answer>>
          ELSE Answer(r, "401") /\ GoesTo(r, "ended")
  /\ UNCHANGED <<tableVars, alive, tokens, asked, token, secret, right>>

\* readEnvFile() ends the process if it cannot open the file.
EnvGone(r) ==
  /\ alive /\ pc[r] \in {"sign", "filter"} /\ ~readable
  /\ alive' = FALSE
  /\ UNCHANGED <<tableVars, tokens, pc, asked, token, found, secret, answers, answer, right>>

\* The key is read, the token signed and answered; the loop goes on.
Sign(r) ==
  /\ alive /\ pc[r] = "sign" /\ readable
  /\ tokens' = tokens \cup
       {[key |-> key, email |-> asked[r][1], expires |-> clock + TokenLife]}
  /\ Answer(r, "200")
  /\ GoesTo(r, IF found[r] = {} THEN "ended" ELSE "loop")
  /\ UNCHANGED <<tableVars, alive, asked, token, found, secret, right>>

-----------------------------------------------------------------------------
(* AuthFilter::doFilter() and verifyJWT() *)

ReadKey(r) ==
  /\ alive /\ pc[r] = "filter" /\ readable
  /\ secret' = [secret EXCEPT ![r] = key]
  /\ GoesTo(r, "verify")
  /\ UNCHANGED <<tableVars, alive, tokens, asked, token, found, answers, answer, right>>

\* Mutant: the token is decoded, and its time not looked at.
VerifiedForEver(r) == Accepted(token[r], secret[r], 0)

Verified(r) == Accepted(token[r], secret[r], clock)

Verify(r) ==
  /\ alive /\ pc[r] = "verify"
  /\ Answer(r, IF Verified(r) THEN "admitted" ELSE "401")
  /\ GoesTo(r, "ended")
  /\ UNCHANGED <<tableVars, alive, tokens, asked, token, found, secret, right>>

-----------------------------------------------------------------------------
(* What happens meanwhile. *)

Writes ==
  /\ writes < MaxWrites /\ writes' = writes + 1
  /\ UNCHANGED <<clock, alive, tokens, pc, asked, token, found, secret, answers, answer>>
  /\ Witnessed

\* createUser() and updateUser(): emails are unique in the table.
WriteUser(u, row) ==
  /\ alive
  /\ \A v \in Users \ {u} : users[v] # Nobody => users[v][1] # row[1]
  /\ users' = [users EXCEPT ![u] = row]
  /\ UNCHANGED <<key, readable>>
  /\ Writes

DeleteUser(u) ==
  /\ alive /\ users[u] # Nobody
  /\ users' = [users EXCEPT ![u] = Nobody]
  /\ UNCHANGED <<key, readable>>
  /\ Writes

ChangeEnv ==
  /\ \/ key' \in Keys \ {key} /\ UNCHANGED readable
     \/ readable' = ~readable /\ UNCHANGED key
  /\ UNCHANGED users
  /\ Writes

Tick ==
  /\ clock < MaxClock
  /\ clock' = clock + 1
  /\ UNCHANGED <<users, key, readable, writes, alive, tokens, pc, asked, token, found, secret, answers, answer>>
  /\ Witnessed

Handle(r) ==
  \/ LookUp(r) \/ LookUpFails(r) \/ CheckPassword(r) \/ Sign(r) \/ EnvGone(r)
  \/ ReadKey(r) \/ Verify(r)

Next ==
  \/ \E r \in Requests : Rejected(r) \/ Comes(r) \/ Handle(r)
  \/ \E u \in Users : DeleteUser(u) \/ \E row \in Rows : WriteUser(u, row)
  \/ ChangeEnv
  \/ Tick

Spec == Init /\ [][Next]_vars

\* The threads of the framework go on with the requests they have.
FairSpec == Spec /\ \A r \in Requests : WF_vars(Handle(r))

-----------------------------------------------------------------------------
TypeOK ==
  /\ users \in [Users -> Rows \cup {Nobody}]
  /\ key \in Keys /\ readable \in BOOLEAN /\ alive \in BOOLEAN
  /\ clock \in 0..MaxClock
  /\ tokens \subseteq Token
  /\ pc \in [Requests -> {"new", "login", "loop", "sign", "filter", "verify", "ended"}]
  /\ asked \in [Requests -> Rows \cup {Nobody}]
  /\ token \in [Requests -> Token \cup {NoToken}]
  /\ found \in [Requests -> SUBSET Rows]
  /\ secret \in [Requests -> Keys]
  /\ answers \in [Requests -> Nat]
  /\ answer \in [Requests -> {"none", "200", "400", "401", "500", "admitted"}]
  /\ right \in [Requests -> SUBSET {"200", "401", "admitted"}]
  /\ writes \in 0..MaxWrites

\* Users change and keys are rotated while a request goes from one read to the
\* next, and yet each login and each filter answers what was right at one moment
\* of the request: no password of an earlier row, no key of an earlier .env and
\* no expired token passes, and none is refused that was good throughout.
RightAtSomeMoment ==
  \A r \in Requests : answer[r] \in {"200", "401", "admitted"} => answer[r] \in right[r]

\* The callback is called in the loop over the users that were found: only the
\* unique emails make one answer of it (AuthController.cc:44-70).
AnsweredOnce ==
  \A r \in Requests : answers[r] = (IF pc[r] = "ended" THEN 1 ELSE 0)

\* A request that has come is answered, or the process has exited because .env
\* was gone (Env.h:16).
Answered ==
  \A r \in Requests : pc[r] # "new" ~> pc[r] = "ended" \/ ~alive
=============================================================================
