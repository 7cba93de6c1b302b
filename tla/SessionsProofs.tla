--------------------------- MODULE SessionsProofs ---------------------------
(***************************************************************************)
(* Theorems of Sessions, for any users, keys, requests and length of life  *)
(* of a token.                                                             *)
(*                                                                         *)
(* A request reads twice and answers for both reads at once: a login reads *)
(* the row and then checks it, the filter reads the key and then looks at  *)
(* the clock.  Why that is right: what is right now has been right at some *)
(* moment (NowWasRight); a row that was found stands for the moment it was *)
(* found at, since emails are unique (FoundWasRight); and time only takes  *)
(* tokens away, so that one that still passes passed when its key was read *)
(* (KeyWasRight).                                                          *)
(***************************************************************************)
EXTENDS Sessions, TLAPS

Active == {"login", "loop", "sign", "filter", "verify"}

LoggingIn == {"login", "loop", "sign"}

NowWasRight == \A r \in Requests : pc[r] \in Active => Right(r, Login(r)) \in right[r]

EmailsUnique ==
  \A u, v \in Users :
    users[u] # Nobody /\ users[v] # Nobody /\ users[u][1] = users[v][1] => u = v

\* What a login found is one row, with the email it was asked for.
FoundOne ==
  \A r \in Requests :
    /\ pc[r] \in LoggingIn => asked[r] \in Rows
    /\ pc[r] = "loop" =>
         /\ \A row \in found[r] : row[1] = asked[r][1]
         /\ \A row, other \in found[r] : row = other
    /\ pc[r] = "sign" => found[r] = {}

FoundWasRight ==
  \A r \in Requests :
    /\ pc[r] = "loop" =>
         \A row \in found[r] : (IF row[2] = asked[r][2] THEN "200" ELSE "401") \in right[r]
    /\ pc[r] = "sign" => "200" \in right[r]

SignedWith(t, k) == t # NoToken /\ k # NoKey /\ t.key = k

KeyWasRight ==
  \A r \in Requests : pc[r] = "verify" =>
    /\ Accepted(token[r], secret[r], clock) => "admitted" \in right[r]
    /\ ~SignedWith(token[r], secret[r]) => "401" \in right[r]

Inv ==
  /\ TypeOK
  /\ NowWasRight
  /\ EmailsUnique
  /\ FoundOne
  /\ FoundWasRight
  /\ KeyWasRight
  /\ RightAtSomeMoment
  /\ AnsweredOnce

-----------------------------------------------------------------------------
(* Types *)

Codes == {"200", "400", "401", "500", "admitted"}

LEMMA InitTyped == Init => TypeOK
BY SessionsAssumption DEF Init, TypeOK, Rows

LEMMA RightTyped ==
  \A r : \A b \in BOOLEAN : Right(r, b) \in {"200", "401", "admitted"}
BY DEF Right

LEMMA AnswerTyped ==
  ASSUME TypeOK, NEW r \in Requests, NEW what \in Codes, Answer(r, what)
  PROVE  /\ answers' \in [Requests -> Nat]
         /\ answer' \in [Requests -> Codes \cup {"none"}]
BY DEF Answer, TypeOK, Codes

LEMMA WitnessedTyped ==
  ASSUME TypeOK, Witnessed
  PROVE  right' \in [Requests -> SUBSET {"200", "401", "admitted"}]
<1>1. \A r \in Requests : Right(r, Login(r))' \in {"200", "401", "admitted"}
  BY DEF Right
<1>2. \A r \in Requests : right[r] \in SUBSET {"200", "401", "admitted"}
  BY DEF TypeOK
<1> QED BY <1>1, <1>2 DEF Witnessed

LEMMA ComesTyped ==
  ASSUME TypeOK, NEW r \in Requests, Comes(r)
  PROVE  TypeOK'
<1>1. right' \in [Requests -> SUBSET {"200", "401", "admitted"}]
  BY WitnessedTyped DEF Comes
<1>2. CASE pc' = [pc EXCEPT ![r] = "login"]
  <2>1. \E row \in Rows : asked' = [asked EXCEPT ![r] = row]
    BY <1>2 DEF Comes, GoesTo, TypeOK
  <2>2. asked' \in [Requests -> Rows \cup {Nobody}] /\ token' = token
    BY <1>2, <2>1 DEF Comes, GoesTo, TypeOK
  <2> QED BY <1>1, <1>2, <2>2 DEF Comes, tableVars, TypeOK
<1>3. CASE pc' = [pc EXCEPT ![r] = "filter"]
  <2>1. asked' = asked /\ \E t \in tokens \cup {NoToken} : token' = [token EXCEPT ![r] = t]
    BY <1>3 DEF Comes, GoesTo, TypeOK
  <2>2. token' \in [Requests -> Token \cup {NoToken}]
    BY <2>1 DEF TypeOK
  <2> QED BY <1>1, <1>3, <2>1, <2>2 DEF Comes, tableVars, TypeOK
<1> QED BY <1>2, <1>3 DEF Comes, GoesTo

LEMMA SignedTyped ==
  ASSUME TypeOK, NEW e \in Emails
  PROVE  [key |-> key, email |-> e, expires |-> clock + TokenLife] \in Token
BY SessionsAssumption DEF TypeOK, Token

LEMMA HandleTyped ==
  ASSUME TypeOK, FoundOne, NEW r \in Requests, Handle(r) \/ Rejected(r)
  PROVE  TypeOK'
<1>1. CASE LookUp(r) \/ LookUpFails(r)
  <2>1. found' \in [Requests -> SUBSET Rows]
    BY <1>1 DEF LookUp, LookUpFails, FoundUsers, TypeOK
  <2>2. /\ \E next \in {"loop", "ended"} : pc' = [pc EXCEPT ![r] = next]
        /\ (\E what \in Codes : Answer(r, what)) \/ UNCHANGED <<answers, answer>>
        /\ UNCHANGED <<tableVars, alive, tokens, asked, token, secret, right>>
    BY <1>1 DEF LookUp, LookUpFails, GoesTo, Codes
  <2> QED BY <2>1, <2>2, AnswerTyped DEF TypeOK, tableVars, Codes
<1>2. CASE CheckPassword(r)
  <2>1. found' \in [Requests -> SUBSET Rows]
    BY <1>2 DEF CheckPassword, TypeOK
  <2>2. /\ \E next \in {"sign", "ended"} : pc' = [pc EXCEPT ![r] = next]
        /\ (\E what \in Codes : Answer(r, what)) \/ UNCHANGED <<answers, answer>>
        /\ UNCHANGED <<tableVars, alive, tokens, asked, token, secret, right>>
    BY <1>2 DEF CheckPassword, GoesTo, Codes
  <2> QED BY <2>1, <2>2, AnswerTyped DEF TypeOK, tableVars, Codes
<1>3. CASE Sign(r)
  <2>1. asked[r] \in Rows
    BY <1>3 DEF Sign, FoundOne, LoggingIn
  <2>2. asked[r][1] \in Emails
    BY <2>1 DEF Rows
  <2>3. tokens' \subseteq Token
    BY <1>3, <2>2, SignedTyped DEF Sign, TypeOK
  <2>4. Answer(r, "200") /\ pc' = [pc EXCEPT ![r] = IF found[r] = {} THEN "ended" ELSE "loop"]
        /\ UNCHANGED <<tableVars, alive, asked, token, found, secret, right>>
    BY <1>3 DEF Sign, GoesTo
  <2> QED BY <2>3, <2>4, AnswerTyped DEF TypeOK, tableVars, Codes
<1>4. CASE EnvGone(r)
  BY <1>4 DEF EnvGone, TypeOK, tableVars
<1>5. CASE ReadKey(r)
  BY <1>5 DEF ReadKey, GoesTo, TypeOK, tableVars
<1>6. CASE Verify(r) \/ Rejected(r)
  <2>1. /\ pc' = [pc EXCEPT ![r] = "ended"]
        /\ \E what \in Codes : Answer(r, what)
        /\ UNCHANGED <<tableVars, alive, tokens, asked, token, found, secret, right>>
    BY <1>6 DEF Verify, Rejected, GoesTo, Codes
  <2> QED BY <2>1, AnswerTyped DEF TypeOK, tableVars, Codes
<1> QED BY <1>1, <1>2, <1>3, <1>4, <1>5, <1>6 DEF Handle

\* What changes the table, .env or the clock.
Outside ==
  ChangeEnv \/ Tick \/ \E u \in Users : DeleteUser(u) \/ \E row \in Rows : WriteUser(u, row)

LEMMA OutsideOnly ==
  ASSUME Outside
  PROVE  /\ UNCHANGED <<alive, tokens, pc, asked, token, found, secret, answers, answer>>
         /\ Witnessed
BY DEF Outside, ChangeEnv, Tick, DeleteUser, WriteUser, Writes

LEMMA OutsideTyped ==
  ASSUME TypeOK, Outside
  PROVE  TypeOK'
<1>1. right' \in [Requests -> SUBSET {"200", "401", "admitted"}]
  BY OutsideOnly, WitnessedTyped
<1>2. users' \in [Users -> Rows \cup {Nobody}]
  BY DEF TypeOK, Outside, ChangeEnv, Tick, DeleteUser, WriteUser
<1>3. key' \in Keys /\ readable' \in BOOLEAN
  BY DEF TypeOK, Outside, ChangeEnv, Tick, DeleteUser, WriteUser
<1>4. clock' \in 0..MaxClock /\ writes' \in 0..MaxWrites
  <2>1. CASE Tick
    BY <2>1, SessionsAssumption DEF TypeOK, Tick
  <2>2. CASE Writes
    BY <2>2, SessionsAssumption DEF TypeOK, Writes
  <2> QED BY <2>1, <2>2 DEF Outside, ChangeEnv, DeleteUser, WriteUser
<1> QED BY <1>1, <1>2, <1>3, <1>4, OutsideOnly DEF TypeOK

LEMMA NextTyped ==
  ASSUME TypeOK, FoundOne, [Next]_vars
  PROVE  TypeOK'
<1>1. CASE UNCHANGED vars
  BY <1>1 DEF vars, tableVars, TypeOK
<1> QED
  BY <1>1, ComesTyped, HandleTyped, OutsideTyped DEF Next, Outside

-----------------------------------------------------------------------------
(* What was right *)

\* The history only grows.
LEMMA RightGrows ==
  ASSUME TypeOK, [Next]_vars, NEW r \in Requests
  PROVE  right[r] \subseteq right'[r]
<1>1. CASE Witnessed
  BY <1>1 DEF Witnessed
<1>2. ASSUME NEW s \in Requests, Handle(s) \/ Rejected(s)
      PROVE  right' = right
  BY <1>2 DEF Handle, LookUp, LookUpFails, CheckPassword, Sign, EnvGone, ReadKey, Verify, Rejected
<1>3. CASE \E s \in Requests : Comes(s)
  BY <1>1, <1>3 DEF Comes
<1>4. CASE UNCHANGED vars
  BY <1>4 DEF vars
<1> QED BY <1>1, <1>2, <1>3, <1>4, OutsideOnly DEF Next, Outside

\* What a step of the handler of s leaves alone.
LEMMA HandleLeaves ==
  ASSUME TypeOK, NEW s \in Requests, Handle(s) \/ Rejected(s)
  PROVE  /\ UNCHANGED <<users, key, clock, asked, token, right>>
         /\ \A r \in Requests \ {s} :
              /\ pc'[r] = pc[r] /\ found'[r] = found[r] /\ secret'[r] = secret[r]
              /\ answers'[r] = answers[r] /\ answer'[r] = answer[r]
         /\ pc'[s] \in LoggingIn => pc[s] \in LoggingIn
         /\ pc'[s] \in {"filter", "verify"} => pc[s] \in {"filter", "verify"}
         /\ pc'[s] # "new"
<1>1. CASE LookUp(s) \/ LookUpFails(s)
  BY <1>1 DEF LookUp, LookUpFails, Answer, GoesTo, TypeOK, tableVars, LoggingIn
<1>2. CASE CheckPassword(s) \/ Sign(s)
  BY <1>2 DEF CheckPassword, Sign, Answer, GoesTo, TypeOK, tableVars, LoggingIn
<1>3. CASE EnvGone(s) \/ ReadKey(s)
  BY <1>3 DEF EnvGone, ReadKey, GoesTo, TypeOK, tableVars, LoggingIn
<1>4. CASE Verify(s) \/ Rejected(s)
  BY <1>4 DEF Verify, Rejected, Answer, GoesTo, TypeOK, tableVars, LoggingIn
<1> QED BY <1>1, <1>2, <1>3, <1>4 DEF Handle

LEMMA NowStaysRight ==
  ASSUME TypeOK, NowWasRight, [Next]_vars
  PROVE  NowWasRight'
<1>1. CASE Witnessed
  BY <1>1 DEF Witnessed, NowWasRight, Active, Login, Filtering, TypeOK
<1>2. ASSUME NEW s \in Requests, Handle(s) \/ Rejected(s)
      PROVE  NowWasRight'
  <2> SUFFICES ASSUME NEW r \in Requests, pc'[r] \in Active
               PROVE  Right(r, Login(r))' \in right'[r]
    BY DEF NowWasRight
  <2>1. pc[r] \in Active /\ (pc'[r] \in LoggingIn <=> pc[r] \in LoggingIn)
    BY <1>2, HandleLeaves DEF Active, LoggingIn
  <2>2. Login(r)' = Login(r)
    BY <2>1 DEF Login, LoggingIn
  <2>3. Right(r, Login(r))' = Right(r, Login(r))
    BY <1>2, <2>2, HandleLeaves DEF Right
  <2> QED BY <1>2, <2>1, <2>3, HandleLeaves DEF NowWasRight
<1>3. CASE \E s \in Requests : Comes(s)
  BY <1>1, <1>3 DEF Comes
<1>4. CASE UNCHANGED vars
  BY <1>4 DEF vars, tableVars, NowWasRight, Right, Login, Accepted
<1> QED BY <1>1, <1>2, <1>3, <1>4, OutsideOnly DEF Next, Outside

LEMMA EmailsStayUnique ==
  ASSUME TypeOK, EmailsUnique, [Next]_vars
  PROVE  EmailsUnique'
<1>1. ASSUME NEW u \in Users, NEW row \in Rows, WriteUser(u, row)
      PROVE  EmailsUnique'
  BY <1>1 DEF WriteUser, EmailsUnique, TypeOK
<1>2. ASSUME NEW u \in Users, DeleteUser(u)
      PROVE  EmailsUnique'
  BY <1>2 DEF DeleteUser, EmailsUnique, TypeOK
<1>3. ASSUME users' = users
      PROVE  EmailsUnique'
  BY <1>3 DEF EmailsUnique
<1>4. ASSUME NEW s \in Requests, Handle(s) \/ Rejected(s) \/ Comes(s)
      PROVE  users' = users
  BY <1>4, HandleLeaves DEF Comes, tableVars
<1>5. CASE ChangeEnv \/ Tick \/ UNCHANGED vars
  BY <1>3, <1>5 DEF ChangeEnv, Tick, vars, tableVars
<1> QED BY <1>1, <1>2, <1>3, <1>4, <1>5 DEF Next

-----------------------------------------------------------------------------
(* A login *)

\* The row that a login finds for an email is the only one, and what to answer
\* for it is right at that moment.
LEMMA FoundIsRight ==
  ASSUME TypeOK, NowWasRight, EmailsUnique, FoundOne,
         NEW r \in Requests, pc[r] = "login", NEW u \in FoundUsers(r)
  PROVE  /\ users[u] \in Rows /\ users[u][1] = asked[r][1]
         /\ \A v \in FoundUsers(r) : v = u
         /\ (IF users[u][2] = asked[r][2] THEN "200" ELSE "401") \in right[r]
<1>1. u \in Users /\ users[u] # Nobody /\ users[u][1] = asked[r][1]
  BY DEF FoundUsers
<1>2. users[u] \in Rows /\ asked[r] \in Rows
  BY <1>1 DEF TypeOK, FoundOne, LoggingIn
<1>3. \A v \in FoundUsers(r) : v = u
  BY <1>1 DEF FoundUsers, EmailsUnique
<1>4. Right(r, TRUE) \in right[r]
  BY DEF NowWasRight, Active, Login
<1>5. CASE users[u][2] = asked[r][2]
  <2>1. users[u] = asked[r]
    BY <1>1, <1>2, <1>5 DEF Rows
  <2>2. Right(r, TRUE) = "200"
    BY <1>1, <2>1 DEF Right
  <2> QED BY <1>1, <1>2, <1>3, <1>4, <1>5, <2>2
<1>6. CASE users[u][2] # asked[r][2]
  <2>1. ASSUME NEW v \in Users, users[v] = asked[r]
        PROVE  FALSE
    <3>1. users[v] # Nobody
      BY <1>2, <2>1, SessionsAssumption DEF Rows
    <3>2. v \in FoundUsers(r)
      BY <2>1, <3>1 DEF FoundUsers
    <3> QED BY <1>3, <1>6, <2>1, <3>2
  <2>2. Right(r, TRUE) = "401"
    BY <2>1 DEF Right
  <2> QED BY <1>1, <1>2, <1>3, <1>4, <1>6, <2>2
<1> QED BY <1>5, <1>6

LEMMA FoundStays ==
  ASSUME TypeOK, NowWasRight, EmailsUnique, FoundOne, FoundWasRight,
         NEW s \in Requests, Handle(s) \/ Rejected(s)
  PROVE  FoundOne' /\ FoundWasRight'
<1> DEFINE
      Good(r) ==
        /\ pc[r] \in LoggingIn => asked[r] \in Rows
        /\ pc[r] = "loop" =>
             /\ \A row \in found[r] : row[1] = asked[r][1]
             /\ \A row, other \in found[r] : row = other
        /\ pc[r] = "sign" => found[r] = {}
      GoodRight(r) ==
        /\ pc[r] = "loop" =>
             \A row \in found[r] : (IF row[2] = asked[r][2] THEN "200" ELSE "401") \in right[r]
        /\ pc[r] = "sign" => "200" \in right[r]
<1>0. \A r \in Requests : Good(r) /\ GoodRight(r)
  BY DEF FoundOne, FoundWasRight
<1>1. \A r \in Requests \ {s} : Good(r)' /\ GoodRight(r)'
  <2>1. ASSUME NEW r \in Requests \ {s}
        PROVE  /\ pc'[r] = pc[r] /\ found'[r] = found[r]
               /\ asked'[r] = asked[r] /\ right'[r] = right[r]
    BY HandleLeaves
  <2> QED BY <1>0, <2>1
<1>2. pc'[s] \in LoggingIn => asked'[s] \in Rows
  BY HandleLeaves, <1>0
<1>3. CASE LookUp(s)
  <2>1. /\ pc[s] = "login" /\ pc' = [pc EXCEPT ![s] = IF FoundUsers(s) = {} THEN "ended" ELSE "loop"]
        /\ found' = [found EXCEPT ![s] = {users[u] : u \in FoundUsers(s)}]
        /\ UNCHANGED <<asked, right>>
    BY <1>3 DEF LookUp, GoesTo
  <2>2. pc'[s] \in {"loop", "ended"} /\ found'[s] = {users[u] : u \in FoundUsers(s)}
    BY <2>1 DEF TypeOK
  <2>3. ASSUME NEW row \in found'[s]
        PROVE  /\ row[1] = asked[s][1]
               /\ \A other \in found'[s] : row = other
               /\ (IF row[2] = asked[s][2] THEN "200" ELSE "401") \in right[s]
    <3>1. PICK u \in FoundUsers(s) : row = users[u]
      BY <2>2
    <3>2. \A other \in found'[s] : other = users[u]
      BY <2>1, <2>2, FoundIsRight
    <3> QED BY <2>1, <3>1, <3>2, FoundIsRight
  <2> QED BY <1>1, <1>2, <2>1, <2>2, <2>3 DEF FoundOne, FoundWasRight
<1>4. CASE CheckPassword(s)
  <2>1. PICK row \in found[s] :
          /\ found' = [found EXCEPT ![s] = @ \ {row}]
          /\ \/ row[2] = asked[s][2] /\ pc' = [pc EXCEPT ![s] = "sign"]
             \/ pc' = [pc EXCEPT ![s] = "ended"]
    BY <1>4 DEF CheckPassword, GoesTo
  <2>2. pc[s] = "loop" /\ UNCHANGED <<asked, right>>
    BY <1>4 DEF CheckPassword
  <2>3. found'[s] = {}
    BY <1>0, <2>1, <2>2 DEF TypeOK
  <2>4. pc'[s] \in {"sign", "ended"} /\ (pc'[s] = "sign" => "200" \in right'[s])
    BY <1>0, <2>1, <2>2 DEF TypeOK
  <2> QED BY <1>1, <1>2, <2>3, <2>4 DEF FoundOne, FoundWasRight
<1>5. CASE Sign(s)
  <2>1. pc[s] = "sign" /\ pc' = [pc EXCEPT ![s] = IF found[s] = {} THEN "ended" ELSE "loop"]
    BY <1>5 DEF Sign, GoesTo
  <2>2. pc'[s] = "ended"
    BY <1>0, <2>1 DEF TypeOK
  <2> QED BY <1>1, <1>2, <2>2 DEF FoundOne, FoundWasRight
<1>6. CASE LookUpFails(s) \/ ReadKey(s) \/ Verify(s) \/ Rejected(s)
  <2>1. pc'[s] \in {"ended", "verify"}
    BY <1>6 DEF LookUpFails, ReadKey, Verify, Rejected, GoesTo, TypeOK
  <2> QED BY <1>1, <1>2, <2>1 DEF FoundOne, FoundWasRight
<1>7. CASE EnvGone(s)
  BY <1>7 DEF EnvGone, FoundOne, FoundWasRight
<1> QED BY <1>3, <1>4, <1>5, <1>6, <1>7 DEF Handle

LEMMA FoundStaysNext ==
  ASSUME TypeOK, NowWasRight, EmailsUnique, FoundOne, FoundWasRight, [Next]_vars
  PROVE  FoundOne' /\ FoundWasRight'
<1>1. ASSUME NEW s \in Requests, Comes(s)
      PROVE  FoundOne' /\ FoundWasRight'
  <2>1. /\ found' = found
        /\ \A r \in Requests \ {s} : pc'[r] = pc[r] /\ asked'[r] = asked[r]
        /\ pc'[s] \in {"login", "filter"}
        /\ pc'[s] = "login" => asked'[s] \in Rows
    BY <1>1 DEF Comes, GoesTo, TypeOK
  <2>2. \A r \in Requests : right[r] \subseteq right'[r]
    BY RightGrows
  <2> QED BY <2>1, <2>2 DEF FoundOne, FoundWasRight, LoggingIn
<1>2. CASE Outside \/ UNCHANGED vars
  <2>1. UNCHANGED <<pc, asked, found>>
    BY <1>2, OutsideOnly DEF vars
  <2>2. \A r \in Requests : right[r] \subseteq right'[r]
    BY RightGrows
  <2> QED BY <2>1, <2>2 DEF FoundOne, FoundWasRight
<1> QED BY <1>1, <1>2, FoundStays DEF Next, Outside

-----------------------------------------------------------------------------
(* The filter *)

LEMMA ExpiryOf ==
  ASSUME TypeOK, NEW r \in Requests, token[r] # NoToken
  PROVE  token[r].expires \in Nat /\ clock \in Nat
<1>1. token[r] \in Token
  BY DEF TypeOK
<1> QED BY <1>1, SessionsAssumption DEF Token, TypeOK

\* The clock only goes forward.
LEMMA ClockGoesOn ==
  ASSUME TypeOK, [Next]_vars
  PROVE  clock' = clock \/ clock' = clock + 1
<1>1. ASSUME NEW s \in Requests, Handle(s) \/ Rejected(s) \/ Comes(s)
      PROVE  clock' = clock
  BY <1>1, HandleLeaves DEF Comes, tableVars
<1>2. CASE Outside \/ UNCHANGED vars
  BY <1>2 DEF Outside, ChangeEnv, DeleteUser, WriteUser, Writes, Tick, vars, tableVars
<1> QED BY <1>1, <1>2 DEF Next, Outside

LEMMA KeyStaysRight ==
  ASSUME TypeOK, NowWasRight, KeyWasRight, [Next]_vars
  PROVE  KeyWasRight'
<1> SUFFICES ASSUME NEW r \in Requests, pc'[r] = "verify"
             PROVE  /\ Accepted(token[r], secret[r], clock)' => "admitted" \in right'[r]
                    /\ ~SignedWith(token[r], secret[r])' => "401" \in right'[r]
  BY DEF KeyWasRight
<1>1. ASSUME pc[r] = "verify", token'[r] = token[r], secret'[r] = secret[r]
      PROVE  /\ Accepted(token[r], secret[r], clock)' => "admitted" \in right'[r]
             /\ ~SignedWith(token[r], secret[r])' => "401" \in right'[r]
  <2>1. right[r] \subseteq right'[r]
    BY RightGrows
  <2>2. ~SignedWith(token[r], secret[r])' => "401" \in right'[r]
    BY <1>1, <2>1 DEF KeyWasRight, SignedWith
  <2>3. Accepted(token[r], secret[r], clock)' => Accepted(token[r], secret[r], clock)
    <3>1. CASE token[r] = NoToken
      BY <1>1, <3>1 DEF Accepted
    <3>2. CASE token[r] # NoToken
      <4>1. token[r].expires \in Nat /\ clock \in Nat /\ clock <= clock'
        BY <3>2, ExpiryOf, ClockGoesOn
      <4>2. clock' \in Nat
        BY <4>1, ClockGoesOn
      <4> QED BY <1>1, <4>1, <4>2 DEF Accepted
    <3> QED BY <3>1, <3>2
  <2> QED BY <1>1, <2>1, <2>2, <2>3 DEF KeyWasRight
<1>2. ASSUME NEW s \in Requests, Handle(s) \/ Rejected(s), r # s
      PROVE  pc[r] = "verify" /\ token'[r] = token[r] /\ secret'[r] = secret[r]
  BY <1>2, HandleLeaves
<1>3. ASSUME Handle(r) \/ Rejected(r)
      PROVE  ReadKey(r) \/ (EnvGone(r) /\ UNCHANGED <<pc, token, secret>>)
  BY <1>3 DEF Handle, Rejected, LookUp, LookUpFails, CheckPassword, Sign, EnvGone, Verify,
              GoesTo, TypeOK
<1>4. CASE ReadKey(r)
  <2>1. pc[r] = "filter" /\ secret'[r] = key /\ UNCHANGED <<token, clock, right>>
    BY <1>4 DEF ReadKey, TypeOK, tableVars
  <2>2. Right(r, FALSE) \in right[r]
    <3>1. Login(r) = FALSE
      BY <2>1 DEF Login
    <3> QED BY <2>1, <3>1 DEF NowWasRight, Active
  <2>3. Accepted(token[r], key, clock) => "admitted" \in right[r]
    BY <2>2 DEF Right
  <2>4. ~Accepted(token[r], key, clock) => "401" \in right[r]
    BY <2>2 DEF Right
  <2> QED BY <2>1, <2>3, <2>4 DEF Accepted, SignedWith
<1>5. ASSUME NEW s \in Requests, Comes(s)
      PROVE  pc[r] = "verify" /\ token'[r] = token[r] /\ secret'[r] = secret[r]
  BY <1>5 DEF Comes, GoesTo, TypeOK
<1>6. CASE Outside \/ UNCHANGED vars
  BY <1>1, <1>6, OutsideOnly DEF vars
<1> QED BY <1>1, <1>2, <1>3, <1>4, <1>5, <1>6 DEF Next, Outside

-----------------------------------------------------------------------------
(* The two promises *)

LEMMA AnswersStayRight ==
  ASSUME TypeOK, NowWasRight, FoundOne, FoundWasRight, KeyWasRight, RightAtSomeMoment,
         [Next]_vars
  PROVE  RightAtSomeMoment'
<1> SUFFICES ASSUME NEW r \in Requests, answer'[r] \in {"200", "401", "admitted"}
             PROVE  answer'[r] \in right'[r]
  BY DEF RightAtSomeMoment
<1>1. ASSUME answer'[r] = answer[r]
      PROVE  answer'[r] \in right'[r]
  BY <1>1, RightGrows DEF RightAtSomeMoment
<1>2. CASE LookUp(r)
  <2>1. CASE FoundUsers(r) = {}
    <3>1. pc[r] = "login" /\ answer'[r] = "401" /\ right' = right
      BY <1>2, <2>1 DEF LookUp, Answer, TypeOK
    <3>2. asked[r] \in Rows /\ Right(r, TRUE) \in right[r]
      BY <3>1 DEF FoundOne, LoggingIn, NowWasRight, Active, Login
    <3>3. \A u \in Users : users[u] # asked[r]
      BY <2>1, <3>2, SessionsAssumption DEF FoundUsers, Rows
    <3> QED BY <3>1, <3>2, <3>3 DEF Right
  <2>2. CASE FoundUsers(r) # {}
    BY <1>1, <1>2, <2>2 DEF LookUp
  <2> QED BY <2>1, <2>2
<1>3. CASE CheckPassword(r)
  <2>1. PICK row \in found[r] :
          \/ row[2] = asked[r][2] /\ answer' = answer
          \/ row[2] # asked[r][2] /\ Answer(r, "401")
    BY <1>3 DEF CheckPassword
  <2>2. pc[r] = "loop" /\ right' = right
    BY <1>3 DEF CheckPassword
  <2>3. row[2] # asked[r][2] => answer'[r] = "401" /\ "401" \in right[r]
    BY <2>1, <2>2 DEF FoundWasRight, Answer, TypeOK
  <2> QED BY <1>1, <2>1, <2>2, <2>3
<1>4. CASE Sign(r)
  BY <1>4 DEF Sign, Answer, FoundWasRight, TypeOK
<1>5. CASE Verify(r)
  <2>1. pc[r] = "verify" /\ right' = right /\ answer'[r] = IF Verified(r) THEN "admitted" ELSE "401"
    BY <1>5 DEF Verify, Answer, TypeOK
  <2>2. Verified(r) => "admitted" \in right[r]
    BY <2>1 DEF KeyWasRight, Verified
  <2>3. ASSUME ~Verified(r)
        PROVE  "401" \in right[r]
    <3>1. CASE ~SignedWith(token[r], secret[r])
      BY <2>1, <3>1 DEF KeyWasRight
    <3>2. CASE SignedWith(token[r], secret[r])
      <4>1. ~Accepted(token[r], key, clock)
        BY <2>3, <3>2 DEF Verified, Accepted, SignedWith
      <4>2. Right(r, FALSE) = "401"
        BY <4>1 DEF Right
      <4>3. Login(r) = FALSE
        BY <2>1 DEF Login
      <4> QED BY <2>1, <4>2, <4>3 DEF NowWasRight, Active
    <3> QED BY <3>1, <3>2
  <2> QED BY <2>1, <2>2, <2>3
<1>6. CASE LookUpFails(r) \/ Rejected(r)
  <2>1. answer'[r] \in {"400", "500"}
    BY <1>6 DEF LookUpFails, Rejected, Answer, TypeOK
  <2> QED BY <2>1
<1>7. ASSUME NEW s \in Requests, Handle(s) \/ Rejected(s), s # r
      PROVE  answer'[r] = answer[r]
  BY <1>7, HandleLeaves
<1>8. ASSUME EnvGone(r) \/ ReadKey(r) \/ (\E s \in Requests : Comes(s)) \/ Outside
             \/ UNCHANGED vars
      PROVE  answer'[r] = answer[r]
  BY <1>8, OutsideOnly DEF EnvGone, ReadKey, Comes, vars
<1> QED
  BY <1>1, <1>2, <1>3, <1>4, <1>5, <1>6, <1>7, <1>8 DEF Next, Handle, Outside

LEMMA StaysAnsweredOnce ==
  ASSUME TypeOK, FoundOne, AnsweredOnce, [Next]_vars
  PROVE  AnsweredOnce'
<1> SUFFICES ASSUME NEW r \in Requests
             PROVE  answers'[r] = (IF pc'[r] = "ended" THEN 1 ELSE 0)
  BY DEF AnsweredOnce
<1>0. answers[r] = (IF pc[r] = "ended" THEN 1 ELSE 0)
  BY DEF AnsweredOnce
<1>1. CASE LookUp(r) \/ LookUpFails(r) \/ Rejected(r) \/ Verify(r)
  BY <1>0, <1>1 DEF LookUp, LookUpFails, Rejected, Verify, Answer, GoesTo, TypeOK
<1>2. CASE CheckPassword(r)
  BY <1>0, <1>2 DEF CheckPassword, Answer, GoesTo, TypeOK
<1>3. CASE Sign(r)
  <2>1. pc[r] = "sign" /\ found[r] = {}
    BY <1>3 DEF Sign, FoundOne
  <2> QED BY <1>0, <1>3, <2>1 DEF Sign, Answer, GoesTo, TypeOK
<1>4. CASE EnvGone(r) \/ ReadKey(r)
  BY <1>0, <1>4 DEF EnvGone, ReadKey, GoesTo, TypeOK
<1>5. ASSUME NEW s \in Requests, Handle(s) \/ Rejected(s), s # r
      PROVE  answers'[r] = answers[r] /\ pc'[r] = pc[r]
  BY <1>5, HandleLeaves
<1>6. ASSUME NEW s \in Requests, Comes(s)
      PROVE  answers'[r] = (IF pc'[r] = "ended" THEN 1 ELSE 0)
  BY <1>0, <1>6 DEF Comes, GoesTo, TypeOK
<1>7. CASE Outside \/ UNCHANGED vars
  BY <1>0, <1>7, OutsideOnly DEF vars
<1> QED
  BY <1>0, <1>1, <1>2, <1>3, <1>4, <1>5, <1>6, <1>7 DEF Next, Handle, Outside

LEMMA Inductive == Spec => []Inv
<1>1. Init => Inv
  <2> SUFFICES ASSUME Init
               PROVE  Inv
    OBVIOUS
  <2>1. \A r \in Requests : pc[r] = "new" /\ answers[r] = 0 /\ answer[r] = "none"
    BY DEF Init
  <2>2. EmailsUnique
    BY DEF Init, EmailsUnique
  <2> QED
    BY InitTyped, <2>1, <2>2
    DEF Inv, NowWasRight, Active, FoundOne, LoggingIn, FoundWasRight, KeyWasRight,
        RightAtSomeMoment, AnsweredOnce
<1>2. Inv /\ [Next]_vars => Inv'
  BY NextTyped, NowStaysRight, EmailsStayUnique, FoundStaysNext, KeyStaysRight,
     AnswersStayRight, StaysAnsweredOnce DEF Inv
<1> QED BY <1>1, <1>2, PTL DEF Spec

\* Every variable has its type.
THEOREM TypeCorrect == Spec => []TypeOK
<1>1. Inv => TypeOK
  BY DEF Inv
<1> QED BY <1>1, Inductive, PTL

\* Logins and the filter answer what was right at one moment of the request,
\* for any users, keys and life of a token (AuthFilter.cc:13).
THEOREM AnswersAreRight == Spec => []RightAtSomeMoment
<1>1. Inv => RightAtSomeMoment
  BY DEF Inv
<1> QED BY <1>1, Inductive, PTL

\* The loop over the users answers at most once (AuthController.cc:44).
THEOREM OneAnswerEach == Spec => []AnsweredOnce
<1>1. Inv => AnsweredOnce
  BY DEF Inv
<1> QED BY <1>1, Inductive, PTL
=============================================================================
