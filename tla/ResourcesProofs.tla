-------------------------- MODULE ResourcesProofs --------------------------
(***************************************************************************)
(* Theorems of Resources, for any number of threads and of rows: its types, *)
(* that only early requests assign the client, and that the handlers       *)
(* implement RestResource, whose one step Effect is theirs of the          *)
(* statement, and whose Answer is the end of the handler.                  *)
(*                                                                         *)
(* Theorems of Records, whose objects the handlers write with, for any     *)
(* class, table, JSON and number of clients: what validation promises, what *)
(* an update and an insert make of a row, and that JSON is read as written. *)
(***************************************************************************)
EXTENDS Resources, Records, TLAPS

Pcs == {"idle", "check", "assign", "assigning", "use", "execute", "answer"}

Effects == {"pending", "invalid", "done", "missing", "failed", "unknown"}

\* Where a handler is says what became of its statement and of its answer.
InStep ==
  \A t \in Threads :
    /\ pc[t] = "idle" => req[t] = Idle \/ status[t] # 0
    /\ pc[t] # "idle" => req[t] # Idle /\ status[t] = 0
    /\ pc[t] \in {"check", "assign", "assigning", "use", "execute"} => effect[t] = "pending"
    /\ pc[t] = "answer" => effect[t] # "pending"

\* A statement needs the client, and the client stays.
NeedsClient ==
  \A t \in Threads :
    /\ pc[t] = "execute" => client
    /\ pc[t] = "answer" /\ ~client => effect[t] = "failed"

CheckedEarly ==
  configured => \A t \in Threads : pc[t] = "check" /\ ~client => t \in early

Inv == TypeOK /\ InStep /\ NeedsClient /\ CheckedEarly /\ WritersComeFirst

-----------------------------------------------------------------------------
(* Types *)

LEMMA Requested ==
  ASSUME NEW op \in Ops, NEW id \in Ids
  PROVE  /\ [op |-> op, id |-> id] \in [op : Ops, id : Ids]
         /\ [op |-> op, id |-> id] # Idle
<1>1. [op |-> op, id |-> id].op # Idle.op
  BY DEF Ops, Idle
<1> QED BY <1>1

LEMMA RequestOf ==
  ASSUME TypeOK, NEW t \in Threads, req[t] # Idle
  PROVE  req[t].op \in Ops /\ req[t].id \in Ids
<1>1. req[t] \in [op : Ops, id : Ids]
  BY DEF TypeOK
<1> QED BY <1>1

LEMMA InitTyped == Init => TypeOK
BY ZenonT(60) DEF Init, TypeOK

LEMMA ArriveTyped ==
  ASSUME TypeOK, NEW t \in Threads, Arrive(t)
  PROVE  TypeOK'
<1>1. PICK op \in Ops, id \in Ids : req' = [req EXCEPT ![t] = [op |-> op, id |-> id]]
  BY DEF Arrive
<1>2. req' \in [Threads -> {Idle} \cup [op : Ops, id : Ids]]
  BY <1>1, Requested DEF TypeOK
<1>3. writing' = {u \in Threads : pc'[u] = "assigning"}
  BY DEF TypeOK, Arrive, Goes, At
<1>4. early' \subseteq Threads
  BY DEF TypeOK, Arrive
<1>5. /\ pc' \in [Threads -> Pcs] /\ effect' \in [Threads -> Effects]
      /\ status' \in [Threads -> {0, 200, 201, 204, 400, 500}]
  BY DEF TypeOK, Arrive, Goes, Pcs, Effects
<1> QED BY <1>2, <1>3, <1>4, <1>5 DEF TypeOK, Arrive, Pcs, Effects

LEMMA StatusTyped ==
  ASSUME TypeOK, NEW op \in Ops, NEW what \in Effects
  PROVE  StatusOf(op, what) \in {200, 201, 204, 400, 500}
BY DEF StatusOf, Ops, Effects, TypeOK

LEMMA ExecuteTyped ==
  ASSUME TypeOK, NEW t \in Threads, NEW what \in Effects, req[t] # Idle, Execute(t, what)
  PROVE  /\ pc' = [pc EXCEPT ![t] = "answer"] /\ pc[t] = "execute"
         /\ effect' = [effect EXCEPT ![t] = what]
         /\ rows' \in [Ids -> {"gone", "first"} \cup Threads]
         /\ UNCHANGED <<resource, configured, alive, client, writing, early, req, status>>
<1>1. req[t].id \in Ids
  BY DEF TypeOK
<1>2. rows[req[t].id] \in {"gone", "first"} \cup Threads
  BY <1>1 DEF TypeOK
<1>3. PICK row \in {"gone", "first"} \cup Threads : Executes(t, row, what)
  BY <1>2 DEF Execute, List, Get, Create, Update, Delete
<1> QED BY <1>3 DEF Executes, At, Goes, TypeOK

LEMMA HandleTyped ==
  ASSUME TypeOK, InStep, NEW t \in Threads, Handle(t)
  PROVE  TypeOK'
<1>1. CASE Check(t) \/ NoClient(t) \/ Use(t) \/ Invalid(t) \/ Missing(t) \/ Fails(t)
  <2>1. /\ pc[t] # "assigning"
        /\ \E there \in Pcs \ {"assigning"} : pc' = [pc EXCEPT ![t] = there]
        /\ effect' = effect \/ \E what \in Effects : effect' = [effect EXCEPT ![t] = what]
        /\ UNCHANGED <<resource, configured, alive, client, writing, early, rows, req, status>>
    BY <1>1 DEF Check, NoClient, Use, Invalid, Missing, Fails, Ends, At, Goes, Pcs, Effects
  <2>2. writing' = {u \in Threads : pc'[u] = "assigning"}
    BY <2>1 DEF TypeOK
  <2>3. pc' \in [Threads -> Pcs] /\ effect' \in [Threads -> Effects]
    BY <2>1 DEF TypeOK, Pcs, Effects
  <2> QED BY <2>1, <2>2, <2>3 DEF TypeOK, Pcs, Effects
<1>2. CASE AssignBegins(t)
  <2>1. writing' = {u \in Threads : pc'[u] = "assigning"}
    BY <1>2 DEF AssignBegins, TypeOK, Goes
  <2> QED BY <1>2, <2>1 DEF AssignBegins, TypeOK, Goes
<1>3. CASE AssignEnds(t)
  <2>1. writing' = {u \in Threads : pc'[u] = "assigning"}
    BY <1>3 DEF AssignEnds, TypeOK, Goes
  <2> QED BY <1>3, <2>1 DEF AssignEnds, TypeOK, Goes
<1>4. CASE Execute(t, "done") \/ ResultLost(t)
  <2>1. PICK what \in Effects : Execute(t, what)
    BY <1>4 DEF ResultLost, Effects
  <2>2. pc[t] = "execute"
    BY <2>1 DEF Execute, List, Get, Create, Update, Delete, Executes, At
  <2>3. req[t] # Idle
    BY <2>2 DEF InStep
  <2>4. writing' = {u \in Threads : pc'[u] = "assigning"}
    BY <2>1, <2>3, ExecuteTyped DEF TypeOK
  <2> QED BY <2>1, <2>3, <2>4, ExecuteTyped DEF TypeOK, Effects
<1>5. CASE Answer(t)
  <2>1. req[t] # Idle
    BY <1>5 DEF Answer, At, InStep
  <2>2. req[t].op \in Ops /\ effect[t] \in Effects
    BY <2>1 DEF TypeOK, Effects
  <2>3. status' \in [Threads -> {0, 200, 201, 204, 400, 500}]
    BY <1>5, <2>2, StatusTyped DEF Answer, TypeOK
  <2>4. writing' = {u \in Threads : pc'[u] = "assigning"}
    BY <1>5 DEF Answer, TypeOK, Goes, At
  <2>5. pc' \in [Threads -> Pcs] /\ early' \subseteq Threads
    BY <1>5 DEF Answer, TypeOK, Goes, Pcs
  <2> QED BY <1>5, <2>3, <2>4, <2>5 DEF Answer, TypeOK, Pcs
<1> QED BY <1>1, <1>2, <1>3, <1>4, <1>5 DEF Handle

LEMMA NextTyped ==
  ASSUME TypeOK, InStep, [Next]_vars
  PROVE  TypeOK'
<1>1. ASSUME NEW t \in Threads, Arrive(t) \/ Handle(t)
      PROVE  TypeOK'
  BY <1>1, ArriveTyped, HandleTyped
<1>2. CASE Race \/ UNCHANGED vars
  <2>1. /\ alive' \in BOOLEAN
        /\ UNCHANGED <<resource, configured, client, writing, early, rows, req, pc, effect, status>>
    BY <1>2 DEF Race, vars, TypeOK
  <2> QED BY <2>1 DEF TypeOK
<1> QED BY <1>1, <1>2 DEF Next

-----------------------------------------------------------------------------
(* What a step of a thread does to that thread, and that it leaves the others. *)

\* The thread t is at `from`, and goes to `to` with its statement as `what`.
Moves(t, from, to, what) ==
  /\ pc[t] = from /\ pc' = [pc EXCEPT ![t] = to]
  /\ effect' = [effect EXCEPT ![t] = what]

LEMMA Stepping ==
  ASSUME TypeOK, InStep, NEW t \in Threads, Handle(t)
  PROVE  \/ /\ \/ client /\ Moves(t, "check", "use", effect[t])
               \/ ~client /\ Moves(t, "check", "assign", effect[t])
               \/ Moves(t, "assign", "assigning", effect[t])
               \/ Moves(t, "use", "answer", "failed")
               \/ client /\ Moves(t, "use", "execute", effect[t])
               \/ \E what \in Effects \ {"pending"} : Moves(t, "execute", "answer", what)
            /\ UNCHANGED <<configured, client, early, req, status>>
         \/ /\ Moves(t, "assigning", "use", effect[t])
            /\ client' = configured /\ UNCHANGED <<configured, early, req, status>>
         \/ /\ Moves(t, "answer", "idle", effect[t])
            /\ status'[t] # 0 /\ \A u \in Threads \ {t} : status'[u] = status[u]
            /\ early' = early \ {t} /\ UNCHANGED <<configured, client, req>>
<1>0. effect = [effect EXCEPT ![t] = effect[t]]
  BY DEF TypeOK
<1>1. CASE Check(t) \/ AssignBegins(t) \/ AssignEnds(t) \/ Use(t)
  BY <1>0, <1>1 DEF Check, AssignBegins, AssignEnds, Use, At, Goes, Moves
<1>2. CASE NoClient(t) \/ Invalid(t) \/ Missing(t) \/ Fails(t)
  BY <1>2 DEF NoClient, Invalid, Missing, Fails, Ends, At, Goes, Moves, Effects
<1>3. CASE Execute(t, "done") \/ ResultLost(t)
  <2>1. PICK what \in Effects \ {"pending"} : Execute(t, what)
    BY <1>3 DEF ResultLost, Effects
  <2>2. pc[t] = "execute"
    BY <2>1 DEF Execute, List, Get, Create, Update, Delete, Executes, At
  <2>3. req[t] # Idle
    BY <2>2 DEF InStep
  <2> QED BY <2>1, <2>3, ExecuteTyped DEF Moves
<1>4. CASE Answer(t)
  <2>1. req[t] # Idle
    BY <1>4 DEF Answer, At, InStep
  <2>2. req[t].op \in Ops /\ effect[t] \in Effects
    BY <2>1 DEF TypeOK, Effects
  <2>3. StatusOf(req[t].op, effect[t]) \in {200, 201, 204, 400, 500}
    BY <2>2, StatusTyped
  <2>4. status'[t] # 0 /\ \A u \in Threads \ {t} : status'[u] = status[u]
    <3>1. status' = [status EXCEPT ![t] =
                       IF client THEN StatusOf(req[t].op, effect[t]) ELSE 500]
      BY <1>4 DEF Answer
    <3> QED BY <3>1, <2>3 DEF TypeOK
  <2>5. Moves(t, "answer", "idle", effect[t])
    BY <1>0, <1>4 DEF Answer, At, Goes, Moves
  <2>6. early' = early \ {t} /\ UNCHANGED <<configured, client, req>>
    BY <1>4 DEF Answer
  <2> QED BY <2>4, <2>5, <2>6
<1> QED BY <1>1, <1>2, <1>3, <1>4 DEF Handle

LEMMA InStepStays ==
  ASSUME TypeOK, InStep, [Next]_vars
  PROVE  InStep'
<1>1. ASSUME NEW t \in Threads, Handle(t)
      PROVE  InStep'
  <2> SUFFICES ASSUME NEW u \in Threads
               PROVE  /\ pc'[u] = "idle" => req'[u] = Idle \/ status'[u] # 0
                      /\ pc'[u] # "idle" => req'[u] # Idle /\ status'[u] = 0
                      /\ pc'[u] \in {"check", "assign", "assigning", "use", "execute"}
                           => effect'[u] = "pending"
                      /\ pc'[u] = "answer" => effect'[u] # "pending"
    BY DEF InStep
  <2>1. CASE u # t
    <3>1. pc'[u] = pc[u] /\ effect'[u] = effect[u] /\ req'[u] = req[u] /\ status'[u] = status[u]
      BY <1>1, <2>1, Stepping DEF Moves, TypeOK
    <3> QED BY <3>1 DEF InStep
  <2>2. CASE u = t
    BY <1>1, <2>2, Stepping DEF Moves, TypeOK, InStep, Effects
  <2> QED BY <2>1, <2>2
<1>2. ASSUME NEW t \in Threads, Arrive(t)
      PROVE  InStep'
  <2>1. req'[t] # Idle
    BY <1>2, Requested DEF Arrive, TypeOK
  <2> QED BY <1>2, <2>1 DEF Arrive, Goes, TypeOK, InStep
<1>3. CASE Race \/ UNCHANGED vars
  BY <1>3 DEF Race, vars, InStep
<1> QED BY <1>1, <1>2, <1>3 DEF Next

LEMMA ClientStays ==
  ASSUME TypeOK, InStep, [Next]_vars
  PROVE  configured' = configured /\ (client => client')
<1>1. ASSUME NEW t \in Threads, Handle(t)
      PROVE  configured' = configured /\ (client => client')
  BY <1>1, Stepping DEF TypeOK
<1>2. CASE Race \/ UNCHANGED vars \/ \E t \in Threads : Arrive(t)
  BY <1>2 DEF Race, vars, Arrive
<1> QED BY <1>1, <1>2 DEF Next

LEMMA NeedsClientStays ==
  ASSUME TypeOK, InStep, NeedsClient, [Next]_vars
  PROVE  NeedsClient'
<1>0. client => client'
  BY ClientStays
<1>1. ASSUME NEW t \in Threads, Handle(t)
      PROVE  NeedsClient'
  <2> SUFFICES ASSUME NEW u \in Threads
               PROVE  /\ pc'[u] = "execute" => client'
                      /\ pc'[u] = "answer" /\ ~client' => effect'[u] = "failed"
    BY DEF NeedsClient
  <2>1. CASE u # t
    <3>1. pc'[u] = pc[u] /\ effect'[u] = effect[u]
      BY <1>1, <2>1, Stepping DEF Moves, TypeOK
    <3> QED BY <3>1, <1>0 DEF NeedsClient
  <2>2. CASE u = t
    BY <1>0, <1>1, <2>2, Stepping DEF Moves, TypeOK, NeedsClient
  <2> QED BY <2>1, <2>2
<1>2. ASSUME NEW t \in Threads, Arrive(t)
      PROVE  NeedsClient'
  BY <1>2 DEF Arrive, Goes, TypeOK, NeedsClient
<1>3. CASE Race \/ UNCHANGED vars
  BY <1>3 DEF Race, vars, NeedsClient
<1> QED BY <1>1, <1>2, <1>3 DEF Next

LEMMA OnlyUncheckedAssign ==
  ASSUME TypeOK, InStep, NEW t \in Threads, Handle(t)
  PROVE  /\ \A u \in Threads \ {t} : pc'[u] = pc[u] /\ (u \in early' <=> u \in early)
         /\ pc'[t] = "idle" \/ early' = early
         /\ pc'[t] # "check"
         /\ pc'[t] \in {"assign", "assigning"} =>
              (pc[t] = "check" /\ ~client) \/ pc[t] = "assign"
<1>1. CASE Check(t) \/ AssignBegins(t) \/ AssignEnds(t) \/ Use(t)
  BY <1>1 DEF Check, AssignBegins, AssignEnds, Use, At, Goes, TypeOK
<1>2. CASE NoClient(t) \/ Invalid(t) \/ Missing(t) \/ Fails(t)
  BY <1>2 DEF NoClient, Invalid, Missing, Fails, Ends, At, Goes, TypeOK
<1>3. CASE Execute(t, "done") \/ ResultLost(t)
  <2>1. pc' = [pc EXCEPT ![t] = "answer"] /\ early' = early
    BY <1>3 DEF ResultLost, Execute, List, Get, Create, Update, Delete, Executes, Goes
  <2> QED BY <2>1 DEF TypeOK
<1>4. CASE Answer(t)
  BY <1>4 DEF Answer, At, Goes, TypeOK
<1> QED BY <1>1, <1>2, <1>3, <1>4 DEF Handle

LEMMA WritersStayEarly ==
  ASSUME TypeOK, InStep, CheckedEarly, WritersComeFirst, [Next]_vars
  PROVE  CheckedEarly' /\ WritersComeFirst'
<1>0. configured' = configured /\ (client => client')
  BY ClientStays
<1>1. ASSUME NEW t \in Threads, Handle(t)
      PROVE  CheckedEarly' /\ WritersComeFirst'
  BY <1>0, <1>1, OnlyUncheckedAssign DEF CheckedEarly, WritersComeFirst
<1>2. ASSUME NEW t \in Threads, Arrive(t)
      PROVE  CheckedEarly' /\ WritersComeFirst'
  BY <1>2 DEF Arrive, Goes, TypeOK, CheckedEarly, WritersComeFirst
<1>3. CASE Race \/ UNCHANGED vars
  BY <1>3 DEF Race, vars, CheckedEarly, WritersComeFirst
<1> QED BY <1>1, <1>2, <1>3 DEF Next

LEMMA Inductive == Spec => []Inv
<1>1. Init => Inv
  BY InitTyped DEF Init, Inv, InStep, NeedsClient, CheckedEarly, WritersComeFirst
<1>2. Inv /\ [Next]_vars => Inv'
  BY NextTyped, InStepStays, NeedsClientStays, WritersStayEarly DEF Inv
<1> QED BY <1>1, <1>2, PTL DEF Spec

\* Every variable has its type; above all the threads that assign `client` are
\* those in the middle of connect() (UserController.cc:21).
THEOREM TypeCorrect == Spec => []TypeOK
<1>1. Inv => TypeOK
  BY DEF Inv
<1> QED BY <1>1, Inductive, PTL

\* Whatever the number of threads, only requests that came before the client was
\* there assign it (UserController.cc:21).
THEOREM EarlyWriters == Spec => []WritersComeFirst
<1>1. Inv => WritersComeFirst
  BY DEF Inv
<1> QED BY <1>1, Inductive, PTL

-----------------------------------------------------------------------------
(* The refinement.  Of the mapped variables rows and req are those of the  *)
(* handlers; Mapped is the mapped effect and Accepted the mapped answer.   *)

Mapped(t) == IF effect[t] = "invalid" THEN "failed" ELSE effect[t]

mapped == [t \in Threads |-> Mapped(t)]

accepted == [t \in Threads |-> Accepted(t)]

restVars == <<rows, req, mapped, accepted>>

LEMMA SameNames ==
  /\ REST!Idle = Idle
  /\ \A t \in Threads : Accepted(t) = "" <=> status[t] = 0
BY DEF REST!Idle, Idle, Accepted

LEMMA InitImplements == Init => REST!Init
BY DEF Init, REST!Init, REST!Idle, Idle, Accepted

\* A step of a thread that leaves the rows, its request and its answer, and
\* does to its effect at most what the abstract steps do.
LEMMA StutterImplements ==
  ASSUME TypeOK, rows' = rows, req' = req, status' = status, effect' = effect
  PROVE  UNCHANGED restVars
BY DEF restVars, mapped, accepted, Mapped, Accepted

LEMMA ArriveImplements ==
  ASSUME TypeOK, InStep, NEW t \in Threads, Arrive(t)
  PROVE  REST!Ask(t)
<1>1. PICK op \in Ops, id \in Ids : req' = [req EXCEPT ![t] = [op |-> op, id |-> id]]
  BY DEF Arrive
<1>2. req[t] = Idle \/ Accepted(t) # ""
  BY SameNames DEF Arrive, At, InStep
<1>3. mapped' = [mapped EXCEPT ![t] = "pending"]
  BY DEF Arrive, TypeOK, mapped, Mapped
<1>4. accepted' = [accepted EXCEPT ![t] = ""]
  <2>1. status' = [status EXCEPT ![t] = 0] /\ DOMAIN status = Threads
    BY DEF Arrive, TypeOK
  <2>2. \A u \in Threads : Accepted(u)' = IF u = t THEN "" ELSE Accepted(u)
    <3> SUFFICES ASSUME NEW u \in Threads
                 PROVE  Accepted(u)' = IF u = t THEN "" ELSE Accepted(u)
      OBVIOUS
    <3>1. CASE u = t
      <4>1. status'[u] = 0
        BY <2>1, <3>1
      <4> QED BY <4>1, <3>1 DEF Accepted
    <3>2. CASE u # t
      <4>1. status'[u] = status[u]
        BY <2>1, <3>2
      <4> QED BY <4>1, <3>2 DEF Accepted
    <3> QED BY <3>1, <3>2
  <2> QED BY <2>2 DEF accepted
<1>5. rows' = rows
  BY DEF Arrive
<1> QED
  BY <1>1, <1>2, <1>3, <1>4, <1>5, SameNames DEF REST!Ask, Ops, mapped, Mapped, accepted

\* The statement of a handler is the one step of the abstract request.
LEMMA ExecuteImplements ==
  ASSUME TypeOK, InStep, NEW t \in Threads, NEW what \in {"done", "unknown"}, Execute(t, what)
  PROVE  REST!Effect(t)
<1>0. pc[t] = "execute"
  BY DEF Execute, List, Get, Create, Update, Delete, Executes, At
<1>1. req[t] # Idle /\ Accepted(t) = "" /\ Mapped(t) = "pending"
  BY <1>0, SameNames DEF InStep, Mapped
<1>2. req[t].id \in Ids /\ req[t].op \in Ops
  BY ZenonT(60), <1>1, RequestOf
<1>3. /\ rows' = [rows EXCEPT ![req[t].id] =
                    REST!Change(req[t].op, rows[req[t].id], t)]
      /\ req[t].op = "create" => rows[req[t].id] = "gone"
      /\ req[t].op \in {"list", "create"} \/ rows[req[t].id] # "gone"
  BY <1>2 DEF Execute, List, Get, Create, Update, Delete, Executes, REST!Change
<1>4. effect' = [effect EXCEPT ![t] = what] /\ UNCHANGED <<req, status>>
  BY DEF Execute, List, Get, Create, Update, Delete, Executes
<1>5. mapped' = [mapped EXCEPT ![t] = what]
  BY <1>4 DEF mapped, Mapped, TypeOK
<1>6. accepted' = accepted
  BY <1>4 DEF accepted, Accepted
<1> QED
  BY <1>1, <1>3, <1>4, <1>5, <1>6, SameNames
  DEF REST!Effect, REST!Finds, mapped, Mapped, accepted

\* So is what it says of a row that is not there ...
LEMMA MissingImplements ==
  ASSUME TypeOK, InStep, NEW t \in Threads, Missing(t)
  PROVE  REST!Effect(t)
<1>0. pc[t] = "execute" /\ req[t].op \in {"get", "update", "delete"}
      /\ rows[req[t].id] = "gone"
  BY DEF Missing, At
<1>1. req[t] # Idle /\ Accepted(t) = "" /\ Mapped(t) = "pending"
  BY <1>0, SameNames DEF InStep, Mapped
<1>2. req[t].id \in Ids
  BY <1>1, RequestOf
<1>3. rows' = [rows EXCEPT ![req[t].id] = REST!Change(req[t].op, rows[req[t].id], t)]
  <2>1. REST!Change(req[t].op, rows[req[t].id], t) = rows[req[t].id]
    BY <1>0 DEF REST!Change
  <2>2. rows' = rows
    BY DEF Missing, Ends
  <2>3. rows = [rows EXCEPT ![req[t].id] = rows[req[t].id]]
    BY <1>2 DEF TypeOK
  <2> QED BY <2>1, <2>2, <2>3
<1>4. effect' = [effect EXCEPT ![t] = "missing"] /\ UNCHANGED <<req, status>>
  BY DEF Missing, Ends
<1>5. mapped' = [mapped EXCEPT ![t] = "missing"]
  BY <1>4 DEF mapped, Mapped, TypeOK
<1>6. accepted' = accepted
  BY <1>4 DEF accepted, Accepted
<1> QED
  BY <1>0, <1>1, <1>3, <1>4, <1>5, <1>6, SameNames
  DEF REST!Effect, REST!Finds, mapped, Mapped, accepted

\* ... and to end without a statement is to fail.
LEMMA FailImplements ==
  ASSUME TypeOK, InStep, NEW t \in Threads, NoClient(t) \/ Invalid(t) \/ Fails(t)
  PROVE  REST!Fail(t)
<1>0. pc[t] \in {"use", "execute"}
  BY DEF NoClient, Invalid, Fails, At
<1>1. req[t] # Idle /\ Accepted(t) = "" /\ Mapped(t) = "pending"
  BY <1>0, SameNames DEF InStep, Mapped
<1>2. PICK what \in {"failed", "invalid"} : effect' = [effect EXCEPT ![t] = what]
  BY DEF NoClient, Invalid, Fails, Ends
<1>3. UNCHANGED <<rows, req, status>>
  BY DEF NoClient, Invalid, Fails, Ends
<1>4. mapped' = [mapped EXCEPT ![t] = "failed"]
  BY <1>2 DEF mapped, Mapped, TypeOK
<1>5. accepted' = accepted
  BY <1>3 DEF accepted, Accepted
<1> QED
  BY <1>1, <1>3, <1>4, <1>5, SameNames DEF REST!Fail, mapped, Mapped, accepted

LEMMA StatusSays ==
  ASSUME NEW op \in Ops, NEW what \in Effects \ {"pending"}
  PROVE  /\ StatusOf(op, what) \in {200, 201, 204, 400, 500}
         /\ StatusOf(op, what) \in {200, 201, 204}
              <=> what = "done" \/ (what = "missing" /\ op = "update")
<1>1. CASE what = "invalid"
  <2>1. StatusOf(op, what) \in {400, 500}
    BY <1>1 DEF StatusOf
  <2> QED BY <1>1, <2>1
<1>2. CASE what # "invalid" /\ op \in {"list", "get"}
  <2>1. StatusOf(op, what) = IF what = "done" THEN 200 ELSE 500
    BY <1>2 DEF StatusOf
  <2> QED BY <1>2, <2>1
<1>3. CASE what # "invalid" /\ op = "create"
  <2>1. StatusOf(op, what) = IF what = "done" THEN 201 ELSE IF resource = "user" THEN 400 ELSE 500
    BY <1>3 DEF StatusOf
  <2> QED BY <1>3, <2>1
<1>4. CASE what # "invalid" /\ op = "update"
  <2>1. StatusOf(op, what) = IF what \in {"done", "missing"} THEN 200 ELSE 500
    BY <1>4 DEF StatusOf
  <2> QED BY <1>4, <2>1
<1>5. CASE what # "invalid" /\ op = "delete"
  <2>1. StatusOf(op, what) = CASE what = "done" -> 204 [] what = "missing" -> 400 [] OTHER -> 500
    BY <1>5 DEF StatusOf
  <2> QED BY <1>5, <2>1
<1> QED BY <1>1, <1>2, <1>3, <1>4, <1>5 DEF Ops

\* The answer says what the statement did.
LEMMA AnswerImplements ==
  ASSUME TypeOK, InStep, NeedsClient, NEW t \in Threads, Answer(t)
  PROVE  REST!Answer(t)
<1>0. pc[t] = "answer"
  BY DEF Answer, At
<1>1. req[t] # Idle /\ Accepted(t) = "" /\ effect[t] # "pending"
  BY <1>0, SameNames DEF InStep
<1>2. req[t].op \in Ops /\ effect[t] \in Effects \ {"pending"}
  BY ZenonT(60), <1>1, RequestOf DEF TypeOK, Effects
<1> DEFINE code == IF client THEN StatusOf(req[t].op, effect[t]) ELSE 500
<1> DEFINE did == effect[t] = "done" \/ (effect[t] = "missing" /\ req[t].op = "update")
<1>3. /\ code \in {200, 201, 204, 400, 500}
      /\ code \in {200, 201, 204} <=> did
  <2>1. CASE client
    BY <1>2, <2>1, StatusSays
  <2>2. CASE ~client
    BY <1>0, <2>2 DEF NeedsClient
  <2> QED BY <2>1, <2>2
<1>4. status' = [status EXCEPT ![t] = code] /\ UNCHANGED <<rows, req, effect>>
  BY DEF Answer
<1>5. mapped' = mapped
  BY <1>4 DEF mapped, Mapped
<1>6. REST!Says(t) = IF did THEN "yes" ELSE "no"
  BY DEF REST!Says
<1> HIDE DEF code, did
<1>7. accepted' = [accepted EXCEPT ![t] = IF did THEN "yes" ELSE "no"]
  <2>1. DOMAIN status = Threads
    BY DEF TypeOK
  <2>2. ASSUME NEW u \in Threads
        PROVE  Accepted(u)' = IF u = t THEN (IF did THEN "yes" ELSE "no") ELSE Accepted(u)
    <3>1. CASE u = t
      <4>1. status'[u] = code
        BY <1>4, <2>1, <3>1
      <4>2. status'[u] # 0 /\ (status'[u] \in {200, 201, 204} <=> did)
        BY <4>1, <1>3
      <4>3. Accepted(u)' = IF status'[u] \in {200, 201, 204} THEN "yes" ELSE "no"
        BY <4>2 DEF Accepted
      <4> QED BY <4>2, <4>3, <3>1
    <3>2. CASE u # t
      <4>1. status'[u] = status[u]
        BY <1>4, <2>1, <3>2
      <4> QED BY <4>1, <3>2 DEF Accepted
    <3> QED BY <3>1, <3>2
  <2> QED BY <2>2 DEF accepted
<1>8. Mapped(t) # "pending"
  BY <1>1 DEF Mapped
<1> QED
  BY <1>1, <1>4, <1>5, <1>6, <1>7, <1>8, SameNames DEF REST!Answer, mapped, Mapped, accepted

LEMMA NextImplements ==
  ASSUME Inv, [Next]_vars
  PROVE  REST!Next \/ UNCHANGED restVars
<1> USE DEF Inv
<1>1. ASSUME NEW t \in Threads, Arrive(t)
      PROVE  REST!Next
  BY <1>1, ArriveImplements DEF REST!Next
<1>2. ASSUME NEW t \in Threads, Handle(t)
      PROVE  REST!Next \/ UNCHANGED restVars
  <2>1. CASE Check(t) \/ AssignBegins(t) \/ AssignEnds(t) \/ Use(t)
    BY <2>1, StutterImplements DEF Check, AssignBegins, AssignEnds, Use
  <2>2. CASE NoClient(t) \/ Invalid(t) \/ Fails(t)
    BY <2>2, FailImplements DEF REST!Next
  <2>3. CASE Execute(t, "done") \/ ResultLost(t)
    BY <2>3, ExecuteImplements DEF ResultLost, REST!Next
  <2>4. CASE Missing(t)
    BY <2>4, MissingImplements DEF REST!Next
  <2>5. CASE Answer(t)
    BY <2>5, AnswerImplements DEF REST!Next
  <2> QED BY <1>2, <2>1, <2>2, <2>3, <2>4, <2>5 DEF Handle
<1>3. CASE Race \/ UNCHANGED vars
  BY <1>3, StutterImplements DEF Race, vars
<1> QED BY <1>1, <1>2, <1>3 DEF Next

\* The handlers implement RestResource: whatever the threads do between each
\* other's steps, and whether or not the result of a statement is lost, a request
\* takes effect at most once and its answer says so (UserController.cc:129).
THEOREM HandlersImplement == Spec => ImplementsRest
<1>1. Init => REST!Init
  BY InitImplements
<1>2. Inv /\ [Next]_vars => REST!Next \/ UNCHANGED restVars
  BY NextImplements
<1>3. Spec => []Inv
  BY Inductive
<1> QED
  BY <1>1, <1>2, <1>3, PTL
  DEF Spec, ImplementsRest, REST!Spec, restVars, mapped, Mapped, accepted

-----------------------------------------------------------------------------
(* Objects of the model classes: any table and class of Records, any JSON, *)
(* any clients and number of calls.                                        *)

-----------------------------------------------------------------------------
(* Validation and what throws *)

\* JSON that a column's validation takes, its conversion takes.
LEMMA ValidConverts ==
  ASSUME NEW k, NEW json, NEW name, NEW c \in Throwing(k, json, name),
         ValidJsonOfField(k, c, json[name[c]])
  PROVE  FALSE
BY DEF Throwing, ValidJsonOfField, Converts

LEMMA ThrownIsGiven ==
  ASSUME NEW k, NEW json, NEW name
  PROVE  Throwing(k, json, name) \subseteq Given(k, json, name)
BY DEF Throwing

LEMMA ValidPlain ==
  ASSUME NEW k, NEW json,
         ValidateJsonForCreation(k, json) \/ ValidateJsonForUpdate(k, json)
  PROVE  Throwing(k, json, PlainNames(k)) = {}
<1>1. \A c \in Given(k, json, PlainNames(k)) :
        ValidJsonOfField(k, c, json[c]) /\ PlainNames(k)[c] = c
  BY DEF ValidateJsonForCreation, ValidateJsonForUpdate, Given, PlainNames
<1> QED BY <1>1, ValidConverts, ThrownIsGiven

LEMMA ValidMasked ==
  ASSUME NEW k, NEW json, NEW mask,
         \/ ValidateMasqueradedJsonForCreation(k, json, mask)
         \/ ValidateMasqueradedJsonForUpdate(k, json, mask)
  PROVE  /\ FitsClass(k, mask)
         /\ Throwing(k, json, MaskedNames(k, mask)) = {}
<1>1. FitsClass(k, mask)
  BY DEF ValidateMasqueradedJsonForCreation, ValidateMasqueradedJsonForUpdate
<1>2. \A c \in Given(k, json, MaskedNames(k, mask)) :
        ValidJsonOfField(k, c, json[MaskedNames(k, mask)[c]])
  BY DEF ValidateMasqueradedJsonForCreation, ValidateMasqueradedJsonForUpdate, Given
<1> QED BY <1>1, <1>2, ValidConverts, ThrownIsGiven

Tracked == DOMAIN outcome = Clients /\ DOMAIN checked = Clients

ThrowInv == Tracked /\ ValidatedNeverThrows

LEMMA ThrowInit == RecordsInit => ThrowInv
BY DEF RecordsInit, ThrowInv, Tracked, ValidatedNeverThrows

LEMMA ThrowStep ==
  ASSUME ThrowInv, NEW p \in Clients, Step(p)
  PROVE  ThrowInv'
<1> USE DEF ThrowInv, Tracked, ValidatedNeverThrows
<1>1. CASE New(p)
  BY <1>1 DEF New, Call, Holds
<1>2. CASE Find(p)
  BY <1>2 DEF Find, Call, Holds
<1>3. CASE FindByName(p)
  BY <1>3 DEF FindByName, Call, Holds
<1>4. CASE Construct(p)
  <2>1. PICK json \in Class.bodies :
          /\ \/ ConstructFails(p, json, PlainNames(Class))
             \/ HearFirst(p, json, PlainNames(Class))
          /\ checked' = [checked EXCEPT ![p] =
               Approved(ValidateJsonForCreation(Class, json), "insert")
                 \cup Approved(ValidateJsonForUpdate(Class, json), "update")]
    BY <1>4 DEF Construct
  <2>2. CASE ConstructFails(p, json, PlainNames(Class))
    <3>1. checked'[p] = {}
      BY <2>1, <2>2, ValidPlain DEF ConstructFails, Approved
    <3> QED BY <2>1, <2>2, <3>1 DEF ConstructFails
  <2>3. CASE HearFirst(p, json, PlainNames(Class))
    BY <2>1, <2>3 DEF HearFirst
  <2> QED BY <2>1, <2>2, <2>3
<1>5. CASE ConstructMasqueraded(p)
  <2> DEFINE NameOf(m) == IF FitsClass(Class, m.mask) THEN MaskedNames(Class, m.mask)
                          ELSE [c \in ColumnsOf(Class) |-> ""]
  <2>1. PICK m \in Class.masked :
          /\ \/ ConstructFails(p, m.json, NameOf(m))
             \/ HearFirst(p, m.json, NameOf(m))
          /\ checked' = [checked EXCEPT ![p] =
               Approved(ValidateMasqueradedJsonForCreation(Class, m.json, m.mask), "insert")
                 \cup Approved(ValidateMasqueradedJsonForUpdate(Class, m.json, m.mask), "update")]
    BY <1>5 DEF ConstructMasqueraded
  <2>2. CASE ConstructFails(p, m.json, NameOf(m))
    <3>1. checked'[p] = {}
      BY <2>1, <2>2, ValidMasked DEF ConstructFails, Approved
    <3> QED BY <2>1, <2>2, <3>1 DEF ConstructFails
  <2>3. CASE HearFirst(p, m.json, NameOf(m))
    BY <2>1, <2>3 DEF HearFirst
  <2> QED BY <2>1, <2>2, <2>3
<1>6. CASE Modify(p)
  <2>1. PICK json \in Class.bodies :
          /\ checked' = [checked EXCEPT ![p] =
               IF ValidateJsonForUpdate(Class, json) THEN @ ELSE {}]
          /\ CallEnds(p, json, PlainNames(Class))
    BY <1>6 DEF Modify
  <2> QED BY <2>1, ValidPlain DEF CallEnds
<1>7. CASE ModifyMasqueraded(p)
  <2>1. PICK m \in Class.masked :
          /\ IF FitsClass(Class, m.mask)
             THEN CallEnds(p, m.json, MaskedNames(Class, m.mask))
             ELSE outcome' = [outcome EXCEPT ![p] = "done"]
          /\ checked' = [checked EXCEPT ![p] =
               IF ValidateMasqueradedJsonForUpdate(Class, m.json, m.mask) THEN @ ELSE {}]
    BY <1>7 DEF ModifyMasqueraded
  <2> QED BY <2>1, ValidMasked DEF CallEnds
<1>8. CASE Set(p)
  BY <1>8 DEF Set, Sets
<1>9. CASE SetToNull(p)
  BY <1>9 DEF SetToNull, Sets
<1>10. CASE InsertRow(p)
  BY <1>10 DEF InsertRow, Holds
<1>11. CASE InsertRefused(p)
  BY <1>11 DEF InsertRefused
<1>12. CASE UpdateRow(p) \/ UpdateRefused(p) \/ DeleteRow(p)
  BY <1>12 DEF UpdateRow, UpdateRefused, DeleteRow
<1> QED BY <1>1, <1>2, <1>3, <1>4, <1>5, <1>6, <1>7, <1>8, <1>9, <1>10, <1>11, <1>12 DEF Step

\* Constructors and updates of a model object throw only for JSON that its
\* validation turns down, whatever the class and the calls before.
THEOREM ValidationSuffices == RecordsSpec => []ValidatedNeverThrows
<1>1. ThrowInv /\ [RecordsNext]_recordVars => ThrowInv'
  <2>1. ASSUME ThrowInv, RecordsNext PROVE ThrowInv'
    BY <2>1, ThrowStep DEF RecordsNext
  <2>2. ASSUME ThrowInv, UNCHANGED recordVars PROVE ThrowInv'
    BY <2>2 DEF recordVars, ThrowInv, Tracked, ValidatedNeverThrows
  <2> QED BY <2>1, <2>2
<1>2. ThrowInv => ValidatedNeverThrows
  BY DEF ThrowInv
<1> QED BY ThrowInit, <1>1, <1>2, PTL DEF RecordsSpec

-----------------------------------------------------------------------------
(* Fields stay fields *)

LEMMA ClassIsClass ==
  ASSUME class \in DOMAIN Classes
  PROVE  IsClass(Class) /\ IsTable(Class)
BY ClassesAssumption DEF Class

LEMMA OneValue ==
  ASSUME NEW kind, NEW v, kind = "time" => v \in Times
  PROVE  IsField(kind, {v}) /\ IsField(kind, {})
BY DEF IsField

LEMMA OneZeroLess ==
  ASSUME NEW n \in Nat
  PROVE  /\ WithoutZero(n) \in Nat /\ WithoutZero(n) <= n
         /\ WithoutZero(n) # n => n > 0 /\ n % 10 = 0
BY DEF WithoutZero

\* Microseconds read as themselves or, with a zero at the end, as fewer.
LEMMA ZerosRead ==
  ASSUME NEW n \in Nat
  PROVE  /\ WithoutZeros(n) \in Nat /\ WithoutZeros(n) <= n
         /\ WithoutZeros(n) = n \/ (n > 0 /\ n % 10 = 0)
<1> DEFINE a == WithoutZero(n)
           b == WithoutZero(a)
           c == WithoutZero(b)
           d == WithoutZero(c)
           e == WithoutZero(d)
<1>1. e = WithoutZeros(n)
  BY DEF WithoutZeros
<1>2. a \in Nat /\ a <= n /\ (a # n => n > 0 /\ n % 10 = 0)
  BY OneZeroLess
<1> HIDE DEF a
<1>3. b \in Nat /\ b <= a
  BY <1>2, OneZeroLess
<1> HIDE DEF b
<1>4. c \in Nat /\ c <= b
  BY <1>3, OneZeroLess
<1> HIDE DEF c
<1>5. d \in Nat /\ d <= c
  BY <1>4, OneZeroLess
<1> HIDE DEF d
<1>6. e \in Nat /\ e <= d
  BY <1>5, OneZeroLess
<1>7. a = n => e = n
  BY DEF a, b, c, d
<1> HIDE DEF e
<1> QED BY <1>1, <1>2, <1>3, <1>4, <1>5, <1>6, <1>7

LEMMA MicrosStay ==
  ASSUME NEW n \in MicrosOfSecond
  PROVE  n \in Nat /\ WithoutZeros(n) \in MicrosOfSecond
<1>1. MicrosPerSecond \in Nat
  BY DEF MicrosPerSecond
<1>2. n \in Nat /\ n <= MicrosPerSecond - 1
  BY <1>1 DEF MicrosOfSecond
<1>3. WithoutZeros(n) \in Nat /\ WithoutZeros(n) <= n
  BY <1>2, ZerosRead
<1> QED BY <1>1, <1>2, <1>3 DEF MicrosOfSecond

\* A date is a date again on every way that it takes.
LEMMA DateIsDate ==
  ASSUME NEW d \in Times
  PROVE  /\ [second |-> Mktime[Session[d.second]], micros |-> WithoutZeros(d.micros)] \in Times
         /\ [second |-> FromSession[Local[d.second]], micros |-> d.micros] \in Times
<1>1. d.second \in Seconds /\ d.micros \in MicrosOfSecond
  BY DEF Times
<1>2. Mktime[Session[d.second]] \in Seconds /\ FromSession[Local[d.second]] \in Seconds
  BY <1>1, ClocksAssumption
<1>3. WithoutZeros(d.micros) \in MicrosOfSecond
  BY <1>1, MicrosStay
<1> QED BY <1>1, <1>2, <1>3 DEF Times

LEMMA ReadIsField ==
  ASSUME NEW kind, NEW field, IsField(kind, field)
  PROVE  IsField(kind, AsRead(kind, field))
<1> DEFINE read(d) == [second |-> Mktime[Session[d.second]], micros |-> WithoutZeros(d.micros)]
<1>1. CASE kind # "time"
  BY <1>1 DEF AsRead
<1>2. CASE kind = "time"
  <2>1. AsRead(kind, field) = {read(d) : d \in field}
    BY <1>2 DEF AsRead
  <2>2. \A d \in field : read(d) \in Times
    BY <1>2, DateIsDate DEF IsField
  <2> HIDE DEF read
  <2>3. \A v, w \in {read(d) : d \in field} : v = w
    BY DEF IsField
  <2> QED BY <2>1, <2>2, <2>3 DEF IsField
<1> QED BY <1>1, <1>2

LEMMA TakenIsField ==
  ASSUME NEW kind, NEW field, IsField(kind, field)
  PROVE  IsField(kind, AsTaken(kind, field))
<1> DEFINE taken(d) == [second |-> FromSession[Local[d.second]], micros |-> d.micros]
<1>1. CASE kind # "time"
  BY <1>1 DEF AsTaken
<1>2. CASE kind = "time"
  <2>1. AsTaken(kind, field) = {taken(d) : d \in field}
    BY <1>2 DEF AsTaken
  <2>2. \A d \in field : taken(d) \in Times
    BY <1>2, DateIsDate DEF IsField
  <2> HIDE DEF taken
  <2>3. \A v, w \in {taken(d) : d \in field} : v = w
    BY DEF IsField
  <2> QED BY <2>1, <2>2, <2>3 DEF IsField
<1> QED BY <1>1, <1>2

\* The table takes a field, if there is one, and texts as they are.
LEMMA FieldIsTaken ==
  ASSUME NEW kind, NEW field
  PROVE  /\ AsTaken(kind, field) = {} <=> field = {}
         /\ kind # "time" => AsTaken(kind, field) = field
BY DEF AsTaken

LEMMA TakenIsKept ==
  ASSUME NEW kind, NEW field, IsField(kind, field)
  PROVE  Kept(kind, field, AsTaken(kind, field))
<1>1. CASE kind # "time" \/ field = {}
  BY <1>1, FieldIsTaken DEF Kept
<1>2. CASE kind = "time" /\ field # {}
  <2>1. PICK d : field = {d}
    BY <1>2 DEF IsField
  <2>2. d \in Times
    BY <1>2, <2>1 DEF IsField
  <2>3. AsTaken(kind, field) = {[second |-> FromSession[Local[d.second]], micros |-> d.micros]}
    BY <1>2, <2>1 DEF AsTaken
  <2>4. d = [second |-> d.second, micros |-> d.micros]
    BY <2>2 DEF Times
  <2> QED BY <1>2, <2>1, <2>3, <2>4 DEF Kept
<1> QED BY <1>1, <1>2

LEMMA TextIsTime ==
  ASSUME NEW text \in TimeTexts
  PROVE  FromText(text) \in Times
<1>1. text.clock \in Clocks /\ text.micros \in MicrosOfSecond
  BY DEF TimeTexts
<1>2. Mktime[text.clock] \in Seconds
  BY <1>1, ClocksAssumption
<1> QED BY <1>1, <1>2 DEF FromText, Times

LEMMA JsonIsField ==
  ASSUME NEW kind, NEW j, NEW old, IsField(kind, old)
  PROVE  IsField(kind, FromJsonField(kind, j, old))
<1>1. CASE j.is = "null"
  BY <1>1 DEF FromJsonField
<1>2. CASE j.is # "null" /\ kind = "time"
  <2>1. FromJsonField(kind, j, old) = IF j.v \in TimeTexts THEN {FromText(j.v)} ELSE old
    BY <1>2 DEF FromJsonField
  <2>2. j.v \in TimeTexts => FromText(j.v) \in Times
    BY TextIsTime
  <2> QED BY <2>1, <2>2, OneValue
<1>3. CASE j.is # "null" /\ kind # "time"
  <2>1. FromJsonField(kind, j, old) = {j.v}
    BY <1>3 DEF FromJsonField
  <2> QED BY <1>3, <2>1, OneValue
<1> QED BY <1>1, <1>2, <1>3

\* The object of a client, its wishes a and what it did not hear u.
Listens(r, a, u) ==
  /\ IsObject(r)
  /\ a = [c \in ColumnsOf(Class) |-> a[c]]
  /\ u \subseteq r.dirty \cup Class.keys
  /\ \A c \in ColumnsOf(Class) \ u :
       /\ a[c] # {} => a[c] = {r.value[c]} /\ c \in r.dirty \cup Class.keys
       /\ c \in r.dirty => a[c] # {}

LEMMA CleanListens ==
  ASSUME NEW value, value = [c \in ColumnsOf(Class) |-> value[c]],
         \A c \in ColumnsOf(Class) : IsField(Class.kind[c], value[c])
  PROVE  Listens([value |-> value, dirty |-> {}], NothingAsked, {})
BY DEF Listens, IsObject, NothingAsked

LEMMA BlankListens == Listens(Blank(Class), NothingAsked, {})
<1>1. \A c \in ColumnsOf(Class) : IsField(Class.kind[c], {})
  BY DEF IsField
<1> DEFINE none == [c \in ColumnsOf(Class) |-> {}]
<1>2. none = [c \in ColumnsOf(Class) |-> none[c]] /\ \A c \in ColumnsOf(Class) : none[c] = {}
  OBVIOUS
<1>3. Blank(Class) = [value |-> none, dirty |-> {}]
  BY DEF Blank
<1> HIDE DEF none
<1> QED BY <1>1, <1>2, <1>3, CleanListens

LEMMA NamedRowListens ==
  ASSUME NEW row, IsRowOf(Class, row)
  PROVE  Listens(FromRowByName(Class, row), NothingAsked, {})
<1> DEFINE value == [c \in ColumnsOf(Class) |-> AsRead(Class.kind[c], row[c])]
<1>1. \A c \in ColumnsOf(Class) :
        value[c] = AsRead(Class.kind[c], row[c]) /\ IsField(Class.kind[c], row[c])
  BY DEF IsRowOf
<1>2. value = [c \in ColumnsOf(Class) |-> value[c]]
  OBVIOUS
<1>3. FromRowByName(Class, row) = [value |-> value, dirty |-> {}]
  BY DEF FromRowByName
<1> HIDE DEF value
<1> QED BY <1>1, <1>2, <1>3, ReadIsField, CleanListens

LEMMA ColumnPlace ==
  ASSUME NEW k, NEW c \in ColumnsOf(k)
  PROVE  /\ (CHOOSE i \in DOMAIN k.columns : k.columns[i] = c) \in DOMAIN k.columns
         /\ k.columns[CHOOSE i \in DOMAIN k.columns : k.columns[i] = c] = c
BY DEF ColumnsOf

\* The columns have the places of the table: by place is by name.
LEMMA RowByPlace ==
  ASSUME class \in DOMAIN Classes, NEW row
  PROVE  FromRow(Class, row, Class.layout) = FromRowByName(Class, row)
<1> DEFINE place(c) == CHOOSE i \in DOMAIN Class.columns : Class.columns[i] = c
           value == [c \in ColumnsOf(Class) |->
                       AsRead(Class.kind[c], row[Class.layout[place(c)]])]
<1>1. ASSUME NEW c \in ColumnsOf(Class)
      PROVE  Class.layout[place(c)] = c
  BY ClassIsClass, ColumnPlace DEF IsClass
<1>2. ~(Len(Class.columns) > Len(Class.layout))
  <2>1. \A s \in Seq(STRING) : Len(s) \in Nat
    OBVIOUS
  <2>2. /\ Class.columns \in Seq(STRING) /\ Class.layout \in Seq(STRING)
        /\ Len(Class.columns) <= Len(Class.layout)
    BY ClassIsClass DEF IsClass
  <2>3. Len(Class.columns) \in Nat /\ Len(Class.layout) \in Nat
    BY <2>1, <2>2
  <2> QED BY <2>2, <2>3
<1>3. FromRow(Class, row, Class.layout) = [value |-> value, dirty |-> {}]
  BY <1>2 DEF FromRow
<1>4. value = [c \in ColumnsOf(Class) |-> AsRead(Class.kind[c], row[c])]
  <2> HIDE DEF place
  <2> QED BY <1>1
<1> HIDE DEF value
<1> QED BY <1>3, <1>4 DEF FromRowByName

LEMMA RowListens ==
  ASSUME class \in DOMAIN Classes, NEW row, IsRowOf(Class, row)
  PROVE  Listens(FromRow(Class, row, Class.layout), NothingAsked, {})
BY RowByPlace, NamedRowListens

-----------------------------------------------------------------------------
(* What a call makes of the wishes *)

WishesAfter(a, json, name) ==
  [c \in ColumnsOf(Class) |->
     IF c \in Understood(json, name) THEN {Wish(Class.kind[c], json[name[c]])} ELSE a[c]]

LEMMA ReachedColumns ==
  ASSUME NEW k, NEW json, NEW name
  PROVE  /\ Reached(k, json, name) \subseteq Given(k, json, name)
         /\ Given(k, json, name) \subseteq ColumnsOf(k)
         /\ Throwing(k, json, name) = {} => Reached(k, json, name) = Given(k, json, name)
BY DEF Reached, Given

\* What is understood is in the field afterwards.
LEMMA UnderstoodIsTaken ==
  ASSUME NEW json, NEW name, NEW value, NEW c \in Understood(json, name)
  PROVE  FieldsAfter(Class, value, json, name)[c] = Wish(Class.kind[c], json[name[c]])
<1>1. /\ c \in Reached(Class, json, name) \ Throwing(Class, json, name)
      /\ c \in ColumnsOf(Class)
  BY ReachedColumns DEF Understood
<1>2. FieldsAfter(Class, value, json, name)[c]
        = FromJsonField(Class.kind[c], json[name[c]], value[c])
  BY <1>1 DEF FieldsAfter
<1>3. /\ json[name[c]].is # "null"
      /\ Class.kind[c] = "time" => json[name[c]].v \in TimeTexts
  BY DEF Understood
<1> QED BY <1>2, <1>3 DEF FromJsonField, Wish

LEMMA UnreachedStays ==
  ASSUME NEW json, NEW name, NEW value,
         NEW c \in ColumnsOf(Class) \ Reached(Class, json, name)
  PROVE  FieldsAfter(Class, value, json, name)[c] = value[c]
BY DEF FieldsAfter

\* An object that takes JSON listens, if it marks as dirty all but keys.
LEMMA JsonListens ==
  ASSUME NEW r, NEW a, NEW u, Listens(r, a, u), NEW json, NEW name, NEW D,
         D \subseteq Reached(Class, json, name),
         Reached(Class, json, name) \ Class.keys \subseteq D
  PROVE  Listens([value |-> FieldsAfter(Class, r.value, json, name), dirty |-> r.dirty \cup D],
                 WishesAfter(a, json, name),
                 (u \ Understood(json, name))
                   \cup (Reached(Class, json, name) \ Understood(json, name)))
<1> DEFINE U  == Understood(json, name)
           R  == Reached(Class, json, name)
           v  == FieldsAfter(Class, r.value, json, name)
           w  == WishesAfter(a, json, name)
           ux == (u \ U) \cup (R \ U)
           s  == [value |-> v, dirty |-> r.dirty \cup D]
<1>1. R \subseteq ColumnsOf(Class) /\ U \subseteq R
  BY ReachedColumns DEF Understood
<1>2. s.value = v /\ s.dirty = r.dirty \cup D
  OBVIOUS
<1>3. IsObject(s)
  <2>1. v = [c \in ColumnsOf(Class) |-> v[c]]
    BY DEF FieldsAfter
  <2>2. ASSUME NEW c \in ColumnsOf(Class) PROVE IsField(Class.kind[c], v[c])
    <3>1. IsField(Class.kind[c], r.value[c])
      BY DEF Listens, IsObject
    <3>2. \/ v[c] = r.value[c]
          \/ v[c] = FromJsonField(Class.kind[c], json[name[c]], r.value[c])
      BY DEF FieldsAfter
    <3> HIDE DEF v
    <3> QED BY <3>1, <3>2, JsonIsField
  <2>3. r.dirty \subseteq ColumnsOf(Class)
    BY DEF Listens, IsObject
  <2>4. s.dirty \subseteq ColumnsOf(Class)
    BY <1>1, <1>2, <2>3
  <2> HIDE DEF v, s
  <2> QED BY <1>2, <2>1, <2>2, <2>4 DEF IsObject
<1>4. w = [c \in ColumnsOf(Class) |-> w[c]]
  BY DEF WishesAfter
<1>5. \A c \in ColumnsOf(Class) :
        w[c] = IF c \in U THEN {Wish(Class.kind[c], json[name[c]])} ELSE a[c]
  BY DEF WishesAfter
<1>6. \A c \in U : v[c] = Wish(Class.kind[c], json[name[c]])
  BY UnderstoodIsTaken
<1>7. \A c \in ColumnsOf(Class) \ R : v[c] = r.value[c]
  BY UnreachedStays
<1> HIDE DEF U, R, v, w, s
<1>8. ux \subseteq s.dirty \cup Class.keys
  BY <1>2 DEF Listens, R
<1>9. ASSUME NEW c \in ColumnsOf(Class) \ ux
      PROVE  /\ w[c] # {} => w[c] = {s.value[c]} /\ c \in s.dirty \cup Class.keys
             /\ c \in s.dirty => w[c] # {}
  <2>1. CASE c \in U
    <3>1. w[c] = {v[c]}
      BY <2>1, <1>5, <1>6
    <3>2. c \in D \cup Class.keys
      BY <2>1, <1>1 DEF R
    <3> QED BY <3>1, <3>2, <1>2
  <2>2. CASE c \notin U
    <3>1. c \notin R /\ c \notin u
      BY <2>2, <1>9
    <3>2. w[c] = a[c] /\ v[c] = r.value[c]
      BY <3>1, <2>2, <1>5, <1>7, <1>9
    <3>3. c \in s.dirty <=> c \in r.dirty
      BY <3>1, <1>2 DEF R
    <3>4. /\ a[c] # {} => a[c] = {r.value[c]} /\ c \in r.dirty \cup Class.keys
          /\ c \in r.dirty => a[c] # {}
      BY <3>1, <1>9 DEF Listens
    <3> QED BY <3>2, <3>3, <3>4, <1>2
  <2> QED BY <2>1, <2>2
<1>10. Listens(s, w, ux)
  <2> HIDE DEF ux
  <2> QED BY <1>3, <1>4, <1>8, <1>9 DEF Listens
<1> QED BY <1>10 DEF s, w, U, R, v

\* So does one whose member is set.
LEMMA SetListens ==
  ASSUME NEW r, NEW a, NEW u, Listens(r, a, u),
         NEW c \in ColumnsOf(Class), NEW field, IsField(Class.kind[c], field)
  PROVE  Listens([value |-> [r.value EXCEPT ![c] = field], dirty |-> r.dirty \cup {c}],
                 [a EXCEPT ![c] = {field}], u \ {c})
<1> DEFINE v == [r.value EXCEPT ![c] = field]
           w == [a EXCEPT ![c] = {field}]
           s == [value |-> v, dirty |-> r.dirty \cup {c}]
<1>1. s.value = v /\ s.dirty = r.dirty \cup {c}
  OBVIOUS
<1>2. /\ r.value = [d \in ColumnsOf(Class) |-> r.value[d]]
      /\ r.dirty \subseteq ColumnsOf(Class)
      /\ \A d \in ColumnsOf(Class) : IsField(Class.kind[d], r.value[d])
  BY DEF Listens, IsObject
<1>3. /\ v = [d \in ColumnsOf(Class) |-> v[d]]
      /\ \A d \in ColumnsOf(Class) : v[d] = IF d = c THEN field ELSE r.value[d]
  BY <1>2
<1>4. /\ w = [d \in ColumnsOf(Class) |-> w[d]]
      /\ \A d \in ColumnsOf(Class) : w[d] = IF d = c THEN {field} ELSE a[d]
  BY DEF Listens
<1> HIDE DEF v, w, s
<1>5. IsObject(s)
  BY <1>1, <1>2, <1>3 DEF IsObject
<1>6. u \ {c} \subseteq s.dirty \cup Class.keys
  BY <1>1 DEF Listens
<1>7. ASSUME NEW d \in ColumnsOf(Class) \ (u \ {c})
      PROVE  /\ w[d] # {} => w[d] = {s.value[d]} /\ d \in s.dirty \cup Class.keys
             /\ d \in s.dirty => w[d] # {}
  <2>1. CASE d = c
    BY <2>1, <1>1, <1>3, <1>4
  <2>2. CASE d # c
    <3>1. /\ a[d] # {} => a[d] = {r.value[d]} /\ d \in r.dirty \cup Class.keys
          /\ d \in r.dirty => a[d] # {}
      BY <2>2, <1>7 DEF Listens
    <3> QED BY <2>2, <3>1, <1>1, <1>3, <1>4
  <2> QED BY <2>1, <2>2
<1>8. Listens(s, w, u \ {c})
  BY <1>4, <1>5, <1>6, <1>7 DEF Listens
<1> QED BY <1>8 DEF s, v, w

-----------------------------------------------------------------------------
(* The invariant, and the objects after each call *)

Listening ==
  /\ DOMAIN rec = Clients /\ DOMAIN asked = Clients /\ DOMAIN unheard = Clients
  /\ \A p \in Clients : Listens(rec[p], asked[p], unheard[p])

RowsTyped == \A row \in stored : IsRowOf(Class, row) /\ WellFormed(row)

RecordsInv == class \in DOMAIN Classes /\ Listening /\ RowsTyped

\* One client has another object, the others keep theirs.
Becomes(p, r, a, u) ==
  /\ rec' = [rec EXCEPT ![p] = r]
  /\ asked' = [asked EXCEPT ![p] = a]
  /\ unheard' = [unheard EXCEPT ![p] = u]

LEMMA ListeningAfter ==
  ASSUME Listening, class' = class, NEW p \in Clients, NEW r, NEW a, NEW u,
         Listens(r, a, u), Becomes(p, r, a, u)
  PROVE  Listening'
<1>1. \A q \in Clients : Listens(rec'[q], asked'[q], unheard'[q])
  BY DEF Listening, Becomes
<1>2. \A q \in Clients : Listens(rec[q], asked[q], unheard[q])'
  BY <1>1 DEF Listens, IsObject, Class
<1> QED BY <1>2 DEF Listening, Becomes

LEMMA ListeningStays ==
  ASSUME Listening, UNCHANGED <<class, rec, asked, unheard>>
  PROVE  Listening'
BY DEF Listening, Listens, IsObject, Class

LEMMA Holding ==
  ASSUME Listening, class' = class, NEW p \in Clients, NEW r,
         Listens(r, NothingAsked, {}), Holds(p, r)
  PROVE  Listening'
BY ListeningAfter DEF Holds, Becomes

LEMMA FirstHearing ==
  ASSUME Listening, class' = class, NEW p \in Clients, NEW json, NEW name,
         \/ ConstructFails(p, json, name)
         \/ /\ Throwing(Class, json, name) = {}
            /\ rec' = [rec EXCEPT ![p] =
                 [value |-> FieldsAfter(Class, Blank(Class).value, json, name),
                  dirty |-> Reached(Class, json, name)]]
            /\ HearFirst(p, json, name)
  PROVE  Listening'
<1>1. CASE ConstructFails(p, json, name)
  BY <1>1, BlankListens, ListeningAfter DEF ConstructFails, Becomes
<1>2. CASE /\ Throwing(Class, json, name) = {}
           /\ rec' = [rec EXCEPT ![p] =
                [value |-> FieldsAfter(Class, Blank(Class).value, json, name),
                 dirty |-> Reached(Class, json, name)]]
           /\ HearFirst(p, json, name)
  <2> DEFINE r == [value |-> FieldsAfter(Class, Blank(Class).value, json, name),
                   dirty |-> Blank(Class).dirty \cup Reached(Class, json, name)]
             a == WishesAfter(NothingAsked, json, name)
             u == ({} \ Understood(json, name))
                    \cup (Reached(Class, json, name) \ Understood(json, name))
  <2>1. Listens(r, a, u)
    BY BlankListens, JsonListens
  <2>2. Blank(Class).dirty = {} /\ Reached(Class, json, name) = Given(Class, json, name)
    BY <1>2, ReachedColumns DEF Blank
  <2>3. rec' = [rec EXCEPT ![p] = r]
    <3>1. Blank(Class).dirty \cup Reached(Class, json, name) = Reached(Class, json, name)
      BY <2>2
    <3> QED BY <1>2, <3>1
  <2>4. asked' = [asked EXCEPT ![p] = a]
    <3>1. a = [c \in ColumnsOf(Class) |->
                 IF c \in Understood(json, name)
                 THEN {Wish(Class.kind[c], json[name[c]])} ELSE {}]
      BY DEF WishesAfter, NothingAsked
    <3> HIDE DEF a
    <3> QED BY <1>2, <3>1 DEF HearFirst
  <2>5. unheard' = [unheard EXCEPT ![p] = u]
    <3>1. u = Given(Class, json, name) \ Understood(json, name)
      BY <2>2
    <3> HIDE DEF u
    <3> QED BY <1>2, <3>1 DEF HearFirst
  <2> HIDE DEF r, a, u
  <2> QED BY <2>1, <2>3, <2>4, <2>5, ListeningAfter DEF Becomes
<1> QED BY <1>1, <1>2

LEMMA MoreHearing ==
  ASSUME Listening, class' = class, NEW p \in Clients, NEW json, NEW name, Hear(p, json, name),
         rec' = [rec EXCEPT ![p] =
           [value |-> FieldsAfter(Class, rec[p].value, json, name),
            dirty |-> rec[p].dirty \cup (Reached(Class, json, name) \ Class.keys)]]
  PROVE  Listening'
<1> DEFINE r == [value |-> FieldsAfter(Class, rec[p].value, json, name),
                 dirty |-> rec[p].dirty \cup (Reached(Class, json, name) \ Class.keys)]
           a == WishesAfter(asked[p], json, name)
           u == (unheard[p] \ Understood(json, name))
                  \cup (Reached(Class, json, name) \ Understood(json, name))
<1>1. Listens(rec[p], asked[p], unheard[p])
  BY DEF Listening
<1>2. Listens(r, a, u)
  BY <1>1, JsonListens
<1>3. asked' = [asked EXCEPT ![p] = a] /\ unheard' = [unheard EXCEPT ![p] = u]
  BY DEF Hear, WishesAfter
<1> HIDE DEF r, a, u
<1> QED BY <1>2, <1>3, ListeningAfter DEF Becomes, r

LEMMA SettingListens ==
  ASSUME Listening, class' = class, NEW p \in Clients, NEW c \in ColumnsOf(Class), NEW field,
         IsField(Class.kind[c], field), Sets(p, c, field),
         rec' = [rec EXCEPT ![p] = [value |-> [@.value EXCEPT ![c] = field],
                                    dirty |-> @.dirty \cup {c}]]
  PROVE  Listening'
<1> DEFINE r == [value |-> [rec[p].value EXCEPT ![c] = field], dirty |-> rec[p].dirty \cup {c}]
           a == [asked[p] EXCEPT ![c] = {field}]
           u == unheard[p] \ {c}
<1>1. Listens(rec[p], asked[p], unheard[p])
  BY DEF Listening
<1>2. Listens(r, a, u)
  BY <1>1, SetListens
<1>3. Becomes(p, r, a, u)
  BY DEF Sets, Becomes
<1> HIDE DEF r, a, u
<1> QED BY <1>2, <1>3, ListeningAfter

LEMMA InsertedIsRow ==
  ASSUME class \in DOMAIN Classes, NEW r, IsObject(r), NEW fresh
  PROVE  IsRowOf(Class, Inserted(r, fresh))
<1> DEFINE row == Inserted(r, fresh)
<1>1. row = [c \in ColumnsOf(Class) |-> row[c]]
  BY DEF Inserted
<1>2. ASSUME NEW c \in ColumnsOf(Class) PROVE IsField(Class.kind[c], row[c])
  <2>1. CASE c \in r.dirty
    <3>1. row[c] = AsTaken(Class.kind[c], r.value[c])
      BY <2>1, <1>2 DEF Inserted, OutputArgs
    <3> HIDE DEF row
    <3> QED BY <3>1, <1>2, TakenIsField DEF IsObject
  <2>2. CASE c \in Class.defaulted \ r.dirty
    <3>1. row[c] = {fresh}
      BY <2>2, <1>2 DEF Inserted, OutputArgs, ListedForInsert
    <3>2. Class.kind[c] = "text"
      BY <2>2, ClassIsClass DEF IsClass
    <3> HIDE DEF row
    <3> QED BY <3>1, <3>2, OneValue
  <2>3. CASE c \notin Class.defaulted \cup r.dirty
    <3>1. row[c] = Class.default[c]
      BY <2>3, <1>2 DEF Inserted, OutputArgs, ListedForInsert
    <3> HIDE DEF row
    <3> QED BY <3>1, <1>2, ClassIsClass DEF IsTable
  <2> QED BY <2>1, <2>2, <2>3
<1> HIDE DEF row
<1>3. IsRowOf(Class, row)
  BY <1>1, <1>2 DEF IsRowOf
<1> QED BY <1>3 DEF row

LEMMA UpdatedIsRow ==
  ASSUME NEW r, IsObject(r), NEW row, IsRowOf(Class, row)
  PROVE  IsRowOf(Class, Updated(r, row))
<1> DEFINE s == Updated(r, row)
<1>1. s = [c \in ColumnsOf(Class) |-> s[c]]
  BY DEF Updated
<1>2. \A c \in ColumnsOf(Class) : s[c] = AsTaken(Class.kind[c], r.value[c]) \/ s[c] = row[c]
  BY DEF Updated, UpdateColumns, UpdateArgs
<1> HIDE DEF s
<1>3. \A c \in ColumnsOf(Class) : IsField(Class.kind[c], s[c])
  BY <1>2, TakenIsField DEF IsObject, IsRowOf
<1>4. IsRowOf(Class, s)
  BY <1>1, <1>3 DEF IsRowOf
<1> QED BY <1>4 DEF s

\* A vector of another size names no column.
LEMMA MaskedFields ==
  ASSUME NEW json, NEW mask
  PROVE  LET name == IF FitsClass(Class, mask) THEN MaskedNames(Class, mask)
                     ELSE [c \in ColumnsOf(Class) |-> ""]
         IN FromMasqueradedJson(Class, json, mask) =
              [value |-> FieldsAfter(Class, Blank(Class).value, json, name),
               dirty |-> Reached(Class, json, name)]
<1> DEFINE name == IF FitsClass(Class, mask) THEN MaskedNames(Class, mask)
                   ELSE [c \in ColumnsOf(Class) |-> ""]
<1> SUFFICES FromMasqueradedJson(Class, json, mask) =
               [value |-> FieldsAfter(Class, Blank(Class).value, json, name),
                dirty |-> Reached(Class, json, name)]
  OBVIOUS
<1>1. CASE FitsClass(Class, mask)
  BY <1>1 DEF FromMasqueradedJson
<1>2. CASE ~FitsClass(Class, mask)
  <2>1. Reached(Class, json, name) = {}
    BY <1>2 DEF Reached, Given
  <2> HIDE DEF name
  <2>2. FieldsAfter(Class, Blank(Class).value, json, name) = Blank(Class).value
    <3>1. \A c \in ColumnsOf(Class) :
            FieldsAfter(Class, Blank(Class).value, json, name)[c] = Blank(Class).value[c]
      <4>1. \A c \in ColumnsOf(Class) : c \notin Reached(Class, json, name)
        BY <2>1
      <4> QED BY <4>1 DEF FieldsAfter
    <3>2. Blank(Class).value = [c \in ColumnsOf(Class) |-> Blank(Class).value[c]]
      BY DEF Blank
    <3>3. FieldsAfter(Class, Blank(Class).value, json, name) =
            [c \in ColumnsOf(Class) |->
               FieldsAfter(Class, Blank(Class).value, json, name)[c]]
      BY DEF FieldsAfter
    <3> QED BY <3>1, <3>2, <3>3
  <2> QED BY <1>2, <2>1, <2>2 DEF FromMasqueradedJson, Blank
<1> QED BY <1>1, <1>2

LEMMA ListeningStep ==
  ASSUME RecordsInv, NEW p \in Clients, Step(p)
  PROVE  Listening'
<1>1. class' = class
  BY DEF Step, New, Find, FindByName, Construct, ConstructMasqueraded, Modify,
         ModifyMasqueraded, Set, SetToNull, InsertRow, InsertRefused, UpdateRow,
         UpdateRefused, DeleteRow, Call
<1>2. Listening /\ RowsTyped /\ class \in DOMAIN Classes
  BY DEF RecordsInv
<1>3. CASE New(p)
  BY <1>1, <1>2, <1>3, BlankListens, Holding DEF New
<1>4. CASE Find(p)
  <2>1. PICK row \in stored : Holds(p, FromRow(Class, row, Class.layout))
    BY <1>4 DEF Find
  <2>2. IsRowOf(Class, row)
    BY <1>2 DEF RowsTyped
  <2> QED BY <1>1, <1>2, <2>1, <2>2, RowListens, Holding
<1>5. CASE FindByName(p)
  <2>1. PICK row \in stored : Holds(p, FromRowByName(Class, row))
    BY <1>5 DEF FindByName
  <2>2. IsRowOf(Class, row)
    BY <1>2 DEF RowsTyped
  <2> QED BY <1>1, <1>2, <2>1, <2>2, NamedRowListens, Holding
<1>6. CASE Construct(p)
  <2>1. PICK json \in Class.bodies :
          \/ ConstructFails(p, json, PlainNames(Class))
          \/ /\ Throwing(Class, json, PlainNames(Class)) = {}
             /\ rec' = [rec EXCEPT ![p] = FromJson(Class, json)]
             /\ HearFirst(p, json, PlainNames(Class))
    BY <1>6 DEF Construct
  <2> QED BY <1>1, <1>2, <2>1, FirstHearing DEF FromJson
<1>7. CASE ConstructMasqueraded(p)
  <2> DEFINE NameOf(m) == IF FitsClass(Class, m.mask) THEN MaskedNames(Class, m.mask)
                          ELSE [c \in ColumnsOf(Class) |-> ""]
  <2>1. PICK m \in Class.masked :
          \/ ConstructFails(p, m.json, NameOf(m))
          \/ /\ Throwing(Class, m.json, NameOf(m)) = {}
             /\ rec' = [rec EXCEPT ![p] = FromMasqueradedJson(Class, m.json, m.mask)]
             /\ HearFirst(p, m.json, NameOf(m))
    BY <1>7 DEF ConstructMasqueraded
  <2>2. FromMasqueradedJson(Class, m.json, m.mask) =
          [value |-> FieldsAfter(Class, Blank(Class).value, m.json, NameOf(m)),
           dirty |-> Reached(Class, m.json, NameOf(m))]
    BY MaskedFields
  <2> HIDE DEF NameOf
  <2> QED BY <1>1, <1>2, <2>1, <2>2, FirstHearing
<1>8. CASE Modify(p)
  <2>1. PICK json \in Class.bodies :
          /\ rec' = [rec EXCEPT ![p] = UpdateByJson(Class, rec[p], json)]
          /\ Hear(p, json, PlainNames(Class))
    BY <1>8 DEF Modify
  <2> QED BY <1>1, <1>2, <2>1, MoreHearing DEF UpdateByJson
<1>9. CASE ModifyMasqueraded(p)
  <2>1. PICK m \in Class.masked :
          /\ rec' = [rec EXCEPT ![p] = UpdateByMasqueradedJson(Class, rec[p], m.json, m.mask)]
          /\ IF FitsClass(Class, m.mask)
             THEN Hear(p, m.json, MaskedNames(Class, m.mask))
             ELSE UNCHANGED <<asked, unheard>>
    BY <1>9 DEF ModifyMasqueraded
  <2>2. CASE FitsClass(Class, m.mask)
    BY <1>1, <1>2, <2>1, <2>2, MoreHearing DEF UpdateByMasqueradedJson
  <2>3. CASE ~FitsClass(Class, m.mask)
    <3>1. rec' = [rec EXCEPT ![p] = rec[p]]
      BY <2>1, <2>3 DEF UpdateByMasqueradedJson
    <3>2. DOMAIN rec' = Clients /\ \A q \in Clients : rec'[q] = rec[q]
      BY <3>1, <1>2 DEF Listening
    <3> QED BY <1>1, <1>2, <2>1, <2>3, <3>2 DEF Listening, Listens, IsObject, Class
  <2> QED BY <2>2, <2>3
<1>10. CASE Set(p)
  <2>1. PICK c \in ColumnsOf(Class) : \E v \in Values[Class.kind[c]] :
          rec' = [rec EXCEPT ![p] = SetField(@, c, v)] /\ Sets(p, c, {v})
    BY <1>10 DEF Set
  <2>2. PICK v \in Values[Class.kind[c]] :
          rec' = [rec EXCEPT ![p] = SetField(@, c, v)] /\ Sets(p, c, {v})
    BY <2>1
  <2>3. IsField(Class.kind[c], {v})
    BY OneValue, ClassesAssumption
  <2> QED BY <1>1, <1>2, <2>2, <2>3, SettingListens DEF SetField
<1>11. CASE SetToNull(p)
  <2>1. PICK c \in ColumnsOf(Class) :
          rec' = [rec EXCEPT ![p] = SetFieldToNull(@, c)] /\ Sets(p, c, {})
    BY <1>11 DEF SetToNull
  <2>2. IsField(Class.kind[c], {})
    BY DEF IsField
  <2> QED BY <1>1, <1>2, <2>1, <2>2, SettingListens DEF SetFieldToNull
<1>12. CASE InsertRow(p)
  <2>1. PICK fresh \in Uuid :
          IF NeedSelection(Class, rec[p])
          THEN Holds(p, FromRow(Class, Inserted(rec[p], fresh), Class.layout))
          ELSE UNCHANGED <<rec, asked, unheard>>
    BY <1>12 DEF InsertRow
  <2>2. IsObject(rec[p])
    BY <1>2 DEF Listening, Listens
  <2>3. IsRowOf(Class, Inserted(rec[p], fresh))
    BY <1>2, <2>2, InsertedIsRow
  <2>4. CASE NeedSelection(Class, rec[p])
    BY <1>1, <1>2, <2>1, <2>3, <2>4, RowListens, Holding
  <2>5. CASE ~NeedSelection(Class, rec[p])
    BY <1>1, <1>2, <2>1, <2>5, ListeningStays
  <2> QED BY <2>4, <2>5
<1>13. CASE InsertRefused(p) \/ UpdateRow(p) \/ UpdateRefused(p) \/ DeleteRow(p)
  BY <1>1, <1>2, <1>13, ListeningStays DEF InsertRefused, UpdateRow, UpdateRefused, DeleteRow
<1> QED BY <1>3, <1>4, <1>5, <1>6, <1>7, <1>8, <1>9, <1>10, <1>11, <1>12, <1>13 DEF Step

LEMMA RowsStep ==
  ASSUME RecordsInv, NEW p \in Clients, Step(p)
  PROVE  RowsTyped'
<1>1. class' = class
  BY DEF Step, New, Find, FindByName, Construct, ConstructMasqueraded, Modify,
         ModifyMasqueraded, Set, SetToNull, InsertRow, InsertRefused, UpdateRow,
         UpdateRefused, DeleteRow, Call
<1>2. /\ class \in DOMAIN Classes
      /\ IsObject(rec[p])
      /\ \A row \in stored : IsRowOf(Class, row) /\ WellFormed(row)
  BY DEF RecordsInv, Listening, Listens, RowsTyped
<1>3. SUFFICES \A row \in stored' : IsRowOf(Class, row) /\ WellFormed(row)
  BY <1>1 DEF RowsTyped, WellFormed, Class
<1>4. CASE InsertRow(p)
  <2>1. PICK fresh \in Uuid : /\ WellFormed(Inserted(rec[p], fresh))
                              /\ stored' = stored \cup {Inserted(rec[p], fresh)}
    BY <1>4 DEF InsertRow
  <2> QED BY <1>2, <2>1, InsertedIsRow
<1>5. CASE UpdateRow(p)
  <2>1. /\ stored' = (stored \ Matching(p)) \cup {Updated(rec[p], row) : row \in Matching(p)}
        /\ \A row \in Matching(p) : WellFormed(Updated(rec[p], row))
    BY <1>5 DEF UpdateRow, UpdateFails, Refused
  <2>2. Matching(p) \subseteq stored
    BY DEF Matching
  <2> QED BY <1>2, <2>1, <2>2, UpdatedIsRow
<1>6. CASE stored' \subseteq stored
  BY <1>2, <1>6
<1> QED BY <1>4, <1>5, <1>6 DEF Step, New, Find, FindByName, Construct,
  ConstructMasqueraded, Modify, ModifyMasqueraded, Set, SetToNull, Sets, InsertRefused,
  UpdateRefused, DeleteRow

LEMMA RecordsInvInit == RecordsInit => RecordsInv
<1> SUFFICES ASSUME RecordsInit PROVE RecordsInv
  OBVIOUS
<1>1. class \in DOMAIN Classes /\ stored = Class.rows
  BY DEF RecordsInit
<1>2. RowsTyped
  BY <1>1, ClassIsClass DEF RowsTyped, IsTable, WellFormed
<1>3. Listening
  BY BlankListens DEF RecordsInit, Listening
<1> QED BY <1>1, <1>2, <1>3 DEF RecordsInv

LEMMA RecordsInvNext ==
  ASSUME RecordsInv, [RecordsNext]_recordVars
  PROVE  RecordsInv'
<1>1. CASE UNCHANGED recordVars
  <2>1. class \in DOMAIN Classes /\ Listening /\ RowsTyped
    BY DEF RecordsInv
  <2>2. UNCHANGED <<class, stored, rec, asked, unheard>>
    BY <1>1 DEF recordVars
  <2>3. Listening'
    BY <2>1, <2>2, ListeningStays
  <2>4. RowsTyped'
    BY <2>1, <2>2 DEF RowsTyped, WellFormed, Class
  <2> QED BY <2>1, <2>2, <2>3, <2>4 DEF RecordsInv
<1>2. CASE RecordsNext
  <2>1. PICK p \in Clients : Step(p)
    BY <1>2 DEF RecordsNext
  <2>2. class' = class
    BY <2>1 DEF Step, New, Find, FindByName, Construct, ConstructMasqueraded, Modify,
           ModifyMasqueraded, Set, SetToNull, InsertRow, InsertRefused, UpdateRow,
           UpdateRefused, DeleteRow, Call
  <2> QED BY <2>1, <2>2, ListeningStep, RowsStep DEF RecordsInv
<1> QED BY <1>1, <1>2

LEMMA RecordsInvHolds == RecordsSpec => []RecordsInv
BY RecordsInvInit, RecordsInvNext, PTL DEF RecordsSpec

-----------------------------------------------------------------------------
(* Updates *)

LEMMA UpdatedValue ==
  ASSUME NEW r, NEW row, NEW c \in ColumnsOf(Class)
  PROVE  Updated(r, row)[c] =
           IF c \in r.dirty THEN AsTaken(Class.kind[c], r.value[c]) ELSE row[c]
BY DEF Updated, UpdateColumns, UpdateArgs

\* An update that is made twice is made once.
LEMMA UpdatedTwice ==
  ASSUME NEW r, NEW row
  PROVE  Updated(r, Updated(r, row)) = Updated(r, row)
<1>1. \A c \in ColumnsOf(Class) :
        Updated(r, Updated(r, row))[c] = Updated(r, row)[c]
  BY UpdatedValue
<1>2. \A s : Updated(r, s) = [c \in ColumnsOf(Class) |-> Updated(r, s)[c]]
  BY DEF Updated
<1> QED BY <1>1, <1>2

LEMMA UpdatedAsAsked ==
  ASSUME NEW p \in Clients, Listens(rec[p], asked[p], unheard[p]),
         Class.keys \subseteq ColumnsOf(Class), NEW row \in Matching(p)
  PROVE  AsAsked(p, row, Updated(rec[p], row))
<1> DEFINE s == Updated(rec[p], row)
<1> SUFFICES ASSUME NEW c \in ColumnsOf(Class) \ unheard[p]
             PROVE  IF asked[p][c] # {}
                    THEN \E field \in asked[p][c] : Kept(Class.kind[c], field, s[c])
                    ELSE s[c] = row[c]
  BY DEF AsAsked
<1>1. s[c] = IF c \in rec[p].dirty
             THEN AsTaken(Class.kind[c], rec[p].value[c]) ELSE row[c]
  BY UpdatedValue
<1>2. /\ asked[p][c] # {} =>
           asked[p][c] = {rec[p].value[c]} /\ c \in rec[p].dirty \cup Class.keys
      /\ c \in rec[p].dirty => asked[p][c] # {}
  BY DEF Listens
<1>3. c \in Class.keys => row[c] = rec[p].value[c]
  BY DEF Matching, PrimaryKey
<1>4. IsField(Class.kind[c], rec[p].value[c])
  BY DEF Listens, IsObject
<1> HIDE DEF s
<1>5. CASE c \in rec[p].dirty
  BY <1>1, <1>2, <1>4, <1>5, TakenIsKept
<1>6. CASE c \notin rec[p].dirty
  BY <1>1, <1>2, <1>3, <1>6 DEF Kept
<1> QED BY <1>5, <1>6

LEMMA UpdateAsAsked ==
  ASSUME RecordsInv, NEW p \in Clients, UpdateRow(p)
  PROVE  /\ \A row \in stored \ stored' : \E s \in stored' : AsAsked(p, row, s)
         /\ \A s \in stored' \ stored : \E row \in stored \ stored' : AsAsked(p, row, s)
<1>1. stored' = (stored \ Matching(p)) \cup {Updated(rec[p], row) : row \in Matching(p)}
  BY DEF UpdateRow
<1>2. \A row \in Matching(p) : AsAsked(p, row, Updated(rec[p], row))
  BY UpdatedAsAsked, ClassIsClass DEF RecordsInv, Listening, IsClass
<1>3. \A row \in stored \ stored' : row \in Matching(p)
  BY <1>1
<1>4. ASSUME NEW s \in stored' \ stored
      PROVE  \E row \in stored \ stored' : AsAsked(p, row, s)
  <2>1. PICK row \in Matching(p) : s = Updated(rec[p], row)
    BY <1>1
  <2>2. row \in stored
    BY DEF Matching
  <2>3. row \notin stored'
    <3>1. SUFFICES ASSUME row \in stored' PROVE FALSE
      OBVIOUS
    <3>2. PICK other \in Matching(p) : row = Updated(rec[p], other)
      BY <1>1, <3>1
    <3>3. s = row
      BY <2>1, <3>2, UpdatedTwice
    <3> QED BY <3>3, <2>2
  <2> QED BY <1>2, <2>1, <2>2, <2>3
<1> QED BY <1>1, <1>2, <1>3, <1>4

\* An update changes a row only in the columns that its client asked for, as it
\* asked last, and undoes nothing that others have written since the row was
\* read: for any class and any calls of any number of clients.  The date that it
\* leaves is the one asked for, if the session takes the clock of the process for
\* the second that it shows.
THEOREM UpdatesOnlyAsAsked == RecordsSpec => UpdatesAsAsked
<1> DEFINE AsAskedStep ==
      \A p \in Clients : UpdateRow(p) =>
        /\ \A row \in stored \ stored' : \E s \in stored' : AsAsked(p, row, s)
        /\ \A s \in stored' \ stored : \E row \in stored \ stored' : AsAsked(p, row, s)
<1>1. RecordsInv /\ [RecordsNext]_recordVars => [AsAskedStep]_recordVars
  BY UpdateAsAsked
<1>2. RecordsSpec => [][AsAskedStep]_recordVars
  BY <1>1, RecordsInvHolds, PTL DEF RecordsSpec
<1> QED BY <1>2 DEF UpdatesAsAsked

-----------------------------------------------------------------------------
(* Types *)

Booked ==
  /\ DOMAIN hidden = Clients /\ DOMAIN checked = Clients
  /\ DOMAIN outcome = Clients /\ DOMAIN left = Clients
  /\ \A p \in Clients :
       /\ hidden[p] \subseteq ColumnsOf(Class)
       /\ checked[p] \subseteq {"insert", "update"}
       /\ outcome[p] \in {"done", "threw", "insert", "update"}
       /\ left[p] \in 0..Calls[p]

Writes == {"insert", "update"}

Outcomes == {"done", "threw", "insert", "update"}

\* The books of one client are kept, or written to.
BooksOf(p) ==
  /\ hidden' = hidden \/ \E h \in SUBSET ColumnsOf(Class) : hidden' = [hidden EXCEPT ![p] = h]
  /\ checked' = checked \/ \E w \in SUBSET Writes : checked' = [checked EXCEPT ![p] = w]
  /\ outcome' = outcome \/ \E o \in Outcomes : outcome' = [outcome EXCEPT ![p] = o]

LEMMA HoldingBooks ==
  ASSUME NEW p \in Clients, NEW r, Holds(p, r)
  PROVE  BooksOf(p)
<1>1. {} \in SUBSET ColumnsOf(Class) /\ {"update"} \in SUBSET Writes /\ "done" \in Outcomes
  BY DEF Writes, Outcomes
<1> QED BY <1>1 DEF Holds, BooksOf

LEMMA ConstructingBooks ==
  ASSUME NEW p \in Clients, NEW json, NEW name, NEW v, NEW w, NEW h \in SUBSET ColumnsOf(Class),
         ConstructFails(p, json, name) \/ HearFirst(p, json, name),
         hidden' = [hidden EXCEPT ![p] = h],
         checked' = [checked EXCEPT ![p] = Approved(v, "insert") \cup Approved(w, "update")]
  PROVE  BooksOf(p)
<1>1. /\ Approved(v, "insert") \cup Approved(w, "update") \in SUBSET Writes
      /\ "done" \in Outcomes /\ "threw" \in Outcomes
  BY DEF Approved, Writes, Outcomes
<1> QED BY <1>1 DEF ConstructFails, HearFirst, BooksOf

LEMMA ModifyingBooks ==
  ASSUME Booked, NEW p \in Clients, NEW json, NEW name, NEW v,
         CallEnds(p, json, name) \/ outcome' = [outcome EXCEPT ![p] = "done"],
         checked' = [checked EXCEPT ![p] = IF v THEN @ ELSE {}], UNCHANGED hidden
  PROVE  BooksOf(p)
<1>1. (IF v THEN checked[p] ELSE {}) \in SUBSET Writes
  BY DEF Booked, Writes
<1>2. (IF Throwing(Class, json, name) = {} THEN "done" ELSE "threw") \in Outcomes
      /\ "done" \in Outcomes
  BY DEF Outcomes
<1> QED BY <1>1, <1>2 DEF CallEnds, BooksOf

LEMMA SettingBooks ==
  ASSUME NEW p \in Clients, NEW c, NEW field, Sets(p, c, field)
  PROVE  BooksOf(p)
<1>1. {} \in SUBSET Writes /\ "done" \in Outcomes
  BY DEF Writes, Outcomes
<1> QED BY <1>1 DEF Sets, BooksOf

LEMMA EndingBooks ==
  ASSUME NEW p \in Clients, NEW o \in Outcomes, outcome' = [outcome EXCEPT ![p] = o],
         UNCHANGED <<hidden, checked>>
  PROVE  BooksOf(p)
BY DEF BooksOf

LEMMA BooksStep ==
  ASSUME Booked, NEW p \in Clients, Step(p)
  PROVE  BooksOf(p)
<1>1. CASE New(p) \/ Find(p) \/ FindByName(p)
  BY <1>1, HoldingBooks DEF New, Find, FindByName
<1>2. CASE Construct(p)
  <2>1. PICK json \in Class.bodies :
          /\ \/ ConstructFails(p, json, PlainNames(Class))
             \/ HearFirst(p, json, PlainNames(Class))
          /\ checked' = [checked EXCEPT ![p] =
               Approved(ValidateJsonForCreation(Class, json), "insert")
                 \cup Approved(ValidateJsonForUpdate(Class, json), "update")]
    BY <1>2 DEF Construct
  <2>2. hidden' = [hidden EXCEPT ![p] = {}] /\ {} \in SUBSET ColumnsOf(Class)
    BY <1>2 DEF Construct
  <2> QED BY <2>1, <2>2, ConstructingBooks
<1>3. CASE ConstructMasqueraded(p)
  <2> DEFINE NameOf(m) == IF FitsClass(Class, m.mask) THEN MaskedNames(Class, m.mask)
                          ELSE [c \in ColumnsOf(Class) |-> ""]
             out(m) == {c \in ColumnsOf(Class) : NameOf(m)[c] = ""}
  <2>1. PICK m \in Class.masked :
          /\ \/ ConstructFails(p, m.json, NameOf(m))
             \/ HearFirst(p, m.json, NameOf(m))
          /\ hidden' = [hidden EXCEPT ![p] = out(m)]
          /\ checked' = [checked EXCEPT ![p] =
               Approved(ValidateMasqueradedJsonForCreation(Class, m.json, m.mask), "insert")
                 \cup Approved(ValidateMasqueradedJsonForUpdate(Class, m.json, m.mask), "update")]
    BY <1>3 DEF ConstructMasqueraded
  <2>2. out(m) \in SUBSET ColumnsOf(Class)
    OBVIOUS
  <2> HIDE DEF NameOf, out
  <2> QED BY <2>1, <2>2, ConstructingBooks
<1>4. CASE Modify(p)
  <2>1. PICK json \in Class.bodies :
          /\ checked' = [checked EXCEPT ![p] =
               IF ValidateJsonForUpdate(Class, json) THEN @ ELSE {}]
          /\ CallEnds(p, json, PlainNames(Class))
    BY <1>4 DEF Modify
  <2>2. UNCHANGED hidden
    BY <1>4 DEF Modify
  <2> QED BY <2>1, <2>2, ModifyingBooks
<1>5. CASE ModifyMasqueraded(p)
  <2>1. PICK m \in Class.masked :
          /\ \/ CallEnds(p, m.json, MaskedNames(Class, m.mask))
             \/ outcome' = [outcome EXCEPT ![p] = "done"]
          /\ checked' = [checked EXCEPT ![p] =
               IF ValidateMasqueradedJsonForUpdate(Class, m.json, m.mask) THEN @ ELSE {}]
    BY <1>5 DEF ModifyMasqueraded
  <2>2. UNCHANGED hidden
    BY <1>5 DEF ModifyMasqueraded
  <2> QED BY <2>1, <2>2, ModifyingBooks
<1>6. CASE Set(p) \/ SetToNull(p)
  BY <1>6, SettingBooks DEF Set, SetToNull
<1>7. CASE InsertRow(p)
  <2>1. PICK fresh \in Uuid :
          IF NeedSelection(Class, rec[p])
          THEN Holds(p, FromRow(Class, Inserted(rec[p], fresh), Class.layout))
          ELSE outcome' = [outcome EXCEPT ![p] = "done"] /\ UNCHANGED <<hidden, checked>>
    BY <1>7 DEF InsertRow
  <2>2. "done" \in Outcomes
    BY DEF Outcomes
  <2> QED BY <2>1, <2>2, HoldingBooks, EndingBooks
<1>8. CASE InsertRefused(p) \/ UpdateRow(p) \/ UpdateRefused(p) \/ DeleteRow(p)
  <2>1. /\ UNCHANGED <<hidden, checked>>
        /\ \/ outcome' = [outcome EXCEPT ![p] = "done"]
           \/ outcome' = [outcome EXCEPT ![p] = "insert"]
           \/ outcome' = [outcome EXCEPT ![p] = "update"]
    BY <1>8 DEF InsertRefused, UpdateRow, UpdateRefused, DeleteRow
  <2>2. "done" \in Outcomes /\ "insert" \in Outcomes /\ "update" \in Outcomes
    BY DEF Outcomes
  <2> QED BY <2>1, <2>2, EndingBooks
<1> QED BY <1>1, <1>2, <1>3, <1>4, <1>5, <1>6, <1>7, <1>8 DEF Step

LEMMA BookedStep ==
  ASSUME Booked, NEW p \in Clients, Step(p)
  PROVE  Booked'
<1>1. Call(p)
  BY DEF Step, New, Find, FindByName, Construct, ConstructMasqueraded, Modify,
         ModifyMasqueraded, Set, SetToNull, InsertRow, InsertRefused, UpdateRow,
         UpdateRefused, DeleteRow
<1>2. DOMAIN left' = Clients /\ \A q \in Clients : left'[q] \in 0..Calls[q]
  <2>1. left[p] > 0 /\ left' = [left EXCEPT ![p] = left[p] - 1]
    BY <1>1 DEF Call
  <2>2. \A q \in Clients : left[q] \in 0..Calls[q] /\ Calls[q] \in Nat
    BY ClassesAssumption DEF Booked
  <2> QED BY <2>1, <2>2 DEF Booked
<1>3. Class' = Class
  BY <1>1 DEF Call, Class
<1>4. BooksOf(p)
  BY BooksStep
<1>5. /\ DOMAIN hidden' = Clients /\ DOMAIN checked' = Clients /\ DOMAIN outcome' = Clients
      /\ \A q \in Clients : /\ hidden'[q] \subseteq ColumnsOf(Class)
                            /\ checked'[q] \subseteq Writes
                            /\ outcome'[q] \in Outcomes
  BY ZenonT(60), <1>4 DEF BooksOf, Booked, Writes, Outcomes
<1> QED BY <1>2, <1>3, <1>5 DEF Booked, Writes, Outcomes

\* Rows keep to the table, fields to their kind, and the dirty columns and the
\* wishes to the columns of the class.
THEOREM RecordsTyped == RecordsSpec => []RecordsTypeOK
<1>1. RecordsInit => Booked
  BY ClassesAssumption DEF RecordsInit, Booked
<1>2. Booked /\ [RecordsNext]_recordVars => Booked'
  <2>1. ASSUME Booked, RecordsNext PROVE Booked'
    BY <2>1, BookedStep DEF RecordsNext
  <2>2. ASSUME Booked, UNCHANGED recordVars PROVE Booked'
    BY <2>2 DEF recordVars, Booked, Class
  <2> QED BY <2>1, <2>2
<1>3. RecordsInv /\ Booked => RecordsTypeOK
  BY DEF RecordsInv, Booked, Listening, Listens, RowsTyped, RecordsTypeOK
<1> QED BY <1>1, <1>2, <1>3, RecordsInvHolds, PTL DEF RecordsSpec

-----------------------------------------------------------------------------
(* Objects as JSON and back *)

LEMMA DateAndTimeIsRead ==
  ASSUME NEW w \in Clocks, NEW m \in MicrosOfSecond, NEW text,
         text = [clock |-> w, micros |-> m, form |-> "dateTime"]
  PROVE  /\ text \in TimeTexts
         /\ FromText(text) = [second |-> Mktime[w], micros |-> m]
<1>1. text.clock = w /\ text.micros = m
  OBVIOUS
<1> QED BY <1>1 DEF TimeTexts, FromText

\* A field is the same again, or a date that the way through JSON loses.
Returns(k, field, back) ==
  back = field \/ (k = "time" /\ LostInJson(field))

\* What a field is written as is read back to the field.
LEMMA FieldReadsBack ==
  ASSUME NEW k, NEW r, NEW c, IsField(k.kind[c], r.value[c])
  PROVE  /\ Returns(k.kind[c], r.value[c], FromJsonField(k.kind[c], JsonOf(k, r, c), {}))
         /\ JsonOf(k, r, c).is # "null" => Converts(k.kind[c], JsonOf(k, r, c))
<1>1. CASE r.value[c] = {}
  BY <1>1 DEF JsonOf, FromJsonField, Returns
<1>2. CASE r.value[c] # {}
  <2>1. PICK v : r.value[c] = {v} /\ (CHOOSE w \in r.value[c] : TRUE) = v
    BY <1>2 DEF IsField
  <2> DEFINE text == TextOf(k.kind[c], v)
             is == IF k.kind[c] = "bool" THEN "bool" ELSE "text"
  <2>2. JsonOf(k, r, c) = [is |-> is, v |-> text]
    BY <1>2, <2>1 DEF JsonOf
  <2>3. JsonOf(k, r, c).is = is /\ JsonOf(k, r, c).v = text /\ is # "null" /\ is # "object"
    BY <2>2
  <2>4. k.kind[c] = "time" =>
          LostInJson({v}) \/ (text \in TimeTexts /\ FromText(text) = v)
    <3>1. SUFFICES ASSUME k.kind[c] = "time", ~LostInJson({v})
                   PROVE  text \in TimeTexts /\ FromText(text) = v
      OBVIOUS
    <3>2. /\ v \in Times
          /\ ~(v.micros = 0 /\ Local[v.second] \in Midnights)
          /\ Mktime[Local[v.second]] = v.second
      BY <2>1, <3>1 DEF IsField, LostInJson
    <3>3. text = [clock |-> Local[v.second], micros |-> v.micros, form |-> "dateTime"]
      BY <3>1, <3>2 DEF TextOf
    <3>4. v.second \in Seconds /\ v.micros \in MicrosOfSecond
          /\ v = [second |-> v.second, micros |-> v.micros]
      BY <3>2 DEF Times
    <3>5. Local[v.second] \in Clocks
      BY <3>4, ClocksAssumption
    <3> HIDE DEF text
    <3>6. /\ text \in TimeTexts
          /\ FromText(text) = [second |-> Mktime[Local[v.second]], micros |-> v.micros]
      BY <3>3, <3>4, <3>5, DateAndTimeIsRead
    <3> QED BY <3>2, <3>4, <3>6
  <2>5. k.kind[c] # "time" => text = v
    BY DEF TextOf
  <2>6. k.kind[c] = "bool" => is # "text"
    OBVIOUS
  <2> HIDE DEF text, is
  <2>7. FromJsonField(k.kind[c], JsonOf(k, r, c), {}) =
          IF k.kind[c] = "time"
          THEN IF text \in TimeTexts THEN {FromText(text)} ELSE {}
          ELSE {text}
    BY <2>3 DEF FromJsonField
  <2>8. Returns(k.kind[c], r.value[c], FromJsonField(k.kind[c], JsonOf(k, r, c), {}))
    BY <2>1, <2>4, <2>5, <2>7 DEF Returns
  <2>9. JsonOf(k, r, c).is # "null" => Converts(k.kind[c], JsonOf(k, r, c))
    BY <2>3, <2>6 DEF Converts
  <2> QED BY <2>8, <2>9
<1> QED BY <1>1, <1>2

\* Where nothing throws, the fields of the given columns are read, the others
\* are empty.
LEMMA ConstructedFields ==
  ASSUME NEW k, NEW json, NEW name, Throwing(k, json, name) = {}, NEW c \in ColumnsOf(k)
  PROVE  FieldsAfter(k, Blank(k).value, json, name)[c] =
           IF c \in Given(k, json, name)
           THEN FromJsonField(k.kind[c], json[name[c]], {}) ELSE {}
<1>1. Blank(k).value[c] = {}
  BY DEF Blank
<1>2. Reached(k, json, name) \ Throwing(k, json, name) = Given(k, json, name)
  BY ReachedColumns
<1> QED BY <1>1, <1>2 DEF FieldsAfter

WritesOut(k, r, json, name) ==
  \A c \in ColumnsOf(k) : name[c] # "" =>
    name[c] \in DOMAIN json /\ json[name[c]] = JsonOf(k, r, c)

ReadIn(k, r, json, name) ==
  \A c \in ColumnsOf(k) : name[c] # "" =>
    Returns(k.kind[c], r.value[c], FieldsAfter(k, Blank(k).value, json, name)[c])

FieldsTyped(k, r) == \A c \in ColumnsOf(k) : IsField(k.kind[c], r.value[c])

\* JSON that gives each named column its own member reads back.
LEMMA MembersReadBack ==
  ASSUME NEW k, NEW r, NEW json, NEW name, FieldsTyped(k, r), WritesOut(k, r, json, name)
  PROVE  ReadIn(k, r, json, name)
<1>1. \A c \in Given(k, json, name) : json[name[c]] = JsonOf(k, r, c) /\ c \in ColumnsOf(k)
  BY DEF Given, WritesOut
<1>2. \A c \in ColumnsOf(k) :
        /\ Returns(k.kind[c], r.value[c], FromJsonField(k.kind[c], JsonOf(k, r, c), {}))
        /\ JsonOf(k, r, c).is # "null" => Converts(k.kind[c], JsonOf(k, r, c))
  BY FieldReadsBack DEF FieldsTyped
<1>3. Throwing(k, json, name) = {}
  <2>1. ASSUME NEW c \in Given(k, json, name)
        PROVE  ~(json[name[c]].is # "null" /\ ~Converts(k.kind[c], json[name[c]]))
    <3>1. json[name[c]] = JsonOf(k, r, c) /\ c \in ColumnsOf(k)
      BY <1>1
    <3>2. JsonOf(k, r, c).is # "null" => Converts(k.kind[c], JsonOf(k, r, c))
      BY <1>2, <3>1
    <3> QED BY <3>1, <3>2, Zenon
  <2> QED BY <2>1 DEF Throwing
<1>4. ASSUME NEW c \in ColumnsOf(k), name[c] # ""
      PROVE  Returns(k.kind[c], r.value[c], FieldsAfter(k, Blank(k).value, json, name)[c])
  <2>1. c \in Given(k, json, name)
    BY <1>4 DEF Given, WritesOut
  <2>2. FieldsAfter(k, Blank(k).value, json, name)[c]
          = FromJsonField(k.kind[c], json[name[c]], {})
    BY <1>3, <2>1, ConstructedFields
  <2>3. json[name[c]] = JsonOf(k, r, c)
    BY <1>1, <2>1
  <2>4. Returns(k.kind[c], r.value[c], FromJsonField(k.kind[c], JsonOf(k, r, c), {}))
    BY <1>2
  <2> QED BY <2>2, <2>3, <2>4, Zenon
<1> QED BY <1>4 DEF ReadIn

LEMMA PlainReadsBack ==
  ASSUME class \in DOMAIN Classes, NEW r, IsObject(r)
  PROVE  \A json \in {ToJson(Class, r)} : \A back \in {FromJson(Class, json)} :
           \A c \in ColumnsOf(Class) : Survives(back, r, c)
<1> DEFINE json == ToJson(Class, r)
           name == PlainNames(Class)
           v == FieldsAfter(Class, Blank(Class).value, json, name)
<1>1. \A c \in ColumnsOf(Class) : name[c] = c /\ c # ""
  BY ClassIsClass DEF PlainNames, IsClass
<1>2. \A c \in ColumnsOf(Class) : c \in DOMAIN json /\ json[c] = JsonOf(Class, r, c)
  BY DEF ToJson
<1>3. FromJson(Class, json).value = v
  BY DEF FromJson
<1> HIDE DEF json, name
<1>4. \A c \in ColumnsOf(Class) : Returns(Class.kind[c], r.value[c], v[c])
  <2>1. FieldsTyped(Class, r)
    BY DEF IsObject, FieldsTyped
  <2>2. WritesOut(Class, r, json, name)
    BY <1>1, <1>2 DEF WritesOut
  <2>3. ReadIn(Class, r, json, name)
    BY <2>1, <2>2, MembersReadBack
  <2> QED BY <1>1, <2>3 DEF ReadIn
<1> HIDE DEF v
<1>5. \A c \in ColumnsOf(Class) : Survives(FromJson(Class, json), r, c)
  BY <1>3, <1>4 DEF Survives, Returns
<1> QED BY <1>5 DEF json

LEMMA SameLength ==
  ASSUME NEW S, NEW s \in Seq(S), NEW t \in Seq(S), Len(s) = Len(t)
  PROVE  DOMAIN s = DOMAIN t
OBVIOUS

\* With different names, the last column of a name is its only one.
LEMMA NamesDiffer ==
  ASSUME NEW k, NEW mask, FitsClass(k, mask), Distinct(mask),
         k.columns \in Seq(STRING), mask \in Seq(STRING),
         NEW c \in ColumnsOf(k), NEW d \in ColumnsOf(k),
         MaskedNames(k, mask)[c] = MaskedNames(k, mask)[d], MaskedNames(k, mask)[c] # ""
  PROVE  c = d
<1> DEFINE place(e) == CHOOSE i \in DOMAIN k.columns : k.columns[i] = e
<1>1. DOMAIN mask = DOMAIN k.columns
  <2>1. Len(mask) = Len(k.columns)
    BY DEF FitsClass
  <2> QED BY <2>1, SameLength
<1>2. \A e \in ColumnsOf(k) : place(e) \in DOMAIN mask /\ k.columns[place(e)] = e
  BY <1>1, ColumnPlace
<1>3. mask[place(c)] = mask[place(d)] /\ mask[place(c)] # ""
  BY DEF MaskedNames
<1> HIDE DEF place
<1>4. place(c) = place(d)
  BY <1>2, <1>3 DEF Distinct
<1> QED BY <1>2, <1>4

LEMMA PrecedesOther ==
  ASSUME NEW k, k.columns \in Seq(STRING), NEW c,
         \A i, j \in DOMAIN k.columns : i # j => k.columns[i] # k.columns[j]
  PROVE  ~Precedes(k, c, c)
BY DEF Precedes

LEMMA MaskedReadsBack ==
  ASSUME class \in DOMAIN Classes, NEW r, IsObject(r), NEW mask \in Seq(STRING),
         FitsClass(Class, mask), Distinct(mask)
  PROVE  ReadsBack(r, mask)
<1> DEFINE name  == MaskedNames(Class, mask)
           named == {c \in ColumnsOf(Class) : name[c] # ""}
           last(n) == CHOOSE c \in named :
                        name[c] = n /\ ~\E d \in named : name[d] = n /\ Precedes(Class, c, d)
           json  == ToMasqueradedJson(Class, r, mask)
           back  == FromMasqueradedJson(Class, json, mask)
<1>1. IsClass(Class)
  BY ClassIsClass
<1>2. \A c, d \in named : name[c] = name[d] => c = d
  BY <1>1, NamesDiffer DEF IsClass
<1>3. ASSUME NEW c \in named PROVE last(name[c]) = c
  <2>1. ~Precedes(Class, c, c)
    BY <1>1, PrecedesOther DEF IsClass
  <2> HIDE DEF name, named
  <2> QED BY <1>2, <1>3, <2>1
<1>4. json = [n \in {name[c] : c \in named} |-> JsonOf(Class, r, last(n))]
  BY DEF ToMasqueradedJson
<1>5. back.value = FieldsAfter(Class, Blank(Class).value, json, name)
  BY DEF FromMasqueradedJson
<1>6. \A c \in ColumnsOf(Class) : name[c] # "" =>
        name[c] \in DOMAIN json /\ json[name[c]] = JsonOf(Class, r, c)
  <2> SUFFICES ASSUME NEW c \in ColumnsOf(Class), name[c] # ""
               PROVE  name[c] \in DOMAIN json /\ json[name[c]] = JsonOf(Class, r, c)
    OBVIOUS
  <2>1. c \in named
    OBVIOUS
  <2>2. last(name[c]) = c
    BY <1>3, <2>1
  <2> HIDE DEF json, last, name, named
  <2> QED BY <1>4, <2>1, <2>2
<1> HIDE DEF json, last, name, named
<1>7. \A c \in ColumnsOf(Class) : name[c] # "" => Survives(back, r, c)
  <2>1. FieldsTyped(Class, r)
    BY DEF IsObject, FieldsTyped
  <2>2. WritesOut(Class, r, json, name)
    BY <1>6 DEF WritesOut
  <2>3. ReadIn(Class, r, json, name)
    BY <2>1, <2>2, MembersReadBack
  <2> HIDE DEF back
  <2> QED BY <1>5, <2>3 DEF ReadIn, Returns, Survives
<1> QED BY <1>7 DEF ReadsBack, name, json

\* What an object writes as JSON, a constructor reads back to the same fields, but
\* for dates at midnight and in summer, with a masquerading vector so do the
\* columns whose name no other has: in every state that clients of any class can
\* get to, whatever the zones of the process and the session.
THEOREM JsonIsFaithful == RecordsSpec => []JsonRoundTrips
<1>1. RecordsInv => JsonRoundTrips
  <2> SUFFICES ASSUME RecordsInv, NEW p \in Clients
               PROVE  /\ \A json \in {ToJson(Class, rec[p])} : \A back \in {FromJson(Class, json)} :
                           \A c \in ColumnsOf(Class) : Survives(back, rec[p], c)
                      /\ \A m \in Class.masked :
                           FitsClass(Class, m.mask) /\ Distinct(m.mask) => ReadsBack(rec[p], m.mask)
    BY DEF JsonRoundTrips
  <2>1. class \in DOMAIN Classes /\ IsObject(rec[p])
    BY DEF RecordsInv, Listening, Listens
  <2>2. \A m \in Class.masked : m.mask \in Seq(STRING)
    BY <2>1, ClassIsClass DEF IsClass
  <2> QED BY <2>1, <2>2, PlainReadsBack, MaskedReadsBack
<1> QED BY <1>1, RecordsInvHolds, PTL

-----------------------------------------------------------------------------
(* Inserts *)

\* A field of a row is read as it is, but for dates that are misread.
LEMMA FieldIsRead ==
  ASSUME NEW kind, NEW field, IsField(kind, field)
  PROVE  \/ AsRead(kind, field) = field
         \/ kind = "time" /\ Misread(field)
<1>1. CASE kind # "time"
  BY <1>1 DEF AsRead
<1>2. CASE kind = "time" /\ field = {}
  BY <1>2 DEF AsRead
<1>3. CASE kind = "time" /\ field # {}
  <2>1. PICK d : field = {d}
    BY <1>3 DEF IsField
  <2>2. d \in Times
    BY <1>3, <2>1 DEF IsField
  <2>3. d.micros \in Nat /\ d = [second |-> d.second, micros |-> d.micros]
    BY <2>2, MicrosStay DEF Times
  <2>4. AsRead(kind, field) =
          {[second |-> Mktime[Session[d.second]], micros |-> WithoutZeros(d.micros)]}
    BY <1>3, <2>1 DEF AsRead
  <2>5. WithoutZeros(d.micros) = d.micros \/ (d.micros > 0 /\ d.micros % 10 = 0)
    BY <2>3, ZerosRead
  <2>6. CASE Misread(field)
    BY <1>3, <2>6
  <2>7. CASE ~Misread(field)
    <3>1. Mktime[Session[d.second]] = d.second /\ ~(d.micros > 0 /\ d.micros % 10 = 0)
      BY <2>1, <2>7 DEF Misread
    <3> QED BY <2>1, <2>3, <2>4, <2>5, <3>1
  <2> QED BY <2>6, <2>7
<1> QED BY <1>1, <1>2, <1>3

\* The row of an insert holds what was asked for: the keys that are set without
\* being marked are those that the table fills in.
LEMMA InsertedAsAsked ==
  ASSUME NEW r, NEW a, NEW u, Listens(r, a, u), class \in DOMAIN Classes, NeedSelection(Class, r),
         NEW fresh, NEW c \in ColumnsOf(Class), a[c] # {}, c \notin u \cup Class.defaulted
  PROVE  \E field \in a[c] : Kept(Class.kind[c], field, Inserted(r, fresh)[c])
<1>1. Class.defaulted = Class.keys
  BY ClassIsClass DEF NeedSelection, IsClass
<1>2. a[c] = {r.value[c]} /\ c \in r.dirty
  BY <1>1 DEF Listens
<1>3. Inserted(r, fresh)[c] = AsTaken(Class.kind[c], r.value[c])
  BY <1>2 DEF Inserted, OutputArgs
<1>4. IsField(Class.kind[c], r.value[c])
  BY DEF Listens, IsObject
<1> QED BY <1>2, <1>3, <1>4, TakenIsKept

LEMMA InsertAnswered ==
  ASSUME RecordsInv, NEW p \in Clients, InsertRow(p), NeedSelection(Class, rec[p])
  PROVE  \E row \in stored' \ stored : \A c \in ColumnsOf(Class) :
           /\ asked[p][c] # {} /\ c \notin unheard[p] \cup Class.defaulted =>
                \E field \in asked[p][c] : Kept(Class.kind[c], field, row[c])
           /\ \/ row[c] # {} /\ ValueOf(Class, rec'[p], c) = row[c]
              \/ row[c] = {} /\ rec'[p].value[c] = {}
              \/ Class.kind[c] = "time" /\ Misread(row[c])
<1>1. /\ class \in DOMAIN Classes
      /\ DOMAIN rec = Clients /\ Listens(rec[p], asked[p], unheard[p])
  BY DEF RecordsInv, Listening
<1>2. PICK fresh \in Uuid :
        /\ \A row \in stored, c \in Class.defaulted : fresh \notin row[c]
        /\ stored' = stored \cup {Inserted(rec[p], fresh)}
        /\ Holds(p, FromRow(Class, Inserted(rec[p], fresh), Class.layout))
  BY DEF InsertRow
<1> DEFINE row == Inserted(rec[p], fresh)
<1>3. row \in stored' \ stored
  <2>1. PICK c \in Class.defaulted : c \notin rec[p].dirty
    BY DEF NeedSelection
  <2>2. c \in ColumnsOf(Class)
    BY <1>1, <2>1, ClassIsClass DEF IsClass
  <2>3. row[c] = {fresh}
    BY <2>1, <2>2 DEF Inserted, OutputArgs, ListedForInsert
  <2> HIDE DEF row
  <2>4. row \notin stored
    BY <1>2, <2>1, <2>3
  <2> QED BY <1>2, <2>4 DEF row
<1>4. IsRowOf(Class, row)
  BY <1>1, InsertedIsRow DEF Listens
<1>5. rec'[p] = FromRowByName(Class, row)
  BY <1>1, <1>2, RowByPlace DEF Holds
<1>6. ASSUME NEW c \in ColumnsOf(Class)
      PROVE  /\ asked[p][c] # {} /\ c \notin unheard[p] \cup Class.defaulted =>
                  \E field \in asked[p][c] : Kept(Class.kind[c], field, row[c])
             /\ \/ row[c] # {} /\ ValueOf(Class, rec'[p], c) = row[c]
                \/ row[c] = {} /\ rec'[p].value[c] = {}
                \/ Class.kind[c] = "time" /\ Misread(row[c])
  <2>1. asked[p][c] # {} /\ c \notin unheard[p] \cup Class.defaulted =>
          \E field \in asked[p][c] : Kept(Class.kind[c], field, row[c])
    BY <1>1, InsertedAsAsked
  <2> HIDE DEF row
  <2>2. rec'[p].value[c] = AsRead(Class.kind[c], row[c])
    BY <1>5 DEF FromRowByName
  <2>3. \/ AsRead(Class.kind[c], row[c]) = row[c]
        \/ Class.kind[c] = "time" /\ Misread(row[c])
    BY <1>4, FieldIsRead DEF IsRowOf
  <2>4. row[c] # {} /\ rec'[p].value[c] = row[c] => ValueOf(Class, rec'[p], c) = row[c]
    BY DEF ValueOf
  <2> QED BY <2>1, <2>2, <2>3, <2>4
<1> HIDE DEF row
<1> QED BY <1>3, <1>6

\* The row of an insert is as its client asked, but for dates that the session
\* takes for others, and the object that the insert answers with is that row, but
\* for dates that are misread.
THEOREM InsertsAnswerTheRow == RecordsSpec => InsertsAreAnswered
<1> DEFINE Answers ==
      \A p \in Clients : InsertRow(p) /\ NeedSelection(Class, rec[p]) =>
        \E row \in stored' \ stored : \A c \in ColumnsOf(Class) :
          /\ asked[p][c] # {} /\ c \notin unheard[p] \cup Class.defaulted =>
               \E field \in asked[p][c] : Kept(Class.kind[c], field, row[c])
          /\ \/ row[c] # {} /\ ValueOf(Class, rec'[p], c) = row[c]
             \/ row[c] = {} /\ rec'[p].value[c] = {}
             \/ Class.kind[c] = "time" /\ Misread(row[c])
<1>1. RecordsInv /\ [RecordsNext]_recordVars => [Answers]_recordVars
  BY InsertAnswered
<1>2. RecordsSpec => [][Answers]_recordVars
  BY <1>1, RecordsInvHolds, PTL DEF RecordsSpec
<1> QED BY <1>2 DEF InsertsAreAnswered

-----------------------------------------------------------------------------
(* What validation approved of *)

Present(r, u) == \A c \in Class.notNull : c \in r.dirty \ u => r.value[c] # {}

Short(r) == \A c \in Class.limited : r.value[c] \cap Long = {}

Complete(r, h) == Class.notNull \ Class.defaulted \subseteq r.dirty \cup h

\* The columns that may not be null are not, as far as they are dirty and were
\* heard; approved objects keep to the lengths, and those that are approved for
\* an insert have all columns that it needs, but for hidden ones.
Approves(r, u, h, w) ==
  /\ Present(r, u)
  /\ w # {} => Short(r)
  /\ "insert" \in w => Complete(r, h)

Approval ==
  \A p \in Clients : Approves(rec[p], unheard[p], hidden[p], checked[p])

LEMMA CleanApproves ==
  ASSUME NEW r, r.dirty = {}, Short(r)
  PROVE  Approves(r, {}, {}, {"update"})
BY DEF Approves, Present

LEMMA BlankIsShort ==
  ASSUME class \in DOMAIN Classes
  PROVE  Short(Blank(Class)) /\ Blank(Class).dirty = {}
<1>1. \A c \in Class.limited : c \in ColumnsOf(Class)
  BY ClassIsClass DEF IsTable
<1> QED BY <1>1 DEF Short, Blank

LEMMA RowIsShort ==
  ASSUME class \in DOMAIN Classes, NEW row, WellFormed(row)
  PROVE  Short(FromRowByName(Class, row)) /\ FromRowByName(Class, row).dirty = {}
<1>1. \A c \in Class.limited : c \in ColumnsOf(Class) /\ Class.kind[c] = "text"
  BY ClassIsClass DEF IsTable, IsClass
<1>2. \A c \in Class.limited : FromRowByName(Class, row).value[c] = row[c]
  BY <1>1 DEF FromRowByName, AsRead
<1>3. \A c \in Class.limited : row[c] \cap Long = {}
  BY DEF WellFormed, WellFormedFor
<1> QED BY <1>2, <1>3 DEF Short, FromRowByName

LEMMA JsonPresent ==
  ASSUME class \in DOMAIN Classes, NEW r, NEW u, Present(r, u), NEW json, NEW name, NEW D,
         D \subseteq Reached(Class, json, name)
  PROVE  Present([value |-> FieldsAfter(Class, r.value, json, name), dirty |-> r.dirty \cup D],
                 (u \ Understood(json, name))
                   \cup (Reached(Class, json, name) \ Understood(json, name)))
<1> DEFINE v == FieldsAfter(Class, r.value, json, name)
           s == [value |-> v, dirty |-> r.dirty \cup D]
           x == (u \ Understood(json, name))
                  \cup (Reached(Class, json, name) \ Understood(json, name))
<1>1. s.value = v /\ s.dirty = r.dirty \cup D
  OBVIOUS
<1>2. ASSUME NEW c \in Class.notNull, c \in (r.dirty \cup D) \ x
      PROVE  v[c] # {}
  <2>1. c \in ColumnsOf(Class)
    BY ClassIsClass DEF IsClass
  <2>2. CASE c \in Understood(json, name)
    <3>1. v[c] = Wish(Class.kind[c], json[name[c]])
      BY <2>2, UnderstoodIsTaken
    <3> HIDE DEF v
    <3> QED BY <3>1 DEF Wish
  <2>3. CASE c \notin Understood(json, name)
    <3>1. c \notin Reached(Class, json, name) /\ c \in r.dirty \ u
      BY <1>2, <2>3
    <3>2. v[c] = r.value[c]
      BY <2>1, <3>1, UnreachedStays
    <3> HIDE DEF v
    <3> QED BY <3>1, <3>2 DEF Present
  <2> QED BY <2>2, <2>3
<1> HIDE DEF v, s, x
<1>3. Present(s, x)
  BY <1>1, <1>2 DEF Present
<1> QED BY <1>3 DEF s, v, x

LEMMA JsonShort ==
  ASSUME class \in DOMAIN Classes, NEW r, Short(r), NEW json, NEW name, NEW dirty,
         \A c \in Given(Class, json, name) : ValidJsonOfField(Class, c, json[name[c]])
  PROVE  Short([value |-> FieldsAfter(Class, r.value, json, name), dirty |-> dirty])
<1> DEFINE v == FieldsAfter(Class, r.value, json, name)
           s == [value |-> v, dirty |-> dirty]
<1>1. ASSUME NEW c \in Class.limited PROVE v[c] \cap Long = {}
  <2>1. c \in ColumnsOf(Class) /\ Class.kind[c] = "text"
    BY ClassIsClass DEF IsTable, IsClass
  <2>2. r.value[c] \cap Long = {}
    BY DEF Short
  <2>3. CASE c \in Reached(Class, json, name) \ Throwing(Class, json, name)
    <3>1. v[c] = FromJsonField(Class.kind[c], json[name[c]], r.value[c])
      BY <2>1, <2>3 DEF FieldsAfter
    <3>2. ValidJsonOfField(Class, c, json[name[c]])
      BY <2>3, ReachedColumns
    <3>3. \/ FromJsonField(Class.kind[c], json[name[c]], r.value[c]) = r.value[c]
          \/ /\ json[name[c]].is # "null"
             /\ FromJsonField(Class.kind[c], json[name[c]], r.value[c]) = {json[name[c]].v}
      BY <2>1 DEF FromJsonField
    <3> HIDE DEF v
    <3> QED BY <2>2, <3>1, <3>2, <3>3 DEF ValidJsonOfField
  <2>4. CASE c \notin Reached(Class, json, name) \ Throwing(Class, json, name)
    <3>1. v[c] = r.value[c]
      BY <2>1, <2>4 DEF FieldsAfter
    <3> QED BY <2>2, <3>1
  <2> QED BY <2>3, <2>4
<1>2. s.value = v
  OBVIOUS
<1> HIDE DEF v, s
<1>3. Short(s)
  BY <1>1, <1>2 DEF Short
<1> QED BY <1>3 DEF s, v

-----------------------------------------------------------------------------
\* One client has another object and other books.
Rebooks(p, r, u, h, w) ==
  /\ rec' = [rec EXCEPT ![p] = r]
  /\ unheard' = [unheard EXCEPT ![p] = u]
  /\ hidden' = [hidden EXCEPT ![p] = h]
  /\ checked' = [checked EXCEPT ![p] = w]

LEMMA ApprovalAfter ==
  ASSUME Approval, Listening, Booked, class' = class, NEW p \in Clients,
         NEW r, NEW u, NEW h, NEW w, Approves(r, u, h, w), Rebooks(p, r, u, h, w)
  PROVE  Approval'
<1>1. \A q \in Clients : Approves(rec'[q], unheard'[q], hidden'[q], checked'[q])
  BY DEF Approval, Rebooks, Listening, Booked
<1>2. \A q \in Clients : Approves(rec[q], unheard[q], hidden[q], checked[q])'
  BY <1>1 DEF Approves, Present, Short, Complete, Class
<1> QED BY <1>2 DEF Approval

LEMMA ApprovalStays ==
  ASSUME Approval, UNCHANGED <<class, rec, unheard, hidden, checked>>
  PROVE  Approval'
BY DEF Approval, Approves, Present, Short, Complete, Class

LEMMA HoldingApproves ==
  ASSUME Approval, Listening, Booked, class' = class, NEW p \in Clients,
         NEW r, r.dirty = {}, Short(r), Holds(p, r)
  PROVE  Approval'
<1>1. Approves(r, {}, {}, {"update"})
  BY CleanApproves
<1>2. Rebooks(p, r, {}, {}, {"update"})
  BY DEF Holds, Rebooks
<1> QED BY <1>1, <1>2, ApprovalAfter

LEMMA FailingApproves ==
  ASSUME Approval, Listening, Booked, class' = class, class \in DOMAIN Classes, NEW p \in Clients,
         NEW json, NEW name, ConstructFails(p, json, name), NEW h,
         hidden' = [hidden EXCEPT ![p] = h], checked' = [checked EXCEPT ![p] = {}]
  PROVE  Approval'
<1>1. Approves(Blank(Class), {}, h, {})
  BY BlankIsShort DEF Approves, Present
<1>2. Rebooks(p, Blank(Class), {}, h, {})
  BY DEF ConstructFails, Rebooks
<1> QED BY <1>1, <1>2, ApprovalAfter

\* The books after a constructor: what was approved is valid and complete.
LEMMA ConstructingApproves ==
  ASSUME Approval, Listening, Booked, class' = class, class \in DOMAIN Classes, NEW p \in Clients,
         NEW json, NEW name, Throwing(Class, json, name) = {}, HearFirst(p, json, name),
         rec' = [rec EXCEPT ![p] =
           [value |-> FieldsAfter(Class, Blank(Class).value, json, name),
            dirty |-> Reached(Class, json, name)]],
         NEW h, hidden' = [hidden EXCEPT ![p] = h],
         NEW w, checked' = [checked EXCEPT ![p] = w],
         w # {} => \A c \in Given(Class, json, name) : ValidJsonOfField(Class, c, json[name[c]]),
         "insert" \in w =>
           Class.notNull \ Class.defaulted \subseteq Given(Class, json, name) \cup h
  PROVE  Approval'
<1> DEFINE r == [value |-> FieldsAfter(Class, Blank(Class).value, json, name),
                 dirty |-> Reached(Class, json, name)]
           u == Given(Class, json, name) \ Understood(json, name)
<1>1. Reached(Class, json, name) = Given(Class, json, name)
  BY ReachedColumns
<1>2. Short(Blank(Class)) /\ Blank(Class).dirty = {}
  BY BlankIsShort
<1>3. Present(r, u)
  <2>1. Present(Blank(Class), {})
    BY <1>2 DEF Present
  <2>2. Present([value |-> FieldsAfter(Class, Blank(Class).value, json, name),
                 dirty |-> Blank(Class).dirty \cup Reached(Class, json, name)],
                ({} \ Understood(json, name))
                  \cup (Reached(Class, json, name) \ Understood(json, name)))
    BY <2>1, JsonPresent
  <2>3. Blank(Class).dirty \cup Reached(Class, json, name) = Reached(Class, json, name)
    BY <1>2
  <2>4. ({} \ Understood(json, name)) \cup (Reached(Class, json, name) \ Understood(json, name)) = u
    BY <1>1
  <2> HIDE DEF u
  <2> QED BY <2>2, <2>3, <2>4
<1>4. w # {} => Short(r)
  BY <1>2, JsonShort
<1>5. r.dirty = Given(Class, json, name)
  BY <1>1
<1>6. unheard' = [unheard EXCEPT ![p] = u]
  BY DEF HearFirst
<1>7. rec' = [rec EXCEPT ![p] = r]
  OBVIOUS
<1> HIDE DEF r, u
<1>8. Approves(r, u, h, w)
  BY <1>3, <1>4, <1>5 DEF Approves, Complete
<1>9. Rebooks(p, r, u, h, w)
  BY <1>6, <1>7 DEF Rebooks
<1> QED BY <1>8, <1>9, ApprovalAfter

LEMMA ModifyingApproves ==
  ASSUME Approval, Listening, Booked, class' = class, class \in DOMAIN Classes, NEW p \in Clients,
         NEW json, NEW name, Hear(p, json, name), UNCHANGED hidden,
         rec' = [rec EXCEPT ![p] =
           [value |-> FieldsAfter(Class, rec[p].value, json, name),
            dirty |-> rec[p].dirty \cup (Reached(Class, json, name) \ Class.keys)]],
         NEW w, checked' = [checked EXCEPT ![p] = w], w \subseteq checked[p],
         w # {} => \A c \in Given(Class, json, name) : ValidJsonOfField(Class, c, json[name[c]])
  PROVE  Approval'
<1> DEFINE r == [value |-> FieldsAfter(Class, rec[p].value, json, name),
                 dirty |-> rec[p].dirty \cup (Reached(Class, json, name) \ Class.keys)]
           u == (unheard[p] \ Understood(json, name))
                  \cup (Reached(Class, json, name) \ Understood(json, name))
<1>1. Approves(rec[p], unheard[p], hidden[p], checked[p])
  BY DEF Approval
<1>2. Present(r, u)
  BY <1>1, JsonPresent DEF Approves
<1>3. w # {} => Short(r)
  BY <1>1, JsonShort DEF Approves
<1>4. rec[p].dirty \subseteq r.dirty
  OBVIOUS
<1>5. unheard' = [unheard EXCEPT ![p] = u]
  BY DEF Hear
<1>6. rec' = [rec EXCEPT ![p] = r]
  OBVIOUS
<1> HIDE DEF r, u
<1>7. Approves(r, u, hidden[p], w)
  BY <1>1, <1>2, <1>3, <1>4 DEF Approves, Complete
<1>8. \A q \in Clients : Approves(rec'[q], unheard'[q], hidden'[q], checked'[q])
  BY <1>5, <1>6, <1>7 DEF Approval, Listening, Booked
<1>9. \A q \in Clients : Approves(rec[q], unheard[q], hidden[q], checked[q])'
  BY <1>8 DEF Approves, Present, Short, Complete, Class
<1> QED BY <1>9 DEF Approval

LEMMA SettingApproves ==
  ASSUME Approval, Listening, Booked, class' = class, class \in DOMAIN Classes, NEW p \in Clients,
         NEW c \in ColumnsOf(Class), NEW field, field # {} \/ c \notin Class.notNull,
         Sets(p, c, field),
         rec' = [rec EXCEPT ![p] = [value |-> [@.value EXCEPT ![c] = field],
                                    dirty |-> @.dirty \cup {c}]]
  PROVE  Approval'
<1> DEFINE r == [value |-> [rec[p].value EXCEPT ![c] = field], dirty |-> rec[p].dirty \cup {c}]
<1>1. Present(rec[p], unheard[p])
  BY DEF Approval, Approves
<1>2. /\ r.dirty = rec[p].dirty \cup {c}
      /\ \A d \in ColumnsOf(Class) : r.value[d] = IF d = c THEN field ELSE rec[p].value[d]
  BY DEF Listening, Listens, IsObject
<1>3. Class.notNull \subseteq ColumnsOf(Class)
  BY ClassIsClass DEF IsClass
<1>4. rec' = [rec EXCEPT ![p] = r] /\ unheard' = [unheard EXCEPT ![p] = unheard[p] \ {c}]
      /\ checked' = [checked EXCEPT ![p] = {}] /\ hidden' = hidden
  BY DEF Sets
<1> HIDE DEF r
<1>5. Present(r, unheard[p] \ {c})
  BY <1>1, <1>2, <1>3 DEF Present
<1>6. Approves(r, unheard[p] \ {c}, hidden[p], {})
  BY <1>5 DEF Approves
<1>8. \A q \in Clients : Approves(rec'[q], unheard'[q], hidden'[q], checked'[q])
  BY <1>4, <1>6 DEF Approval, Listening, Booked
<1>9. \A q \in Clients : Approves(rec[q], unheard[q], hidden[q], checked[q])'
  BY <1>8 DEF Approves, Present, Short, Complete, Class
<1> QED BY <1>9 DEF Approval

LEMMA ValidCreation ==
  ASSUME NEW k, NEW json, k.notNull \subseteq ColumnsOf(k), "" \notin ColumnsOf(k)
  PROVE  /\ ValidateJsonForCreation(k, json) =>
              /\ \A c \in Given(k, json, PlainNames(k)) :
                   ValidJsonOfField(k, c, json[PlainNames(k)[c]])
              /\ k.notNull \ k.defaulted \subseteq Given(k, json, PlainNames(k))
         /\ ValidateJsonForUpdate(k, json) =>
              \A c \in Given(k, json, PlainNames(k)) :
                ValidJsonOfField(k, c, json[PlainNames(k)[c]])
<1>1. \A c \in ColumnsOf(k) : PlainNames(k)[c] = c
  BY DEF PlainNames
<1>2. Given(k, json, PlainNames(k)) = {c \in ColumnsOf(k) : c \in DOMAIN json}
  BY <1>1 DEF Given
<1> QED BY <1>1, <1>2 DEF ValidateJsonForCreation, ValidateJsonForUpdate

LEMMA ValidMaskedCreation ==
  ASSUME NEW k, NEW json, NEW mask, k.notNull \subseteq ColumnsOf(k)
  PROVE  /\ ValidateMasqueradedJsonForCreation(k, json, mask) =>
              /\ \A c \in Given(k, json, MaskedNames(k, mask)) :
                   ValidJsonOfField(k, c, json[MaskedNames(k, mask)[c]])
              /\ k.notNull \ k.defaulted \subseteq
                   Given(k, json, MaskedNames(k, mask))
                     \cup {c \in ColumnsOf(k) : MaskedNames(k, mask)[c] = ""}
         /\ ValidateMasqueradedJsonForUpdate(k, json, mask) =>
              \A c \in Given(k, json, MaskedNames(k, mask)) :
                ValidJsonOfField(k, c, json[MaskedNames(k, mask)[c]])
<1> DEFINE name == MaskedNames(k, mask)
<1>1. ASSUME ValidateMasqueradedJsonForCreation(k, json, mask)
      PROVE  /\ \A c \in Given(k, json, name) : ValidJsonOfField(k, c, json[name[c]])
             /\ \A c \in ColumnsOf(k) :
                  c \in k.notNull \ k.defaulted => name[c] = "" \/ c \in Given(k, json, name)
  BY <1>1 DEF ValidateMasqueradedJsonForCreation, Given
<1>2. ASSUME ValidateMasqueradedJsonForUpdate(k, json, mask)
      PROVE  \A c \in Given(k, json, name) : ValidJsonOfField(k, c, json[name[c]])
  BY <1>2 DEF ValidateMasqueradedJsonForUpdate
<1> HIDE DEF name
<1>3. ASSUME ValidateMasqueradedJsonForCreation(k, json, mask)
      PROVE  k.notNull \ k.defaulted \subseteq
               Given(k, json, name) \cup {c \in ColumnsOf(k) : name[c] = ""}
  BY <1>1, <1>3
<1> QED BY <1>1, <1>2, <1>3 DEF name

LEMMA ApprovalStep ==
  ASSUME RecordsInv, Booked, Approval, NEW p \in Clients, Step(p)
  PROVE  Approval'
<1>1. class' = class
  BY DEF Step, New, Find, FindByName, Construct, ConstructMasqueraded, Modify,
         ModifyMasqueraded, Set, SetToNull, InsertRow, InsertRefused, UpdateRow,
         UpdateRefused, DeleteRow, Call
<1>2. /\ class \in DOMAIN Classes /\ Listening
      /\ \A row \in stored : WellFormed(row)
      /\ Class.notNull \subseteq ColumnsOf(Class) /\ "" \notin ColumnsOf(Class)
  BY ClassIsClass DEF RecordsInv, RowsTyped, IsClass
<1>3. CASE New(p)
  BY <1>1, <1>2, <1>3, BlankIsShort, HoldingApproves DEF New
<1>4. CASE Find(p) \/ FindByName(p)
  <2>1. PICK row \in stored : Holds(p, FromRowByName(Class, row))
    BY <1>2, <1>4, RowByPlace DEF Find, FindByName
  <2> QED BY <1>1, <1>2, <2>1, RowIsShort, HoldingApproves
<1>5. CASE Construct(p)
  <2> DEFINE Name == PlainNames(Class)
             Wins(json) == Approved(ValidateJsonForCreation(Class, json), "insert")
                             \cup Approved(ValidateJsonForUpdate(Class, json), "update")
  <2>1. PICK json \in Class.bodies :
          /\ \/ ConstructFails(p, json, Name)
             \/ /\ Throwing(Class, json, Name) = {}
                /\ rec' = [rec EXCEPT ![p] = FromJson(Class, json)]
                /\ HearFirst(p, json, Name)
          /\ checked' = [checked EXCEPT ![p] = Wins(json)]
    BY <1>5 DEF Construct
  <2>2. hidden' = [hidden EXCEPT ![p] = {}]
    BY <1>5 DEF Construct
  <2>3. /\ Wins(json) # {} => \A c \in Given(Class, json, Name) :
             ValidJsonOfField(Class, c, json[Name[c]])
        /\ "insert" \in Wins(json) =>
             Class.notNull \ Class.defaulted \subseteq Given(Class, json, Name) \cup {}
    BY <1>2, ValidCreation DEF Approved
  <2>4. CASE ConstructFails(p, json, Name)
    <3>1. Wins(json) = {}
      BY <2>4, ValidPlain DEF ConstructFails, Approved
    <3> HIDE DEF Name, Wins
    <3> QED BY <1>1, <1>2, <2>1, <2>2, <2>4, <3>1, FailingApproves
  <2>5. CASE /\ Throwing(Class, json, Name) = {}
             /\ rec' = [rec EXCEPT ![p] = FromJson(Class, json)]
             /\ HearFirst(p, json, Name)
    <3>1. FromJson(Class, json) =
            [value |-> FieldsAfter(Class, Blank(Class).value, json, Name),
             dirty |-> Reached(Class, json, Name)]
      BY DEF FromJson
    <3> HIDE DEF Name, Wins
    <3> QED BY <1>1, <1>2, <2>1, <2>2, <2>3, <2>5, <3>1, ConstructingApproves
  <2> QED BY <2>1, <2>4, <2>5
<1>6. CASE ConstructMasqueraded(p)
  <2> DEFINE NameOf(m) == IF FitsClass(Class, m.mask) THEN MaskedNames(Class, m.mask)
                          ELSE [c \in ColumnsOf(Class) |-> ""]
             Out(m) == {c \in ColumnsOf(Class) : NameOf(m)[c] = ""}
             Wins(m) ==
               Approved(ValidateMasqueradedJsonForCreation(Class, m.json, m.mask), "insert")
                 \cup Approved(ValidateMasqueradedJsonForUpdate(Class, m.json, m.mask), "update")
  <2>1. PICK m \in Class.masked :
          /\ \/ ConstructFails(p, m.json, NameOf(m))
             \/ /\ Throwing(Class, m.json, NameOf(m)) = {}
                /\ rec' = [rec EXCEPT ![p] = FromMasqueradedJson(Class, m.json, m.mask)]
                /\ HearFirst(p, m.json, NameOf(m))
          /\ hidden' = [hidden EXCEPT ![p] = Out(m)]
          /\ checked' = [checked EXCEPT ![p] = Wins(m)]
    BY <1>6 DEF ConstructMasqueraded
  <2>2. Wins(m) # {} => NameOf(m) = MaskedNames(Class, m.mask)
    BY ValidMasked DEF Approved
  <2>3. /\ Wins(m) # {} => \A c \in Given(Class, m.json, NameOf(m)) :
             ValidJsonOfField(Class, c, m.json[NameOf(m)[c]])
        /\ "insert" \in Wins(m) =>
             Class.notNull \ Class.defaulted \subseteq Given(Class, m.json, NameOf(m)) \cup Out(m)
    <3>1. Out(m) = {c \in ColumnsOf(Class) : NameOf(m)[c] = ""}
      OBVIOUS
    <3>2. /\ Wins(m) # {} => \/ ValidateMasqueradedJsonForCreation(Class, m.json, m.mask)
                             \/ ValidateMasqueradedJsonForUpdate(Class, m.json, m.mask)
          /\ "insert" \in Wins(m) => ValidateMasqueradedJsonForCreation(Class, m.json, m.mask)
      BY DEF Approved
    <3> HIDE DEF Out, Wins, NameOf
    <3>3. ASSUME Wins(m) # {}, NEW c \in Given(Class, m.json, NameOf(m))
          PROVE  ValidJsonOfField(Class, c, m.json[NameOf(m)[c]])
      BY <1>2, <2>2, <3>2, <3>3, ValidMaskedCreation
    <3>4. ASSUME "insert" \in Wins(m)
          PROVE  Class.notNull \ Class.defaulted \subseteq Given(Class, m.json, NameOf(m)) \cup Out(m)
      <4>1. NameOf(m) = MaskedNames(Class, m.mask)
        BY <2>2, <3>4
      <4>2. Class.notNull \ Class.defaulted \subseteq
              Given(Class, m.json, MaskedNames(Class, m.mask))
                \cup {c \in ColumnsOf(Class) : MaskedNames(Class, m.mask)[c] = ""}
        BY <1>2, <3>2, <3>4, ValidMaskedCreation
      <4> QED BY <3>1, <4>1, <4>2
    <3> QED BY <3>3, <3>4
  <2>4. CASE ConstructFails(p, m.json, NameOf(m))
    <3>1. Wins(m) = {}
      BY <2>2, <2>4, ValidMasked DEF ConstructFails, Approved
    <3> HIDE DEF NameOf, Out, Wins
    <3> QED BY <1>1, <1>2, <2>1, <2>4, <3>1, FailingApproves
  <2>5. CASE /\ Throwing(Class, m.json, NameOf(m)) = {}
             /\ rec' = [rec EXCEPT ![p] = FromMasqueradedJson(Class, m.json, m.mask)]
             /\ HearFirst(p, m.json, NameOf(m))
    <3>1. FromMasqueradedJson(Class, m.json, m.mask) =
            [value |-> FieldsAfter(Class, Blank(Class).value, m.json, NameOf(m)),
             dirty |-> Reached(Class, m.json, NameOf(m))]
      BY MaskedFields
    <3> HIDE DEF NameOf, Out, Wins
    <3> QED BY <1>1, <1>2, <2>1, <2>3, <2>5, <3>1, ConstructingApproves
  <2> QED BY <2>1, <2>4, <2>5
<1>7. CASE Modify(p)
  <2> DEFINE Left(json) == IF ValidateJsonForUpdate(Class, json) THEN checked[p] ELSE {}
  <2>1. PICK json \in Class.bodies :
          /\ rec' = [rec EXCEPT ![p] = UpdateByJson(Class, rec[p], json)]
          /\ Hear(p, json, PlainNames(Class))
          /\ checked' = [checked EXCEPT ![p] = Left(json)]
          /\ UNCHANGED hidden
    BY <1>7 DEF Modify
  <2>2. /\ Left(json) \subseteq checked[p]
        /\ Left(json) # {} => \A c \in Given(Class, json, PlainNames(Class)) :
             ValidJsonOfField(Class, c, json[PlainNames(Class)[c]])
    BY <1>2, ValidCreation
  <2> HIDE DEF Left
  <2> QED BY <1>1, <1>2, <2>1, <2>2, ModifyingApproves DEF UpdateByJson
<1>8. CASE ModifyMasqueraded(p)
  <2> DEFINE Left(m) == IF ValidateMasqueradedJsonForUpdate(Class, m.json, m.mask)
                        THEN checked[p] ELSE {}
  <2>1. PICK m \in Class.masked :
          /\ rec' = [rec EXCEPT ![p] = UpdateByMasqueradedJson(Class, rec[p], m.json, m.mask)]
          /\ IF FitsClass(Class, m.mask)
             THEN Hear(p, m.json, MaskedNames(Class, m.mask))
             ELSE UNCHANGED <<asked, unheard>>
          /\ checked' = [checked EXCEPT ![p] = Left(m)]
          /\ UNCHANGED hidden
    BY <1>8 DEF ModifyMasqueraded
  <2>2. /\ Left(m) \subseteq checked[p]
        /\ Left(m) # {} =>
             /\ FitsClass(Class, m.mask)
             /\ \A c \in Given(Class, m.json, MaskedNames(Class, m.mask)) :
                  ValidJsonOfField(Class, c, m.json[MaskedNames(Class, m.mask)[c]])
    BY <1>2, ValidMaskedCreation, ValidMasked
  <2> HIDE DEF Left
  <2>3. CASE FitsClass(Class, m.mask)
    BY <1>1, <1>2, <2>1, <2>2, <2>3, ModifyingApproves DEF UpdateByMasqueradedJson
  <2>4. CASE ~FitsClass(Class, m.mask)
    <3>1. rec' = [rec EXCEPT ![p] = rec[p]]
      BY <2>1, <2>4 DEF UpdateByMasqueradedJson
    <3>2. \A q \in Clients : rec'[q] = rec[q] /\ (checked'[q] = {} \/ checked'[q] = checked[q])
      BY <1>2, <2>1, <2>2, <2>4, <3>1 DEF Listening, Booked
    <3>3. \A q \in Clients : Approves(rec'[q], unheard'[q], hidden'[q], checked'[q])
      BY <2>1, <2>4, <3>2 DEF Approval, Approves
    <3>4. \A q \in Clients : Approves(rec[q], unheard[q], hidden[q], checked[q])'
      BY <1>1, <3>3 DEF Approves, Present, Short, Complete, Class
    <3> QED BY <3>4 DEF Approval
  <2> QED BY <2>3, <2>4
<1>9. CASE Set(p)
  <2>1. PICK c \in ColumnsOf(Class) : \E v \in Values[Class.kind[c]] :
          rec' = [rec EXCEPT ![p] = SetField(@, c, v)] /\ Sets(p, c, {v})
    BY <1>9 DEF Set
  <2>2. PICK v : rec' = [rec EXCEPT ![p] = SetField(@, c, v)] /\ Sets(p, c, {v})
    BY <2>1
  <2>3. {v} # {}
    OBVIOUS
  <2> QED BY <1>1, <1>2, <2>2, <2>3, SettingApproves DEF SetField
<1>10. CASE SetToNull(p)
  <2>1. PICK c \in ColumnsOf(Class) \ Class.notNull :
          rec' = [rec EXCEPT ![p] = SetFieldToNull(@, c)] /\ Sets(p, c, {})
    BY <1>10 DEF SetToNull
  <2> QED BY <1>1, <1>2, <2>1, SettingApproves DEF SetFieldToNull
<1>11. CASE InsertRow(p)
  <2>1. PICK fresh \in Uuid :
          /\ WellFormed(Inserted(rec[p], fresh))
          /\ IF NeedSelection(Class, rec[p])
             THEN Holds(p, FromRow(Class, Inserted(rec[p], fresh), Class.layout))
             ELSE UNCHANGED <<rec, asked, unheard, hidden, checked>>
    BY <1>11 DEF InsertRow
  <2>2. CASE NeedSelection(Class, rec[p])
    BY <1>1, <1>2, <2>1, <2>2, RowByPlace, RowIsShort, HoldingApproves
  <2>3. CASE ~NeedSelection(Class, rec[p])
    BY <1>1, <2>1, <2>3, ApprovalStays
  <2> QED BY <2>2, <2>3
<1>12. CASE InsertRefused(p) \/ UpdateRow(p) \/ UpdateRefused(p) \/ DeleteRow(p)
  BY <1>1, <1>12, ApprovalStays DEF InsertRefused, UpdateRow, UpdateRefused, DeleteRow
<1> QED BY <1>3, <1>4, <1>5, <1>6, <1>7, <1>8, <1>9, <1>10, <1>11, <1>12 DEF Step

-----------------------------------------------------------------------------
(* Rows do not clash *)

RowsApart == \A row, s \in stored : row # s => ~Clash(Class, row, s)

LEMMA ClashTurns ==
  ASSUME NEW k, NEW row, NEW s, Clash(k, row, s)
  PROVE  Clash(k, s, row)
BY DEF Clash

\* An object with a key matches one row at most.
LEMMA OneMatch ==
  ASSUME RecordsInv, RowsApart, NEW p \in Clients, HasKey(Class, rec[p]),
         NEW row \in Matching(p), NEW s \in Matching(p)
  PROVE  row = s
<1>1. Class.keys # {} /\ Class.keys \in Class.unique
  BY ClassIsClass DEF HasKey, RecordsInv, IsTable
<1>2. \A c \in Class.keys : row[c] = rec[p].value[c] /\ s[c] = rec[p].value[c]
  BY DEF Matching, PrimaryKey
<1>3. \A c \in Class.keys : row[c] # {} /\ row[c] = s[c]
  BY <1>2 DEF HasKey
<1>4. Clash(Class, row, s)
  BY <1>1, <1>3 DEF Clash
<1> QED BY <1>4 DEF RowsApart, Matching

LEMMA ApartStep ==
  ASSUME RecordsInv, RowsApart, NEW p \in Clients, Step(p)
  PROVE  RowsApart'
<1>1. class' = class
  BY DEF Step, New, Find, FindByName, Construct, ConstructMasqueraded, Modify,
         ModifyMasqueraded, Set, SetToNull, InsertRow, InsertRefused, UpdateRow,
         UpdateRefused, DeleteRow, Call
<1>2. SUFFICES \A row, s \in stored' : row # s => ~Clash(Class, row, s)
  BY <1>1 DEF RowsApart, Class
<1>3. CASE InsertRow(p)
  <2>1. PICK row : ~Taken(row, stored) /\ stored' = stored \cup {row}
    BY <1>3 DEF InsertRow
  <2> QED BY <2>1, ClashTurns DEF Taken, RowsApart
<1>4. CASE UpdateRow(p)
  <2>1. /\ stored' = (stored \ Matching(p)) \cup {Updated(rec[p], row) : row \in Matching(p)}
        /\ HasKey(Class, rec[p])
        /\ \A row \in Matching(p) : ~Taken(Updated(rec[p], row), stored \ {row})
    BY <1>4 DEF UpdateRow, UpdateFails, Refused
  <2>2. ASSUME NEW row \in Matching(p), NEW s \in stored \ Matching(p)
        PROVE  ~Clash(Class, Updated(rec[p], row), s) /\ ~Clash(Class, s, Updated(rec[p], row))
    BY <2>1, <2>2, ClashTurns DEF Taken
  <2>3. ASSUME NEW row \in Matching(p), NEW s \in Matching(p)
        PROVE  Updated(rec[p], row) = Updated(rec[p], s)
    BY <2>1, OneMatch
  <2>4. \A row, s \in stored \ Matching(p) : row # s => ~Clash(Class, row, s)
    BY DEF RowsApart
  <2> QED BY <2>1, <2>2, <2>3, <2>4
<1>5. CASE stored' \subseteq stored
  BY <1>5 DEF RowsApart
<1> QED BY <1>3, <1>4, <1>5 DEF Step, New, Find, FindByName, Construct,
  ConstructMasqueraded, Modify, ModifyMasqueraded, Set, SetToNull, Sets, InsertRefused,
  UpdateRefused, DeleteRow

-----------------------------------------------------------------------------
(* Refusals *)

ValidInv == RecordsInv /\ Booked /\ Approval /\ RowsApart

Explained(p, write) ==
  \/ Collides(p)
  \/ \E c \in Class.uuid : ~(rec[p].value[c] \subseteq Uuid)
  \/ Lacks(p, write)
  \/ write = "update" /\ rec[p].dirty = {}

LEMMA InsertedValue ==
  ASSUME NEW r, NEW fresh, NEW c \in ColumnsOf(Class)
  PROVE  /\ c \in r.dirty => Inserted(r, fresh)[c] = AsTaken(Class.kind[c], r.value[c])
         /\ c \in Class.defaulted \ r.dirty => Inserted(r, fresh)[c] = {fresh}
         /\ c \notin r.dirty \cup Class.defaulted => Inserted(r, fresh)[c] = Class.default[c]
BY DEF Inserted, OutputArgs, ListedForInsert

\* A column that is left out and has no default was not asked for.
LEMMA LeftOutLacks ==
  ASSUME ValidInv, NEW p \in Clients, "insert" \in checked[p], NEW c \in Class.required,
         c \notin rec[p].dirty \cup Class.defaulted, Class.default[c] = {}
  PROVE  Lacks(p, "insert")
<1>1. c \in Class.notNull => c \in hidden[p]
  BY DEF ValidInv, Approval, Approves, Complete
<1> QED BY <1>1 DEF Lacks

\* A dirty column that is null may be null for the class, or was not heard.
LEMMA NullLacks ==
  ASSUME ValidInv, NEW p \in Clients, NEW c \in Class.required,
         c \in rec[p].dirty, rec[p].value[c] = {}, NEW write
  PROVE  Lacks(p, write)
<1>1. c \in Class.notNull => c \in unheard[p]
  BY DEF ValidInv, Approval, Approves, Present
<1> QED BY <1>1 DEF Lacks

LEMMA InsertExplained ==
  ASSUME ValidInv, NEW p \in Clients, InsertRefused(p), "insert" \in checked[p]
  PROVE  Explained(p, "insert")
<1> DEFINE r == rec[p]
<1>1. /\ class \in DOMAIN Classes /\ IsClass(Class) /\ IsTable(Class)
      /\ Short(r)
  BY ClassIsClass DEF ValidInv, RecordsInv, Approval, Approves
<1>2. CASE ListedForInsert(Class, r) = {}
  <2>1. Class.defaulted = {} /\ r.dirty = {}
    BY <1>2 DEF ListedForInsert
  <2>2. PICK c \in Class.required : Class.default[c] = {}
    BY <1>1, <2>1 DEF IsTable
  <2> QED BY <2>1, <2>2, LeftOutLacks DEF Explained
<1>3. CASE \E fresh \in Uuid :
             /\ \A s \in stored, c \in Class.defaulted : fresh \notin s[c]
             /\ ~WellFormed(Inserted(r, fresh)) \/ Taken(Inserted(r, fresh), stored)
  <2>1. PICK fresh \in Uuid :
          /\ \A s \in stored, c \in Class.defaulted : fresh \notin s[c]
          /\ ~WellFormed(Inserted(r, fresh)) \/ Taken(Inserted(r, fresh), stored)
    BY <1>3
  <2> DEFINE row == Inserted(r, fresh)
  <2>2. ASSUME NEW c \in ColumnsOf(Class)
        PROVE  /\ c \in r.dirty => row[c] = AsTaken(Class.kind[c], r.value[c])
               /\ c \in Class.defaulted \ r.dirty => row[c] = {fresh}
               /\ c \notin r.dirty \cup Class.defaulted => row[c] = Class.default[c]
    BY InsertedValue
  <2>taken. \A c \in ColumnsOf(Class) :
          c \in r.dirty =>
            /\ row[c] = {} <=> r.value[c] = {}
            /\ Class.kind[c] = "text" => row[c] = r.value[c]
    BY <2>2, FieldIsTaken
  <2>texts. \A c \in Class.limited \cup Class.uuid \cup UNION Class.unique : Class.kind[c] = "text"
    BY <1>1 DEF IsClass, IsTable
  <2> HIDE DEF row
  <2>3. CASE \E c \in Class.required : row[c] = {}
    <3>1. PICK c \in Class.required : row[c] = {}
      BY <2>3
    <3>2. c \in ColumnsOf(Class)
      BY <1>1 DEF IsTable
    <3>3. CASE c \in r.dirty
      BY <2>taken, <3>1, <3>2, <3>3, NullLacks DEF Explained
    <3>4. CASE c \notin r.dirty \cup Class.defaulted
      BY <2>2, <3>1, <3>2, <3>4, LeftOutLacks DEF Explained
    <3>5. CASE c \in Class.defaulted \ r.dirty
      BY <2>2, <3>1, <3>2, <3>5
    <3> QED BY <3>3, <3>4, <3>5
  <2>4. CASE \E c \in Class.limited : row[c] \cap Long # {}
    <3>1. PICK c \in Class.limited : row[c] \cap Long # {}
      BY <2>4
    <3>2. c \in ColumnsOf(Class) /\ Class.default[c] \cap Long = {} /\ r.value[c] \cap Long = {}
      BY <1>1 DEF IsTable, Short
    <3>3. c \notin Class.defaulted
      BY <1>1 DEF IsTable, IsClass
    <3> QED BY <2>2, <2>taken, <2>texts, <3>1, <3>2, <3>3
  <2>5. CASE \E c \in Class.uuid : ~(row[c] \subseteq Uuid)
    <3>1. PICK c \in Class.uuid : ~(row[c] \subseteq Uuid)
      BY <2>5
    <3>2. c \in ColumnsOf(Class) /\ Class.default[c] \subseteq Uuid
      BY <1>1 DEF IsTable
    <3>3. c \in r.dirty
      BY <2>1, <2>2, <3>1, <3>2
    <3>4. row[c] = r.value[c]
      BY <2>taken, <2>texts, <3>2, <3>3
    <3> QED BY <3>1, <3>4 DEF Explained
  <2>6. CASE Taken(row, stored)
    <3>1. PICK s \in stored, u \in Class.unique : \A c \in u : row[c] # {} /\ row[c] = s[c]
      BY <2>6 DEF Taken, Clash
    <3>2. u \subseteq ColumnsOf(Class) /\ \E c \in u : c \in Class.defaulted \/ Class.default[c] = {}
      BY <1>1 DEF IsTable
    <3>3. PICK c \in u : c \in Class.defaulted \/ Class.default[c] = {}
      BY <3>2
    <3>4. c \in r.dirty
      BY <2>1, <2>2, <3>1, <3>2, <3>3
    <3>5. \A d \in u \cap r.dirty : s[d] = r.value[d]
      BY <2>taken, <2>texts, <3>1, <3>2
    <3>6. Collides(p)
      BY <3>4, <3>5 DEF Collides
    <3> QED BY <3>6 DEF Explained
  <2> QED BY <2>1, <2>3, <2>4, <2>5, <2>6 DEF row, WellFormed, WellFormedFor
<1> QED BY <1>2, <1>3 DEF InsertRefused

LEMMA UpdateExplained ==
  ASSUME ValidInv, NEW p \in Clients, UpdateRefused(p), "update" \in checked[p]
  PROVE  Explained(p, "update")
<1> DEFINE r == rec[p]
<1>1. /\ class \in DOMAIN Classes /\ IsClass(Class) /\ IsTable(Class)
      /\ Short(r)
      /\ \A row \in stored : WellFormed(row)
  BY ClassIsClass DEF ValidInv, RecordsInv, Approval, Approves, RowsTyped
<1>2. CASE r.dirty = {}
  BY <1>2 DEF Explained
<1>3. CASE \E c \in Class.keys : ~(r.value[c] \subseteq Uuid)
  BY <1>1, <1>3 DEF IsTable, Explained
<1>4. CASE \E row \in Matching(p) : Refused(r, row)
  <2>1. PICK row \in Matching(p) : Refused(r, row)
    BY <1>4
  <2>2. row \in stored /\ WellFormed(row)
    BY <1>1 DEF Matching
  <2> DEFINE new == Updated(r, row)
  <2>3. \A c \in ColumnsOf(Class) :
          /\ c \notin r.dirty => new[c] = row[c]
          /\ c \in r.dirty =>
               /\ new[c] = {} <=> r.value[c] = {}
               /\ Class.kind[c] = "text" => new[c] = r.value[c]
    BY UpdatedValue, FieldIsTaken
  <2>texts. \A c \in Class.limited \cup Class.uuid \cup UNION Class.unique : Class.kind[c] = "text"
    BY <1>1 DEF IsClass, IsTable
  <2> HIDE DEF new
  <2>4. Class.required \cup Class.limited \cup Class.uuid \subseteq ColumnsOf(Class)
    BY <1>1 DEF IsTable
  <2>5. CASE \E c \in Class.required : new[c] = {}
    <3>1. PICK c \in Class.required : new[c] = {}
      BY <2>5
    <3>2. c \in r.dirty /\ r.value[c] = {}
      BY <2>2, <2>3, <2>4, <3>1 DEF WellFormed, WellFormedFor
    <3> QED BY <3>2, NullLacks DEF Explained
  <2>6. CASE \E c \in Class.limited : new[c] \cap Long # {}
    <3>1. \A c \in Class.limited : row[c] \cap Long = {} /\ r.value[c] \cap Long = {}
      BY <1>1, <2>2 DEF Short, WellFormed, WellFormedFor
    <3> QED BY <2>3, <2>4, <2>texts, <2>6, <3>1
  <2>7. CASE \E c \in Class.uuid : ~(new[c] \subseteq Uuid)
    <3>1. PICK c \in Class.uuid : ~(new[c] \subseteq Uuid)
      BY <2>7
    <3>2. ~(r.value[c] \subseteq Uuid)
      BY <2>2, <2>3, <2>4, <2>texts, <3>1 DEF WellFormed, WellFormedFor
    <3> QED BY <3>2 DEF Explained
  <2>8. CASE Taken(new, stored \ {row})
    <3>1. PICK s \in stored \ {row}, u \in Class.unique : \A c \in u : new[c] # {} /\ new[c] = s[c]
      BY <2>8 DEF Taken, Clash
    <3>2. u \subseteq ColumnsOf(Class)
      BY <1>1 DEF IsTable
    <3>3. u \cap r.dirty # {}
      <4>1. SUFFICES ASSUME u \cap r.dirty = {} PROVE FALSE
        OBVIOUS
      <4>2. \A c \in u : row[c] # {} /\ row[c] = s[c]
        BY <2>3, <3>1, <3>2, <4>1
      <4>3. Clash(Class, row, s)
        BY <4>2 DEF Clash
      <4> QED BY <2>2, <4>3 DEF ValidInv, RowsApart
    <3>4. \A d \in u \cap r.dirty : s[d] = r.value[d]
      BY <2>3, <2>texts, <3>1, <3>2
    <3>5. Collides(p)
      BY <3>3, <3>4 DEF Collides
    <3> QED BY <3>5 DEF Explained
  <2> QED BY <2>1, <2>5, <2>6, <2>7, <2>8 DEF Refused, new, WellFormed, WellFormedFor
<1> QED BY <1>2, <1>3, <1>4 DEF UpdateRefused, UpdateFails, UpdateColumns

LEMMA ValidInvInit == RecordsInit => ValidInv
<1> SUFFICES ASSUME RecordsInit PROVE ValidInv
  OBVIOUS
<1>1. class \in DOMAIN Classes /\ stored = Class.rows
  BY DEF RecordsInit
<1>2. RowsApart
  BY <1>1, ClassIsClass DEF RowsApart, IsTable
<1>3. \A p \in Clients : Approves(Blank(Class), {}, {}, {"update"})
  BY <1>1, BlankIsShort, CleanApproves
<1>4. Approval
  BY <1>3 DEF RecordsInit, Approval
<1>5. Booked
  BY ClassesAssumption DEF RecordsInit, Booked
<1> QED BY <1>2, <1>4, <1>5, RecordsInvInit DEF ValidInv

LEMMA ValidInvNext ==
  ASSUME ValidInv, [RecordsNext]_recordVars
  PROVE  ValidInv'
<1>1. RecordsInv'
  BY RecordsInvNext DEF ValidInv
<1>2. CASE UNCHANGED recordVars
  <2>1. UNCHANGED <<class, stored, rec, unheard, hidden, checked, outcome, left>>
    BY <1>2 DEF recordVars
  <2>2. Booked'
    BY <2>1 DEF ValidInv, Booked, Class
  <2>3. Approval'
    BY <2>1, ApprovalStays DEF ValidInv
  <2>4. RowsApart'
    BY <2>1 DEF ValidInv, RowsApart, Class
  <2> QED BY <1>1, <2>2, <2>3, <2>4 DEF ValidInv
<1>3. CASE RecordsNext
  <2>1. PICK p \in Clients : Step(p)
    BY <1>3 DEF RecordsNext
  <2> QED BY <1>1, <2>1, BookedStep, ApprovalStep, ApartStep DEF ValidInv
<1> QED BY <1>2, <1>3

LEMMA ValidInvHolds == RecordsSpec => []ValidInv
BY ValidInvInit, ValidInvNext, PTL DEF RecordsSpec

\* A write of validated JSON is refused only for a key that is taken or
\* malformed, or for a column that the table needs and validation could not ask
\* for; an update also because it names no column.
THEOREM RefusalsAreExplained == RecordsSpec => RefusalsExplained
<1> DEFINE Explains ==
      \A p \in Clients :
        \/ InsertRefused(p) /\ "insert" \in checked[p]
        \/ UpdateRefused(p) /\ "update" \in checked[p]
        => \/ Collides(p)
           \/ \E c \in Class.uuid : ~(rec[p].value[c] \subseteq Uuid)
           \/ Lacks(p, outcome'[p])
           \/ outcome'[p] = "update" /\ rec[p].dirty = {}
<1>1. ValidInv /\ [RecordsNext]_recordVars => [Explains]_recordVars
  <2>1. ASSUME ValidInv, NEW p \in Clients, InsertRefused(p), "insert" \in checked[p]
        PROVE  outcome'[p] = "insert" /\ Explained(p, "insert")
    BY <2>1, InsertExplained DEF InsertRefused, ValidInv, Booked
  <2>2. ASSUME ValidInv, NEW p \in Clients, UpdateRefused(p), "update" \in checked[p]
        PROVE  outcome'[p] = "update" /\ Explained(p, "update")
    BY <2>2, UpdateExplained DEF UpdateRefused, ValidInv, Booked
  <2> QED BY <2>1, <2>2 DEF Explained
<1>2. RecordsSpec => [][Explains]_recordVars
  BY <1>1, ValidInvHolds, PTL DEF RecordsSpec
<1> QED BY <1>2 DEF RefusalsExplained
=============================================================================
