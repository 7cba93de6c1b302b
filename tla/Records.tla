------------------------------ MODULE Records ------------------------------
(***************************************************************************)
(* Clients that work on one table through objects of its model class: they *)
(* build an object (empty, from JSON, from a row), change it, and insert   *)
(* or update with it, while the others do the same.  A client is a request *)
(* handler: its object is its own, the table is everybody's.               *)
(*                                                                         *)
(* The services use the constructor without arguments, the setters, insert *)
(* and update; the JSON functions are there for the handlers that are      *)
(* added to the starter.                                                   *)
(***************************************************************************)
EXTENDS ModelRecord

CONSTANTS
  Clients,
  Classes,  \* records of classes by name, with what the table says of them:
            \* layout, its columns in their order; required, those that are
            \* not null; unique, the sets of columns that are; uuid, the
            \* columns of that type; default, what is put into a column
            \* that an insert leaves out; rows, rows that are there already;
            \* bodies, the JSON objects of its clients, and masked, those that
            \* come with a masquerading vector: records of a json and a mask
  Values,   \* what the setters are called with, by kind of column
  Calls     \* a bound on the calls of each client

\* What PostgreSQL takes for a row of the table of class k.
WellFormedFor(k, row) ==
  /\ \A c \in k.required : row[c] # {}
  /\ \A c \in k.limited : row[c] \cap Long = {}
  /\ \A c \in k.uuid : row[c] \subseteq Uuid

Times == [second : Seconds, micros : MicrosOfSecond]

\* A field is one value or none.
IsField(kind, field) ==
  /\ \A v, w \in field : v = w
  /\ kind = "time" => field \subseteq Times

IsRowOf(k, row) ==
  /\ row = [c \in ColumnsOf(k) |-> row[c]]
  /\ \A c \in ColumnsOf(k) : IsField(k.kind[c], row[c])

\* What PostgreSQL does not take next to one another.
Clash(k, row, s) == \E u \in k.unique : \A c \in u : row[c] # {} /\ row[c] = s[c]

\* A class is made from its table: different columns, in the table at the same
\* places, and either all of the key is filled in by the table or none of it.
IsClass(k) ==
  /\ k.columns \in Seq(STRING) /\ k.layout \in Seq(STRING)
  /\ \A i, j \in DOMAIN k.columns : i # j => k.columns[i] # k.columns[j]
  /\ "" \notin ColumnsOf(k)
  /\ Len(k.columns) <= Len(k.layout)
  /\ \A i \in DOMAIN k.columns : k.layout[i] = k.columns[i]
  /\ k.keys \cup k.notNull \subseteq ColumnsOf(k) /\ k.defaulted \in {{}, k.keys}
  /\ \A c \in k.defaulted \cup k.limited : k.kind[c] = "text"
  /\ \A m \in k.masked : m.mask \in Seq(STRING)

\* The tables of the migrations: keys are uuids, which have no length, and
\* unique; what is a uuid or unique is a text; the defaults fit their columns and
\* leave every unique set to the client, or to the database where it makes the
\* key; and no row comes of nothing.
IsTable(k) ==
  /\ k.required \cup k.limited \cup k.uuid \subseteq ColumnsOf(k)
  /\ k.keys \subseteq k.uuid /\ k.uuid \cap k.limited = {}
  /\ \A c \in k.uuid \cup UNION k.unique : k.kind[c] = "text"
  /\ k.keys # {} => k.keys \in k.unique
  /\ \A c \in ColumnsOf(k) : IsField(k.kind[c], k.default[c])
  /\ \A c \in k.limited : k.default[c] \cap Long = {}
  /\ \A c \in k.uuid : k.default[c] \subseteq Uuid
  /\ \A u \in k.unique : u \subseteq ColumnsOf(k) /\ \E c \in u : c \in k.defaulted \/ k.default[c] = {}
  /\ k.defaulted = {} => \E c \in k.required : k.default[c] = {}
  /\ \A row \in k.rows : IsRowOf(k, row) /\ WellFormedFor(k, row)
  /\ \A row, s \in k.rows : row # s => ~Clash(k, row, s)

ASSUME ClassesAssumption ==
  /\ \A name \in DOMAIN Classes : IsClass(Classes[name]) /\ IsTable(Classes[name])
  /\ Values["time"] \subseteq Times
  /\ Calls \in [Clients -> Nat]

VARIABLES
  class,    \* the name of the class, the same all the time
  stored,   \* the rows of the table
  rec,      \* the object of each client
  asked,    \* what a client asked for since its object was made, by column:
            \* {} for nothing, {f} for the contents f of the field
  unheard,  \* the columns whose last wish the object did not take
  hidden,   \* the columns that the masquerading vector left out
  checked,  \* the writes that validation approved of
  outcome,  \* how the last call ended
  left      \* the calls that a client has left

recordVars == <<class, stored, rec, asked, unheard, hidden, checked, outcome, left>>

Class == Classes[class]

NothingAsked == [c \in ColumnsOf(Class) |-> {}]

RecordsInit ==
  /\ class \in DOMAIN Classes
  /\ stored = Class.rows
  /\ rec = [p \in Clients |-> Blank(Class)]
  /\ asked = [p \in Clients |-> NothingAsked]
  /\ unheard = [p \in Clients |-> {}]
  /\ hidden = [p \in Clients |-> {}]
  /\ checked = [p \in Clients |-> {"update"}]
  /\ outcome = [p \in Clients |-> "done"]
  /\ left = Calls

Call(p) ==
  /\ left[p] > 0
  /\ left' = [left EXCEPT ![p] = @ - 1]
  /\ UNCHANGED class

\* A new object: nobody has asked it for anything.
Holds(p, r) ==
  /\ rec' = [rec EXCEPT ![p] = r]
  /\ asked' = [asked EXCEPT ![p] = NothingAsked]
  /\ unheard' = [unheard EXCEPT ![p] = {}]
  /\ hidden' = [hidden EXCEPT ![p] = {}]
  /\ checked' = [checked EXCEPT ![p] = {"update"}]
  /\ outcome' = [outcome EXCEPT ![p] = "done"]

New(p) == Call(p) /\ Holds(p, Blank(Class)) /\ UNCHANGED stored

Find(p) ==
  /\ Call(p)
  /\ \E row \in stored : Holds(p, FromRow(Class, row, Class.layout))
  /\ UNCHANGED stored

FindByName(p) ==
  /\ Call(p)
  /\ \E row \in stored : Holds(p, FromRowByName(Class, row))
  /\ UNCHANGED stored

-----------------------------------------------------------------------------
\* What the members of a JSON object wish for, as far as they are understood.
Understood(json, name) ==
  {c \in Reached(Class, json, name) \ Throwing(Class, json, name) :
     /\ json[name[c]].is # "null"
     /\ Class.kind[c] = "time" => json[name[c]].v \in TimeTexts}

Wish(kind, j) == IF kind = "time" THEN {FromText(j.v)} ELSE {j.v}

Hear(p, json, name) ==
  LET understood == Understood(json, name)
  IN /\ asked' = [asked EXCEPT ![p] =
          [c \in ColumnsOf(Class) |->
             IF c \in understood
             THEN {Wish(Class.kind[c], json[name[c]])} ELSE asked[p][c]]]
     /\ unheard' = [unheard EXCEPT ![p] =
          (@ \ understood) \cup (Reached(Class, json, name) \ understood)]

Approved(valid, write) == IF valid THEN {write} ELSE {}

\* The constructor throws: there is no object, and the handler starts again.
ConstructFails(p, json, name) ==
  /\ Throwing(Class, json, name) # {}
  /\ rec' = [rec EXCEPT ![p] = Blank(Class)]
  /\ asked' = [asked EXCEPT ![p] = NothingAsked]
  /\ unheard' = [unheard EXCEPT ![p] = {}]
  /\ outcome' = [outcome EXCEPT ![p] = "threw"]

\* What the client of a new object has asked for.
HearFirst(p, json, name) ==
  LET understood == Understood(json, name)
  IN /\ asked' = [asked EXCEPT ![p] =
          [c \in ColumnsOf(Class) |->
             IF c \in understood THEN {Wish(Class.kind[c], json[name[c]])} ELSE {}]]
     /\ unheard' = [unheard EXCEPT ![p] = Given(Class, json, name) \ understood]
     /\ outcome' = [outcome EXCEPT ![p] = "done"]

Construct(p) ==
  /\ Call(p)
  /\ \E json \in Class.bodies :
       /\ \/ ConstructFails(p, json, PlainNames(Class))
          \/ /\ Throwing(Class, json, PlainNames(Class)) = {}
             /\ rec' = [rec EXCEPT ![p] = FromJson(Class, json)]
             /\ HearFirst(p, json, PlainNames(Class))
       /\ checked' = [checked EXCEPT ![p] =
            Approved(ValidateJsonForCreation(Class, json), "insert")
              \cup Approved(ValidateJsonForUpdate(Class, json), "update")]
  /\ hidden' = [hidden EXCEPT ![p] = {}]
  /\ UNCHANGED stored

\* With a masquerading vector of another size the object stays empty.
ConstructMasqueraded(p) ==
  /\ Call(p)
  /\ \E m \in Class.masked :
       LET json == m.json
           mask == m.mask
           name == IF FitsClass(Class, mask) THEN MaskedNames(Class, mask)
                   ELSE [c \in ColumnsOf(Class) |-> ""]
       IN /\ \/ ConstructFails(p, json, name)
             \/ /\ Throwing(Class, json, name) = {}
                /\ rec' = [rec EXCEPT ![p] = FromMasqueradedJson(Class, json, mask)]
                /\ HearFirst(p, json, name)
          /\ hidden' = [hidden EXCEPT ![p] = {c \in ColumnsOf(Class) : name[c] = ""}]
          /\ checked' = [checked EXCEPT ![p] =
               Approved(ValidateMasqueradedJsonForCreation(Class, json, mask), "insert")
                 \cup Approved(ValidateMasqueradedJsonForUpdate(Class, json, mask), "update")]
  /\ UNCHANGED stored

\* An update that throws has changed the columns before the one it failed at.
CallEnds(p, json, name) ==
  outcome' = [outcome EXCEPT ![p] =
    IF Throwing(Class, json, name) = {} THEN "done" ELSE "threw"]

Modify(p) ==
  /\ Call(p)
  /\ \E json \in Class.bodies :
       /\ rec' = [rec EXCEPT ![p] = UpdateByJson(Class, rec[p], json)]
       /\ Hear(p, json, PlainNames(Class))
       /\ checked' = [checked EXCEPT ![p] =
            IF ValidateJsonForUpdate(Class, json) THEN @ ELSE {}]
       /\ CallEnds(p, json, PlainNames(Class))
  /\ UNCHANGED <<stored, hidden>>

ModifyMasqueraded(p) ==
  /\ Call(p)
  /\ \E m \in Class.masked :
       /\ rec' = [rec EXCEPT ![p] = UpdateByMasqueradedJson(Class, rec[p], m.json, m.mask)]
       /\ IF FitsClass(Class, m.mask)
          THEN /\ Hear(p, m.json, MaskedNames(Class, m.mask))
               /\ CallEnds(p, m.json, MaskedNames(Class, m.mask))
          ELSE /\ UNCHANGED <<asked, unheard>>
               /\ outcome' = [outcome EXCEPT ![p] = "done"]
       /\ checked' = [checked EXCEPT ![p] =
            IF ValidateMasqueradedJsonForUpdate(Class, m.json, m.mask) THEN @ ELSE {}]
  /\ UNCHANGED <<stored, hidden>>

Sets(p, c, field) ==
  /\ asked' = [asked EXCEPT ![p][c] = {field}]
  /\ unheard' = [unheard EXCEPT ![p] = @ \ {c}]
  /\ checked' = [checked EXCEPT ![p] = {}]
  /\ outcome' = [outcome EXCEPT ![p] = "done"]
  /\ UNCHANGED <<stored, hidden>>

Set(p) ==
  /\ Call(p)
  /\ \E c \in ColumnsOf(Class) : \E v \in Values[Class.kind[c]] :
       /\ rec' = [rec EXCEPT ![p] = SetField(@, c, v)]
       /\ Sets(p, c, {v})

SetToNull(p) ==
  /\ Call(p)
  /\ \E c \in ColumnsOf(Class) \ Class.notNull :
       /\ rec' = [rec EXCEPT ![p] = SetFieldToNull(@, c)]
       /\ Sets(p, c, {})

-----------------------------------------------------------------------------
(* The table *)

WellFormed(row) == WellFormedFor(Class, row)

Taken(row, others) == \E s \in others : Clash(Class, row, s)

\* `default` for the keys that the table fills in, the defaults of the table
\* for the columns that are not listed.
Inserted(r, fresh) ==
  [c \in ColumnsOf(Class) |->
     CASE c \in DOMAIN OutputArgs(Class, r) -> OutputArgs(Class, r)[c]
       [] c \in ListedForInsert(Class, r) \ DOMAIN OutputArgs(Class, r) -> {fresh}
       [] OTHER -> Class.default[c]]

InsertRow(p) ==
  /\ Call(p)
  /\ \E fresh \in Uuid :
       /\ \A row \in stored, c \in Class.defaulted : fresh \notin row[c]
       /\ LET row == Inserted(rec[p], fresh)
          IN /\ WellFormed(row)
             /\ ~Taken(row, stored)
             /\ stored' = stored \cup {row}
             /\ IF NeedSelection(Class, rec[p])
                THEN Holds(p, FromRow(Class, row, Class.layout))
                ELSE /\ outcome' = [outcome EXCEPT ![p] = "done"]
                     /\ UNCHANGED <<rec, asked, unheard, hidden, checked>>

\* Without any column there is no statement that PostgreSQL takes.
InsertRefused(p) ==
  /\ Call(p)
  /\ \/ ListedForInsert(Class, rec[p]) = {}
     \/ \E fresh \in Uuid :
          LET row == Inserted(rec[p], fresh)
          IN /\ \A s \in stored, c \in Class.defaulted : fresh \notin s[c]
             /\ ~WellFormed(row) \/ Taken(row, stored)
  /\ outcome' = [outcome EXCEPT ![p] = "insert"]
  /\ UNCHANGED <<stored, rec, asked, unheard, hidden, checked>>

Matching(p) ==
  {row \in stored : \A c \in Class.keys : row[c] = PrimaryKey(Class, rec[p])[c]}

Updated(r, row) ==
  [c \in ColumnsOf(Class) |->
     IF c \in UpdateColumns(r) THEN UpdateArgs(Class, r)[c] ELSE row[c]]

Refused(r, row) ==
  \/ ~WellFormed(Updated(r, row))
  \/ Taken(Updated(r, row), stored \ {row})

\* PostgreSQL refuses a statement without columns, and a key that is no uuid.
UpdateFails(p) ==
  \/ UpdateColumns(rec[p]) = {}
  \/ \E c \in Class.keys : ~(rec[p].value[c] \subseteq Uuid)
  \/ \E row \in Matching(p) : Refused(rec[p], row)

\* mapper.update() returns the number of rows, and nobody looks at it.
UpdateRow(p) ==
  /\ Call(p)
  /\ HasKey(Class, rec[p])
  /\ ~UpdateFails(p)
  /\ stored' = (stored \ Matching(p)) \cup {Updated(rec[p], row) : row \in Matching(p)}
  /\ outcome' = [outcome EXCEPT ![p] = "done"]
  /\ UNCHANGED <<rec, asked, unheard, hidden, checked>>

UpdateRefused(p) ==
  /\ Call(p)
  /\ HasKey(Class, rec[p])
  /\ UpdateFails(p)
  /\ outcome' = [outcome EXCEPT ![p] = "update"]
  /\ UNCHANGED <<stored, rec, asked, unheard, hidden, checked>>

DeleteRow(p) ==
  /\ Call(p)
  /\ HasKey(Class, rec[p])
  /\ stored' = stored \ Matching(p)
  /\ outcome' = [outcome EXCEPT ![p] = "done"]
  /\ UNCHANGED <<rec, asked, unheard, hidden, checked>>

Step(p) ==
  \/ New(p) \/ Find(p) \/ FindByName(p)
  \/ Construct(p) \/ ConstructMasqueraded(p)
  \/ Modify(p) \/ ModifyMasqueraded(p)
  \/ Set(p) \/ SetToNull(p)
  \/ InsertRow(p) \/ InsertRefused(p)
  \/ UpdateRow(p) \/ UpdateRefused(p)
  \/ DeleteRow(p)

RecordsNext == \E p \in Clients : Step(p)

RecordsSpec == RecordsInit /\ [][RecordsNext]_recordVars

-----------------------------------------------------------------------------
IsObject(r) ==
  /\ r.value = [c \in ColumnsOf(Class) |-> r.value[c]]
  /\ \A c \in ColumnsOf(Class) : IsField(Class.kind[c], r.value[c])
  /\ r.dirty \subseteq ColumnsOf(Class)

RecordsTypeOK ==
  /\ class \in DOMAIN Classes
  /\ \A row \in stored : IsRowOf(Class, row) /\ WellFormed(row)
  /\ \A p \in Clients :
       /\ IsObject(rec[p])
       /\ DOMAIN asked[p] = ColumnsOf(Class)
       /\ unheard[p] \subseteq rec[p].dirty \cup Class.keys
       /\ hidden[p] \subseteq ColumnsOf(Class)
       /\ checked[p] \subseteq {"insert", "update"}
       /\ outcome[p] \in {"done", "threw", "insert", "update"}
       /\ left[p] \in 0..Calls[p]

\* A field that comes into the table as it is: a date only if the session takes
\* the clock of the process for the second that it shows.
Kept(kind, field, stays) ==
  \/ stays = field
  \/ kind = "time" /\ \E d \in field : FromSession[Local[d.second]] # d.second

\* What is left of a row by an update of p: the columns that p asked for are as
\* it asked last, the others as they are in the table now, not as they were
\* when p read them; only an unheard wish leaves a column to chance.
AsAsked(p, row, s) ==
  \A c \in ColumnsOf(Class) \ unheard[p] :
    IF asked[p][c] # {}
    THEN \E field \in asked[p][c] : Kept(Class.kind[c], field, s[c])
    ELSE s[c] = row[c]

\* An update changes rows only as its client asked, dates apart that the session
\* takes for others, and undoes nothing that others have written since the client
\* read the row.
UpdatesAsAsked ==
  [][\A p \in Clients : UpdateRow(p) =>
       /\ \A row \in stored \ stored' : \E s \in stored' : AsAsked(p, row, s)
       /\ \A s \in stored' \ stored : \E row \in stored \ stored' : AsAsked(p, row, s)]_recordVars

Collides(p) ==
  \E row \in stored, u \in Class.unique :
    /\ u \cap rec[p].dirty # {}
    /\ \A c \in u \cap rec[p].dirty : row[c] = rec[p].value[c]

\* A column that the table needs: the update sets it to null, or the insert
\* leaves it out and the table has no value for it.  The class thinks that it may
\* be null, or it came as a text that is no time, or the vector left it out.
Lacks(p, write) ==
  \E c \in Class.required :
    /\ \/ c \in rec[p].dirty /\ rec[p].value[c] = {}
       \/ /\ write = "insert"
          /\ c \notin rec[p].dirty \cup Class.defaulted /\ Class.default[c] = {}
    /\ c \notin Class.notNull \/ c \in unheard[p] \/ c \in hidden[p]

\* A write of validated JSON is refused for a key that is taken or malformed,
\* or because it lacks a column that the table needs and that validation could
\* not ask for; an update also because it names no column but the key.
RefusalsExplained ==
  [][\A p \in Clients :
       \/ InsertRefused(p) /\ "insert" \in checked[p]
       \/ UpdateRefused(p) /\ "update" \in checked[p]
       => \/ Collides(p)
          \/ \E c \in Class.uuid : ~(rec[p].value[c] \subseteq Uuid)
          \/ Lacks(p, outcome'[p])
          \/ outcome'[p] = "update" /\ rec[p].dirty = {}]_recordVars

\* Constructors and updates throw only for JSON that validation turns down.
ValidatedNeverThrows ==
  \A p \in Clients : outcome[p] = "threw" => checked[p] = {}

\* Dates that are read as others: the zone of the text is dropped, summer time
\* is left out, and so is a zero at the end of the microseconds.
Misread(field) ==
  \E d \in field :
    \/ Mktime[Session[d.second]] # d.second
    \/ d.micros > 0 /\ d.micros % 10 = 0

\* The row that an insert makes is as its client asked, but for a key that came
\* by an update from JSON: that is not dirty, and the table makes its own; and
\* for dates that the session takes for others.  The object that it answers with
\* is that row, but for dates that are misread.
InsertsAreAnswered ==
  [][\A p \in Clients : InsertRow(p) /\ NeedSelection(Class, rec[p]) =>
       \E row \in stored' \ stored : \A c \in ColumnsOf(Class) :
         /\ asked[p][c] # {} /\ c \notin unheard[p] \cup Class.defaulted =>
              \E field \in asked[p][c] : Kept(Class.kind[c], field, row[c])
         /\ \/ row[c] # {} /\ ValueOf(Class, rec'[p], c) = row[c]
            \/ row[c] = {} /\ rec'[p].value[c] = {}
            \/ Class.kind[c] = "time" /\ Misread(row[c])]_recordVars

Distinct(mask) ==
  \A i, j \in DOMAIN mask : i # j => mask[i] # mask[j] \/ mask[i] = ""

\* Dates that do not survive the way through JSON: at midnight the text is no
\* date and time, and in summer mktime() takes the clock for a later one.
LostInJson(field) ==
  \E d \in field :
    \/ d.micros = 0 /\ Local[d.second] \in Midnights
    \/ Mktime[Local[d.second]] # d.second

Survives(back, r, c) ==
  \/ back.value[c] = r.value[c]
  \/ Class.kind[c] = "time" /\ LostInJson(r.value[c])

\* The written form is bound by a quantifier, so that it is computed once.
ReadsBack(r, mask) ==
  \A name \in {MaskedNames(Class, mask)}, json \in {ToMasqueradedJson(Class, r, mask)} :
  \A back \in {FromMasqueradedJson(Class, json, mask)} :
    \A c \in ColumnsOf(Class) : name[c] # "" => Survives(back, r, c)

\* What an object writes as JSON, a constructor reads back to the same fields,
\* empty ones and all digits of the times included, but for dates at midnight and
\* in summer; with a masquerading vector so do the columns that have a name, if
\* no other has it.
JsonRoundTrips ==
  \A r \in {rec[p] : p \in Clients} :
    /\ \A json \in {ToJson(Class, r)} : \A back \in {FromJson(Class, json)} :
         \A c \in ColumnsOf(Class) : Survives(back, r, c)
    /\ \A m \in Class.masked :
         FitsClass(Class, m.mask) /\ Distinct(m.mask) => ReadsBack(r, m.mask)
=============================================================================
