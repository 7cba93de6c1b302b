---------------------------- MODULE ModelRecord ----------------------------
(***************************************************************************)
(* One object of a generated model class (src/models): what its fields     *)
(* hold, which of them are dirty, and what its functions make of JSON, of  *)
(* a row of the database and of an insert or update.                       *)
(*                                                                         *)
(* The five classes have the same functions, column by column, so a        *)
(* function takes the class as a record k:                                 *)
(*   columns     the columns in the order of metaData_                     *)
(*   keys        the columns of the primary key, none in UserPermissions   *)
(*   defaulted   the keys that the table fills in                          *)
(*   kind        "text", "bool" or "time"                                  *)
(*   notNull     the columns that metaData_ marks as not null              *)
(*   limited     the columns with a length                                 *)
(* A field is a shared_ptr: the set of the one value it points to, or {}.  *)
(* A date is a second and the microseconds after it.  As text it is what   *)
(* the clock on some wall shows, without the zone: that of the process, or *)
(* that of the session of PostgreSQL, whose zone is its own setting.       *)
(***************************************************************************)
EXTENDS Naturals, Sequences

CONSTANTS
  Uuid,        \* the texts that PostgreSQL takes for a uuid
  Long,        \* the texts of more than 255 characters
  Local,       \* localtime_r(): the clock of the process at a second
  Mktime,      \* mktime() with tm_isdst = 0: the second of a clock, as if there
               \* were no summer time
  Session,     \* the clock that PostgreSQL writes for a second
  FromSession, \* the second that it takes a clock without a zone for
  Midnights    \* the clocks that stand at midnight

Seconds == DOMAIN Local

Clocks == DOMAIN Mktime

MicrosPerSecond == 1000000

MicrosOfSecond == 0..(MicrosPerSecond - 1)

ASSUME ClocksAssumption ==
  /\ Local \in [Seconds -> Clocks] /\ Mktime \in [Clocks -> Seconds]
  /\ Session \in [Seconds -> Clocks] /\ FromSession \in [Clocks -> Seconds]

ColumnsOf(k) == {k.columns[i] : i \in DOMAIN k.columns}

Blank(k) == [value |-> [c \in ColumnsOf(k) |-> {}], dirty |-> {}]

-----------------------------------------------------------------------------
(* Rows.  PostgreSQL writes 500000 microseconds as ".5+02": strptime()     *)
(* leaves the zone, the code pads the text after the dot, zone included,   *)
(* and reads 5, and mktime() takes the clock for one of the process.       *)

WithoutZero(n) == IF n > 0 /\ n % 10 = 0 THEN n \div 10 ELSE n

\* Of six digits at most five are zeros at the end.
WithoutZeros(n) == WithoutZero(WithoutZero(WithoutZero(WithoutZero(WithoutZero(n)))))

AsRead(kind, field) ==
  IF kind = "time"
  THEN {[second |-> Mktime[Session[d.second]], micros |-> WithoutZeros(d.micros)] : d \in field}
  ELSE field

FromRowByName(k, row) ==
  [value |-> [c \in ColumnsOf(k) |-> AsRead(k.kind[c], row[c])], dirty |-> {}]

\* Mutant: the members of a row are dirty, as those of JSON are.
FromRowDirty(k, row, layout) ==
  [value |-> [c \in ColumnsOf(k) |->
                AsRead(k.kind[c],
                       row[layout[CHOOSE i \in DOMAIN k.columns : k.columns[i] = c]])],
   dirty |-> ColumnsOf(k)]

\* The i-th column of the class is the i-th of the table, whatever it is called.
FromRow(k, row, layout) ==
  IF Len(k.columns) > Len(layout)
  THEN Blank(k)
  ELSE [value |-> [c \in ColumnsOf(k) |->
                     AsRead(k.kind[c],
                            row[layout[CHOOSE i \in DOMAIN k.columns : k.columns[i] = c]])],
        dirty |-> {}]

-----------------------------------------------------------------------------
(* Names.  A masquerading vector renames the columns, in their order; an   *)
(* empty name leaves the column out.                                       *)

PlainNames(k) == [c \in ColumnsOf(k) |-> c]

FitsClass(k, mask) == Len(mask) = Len(k.columns)

MaskedNames(k, mask) ==
  [c \in ColumnsOf(k) |-> mask[CHOOSE i \in DOMAIN k.columns : k.columns[i] = c]]

\* The columns that a JSON object, a function from names to values, mentions.
Given(k, json, name) ==
  {c \in ColumnsOf(k) : name[c] # "" /\ name[c] \in DOMAIN json}

-----------------------------------------------------------------------------
(* JSON values are [is, v] with is one of "null", "text", "bool", "object".*)
(* The text of a time is a clock, its microseconds and its form: only that *)
(* with date and time, apart by a blank, is read.                          *)

TimeTexts == [clock : Clocks, micros : MicrosOfSecond, form : {"dateTime"}]

FromText(text) == [second |-> Mktime[text.clock], micros |-> text.micros]

\* asString() throws for an object, asBool() for a string too.
Converts(kind, j) ==
  j.is # "object" /\ (kind = "bool" => j.is # "text")

\* Null, and a text that is no time, leave the field as it was.
FromJsonField(kind, j, old) ==
  CASE j.is = "null"  -> old
    [] j.is # "null" /\ kind = "time" ->
         IF j.v \in TimeTexts THEN {FromText(j.v)} ELSE old
    [] OTHER          -> {j.v}

Throwing(k, json, name) ==
  {c \in Given(k, json, name) :
     json[name[c]].is # "null" /\ ~Converts(k.kind[c], json[name[c]])}

Precedes(k, c, d) ==
  \E i, j \in DOMAIN k.columns : i < j /\ k.columns[i] = c /\ k.columns[j] = d

\* The columns come in order, and the first conversion that throws ends it;
\* its column is dirty by then.
Reached(k, json, name) ==
  LET throwing == Throwing(k, json, name)
  IN {c \in Given(k, json, name) : ~\E d \in throwing : Precedes(k, d, c)}

FieldsAfter(k, value, json, name) ==
  LET taken == Reached(k, json, name) \ Throwing(k, json, name)
  IN [c \in ColumnsOf(k) |->
        IF c \in taken
        THEN FromJsonField(k.kind[c], json[name[c]], value[c])
        ELSE value[c]]

\* The constructors mark every member dirty, the updates all but the keys.
FromJson(k, json) ==
  [value |-> FieldsAfter(k, Blank(k).value, json, PlainNames(k)),
   dirty |-> Reached(k, json, PlainNames(k))]

FromMasqueradedJson(k, json, mask) ==
  IF FitsClass(k, mask)
  THEN [value |-> FieldsAfter(k, Blank(k).value, json, MaskedNames(k, mask)),
        dirty |-> Reached(k, json, MaskedNames(k, mask))]
  ELSE Blank(k)

UpdateByJson(k, r, json) ==
  [value |-> FieldsAfter(k, r.value, json, PlainNames(k)),
   dirty |-> r.dirty \cup (Reached(k, json, PlainNames(k)) \ k.keys)]

UpdateByMasqueradedJson(k, r, json, mask) ==
  IF FitsClass(k, mask)
  THEN [value |-> FieldsAfter(k, r.value, json, MaskedNames(k, mask)),
        dirty |-> r.dirty \cup (Reached(k, json, MaskedNames(k, mask)) \ k.keys)]
  ELSE r

-----------------------------------------------------------------------------
(* Validation, which the constructors and updates leave to their caller.   *)

\* Mutant: the length is not checked.
ValidWithoutLimit(k, c, j) ==
  IF j.is = "null"
  THEN c \notin k.notNull
  ELSE j.is = (IF k.kind[c] = "bool" THEN "bool" ELSE "text")

\* Mutant: the type is not checked.
ValidWithoutType(k, c, j) ==
  IF j.is = "null"
  THEN c \notin k.notNull
  ELSE c \in k.limited => j.v \notin Long

ValidJsonOfField(k, c, j) ==
  IF j.is = "null"
  THEN c \notin k.notNull
  ELSE /\ j.is = (IF k.kind[c] = "bool" THEN "bool" ELSE "text")
       /\ c \in k.limited => j.v \notin Long

ValidateJsonForCreation(k, json) ==
  /\ k.notNull \ k.defaulted \subseteq DOMAIN json
  /\ \A c \in Given(k, json, PlainNames(k)) : ValidJsonOfField(k, c, json[c])

\* A column without a name is not asked for, even where the table needs it.
ValidateMasqueradedJsonForCreation(k, json, mask) ==
  /\ FitsClass(k, mask)
  /\ LET name == MaskedNames(k, mask)
     IN \A c \in ColumnsOf(k) :
          name[c] # "" =>
            IF name[c] \in DOMAIN json
            THEN ValidJsonOfField(k, c, json[name[c]])
            ELSE c \notin k.notNull \ k.defaulted

ValidateJsonForUpdate(k, json) ==
  /\ k.keys \subseteq DOMAIN json
  /\ \A c \in Given(k, json, PlainNames(k)) : ValidJsonOfField(k, c, json[c])

ValidateMasqueradedJsonForUpdate(k, json, mask) ==
  /\ FitsClass(k, mask)
  /\ LET name == MaskedNames(k, mask)
     IN /\ k.keys \subseteq Given(k, json, name)
        /\ \A c \in Given(k, json, name) : ValidJsonOfField(k, c, json[name[c]])

-----------------------------------------------------------------------------
(* Fields *)

\* getValueOf...(): an empty field reads as a default-constructed value.
ValueOf(k, r, c) ==
  IF r.value[c] # {} THEN r.value[c]
  ELSE {CASE k.kind[c] = "text" -> ""
          [] k.kind[c] = "bool" -> "false"
          [] k.kind[c] = "time" -> [second |-> 0, micros |-> 0]}

\* Mutant: the setter forgets the flag.
SetFieldClean(r, c, v) ==
  [value |-> [r.value EXCEPT ![c] = {v}], dirty |-> r.dirty]

SetField(r, c, v) ==
  [value |-> [r.value EXCEPT ![c] = {v}], dirty |-> r.dirty \cup {c}]

\* Only columns that may be null have it.
SetFieldToNull(r, c) ==
  [value |-> [r.value EXCEPT ![c] = {}], dirty |-> r.dirty \cup {c}]

HasKey(k, r) == k.keys # {} /\ \A c \in k.keys : r.value[c] # {}

PrimaryKey(k, r) == [c \in k.keys |-> r.value[c]]

-----------------------------------------------------------------------------
(* Objects as JSON. *)

\* toDbStringLocal() writes the local clock, with all six digits or none, and
\* for midnight nothing but the date.
TextOf(kind, v) ==
  IF kind = "time"
  THEN [clock  |-> Local[v.second],
        micros |-> v.micros,
        form   |-> IF v.micros = 0 /\ Local[v.second] \in Midnights
                   THEN "date" ELSE "dateTime"]
  ELSE v

JsonOf(k, r, c) ==
  IF r.value[c] = {}
  THEN [is |-> "null", v |-> ""]
  ELSE [is |-> IF k.kind[c] = "bool" THEN "bool" ELSE "text",
        v  |-> TextOf(k.kind[c], CHOOSE v \in r.value[c] : TRUE)]

\* Mutant: the accessors are asked without a look at what is null.
ToJsonWithoutNulls(k, r) ==
  [c \in ColumnsOf(k) |-> JsonOf(k, [value |-> [d \in ColumnsOf(k) |-> ValueOf(k, r, d)]], c)]

ToJson(k, r) == [c \in ColumnsOf(k) |-> JsonOf(k, r, c)]

\* Two columns with one name: the later one is written over the other.
ToMasqueradedJson(k, r, mask) ==
  IF FitsClass(k, mask)
  THEN LET name  == MaskedNames(k, mask)
           named == {c \in ColumnsOf(k) : name[c] # ""}
           Last(n) == CHOOSE c \in named :
                        name[c] = n /\ ~\E d \in named : name[d] = n /\ Precedes(k, c, d)
       IN [n \in {name[c] : c \in named} |-> JsonOf(k, r, Last(n))]
  ELSE ToJson(k, r)

-----------------------------------------------------------------------------
(* SQL.  Names and arguments are both listed in the order of the columns,  *)
(* so an argument belongs to the name at its place: they are a function.   *)

\* A date is bound as its local clock, whole dates too, which PostgreSQL takes
\* for one of its session.
AsTaken(kind, field) ==
  IF kind = "time"
  THEN {[second |-> FromSession[Local[d.second]], micros |-> d.micros] : d \in field}
  ELSE field

OutputArgs(k, r) == [c \in r.dirty |-> AsTaken(k.kind[c], r.value[c])]

UpdateColumns(r) == r.dirty

UpdateArgs(k, r) == [c \in r.dirty |-> AsTaken(k.kind[c], r.value[c])]

\* sqlForInserting(): the keys that the table fills in are always listed,
\* with `default` unless they are dirty, and the row is then returned.
ListedForInsert(k, r) == k.defaulted \cup r.dirty

NeedSelection(k, r) == k.defaulted \ r.dirty # {}
=============================================================================
