----------------------------- MODULE MCRecords -----------------------------
(* A class of each kind of key, with one column of each kind of value. *)
EXTENDS Records

(* Six hours, of which the fourth and fifth are summer time for both the    *)
(* process and the session: their clock skips 3 and shows 5 twice.  At 1    *)
(* it is midnight.                                                          *)
Summer == [h \in 0..5 |-> IF h \in {3, 4} THEN h + 1 ELSE h]
Standard == [clock \in 0..5 |-> clock]
Real == [clock \in 0..5 |-> IF clock = 4 THEN 3 ELSE clock]
MidnightAtOne == {1}

Date(h, m) == [second |-> h, micros |-> m]
Time(clock, m, form) ==
  [is |-> "text", v |-> [clock |-> clock, micros |-> m, form |-> form]]
Iso == Time(2, 7, "iso")
At2 == Time(2, 7, "dateTime")
At4 == Time(4, 5, "dateTime")
AtMidnight == Time(1, 0, "dateTime")

Text(v) == [is |-> "text", v |-> v]
Null == [is |-> "null", v |-> ""]
Object == [is |-> "object", v |-> ""]

MCUsers ==
  [columns   |-> <<"id", "name", "is_deleted", "created_at">>,
   keys      |-> {"id"},
   defaulted |-> {"id"},
   kind      |-> [id |-> "text", name |-> "text", is_deleted |-> "bool",
                  created_at |-> "time"],
   notNull   |-> {"id", "name", "created_at"},
   limited   |-> {"name"},
   layout    |-> <<"id", "name", "is_deleted", "created_at">>,
   required  |-> {"id", "name", "is_deleted", "created_at"},
   unique    |-> {{"id"}, {"name"}},
   uuid      |-> {"id"},
   default   |-> [id |-> {}, name |-> {}, is_deleted |-> {"false"}, created_at |-> {Date(2, 50)}],
   rows      |-> {[id |-> {"u1"}, name |-> {"a"}, is_deleted |-> {"true"},
                   created_at |-> {Date(1, 0)}]},
   bodies    |-> {[name |-> Text("b"), created_at |-> At4],
                  [id |-> Text("bad"), is_deleted |-> Null]},
   masked    |-> {[json |-> [n |-> Text("long")], mask |-> <<"", "n", "x", "">>]}]

MCRolePermissions ==
  [columns   |-> <<"user_id", "role_id", "created_at">>,
   keys      |-> {"user_id", "role_id"},
   defaulted |-> {},
   kind      |-> [user_id |-> "text", role_id |-> "text", created_at |-> "time"],
   notNull   |-> {"user_id", "role_id", "created_at"},
   limited   |-> {},
   layout    |-> <<"user_id", "role_id", "created_at">>,
   required  |-> {"user_id", "role_id", "created_at"},
   unique    |-> {{"user_id", "role_id"}},
   uuid      |-> {"user_id", "role_id"},
   default   |-> [user_id |-> {}, role_id |-> {}, created_at |-> {Date(2, 50)}],
   rows      |-> {[user_id |-> {"u1"}, role_id |-> {"u1"}, created_at |-> {Date(3, 7)}]},
   bodies    |-> {[user_id |-> Text("u1"), role_id |-> Text("u2"), created_at |-> Iso],
                  [user_id |-> Text("u1"), role_id |-> Text("u2"), created_at |-> At4],
                  [user_id |-> Text("u1"), role_id |-> Object, created_at |-> At2]},
   masked    |-> {[json |-> [id |-> Text("u2"), created_at |-> At2],
                   mask |-> <<"id", "id", "created_at">>],
                  [json |-> [user_id |-> Text("u1"), created_at |-> At2],
                   mask |-> <<"user_id", "", "created_at">>]}]

MCUserPermissions ==
  [columns   |-> <<"user_id", "permission_id", "created_at">>,
   keys      |-> {},
   defaulted |-> {},
   kind      |-> [user_id |-> "text", permission_id |-> "text", created_at |-> "time"],
   notNull   |-> {"created_at"},
   limited   |-> {},
   layout    |-> <<"user_id", "permission_id", "created_at">>,
   required  |-> {"user_id", "permission_id", "created_at"},
   unique    |-> {{"user_id", "permission_id"}},
   uuid      |-> {"user_id", "permission_id"},
   default   |-> [user_id |-> {}, permission_id |-> {}, created_at |-> {Date(2, 0)}],
   rows      |-> {},
   bodies    |-> {[user_id |-> Null, permission_id |-> Text("u2"), created_at |-> AtMidnight],
                  [user_id |-> Text("u1"), permission_id |-> Text("u2"), created_at |-> At2]},
   masked    |-> {[json |-> [u |-> Text("u1"), created_at |-> At4],
                   mask |-> <<"u", "", "created_at">>],
                  [json |-> [user_id |-> Text("u1")], mask |-> <<"user_id">>]}]

MCClasses ==
  [Users |-> MCUsers, RolePermissions |-> MCRolePermissions,
   UserPermissions |-> MCUserPermissions]

MCValues == [text |-> {"u1"}, bool |-> {"true"}, time |-> {Date(3, 5)}]
MCCalls == [p1 |-> 3, p2 |-> 2]
=============================================================================
