------------------------------- MODULE Roles -------------------------------
(***************************************************************************)
(* portal/roles.py: the four roles, what each may do, and how roles held   *)
(* by one person combine.                                                  *)
(***************************************************************************)
EXTENDS Integers

Permission ==
  {"platform.manage", "platform.view_all_events", "platform.create_events",
   "event.edit", "event.manage_team", "event.manage_keys",
   "room.mission_control", "room.floor_transcription",
   "booth.set_active", "booth.go_live", "booth.chat_send", "booth.view"}

InterpreterPermissions == {"booth.go_live", "booth.chat_send", "booth.view"}

CoordinatorPermissions ==
  InterpreterPermissions \cup
    {"room.mission_control", "room.floor_transcription", "booth.set_active"}

OwnerPermissions ==
  CoordinatorPermissions \cup {"event.edit", "event.manage_team", "event.manage_keys"}

AllRoles == {"admin", "event_owner", "room_coordinator", "interpreter"}

RolePermissions ==
  [admin            |-> Permission,
   event_owner      |-> OwnerPermissions,
   room_coordinator |-> CoordinatorPermissions,
   interpreter      |-> InterpreterPermissions]

RoleRank == [admin |-> 4, event_owner |-> 3, room_coordinator |-> 2, interpreter |-> 1]

HasPermission(r, permission) == r \in AllRoles /\ permission \in RolePermissions[r]

PermissionsFor(roles) == UNION {RolePermissions[r] : r \in roles \cap AllRoles}

(* is_at_least, which auth.can_perform_role is.                            *)
IsAtLeast(granted, requested) ==
  /\ granted \in AllRoles
  /\ requested \in AllRoles
  /\ RoleRank[granted] >= RoleRank[requested]

GoLiveRoles    == {r \in AllRoles : HasPermission(r, "booth.go_live")}
SetActiveRoles == {r \in AllRoles : HasPermission(r, "booth.set_active")}
=============================================================================
