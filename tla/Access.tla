-------------------------------- MODULE Access --------------------------------
(***************************************************************************)
(* What the path manager asks about a request before it serves it: is the  *)
(* path configured (mediamtx/conf/path.go), and may the client use it      *)
(* (mediamtx/auth/manager.go, with the users of core/handler.go)?          *)
(***************************************************************************)
CONSTANTS
  ValidNames,   \* the names that isValidPathName accepts
  None          \* no configuration

\* FindPathConf: the configuration a valid name is served with.  AddPath makes them
\* without a regular expression, so only the one of that name is found.
FindPathConf(pathConfs, name) == IF name \in ValidNames \cap pathConfs THEN name ELSE None

\* RtspHandler.Start: a permission without a path is for all of them.
InternalUsers ==
  {[user        |-> "any",
    ips         |-> {},
    permissions |-> [action : {"read", "publish"}, path : {""}]]}

matchesPermission(perms, action, name) ==
  \E perm \in perms : perm.action = action /\ perm.path \in {"", name}

\* The user "any" needs no name and no password; there is no other.
authenticateWithUser(u, action, name) ==
  /\ u.user = "any"
  /\ u.ips = {}
  /\ matchesPermission(u.permissions, action, name)

\* Manager.Authenticate, by the internal method
Authenticate(action, name) ==
  \E u \in InternalUsers : authenticateWithUser(u, action, name)

\* A request gets to the path, or is refused.
Admitted(pathConfs, action, name) ==
  FindPathConf(pathConfs, name) # None /\ Authenticate(action, name)
=============================================================================
