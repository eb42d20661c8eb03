---------------------------- MODULE WorkspacesMC ----------------------------
(* Workspaces on small sets of model values, which are interchangeable     *)
(* except for the owner.                                                   *)
EXTENDS Workspaces, TLC

Interchangeable == Permutations(Requests) \cup Permutations(Accounts \ {Owner})

Others == Accounts \ {Owner}

Joining ==
    {"invite", "remove"} \X {Owner} \X Others
      \cup {"listInvites"} \X {Owner} \X {Owner}
      \cup {"accept", "reject"} \X Others \X {Owner}

(* An administrator acts on the owner and on itself; once removed, it can  *)
(* be invited back while what it asked for is still under way.             *)
Managing ==
    {"updateRole", "remove"} \X {Owner} \X Accounts
      \cup {"updateRole", "remove"} \X Others \X Accounts
      \cup {"invite"} \X {Owner} \X Others
      \cup {"accept"} \X Others \X {Owner}
      \cup {"getMembership", "getWorkspace", "listWorkspaces", "listMyInvites"} \X Others \X {Owner}
=============================================================================
