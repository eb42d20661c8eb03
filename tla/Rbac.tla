-------------------------------- MODULE Rbac --------------------------------
(***************************************************************************)
(* The roles of a workspace, the permission keys each one carries, and the *)
(* record every HTTP controller is declared with: which of the requester's *)
(* cached facts its middlewares look up, which permission they ask for,    *)
(* and the status its handler's result is answered with.                   *)
(***************************************************************************)
EXTENDS FiniteSets

Permission ==
    {"workspace:manage", "workspace:delete", "workspace:invite",
     "workspace:remove-member", "workspace:transfer-ownership",
     "board:create", "board:edit", "board:delete",
     "card:create", "card:edit", "card:delete", "card:move", "card:assign"}

(* ROLE_PERMISSION_MAP; "none" is the role of an account with no row.      *)
PermissionsOf ==
    [owner  |-> Permission,
     admin  |-> Permission \ {"workspace:transfer-ownership"},
     member |-> {"workspace:invite", "board:create", "board:edit",
                 "card:create", "card:edit", "card:move", "card:assign"},
     viewer |-> {},
     none   |-> {}]

Role == {"owner", "admin", "member", "viewer"}

None == "none"

(* What the zod schemas of the invite and role routes let a client ask for. *)
AssignableRole == {"admin", "member", "viewer"}

(* The three keys the role cache keeps per account and workspace.          *)
Fact == {"membership", "permissions", "role"}

-----------------------------------------------------------------------------

(* infra/http/controllers of the workspace module: one record each.  Auth  *)
(* comes before the checks; membership is refused with 404, a missing      *)
(* permission with 403.                                                    *)

GetWorkspaceController ==
    [checks |-> <<"membership">>, requires |-> {}, status |-> [ok |-> 200]]

GetMyWorkspaceMembershipController ==
    [checks |-> <<"membership", "role", "permissions">>, requires |-> {},
     status |-> [ok |-> 200]]

ListMyWorkspacesController ==
    [checks |-> <<"role">>, requires |-> {}, status |-> [ok |-> 200]]

ListMyInvitesController ==
    [checks |-> <<>>, requires |-> {}, status |-> [ok |-> 200]]

ListWorkspaceMembersController ==
    [checks |-> <<"membership">>, requires |-> {}, status |-> [ok |-> 200]]

ListWorkspaceInvitesController ==
    [checks |-> <<"membership", "permissions">>, requires |-> {"workspace:manage"},
     status |-> [ok |-> 200]]

InviteMemberController ==
    [checks |-> <<"membership", "permissions">>, requires |-> {"workspace:invite"},
     status |-> [ok |-> 201, AlreadyAMember |-> 409, InviteAlreadyPending |-> 409]]

RespondToInviteController ==
    [checks |-> <<>>, requires |-> {},
     status |-> [ok |-> 204, InviteNotFound |-> 404, InviteExpired |-> 410,
                 InviteAlreadyUsed |-> 409, InviteEmailMismatch |-> 403,
                 AlreadyAMember |-> 409]]

RemoveWorkspaceMemberController ==
    [checks |-> <<"membership", "permissions">>,
     requires |-> {"workspace:remove-member"},
     status |-> [ok |-> 204, MemberNotFound |-> 404, CannotRemoveSelf |-> 422,
                 CannotRemoveOwner |-> 422]]

UpdateWorkspaceMemberRoleController ==
    [checks |-> <<"membership", "permissions">>, requires |-> {"workspace:manage"},
     status |-> [ok |-> 204, MemberNotFound |-> 404, CannotUpdateOwnerRole |-> 422]]

(* The operations the buses dispatch, by the controller that issues them.  *)
ControllerOf ==
    [getWorkspace |-> GetWorkspaceController,
     getMembership |-> GetMyWorkspaceMembershipController,
     listWorkspaces |-> ListMyWorkspacesController,
     listMyInvites |-> ListMyInvitesController,
     listMembers |-> ListWorkspaceMembersController,
     listInvites |-> ListWorkspaceInvitesController,
     invite |-> InviteMemberController,
     accept |-> RespondToInviteController,
     reject |-> RespondToInviteController,
     remove |-> RemoveWorkspaceMemberController,
     updateRole |-> UpdateWorkspaceMemberRoleController]
=============================================================================
