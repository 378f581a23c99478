-------------------------- MODULE MCWorkspaceSwitch --------------------------
(* An instance of WorkspaceSwitch for TLC.                                  *)
EXTENDS WorkspaceSwitch, TLC

CONSTANTS q1,    \* a finite read
          poll,  \* its request name
          list,  \* its cancel scope
          prod   \* its cluster context

OneName == (q1 :> poll)
OneScope == (poll :> list)
OneContext == (q1 :> prod)
=============================================================================
