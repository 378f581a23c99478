---------------------------- MODULE MCPortForward ----------------------------
(* TLC instances of PortForward.                                            *)
EXTENDS PortForward, TLC

CONSTANTS prod, dev,  \* cluster contexts
          home, work  \* kubeconfig sources

Workspace(context, from) == [contexts |-> {context}, source |-> from]

\* Workspaces that read the same context from two sources.
TwoSources == {Workspace(prod, home), Workspace(prod, work)}

\* Workspaces of two contexts of one source.
TwoWorkspaces == {Workspace(prod, home), Workspace(dev, home)}

\* The two scopes of TwoSources are alike: the first workspace reads from home.
HomeFirst == Init /\ scope.source = home
HomeSpec == HomeFirst /\ [][Next]_vars /\ Fairness
=============================================================================
