----------------------------------- MODULE Rbac -----------------------------------
(* The access inspection of commands/rbac: five families of objects are        *)
(* listed side by side, each page by page, while the cluster changes; then the *)
(* bindings inherit the flags of their roles and every namespace is told which *)
(* subjects reach it.                                                          *)
EXTENDS Integers, FiniteSets

CONSTANTS
    AccessObjects,     \* what may exist: accounts, roles and bindings; see the MC module
    Clusterwide,       \* the namespace of an object that has none
    MaxAccessChanges   \* bound on changes of the cluster

\* Accounts, roles and role bindings live in a namespace; users and groups in none.
ASSUME AccessAssumption ==
    \A o \in AccessObjects :
        /\ o.family \in {"serviceAccounts", "roles", "roleBindings"} => o.namespace # Clusterwide
        /\ o.family \in {"roleBindings", "clusterRoleBindings"} =>
              \A s \in o.subjects : s.kind # "ServiceAccount" => s.namespace = Clusterwide

Families == {"serviceAccounts", "roles", "clusterRoles", "roleBindings", "clusterRoleBindings"}

VARIABLES
    granted,       \* the objects in the cluster
    unchanged,     \* history: those that were there from the first read on
    accessChanges, \* changes so far
    loads          \* family -> the objects its pages brought and its coverage

rbacVars == <<granted, unchanged, accessChanges, loads>>

Unread == [items |-> {}, status |-> "loading"]

RbacInit ==
    /\ granted \in SUBSET AccessObjects /\ unchanged = granted
    /\ accessChanges = 0
    /\ loads = [f \in Families |-> Unread]

Inspected == \A f \in Families : loads[f] # Unread

AccessChanges ==
    /\ ~Inspected /\ accessChanges < MaxAccessChanges
    /\ \E o \in AccessObjects :
         IF o \in granted THEN granted' = granted \ {o} /\ unchanged' = unchanged \ {o}
         ELSE granted' = granted \cup {o} /\ UNCHANGED unchanged
    /\ accessChanges' = accessChanges + 1 /\ UNCHANGED loads

\* list_paged: every page belongs to the list as it was when the first was read.
Pages(f) == {o \in granted : o.family = f}
ListAll(f) ==
    /\ loads[f] = Unread
    /\ loads' = [loads EXCEPT ![f] = [items |-> Pages(f), status |-> "complete"]]
    /\ UNCHANGED <<granted, unchanged, accessChanges>>
\* A page fails: what the pages before it brought is kept.
ListBreaksOff(f) ==
    /\ loads[f] = Unread
    /\ \E kept \in SUBSET Pages(f) :
         /\ kept # Pages(f) \/ kept = {}
         /\ loads' = [loads EXCEPT ![f] = [items |-> kept,
                          status |-> IF kept = {} THEN "unavailable" ELSE "partial"]]
    /\ UNCHANGED <<granted, unchanged, accessChanges>>

RbacNext == AccessChanges \/ \E f \in Families : ListAll(f) \/ ListBreaksOff(f)

RbacSpec == RbacInit /\ [][RbacNext]_rbacVars

-----------------------------------------------------------------------------
(* Flags: a label with its level                                             *)

High(label) == [level |-> 2, label |-> label]
Medium(label) == [level |-> 1, label |-> label]
UnknownFlag(label) == [level |-> 3, label |-> label]
If(condition, flag) == IF condition THEN {flag} ELSE {}

\* rule_risks: "*" is the only wildcard that it knows, all other resources are literal.
RuleFlags(verbs, resources) ==
    LET anyVerb == "*" \in verbs
        anyResource == "*" \in resources
        May(vs) == anyVerb \/ verbs \cap vs # {}
        On(rs) == resources \cap rs # {}
        writes == {"create", "update", "patch", "delete"}
    IN  UNION {
        If(anyVerb, High("wildcard verbs")),
        If(anyResource, High("wildcard resources")),
        If(verbs \cap {"impersonate", "escalate", "bind"} # {}, High("escalation")),
        If((anyResource \/ On({"secrets"})) /\ May(writes \cup {"get", "list", "watch"}), High("secrets")),
        If((anyResource \/ On({"roles", "rolebindings", "clusterroles", "clusterrolebindings"}))
           /\ May(writes), Medium("rbac write")),
        If(On({"pods/exec", "pods/attach", "pods/portforward", "pods/proxy", "services/proxy"})
           /\ May({"create", "get"}), High("interactive")),
        If(On({"serviceaccounts", "serviceaccounts/token"}) /\ May({"create"}), High("tokens"))}

RoleFlags(role) == UNION {RuleFlags(rule.verbs, rule.resources) : rule \in role.rules}
AccountFlags(account) == If(account.automount, Medium("automount"))

\* inherit_binding_risks
RoleFamily(b) == IF b.roleKind = "ClusterRole" THEN "clusterRoles" ELSE "roles"
Referenced(b) ==
    {r \in loads[RoleFamily(b)].items :
        r.name = b.roleName /\ (b.roleKind = "Role" => r.namespace = b.namespace)}

\* Mutant: a role that was not read is a role that is not there.
MissingRole_dangling(b) == "dangling"

MissingRole(b) == IF loads[RoleFamily(b)].status = "complete" THEN "dangling" ELSE "unavailable"
BindingFlags(b) ==
    If(b.roleKind = "ClusterRole" /\ b.roleName = "cluster-admin", High("cluster admin"))
    \cup If(\E s \in b.subjects : s.kind = "Group" /\ s.name = "system:masters", High("masters"))
    \cup (IF Referenced(b) = {} THEN {UnknownFlag(MissingRole(b))}
          ELSE UNION {RoleFlags(r) : r \in Referenced(b)})

-----------------------------------------------------------------------------
(* namespace_access_summary                                                  *)

Items(f) == loads[f].items
\* A service account subject without a namespace is one of its binding's.
Home(b, s) == IF s.kind = "ServiceAccount" /\ s.namespace = Clusterwide THEN b.namespace ELSE s.namespace
AccountHomes(b) == {Home(b, s) : s \in {t \in b.subjects : t.kind = "ServiceAccount"}} \ {Clusterwide}
Wide(b) == {s \in b.subjects : s.kind # "ServiceAccount"}

Inventoried == {o.namespace : o \in Items("serviceAccounts") \cup Items("roles") \cup Items("roleBindings")}

\* Mutant: the cluster bindings are spread before the role bindings are read.
KnownAt_early(b) == {o.namespace : o \in Items("serviceAccounts") \cup Items("roles")}

\* The namespaces known when a cluster binding is reached, in the list's order.
KnownAt(b) == Inventoried \cup UNION {AccountHomes(c) : c \in {d \in Items("clusterRoleBindings") : d.at < b.at}}
Reached(b) == AccountHomes(b) \cup (IF Wide(b) = {} THEN {} ELSE KnownAt(b))
Namespaces == Inventoried \cup UNION {AccountHomes(b) : b \in Items("clusterRoleBindings")}

OfNamespace(f, n) == {o \in Items(f) : o.namespace = n}
Reaching(n) == {b \in Items("clusterRoleBindings") : n \in Reached(b)}
SubjectsOf(b) == {[kind |-> s.kind, name |-> s.name, namespace |-> Home(b, s)] : s \in b.subjects}
SubjectsReaching(b, n) ==
    {s \in SubjectsOf(b) : \/ s.kind = "ServiceAccount" /\ s.namespace = n
                           \/ s.kind # "ServiceAccount" /\ n \in KnownAt(b)}
SubjectsIn(n) == UNION ({SubjectsOf(b) : b \in OfNamespace("roleBindings", n)}
                        \cup {SubjectsReaching(b, n) : b \in Reaching(n)})
Access(n) ==
    [subjects |-> SubjectsIn(n),
     bindings |-> Cardinality(OfNamespace("roleBindings", n)) + Cardinality(Reaching(n)),
     flags |-> UNION ({AccountFlags(a) : a \in OfNamespace("serviceAccounts", n)}
                      \cup {RoleFlags(r) : r \in OfNamespace("roles", n)}
                      \cup {BindingFlags(b) : b \in OfNamespace("roleBindings", n) \cup Reaching(n)})]

-----------------------------------------------------------------------------
Bindings == Items("roleBindings") \cup Items("clusterRoleBindings")

\* A binding is called dangling only when its role was missing at some moment of
\* the inspection, and carries no flag only when its role was read and has none.
\* A role that was there all along gives its flags, or its family is not complete.
BindingsAreClassified ==
    Inspected => \A b \in Bindings :
        LET roles == {r \in unchanged : r.family = RoleFamily(b) /\ r.name = b.roleName
                                        /\ (b.roleKind = "Role" => r.namespace = b.namespace)}
        IN  /\ roles # {} => UnknownFlag("dangling") \notin BindingFlags(b)
            /\ \A r \in roles : RoleFlags(r) \subseteq BindingFlags(b)
                                \/ loads[RoleFamily(b)].status # "complete"
            /\ BindingFlags(b) = {} => \E r \in Referenced(b) : RoleFlags(r) = {}

\* Every subject of a binding that was there all along and whose family loaded is
\* listed, with the binding's flags, in its own namespace; users and groups of a
\* cluster binding in every namespace that holds an account, a role or a binding.
AccessReachesNamespaces ==
    Inspected => \A b \in unchanged \cap AccessObjects :
        LET Shown(s, n) == s \in Access(n).subjects /\ BindingFlags(b) \subseteq Access(n).flags
        IN  /\ b.family = "roleBindings" /\ loads["roleBindings"].status = "complete" =>
                 \A s \in SubjectsOf(b) : Shown(s, b.namespace)
            /\ b.family = "clusterRoleBindings" /\ loads["clusterRoleBindings"].status = "complete" =>
                 \A s \in SubjectsOf(b) : \A n \in Namespaces :
                     n = s.namespace \/ (s.kind # "ServiceAccount" /\ n \in Inventoried) => Shown(s, n)
=============================================================================
