------------------------------ MODULE MCBundle ------------------------------
(***************************************************************************)
(* Small sources for Bundle: templates that include files which the walk   *)
(* comes to earlier or later, under either of their names; documents that  *)
(* are not manifests; a kind that discovery does not list; groups and      *)
(* names with dots in them; two versions of one group.                     *)
(***************************************************************************)
EXTENDS Bundle

Dictionary == <<".", "/", "app", "io", "lib", "n", "rbac", "v1", "v2">>
MCWords == ToSet(Dictionary)
MCWordRank == [w \in MCWords |-> SelectInSeq(Dictionary, LAMBDA v : v = w)]

File(base, ext) == [base |-> base, tpl |-> FALSE, ext |-> ext]
Template(base, ext) == [base |-> base, tpl |-> TRUE, ext |-> ext]

Doc(api, kind, ns, name) ==
    [sort |-> "manifest", api |-> api, kind |-> kind, ns |-> ns, name |-> name]

Core == <<"v1">>
Apps == <<"app", "/", "v1">>
Rbac == <<"rbac", ".", "io", "/", "v1">>

Namespace == Doc(Core, "Namespace", <<>>, <<"n">>)
ConfigMap == Doc(Core, "ConfigMap", <<"n">>, <<"lib">>)
Dotted == Doc(Core, "ConfigMap", <<"n">>, <<"lib", ".", "app">>)
Deployment == Doc(Apps, "Deployment", <<"n">>, <<"app">>)
Newer == Doc(<<"app", "/", "v2">>, "Deployment", <<"n">>, <<"app">>)
Role == Doc(Rbac, "Role", <<"n">>, <<"app", ".", "io">>)
Binding == Doc(Rbac, "RoleBinding", <<"n">>, <<"app", ".", "io">>)
Custom == Doc(<<"io", "/", "v1">>, "Custom", <<>>, <<"app">>)

With(text, docs, reads) == [text |-> text, docs |-> docs, reads |-> reads]

\* A template that includes one the walk comes to later, and plain files.
Plain ==
    (Template(1, "yaml") :> With("t1", <<Blank, Deployment, Namespace>>,
                                 {Template(2, "txt"), File(3, "txt")})) @@
    (Template(2, "txt") :> With("t2", <<Junk>>, {})) @@
    (File(3, "txt") :> With("t3", <<Junk>>, {})) @@
    (File(4, "yaml") :> With("t4", <<ConfigMap, Dotted>>, {}))

\* A template that includes what another has expanded to, with what that
\* one includes; an include of a template that is gone by then fails.
Chained(name) ==
    (Template(1, "txt") :> With("t5", <<Junk>>, {File(2, "txt")})) @@
    (File(2, "txt") :> With("t6", <<Junk>>, {})) @@
    (Template(3, "yaml") :> With("t7", <<Binding, Dotted, Role>>, {name}))

\* An included file that kubectl reads, but GetManifests does not, and that is
\* not a manifest; comments alone in another such file.
WithJunk ==
    (Template(1, "yaml") :> With("t8", <<Deployment, Binding>>, {File(2, "json")})) @@
    (File(2, "json") :> With("t9", <<Junk>>, {})) @@
    (File(3, "yml") :> With("t10", <<Blank>>, {}))

Bumped == (File(1, "yaml") :> With("t11", <<Newer, Role>>, {}))

\* A kind that the API server does not know.
Unlisted == (File(1, "yaml") :> With("t12", <<Custom, ConfigMap>>, {}))

MCSources == {Plain, Chained(File(1, "txt")), Chained(Template(1, "txt")),
              WithJunk, Bumped, Unlisted}
MCNeeds ==
    {<<"Namespace", "Deployment">>, <<"Namespace", "ConfigMap">>,
     <<"Namespace", "Role">>, <<"Namespace", "RoleBinding">>,
     <<"ConfigMap", "Deployment">>, <<"Role", "RoleBinding">>}

Listed(group, kind, resource, sub) ==
    [group |-> group, kind |-> kind, resource |-> resource, sub |-> sub]

\* The list of an API server: the versions of a group follow each other, and
\* a subresource stands behind its resource.
MCApiResources == <<
    Listed(<<>>, "ConfigMap", "configmaps", ""),
    Listed(<<>>, "Namespace", "namespaces", ""),
    Listed(<<>>, "Namespace", "namespaces", "status"),
    Listed(<<"app">>, "Deployment", "deployments", ""),
    Listed(<<"app">>, "Scale", "deployments", "scale"),
    Listed(<<"app">>, "Deployment", "deployments", "status"),
    Listed(<<"app">>, "Deployment", "deployments", ""),
    Listed(<<"app">>, "Scale", "deployments", "scale"),
    Listed(<<"app">>, "Deployment", "deployments", "status"),
    Listed(<<"rbac", ".", "io">>, "RoleBinding", "rolebindings", ""),
    Listed(<<"rbac", ".", "io">>, "Role", "roles", "") >>

=============================================================================
