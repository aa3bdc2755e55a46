--------------------------- MODULE PodEnvironment ---------------------------
(***************************************************************************)
(* PopulateEnvironmentVariables of internal/podutils/env.go, with          *)
(* envvars.go and helper.go: the environment of each container of a pod,   *)
(* from config maps and secrets (envFrom), from its own entries (env), and *)
(* from the services of the cluster.  The listers of the resource manager  *)
(* answer from caches, which change while the pod is being worked on.      *)
(*                                                                         *)
(* A name or value is a sequence of characters, of which one may stand for *)
(* a word that is never taken apart.  Config maps and secrets are both     *)
(* objects: the code treats them alike.                                    *)
(***************************************************************************)
EXTENDS Expansion, FiniteSets

CONSTANTS
    Pods,        \* the pods handed in: sequences of containers
    Caches,      \* states of the listers: objects by name, those absent not in the domain
    Services,    \* the services listed: [name, namespace, ip, ports]
    Namespace,   \* the namespace of the pod
    Links,       \* values of enableServiceLinks
    Chars,       \* the characters of names and values
    NameChars,   \* those an environment variable's name may have
    Upper,       \* a character in upper case
    Fields,      \* the fields of the pod that can be read, by path
    MaxChanges,  \* bound: changes of the cache
    None

Text == Seq(Chars)

(* What Kubernetes accepts as the name of a variable; what a service or a port *)
(* may be called.                                                             *)
Name == {t \in Text : referenceCloser \notin Range(t)}
Label == Seq(DOMAIN Upper)

ContainerSpecs ==
    [envFrom : Seq([object : STRING, prefix : Text, optional : BOOLEAN]),
     env : Seq([name : Name, from : STRING, value : Text, object : STRING, key : Text,
                optional : BOOLEAN])]
Ports == [name : Label, port : Chars \ {referenceCloser}, protocol : DOMAIN Upper]

(* The fields of a pod that can be read. *)
metadataPaths == {"metadata." \o f : f \in {"annotations", "labels", "name", "namespace", "uid"}}
FieldPaths == {"spec.nodeName", "spec.serviceAccountName"} \cup metadataPaths

ASSUME TextAssumption ==
    /\ {operator, referenceOpener, referenceCloser} \subseteq Chars
    /\ {"_", ":", "/", "SERVICE", "HOST", "PORT", "PROTO", "ADDR"} \subseteq Chars
    /\ referenceCloser \notin NameChars /\ None \notin Text
    /\ \A c \in DOMAIN Upper : c \in Chars /\ Upper[c] \in Chars \ {referenceCloser}

ASSUME PodAssumption ==
    /\ \A p \in Pods : p \in Seq(ContainerSpecs) /\ p # <<>>
    /\ \A c \in Caches : \A o \in DOMAIN c : \A k \in DOMAIN c[o] : k \in Text /\ c[o][k] \in Text
    /\ Fields \in [FieldPaths -> Text]
    /\ MaxChanges \in Nat /\ Links \subseteq BOOLEAN

ASSUME ServiceAssumption ==
    /\ IsFiniteSet(Services)
    /\ \A s \in Services : /\ s.name \in Label /\ s.namespace \in STRING /\ s.ip \in Chars \cup {None}
                           /\ s.ports \in Seq(Ports) /\ s.ports # <<>>

VARIABLES
    pod,       \* the pod as it was handed in
    links,     \* its enableServiceLinks
    cache,     \* what the listers know
    changes,   \* how often that has changed
    phase,     \* what PopulateEnvironmentVariables does
    idx,       \* the container it works on
    seen,      \* the cache at each of the look-ups made for that container
    res,       \* the map of the environment being made
    svcEnv,    \* the variables of the services
    done       \* the environments of the containers finished so far

vars == <<pod, links, cache, changes, phase, idx, seen, res, svcEnv, done>>

(* Go maps: variables written into an environment, and one after the other of *)
(* several environments.                                                      *)
Variable(name, value) == [n \in {name} |-> value]
Put(env, new) == [n \in DOMAIN env \cup DOMAIN new |-> IF n \in DOMAIN new THEN new[n] ELSE env[n]]
PutAll(envs) == [n \in UNION {DOMAIN envs[i] : i \in DOMAIN envs} |->
                   envs[Max({i \in DOMAIN envs : n \in DOMAIN envs[i]})][n]]

Init == /\ pod \in Pods /\ links \in Links
        /\ cache \in Caches /\ changes = 0
        /\ phase = "envFrom" /\ idx = 1
        /\ seen = <<>> /\ res = << >> /\ svcEnv = << >>
        /\ done = <<>>

(* An informer brings news. *)
Change == /\ changes < MaxChanges /\ phase \notin {"returned", "failed"}
          /\ changes' = changes + 1
          /\ \E c \in Caches : c # cache /\ cache' = c
          /\ UNCHANGED <<pod, links, phase, idx, seen, res, svcEnv, done>>

Container == pod[idx]
Fail == phase' = "failed" /\ UNCHANGED <<idx, res, svcEnv, done>>

-----------------------------------------------------------------------------
(* makeEnvironmentMapBasedOnEnvFrom *)

(* apivalidation.IsEnvVarName *)
IsEnvVarName(name) == name # <<>> /\ Range(name) \subseteq NameChars

(* The variables an object gives: its keys with the prefix, if they are names. *)
Given(data, prefix) ==
    LET keys == {k \in DOMAIN data : IsEnvVarName(prefix \o k)}
    IN  [n \in {prefix \o k : k \in keys} |->
           data[CHOOSE k \in keys : n = prefix \o k]]

(* Mutant: what an earlier reference gave is not overwritten. *)
FirstReferenceWins ==
    LET ref == Container.envFrom[Len(seen) + 1]
    IN  /\ phase = "envFrom" /\ Len(seen) < Len(Container.envFrom)
        /\ seen' = Append(seen, cache)
        /\ CASE ref.object \in DOMAIN cache ->
                  /\ res' = Put(Given(cache[ref.object], ref.prefix), res)
                  /\ UNCHANGED <<phase, idx, svcEnv, done>>
             [] ref.object \notin DOMAIN cache /\ ref.optional ->
                  UNCHANGED <<phase, idx, res, svcEnv, done>>
             [] OTHER -> Fail
        /\ UNCHANGED <<pod, links, cache, changes>>

(* The next reference: an object that cannot be read is passed over when it   *)
(* is optional.                                                               *)
EnvFrom ==
    LET ref == Container.envFrom[Len(seen) + 1]
    IN  /\ phase = "envFrom" /\ Len(seen) < Len(Container.envFrom)
        /\ seen' = Append(seen, cache)
        /\ CASE ref.object \in DOMAIN cache ->
                  /\ res' = Put(res, Given(cache[ref.object], ref.prefix))
                  /\ UNCHANGED <<phase, idx, svcEnv, done>>
             [] ref.object \notin DOMAIN cache /\ ref.optional ->
                  UNCHANGED <<phase, idx, res, svcEnv, done>>
             [] OTHER -> Fail
        /\ UNCHANGED <<pod, links, cache, changes>>

-----------------------------------------------------------------------------
(* The services. *)

makeEnvVariableName(str) == [i \in DOMAIN str |-> Upper[str[i]]]

Under(name, suffix) == name \o <<"_", suffix>>
URL(s, p) == <<p.protocol, ":", "/", "/", s.ip, ":", p.port>>

(* The variables of one port in the manner of Docker. *)
PortLinks(s, p) ==
    LET prefix == Under(Under(Under(makeEnvVariableName(s.name), "PORT"), p.port), Upper[p.protocol])
    IN  PutAll(<<Variable(prefix, URL(s, p)), Variable(Under(prefix, "PROTO"), <<p.protocol>>),
                 Variable(Under(prefix, "PORT"), <<p.port>>), Variable(Under(prefix, "ADDR"), <<s.ip>>)>>)

makeLinkVariables(s) ==
    PutAll(<<Variable(Under(makeEnvVariableName(s.name), "PORT"), URL(s, s.ports[1]))>>
             \o [i \in DOMAIN s.ports |-> PortLinks(s, s.ports[i])])

(* FromServices for one service: the variables of the first port, of each port *)
(* that has a name, and the links.                                            *)
NamedPort(service, p) ==
    IF p.name = <<>> THEN << >>
    ELSE Variable(Under(service, "PORT") \o <<"_">> \o makeEnvVariableName(p.name), <<p.port>>)
FromService(s) ==
    LET service == Under(makeEnvVariableName(s.name), "SERVICE")
    IN  PutAll(<<Variable(Under(service, "HOST"), <<s.ip>>),
                 Variable(Under(service, "PORT"), <<s.ports[1].port>>)>>
                 \o [i \in DOMAIN s.ports |-> NamedPort(service, s.ports[i])]
                 \o <<makeLinkVariables(s)>>)

IsServiceIPSet(s) == s.ip # None
masterServices == {<<"kubernetes">>}
IsMaster(s) == s.namespace = "default" /\ s.name \in masterServices

(* The services whose variables a pod sees.  Of two with one name, a master   *)
(* service gives way to one of the pod's namespace.                           *)
serviceMap ==
    LET seenByPod == {s \in Services : /\ IsServiceIPSet(s)
                                       /\ IsMaster(s) \/ (s.namespace = Namespace /\ links)}
    IN  {s \in seenByPod : ~\E t \in seenByPod : t # s /\ t.name = s.name /\ IsMaster(s)}

(* Their variables are put into one map in the order in which Go goes through *)
(* a map, which is any.                                                       *)
ServiceEnvs == {PutAll([i \in DOMAIN order |-> FromService(order[i])]) :
                  order \in SetToSeqs(serviceMap)}

getServiceEnvVarMap ==
    /\ phase = "envFrom" /\ Len(seen) = Len(Container.envFrom)
    /\ svcEnv' \in ServiceEnvs
    /\ phase' = "env"
    /\ UNCHANGED <<pod, links, cache, changes, idx, seen, res, done>>

-----------------------------------------------------------------------------
(* makeEnvironmentMap *)

(* The labels a pod of version v1 accepts, without subscripts, and of those    *)
(* the fields that can be read.                                               *)
ConvertDownwardAPIFieldLabel(label) ==
    CASE label = "spec.host" -> "spec.nodeName"
      [] label \in {"spec.nodeName", "spec.restartPolicy", "spec.serviceAccountName",
                    "spec.schedulerName"}
           \cup metadataPaths
           \cup {"status." \o f : f \in {"phase", "hostIP", "podIP", "podIPs"}} -> label
      [] OTHER -> None
ExtractFieldPathAsString(path) ==
    IF path \in metadataPaths THEN Fields[path] ELSE None

(* podFieldSelectorRuntimeValue *)
FieldValue(label) ==
    LET path == ConvertDownwardAPIFieldLabel(label)
    IN  IF path \in {"spec.nodeName", "spec.serviceAccountName"} THEN Fields[path]
        ELSE ExtractFieldPathAsString(path)

(* getEnvironmentVariableValue: the value of entry e; None when there is none *)
(* and the entry is passed over.                                              *)
KeyExists(objects, e) == e.object \in DOMAIN objects /\ e.key \in DOMAIN objects[e.object]
Value(e, objects, env, services) ==
    CASE e.from = "value" -> Expand(e.value, env, services)
      [] e.from = "keyRef" /\ KeyExists(objects, e) -> objects[e.object][e.key]
      [] e.from = "fieldRef" -> FieldValue(e.object)
      [] OTHER -> None

(* A key or a field that must be there is not. *)
Missing(e, objects) == \/ e.from = "keyRef" /\ ~KeyExists(objects, e) /\ ~e.optional
                       \/ e.from = "fieldRef" /\ FieldValue(e.object) = None

Env ==
    LET e == Container.env[Len(seen) - Len(Container.envFrom) + 1]
        value == Value(e, cache, res, svcEnv)
    IN  /\ phase = "env" /\ Len(seen) - Len(Container.envFrom) < Len(Container.env)
        /\ seen' = Append(seen, cache)
        /\ IF Missing(e, cache) THEN Fail
           ELSE /\ res' = IF value = None THEN res ELSE Put(res, Variable(e.name, value))
                /\ UNCHANGED <<phase, idx, svcEnv, done>>
        /\ UNCHANGED <<pod, links, cache, changes>>

Finished == phase = "env" /\ Len(seen) = Len(Container.envFrom) + Len(Container.env)

NextContainer ==
    /\ phase' = IF idx = Len(pod) THEN "returned" ELSE "envFrom"
    /\ idx' = IF idx = Len(pod) THEN idx ELSE idx + 1
    /\ seen' = <<>> /\ res' = << >> /\ svcEnv' = << >>
    /\ UNCHANGED <<pod, links, cache, changes>>

(* Mutant: the services' variables replace the container's. *)
FinishServicesFirst ==
    /\ Finished
    /\ done' = Append(done, [container |-> Container, seen |-> seen, svcEnv |-> svcEnv,
                             env |-> Put(res, svcEnv)])
    /\ NextContainer

(* The services' variables are added where there is none of the name, and the *)
(* container's environment is replaced by the map.                            *)
Finish ==
    /\ Finished
    /\ done' = Append(done, [container |-> Container, seen |-> seen, svcEnv |-> svcEnv,
                             env |-> Put(svcEnv, res)])
    /\ NextContainer

Next == Change \/ EnvFrom \/ getServiceEnvVarMap \/ Env \/ Finish

Spec == Init /\ [][Next]_vars

-----------------------------------------------------------------------------
(* The environment a finished container d should have, by who gives each name *)
(* its value and not by the order of writing.                                 *)

References(d) == DOMAIN d.container.envFrom
Entries(d) == DOMAIN d.container.env

(* What reference i gave, and whether entry j gave anything, when looked up.  *)
GivenBy(d, i) ==
    LET ref == d.container.envFrom[i]
    IN  IF ref.object \in DOMAIN d.seen[i]
        THEN Given(d.seen[i][ref.object], ref.prefix) ELSE << >>
SeenBy(d, j) == d.seen[Len(d.container.envFrom) + j]
Gives(d, j) == LET e == d.container.env[j]
               IN  \/ e.from \in {"value", "fieldRef"}
                   \/ e.from = "keyRef" /\ KeyExists(SeenBy(d, j), e)

(* The container's own variables after k entries: a name's last entry that     *)
(* gives a value, which may refer to what stood before it; without one, the   *)
(* last reference that gives the name.                                        *)
Own(d) ==
    LET after[k \in {0} \cup Entries(d)] ==
          LET entries(n) == {j \in 1..k : d.container.env[j].name = n /\ Gives(d, j)}
              refs(n) == {i \in References(d) : n \in DOMAIN GivenBy(d, i)}
              names == {d.container.env[j].name : j \in {j \in 1..k : Gives(d, j)}}
                         \cup UNION {DOMAIN GivenBy(d, i) : i \in References(d)}
          IN  [n \in names |->
                 IF entries(n) # {}
                 THEN LET j == Max(entries(n))
                      IN  Value(d.container.env[j], SeenBy(d, j), after[j - 1], d.svcEnv)
                 ELSE GivenBy(d, Max(refs(n)))[n]]
    IN  after[Len(d.container.env)]

(* The containers are finished in the order of the pod, and whatever the      *)
(* caches learn in between, each environment has the container's own          *)
(* variables, and of the services' only those of other names; no container    *)
(* sees a variable of another.                                                *)
EnvironmentIsReference ==
    \A i \in DOMAIN done :
        LET d == done[i]
            own == Own(d)
        IN  /\ d.container = pod[i]
            /\ DOMAIN d.env = DOMAIN own \cup DOMAIN d.svcEnv
            /\ \A n \in DOMAIN d.env :
                 d.env[n] = IF n \in DOMAIN own THEN own[n] ELSE d.svcEnv[n]

(* Doubling the operators of a text keeps Expand from changing it, and a      *)
(* reference between two such texts is replaced by the variable's value, or   *)
(* left as it is when there is no such variable.  The texts are the values of *)
(* the container, the variables those that it has so far.                     *)
Escape(text) == FlattenSeq([i \in DOMAIN text |->
                              IF text[i] = operator THEN <<operator, operator>> ELSE <<text[i]>>])
ReferencesAreReplaced ==
    phase = "env" =>
        LET texts == {e.value : e \in Range(Container.env)}
            names == DOMAIN res \cup DOMAIN svcEnv
                       \cup {t \in texts : referenceCloser \notin Range(t)}
        IN  \A before, after \in texts, n \in names :
              Expand(Escape(before) \o syntaxWrap(n) \o Escape(after), res, svcEnv)
                = before \o Mapping(res, svcEnv, n) \o after
=============================================================================
