-------------------------- MODULE MCPodEnvironment --------------------------
EXTENDS PodEnvironment
MCNameChars == {"A", "B", "_", "SERVICE", "PORT", "HOST"}
MCUpper == [c \in {"a", "-", "service", "kubernetes", "x", "tcp", "udp"} |->
              CASE c = "a" -> "A" [] c = "-" -> "_" [] c = "service" -> "SERVICE"
                [] c = "kubernetes" -> "KUBERNETES" [] c = "x" -> "X"
                [] c = "tcp" -> "TCP" [] c = "udp" -> "UDP"]
TextChars == {"$", "(", ")", "B"}
MCChars == TextChars \cup {"A", "_", ":", "/", "SERVICE", "HOST", "PORT", "PROTO", "ADDR", "p", "u", "v", "w",
                          "10.0.0.1", "10.0.0.2", "10.0.0.3", "10.0.0.4", "10.0.0.9", "53", "80"}
             \cup DOMAIN MCUpper \cup {MCUpper[c] : c \in DOMAIN MCUpper} \cup FieldPaths

(* "both" has a key that is no name; either may be missing. *)
Both == <<"A">> :> <<"v">> @@ <<"B", "A">> :> <<"w">> @@ <<"-">> :> <<"w">>
One == <<"A">> :> <<"$", "(", "A", ")">> @@ <<"B">> :> <<>>
MCCaches == {[both |-> Both, one |-> One], [one |-> One], [both |-> One]}

Ref(object, prefix, optional) ==
    [object |-> object, prefix |-> prefix, optional |-> optional]
Entry(name, from, value, object, key, optional) ==
    [name |-> name, from |-> from, value |-> value, object |-> object,
     key |-> key, optional |-> optional]
Plain(name, value) == Entry(name, "value", value, "", <<>>, FALSE)
Key(name, object, key, optional) == Entry(name, "keyRef", <<>>, object, key, optional)
Field(name, path) == Entry(name, "fieldRef", <<>>, path, <<>>, FALSE)
Resource(name) == Entry(name, "resourceFieldRef", <<>>, "", <<>>, FALSE)
UpTo(n, S) == UNION {[1..k -> S] : k \in 0..n}

(* Every text of at most four characters, after a variable it may name. *)
TextPods == {<<[envFrom |-> <<Ref("both", <<>>, FALSE)>>,
                env |-> <<Plain(<<"B">>, <<"u">>), Plain(<<"A">>, t)>>]>> :
               t \in UpTo(4, TextChars)}
(* Every pair of a few references and entries, with the name of a service's  *)
(* variable among them, before a container without any.                       *)
Refs == {Ref("both", <<>>, TRUE), Ref("one", <<"B">>, FALSE)}
Port == <<"A", "_", "SERVICE", "_", "PORT">>
Items == {Plain(<<"A">>, <<"$", "(", "A", ")">>),
          Plain(<<"B">>, <<"$", "(">> \o Port \o <<")">>),
          Plain(Port, <<"p">>),
          Key(<<"A">>, "both", <<"A">>, FALSE), Key(<<"B">>, "one", <<"B">>, TRUE),
          Field(<<"A">>, "spec.host"), Field(<<"B">>, "status.phase"), Field(<<"B">>, "metadata.name"),
          Resource(<<"A">>)}
OrderPods == {<<[envFrom |-> r, env |-> e], [envFrom |-> <<>>, env |-> <<>>]>> :
                r \in {<<>>} \cup {p \in Refs \X Refs : p[1] # p[2]},
                e \in Items \X Items}
MCPods == TextPods \cup OrderPods

(* A master service and one of its name in the pod's namespace, two services  *)
(* whose variables share a name, one without an address, one elsewhere.       *)
OnePort(name, port, protocol) == [name |-> name, port |-> port, protocol |-> protocol]
MCServices ==
    {[name |-> <<"kubernetes">>, namespace |-> "default", ip |-> "10.0.0.1",
      ports |-> <<OnePort(<<>>, "80", "tcp")>>],
     [name |-> <<"kubernetes">>, namespace |-> "ns", ip |-> "10.0.0.9",
      ports |-> <<OnePort(<<>>, "80", "tcp")>>],
     [name |-> <<"a">>, namespace |-> "ns", ip |-> "10.0.0.2",
      ports |-> <<OnePort(<<"x">>, "53", "udp"), OnePort(<<"a">>, "53", "tcp")>>],
     [name |-> <<"a", "-", "service">>, namespace |-> "ns", ip |-> "10.0.0.3",
      ports |-> <<OnePort(<<>>, "80", "tcp")>>],
     [name |-> <<"x">>, namespace |-> "ns", ip |-> None,
      ports |-> <<OnePort(<<>>, "80", "tcp")>>],
     [name |-> <<"x">>, namespace |-> "other", ip |-> "10.0.0.4",
      ports |-> <<OnePort(<<>>, "80", "tcp")>>]}
MCFields == [p \in FieldPaths |-> <<p>>]
=============================================================================
