----------------------------- MODULE MCProvisioning -----------------------------
(***************************************************************************)
(* Instance of Provisioning: files that are right but for one or two parts *)
(* that vary together (the certificate with the mode; the Tunnels; the     *)
(* bind addresses and the proxy; the Services with the certificate; the    *)
(* Server addresses with the command line), on disks with and without the  *)
(* default directories.                                                    *)
(***************************************************************************)
EXTENDS Provisioning

MCStrings == STRING

Text(name, spelling) == [name |-> name, spelling |-> spelling]
Texts == {Text("a", "lower"), Text("a", "upper"), Text("b", "lower"), Text("bad", "lower")}
Up2(S) == {<<>>} \cup {<<x>> : x \in S} \cup {<<x, y>> : x, y \in S}
One(x) == <<x>>

Acmes == {NULL} \cup [email : {NULL, "empty", "e"}, dir : {NULL, "missing", "d1"}]
Controls == {NULL} \cup [address : {NULL, "bad", "c"}, trust : {NULL, "ca-file", "other"}, caFile : {NULL, "ca"}]
Envs == {[home |-> TRUE, disk |-> {"d1", "d2", "ca", "default-cert", "default-identity", "default-public"},
          valid |-> {"d1", "d2", "default-cert", "default-identity"},
          identityFiles |-> {"d1", "default-identity"} \X IdentityParts,
          leaves |-> {<<"d1", "a">>, <<"d1", "b">>, <<"default-public", "a">>}],
         [home |-> TRUE, disk |-> {"d1", "d2"}, valid |-> {"d1"},
          identityFiles |-> {<<"d1", "client.crt">>}, leaves |-> {}],
         [home |-> FALSE, disk |-> {"d1", "d2", "ca"}, valid |-> {"d1", "d2"},
          identityFiles |-> {"d1"} \X IdentityParts, leaves |-> {<<"d1", "b">>}]}
GoodEnv == CHOOSE e \in Envs : "default-cert" \in e.disk

Cli == [hostname |-> NULL, control |-> NULL, addresses |-> <<>>, backend |-> NULL]
Tunnel == [hostnames |-> One(Text("a", "lower")), identity |-> "i", identities |-> NULL]
Server == [hostname |-> Text("s", "lower"), binds |-> [one |-> NULL, many |-> NULL], readiness |-> NULL, duration |-> NULL,
           proxy |-> NULL, networks |-> NULL, certDir |-> NULL, acme |-> NULL, identityDir |-> NULL,
           tunnels |-> One(Tunnel), unknown |-> FALSE]
ServerInput(server, control, cli, env) ==
  [role |-> "server", cli |-> cli, env |-> env,
   file |-> [parses |-> TRUE, server |-> server, client |-> NULL, control |-> control]]

CertificateInputs ==
  {ServerInput([Server EXCEPT !.certDir = d, !.acme = a, !.identityDir = i, !.tunnels = t],
               c, [Cli EXCEPT !.control = cc], e) :
     d \in {NULL, "d1"}, a \in Acmes, i \in {NULL, "d1", "d2"}, t \in {<<>>, One(Tunnel)},
     c \in {NULL, [address |-> "c", trust |-> NULL, caFile |-> NULL]}, cc \in {NULL, "c"}, e \in Envs}
ControlInputs ==
  {ServerInput([Server EXCEPT !.tunnels = t], c, [Cli EXCEPT !.control = cc], e) :
     t \in {<<>>, One(Tunnel)}, c \in Controls, cc \in {NULL, "c"}, e \in Envs}
Tunnels == [hostnames : {NULL} \cup Up2(Texts \cup {Text("s", "upper")}), identity : {NULL, "bad", "i"},
            identities : {NULL, <<>>, <<"j">>, <<"i", "j">>, <<"j", "bad">>, <<"j", "j">>}]
TunnelInputs ==
  {ServerInput([Server EXCEPT !.tunnels = <<t>>], NULL, Cli, GoodEnv) : t \in Tunnels}
  \cup {ServerInput([Server EXCEPT !.hostname = h, !.tunnels = <<t, u>>], NULL, [Cli EXCEPT !.hostname = o], GoodEnv) :
          h \in {NULL, Text("bad", "lower"), Text("s", "upper")}, o \in {NULL, Text("b", "upper")},
          t \in {[hostnames |-> h1, identity |-> i, identities |-> NULL] : h1 \in Up2(Texts), i \in {"i", "j"}}, u \in {Tunnel}}
BindInputs ==
  {ServerInput([Server EXCEPT !.binds = [one |-> o, many |-> m], !.readiness = r, !.duration = d, !.proxy = p, !.networks = n],
               NULL, Cli, GoodEnv) :
     o \in {NULL, "bad", "x"}, m \in {NULL} \cup Up2({"x", "y", "bad"}) \cup {<<"x", "y", "z">>}, d \in {NULL, "bad"},
     r \in {NULL, "bad", "x"}, p \in {NULL, "v2", "other"}, n \in {NULL, <<>>, <<"n">>, <<"n", "bad">>}}

Service == [hostnames |-> One(Text("a", "lower")), backend |-> "k", tls |-> NULL, proxy |-> NULL]
Client == [EmptyClient EXCEPT !.address = Text("a", "lower"), !.services = One(Service)]
ClientInput(client, control, cli, env) ==
  [role |-> "client", cli |-> cli, env |-> env,
   file |-> [parses |-> TRUE, server |-> NULL, client |-> client, control |-> control]]

Services == [hostnames : {NULL, <<>>, <<Text("a", "upper")>>, <<Text("b", "lower"), Text("a", "lower")>>, <<Text("bad", "lower")>>},
             backend : {"k", "bad"}, tls : {NULL, "terminate", "other"}, proxy : {NULL}]
ServiceInputs ==
  {ClientInput([Client EXCEPT !.services = s, !.publicDir = d, !.acme = a], NULL, [Cli EXCEPT !.backend = b], e) :
     s \in Up2({v \in Services : v.backend = "k"}) \cup {<<v>> : v \in Services}, d \in {NULL, "d1"},
     a \in {NULL, [email |-> "e", dir |-> NULL], [email |-> "empty", dir |-> NULL]}, b \in {NULL, "k"}, e \in Envs}
AddressInputs ==
  {ClientInput(cl, c, [Cli EXCEPT !.addresses = ca, !.control = cc, !.backend = b], GoodEnv) :
     cl \in {NULL} \cup {[Client EXCEPT !.address = o, !.addresses = m, !.services = s] :
                           o \in {NULL} \cup Texts, m \in {NULL} \cup Up2(Texts), s \in {<<>>, One(Service)}},
     c \in {NULL, [address |-> NULL, trust |-> NULL, caFile |-> NULL], [address |-> "c", trust |-> NULL, caFile |-> NULL]},
     ca \in {<<>>, <<Text("b", "lower")>>, <<Text("b", "lower"), Text("a", "lower")>>, <<Text("a", "lower"), Text("a", "upper")>>},
     cc \in {NULL, "c"}, b \in {NULL, "k"}}
ClientInputs ==
  {ClientInput([Client EXCEPT !.capacity = n, !.duration = d, !.trust = t, !.caFile = f, !.identityDir = i], NULL, Cli, e) :
     n \in {NULL, 0, 1, 3, 4}, d \in {NULL, "bad"}, t \in {NULL, "system", "ca-file", "other"}, f \in {NULL, "ca"},
     i \in {NULL, "d1", "missing"}, e \in Envs}
NoSections == {[role |-> r, cli |-> [Cli EXCEPT !.addresses = One(Text("a", "lower")), !.backend = b], env |-> GoodEnv, file |-> f] :
             r \in {"server", "client"}, b \in {NULL, "k"},
             f \in {NULL, [parses |-> FALSE, server |-> NULL, client |-> NULL, control |-> NULL],
                    [parses |-> TRUE, server |-> NULL, client |-> NULL, control |-> NULL]}}

MCInputs == {CertificateInputs, ControlInputs, TunnelInputs, BindInputs,
             ServiceInputs, AddressInputs, ClientInputs, NoSections}
================================================================================
