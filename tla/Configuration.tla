----------------------------- MODULE Configuration -----------------------------
(***************************************************************************)
(* How `runewarp server` and `runewarp client` turn a config file and the  *)
(* command line into a configuration (src/src/config): preparation picks   *)
(* what the command line overrides and what defaults fill in, validation   *)
(* collects one message per fault and accepts what has none, and startup   *)
(* checks what it was given once more with code of its own, and loads the  *)
(* certificates the Client's Services terminate with.                      *)
(*                                                                         *)
(* A text the parsers refuse is "bad".  Hostnames have a spelling that     *)
(* parsing normalises away.  Messages are the names of the faults.  The    *)
(* public and the Tunnel bind addresses are treated alike: one pair stands *)
(* for both.  Unknown fields of every section are one flag.  A state       *)
(* directory that cannot be created and an address that cannot be bound    *)
(* are left out: they end the process as any I/O error does.               *)
(***************************************************************************)
EXTENDS Naturals, Sequences, FiniteSets, SequencesExt

CONSTANTS
  NULL,                \* an absent field
  Strings,             \* the texts, names and paths a field may hold
  Inputs,              \* families of files, command lines and disks that are tried
  MaxServerAddresses,  \* MAX_CLIENT_SERVER_ADDRESSES
  MaxBinds,            \* the most bind addresses of one kind
  MinCapacity, DefaultCapacity, MaxCapacity  \* of client.max-visitor-streams

\* A field that may be absent, a text that is parsed as a hostname, and what
\* the file, the command line and the disk hold.
Opt(values) == {NULL} \cup values
Spelled == [name : Strings, spelling : Strings]
AcmeSection == [email : Opt(Strings), dir : Opt(Strings)]
ControlSection == [address : Opt(Strings), trust : Opt(Strings), caFile : Opt(Strings)]
BindSection == [one : Opt(Strings), many : Opt(Seq(Strings))]
TunnelSection ==
  [hostnames : Opt(Seq(Spelled)), identity : Opt(Strings), identities : Opt(Seq(Strings))]
ServerSection ==
  [hostname : Opt(Spelled), binds : BindSection, readiness : Opt(Strings), duration : Opt(Strings),
   proxy : Opt(Strings), networks : Opt(Seq(Strings)), certDir : Opt(Strings),
   acme : Opt(AcmeSection), identityDir : Opt(Strings), tunnels : Seq(TunnelSection), unknown : BOOLEAN]
ServiceSection ==
  [hostnames : Opt(Seq(Spelled)), backend : Opt(Strings), tls : Opt(Strings), proxy : Opt(Strings)]
ClientSection ==
  [capacity : Opt(Nat), duration : Opt(Strings), address : Opt(Spelled), addresses : Opt(Seq(Spelled)),
   trust : Opt(Strings), caFile : Opt(Strings), identityDir : Opt(Strings), publicDir : Opt(Strings),
   acme : Opt(AcmeSection), services : Seq(ServiceSection), unknown : BOOLEAN]
ConfigFile ==
  [parses : BOOLEAN, server : Opt(ServerSection), client : Opt(ClientSection), control : Opt(ControlSection)]
CommandLine == [hostname : Opt(Spelled), control : Opt(Strings), addresses : Seq(Spelled), backend : Opt(Strings)]
\* The disk: the paths that exist, the directories whose Server material is
\* valid, the files of a Client identity, and the hostnames whose leaf and key
\* load from a directory of public certificates.
IdentityParts == {"client.crt", "client.key", "client-identity.txt"}
Environment ==
  [home : BOOLEAN, disk : SUBSET Strings, valid : SUBSET Strings,
   identityFiles : SUBSET (Strings \X IdentityParts), leaves : SUBSET (Strings \X Strings)]
Input == [role : {"server", "client"}, file : Opt(ConfigFile), cli : CommandLine, env : Environment]

ASSUME ConfigAssumption ==
  /\ \A family \in Inputs : family \subseteq Input
  /\ MaxServerAddresses \in Nat \ {0} /\ MaxBinds \in Nat \ {0}
  /\ {"bad", "empty", "system", "ca-file", "v2", "passthrough", "terminate", "60s", "default-bind",
      "unexpected", "invalid", "unresolved"} \subseteq Strings
  /\ {"default-cert", "default-public", "default-acme", "default-identity",
      "default-ca", "default-control-ca"} \subseteq Strings
\* An absent field is nothing that a file holds or validation builds.
ASSUME NullAssumption ==
  /\ NULL \notin Strings \cup Spelled \cup AcmeSection \cup ControlSection \cup ServerSection \cup ClientSection
  /\ NULL \notin Nat /\ NULL \notin Seq(Strings) /\ NULL \notin Seq(Spelled)
  /\ NULL \notin [kind : {"manual", "acme"}, dir : Strings]
  /\ NULL \notin [address : Strings, trust : Strings]
  /\ NULL \notin [hostnames : Seq(Strings), identities : Seq(Strings)]
  /\ NULL \notin [hostnames : Opt(Seq(Strings)), tls : {"passthrough", "terminate"}]

VARIABLES
  input,      \* [role, file, cli, env], or NULL when nothing is resolved
  resolution, \* "raw", "prepared", "rejected", "panicked", "accepted", "refused" or "started"
  prepared,   \* the prepared configuration, NULL before
  settings    \* the accepted configuration, NULL before

configVars == <<input, resolution, prepared, settings>>

-----------------------------------------------------------------------------
\* Texts, paths and faults

OrElse(a, b) == IF a # NULL THEN a ELSE b
Fault(holds, name) == IF holds THEN {name} ELSE {}
\* A field no section knows is a fault of its own.
UnknownFaults(p) == Fault(p.unknown, "unknown")
\* filter_map: the values that could be built
Known(values) == FlattenSeq([i \in DOMAIN values |-> IF values[i] = NULL THEN <<>> ELSE <<values[i]>>])
Distinct(values) == Cardinality(ToSet(values)) = Len(values)

Parsed(text) == IF text = "bad" THEN NULL ELSE text
ParsedHostname(text) == IF text.name = "bad" THEN NULL ELSE text.name
ParsedAll(texts) == [i \in DOMAIN texts |-> Parsed(texts[i])]
ParsedHostnames(texts) == [i \in DOMAIN texts |-> ParsedHostname(texts[i])]

\* A default path cannot be resolved without a home directory.
DefaultPath(env, path) == IF env.home THEN path ELSE "unresolved"
Existing(env, path) == IF path \in env.disk THEN path ELSE NULL
PathFaults(env, path, field) == Fault(path # NULL /\ path \notin env.disk, field)

\* [control].trust and client.server-trust
PreparedTrust(mode, file, default) ==
  CASE mode \in {NULL, "system"} -> IF file = NULL THEN "system" ELSE "unexpected"
    [] mode = "ca-file"          -> OrElse(file, default)
    [] OTHER                     -> "invalid"
TrustOf(trust, env) == IF trust = "system" THEN trust ELSE Existing(env, trust)
TrustFaults(trust, env, field) == Fault(TrustOf(trust, env) = NULL, field)

\* The command line's Control address wins over the file's, and stands alone
\* when the file has no [control].
PreparedControl(file, cli, env) ==
  LET section == file # NULL /\ file.control # NULL
  IN  [section |-> section,
       address |-> IF section THEN OrElse(cli.control, file.control.address) ELSE cli.control,
       trust   |-> IF section THEN PreparedTrust(file.control.trust, file.control.caFile,
                                                 DefaultPath(env, "default-control-ca"))
                   ELSE "system"]
Managed(p) == p.control.address # NULL
ControlFaults(p, env) ==
  Fault(p.control.section /\ p.control.address = NULL, "control.address")
  \cup IF Managed(p) THEN Fault(p.control.address = "bad", "control.address")
                          \cup TrustFaults(p.control.trust, env, "control.trust")
       ELSE {}
ControlOf(p, env) ==
  IF ~Managed(p) \/ p.control.address = "bad" \/ TrustOf(p.control.trust, env) = NULL
  THEN NULL ELSE [address |-> p.control.address, trust |-> TrustOf(p.control.trust, env)]

\* [server.acme] and [client.acme]: the settings are dropped without an email,
\* and an absent email is a fault.
AcmeFaults(acme, env, field) ==
  Fault(acme.email = NULL, field)
  \cup Fault(acme.dir = NULL /\ ~env.home, field)
  \cup PathFaults(env, acme.dir, field)
AcmeOf(acme, env, default) ==
  LET dir == IF acme.dir # NULL THEN Existing(env, acme.dir)
             ELSE IF env.home THEN default ELSE NULL
  IN  IF acme.email \in {NULL, "empty"} \/ dir = NULL THEN NULL
      ELSE [kind |-> "acme", dir |-> dir]

-----------------------------------------------------------------------------
\* The Server

BindConflict(binds) == binds.one # NULL /\ binds.many # NULL
\* validate_bind_addresses
BindsAllowed(addresses) == Len(addresses) \in 1..MaxBinds /\ Distinct(addresses)
BindAddresses(binds) ==
  IF binds.one # NULL THEN Known(<<Parsed(binds.one)>>)
  ELSE IF binds.many # NULL THEN Known(ParsedAll(binds.many))
  ELSE <<"default-bind">>
BindFaults(binds, field) ==
  Fault(binds.one = "bad", field)
  \cup IF binds.many = NULL THEN {}
       ELSE Fault("bad" \in ToSet(binds.many), field)
            \cup Fault(Len(binds.many) \notin 1..MaxBinds, field)
            \cup Fault(~BindsAllowed(BindAddresses(binds)), field)

\* prepare_server_config_from_cli: no [server] section and conflicting bind
\* addresses are refused before anything else is looked at.
PreparedServer(file, cli, env) ==
  LET raw == file.server IN
  [hostname  |-> OrElse(cli.hostname, raw.hostname),
   binds     |-> raw.binds, readiness |-> raw.readiness, duration |-> raw.duration,
   proxy     |-> raw.proxy, networks |-> raw.networks,
   certDir   |-> raw.certDir, acme |-> raw.acme, tunnels |-> raw.tunnels, unknown |-> raw.unknown,
   manualDir |-> IF raw.acme = NULL THEN OrElse(raw.certDir, DefaultPath(env, "default-cert")) ELSE NULL,
   control   |-> PreparedControl(file, cli, env),
   identityDir |-> OrElse(raw.identityDir,
                     IF PreparedControl(file, cli, env).address # NULL
                     THEN DefaultPath(env, "default-identity") ELSE NULL)]

\* A Server Tunnel: its hostnames and its authorized Client identities
TunnelHostnames(tunnel) == IF tunnel.hostnames = NULL THEN <<>> ELSE Known(ParsedHostnames(tunnel.hostnames))
TunnelIdentities(tunnel) ==
  CASE tunnel.identity # NULL /\ tunnel.identities # NULL -> <<>>
    [] tunnel.identities # NULL -> Known(ParsedAll(tunnel.identities))
    [] tunnel.identity # NULL   -> Known(<<Parsed(tunnel.identity)>>)
    [] OTHER                    -> <<>>
HostnameFaults(texts, field) ==
  Fault(texts = <<>>, field) \cup Fault(NULL \in ToSet(ParsedHostnames(texts)), field)
TunnelFaults(tunnel) ==
  (IF tunnel.hostnames = NULL THEN {"tunnel.hostnames"} ELSE HostnameFaults(tunnel.hostnames, "tunnel.hostnames"))
  \cup Fault((tunnel.identity = NULL) = (tunnel.identities = NULL), "tunnel.identity")
  \cup Fault(tunnel.identities = NULL /\ tunnel.identity = "bad", "tunnel.identity")
  \cup IF tunnel.identity # NULL \/ tunnel.identities = NULL THEN {}
       ELSE Fault(tunnel.identities = <<>> \/ "bad" \in ToSet(tunnel.identities), "tunnel.identities")
TunnelOf(tunnel) ==
  IF TunnelIdentities(tunnel) = <<>> \/ tunnel.hostnames = NULL \/ tunnel.hostnames = <<>>
       \/ NULL \in ToSet(ParsedHostnames(tunnel.hostnames))
  THEN NULL ELSE [hostnames |-> TunnelHostnames(tunnel), identities |-> TunnelIdentities(tunnel)]
AllOf(entries, Part(_)) == FlattenSeq([i \in DOMAIN entries |-> Part(entries[i])])
\* Mutant: uniqueness within each Tunnel only.
TunnelsFaultsEach(tunnels, hostname) ==
  Fault(tunnels = <<>>, "tunnels")
  \cup (UNION {TunnelFaults(tunnels[i]) : i \in DOMAIN tunnels})
  \cup Fault(\E i \in DOMAIN tunnels : ~Distinct(TunnelIdentities(tunnels[i])), "tunnels.identities")
  \cup Fault(\E i \in DOMAIN tunnels : ~Distinct(TunnelHostnames(tunnels[i])), "tunnels.hostnames")
TunnelsFaults(tunnels, hostname) ==
  Fault(tunnels = <<>>, "tunnels")
  \cup (UNION {TunnelFaults(tunnels[i]) : i \in DOMAIN tunnels})
  \cup Fault(~Distinct(AllOf(tunnels, TunnelIdentities)), "tunnels.identities")
  \cup IF hostname = NULL THEN {}
       ELSE Fault(hostname \in ToSet(AllOf(tunnels, TunnelHostnames)), "server.hostname")
            \cup Fault(~Distinct(AllOf(tunnels, TunnelHostnames)), "tunnels.hostnames")

\* The certificate: manual unless [server.acme] is there.  Whether the
\* material in a directory is valid for the hostname is Credentials' business.
ServerCertificate(p, env) ==
  IF p.acme # NULL
  THEN IF p.certDir = NULL THEN AcmeOf(p.acme, env, "default-acme") ELSE NULL
  ELSE IF p.manualDir \in env.disk \cap env.valid
       THEN [kind |-> "manual", dir |-> p.manualDir] ELSE NULL
CertificateFaults(p, env) ==
  Fault(p.certDir # NULL /\ p.acme # NULL, "server.acme")
  \cup IF p.acme # NULL
       THEN IF p.certDir = NULL THEN AcmeFaults(p.acme, env, "server.acme") ELSE {}
       ELSE Fault(p.manualDir \notin env.disk \cap env.valid, "server.cert-dir")

ServerIdentity(p, env) ==
  IF Managed(p) /\ p.identityDir \in env.disk \cap env.valid THEN p.identityDir ELSE NULL
IdentityFaults(p, env) ==
  IF ~Managed(p) THEN Fault(p.identityDir # NULL, "server.identity-dir")
  ELSE Fault(ServerIdentity(p, env) = NULL, "server.identity-dir")
       \cup Fault(/\ p.identityDir \in env.disk
                  /\ ServerCertificate(p, env) # NULL
                  /\ ServerCertificate(p, env) = [kind |-> "manual", dir |-> p.identityDir], "server.identity-dir")

\* validate_prepared_server_config: every fault of a prepared configuration
ServerFaults(p, env) ==
  LET hostname == IF p.hostname = NULL THEN NULL ELSE ParsedHostname(p.hostname)
      networks == IF p.networks = NULL THEN <<>> ELSE Known(ParsedAll(p.networks))
  IN  UnknownFaults(p) \cup ControlFaults(p, env)
      \cup Fault(hostname = NULL, "server.hostname")
      \cup CertificateFaults(p, env)
      \cup BindFaults(p.binds, "server.binds")
      \cup Fault(p.readiness = "bad", "server.readiness-bind-address")
      \cup Fault(p.duration = "bad", "server.graceful-shutdown-duration")
      \cup Fault(p.proxy \notin {NULL, "v2"}, "server.visitor-proxy-protocol")
      \cup Fault(p.networks # NULL /\ "bad" \in ToSet(OrElse(p.networks, <<>>)), "server.networks")
      \cup Fault(p.proxy = "v2" /\ networks = <<>>, "server.networks")
      \cup Fault(p.proxy # "v2" /\ p.networks # NULL, "server.networks")
      \cup (IF Managed(p) THEN Fault(p.tunnels # <<>>, "tunnels") ELSE TunnelsFaults(p.tunnels, hostname))
      \cup IdentityFaults(p, env)

\* The configuration validation builds; a part it could not build is NULL.
ServerSettings(p, env) ==
  [role        |-> "server",
   managed     |-> Managed(p),
   hostname    |-> IF p.hostname = NULL THEN NULL ELSE ParsedHostname(p.hostname),
   certificate |-> ServerCertificate(p, env),
   duration    |-> IF p.duration = "bad" THEN NULL ELSE OrElse(p.duration, "60s"),
   binds       |-> BindAddresses(p.binds),
   readiness   |-> Parsed(p.readiness),
   networks    |-> IF p.networks = NULL THEN <<>> ELSE Known(ParsedAll(p.networks)),
   tunnels     |-> IF Managed(p) THEN <<>> ELSE Known([i \in DOMAIN p.tunnels |-> TunnelOf(p.tunnels[i])]),
   control     |-> ControlOf(p, env),
   identity    |-> ServerIdentity(p, env)]
\* What the code unwraps once there are no messages
ServerUnwraps(s) == {s.hostname, s.certificate, s.duration}

-----------------------------------------------------------------------------
\* The Client

\* A Service of the command line: it takes every hostname.
CliService(cli) == [hostnames |-> NULL, backend |-> cli.backend, tls |-> NULL, proxy |-> NULL]
\* The command line's Server addresses take the place of the file's.
OverriddenAddresses(raw, cli) ==
  CASE Len(cli.addresses) = 0 -> [one |-> raw.address, many |-> raw.addresses]
    [] Len(cli.addresses) = 1 -> [one |-> cli.addresses[1], many |-> NULL]
    [] OTHER                  -> [one |-> NULL, many |-> cli.addresses]
EmptyClient ==
  [capacity |-> NULL, duration |-> NULL, address |-> NULL, addresses |-> NULL, trust |-> NULL, caFile |-> NULL,
   identityDir |-> NULL, publicDir |-> NULL, acme |-> NULL, services |-> <<>>, unknown |-> FALSE]

\* Without a [client] section the command line has to say everything.
CliOnly(file) == file = NULL \/ file.client = NULL
CliOnlyRefused(cli, control) ==
  \/ cli.backend = NULL
  \/ (control.address # NULL) = (cli.addresses # <<>>)

PreparedClient(file, cli, env) ==
  LET raw       == IF CliOnly(file) THEN EmptyClient ELSE file.client
      control   == PreparedControl(file, cli, env)
      managed   == control.address # NULL
      overridden == IF managed THEN [one |-> raw.address, many |-> raw.addresses] ELSE OverriddenAddresses(raw, cli)
      services  == IF cli.backend # NULL /\ raw.services = <<>> THEN <<CliService(cli)>> ELSE raw.services
      terminates == \E i \in DOMAIN services : services[i].tls = "terminate"
  IN  [capacity |-> OrElse(raw.capacity, DefaultCapacity), duration |-> raw.duration,
       address |-> overridden.one, addresses |-> overridden.many,
       trust |-> PreparedTrust(raw.trust, raw.caFile, DefaultPath(env, "default-ca")),
       identityDir |-> OrElse(raw.identityDir, DefaultPath(env, "default-identity")),
       services |-> services, publicGiven |-> raw.publicDir # NULL,
       publicDir |-> OrElse(raw.publicDir, IF raw.acme = NULL /\ terminates
                                           THEN DefaultPath(env, "default-public") ELSE NULL),
       acme |-> raw.acme, control |-> control,
       unknown |-> \/ raw.unknown
                   \/ managed /\ cli.addresses # <<>>
                   \/ cli.backend # NULL /\ raw.services # <<>>]

ServiceHostnames(service) == IF service.hostnames = NULL THEN <<>> ELSE Known(ParsedHostnames(service.hostnames))
ServiceFaults(service) ==
  (IF service.hostnames = NULL THEN Fault(service.tls = "terminate", "service.hostnames")
   ELSE HostnameFaults(service.hostnames, "service.hostnames"))
  \cup Fault(service.backend \in {NULL, "bad"}, "service.backend")
  \cup Fault(service.tls \notin {NULL, "passthrough", "terminate"}, "service.tls")
  \cup Fault(service.proxy \notin {NULL, "v2"}, "service.proxy")
ServiceOf(service) ==
  IF \/ service.backend \in {NULL, "bad"} \/ service.tls \notin {NULL, "passthrough", "terminate"}
     \/ service.proxy \notin {NULL, "v2"}
     \/ service.hostnames # NULL /\ HostnameFaults(service.hostnames, "any") # {}
  THEN NULL
  ELSE [hostnames |-> IF service.hostnames = NULL THEN NULL ELSE ServiceHostnames(service),
        tls |-> OrElse(service.tls, "passthrough")]
ServicesFaults(services) ==
  Fault(services = <<>>, "services")
  \cup (UNION {ServiceFaults(services[i]) : i \in DOMAIN services})
  \cup Fault(Len(services) > 1 /\ \E i \in DOMAIN services : services[i].hostnames = NULL, "services.shape")
  \cup Fault(~Distinct(AllOf(services, ServiceHostnames)), "services.hostnames")

\* A Server address is a hostname and a port: it has a spelling too.
ClientAddresses(p) ==
  IF Managed(p) THEN <<>>
  ELSE Known(ParsedHostnames((IF p.address = NULL THEN <<>> ELSE <<p.address>>) \o OrElse(p.addresses, <<>>)))
AddressFaults(p) ==
  LET texts == (IF p.address = NULL THEN <<>> ELSE <<p.address>>) \o OrElse(p.addresses, <<>>) IN
  Fault(NULL \in ToSet(ParsedHostnames(texts)), "client.addresses")
  \cup IF Managed(p) THEN Fault(p.address # NULL \/ p.addresses # NULL, "client.addresses")
       ELSE Fault((p.address = NULL) = (p.addresses = NULL), "client.addresses")
            \cup Fault(p.addresses # NULL /\ Len(OrElse(p.addresses, <<>>)) \notin 1..MaxServerAddresses, "client.addresses")
            \cup Fault(~Distinct(ClientAddresses(p)), "client.addresses")

PublicCertificate(p, env) ==
  IF p.acme # NULL
  THEN IF p.publicGiven THEN NULL ELSE AcmeOf(p.acme, env, "default-acme")
  ELSE IF p.publicDir \in env.disk THEN [kind |-> "manual", dir |-> p.publicDir] ELSE NULL
Terminates(services) == \E i \in DOMAIN services : services[i].tls = "terminate"
PublicFaults(p, env) ==
  Fault(p.publicGiven /\ p.acme # NULL, "client.acme")
  \cup (IF p.acme # NULL THEN IF p.publicGiven THEN {} ELSE AcmeFaults(p.acme, env, "client.acme")
        ELSE PathFaults(env, p.publicDir, "client.public-cert-dir"))
  \cup Fault(/\ Terminates(p.services)
             /\ PublicCertificate(p, env) = NULL /\ ~(p.publicDir # NULL /\ p.acme = NULL), "client.public-cert-dir")
  \cup Fault((p.publicGiven \/ p.acme # NULL) /\ ~Terminates(p.services), "client.public-cert-dir")

\* The identity directory and, once it is there, each of its files
ClientIdentityFaults(p, env) ==
  IF p.identityDir \notin env.disk THEN {"client.identity-dir"}
  ELSE {part \in IdentityParts : <<p.identityDir, part>> \notin env.identityFiles}

\* validate_prepared_client_config
ClientFaults(p, env) ==
  UnknownFaults(p) \cup ControlFaults(p, env)
  \cup Fault(p.capacity \notin MinCapacity..MaxCapacity, "client.max-visitor-streams")
  \cup Fault(p.duration = "bad", "client.graceful-shutdown-duration")
  \cup AddressFaults(p)
  \cup TrustFaults(p.trust, env, "client.server-trust")
  \cup ClientIdentityFaults(p, env)
  \cup PublicFaults(p, env)
  \cup ServicesFaults(p.services)
ClientSettings(p, env) ==
  [role        |-> "client",
   managed     |-> Managed(p),
   capacity    |-> p.capacity,
   addresses   |-> ClientAddresses(p),
   trust       |-> TrustOf(p.trust, env),
   identity    |-> Existing(env, p.identityDir),
   duration    |-> IF p.duration = "bad" THEN NULL ELSE OrElse(p.duration, "60s"),
   certificate |-> PublicCertificate(p, env),
   services    |-> Known([i \in DOMAIN p.services |-> ServiceOf(p.services[i])]),
   control     |-> ControlOf(p, env)]
ClientUnwraps(s) == {s.duration, s.trust, s.identity}
-----------------------------------------------------------------------------
\* What startup checks again, with code of its own

\* build_authorization_maps of the static Tunnels
AuthorizationBuilds(s) ==
  /\ \A i \in DOMAIN s.tunnels : s.tunnels[i].hostnames # <<>>
  /\ Distinct(AllOf(s.tunnels, LAMBDA t : t.identities))
  /\ Distinct(AllOf(s.tunnels, LAMBDA t : t.hostnames))
  /\ s.hostname \notin ToSet(AllOf(s.tunnels, LAMBDA t : t.hostnames))

\* validate_services
ServicesValid(services) ==
  /\ services # <<>>
  /\ \A i \in DOMAIN services :
       IF services[i].hostnames = NULL THEN Len(services) = 1 ELSE services[i].hostnames # <<>>
  /\ Distinct(AllOf(services, LAMBDA v : OrElse(v.hostnames, <<>>)))
\* acme_terminating_hostnames
TerminatingHostnames(services) ==
  UNION {ToSet(OrElse(services[i].hostnames, <<>>)) : i \in {j \in DOMAIN services : services[j].tls = "terminate"}}
\* ServiceSelector::select: the Services that would take a Visitor of a hostname
Selects(services, hostname) ==
  IF Len(services) = 1 /\ services[1].hostnames = NULL THEN {1}
  ELSE {i \in DOMAIN services : hostname \in ToSet(OrElse(services[i].hostnames, <<>>))}

\* load_termination_tls_configs: with manual certificates the leaf and the key
\* of every terminating hostname are read, with ACME there has to be one.
TerminationLoadsOne(s, env) ==  \* mutant: one leaf is enough
  \/ s.certificate = NULL \/ s.certificate.kind = "acme"
  \/ \E h \in TerminatingHostnames(s.services) : <<s.certificate.dir, h>> \in env.leaves
TerminationLoads(s, env) ==
  \/ s.certificate = NULL
  \/ /\ s.certificate.kind = "manual"
     /\ \A h \in TerminatingHostnames(s.services) : <<s.certificate.dir, h>> \in env.leaves
  \/ s.certificate.kind = "acme" /\ TerminatingHostnames(s.services) # {}

StartupAccepts(s, env) ==
  CASE s.role = "server" -> BindsAllowed(s.binds) /\ (~s.managed => AuthorizationBuilds(s))
    [] s.role = "client" -> ServicesValid(s.services) /\ TerminationLoads(s, env)

-----------------------------------------------------------------------------
ConfigInit == /\ \E family \in Inputs : input \in family
              /\ resolution = "raw" /\ prepared = NULL /\ settings = NULL
ConfigIdle == input = NULL /\ resolution = "rejected" /\ prepared = NULL /\ settings = NULL

\* A file that cannot be read or parsed, a missing [server] section, a bind
\* address given twice and a command line that says too little end it here.
Refused ==
  LET file == input.file IN
  \/ file # NULL /\ ~file.parses
  \/ /\ input.role = "server"
     /\ file = NULL \/ file.server = NULL \/ BindConflict(file.server.binds)
  \/ /\ input.role = "client" /\ CliOnly(file)
     /\ CliOnlyRefused(input.cli, PreparedControl(file, input.cli, input.env))

PrepareConfig ==
  /\ resolution = "raw"
  /\ IF Refused THEN resolution' = "rejected" /\ UNCHANGED prepared
     ELSE /\ resolution' = "prepared"
          /\ prepared' = IF input.role = "server" THEN PreparedServer(input.file, input.cli, input.env)
                         ELSE PreparedClient(input.file, input.cli, input.env)
  /\ UNCHANGED <<input, settings>>

Validate ==
  LET server == input.role = "server"
      faults == IF server THEN ServerFaults(prepared, input.env) ELSE ClientFaults(prepared, input.env)
      built  == IF server THEN ServerSettings(prepared, input.env) ELSE ClientSettings(prepared, input.env)
      unwraps == IF server THEN ServerUnwraps(built) ELSE ClientUnwraps(built)
  IN  /\ resolution = "prepared"
      /\ resolution' = IF faults # {} THEN "rejected" ELSE IF NULL \in unwraps THEN "panicked" ELSE "accepted"
      /\ settings' = IF faults = {} /\ NULL \notin unwraps THEN built ELSE NULL
      /\ UNCHANGED <<input, prepared>>

Start ==
  /\ resolution = "accepted"
  /\ resolution' = IF StartupAccepts(settings, input.env) THEN "started" ELSE "refused"
  /\ UNCHANGED <<input, prepared, settings>>

ConfigNext == PrepareConfig \/ Validate \/ Start

-----------------------------------------------------------------------------
\* Startup and validation are separate code, and the hostnames, identities,
\* Services and bind addresses are checked by both.  What validation accepted
\* startup refuses for one reason only: validation looks no further than the
\* public certificate directory, and the leaf of a hostname that is to be
\* terminated is not in it (load_manual_termination_tls_configs).
RefusedForALeaf ==
  resolution = "refused" =>
    /\ settings.role = "client" /\ settings.certificate # NULL /\ settings.certificate.kind = "manual"
    /\ \E h \in TerminatingHostnames(settings.services) : <<settings.certificate.dir, h>> \notin input.env.leaves
\* A Client that started can terminate for every hostname it is to terminate.
StartedTerminates ==
  resolution = "started" /\ settings.role = "client" =>
    \A h \in TerminatingHostnames(settings.services) :
      /\ settings.certificate # NULL
      /\ settings.certificate.kind = "acme" \/ <<settings.certificate.dir, h>> \in input.env.leaves
\* With no fault found, building the configuration can unwrap a part that is
\* not there in one case only: a Server with ACME and an empty email.
PanicsForAnEmail ==
  resolution = "panicked" => input.role = "server" /\ prepared.acme # NULL /\ prepared.acme.email = "empty"
AcceptedStarts == RefusedForALeaf /\ StartedTerminates /\ PanicsForAnEmail

\* What is accepted is what was written: no Tunnel, Service, address or
\* network is dropped on the way, the mode's parts are all there, and a
\* Visitor of any hostname is one Service's.
AcceptedIsWhole ==
  resolution \in {"accepted", "started"} =>
    /\ settings.managed <=> settings.control # NULL
    /\ settings.role = "server" =>
         /\ IF settings.managed THEN settings.identity # NULL /\ settings.tunnels = <<>>
            ELSE settings.tunnels # <<>> /\ Len(settings.tunnels) = Len(prepared.tunnels)
         /\ settings.readiness = prepared.readiness
         /\ (prepared.proxy = "v2") = (settings.networks # <<>>)
         /\ Len(settings.networks) = Len(OrElse(prepared.networks, <<>>))
         /\ settings.identity # NULL => settings.certificate # [kind |-> "manual", dir |-> settings.identity]
    /\ settings.role = "client" =>
         /\ Len(settings.services) = Len(prepared.services)
         /\ \A i \in DOMAIN settings.services :
              \A h \in ToSet(OrElse(settings.services[i].hostnames, <<>>)) : Selects(settings.services, h) = {i}
         /\ (TerminatingHostnames(settings.services) # {}) = (settings.certificate # NULL)
         /\ IF settings.managed THEN settings.addresses = <<>>
            ELSE Len(settings.addresses) \in 1..MaxServerAddresses
         /\ input.cli.addresses # <<>> => settings.addresses = ParsedHostnames(input.cli.addresses)

(***************************************************************************)
(* A configuration that validation accepts is served as it was written.    *)
(***************************************************************************)
AcceptedServes == AcceptedStarts /\ AcceptedIsWhole
================================================================================
