--------------------------- MODULE Authorization ---------------------------
(***************************************************************************)
(* The Server's authorization state (src/server/authorization.rs): the     *)
(* live Authorization snapshot, the validation of a Managed replacement    *)
(* candidate beside it, and the commit that swaps it.  The Tunnel pools    *)
(* and the Visitor work that follow a commit extend this module.           *)
(***************************************************************************)
EXTENDS Naturals, Sequences

CONSTANTS Identities,      \* Client identities that may present a certificate
          Hostnames,       \* hostnames a Tunnel configuration may name
          ServerHostname,  \* the Server's own hostname, a member of Hostnames
          TunnelIds,       \* Tunnel IDs that Control hands out
          NoTunnelId       \* the `id: None` of a static Tunnel configuration

ASSUME ServerHostnameAssumption == ServerHostname \in Hostnames
ASSUME NoTunnelIdAssumption == NoTunnelId \notin TunnelIds

VARIABLE authorization     \* [version, snapshot]: `version` is the identity of
                           \* the Arc that holds the live snapshot

None == 0   \* an absent map entry; Tunnel indices start at 1

\* One entry of the `tunnels` of an input.
ServerTunnelConfig ==
  [id: TunnelIds \cup {NoTunnelId},
   authorized_client_identities: Seq(Identities),
   public_hostnames: Seq(Hostnames)]

AuthorizationSnapshot ==
  [client_identity_to_tunnel: [Identities -> Nat],
   public_hostname_to_tunnel: [Hostnames -> Nat],
   tunnel_ids: Seq(TunnelIds)]

(***************************************************************************)
(* The positions <<tunnel, place in its list>> at which a list of lists    *)
(* names x.                                                                *)
(***************************************************************************)
IdentityPlaces(tunnels, x) ==
  UNION {{<<i, k>> : k \in {j \in DOMAIN tunnels[i].authorized_client_identities :
                              tunnels[i].authorized_client_identities[j] = x}} :
         i \in DOMAIN tunnels}

HostnamePlaces(tunnels, h) ==
  UNION {{<<i, k>> : k \in {j \in DOMAIN tunnels[i].public_hostnames :
                              tunnels[i].public_hostnames[j] = h}} :
         i \in DOMAIN tunnels}

AtMostOne(places) == \A p, q \in places : p = q

TunnelOf(places) == IF places = {} THEN None ELSE (CHOOSE p \in places : TRUE)[1]

\* build_authorization_maps returns Ok.
AuthorizationMapsValid(tunnels) ==
  /\ \A i \in DOMAIN tunnels : tunnels[i].public_hostnames # <<>>
  /\ \A x \in Identities : AtMostOne(IdentityPlaces(tunnels, x))
  /\ \A h \in Hostnames : AtMostOne(HostnamePlaces(tunnels, h))
  /\ HostnamePlaces(tunnels, ServerHostname) = {}

\* try_from_managed_tunnels returns Ok: Tunnel IDs are present and unique.
ManagedTunnelsValid(tunnels) ==
  /\ \A i \in DOMAIN tunnels : tunnels[i].id # NoTunnelId
  /\ \A i, j \in DOMAIN tunnels : tunnels[i].id = tunnels[j].id => i = j
  /\ AuthorizationMapsValid(tunnels)

\* The snapshot built from a valid list of Tunnels.
SnapshotOf(tunnels) ==
  [client_identity_to_tunnel |->
     [x \in Identities |-> TunnelOf(IdentityPlaces(tunnels, x))],
   public_hostname_to_tunnel |->
     [h \in Hostnames |-> TunnelOf(HostnamePlaces(tunnels, h))],
   tunnel_ids |-> [i \in DOMAIN tunnels |-> tunnels[i].id]]

\* Managed startup: an empty snapshot that authorizes nothing.
EmptyManaged == SnapshotOf(<<>>)

AuthorizationInit == authorization = [version |-> 0, snapshot |-> EmptyManaged]

Current == authorization.snapshot

TunnelIndexForPublicHostname(snapshot, h) == snapshot.public_hostname_to_tunnel[h]

TunnelIndexForClientIdentity(snapshot, x) == snapshot.client_identity_to_tunnel[x]

TrustedClientIdentities(snapshot) ==
  {x \in Identities : TunnelIndexForClientIdentity(snapshot, x) # None}

\* The Tunnel ID an identity is authorized for, NoTunnelId when it has none.
TunnelIdOfIdentity(snapshot, x) ==
  LET index == TunnelIndexForClientIdentity(snapshot, x)
  IN  IF index = None THEN NoTunnelId ELSE snapshot.tunnel_ids[index]

\* A Public hostname and a Client identity are authorized for one Tunnel.
AuthorizedTogether(snapshot, h, x) ==
  /\ TunnelIndexForPublicHostname(snapshot, h) # None
  /\ TunnelIndexForPublicHostname(snapshot, h)
       = TunnelIndexForClientIdentity(snapshot, x)

\* commit: the prepared snapshot replaces the live one, under a new Arc.
Commit(tunnels) ==
  authorization' = [version  |-> authorization.version + 1,
                    snapshot |-> SnapshotOf(tunnels)]
=============================================================================
