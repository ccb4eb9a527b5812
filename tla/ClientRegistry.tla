--------------------------- MODULE ClientRegistry ---------------------------
(***************************************************************************)
(* What the storage of persistent clients promises: a set of clients, each *)
(* under a unique identifier (UID), no two of which have the same name or  *)
(* share an identifier, and a copy of it in the configuration file from    *)
(* which a restart begins.  ClientIndex implements it with six maps.       *)
(***************************************************************************)

CONSTANTS
    UIDs,       \* unique identifiers of clients
    Clients,    \* the clients: records with at least a name and ids
    NoClient    \* the absence of a client

VARIABLES
    clients,    \* the client registered under each UID
    saved       \* what the configuration file says of them

vars == <<clients, saved>>

Conflict(p, q) == p.name = q.name \/ p.ids \cap q.ids # {}

(* A client may be registered as u if no other client is in its way.       *)
Fits(u, p) ==
    \A v \in UIDs \ {u} : clients[v] = NoClient \/ ~Conflict(p, clients[v])

Disjoint(reg) ==
    \A u, v \in UIDs :
        (u # v /\ reg[u] # NoClient /\ reg[v] # NoClient) => ~Conflict(reg[u], reg[v])

Init ==
    /\ clients = [u \in UIDs |-> NoClient]
    /\ saved \in [UIDs -> Clients \cup {NoClient}]
    /\ Disjoint(saved)

Put(u, p) ==
    /\ Fits(u, p)
    /\ clients' = [clients EXCEPT ![u] = p]
    /\ UNCHANGED saved

Remove(u) ==
    /\ clients[u] # NoClient
    /\ clients' = [clients EXCEPT ![u] = NoClient]
    /\ UNCHANGED saved

Save ==
    /\ saved' = clients
    /\ UNCHANGED clients

Reload ==
    /\ clients' = saved
    /\ UNCHANGED saved

Next ==
    \/ \E u \in UIDs : Remove(u) \/ \E p \in Clients : Put(u, p)
    \/ Save
    \/ Reload

Spec == Init /\ [][Next]_vars
=============================================================================
