------------------------------- MODULE Docker -------------------------------
(***************************************************************************)
(* The docker daemon, as the proxy sees it: containers start and stop, and *)
(* a running container on the bridge network owns one address until it     *)
(* stops.  docker is external to the repository; this is what container.go *)
(* relies on when it maps addresses to containers.                         *)
(***************************************************************************)
EXTENDS Integers

CONSTANTS
    Containers,      \* container ids
    HostNetworked,   \* containers run with --net=host: docker reports no address
    IPs,             \* addresses of the bridge network
    NoIP,            \* the empty address docker reports for the others
    ReuseAddresses   \* may docker give a container the address of another one?

ASSUME DockerAssumption ==
    /\ HostNetworked \subseteq Containers
    /\ NoIP \notin IPs
    /\ ReuseAddresses \in BOOLEAN

VARIABLES
    running,   \* the running containers
    address,   \* address of each container, NoIP while it is stopped
    tenants    \* every container that ever had the address (history)

dockerVars == <<running, address, tenants>>

DockerTypeOK ==
    /\ running \subseteq Containers
    /\ address \in [Containers -> IPs \cup {NoIP}]
    /\ tenants \in [IPs -> SUBSET Containers]

DockerInit ==
    /\ running = {}
    /\ address = [c \in Containers |-> NoIP]
    /\ tenants = [a \in IPs |-> {}]

\* The running container that sends from address a, if there is one.
Owners(a) == {c \in running : address[c] = a}

StartHostNetworked(c) ==
    /\ c \in HostNetworked \ running
    /\ running' = running \cup {c}
    /\ UNCHANGED <<address, tenants>>

Start(c, a) ==
    /\ c \notin running \cup HostNetworked
    /\ Owners(a) = {}
    /\ ReuseAddresses \/ tenants[a] \subseteq {c}
    /\ running' = running \cup {c}
    /\ address' = [address EXCEPT ![c] = a]
    /\ tenants' = [tenants EXCEPT ![a] = @ \cup {c}]

Stop(c) ==
    /\ c \in running
    /\ running' = running \ {c}
    /\ address' = [address EXCEPT ![c] = NoIP]
    /\ UNCHANGED tenants

DockerNext ==
    \E c \in Containers :
        \/ StartHostNetworked(c)
        \/ \E a \in IPs : Start(c, a)
        \/ Stop(c)
=============================================================================
