------------------------------ MODULE AddressPool ------------------------------
(***************************************************************************)
(* The addresses WireGuard peers get: allocateWireguardPeerIpv4 and its    *)
(* 32-bit arithmetic.  The code mixes unsigned words (`>>> 0`) with the    *)
(* signed results of `&` and `|`; the word here has 2 * Half values.       *)
(***************************************************************************)
EXTENDS Integers, FiniteSets

CONSTANTS Half,     \* 2^31: the first word that reads as a negative number
          Server,   \* WIREGUARD_SERVER_ADDRESS_CIDR: the server's address
          Block     \* ... and the size 2^(32 - cidr) of its network

Words == 0..(2 * Half - 1)

\* Block is a power of two and so divides the word; cidr 0 is one more case.
ASSUME PoolAssumption ==
    /\ Half \in Nat \ {0}
    /\ Server \in Words
    /\ Block \in 1..(2 * Half)
    /\ Block = 2 * Half \/ \E k \in 1..Half : Half = k * Block

\* The result of a bitwise operator, and what `>>>` makes of it.
Signed(word)  == IF word < Half THEN word ELSE word - 2 * Half
ToAddress(int) == IF int < 0 THEN int + 2 * Half ELSE int

\* parseWireguardNetwork.
Base             == Server - (Server % Block)
NetworkAddress   == Signed(Base)
BroadcastAddress == Signed(Base + Block - 1)

\* The candidates the loop does not skip; a slip would forget the server.
CandidatesAll(used) == {n \in (NetworkAddress + 1)..(BroadcastAddress - 1) : n \notin used}
Candidates(used) == {n \in (NetworkAddress + 1)..(BroadcastAddress - 1) :
                        n # Server /\ n \notin used}

\* The first candidate, as the address that is stored.
Allocate(used) ==
    ToAddress(CHOOSE n \in Candidates(used) : \A m \in Candidates(used) : n <= m)

-------------------------------------------------------------------------------
(***************************************************************************)
(* What the allocator is for, on plain words.                              *)
(***************************************************************************)

\* The addresses of the network that a peer may have.
Hosts == {a \in Words : a > Base /\ a < Base + Block - 1 /\ a # Server}

\* The allocator refuses exactly when no host is left, and otherwise returns
\* the lowest host that is not in use.
AllocatesLowestHost(used) ==
    LET free == Hosts \ used
    IN  /\ Candidates(used) = {} <=> free = {}
        /\ free # {} => /\ Allocate(used) \in free
                        /\ \A a \in free : Allocate(used) <= a
===============================================================================
