---------------------------- MODULE EndpointsMC ----------------------------
(* An instance of Endpoints: two IPv4 addresses and one IPv6 address, one   *)
(* port, two configurations, and the socket calls listed here.            *)
EXTENDS Endpoints

CONSTANTS a4, b4, a6

\* IPv6 and the route to the IPv4 remote endpoint come when b4 goes; a4 stays.
MCInitial == [locals |-> {a4, b4}, routed |-> {}]
MCNetworks == {MCInitial, [locals |-> {a4, a6}, routed |-> {4, 6}]}

Call(op, net, addr, port, ra, rp) ==
    [op |-> op, net |-> net, addr |-> addr, port |-> port, ra |-> ra, rp |-> rp]

UDPCalls ==
    {Call("listenUDP", 0, Any6, 1, FALSE, FALSE), Call("listenUDP", 0, Any6, 1, TRUE, TRUE),
     Call("listenUDP", 4, a4, 1, TRUE, FALSE), Call("listenUDP", 4, Any4, 1, FALSE, TRUE),
     Call("listenUDP", 6, Any6, 0, TRUE, FALSE), Call("dialUDP", 4, Any4, 0, FALSE, FALSE)}

TCPCalls ==
    {Call("listenTCP", 0, Any6, 1, TRUE, FALSE), Call("listenTCP", 4, b4, 1, TRUE, TRUE),
     Call("dialTCP", 4, Any4, 0, FALSE, FALSE)}

IPCalls ==
    {Call("listenIP", 0, Any6, 0, FALSE, FALSE), Call("listenIP", 0, b4, 0, FALSE, FALSE),
     Call("dialIP", 4, Any4, 0, FALSE, FALSE)}

MCRequests == UDPCalls \cup TCPCalls \cup IPCalls
=============================================================================
