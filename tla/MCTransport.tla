----------------------------- MODULE MCTransport ----------------------------
(***************************************************************************)
(* Values of the function-valued constants of Transport for the runs.      *)
(***************************************************************************)
EXTENDS Transport

\* Both directions start just below the wrap-around of the sequence space.
BeforeWrap == [p \in Peers |-> Modulus - 1]

Sends(client, server) == [p \in Peers |-> IF p = Client THEN client ELSE server]
SendNothing    == Sends(0, 0)
ClientSendsOne == Sends(1, 0)
ClientSendsThree == Sends(3, 0)
ClientSendsFour == Sends(4, 0)

\* Established is what the operations themselves make of connect, SYN, SYN+ACK
\* and ACK.
ASSUME HandshakeAssumption ==
    LET the(set) == CHOOSE s \in set : TRUE
        sent(c)  == the(c.out)
        quiet(c) == [c EXCEPT !.out = {}]
        answer(c, s) == OnSegment(quiet(c), s)
        finish(client, server) ==
            /\ quiet(client) = Established(Client)
            /\ quiet(answer(server, sent(client))) = Established(Server)
        reply(client, server) == finish(answer(client, sent(server)), server)
        open(client) == reply(client, answer(NewEndpoint(Server), sent(client)))
    IN  open(Connect(NewEndpoint(Client)))
=============================================================================
