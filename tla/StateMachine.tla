---------------------------- MODULE StateMachine ----------------------------
(***************************************************************************)
(* The connection state table and its handler                              *)
(* (src/transport/state_machine.cpp).  A machine is a record with the      *)
(* fields state and reset_sent; Connection carries both in its own record. *)
(***************************************************************************)

ConnectionState == {"closed", "syn_sent", "syn_received", "established",
                    "fin_wait_1", "fin_wait_2", "close_wait", "last_ack",
                    "time_wait"}

ConnectionEvent == {"app_connect", "app_close", "receive_syn",
                    "receive_syn_ack", "receive_ack", "receive_fin",
                    "receive_rst", "time_wait_expired"}

ConnectionAction == {"send_syn", "send_ack", "send_fin", "send_rst",
                     "notify_connected", "notify_closed", "notify_error"}

kSynAck     == {"send_syn", "send_ack"}
kCloseError == {"notify_error", "notify_closed"}

\* <<from, event, to, actions>>; no pair <<from, event>> occurs twice.
kTransitions == {
    <<"closed", "app_connect", "syn_sent", {"send_syn"}>>,
    <<"closed", "receive_syn", "syn_received", kSynAck>>,
    <<"syn_sent", "receive_syn", "syn_received", kSynAck>>,
    <<"syn_sent", "receive_syn_ack", "established",
      {"send_ack", "notify_connected"}>>,
    <<"syn_received", "receive_ack", "established", {"notify_connected"}>>,
    <<"established", "app_close", "fin_wait_1", {"send_fin"}>>,
    <<"established", "receive_fin", "close_wait", {"send_ack"}>>,
    <<"fin_wait_1", "receive_ack", "fin_wait_2", {}>>,
    <<"fin_wait_1", "receive_fin", "time_wait", {"send_ack"}>>,
    <<"fin_wait_2", "receive_fin", "time_wait", {"send_ack"}>>,
    <<"close_wait", "app_close", "last_ack", {"send_fin"}>>,
    <<"last_ack", "receive_ack", "closed", {"notify_closed"}>>,
    <<"time_wait", "time_wait_expired", "closed", {"notify_closed"}>>,
    <<"closed", "receive_rst", "closed", {"notify_error"}>>,
    <<"closed", "time_wait_expired", "closed", {}>> }
  \cup {<<s, "receive_rst", "closed", kCloseError>> :
            s \in ConnectionState \ {"closed"}}

Defined(state, event) ==
    \E t \in kTransitions : t[1] = state /\ t[2] = event

\* Mutant: reset_sent_ is not looked at.
HandleResetsAgain(c, event) ==
    IF Defined(c.state, event)
    THEN LET t == CHOOSE t \in kTransitions :
                      t[1] = c.state /\ t[2] = event
         IN  [c |-> [c EXCEPT !.state = t[3]], actions |-> t[4], accepted |-> TRUE]
    ELSE [c |-> [c EXCEPT !.state = "closed"],
          actions |-> {"notify_error", "send_rst"}, accepted |-> FALSE]

\* ConnectionStateMachine::handle.  An undefined pair closes the connection,
\* reports an error and asks for a reset unless one was already sent.
Handle(c, event) ==
    IF Defined(c.state, event)
    THEN LET t == CHOOSE t \in kTransitions :
                      t[1] = c.state /\ t[2] = event
         IN  [c |-> [c EXCEPT !.state = t[3],
                              !.reset_sent =
                                 @ /\ ~(/\ c.state = "closed"
                                        /\ event \in {"app_connect",
                                                      "receive_syn"})],
              actions  |-> t[4],
              accepted |-> TRUE]
    ELSE [c |-> [c EXCEPT !.state = "closed", !.reset_sent = TRUE],
          actions  |-> {"notify_error"} \cup
                       (IF c.reset_sent THEN {} ELSE {"send_rst"}),
          accepted |-> FALSE]
=============================================================================
